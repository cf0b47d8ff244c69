---------------------------- MODULE HttpSessions ----------------------------
(***************************************************************************)
(* The server's coroutines: Listener::run, which accepts connections and   *)
(* spawns a session for each, and Connection::run, the session: TLS        *)
(* handshake, then read a request, dispatch it, write the response, until  *)
(* the client closes or something fails.                                   *)
(*                                                                         *)
(* All coroutines share the io threads; a handler, and the five seconds    *)
(* notFound sleeps, occupy the thread they run on.  A session that has     *)
(* ended stays in ServerState::connectionList, and so does its socket: the *)
(* descriptor is closed only by the timeout of a pending operation.        *)
(***************************************************************************)
EXTENDS Integers, Sequences, FiniteSets

CONSTANTS Conns,        \* connections clients may attempt, one try each
          IoThreads,    \* how many threads run the io_context
          MaxFds,       \* how many sockets the process may have open
          MaxRequests   \* bounds on the requests sent over each connection

ASSUME SessionsAssumption ==
    /\ IsFiniteSet(Conns)
    /\ IoThreads \in Nat \ {0}
    /\ MaxFds \in Nat
    /\ MaxRequests \in [Conns -> Nat]

(* What a request is to Connection::run: one a route answers, one no route *)
(* matches, one with another method than GET or HEAD, one whose target is  *)
(* not absolute or contains "..", one http::async_read cannot parse.       *)
Kinds == {"found", "missing", "badMethod", "badTarget", "malformed"}
Rejected == {"badMethod", "badTarget"}

VARIABLES
    listener,       \* the step Listener::run is at
    backlog,        \* connections in the kernel's accept queue
    client,         \* what the client's end of a connection has done
    asked,          \* the requests sent over a connection, in order
    connectionList, \* ServerState::connectionList
    pc,             \* the operation Connection::run waits for or performs
    outcome,        \* how Connection::run returned
    open,           \* is the server's socket open?
    nRead,          \* how many requests it has read
    status,         \* the status of the response being made (0: none)
    replies         \* the statuses written to a connection, in order

serverVars == <<listener, connectionList, backlog>>
clientVars == <<client, asked>>
sessionVars == <<pc, outcome, open, nRead, status, replies>>
vars == <<serverVars, clientVars, sessionVars>>

Init ==
    /\ listener = "open"
    /\ backlog = {}
    /\ client = [c \in Conns |-> "idle"]
    /\ asked = [c \in Conns |-> <<>>]
    /\ connectionList = {}
    /\ pc = [c \in Conns |-> "none"]
    /\ outcome = [c \in Conns |-> "none"]
    /\ open = [c \in Conns |-> FALSE]
    /\ nRead = [c \in Conns |-> 0]
    /\ status = [c \in Conns |-> 0]
    /\ replies = [c \in Conns |-> <<>>]

(* Sessions that occupy the io thread they run on, in a handler or in      *)
(* notFound's sleep; any other step needs a thread that is not.            *)
Occupying == {c \in Conns : pc[c] \in {"dispatch", "sleep"}}
FreeThread == Cardinality(Occupying) < IoThreads

-----------------------------------------------------------------------------
(* Clients *)

ClientConnect(c) ==
    /\ listener = "accept" /\ client[c] = "idle"
    /\ client' = [client EXCEPT ![c] = "connected"]
    /\ backlog' = backlog \cup {c}
    /\ UNCHANGED <<listener, connectionList, asked, sessionVars>>

(* Requests may be pipelined: sent before earlier ones are answered. *)
ClientSend(c, k) ==
    /\ client[c] = "connected" /\ pc[c] \notin {"none", "handshake"} /\ open[c]
    /\ Len(asked[c]) < MaxRequests[c]
    /\ asked' = [asked EXCEPT ![c] = Append(@, k)]
    /\ UNCHANGED <<serverVars, client, sessionVars>>

(* close_notify and FIN; what was sent before is still delivered. *)
ClientClose(c) ==
    /\ client[c] = "connected" /\ pc[c] \notin {"none", "handshake"}
    /\ client' = [client EXCEPT ![c] = "closed"]
    /\ UNCHANGED <<serverVars, asked, sessionVars>>

(* A reset: what the server has not read is lost. *)
ClientAbort(c) ==
    /\ client[c] \in {"connected", "closed"}
    /\ client' = [client EXCEPT ![c] = "aborted"]
    /\ UNCHANGED <<serverVars, asked, sessionVars>>

Client(c) == \/ ClientConnect(c) \/ ClientClose(c) \/ ClientAbort(c)
             \/ \E k \in Kinds : ClientSend(c, k)

-----------------------------------------------------------------------------
(* Listener::run *)

Setup == <<"open", "setOption", "bind", "listen", "accept">>

(* acceptor.open, set_option, bind, listen: each returns at its error, and *)
(* nobody is told.                                                         *)
ListenerSetup ==
    /\ FreeThread
    /\ \E i \in 1..4 : /\ listener = Setup[i]
                       /\ listener' \in {Setup[i + 1], "down"}
    /\ UNCHANGED <<backlog, connectionList, clientVars, sessionVars>>

(* A descriptor is free: the connection is stored under globalMutex and    *)
(* its session spawned.                                                    *)
HasDescriptorKeepsOne == Cardinality({c \in Conns : open[c]}) < MaxFds - 1
HasDescriptor == Cardinality({c \in Conns : open[c]}) < MaxFds

Accept(c) ==
    /\ listener = "accept" /\ FreeThread
    /\ c \in backlog /\ HasDescriptor
    /\ backlog' = backlog \ {c}
    /\ connectionList' = connectionList \cup {c}
    /\ open' = [open EXCEPT ![c] = TRUE]
    /\ pc' = [pc EXCEPT ![c] = "handshake"]
    /\ UNCHANGED <<listener, clientVars, outcome, nRead, status, replies>>

(* async_accept fails and the loop continues: the connection was reset in  *)
(* the queue.  (Without a free descriptor it fails, too, and is tried      *)
(* again at once: a step that changes nothing.)                            *)
AcceptError(c) ==
    /\ listener = "accept" /\ FreeThread
    /\ c \in backlog /\ client[c] = "aborted"
    /\ backlog' = backlog \ {c}
    /\ UNCHANGED <<listener, connectionList, clientVars, sessionVars>>

Listener == ListenerSetup \/ \E c \in Conns : Accept(c) \/ AcceptError(c)

-----------------------------------------------------------------------------
(* Connection::run *)

Return(c, how) ==
    /\ pc' = [pc EXCEPT ![c] = "ended"]
    /\ outcome' = [outcome EXCEPT ![c] = how]

(* async_handshake; it may fail with a live client, too. *)
Handshake(c) ==
    /\ pc[c] = "handshake" /\ FreeThread
    /\ \/ /\ client[c] # "aborted"
          /\ pc' = [pc EXCEPT ![c] = "read"] /\ UNCHANGED outcome
       \/ Return(c, "error")
    /\ UNCHANGED <<serverVars, clientVars, open, nRead, status, replies>>

(* async_read completes with the next request.  A method or a target the   *)
(* server does not serve ends the session: badRequest fills a response,    *)
(* and run returns its 0 without writing it.                               *)
AfterReadServesAll(k) == IF k = "malformed" THEN "error" ELSE "dispatch"
AfterRead(k) == CASE k = "malformed" -> "error"
                  [] k \in Rejected -> "badRequest"
                  [] OTHER -> "dispatch"

ConsumedTwice(n) == n + 2
Consumed(n) == n + 1

ReadRequest(c) ==
    /\ pc[c] = "read" /\ FreeThread
    /\ client[c] # "aborted" /\ nRead[c] < Len(asked[c])
    /\ LET next == AfterRead(asked[c][nRead[c] + 1])
       IN  IF next = "dispatch"
           THEN pc' = [pc EXCEPT ![c] = "dispatch"] /\ UNCHANGED outcome
           ELSE Return(c, next)
    /\ nRead' = [nRead EXCEPT ![c] = Consumed(@)]
    /\ UNCHANGED <<serverVars, clientVars, open, status, replies>>

(* ... with end_of_stream, once everything sent has been read: break. *)
ReadEnd(c) ==
    /\ pc[c] = "read" /\ FreeThread
    /\ client[c] = "closed" /\ nRead[c] = Len(asked[c])
    /\ pc' = [pc EXCEPT ![c] = "shutdown"]
    /\ UNCHANGED <<serverVars, clientVars, outcome, open, nRead, status, replies>>

(* ... or with an error. *)
ReadError(c) ==
    /\ pc[c] = "read" /\ FreeThread /\ client[c] = "aborted"
    /\ Return(c, "error")
    /\ UNCHANGED <<serverVars, clientVars, open, nRead, status, replies>>

(* doGetSignal: the response of the route (see RouteDispatch), or -1 and   *)
(* then notFound, which sleeps before it fills the response.               *)
RequestInHandLatest(c) == asked[c][Len(asked[c])]
RequestInHand(c) == asked[c][nRead[c]]

Dispatch(c) ==
    /\ pc[c] = "dispatch"
    /\ IF RequestInHand(c) = "found"
       THEN /\ status' = [status EXCEPT ![c] = 200]
            /\ pc' = [pc EXCEPT ![c] = "write"]
       ELSE /\ pc' = [pc EXCEPT ![c] = "sleep"]
            /\ UNCHANGED status
    /\ UNCHANGED <<serverVars, clientVars, outcome, open, nRead, replies>>

AwakeElsewhere(c) == pc[c] = "sleep" /\ FreeThread
Awake(c) == pc[c] = "sleep"

NotFound(c) ==
    /\ Awake(c)
    /\ status' = [status EXCEPT ![c] = 404]
    /\ pc' = [pc EXCEPT ![c] = "write"]
    /\ UNCHANGED <<serverVars, clientVars, outcome, open, nRead, replies>>

(* async_write; then the loop starts over whatever keep_alive says.  It    *)
(* may fail with a client that has closed, too.                            *)
Write(c) ==
    /\ pc[c] = "write" /\ FreeThread
    /\ \/ /\ client[c] # "aborted"
          /\ replies' = [replies EXCEPT ![c] = Append(@, status[c])]
          /\ pc' = [pc EXCEPT ![c] = "read"]
          /\ UNCHANGED outcome
       \/ /\ client[c] # "connected"
          /\ Return(c, "error") /\ UNCHANGED replies
    /\ status' = [status EXCEPT ![c] = 0]
    /\ UNCHANGED <<serverVars, clientVars, open, nRead>>

(* async_shutdown; the socket stays open. *)
Shutdown(c) ==
    /\ pc[c] = "shutdown" /\ FreeThread
    /\ \/ client[c] # "aborted" /\ Return(c, "graceful")
       \/ Return(c, "error")
    /\ UNCHANGED <<serverVars, clientVars, open, nRead, status, replies>>

(* expires_after(30 s) was called before the operation that is pending:    *)
(* the stream closes its socket and the operation fails.                   *)
Timed == {"handshake", "read", "write", "shutdown"}

FailIgnored(c) == pc' = [pc EXCEPT ![c] = "read"] /\ UNCHANGED outcome
Fail(c) == Return(c, "error")

Timeout(c) ==
    /\ pc[c] \in Timed /\ FreeThread
    /\ open' = [open EXCEPT ![c] = FALSE]
    /\ status' = [status EXCEPT ![c] = 0]
    /\ Fail(c)
    /\ UNCHANGED <<serverVars, clientVars, nRead, replies>>

Session(c) == \/ Handshake(c)
              \/ ReadRequest(c) \/ ReadEnd(c) \/ ReadError(c)
              \/ Dispatch(c) \/ NotFound(c) \/ Write(c)
              \/ Shutdown(c)

Next == \/ Listener
        \/ \E c \in Conns : Client(c) \/ Session(c) \/ Timeout(c)

Spec == Init /\ [][Next]_vars

(* The io threads are scheduled, completed operations are resumed, handlers *)
(* and the sleep return, and the clock advances; clients owe nothing.      *)
Fairness == /\ WF_vars(ListenerSetup)
            /\ \A c \in Conns : /\ WF_vars(Accept(c) \/ AcceptError(c))
                                /\ WF_vars(Session(c))
                                /\ WF_vars(Timeout(c))
FairSpec == Spec /\ Fairness

-----------------------------------------------------------------------------
(* Properties *)

PCs == {"none", "handshake", "read", "dispatch", "sleep", "write", "shutdown", "ended"}

(* Every variable has its type, and the session's counters fit together.   *)
TypeOK ==
    /\ listener \in {"open", "setOption", "bind", "listen", "accept", "down"}
    /\ backlog \subseteq Conns /\ connectionList \subseteq Conns
    /\ client \in [Conns -> {"idle", "connected", "closed", "aborted"}]
    /\ asked \in [Conns -> Seq(Kinds)]
    /\ pc \in [Conns -> PCs]
    /\ outcome \in [Conns -> {"none", "graceful", "badRequest", "error"}]
    /\ open \in [Conns -> BOOLEAN]
    /\ nRead \in [Conns -> Nat]
    /\ status \in [Conns -> {0, 200, 404}]
    /\ replies \in [Conns -> Seq({200, 404})]
    /\ \A c \in Conns : nRead[c] <= Len(asked[c]) /\ Len(asked[c]) <= MaxRequests[c]

(* However far a client pipelines, the responses written to a connection   *)
(* answer its requests one for one and in order, and a session that ends   *)
(* gracefully has answered all of them (the read / dispatch / write loop   *)
(* of Connection::run).                                                    *)
StatusOf(k) == IF k = "found" THEN 200 ELSE 404
RepliesInOrder ==
    \A c \in Conns :
        /\ Len(replies[c]) <= nRead[c] /\ nRead[c] <= Len(replies[c]) + 1
        /\ \A i \in 1..Len(replies[c]) : replies[c][i] = StatusOf(asked[c][i])
        /\ outcome[c] = "graceful" => Len(replies[c]) = Len(asked[c])

(* A session never works on a socket that a timeout has closed, and only   *)
(* accepted connections have one.                                          *)
SocketOpenWhileUsed ==
    \A c \in Conns : /\ pc[c] \notin {"none", "ended"} => open[c]
                     /\ open[c] => c \in connectionList

(* A request a route could answer, once read, is answered or its session   *)
(* ends, even when handlers and sleeps occupy every io thread for a while. *)
ReadIsAnswered ==
    \A c \in Conns : \A i \in 1..MaxRequests[c] :
        pc[c] = "dispatch" /\ nRead[c] = i ~> Len(replies[c]) = i \/ pc[c] = "ended"

(* The promise's view of a session: how each request is to be answered,    *)
(* and where the session has come to.                                      *)
ReplyOf(k) == IF k \in {"found", "missing"} THEN StatusOf(k) ELSE 0
Phase(c) ==
    IF pc[c] = "none" THEN "none"
    ELSE [none |-> "open", graceful |-> "served", badRequest |-> "refused", error |-> "cut"][outcome[c]]

(* The coroutine implements the promise of a session: one reply per        *)
(* request, in order, none behind a request that Connection::run rejects or *)
(* cannot parse, a graceful end only when all is answered; and, since every *)
(* pending operation has a timeout, an end at last.                        *)
Promised == INSTANCE SessionPromise WITH
    ReplyTo <- [k \in Kinds |-> ReplyOf(k)],
    phase <- [c \in Conns |-> Phase(c)]
ImplementsSession == Promised!Spec

(* "Accepts incoming connections and launches the sessions"                *)
(* (ServerListener.hpp): a connection in the queue leaves it.              *)
EveryConnectionAccepted == \A c \in Conns : c \in backlog ~> c \notin backlog
=============================================================================
