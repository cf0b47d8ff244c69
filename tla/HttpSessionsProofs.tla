------------------------- MODULE HttpSessionsProofs -------------------------
(***************************************************************************)
(* Theorems about HttpSessions, for every set of connections, any number   *)
(* of io threads and descriptors and every bound on the requests.          *)
(***************************************************************************)
EXTENDS HttpSessions, TLAPS

(***************************************************************************)
(* The invariant, connection by connection.  RepliesInOrder does not say   *)
(* which request a session has in hand, whether that is one it may answer, *)
(* and why nothing can be asked any more once it says goodbye; and that    *)
(* sockets are open while they are used needs that a connection is         *)
(* accepted once.                                                          *)
(***************************************************************************)
InHand == {"dispatch", "sleep", "write"}

(* A connection is queued once, and accepted from the queue. *)
Queued(c) ==
    /\ c \in backlog => client[c] # "idle" /\ pc[c] = "none"
    /\ client[c] = "idle" => pc[c] = "none"

(* Before the handshake is over nothing is sent over it. *)
Quiet(c) == pc[c] \in {"none", "handshake"} => asked[c] = <<>> /\ nRead[c] = 0

(* A reply is owed for the request in hand, and for no other that was read. *)
Counted(c) ==
    /\ Len(replies[c]) <= nRead[c] /\ nRead[c] <= Len(replies[c]) + 1
    /\ pc[c] \in InHand => nRead[c] = Len(replies[c]) + 1
    /\ pc[c] \notin InHand \cup {"ended"} => nRead[c] = Len(replies[c])

(* The request in hand is one that is answered, by what is being made. *)
Served(c) ==
    /\ pc[c] \in InHand => asked[c][nRead[c]] \in {"found", "missing"}
    /\ pc[c] = "sleep" => asked[c][nRead[c]] = "missing"
    /\ pc[c] = "write" => status[c] = StatusOf(asked[c][nRead[c]])

Ordered(c) == \A i \in 1..Len(replies[c]) : replies[c][i] = StatusOf(asked[c][i])

(* A session says goodbye when all is answered, to a client that has. *)
Goodbye(c) ==
    pc[c] = "shutdown" \/ outcome[c] = "graceful" =>
        client[c] # "connected" /\ Len(replies[c]) = Len(asked[c])

Over(c) == outcome[c] # "none" <=> pc[c] = "ended"

Socket(c) ==
    /\ pc[c] = "none" => c \notin connectionList
    /\ pc[c] \notin {"none", "ended"} => open[c]
    /\ open[c] => c \in connectionList

ConnInv(c) == /\ Queued(c) /\ Quiet(c) /\ Counted(c) /\ Served(c) /\ Ordered(c)
              /\ Goodbye(c) /\ Over(c) /\ Socket(c)

SessionInv == TypeOK /\ \A c \in Conns : ConnInv(c)

LEMMA InitSessions == Init => SessionInv
  <1> SUFFICES ASSUME Init PROVE SessionInv
    OBVIOUS
  <1>1. TypeOK
    BY SessionsAssumption DEF Init, TypeOK, PCs
  <1>2. ASSUME NEW c \in Conns PROVE ConnInv(c)
    BY DEF Init, ConnInv, Queued, Quiet, Counted, Served, Ordered, Goodbye, Over, Socket, InHand
  <1>3. QED
    BY <1>1, <1>2 DEF SessionInv

(* A step of one connection, or of the listener alone, leaves the          *)
(* invariant of every other connection as it is.                           *)
Untouched(c) ==
    /\ UNCHANGED <<client[c], asked[c], pc[c], outcome[c], open[c], nRead[c], status[c], replies[c]>>
    /\ c \in backlog' <=> c \in backlog
    /\ c \in connectionList' <=> c \in connectionList

LEMMA OthersKeep ==
    ASSUME NEW c \in Conns, ConnInv(c), Untouched(c)
    PROVE  ConnInv(c)'
  BY DEF Untouched, ConnInv, Queued, Quiet, Counted, Served, Ordered, Goodbye, Over, Socket, StatusOf

LEMMA OnlyOne ==
    ASSUME TypeOK, NEW c \in Conns, Client(c) \/ Accept(c) \/ AcceptError(c) \/ Session(c) \/ Timeout(c),
           NEW d \in Conns \ {c}
    PROVE  Untouched(d)
  <1> USE DEF TypeOK, Untouched, serverVars, clientVars, sessionVars
  <1>1. CASE Client(c)
    BY <1>1 DEF Client, ClientConnect, ClientSend, ClientClose, ClientAbort
  <1>2. CASE Accept(c) \/ AcceptError(c)
    BY <1>2 DEF Accept, AcceptError
  <1>3. CASE Timeout(c)
    BY <1>3 DEF Timeout, Fail, Return
  <1>4. CASE Handshake(c) \/ Shutdown(c)
    BY <1>4 DEF Handshake, Shutdown, Return
  <1>5. CASE ReadRequest(c)
    BY <1>5 DEF ReadRequest, Return
  <1>6. CASE ReadEnd(c) \/ ReadError(c)
    BY <1>6 DEF ReadEnd, ReadError, Return
  <1>7. CASE Dispatch(c) \/ NotFound(c)
    BY <1>7 DEF Dispatch, NotFound
  <1>8. CASE Write(c)
    BY <1>8 DEF Write, Return
  <1>9. QED
    BY <1>1, <1>2, <1>3, <1>4, <1>5, <1>6, <1>7, <1>8 DEF Session

(* What a read takes from the queue of requests, and what it is then.      *)
LEMMA ReadType ==
    ASSUME TypeOK, NEW c \in Conns, ReadRequest(c)
    PROVE  LET k == asked[c][nRead[c] + 1]
           IN  /\ k \in Kinds /\ nRead'[c] = nRead[c] + 1 /\ nRead'[c] \in 1..Len(asked[c])
               /\ \/ k \in {"found", "missing"} /\ pc'[c] = "dispatch" /\ UNCHANGED outcome
                  \/ /\ k \notin {"found", "missing"}
                     /\ pc'[c] = "ended" /\ outcome'[c] = AfterRead(k)
                     /\ outcome'[c] \in {"badRequest", "error"}
  <1>1. asked[c] \in Seq(Kinds) /\ nRead[c] \in Nat /\ Len(asked[c]) \in Nat
    BY DEF TypeOK
  <1>2. nRead[c] + 1 \in 1..Len(asked[c])
    BY <1>1 DEF ReadRequest
  <1>3. asked[c][nRead[c] + 1] \in Kinds
    BY <1>1, <1>2
  <1>4. QED
    BY <1>1, <1>2, <1>3 DEF ReadRequest, Consumed, AfterRead, Kinds, Rejected, Return, TypeOK

(* What a step does to a session that goes on or returns. *)
Moves(c) ==
    \/ \E next \in PCs : pc' = [pc EXCEPT ![c] = next] /\ UNCHANGED outcome
    \/ \E how \in {"graceful", "badRequest", "error"} : Return(c, how)

LEMMA MovesType ==
    ASSUME TypeOK, NEW c \in Conns, Moves(c)
    PROVE  /\ pc' \in [Conns -> PCs]
           /\ outcome' \in [Conns -> {"none", "graceful", "badRequest", "error"}]
  <1>1. /\ pc \in [Conns -> PCs]
        /\ outcome \in [Conns -> {"none", "graceful", "badRequest", "error"}]
    BY DEF TypeOK
  <1>2. CASE \E next \in PCs : pc' = [pc EXCEPT ![c] = next] /\ UNCHANGED outcome
    BY <1>1, <1>2
  <1>3. ASSUME NEW how \in {"graceful", "badRequest", "error"}, Return(c, how)
        PROVE  /\ pc' \in [Conns -> PCs]
               /\ outcome' \in [Conns -> {"none", "graceful", "badRequest", "error"}]
    <2>1. "ended" \in PCs /\ pc' = [pc EXCEPT ![c] = "ended"] /\ outcome' = [outcome EXCEPT ![c] = how]
      BY <1>3 DEF Return, PCs
    <2>2. QED
      BY <1>1, <2>1
  <1>4. QED
    BY <1>2, <1>3 DEF Moves

(* Every step keeps the types; that a status is there to be written is     *)
(* what the rest of the invariant says.                                    *)
LEMMA TypeStep == SessionInv /\ [Next]_vars => TypeOK'
  <1> SUFFICES ASSUME SessionInv, [Next]_vars PROVE TypeOK'
    OBVIOUS
  <1>0. TypeOK
    BY DEF SessionInv
  <1> USE DEF TypeOK, serverVars, clientVars, sessionVars, PCs
  <1>1. CASE UNCHANGED vars
    BY <1>0, <1>1 DEF vars
  <1>2. CASE ListenerSetup
    BY <1>0, <1>2 DEF ListenerSetup, Setup
  <1>3. ASSUME NEW c \in Conns, Accept(c) \/ AcceptError(c) PROVE TypeOK'
    <2>1. CASE Accept(c)
      BY <1>0, <2>1 DEF Accept
    <2>2. CASE AcceptError(c)
      BY <1>0, <2>2 DEF AcceptError
    <2>3. QED
      BY <1>3, <2>1, <2>2
  <1>4. ASSUME NEW c \in Conns, ClientConnect(c) \/ ClientClose(c) \/ ClientAbort(c) PROVE TypeOK'
    <2>1. CASE ClientConnect(c)
      BY <1>0, <2>1 DEF ClientConnect
    <2>2. CASE ClientClose(c)
      BY <1>0, <2>2 DEF ClientClose
    <2>3. CASE ClientAbort(c)
      BY <1>0, <2>3 DEF ClientAbort
    <2>4. QED
      BY <1>4, <2>1, <2>2, <2>3
  <1>5. ASSUME NEW c \in Conns, NEW k \in Kinds, ClientSend(c, k) PROVE TypeOK'
    <2>1. /\ asked' = [asked EXCEPT ![c] = Append(@, k)] /\ Len(asked[c]) < MaxRequests[c]
          /\ UNCHANGED <<serverVars, client, sessionVars>>
      BY <1>0, <1>5 DEF ClientSend
    <2>2. asked[c] \in Seq(Kinds) /\ MaxRequests[c] \in Nat
      BY <1>0, SessionsAssumption
    <2>3. Append(asked[c], k) \in Seq(Kinds) /\ Len(Append(asked[c], k)) = Len(asked[c]) + 1
      BY <2>2
    <2>4. asked' \in [Conns -> Seq(Kinds)]
      BY <1>0, <2>1, <2>3
    <2>5. \A d \in Conns : nRead[d] <= Len(asked'[d]) /\ Len(asked'[d]) <= MaxRequests[d]
      <3>1. ASSUME NEW d \in Conns \ {c} PROVE asked'[d] = asked[d]
        BY <1>0, <2>1
      <3>2. asked'[c] = Append(asked[c], k)
        BY <1>0, <2>1
      <3>3. nRead[c] <= Len(asked'[c]) /\ Len(asked'[c]) <= MaxRequests[c]
        BY <1>0, <2>1, <2>2, <2>3, <3>2
      <3>4. QED
        BY <1>0, <2>1, <3>1, <3>3
    <2>6. QED
      BY <1>0, <2>1, <2>4, <2>5
  (* What these steps change are only where the session is and how it ended. *)
  <1>6. ASSUME NEW c \in Conns, Handshake(c) \/ Shutdown(c) \/ Timeout(c) PROVE TypeOK'
    <2>1. Moves(c)
      <3>1. CASE Handshake(c)
        BY <3>1 DEF Handshake, Moves, Return
      <3>2. CASE Shutdown(c)
        BY <3>2 DEF Shutdown, Moves, Return
      <3>3. CASE Timeout(c)
        BY <3>3 DEF Timeout, Fail, Moves, Return
      <3>4. QED
        BY <1>6, <3>1, <3>2, <3>3
    <2>2. /\ UNCHANGED <<serverVars, clientVars, nRead, replies>>
          /\ open' \in [Conns -> BOOLEAN] /\ status' \in [Conns -> {0, 200, 404}]
      <3>1. CASE Handshake(c) \/ Shutdown(c)
        BY <1>0, <3>1 DEF Handshake, Shutdown
      <3>2. CASE Timeout(c)
        BY <1>0, <3>2 DEF Timeout
      <3>3. QED
        BY <1>6, <3>1, <3>2
    <2>3. QED
      BY <1>0, <2>1, <2>2, MovesType
  <1>7. ASSUME NEW c \in Conns, ReadEnd(c) \/ ReadError(c) PROVE TypeOK'
    <2>1. Moves(c)
      BY <1>7 DEF ReadEnd, ReadError, Moves, Return
    <2>2. UNCHANGED <<serverVars, clientVars, open, nRead, status, replies>>
      BY <1>7 DEF ReadEnd, ReadError
    <2>3. QED
      BY <1>0, <2>1, <2>2, MovesType
  <1>8. ASSUME NEW c \in Conns, ReadRequest(c) PROVE TypeOK'
    <2>1. UNCHANGED <<serverVars, clientVars, open, status, replies>>
      BY <1>8 DEF ReadRequest
    <2>2. Moves(c)
      BY <1>8 DEF ReadRequest, AfterRead, Moves, Return
    <2>3. nRead' \in [Conns -> Nat] /\ \A d \in Conns : nRead'[d] <= Len(asked[d])
      BY <1>0, <1>8 DEF ReadRequest, Consumed
    <2>4. QED
      BY <1>0, <2>1, <2>2, <2>3, MovesType
  <1>9. ASSUME NEW c \in Conns, Dispatch(c) \/ NotFound(c) PROVE TypeOK'
    <2>1. CASE Dispatch(c)
      <3>1. UNCHANGED <<serverVars, clientVars, outcome, open, nRead, replies>> /\ Moves(c)
        BY <2>1 DEF Dispatch, Moves
      <3>2. status' \in [Conns -> {0, 200, 404}]
        <4>1. status' \in {status, [status EXCEPT ![c] = 200]}
          BY <2>1 DEF Dispatch
        <4>2. status \in [Conns -> {0, 200, 404}]
          BY <1>0
        <4>3. QED
          BY <4>1, <4>2
      <3>3. QED
        BY <1>0, <3>1, <3>2, MovesType
    <2>2. CASE NotFound(c)
      BY <1>0, <2>2 DEF NotFound
    <2>3. QED
      BY <1>9, <2>1, <2>2
  <1>10. ASSUME NEW c \in Conns, Write(c) PROVE TypeOK'
    <2>1. status[c] \in {200, 404}
      BY <1>10 DEF Write, SessionInv, ConnInv, Served, StatusOf
    <2>2. Append(replies[c], status[c]) \in Seq({200, 404})
      BY <1>0, <2>1
    <2>3. replies' \in [Conns -> Seq({200, 404})]
      <3>1. replies' \in {replies, [replies EXCEPT ![c] = Append(replies[c], status[c])]}
        BY <1>10 DEF Write
      <3>2. replies \in [Conns -> Seq({200, 404})]
        BY <1>0
      <3>3. QED
        BY <2>2, <3>1, <3>2
    <2>4. /\ UNCHANGED <<serverVars, clientVars, open, nRead>>
          /\ status' = [status EXCEPT ![c] = 0] /\ Moves(c)
      BY <1>10 DEF Write, Moves
    <2>5. QED
      BY <1>0, <2>3, <2>4, MovesType
  <1>11. QED
    BY <1>1, <1>2, <1>3, <1>4, <1>5, <1>6, <1>7, <1>8, <1>9, <1>10
       DEF Next, Listener, Client, Session

(* Every step of a connection keeps its own part of the invariant. *)
LEMMA ClientStep ==
    ASSUME SessionInv, NEW c \in Conns, Client(c)
    PROVE  ConnInv(c)'
  <1>0. TypeOK /\ ConnInv(c)
    BY DEF SessionInv
  <1> USE DEF ConnInv, Queued, Quiet, Counted, Served, Ordered, Goodbye, Over, Socket
  <1>1. CASE ClientConnect(c)
    <2>1. /\ client[c] = "idle" /\ client'[c] = "connected" /\ pc[c] = "none"
          /\ UNCHANGED <<asked, connectionList, sessionVars>>
      BY <1>0, <1>1 DEF ClientConnect, TypeOK
    <2>2. QED
      BY <1>0, <2>1 DEF sessionVars, StatusOf
  <1>2. ASSUME NEW k \in Kinds, ClientSend(c, k) PROVE ConnInv(c)'
    <2>1. /\ client[c] = "connected" /\ pc[c] \notin {"none", "handshake"}
          /\ asked'[c] = Append(asked[c], k)
          /\ UNCHANGED <<serverVars, client, sessionVars>>
      BY <1>0, <1>2 DEF ClientSend, TypeOK
    <2>2. /\ asked[c] \in Seq(Kinds) /\ nRead[c] \in Nat /\ nRead[c] <= Len(asked[c])
          /\ Len(asked[c]) \in Nat /\ Len(replies[c]) \in Nat
      BY <1>0 DEF TypeOK
    <2>3. \A i \in 1..Len(asked[c]) : asked'[c][i] = asked[c][i]
      BY <2>1, <2>2
    <2>4. Served(c)'
      <3>1. pc[c] \in InHand => nRead[c] \in 1..Len(asked[c])
        BY <1>0, <2>2
      <3>2. QED
        BY <1>0, <2>1, <2>3, <3>1 DEF sessionVars, StatusOf, InHand
    <2>5. Ordered(c)'
      <3>1. 1..Len(replies[c]) \subseteq 1..Len(asked[c])
        BY <1>0, <2>2
      <3>2. QED
        BY <1>0, <2>1, <2>3, <3>1 DEF sessionVars, StatusOf
    <2>6. QED
      BY <1>0, <2>1, <2>4, <2>5 DEF serverVars, sessionVars
  <1>3. CASE ClientClose(c) \/ ClientAbort(c)
    <2>1. /\ client[c] \in {"connected", "closed"} /\ client'[c] \in {"closed", "aborted"}
          /\ UNCHANGED <<asked, serverVars, sessionVars>>
      BY <1>0, <1>3 DEF ClientClose, ClientAbort, TypeOK
    <2>2. QED
      BY <1>0, <2>1 DEF serverVars, sessionVars, StatusOf
  <1>4. QED
    BY <1>1, <1>2, <1>3 DEF Client

LEMMA ListenerStep ==
    ASSUME SessionInv, NEW c \in Conns, Accept(c) \/ AcceptError(c)
    PROVE  ConnInv(c)'
  <1>0. TypeOK /\ ConnInv(c)
    BY DEF SessionInv
  <1> USE DEF ConnInv, Queued, Quiet, Counted, Served, Ordered, Goodbye, Over, Socket, InHand
  <1>1. CASE Accept(c)
    <2>1. /\ c \in backlog /\ c \notin backlog' /\ c \in connectionList'
          /\ open'[c] = TRUE /\ pc'[c] = "handshake"
          /\ UNCHANGED <<clientVars, outcome, nRead, status, replies>>
      BY <1>0, <1>1 DEF Accept, TypeOK
    <2>2. QED
      BY <1>0, <2>1 DEF clientVars, StatusOf
  <1>2. CASE AcceptError(c)
    BY <1>0, <1>2 DEF AcceptError, clientVars, sessionVars, StatusOf
  <1>3. QED
    BY <1>1, <1>2

LEMMA ConnectionStep ==
    ASSUME SessionInv, NEW c \in Conns, Session(c) \/ Timeout(c)
    PROVE  ConnInv(c)'
  <1>0. TypeOK /\ ConnInv(c)
    BY DEF SessionInv
  <1>t. /\ asked[c] \in Seq(Kinds) /\ nRead[c] \in Nat /\ nRead[c] <= Len(asked[c])
        /\ replies[c] \in Seq({200, 404}) /\ Len(asked[c]) \in Nat /\ Len(replies[c]) \in Nat
    BY <1>0 DEF TypeOK
  <1> USE DEF ConnInv, Queued, Quiet, Counted, Served, Ordered, Goodbye, Over, Socket, InHand
  (* A session that returns without a goodbye owes nothing any more. *)
  <1>1. ASSUME pc[c] \notin {"none", "ended"}, pc'[c] = "ended", outcome'[c] \in {"badRequest", "error"},
               nRead'[c] \in {nRead[c], nRead[c] + 1}, nRead'[c] # nRead[c] => pc[c] = "read",
               open'[c] => open[c], UNCHANGED <<serverVars, clientVars, replies>>
        PROVE  ConnInv(c)'
    BY <1>0, <1>1, <1>t DEF serverVars, clientVars, StatusOf
  <1>2. CASE Timeout(c)
    <2>1. /\ pc[c] \notin {"none", "ended"} /\ pc'[c] = "ended" /\ outcome'[c] = "error"
          /\ open'[c] = FALSE /\ UNCHANGED <<serverVars, clientVars, nRead, replies>>
      BY <1>0, <1>2 DEF Timeout, Timed, Fail, Return, TypeOK
    <2>2. QED
      BY <1>1, <2>1
  <1>3. CASE Handshake(c)
    <2>1. pc[c] = "handshake" /\ UNCHANGED <<serverVars, clientVars, open, nRead, status, replies>>
      BY <1>3 DEF Handshake
    <2>2. CASE Return(c, "error")
      <3>1. pc'[c] = "ended" /\ outcome'[c] = "error"
        BY <1>0, <2>2 DEF Return, TypeOK
      <3>2. QED
        BY <1>1, <2>1, <3>1
    <2>3. CASE pc' = [pc EXCEPT ![c] = "read"] /\ UNCHANGED outcome
      <3>1. pc'[c] = "read"
        BY <1>0, <2>3 DEF TypeOK
      <3>2. QED
        BY <1>0, <2>1, <2>3, <3>1 DEF serverVars, clientVars, StatusOf
    <2>4. QED
      BY <1>3, <2>2, <2>3 DEF Handshake
  <1>4. CASE ReadRequest(c)
    <2>1. /\ pc[c] = "read" /\ UNCHANGED <<serverVars, clientVars, open, status, replies>>
      BY <1>4 DEF ReadRequest
    <2> DEFINE k == asked[c][nRead[c] + 1]
    <2>2. /\ nRead'[c] = nRead[c] + 1
          /\ \/ k \in {"found", "missing"} /\ pc'[c] = "dispatch" /\ UNCHANGED outcome
             \/ pc'[c] = "ended" /\ outcome'[c] \in {"badRequest", "error"}
      BY <1>0, <1>4, ReadType
    <2>3. CASE k \in {"found", "missing"} /\ pc'[c] = "dispatch" /\ UNCHANGED outcome
      BY <1>0, <1>t, <2>1, <2>2, <2>3 DEF serverVars, clientVars, StatusOf
    <2>4. CASE pc'[c] = "ended" /\ outcome'[c] \in {"badRequest", "error"}
      BY <1>1, <2>1, <2>2, <2>4
    <2>5. QED
      BY <2>2, <2>3, <2>4
  <1>5. CASE ReadEnd(c)
    <2>1. /\ pc[c] = "read" /\ pc'[c] = "shutdown" /\ client[c] = "closed" /\ nRead[c] = Len(asked[c])
          /\ UNCHANGED <<serverVars, clientVars, outcome, open, nRead, status, replies>>
      BY <1>0, <1>5 DEF ReadEnd, TypeOK
    <2>2. QED
      BY <1>0, <1>t, <2>1 DEF serverVars, clientVars, StatusOf
  <1>6. CASE ReadError(c)
    <2>1. /\ pc[c] = "read" /\ pc'[c] = "ended" /\ outcome'[c] = "error"
          /\ UNCHANGED <<serverVars, clientVars, open, nRead, status, replies>>
      BY <1>0, <1>6 DEF ReadError, Return, TypeOK
    <2>2. QED
      BY <1>1, <2>1
  <1>7. CASE Dispatch(c)
    <2>1. /\ pc[c] = "dispatch" /\ UNCHANGED <<serverVars, clientVars, outcome, open, nRead, replies>>
          /\ \/ RequestInHand(c) = "found" /\ status'[c] = 200 /\ pc'[c] = "write"
             \/ RequestInHand(c) # "found" /\ pc'[c] = "sleep"
      BY <1>0, <1>7 DEF Dispatch, TypeOK
    <2>2. QED
      BY <1>0, <2>1 DEF serverVars, clientVars, RequestInHand, StatusOf
  <1>8. CASE NotFound(c)
    <2>1. /\ pc[c] = "sleep" /\ pc'[c] = "write" /\ status'[c] = 404
          /\ UNCHANGED <<serverVars, clientVars, outcome, open, nRead, replies>>
      BY <1>0, <1>8 DEF NotFound, Awake, TypeOK
    <2>2. QED
      BY <1>0, <2>1 DEF serverVars, clientVars, StatusOf
  <1>9. CASE Write(c)
    <2>1. pc[c] = "write" /\ UNCHANGED <<serverVars, clientVars, open, nRead>>
      BY <1>9 DEF Write
    <2>2. CASE Return(c, "error") /\ UNCHANGED replies
      <3>1. pc'[c] = "ended" /\ outcome'[c] = "error"
        BY <1>0, <2>2 DEF Return, TypeOK
      <3>2. QED
        BY <1>1, <2>1, <2>2, <3>1
    <2>3. ASSUME replies' = [replies EXCEPT ![c] = Append(@, status[c])],
                 pc' = [pc EXCEPT ![c] = "read"], UNCHANGED outcome
          PROVE  ConnInv(c)'
      <3>1. pc'[c] = "read" /\ replies'[c] = Append(replies[c], status[c])
        BY <1>0, <2>3 DEF TypeOK
      <3>2. /\ Len(replies'[c]) = Len(replies[c]) + 1
            /\ \A i \in 1..Len(replies[c]) : replies'[c][i] = replies[c][i]
            /\ replies'[c][Len(replies[c]) + 1] = status[c]
        BY <1>0, <1>t, <3>1 DEF TypeOK
      <3>3. nRead[c] = Len(replies[c]) + 1 /\ status[c] = StatusOf(asked[c][nRead[c]])
        BY <1>0, <2>1
      <3>4. Ordered(c)'
        BY <1>0, <1>t, <2>1, <3>2, <3>3 DEF clientVars, StatusOf
      <3>5. QED
        BY <1>0, <1>t, <2>1, <2>3, <3>1, <3>2, <3>3, <3>4 DEF serverVars, clientVars
    <2>4. QED
      BY <1>9, <2>2, <2>3 DEF Write
  <1>10. CASE Shutdown(c)
    <2>1. /\ pc[c] = "shutdown" /\ pc'[c] = "ended" /\ outcome'[c] \in {"graceful", "error"}
          /\ UNCHANGED <<serverVars, clientVars, open, nRead, status, replies>>
      BY <1>0, <1>10 DEF Shutdown, Return, TypeOK
    <2>2. QED
      BY <1>0, <2>1 DEF serverVars, clientVars, StatusOf
  <1>11. QED
    BY <1>2, <1>3, <1>4, <1>5, <1>6, <1>7, <1>8, <1>9, <1>10 DEF Session

(* The invariant is inductive. *)
LEMMA SessionStep == SessionInv /\ [Next]_vars => SessionInv'
  <1> SUFFICES ASSUME SessionInv, [Next]_vars PROVE SessionInv'
    OBVIOUS
  <1>1. TypeOK /\ \A d \in Conns : ConnInv(d)
    BY DEF SessionInv
  <1>2. ASSUME NEW c \in Conns,
               Client(c) \/ Accept(c) \/ AcceptError(c) \/ Session(c) \/ Timeout(c),
               NEW d \in Conns
        PROVE  ConnInv(d)'
    <2>1. CASE d = c
      BY <1>2, <2>1, ClientStep, ListenerStep, ConnectionStep
    <2>2. CASE d # c
      BY <1>1, <1>2, <2>2, OnlyOne, OthersKeep
    <2>3. QED
      BY <2>1, <2>2
  <1>3. ASSUME ListenerSetup \/ UNCHANGED vars, NEW d \in Conns PROVE ConnInv(d)'
    <2>1. Untouched(d)
      BY <1>3 DEF ListenerSetup, Untouched, vars, serverVars, clientVars, sessionVars
    <2>2. QED
      BY <1>1, <2>1, OthersKeep
  <1>4. \A d \in Conns : ConnInv(d)'
    BY <1>2, <1>3 DEF Next, Listener
  <1>5. QED
    BY <1>4, TypeStep DEF SessionInv

(* Every variable keeps its type, for any number of io threads (the        *)
(* statuses a session writes are those it has made).                       *)
THEOREM SessionTypes == Spec => []TypeOK
  <1>1. SessionInv => TypeOK
    BY DEF SessionInv
  <1>2. QED
    BY <1>1, InitSessions, SessionStep, PTL DEF Spec

(* However far clients pipeline: the replies of every connection answer    *)
(* its requests one for one and in order, and all of them before a         *)
(* graceful end (the loop of Connection::run).                             *)
THEOREM RepliesAreInOrder == Spec => []RepliesInOrder
  <1>1. SessionInv => RepliesInOrder
    BY DEF SessionInv, ConnInv, Counted, Ordered, Goodbye, RepliesInOrder
  <1>2. QED
    BY <1>1, InitSessions, SessionStep, PTL DEF Spec

(* No session works on a socket that a timeout has closed.                 *)
THEOREM SocketsAreOpen == Spec => []SocketOpenWhileUsed
  <1>1. SessionInv => SocketOpenWhileUsed
    BY DEF SessionInv, ConnInv, Socket, SocketOpenWhileUsed
  <1>2. QED
    BY <1>1, InitSessions, SessionStep, PTL DEF Spec

-----------------------------------------------------------------------------
(***************************************************************************)
(* The refinement of SessionPromise: the first accepted handshake opens a  *)
(* session, a write that succeeds is the reply to the next request, and a  *)
(* return ends it in the phase its outcome names.                          *)
(***************************************************************************)

(* The phase of every connection but the one that moves is what it was. *)
LEMMA PhaseElsewhere ==
    ASSUME TypeOK, NEW c \in Conns,
           Client(c) \/ Accept(c) \/ AcceptError(c) \/ Session(c) \/ Timeout(c)
    PROVE  \A d \in Conns \ {c} : Phase(d)' = Phase(d)
  BY OnlyOne DEF Untouched, Phase

(* A step of a connection that leaves its phase, its requests and its      *)
(* replies alone is a stutter of the promise.                              *)
LEMMA StutterOf ==
    ASSUME NEW c \in Conns, UNCHANGED <<asked, replies>>, Phase(c)' = Phase(c),
           \A d \in Conns \ {c} : Phase(d)' = Phase(d)
    PROVE  UNCHANGED Promised!vars
  BY DEF Promised!vars

(* A return of an open session is a Finish of the promise. *)
LEMMA FinishOf ==
    ASSUME NEW c \in Conns, UNCHANGED <<asked, replies>>, Phase(c) = "open",
           \A d \in Conns \ {c} : Phase(d)' = Phase(d),
           \/ Phase(c)' = "cut"
           \/ Phase(c)' = "served" /\ ~(Len(replies[c]) < Len(asked[c]))
           \/ /\ Phase(c)' = "refused" /\ Len(replies[c]) < Len(asked[c])
              /\ asked[c][Len(replies[c]) + 1] \in Kinds \ {"found", "missing"}
    PROVE  Promised!Finish(c)
  <1> DEFINE phase == [d \in Conns |-> Phase(d)]
  <1>1. phase' = [phase EXCEPT ![c] = Phase(c)']
    OBVIOUS
  <1>2. CASE Phase(c)' = "cut"
    BY <1>1, <1>2 DEF Promised!Finish
  <1>3. CASE Phase(c)' = "served" /\ ~(Len(replies[c]) < Len(asked[c]))
    BY <1>1, <1>3 DEF Promised!Finish, Promised!Unanswered
  <1>4. CASE /\ Phase(c)' = "refused" /\ Len(replies[c]) < Len(asked[c])
             /\ asked[c][Len(replies[c]) + 1] \in Kinds \ {"found", "missing"}
    BY <1>1, <1>4 DEF Promised!Finish, Promised!Unanswered, Promised!NextKind, ReplyOf
  <1>5. QED
    BY <1>2, <1>3, <1>4

LEMMA PromisedInit == Init => Promised!Init
  BY DEF Init, Promised!Init, Phase

(* Every step of the listener and of a client is a step of the promise. *)
LEMMA PromisedFromOutside ==
    ASSUME SessionInv, NEW c \in Conns, Client(c) \/ Accept(c) \/ AcceptError(c)
    PROVE  [Promised!Next]_(Promised!vars)
  <1>0. TypeOK /\ ConnInv(c) /\ \A d \in Conns \ {c} : Phase(d)' = Phase(d)
    BY PhaseElsewhere DEF SessionInv
  <1>1. CASE ClientConnect(c) \/ ClientClose(c) \/ ClientAbort(c) \/ AcceptError(c)
    <2>1. UNCHANGED <<asked, sessionVars>>
      BY <1>1 DEF ClientConnect, ClientClose, ClientAbort, AcceptError, clientVars
    <2>2. QED
      BY <1>0, <2>1, StutterOf DEF sessionVars, Phase
  <1>2. ASSUME NEW k \in Kinds, ClientSend(c, k) PROVE Promised!Next
    <2>1. /\ asked' = [asked EXCEPT ![c] = Append(@, k)] /\ UNCHANGED sessionVars
          /\ client[c] = "connected" /\ pc[c] # "none"
      BY <1>2 DEF ClientSend
    <2>2. Phase(c) \notin {"none", "served"}
      BY <1>0, <2>1 DEF Phase, ConnInv, Goodbye, TypeOK
    <2>3. UNCHANGED [d \in Conns |-> Phase(d)]
      BY <2>1 DEF sessionVars, Phase
    <2>4. Promised!Ask(c, k)
      BY <2>1, <2>2, <2>3 DEF Promised!Ask, sessionVars
    <2>5. QED
      BY <2>4 DEF Promised!Next
  <1>3. CASE Accept(c)
    <2>1. pc[c] = "none" /\ pc'[c] = "handshake" /\ outcome'[c] = "none" /\ UNCHANGED <<asked, replies>>
      BY <1>0, <1>3 DEF Accept, TypeOK, ConnInv, Queued, Over, clientVars
    <2>2. Phase(c) = "none" /\ Phase(c)' = "open"
      BY <2>1 DEF Phase
    <2>3. Promised!Open(c)
      BY <1>0, <2>1, <2>2 DEF Promised!Open
    <2>4. QED
      BY <2>3 DEF Promised!Next
  <1>4. QED
    BY <1>1, <1>2, <1>3 DEF Client

(* Every step of a session is one, too: the write is the reply, a return   *)
(* the end, everything else is the session's own affair.                   *)
LEMMA PromisedFromSession ==
    ASSUME SessionInv, NEW c \in Conns, Session(c) \/ Timeout(c)
    PROVE  [Promised!Next]_(Promised!vars)
  <1>0. TypeOK /\ ConnInv(c) /\ \A d \in Conns \ {c} : Phase(d)' = Phase(d)
    BY PhaseElsewhere DEF SessionInv
  <1>t. /\ asked[c] \in Seq(Kinds) /\ nRead[c] \in Nat /\ nRead[c] <= Len(asked[c])
        /\ Len(asked[c]) \in Nat /\ Len(replies[c]) \in Nat
    BY <1>0 DEF TypeOK
  <1>1. pc[c] \notin {"none", "ended"} => Phase(c) = "open"
    BY <1>0 DEF ConnInv, Over, Phase
  <1>2. ASSUME pc[c] \notin {"none", "ended"}, pc'[c] \notin {"none", "ended"},
               UNCHANGED <<asked, replies, outcome>>
        PROVE  UNCHANGED Promised!vars
    <2>1. Phase(c)' = Phase(c)
      BY <1>2 DEF Phase
    <2>2. QED
      BY <1>0, <1>2, <2>1, StutterOf
  <1>3. ASSUME pc[c] \notin {"none", "ended"}, Return(c, "error"), UNCHANGED <<asked, replies>>
        PROVE  Promised!Finish(c)
    <2>1. Phase(c)' = "cut"
      BY <1>0, <1>3 DEF Return, Phase, TypeOK
    <2>2. QED
      BY <1>0, <1>1, <1>3, <2>1, FinishOf
  <1>4. CASE Timeout(c)
    BY <1>3, <1>4 DEF Timeout, Timed, Fail, clientVars, Promised!Next
  <1>5. CASE Handshake(c)
    <2>1. CASE Return(c, "error")
      BY <1>3, <1>5, <2>1 DEF Handshake, clientVars, Promised!Next
    <2>2. CASE pc' = [pc EXCEPT ![c] = "read"] /\ UNCHANGED outcome
      <3>1. pc'[c] = "read"
        BY <1>0, <2>2 DEF TypeOK
      <3>2. QED
        BY <1>2, <1>5, <2>2, <3>1 DEF Handshake, clientVars
    <2>3. QED
      BY <1>5, <2>1, <2>2 DEF Handshake
  <1>6. CASE ReadRequest(c)
    <2> DEFINE k == asked[c][nRead[c] + 1]
    <2>1. pc[c] = "read" /\ UNCHANGED <<asked, replies>> /\ nRead[c] = Len(replies[c])
      BY <1>0, <1>6 DEF ReadRequest, clientVars, ConnInv, Counted, InHand
    <2>2. /\ k \in Kinds /\ nRead[c] < Len(asked[c])
          /\ \/ pc'[c] = "dispatch" /\ UNCHANGED outcome
             \/ /\ k \notin {"found", "missing"} /\ pc'[c] = "ended"
                /\ outcome'[c] \in {"badRequest", "error"}
      BY <1>0, <1>6, ReadType DEF ReadRequest
    <2>3. CASE pc'[c] = "dispatch" /\ UNCHANGED outcome
      BY <1>2, <2>1, <2>3
    <2>4. CASE k \notin {"found", "missing"} /\ pc'[c] = "ended" /\ outcome'[c] \in {"badRequest", "error"}
      <3>1. Phase(c)' \in {"refused", "cut"}
        BY <2>4 DEF Phase
      <3>2. Promised!Finish(c)
        BY <1>0, <1>1, <2>1, <2>2, <2>4, <3>1, FinishOf
      <3>3. QED
        BY <3>2 DEF Promised!Next
    <2>5. QED
      BY <2>2, <2>3, <2>4
  <1>7. CASE ReadEnd(c) \/ Dispatch(c) \/ NotFound(c)
    <2>1. /\ pc[c] \notin {"none", "ended"} /\ pc'[c] \notin {"none", "ended"}
          /\ UNCHANGED <<asked, replies, outcome>>
      BY <1>0, <1>7 DEF ReadEnd, Dispatch, NotFound, Awake, clientVars, TypeOK
    <2>2. QED
      BY <1>2, <2>1
  <1>8. CASE ReadError(c)
    BY <1>3, <1>8 DEF ReadError, clientVars, Promised!Next
  <1>9. CASE Write(c)
    <2>1. pc[c] = "write" /\ UNCHANGED asked
      BY <1>9 DEF Write, clientVars
    <2>2. CASE Return(c, "error") /\ UNCHANGED replies
      BY <1>3, <2>1, <2>2 DEF Promised!Next
    <2>3. ASSUME replies' = [replies EXCEPT ![c] = Append(@, status[c])],
                 pc' = [pc EXCEPT ![c] = "read"], UNCHANGED outcome
          PROVE  Promised!Reply(c)
      <3> DEFINE k == asked[c][Len(replies[c]) + 1]
      <3>1. /\ Len(replies[c]) < Len(asked[c]) /\ k \in {"found", "missing"}
            /\ status[c] = StatusOf(k)
        BY <1>0, <1>t, <2>1 DEF ConnInv, Counted, Served, InHand
      <3>2. k \in Kinds /\ status[c] = ReplyOf(k) /\ ReplyOf(k) # 0
        BY <3>1 DEF Kinds, ReplyOf, StatusOf
      <3>3. Phase(c)' = Phase(c)
        BY <1>0, <2>1, <2>3 DEF Phase, TypeOK
      <3>4. UNCHANGED [d \in Conns |-> Phase(d)]
        BY <1>0, <3>3
      <3>5. QED
        BY <1>1, <2>1, <2>3, <3>1, <3>2, <3>4 DEF Promised!Reply, Promised!Unanswered, Promised!NextKind
    <2>4. QED
      BY <1>9, <2>2, <2>3 DEF Write, Promised!Next
  <1>10. CASE Shutdown(c)
    <2>1. CASE Return(c, "error")
      BY <1>3, <1>10, <2>1 DEF Shutdown, clientVars, Promised!Next
    <2>2. CASE Return(c, "graceful")
      <3>1. UNCHANGED <<asked, replies>> /\ pc[c] = "shutdown" /\ Len(replies[c]) = Len(asked[c])
        BY <1>0, <1>10 DEF Shutdown, clientVars, ConnInv, Goodbye
      <3>2. Phase(c)' = "served"
        BY <1>0, <2>2 DEF Return, Phase, TypeOK
      <3>3. Promised!Finish(c)
        BY <1>0, <1>1, <1>t, <3>1, <3>2, FinishOf
      <3>4. QED
        BY <3>3 DEF Promised!Next
    <2>3. QED
      BY <1>10, <2>1, <2>2 DEF Shutdown
  <1>11. QED
    BY <1>4, <1>5, <1>6, <1>7, <1>8, <1>9, <1>10 DEF Session

(* The coroutines do what a session promises, for any number of            *)
(* connections, io threads and descriptors: replies in the order of the    *)
(* requests, none behind one that Connection::run rejects, a graceful end  *)
(* only when all is answered.  (That every session ends is liveness, which *)
(* ImplementsSession adds and the run Sessions checks.)                    *)
THEOREM SessionsKeepPromise == Spec => Promised!Safety
  <1>1. SessionInv /\ [Next]_vars => [Promised!Next]_(Promised!vars)
    <2> SUFFICES ASSUME SessionInv, [Next]_vars PROVE [Promised!Next]_(Promised!vars)
      OBVIOUS
    <2>1. CASE ListenerSetup \/ UNCHANGED vars
      BY <2>1 DEF ListenerSetup, vars, clientVars, sessionVars, Phase, Promised!vars
    <2>2. QED
      BY <2>1, PromisedFromOutside, PromisedFromSession DEF Next, Listener
  <1>2. QED
    BY <1>1, InitSessions, SessionStep, PromisedInit, PTL DEF Spec, Promised!Safety
=============================================================================
