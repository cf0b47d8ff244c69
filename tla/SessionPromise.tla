--------------------------- MODULE SessionPromise --------------------------
(***************************************************************************)
(* What a session promises its client: requests come in, a reply to each   *)
(* goes out, one for one and in the order of the requests, until a request *)
(* is refused or the session is cut off.  A session that says goodbye has  *)
(* answered everything.  HttpSessions, the translation of the coroutines,  *)
(* implements this for any number of connections and io threads.           *)
(***************************************************************************)
EXTENDS Naturals, Sequences

CONSTANTS Conns,      \* connections
          Kinds,      \* what a request may be
          ReplyTo     \* [Kinds -> Nat]: the status it is answered with, or 0:
                      \* it is refused, and no request behind it is answered

VARIABLES asked,      \* [Conns -> Seq(Kinds)]: requests sent, in order
          replies,    \* [Conns -> Seq(Nat)]: replies received, in order
          phase       \* [Conns -> "none", "open", "served", "refused", "cut"]

vars == <<asked, replies, phase>>

Init == /\ asked = [c \in Conns |-> <<>>]
        /\ replies = [c \in Conns |-> <<>>]
        /\ phase = [c \in Conns |-> "none"]

Unanswered(c) == Len(replies[c]) < Len(asked[c])
NextKind(c) == asked[c][Len(replies[c]) + 1]

Open(c) ==
    /\ phase[c] = "none"
    /\ phase' = [phase EXCEPT ![c] = "open"]
    /\ UNCHANGED <<asked, replies>>

(* A client may send at any time, except after its goodbye. *)
Ask(c, k) ==
    /\ phase[c] \notin {"none", "served"}
    /\ asked' = [asked EXCEPT ![c] = Append(@, k)]
    /\ UNCHANGED <<replies, phase>>

Reply(c) ==
    /\ phase[c] = "open" /\ Unanswered(c) /\ ReplyTo[NextKind(c)] # 0
    /\ replies' = [replies EXCEPT ![c] = Append(@, ReplyTo[NextKind(c)])]
    /\ UNCHANGED <<asked, phase>>

(* The session is over: all is answered, the next request is one to        *)
(* refuse, or the connection failed.                                       *)
Finish(c) ==
    /\ phase[c] = "open"
    /\ \/ ~Unanswered(c) /\ phase' = [phase EXCEPT ![c] = "served"]
       \/ /\ Unanswered(c) /\ ReplyTo[NextKind(c)] = 0
          /\ phase' = [phase EXCEPT ![c] = "refused"]
       \/ phase' = [phase EXCEPT ![c] = "cut"]
    /\ UNCHANGED <<asked, replies>>

Next == \E c \in Conns : \/ Open(c) \/ Reply(c) \/ Finish(c)
                         \/ \E k \in Kinds : Ask(c, k)

(* What a session does, whether it ever ends or not. *)
Safety == Init /\ [][Next]_vars

(* Every session is over some day: no client can keep one by silence. *)
Spec == Safety /\ \A c \in Conns : WF_vars(Finish(c))
=============================================================================
