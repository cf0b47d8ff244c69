---------------------------- MODULE RoutePromise ----------------------------
(***************************************************************************)
(* What the route table promises an embedder: handlers are registered      *)
(* under a method map and a path, and every request is answered as if it   *)
(* were dispatched alone, in one instant, by the handlers of the best      *)
(* matching entry, in priority order, until one of them ends the response. *)
(* RouteDispatch, the translation of the code, implements this when one io *)
(* thread dispatches and every route is added before the server runs.      *)
(***************************************************************************)
EXTENDS RouteTable

VARIABLES slots,    \* [Signals -> SUBSET Slots]: the route table
          nAdds,    \* handlers registered so far
          answer    \* [Requests -> ...]: what was sent for each request

vars == <<slots, nAdds, answer>>

Init == /\ slots = [s \in Signals |-> {}]
        /\ nAdds = 0
        /\ answer = [r \in Requests |-> Pending]

(* A handler becomes visible at its map, path and priority. *)
Register(s, pri) ==
    /\ nAdds < MaxAdds
    /\ nAdds' = nAdds + 1
    /\ slots' = [slots EXCEPT ![s] = @ \cup {[pri |-> pri, id |-> nAdds + 1]}]
    /\ UNCHANGED answer

(* What the handlers S of one entry may answer r: what any of them ended   *)
(* the response with, or what the last one returned.                       *)
AnswersBy(S, r) ==
    LET last == {s \in S : \A o \in S \ {s} : Before(o, s)}
    IN  {Ok(EndedWith(s, r)) : s \in S} \cup {Ok(Returned(s, r)) : s \in last}

(* r, asking for p, is served by the first entry of the lookup order that  *)
(* has handlers, and told "not found" when there is none.                  *)
Answers(r, p) ==
    LET matching == {k \in 1..4 : slots[Candidate(p, k)] # {}}
        best == {k \in matching : \A j \in matching : k <= j}
    IN  IF matching = {} THEN {NotFoundAnswer}
        ELSE UNION {AnswersBy(slots[Candidate(p, k)], r) : k \in best}

Serve(r, p) ==
    /\ answer[r] = Pending
    /\ \E a \in Answers(r, p) : answer' = [answer EXCEPT ![r] = a]
    /\ UNCHANGED <<slots, nAdds>>

Next == \/ \E s \in Signals, pri \in Priorities : Register(s, pri)
        \/ \E r \in Requests, p \in Paths : Serve(r, p)

Spec == Init /\ [][Next]_vars
=============================================================================
