----------------------------- MODULE RouteTable -----------------------------
(***************************************************************************)
(* The vocabulary of the route table, shared by what it promises           *)
(* (RoutePromise) and by how the code does it (RouteDispatch): maps, keys, *)
(* signals, slots, the order of lookups, and what an answer can be.        *)
(***************************************************************************)
EXTENDS Integers

CONSTANTS Requests,     \* the requests that reach RouteImpl::doGetSignal
          NoRequest,    \* no request: the origin of an empty body
          Paths,        \* the paths clients ask for (all start with "/")
          Priorities,   \* the priorities routes are registered with
          MaxAdds       \* bound on the calls of ServerImpl::route

ASSUME TableAssumption ==
    /\ NoRequest \notin Requests
    /\ "*" \notin Paths
    /\ Priorities \subseteq Int
    /\ MaxAdds \in Nat

(* The three maps of RouteImpl and the keys used in them. *)
Maps == {"GET", "POST", "ALL"}
PathKeys == Paths \cup {"*"}
Signals == Maps \X PathKeys

(* A slot is a handler connected to a signal; "id" is its registration     *)
(* number, so that slots of one priority are ordered by age.               *)
Slots == [pri : Priorities, id : 1..MaxAdds]

(* Boost.Signals2 runs groups in ascending order, and a group's slots in   *)
(* the order they were connected in.                                       *)
Before(a, b) == \/ a.pri < b.pri
                \/ a.pri = b.pri /\ a.id < b.id

(* What a response body can be: nothing, what a handler returned, or what  *)
(* it passed to Response::end; always with the request it was made for.    *)
EmptyBody == [kind |-> "empty", handler |-> 0, req |-> NoRequest]
Returned(s, r) == [kind |-> "return", handler |-> s.id, req |-> r]
EndedWith(s, r) == [kind |-> "end", handler |-> s.id, req |-> r]

Pending == [status |-> 0, body |-> EmptyBody]
Ok(b) == [status |-> 200, body |-> b]
NotFoundAnswer == [status |-> 404, body |-> EmptyBody]

(* The order in which RouteImpl::doSignal looks for a request's entry. *)
Candidate(p, k) == CASE k = 1 -> <<"GET", p>>
                     [] k = 2 -> <<"GET", "*">>
                     [] k = 3 -> <<"ALL", p>>
                     [] k = 4 -> <<"ALL", "*">>
=============================================================================
