------------------------- MODULE RouteDispatchProofs ------------------------
(***************************************************************************)
(* Theorems about RouteDispatch, for every set of io threads, requests,    *)
(* paths and priorities, and every number of routes: bodies and the ends   *)
(* of responses, then which entry of the route table a dispatch ends in,   *)
(* and that one io thread, with every route added before ServerImpl::run,  *)
(* implements RoutePromise.                                                *)
(***************************************************************************)
EXTENDS RouteDispatch, TLAPS

(* The steps of a dispatch change only what belongs to that request (and   *)
(* the combiner of its signal), so most of the cases below are short.      *)
LEMMA CandidateType ==
    ASSUME NEW p \in Paths, NEW k \in 1..4
    PROVE  Candidate(p, k) \in Signals
  <1>1. k = 1 \/ k = 2 \/ k = 3 \/ k = 4
    OBVIOUS
  <1>2. QED
    BY <1>1 DEF Candidate, Signals, Maps, PathKeys

(* What a handler returns or ends with, and what is sent, is a body.       *)
LEMMA BodyTypes ==
    /\ EmptyBody \in Bodies
    /\ \A s \in Slots, r \in Requests :
          Returned(s, r) \in Bodies /\ EndedWith(s, r) \in Bodies
  BY TableAssumption DEF EmptyBody, Returned, EndedWith, Bodies, Slots

(* RouteCombiner dereferences the response it holds, so its types and that *)
(* it holds one are proved together.                                       *)
CoreInv == TypeOK /\ CombinerHasResponse

(* The server starts with empty maps: the core invariant holds.            *)
LEMMA InitCore == Init => CoreInv
  <1> SUFFICES ASSUME Init PROVE CoreInv
    OBVIOUS
  <1>1. /\ <<"GET", "*">> \in Signals
        /\ "*" \in PathKeys
        /\ 0 \in 0..MaxAdds
    BY TableAssumption DEF Signals, Maps, PathKeys
  <1>2. Pending \in [status : {0, 200, 404}, body : Bodies]
    BY BodyTypes DEF Pending
  <1>3. TableType
    BY <1>1 DEF Init, TableType
  <1>4. DispatchType
    BY <1>1, BodyTypes DEF Init, DispatchType, PCs
  <1>5. ResponseType
    BY <1>2, BodyTypes DEF Init, ResponseType
  <1>6. QED
    BY <1>3, <1>4, <1>5 DEF Init, TypeOK, CombinerHasResponse, CoreInv

(* The embedder's actions touch the table only. *)
LEMMA EmbedderTypes == TypeOK /\ Embedder => TypeOK'
  <1> SUFFICES ASSUME TypeOK, Embedder PROVE TypeOK'
    OBVIOUS
  <1>1. /\ UNCHANGED <<combiner, dispatchVars, responseVars>>
        /\ TableType
    BY DEF Embedder, Run, Route, Insert, Connect, TypeOK
  <1>2. TableType'
    <2>1. CASE Run
      BY <1>1, <2>1 DEF Run, TableType
    <2>2. ASSUME NEW s \in Signals, NEW pri \in Priorities, Route(s, pri)
          PROVE  TableType'
      BY <1>1, <2>2, TableAssumption DEF Route, TableType
    <2>3. CASE Insert
      <3>1. adding.sig[1] \in Maps /\ adding.sig[2] \in PathKeys
        BY <1>1 DEF TableType, Signals
      <3>2. QED
        BY <1>1, <2>3, <3>1 DEF Insert, TableType
    <2>4. CASE Connect
      <3>1. [pri |-> adding.pri, id |-> nAdds + 1] \in Slots /\ nAdds + 1 \in 0..MaxAdds
        BY <1>1, <2>4, TableAssumption DEF Connect, TableType, Slots
      <3>2. QED
        BY <1>1, <2>4, <3>1 DEF Connect, TableType
    <2>5. QED
      BY <2>1, <2>2, <2>3, <2>4 DEF Embedder
  <1>3. QED
    BY <1>1, <1>2 DEF TypeOK, DispatchType, ResponseType, dispatchVars, responseVars

(* A session that hands its request to doGetSignal keeps the types.        *)
LEMMA StartTypes ==
    ASSUME TypeOK, NEW t \in IoThreads, NEW r \in Requests, Start(t, r)
    PROVE  TypeOK'
  <1>1. DispatchType'
    BY DEF TypeOK, DispatchType, Start, PCs, PathKeys
  <1>2. \A q \in Requests : (pc[q] # "new" => path[q] \in Paths)'
    BY DEF TypeOK, DispatchType, Start
  <1>3. QED
    BY <1>1, <1>2 DEF TypeOK, Start, TableType, ResponseType, tableVars, responseVars

(* Every step of doSignal and of RouteCombiner keeps the types.            *)
LEMMA DispatchTypes ==
    ASSUME TypeOK, CombinerHasResponse, NEW r \in Requests, Dispatch(r)
    PROVE  TypeOK'
  <1> USE DEF TypeOK
  <1>1. /\ TableType'
        /\ \A q \in Requests : (pc[q] # "new" => path[q] \in Paths)'
    BY DEF TableType, DispatchType, tableVars, Dispatch, FindHit, FindMiss, SetCombiner,
           Invoke, RunSlot, CheckEnded, Respond, NotFound, Finish
  <1>2. CASE FindHit(r)
    <2>1. Candidate(path[r], try[r]) \in Signals
      BY <1>2, CandidateType DEF DispatchType, FindHit
    <2>2. DispatchType'
      BY <1>2, <2>1 DEF DispatchType, FindHit, PCs
    <2>3. QED
      BY <1>1, <1>2, <2>2 DEF FindHit, ResponseType, responseVars
  <1>3. CASE FindMiss(r)
    <2>1. DispatchType'
      BY <1>3 DEF DispatchType, FindMiss, MoreLookups, NextLookup, PCs
    <2>2. QED
      BY <1>1, <1>3, <2>1 DEF FindMiss, ResponseType, responseVars
  <1>4. CASE SetCombiner(r)
    <2>1. DispatchType'
      BY <1>4 DEF DispatchType, SetCombiner, PCs
    <2>2. combiner' \in [Signals -> Requests \cup {NoRequest}]
      BY <1>4 DEF SetCombiner, Installed
    <2>3. QED
      BY <1>1, <1>4, <2>1, <2>2 DEF SetCombiner, ResponseType, responseVars
  <1>5. CASE Invoke(r)
    <2>1. DispatchType'
      BY <1>5 DEF DispatchType, TableType, Invoke, PCs
    <2>2. QED
      BY <1>1, <1>5, <2>1 DEF Invoke, ResponseType, responseVars
  <1>6. CASE RunSlot(r)
    <2>1. PICK s \in todo[r] :
             /\ todo' = [todo EXCEPT ![r] = @ \ {s}]
             /\ value' = [value EXCEPT ![r] = Returned(s, r)]
             /\ ran' = [ran EXCEPT ![r] = @ \cup {s}]
             /\ End(r, EndedWith(s, r)) \/ UNCHANGED <<ended, body>>
      BY <1>6 DEF RunSlot
    <2>2. s \in Slots /\ Returned(s, r) \in Bodies /\ EndedWith(s, r) \in Bodies
      BY BodyTypes DEF DispatchType
    <2>3. DispatchType'
      BY <1>6, <2>1, <2>2 DEF DispatchType, RunSlot, PCs
    <2>4. ResponseType'
      <3>1. UNCHANGED answer
        BY <1>6 DEF RunSlot
      <3>2. CASE End(r, EndedWith(s, r))
        BY <2>1, <2>2, <3>1, <3>2 DEF ResponseType, End
      <3>3. CASE UNCHANGED <<ended, body>>
        BY <2>1, <2>2, <3>1, <3>3 DEF ResponseType
      <3>4. QED
        BY <2>1, <3>2, <3>3
    <2>5. QED
      BY <1>1, <1>6, <2>3, <2>4 DEF RunSlot
  <1>7. CASE CheckEnded(r)
    <2>1. comb[r] \in Requests
      BY <1>7 DEF CheckEnded, CombinerHasResponse, DispatchType
    <2>2. DispatchType'
      <3>1. body[comb[r]] \in Bodies
        BY <2>1 DEF ResponseType
      <3>2. CASE WritableEnded(r)
        BY <1>7, <3>1, <3>2 DEF CheckEnded, DispatchType, PCs
      <3>3. CASE ~WritableEnded(r)
        BY <1>7, <3>3 DEF CheckEnded, DispatchType, PCs
      <3>4. QED
        BY <3>2, <3>3
    <2>3. QED
      BY <1>1, <1>7, <2>2 DEF CheckEnded, ResponseType, responseVars
  <1>8. CASE Respond(r) \/ NotFound(r)
    <2>1. DispatchType'
      BY <1>8 DEF DispatchType, Respond, NotFound, Finish, PCs
    <2>2. Ok(value[r]) \in [status : {0, 200, 404}, body : Bodies]
      BY DEF DispatchType, Ok
    <2>3. NotFoundAnswer \in [status : {0, 200, 404}, body : Bodies]
      BY BodyTypes DEF NotFoundAnswer
    <2>4. ResponseType'
      BY <1>8, <2>2, <2>3 DEF ResponseType, Respond, NotFound, Finish
    <2>5. QED
      BY <1>1, <1>8, <2>1, <2>4 DEF Respond, NotFound, Finish
  <1>9. QED
    BY <1>2, <1>3, <1>4, <1>5, <1>6, <1>7, <1>8 DEF Dispatch

-----------------------------------------------------------------------------
(* A response is installed in a signal before the signal is called, and    *)
(* what another thread installs in between is a response, too.             *)
LEMMA CombinerStep ==
    ASSUME CoreInv, [Next]_vars
    PROVE  CombinerHasResponse'
  <1> USE DEF CoreInv
  <1>1. ASSUME UNCHANGED combiner,
               \A r \in Requests : pc'[r] # pc[r] => pc'[r] \notin {"invoke", "slot", "check"},
               \A r \in Requests : pc'[r] = pc[r] => UNCHANGED <<sig[r], comb[r]>>
        PROVE  CombinerHasResponse'
    BY <1>1 DEF CombinerHasResponse
  <1>2. CASE UNCHANGED vars \/ Embedder
    BY <1>1, <1>2 DEF vars, dispatchVars, Embedder, Run, Route, Insert, Connect
  <1>3. ASSUME NEW t \in IoThreads, NEW r \in Requests, Start(t, r)
        PROVE  CombinerHasResponse'
    BY <1>1, <1>3 DEF Start, TypeOK, DispatchType
  <1>4. ASSUME NEW r \in Requests, Dispatch(r)
        PROVE  CombinerHasResponse'
    <2> USE DEF TypeOK, DispatchType
    <2>1. CASE FindHit(r) \/ FindMiss(r) \/ Respond(r) \/ NotFound(r)
      BY <1>1, <2>1 DEF FindHit, FindMiss, Respond, NotFound, Finish
    <2>2. CASE SetCombiner(r)
      BY <2>2, TableAssumption DEF SetCombiner, Installed, CombinerHasResponse
    <2>3. CASE Invoke(r) \/ RunSlot(r) \/ CheckEnded(r)
      BY <2>3 DEF Invoke, RunSlot, CheckEnded, CombinerHasResponse
    <2>4. QED
      BY <1>4, <2>1, <2>2, <2>3 DEF Dispatch
  <1>5. QED
    BY <1>2, <1>3, <1>4 DEF Next

(* The core invariant is inductive.                                        *)
LEMMA CoreStep == CoreInv /\ [Next]_vars => CoreInv'
  <1> SUFFICES ASSUME CoreInv, [Next]_vars PROVE CoreInv'
    OBVIOUS
  <1>1. TypeOK'
    <2>1. CASE UNCHANGED vars
      BY <2>1 DEF CoreInv, TypeOK, TableType, DispatchType, ResponseType,
                  vars, tableVars, dispatchVars, responseVars
    <2>2. QED
      BY <2>1, EmbedderTypes, StartTypes, DispatchTypes DEF CoreInv, Next
  <1>2. QED
    BY <1>1, CombinerStep DEF CoreInv

(* Types, and a combiner with a response in every call of a signal, for    *)
(* any number of io threads and with routes added at any time.             *)
THEOREM TypesHold == Spec => []TypeOK
  <1>1. Spec => []CoreInv
    BY InitCore, CoreStep, PTL DEF Spec
  <1>2. QED
    BY <1>1, PTL DEF CoreInv

(* Whatever other threads install between set_combiner and the call, the   *)
(* combiner that RouteImpl::doSignal calls holds a response.               *)
THEOREM CombinersHold == Spec => []CombinerHasResponse
  <1>1. Spec => []CoreInv
    BY InitCore, CoreStep, PTL DEF Spec
  <1>2. QED
    BY <1>1, PTL DEF CoreInv

-----------------------------------------------------------------------------
(* Cross-talk is confined, for any number of io threads *)

(* q has installed its response in s: from then on it keeps its signal.    *)
Past == {"invoke", "slot", "check", "respond", "done"}
Through(q, s) == pc[q] \in Past /\ sig[q] = s

(* b is r's own body, or that of an ended request of the same signal. *)
Confined(r, b) ==
    b.req \notin {r, NoRequest} => Through(b.req, sig[r]) /\ ended[b.req]

ConfinedInv ==
    /\ \A s \in Signals : combiner[s] # NoRequest => Through(combiner[s], s)
    /\ \A r \in Requests : comb[r] # NoRequest => pc[r] \in Past /\ Through(comb[r], sig[r])
    /\ \A r \in Requests : body[r].req \in {r, NoRequest}
    /\ \A r \in Requests : pc[r] \notin Past => value[r] = EmptyBody /\ answer[r].body = EmptyBody
    /\ \A r \in Requests : Confined(r, value[r]) /\ Confined(r, answer[r].body)

(* Nothing is installed and nothing is on its way to a client at first.    *)
LEMMA InitConfined == Init => ConfinedInv
  BY DEF Init, ConfinedInv, Confined, Pending, EmptyBody

(* What Through and ended say of a request, no step takes back. *)
LEMMA ThroughStable ==
    ASSUME TypeOK, [Next]_vars, NEW q \in Requests
    PROVE  /\ pc[q] \in Past => pc'[q] \in Past /\ sig'[q] = sig[q]
           /\ ended[q] => ended'[q]
  <1> USE DEF TypeOK, DispatchType, ResponseType
  <1>1. CASE UNCHANGED vars \/ Embedder
    BY <1>1 DEF vars, dispatchVars, responseVars, Embedder, Run, Route, Insert, Connect
  <1>2. ASSUME NEW t \in IoThreads, NEW r \in Requests, Start(t, r)
        PROVE  UNCHANGED <<sig, ended>> /\ (pc[q] \in Past => pc'[q] \in Past)
    BY <1>2 DEF Start, Past, responseVars
  <1>3. ASSUME NEW r \in Requests, Dispatch(r)
        PROVE  /\ pc[q] \in Past => pc'[q] \in Past /\ sig'[q] = sig[q]
               /\ ended[q] => ended'[q]
    <2>1. CASE FindHit(r) \/ FindMiss(r) \/ SetCombiner(r) \/ Invoke(r)
      BY <2>1 DEF Past, FindHit, FindMiss, SetCombiner, Invoke, responseVars
    <2>2. CASE RunSlot(r)
      BY <2>2 DEF Past, RunSlot, End
    <2>3. CASE CheckEnded(r) \/ Respond(r)
      BY <2>3 DEF Past, CheckEnded, Respond, Finish, responseVars
    <2>4. CASE NotFound(r)
      BY <2>4 DEF Past, NotFound, Finish
    <2>5. QED
      BY <1>3, <2>1, <2>2, <2>3, <2>4 DEF Dispatch
  <1>4. QED
    BY <1>1, <1>2, <1>3 DEF Next

(* No step lets a body of a request that did not come through the same     *)
(* signal into the value of another.                                       *)
LEMMA ConfinedStep == CoreInv /\ ConfinedInv /\ [Next]_vars => ConfinedInv'
  <1> SUFFICES ASSUME CoreInv, ConfinedInv, [Next]_vars PROVE ConfinedInv'
    OBVIOUS
  <1> USE DEF CoreInv, TypeOK, DispatchType, ResponseType
  <1>1. /\ \A q \in Requests, s \in Signals : Through(q, s) => Through(q, s)'
        /\ \A q \in Requests : ended[q] => ended'[q]
        /\ \A q \in Requests : pc[q] \in Past => pc'[q] \in Past /\ sig'[q] = sig[q]
    BY ThroughStable DEF Through
  <1>2. \A r \in Requests, b \in Bodies :
           Confined(r, b) /\ (pc[r] \in Past \/ b = EmptyBody) => Confined(r, b)'
    BY <1>1 DEF Confined, Bodies, EmptyBody
  (* A step that leaves these five variables alone cannot disturb anything. *)
  <1>3. ASSUME UNCHANGED <<combiner, comb, body, value, answer>>
        PROVE  ConfinedInv'
    <2>1. \A r \in Requests : pc'[r] \notin Past => pc[r] \notin Past
      BY <1>1
    <2>2. \A r \in Requests : answer[r].body \in Bodies /\ value[r] \in Bodies
      OBVIOUS
    <2>3. ASSUME NEW r \in Requests
          PROVE  Confined(r, value[r])' /\ Confined(r, answer[r].body)'
      BY <1>2, <1>3, <2>2 DEF ConfinedInv
    <2>4. QED
      BY <1>1, <1>3, <2>1, <2>3 DEF ConfinedInv
  <1>4. CASE UNCHANGED vars \/ Embedder
    BY <1>3, <1>4 DEF vars, dispatchVars, responseVars, Embedder, Run, Route, Insert, Connect
  <1>5. ASSUME NEW t \in IoThreads, NEW r \in Requests, Start(t, r)
        PROVE  ConfinedInv'
    BY <1>3, <1>5 DEF Start, responseVars
  <1>6. ASSUME NEW r \in Requests, FindHit(r) \/ FindMiss(r)
        PROVE  ConfinedInv'
    BY <1>3, <1>6 DEF FindHit, FindMiss, responseVars
  (* Below, r is already through its signal or becomes so now. *)
  <1>7. ASSUME NEW r \in Requests,
               \A q \in Requests \ {r} : UNCHANGED <<value[q], answer[q]>>,
               \A q \in Requests : ~ (pc'[q] \in Past) => ~ (pc[q] \in Past),
               pc'[r] \in Past,
               Confined(r, value[r])' /\ Confined(r, answer[r].body)'
        PROVE  /\ \A q \in Requests : pc'[q] \notin Past =>
                     value'[q] = EmptyBody /\ answer'[q].body = EmptyBody
               /\ \A q \in Requests : Confined(q, value[q])' /\ Confined(q, answer[q].body)'
    <2>1. ASSUME NEW q \in Requests \ {r}
          PROVE  Confined(q, value[q])' /\ Confined(q, answer[q].body)'
      <3>1. value[q] \in Bodies /\ answer[q].body \in Bodies
        OBVIOUS
      <3>2. QED
        BY <1>2, <1>7, <3>1 DEF ConfinedInv
    <2>2. QED
      BY <1>7, <2>1 DEF ConfinedInv
  <1>8. ASSUME NEW r \in Requests, SetCombiner(r) PROVE ConfinedInv'
    <2>1. pc'[r] \in Past /\ Through(r, sig[r])'
      BY <1>8 DEF SetCombiner, Past, Through
    <2>2. value[r] = EmptyBody /\ answer[r].body = EmptyBody /\ UNCHANGED <<value, answer, body, comb>>
      BY <1>8 DEF SetCombiner, ConfinedInv, Past, responseVars
    <2>3. Confined(r, value[r])' /\ Confined(r, answer[r].body)'
      BY <2>2 DEF Confined, EmptyBody
    <2>4. \A s \in Signals : combiner'[s] # NoRequest => Through(combiner[s], s)'
      BY <1>1, <1>8, <2>1 DEF SetCombiner, Installed, ConfinedInv
    <2>5. \A q \in Requests : comb'[q] # NoRequest => pc'[q] \in Past /\ Through(comb[q], sig[q])'
      BY <1>1, <2>2 DEF ConfinedInv
    <2>6. QED
      BY <1>1, <1>7, <2>1, <2>2, <2>3, <2>4, <2>5 DEF ConfinedInv
  <1>9. ASSUME NEW r \in Requests, Invoke(r) PROVE ConfinedInv'
    <2>1. pc'[r] \in Past /\ pc[r] \in Past
      BY <1>9 DEF Invoke, Past
    <2>2. UNCHANGED <<value, answer, body, combiner, sig>>
      BY <1>9 DEF Invoke, responseVars
    <2>3. \A q \in Requests : Confined(q, value[q])' /\ Confined(q, answer[q].body)'
      <3>1. \A q \in Requests : value[q] \in Bodies /\ answer[q].body \in Bodies
        OBVIOUS
      <3>2. QED
        BY <1>2, <2>2, <3>1 DEF ConfinedInv
    <2>4. \A q \in Requests : comb'[q] # NoRequest => pc'[q] \in Past /\ Through(comb[q], sig[q])'
      BY <1>1, <1>9, <2>1 DEF Invoke, ConfinedInv
    <2>5. QED
      BY <1>1, <2>2, <2>3, <2>4 DEF ConfinedInv
  <1>10. ASSUME NEW r \in Requests, RunSlot(r) PROVE ConfinedInv'
    <2>1. pc'[r] \in Past /\ UNCHANGED <<answer, combiner, comb, sig>>
      BY <1>10 DEF RunSlot, Past
    <2>2. /\ \A q \in Requests \ {r} : UNCHANGED <<value[q], body[q]>>
          /\ value'[r].req = r /\ body'[r].req \in {r, NoRequest}
      BY <1>10 DEF RunSlot, End, Returned, EndedWith, ConfinedInv
    <2>3. Confined(r, value[r])' /\ Confined(r, answer[r].body)'
      <3>1. answer[r].body \in Bodies /\ pc[r] \in Past
        BY <1>10 DEF RunSlot, Past
      <3>2. QED
        BY <1>2, <2>1, <2>2, <3>1 DEF ConfinedInv, Confined
    <2>4. QED
      BY <1>1, <1>7, <2>1, <2>2, <2>3 DEF ConfinedInv
  <1>11. ASSUME NEW r \in Requests, CheckEnded(r) PROVE ConfinedInv'
    <2>1. pc[r] \in Past /\ pc'[r] \in Past /\ UNCHANGED <<answer, combiner, comb, sig, body, ended>>
      BY <1>11 DEF CheckEnded, Past, responseVars
    <2>2. comb[r] \in Requests /\ Through(comb[r], sig[r])
      BY <1>11 DEF CheckEnded, CombinerHasResponse, ConfinedInv
    <2>3. Confined(r, body[comb[r]]) \/ ~ended[comb[r]]
      BY <2>2 DEF Confined, ConfinedInv
    <2>4. Confined(r, value'[r])
      BY <1>11, <2>3 DEF CheckEnded, WritableEnded, ConfinedInv
    <2>5. Confined(r, value[r])' /\ Confined(r, answer[r].body)'
      <3>1. answer[r].body \in Bodies /\ value'[r] \in Bodies
        BY <1>11, <2>2 DEF CheckEnded
      <3>2. QED
        BY <1>2, <2>1, <2>4, <3>1 DEF ConfinedInv
    <2>6. \A q \in Requests \ {r} : UNCHANGED value[q]
      BY <1>11 DEF CheckEnded
    <2>7. /\ \A s \in Signals : combiner'[s] # NoRequest => Through(combiner[s], s)'
          /\ \A q \in Requests : comb'[q] # NoRequest => pc'[q] \in Past /\ Through(comb[q], sig[q])'
      BY <1>1, <2>1 DEF ConfinedInv
    <2>8. /\ \A q \in Requests : pc'[q] \notin Past => value'[q] = EmptyBody /\ answer'[q].body = EmptyBody
          /\ \A q \in Requests : Confined(q, value[q])' /\ Confined(q, answer[q].body)'
      BY <1>1, <1>7, <2>1, <2>5, <2>6
    <2>9. QED
      BY <2>1, <2>7, <2>8 DEF ConfinedInv
  <1>12. ASSUME NEW r \in Requests, Respond(r) \/ NotFound(r) PROVE ConfinedInv'
    <2>1. pc'[r] \in Past /\ UNCHANGED <<value, combiner, comb, sig, body>>
      BY <1>12 DEF Respond, NotFound, Finish, Past
    <2>2. answer'[r].body \in {value[r], EmptyBody}
      BY <1>12 DEF Respond, NotFound, Finish, Ok, NotFoundAnswer
    <2>3. Confined(r, value[r])' /\ Confined(r, answer[r].body)'
      <3>1. value[r] \in Bodies /\ EmptyBody \in Bodies
        BY BodyTypes
      <3>2. Confined(r, EmptyBody)' /\ Confined(r, EmptyBody)
        BY DEF Confined, EmptyBody
      <3>3. pc[r] \in Past \/ value[r] = EmptyBody
        BY DEF ConfinedInv
      <3>4. Confined(r, value[r])'
        BY <1>2, <2>1, <3>1, <3>3 DEF ConfinedInv
      <3>5. QED
        BY <2>1, <2>2, <3>2, <3>4 DEF Confined
    <2>4. \A q \in Requests \ {r} : UNCHANGED answer[q]
      BY <1>12 DEF Respond, NotFound, Finish
    <2>5. /\ \A s \in Signals : combiner'[s] # NoRequest => Through(combiner[s], s)'
          /\ \A q \in Requests : comb'[q] # NoRequest => pc'[q] \in Past /\ Through(comb[q], sig[q])'
      BY <1>1, <2>1 DEF ConfinedInv
    <2>6. /\ \A q \in Requests : pc'[q] \notin Past => value'[q] = EmptyBody /\ answer'[q].body = EmptyBody
          /\ \A q \in Requests : Confined(q, value[q])' /\ Confined(q, answer[q].body)'
      BY <1>1, <1>7, <2>1, <2>3, <2>4
    <2>7. QED
      BY <2>1, <2>5, <2>6 DEF ConfinedInv
  <1>13. QED
    BY <1>4, <1>5, <1>6, <1>8, <1>9, <1>10, <1>11, <1>12 DEF Next, Dispatch

(* For any number of io threads, and routes added at any time: a response  *)
(* carries its own request's body, or that of a request which was          *)
(* dispatched through the same signal and ended (RouteImpl::doSignal).     *)
THEOREM CrossTalkIsConfined == Spec => []CrossTalkConfined
  <1>1. CoreInv /\ ConfinedInv => CrossTalkConfined
    BY DEF ConfinedInv, Confined, Through, CrossTalkConfined
  <1>2. Spec => [](CoreInv /\ ConfinedInv)
    BY InitCore, CoreStep, InitConfined, ConfinedStep, PTL DEF Spec
  <1>3. QED
    BY <1>1, <1>2, PTL

-----------------------------------------------------------------------------
(* One io thread: requests are isolated *)

OneThread == \A s, t \in IoThreads : s = t

Active(r) == pc[r] \notin {"new", "done"}

(* What holds of one request while no other is being dispatched: the       *)
(* combiner is its own, its handlers stop when it has ended, and what the  *)
(* dispatch returns is what the handlers ended it with.                    *)
Isolated(r) ==
    /\ pc[r] = "invoke" => combiner[sig[r]] = r
    /\ pc[r] \in {"slot", "check", "respond"} => comb[r] = r
    /\ ended[r] => pc[r] \in {"check", "respond", "done"}
    /\ ended[r] /\ pc[r] \in {"respond", "done"} => value[r] = body[r]
    /\ body[r].req \in {r, NoRequest} /\ value[r].req \in {r, NoRequest}
    /\ answer[r] # Pending => pc[r] = "done"
    /\ pc[r] = "done" => answer[r] = Ok(value[r]) \/ (answer[r] = NotFoundAnswer /\ ~ended[r])

SingleInv ==
    /\ \A r \in Requests : Active(r) => \E t \in IoThreads : busy[t] = r
    /\ \A r \in Requests : Isolated(r)

(* No request is being dispatched at first.                                *)
LEMMA InitSingle == Init => SingleInv
  BY DEF Init, SingleInv, Active, Isolated, EmptyBody, Pending

(* With one io thread every step keeps the requests apart.                 *)
LEMMA SingleStep ==
    ASSUME OneThread, CoreInv, SingleInv, [Next]_vars
    PROVE  SingleInv'
  <1> USE DEF CoreInv, TypeOK, DispatchType, ResponseType
  <1>1. \A q, r \in Requests : Active(q) /\ Active(r) => q = r
    BY DEF OneThread, SingleInv
  <1>2. CASE UNCHANGED vars \/ Embedder
    BY <1>2 DEF vars, dispatchVars, responseVars, Embedder, Run, Route, Insert, Connect,
                SingleInv, Active, Isolated
  <1>3. ASSUME NEW t \in IoThreads, NEW r \in Requests, Start(t, r)
        PROVE  SingleInv'
    <2>1. \A q \in Requests : Active(q)' => \E s \in IoThreads : busy'[s] = q
      BY <1>3, TableAssumption DEF Start, SingleInv, Active
    <2>2. \A q \in Requests : Isolated(q)'
      BY <1>3 DEF Start, SingleInv, Isolated, responseVars
    <2>3. QED
      BY <2>1, <2>2 DEF SingleInv
  <1>4. ASSUME NEW r \in Requests, Dispatch(r)
        PROVE  SingleInv'
    <2>1. Active(r) /\ \A q \in Requests \ {r} : ~Active(q)
      BY <1>1, <1>4 DEF Active, Dispatch, FindHit, FindMiss, SetCombiner, Invoke, RunSlot,
                        CheckEnded, Respond, NotFound
    <2>2. \A q \in Requests : Active(q)' => \E s \in IoThreads : busy'[s] = q
      BY <1>4, <2>1 DEF SingleInv, Active, Dispatch, FindHit, FindMiss, SetCombiner, Invoke,
                        RunSlot, CheckEnded, Respond, NotFound, Finish
    <2>3. ASSUME NEW q \in Requests \ {r}
          PROVE  Isolated(q)'
      BY <1>4, <2>1 DEF SingleInv, Isolated, Active, Dispatch, FindHit, FindMiss,
                        SetCombiner, Invoke, RunSlot, End, CheckEnded, Respond, NotFound,
                        Finish, responseVars
    <2>4. Isolated(r)'
      <3>1. CASE FindHit(r) \/ FindMiss(r)
        BY <3>1 DEF FindHit, FindMiss, responseVars, SingleInv, Isolated
      <3>2. CASE SetCombiner(r)
        BY <3>2 DEF SetCombiner, Installed, responseVars, SingleInv, Isolated
      <3>3. CASE Invoke(r)
        BY <3>3 DEF Invoke, responseVars, SingleInv, Isolated
      <3>4. CASE RunSlot(r)
        <4>1. /\ pc'[r] = "check" /\ UNCHANGED <<combiner, comb, sig, answer>>
              /\ body'[r].req \in {r, NoRequest} /\ value'[r].req = r
          BY <3>4 DEF RunSlot, End, Returned, EndedWith, SingleInv, Isolated
        <4>2. QED
          BY <3>4, <4>1 DEF RunSlot, SingleInv, Isolated
      <3>5. CASE CheckEnded(r)
        BY <3>5 DEF CheckEnded, WritableEnded, responseVars, SingleInv, Isolated
      <3>6. CASE Respond(r)
        <4>1. /\ pc[r] = "respond" /\ pc'[r] = "done" /\ UNCHANGED <<value, body, ended>>
              /\ answer'[r] = Ok(value[r])
          BY <3>6 DEF Respond, Finish
        <4>2. QED
          BY <4>1 DEF SingleInv, Isolated
      <3>7. CASE NotFound(r)
        <4>1. /\ pc[r] = "notFound" /\ pc'[r] = "done" /\ UNCHANGED <<value, body, ended>>
              /\ answer'[r] = NotFoundAnswer
          BY <3>7 DEF NotFound, Finish
        <4>2. QED
          BY <4>1 DEF SingleInv, Isolated
      <3>8. QED
        BY <1>4, <3>1, <3>2, <3>3, <3>4, <3>5, <3>6, <3>7 DEF Dispatch
    <2>5. QED
      BY <2>2, <2>3, <2>4 DEF SingleInv
  <1>5. QED
    BY <1>2, <1>3, <1>4 DEF Next

(* With one io thread, whatever routes are added and whenever: what is     *)
(* sent for a request was computed for it (set_combiner and the call of    *)
(* the signal in doSignal are not separated by another dispatch).          *)
THEOREM OneThreadAnswersAreOwn == ASSUME OneThread PROVE Spec => []AnswersAreOwn
  <1>1. CoreInv /\ SingleInv => AnswersAreOwn
    <2> SUFFICES ASSUME SingleInv, NEW r \in Requests
                 PROVE  answer[r].body.req \in {r, NoRequest}
      BY DEF AnswersAreOwn
    <2>1. answer[r] \in {Pending, Ok(value[r]), NotFoundAnswer}
      BY DEF SingleInv, Isolated
    <2>2. answer[r].body \in {EmptyBody, value[r]}
      BY <2>1 DEF Pending, Ok, NotFoundAnswer
    <2>3. QED
      BY <2>2 DEF SingleInv, Isolated, EmptyBody
  <1>2. Spec => [](CoreInv /\ SingleInv)
    BY InitCore, CoreStep, InitSingle, SingleStep, PTL DEF Spec
  <1>3. QED
    BY <1>1, <1>2, PTL

(* With one io thread, a response a handler has ended is sent with the     *)
(* body it was ended with.                                                 *)
THEOREM OneThreadEndedBodySent == ASSUME OneThread PROVE Spec => []EndedBodySent
  <1>1. CoreInv /\ SingleInv => EndedBodySent
    BY DEF SingleInv, Isolated, EndedBodySent
  <1>2. Spec => [](CoreInv /\ SingleInv)
    BY InitCore, CoreStep, InitSingle, SingleStep, PTL DEF Spec
  <1>3. QED
    BY <1>1, <1>2, PTL

(* With one io thread, no handler runs for a request that has been ended,  *)
(* and its body does not change any more (RouteCombiner returns).          *)
THEOREM OneThreadEndIsFinal == ASSUME OneThread PROVE Spec => EndIsFinal
  <1> DEFINE Final == \A r \in Requests : ended[r] => UNCHANGED <<ran[r], body[r]>>
  <1>1. CoreInv /\ SingleInv /\ [Next]_vars => [Final]_vars
    <2> SUFFICES ASSUME CoreInv, SingleInv, Next, NEW q \in Requests, ended[q]
                 PROVE  UNCHANGED <<ran[q], body[q]>>
      BY DEF vars, responseVars
    <2>1. pc[q] # "slot"
      BY DEF SingleInv, Isolated
    <2>2. QED
      BY <2>1 DEF CoreInv, TypeOK, ResponseType, Next, Embedder, Run, Route, Insert, Connect,
                  Start, Dispatch, FindHit, FindMiss, SetCombiner, Invoke, RunSlot, End,
                  CheckEnded, Respond, NotFound, Finish, responseVars
  <1>2. Spec => [](CoreInv /\ SingleInv)
    BY InitCore, CoreStep, InitSingle, SingleStep, PTL DEF Spec
  <1>3. QED
    BY <1>1, <1>2, PTL DEF Spec, EndIsFinal

-----------------------------------------------------------------------------
(***************************************************************************)
(* Which entry of the route table a dispatch ends in, and with what:       *)
(* LookupPrecedence and EmptyOkOnlyInWindow, for any number of io threads, *)
(* and RoutePromise.                                                       *)
(***************************************************************************)

(***************************************************************************)
(* The table and the embedder's thread.  An entry without a handler is     *)
(* there only between insert and connect; and while the server runs, the   *)
(* embedder is in RouteImpl::add only where late routes are allowed.       *)
(***************************************************************************)
TableInv ==
    /\ \A s \in Signals : slots[s] # {} => Present(s)
    /\ \A s \in Signals : Present(s) /\ slots[s] = {} => adder = "connect" /\ adding.sig = s
    /\ adder = "connect" => Present(adding.sig)
    /\ \A r \in Requests : pc[r] # "new" => running
    /\ ~LateRoutes /\ running => adder = "idle"

(* The lookups of a request so far, in a table nobody changes. *)
NonePresent(r) == \A k \in 1..4 : ~Present(Candidate(path[r], k))
Serving == {"setCombiner", "invoke", "slot", "check", "respond"}

LookedUp(r) ==
    /\ pc[r] = "new" => try[r] = 1
    /\ pc[r] = "find" => \A j \in 1..(try[r] - 1) : ~Present(Candidate(path[r], j))
    /\ pc[r] \in Serving => BestEntry(r, sig[r])
    /\ pc[r] = "notFound" => NonePresent(r)
    /\ answer[r].status = 200 => BestEntry(r, sig[r])
    /\ answer[r].status = 404 => NonePresent(r)

PendingUntilDone == \A r \in Requests : pc[r] # "done" => answer[r] = Pending

LookupInv == TableInv /\ PendingUntilDone /\ (~LateRoutes => \A r \in Requests : LookedUp(r))

(* How a body can be empty: no handler has run, or has been asked to. *)
Filled(r) ==
    /\ ended[r] => body[r].kind = "end"
    /\ pc[r] \notin {"slot", "check", "respond", "done"} => ran[r] = {}
    /\ pc[r] \in {"slot", "check"} /\ value[r].kind = "empty" => ran[r] = {} /\ pc[r] = "slot"
    /\ pc[r] = "slot" => todo[r] # {}
    /\ pc[r] = "respond" /\ value[r].kind = "empty" => ran[r] = {} /\ LateRoutes
    /\ answer[r].status = 200 /\ answer[r].body.kind = "empty" => ran[r] = {} /\ LateRoutes

FilledInv == \A r \in Requests : Filled(r)

(* The handlers of one entry run in the order of the signal; what they     *)
(* leave is what the last one returned or one of them ended with.          *)
EndedBy(r) == \E s \in slots[sig[r]] : body[r] = EndedWith(s, r)
Latest(S, s) == s \in S /\ \A o \in S \ {s} : Before(o, s)

RunsInOrder(r) ==
    /\ pc[r] \in {"slot", "check"} =>
          /\ todo[r] \subseteq slots[sig[r]] /\ ran[r] = slots[sig[r]] \ todo[r]
          /\ \A a \in ran[r], b \in todo[r] : Before(a, b)
    /\ pc[r] = "check" => \E s \in slots[sig[r]] : Latest(ran[r], s) /\ value[r] = Returned(s, r)
    /\ ended[r] => EndedBy(r)
    /\ pc[r] = "respond" =>
          \/ ended[r] /\ value[r] = body[r]
          \/ \E s \in slots[sig[r]] : Latest(slots[sig[r]], s) /\ value[r] = Returned(s, r)

OrderInv == \A r \in Requests : RunsInOrder(r)

-----------------------------------------------------------------------------
(* The table *)

(* The server starts with empty maps, and no request. *)
LEMMA InitLookup == Init => LookupInv /\ FilledInv /\ OrderInv
  <1> SUFFICES ASSUME Init PROVE LookupInv /\ FilledInv /\ OrderInv
    OBVIOUS
  <1>1. \A s \in Signals : slots[s] = {} /\ ~Present(s)
    BY DEF Init, Present, Signals
  <1>2. TableInv
    BY <1>1 DEF Init, TableInv
  <1>3. \A r \in Requests : /\ pc[r] = "new" /\ answer[r] = Pending /\ try[r] = 1
                           /\ ~ended[r] /\ ran[r] = {}
    BY DEF Init
  <1>4. ASSUME NEW r \in Requests PROVE LookedUp(r) /\ Filled(r) /\ RunsInOrder(r)
    <2>1. LookedUp(r)
      BY <1>3 DEF LookedUp, Serving, Pending
    <2>2. Filled(r)
      BY <1>3 DEF Filled, Pending
    <2>3. RunsInOrder(r)
      BY <1>3 DEF RunsInOrder
    <2>4. QED
      BY <2>1, <2>2, <2>3
  <1>5. QED
    BY <1>2, <1>3, <1>4 DEF LookupInv, PendingUntilDone, FilledInv, OrderInv

(* A dispatch leaves the table and the embedder alone. *)
LEMMA DispatchLeavesTable ==
    ASSUME NEW r \in Requests, Dispatch(r) \/ \E t \in IoThreads : Start(t, r)
    PROVE  UNCHANGED tableVars
  BY DEF Dispatch, Start, FindHit, FindMiss, SetCombiner, Invoke, RunSlot, CheckEnded, Respond,
         NotFound, Finish

(* Where a request goes next: nothing of a dispatch is new again, and only *)
(* a thread that runs starts one.                                          *)
LEMMA TableStep == CoreInv /\ TableInv /\ [Next]_vars => TableInv'
  <1> SUFFICES ASSUME CoreInv, TableInv, [Next]_vars PROVE TableInv'
    OBVIOUS
  <1>0. TableType /\ \A r \in Requests : pc[r] \in PCs
    BY DEF CoreInv, TypeOK, DispatchType
  <1>1. CASE UNCHANGED vars
    BY <1>1 DEF vars, tableVars, dispatchVars, TableInv, Present
  <1>2. CASE Run
    BY <1>2 DEF Run, dispatchVars, TableInv, Present
  <1>3. ASSUME NEW s \in Signals, NEW pri \in Priorities, Route(s, pri) PROVE TableInv'
    <2>1. /\ adder = "idle" /\ (running => LateRoutes) /\ UNCHANGED <<running, table, slots, pc>>
          /\ adding' = [sig |-> s, pri |-> pri]
          /\ adder' = IF Present(s) THEN "connect" ELSE "insert"
      BY <1>3 DEF Route, dispatchVars
    <2>2. adder' = "connect" => Present(s)' /\ adding'.sig = s
      BY <2>1 DEF Present
    <2>3. QED
      BY <2>1, <2>2 DEF TableInv, Present
  <1>4. CASE Insert
    <2>1. /\ adder = "insert" /\ adder' = "connect" /\ UNCHANGED <<running, slots, adding, pc>>
          /\ adding.sig \in Signals
          /\ table' = [table EXCEPT ![adding.sig[1]] = @ \cup {adding.sig[2]}]
      BY <1>0, <1>4 DEF Insert, dispatchVars, TableType
    <2>2. \A s \in Signals : Present(s)' <=> Present(s) \/ s = adding.sig
      BY <1>0, <2>1 DEF Present, Signals, TableType
    <2>3. QED
      BY <2>1, <2>2 DEF TableInv
  <1>5. CASE Connect
    <2>1. /\ adder = "connect" /\ adder' = "idle" /\ UNCHANGED <<running, table, adding, pc>>
          /\ adding.sig \in Signals
          /\ slots'[adding.sig] # {} /\ \A s \in Signals \ {adding.sig} : slots'[s] = slots[s]
      BY <1>0, <1>5 DEF Connect, dispatchVars, TableType
    <2>2. \A s \in Signals : Present(s)' <=> Present(s)
      BY <2>1 DEF Present
    <2>3. QED
      BY <2>1, <2>2 DEF TableInv
  <1>6. ASSUME NEW t \in IoThreads, NEW r \in Requests, Start(t, r) PROVE TableInv'
    <2>1. running /\ UNCHANGED tableVars
      BY <1>6 DEF Start
    <2>2. QED
      BY <2>1 DEF tableVars, TableInv, Present
  <1>7. ASSUME NEW r \in Requests, Dispatch(r) PROVE TableInv'
    <2>1. pc[r] # "new" /\ \A q \in Requests \ {r} : pc'[q] = pc[q]
      BY <1>7 DEF CoreInv, TypeOK, DispatchType, Dispatch, FindHit, FindMiss, SetCombiner, Invoke,
                  RunSlot, CheckEnded, Respond, NotFound, Finish
    <2>2. UNCHANGED tableVars
      BY <1>7, DispatchLeavesTable
    <2>3. QED
      BY <2>1, <2>2 DEF tableVars, TableInv, Present
  <1>8. QED
    BY <1>1, <1>2, <1>3, <1>4, <1>5, <1>6, <1>7 DEF Next, Embedder

(* An answer is given by the last step of a dispatch. *)
LEMMA PendingStep == CoreInv /\ PendingUntilDone /\ [Next]_vars => PendingUntilDone'
  <1> SUFFICES ASSUME CoreInv, PendingUntilDone, [Next]_vars PROVE PendingUntilDone'
    OBVIOUS
  <1> USE DEF PendingUntilDone
  <1>1. CASE UNCHANGED vars \/ Embedder
    BY <1>1 DEF vars, dispatchVars, responseVars, Embedder, Run, Route, Insert, Connect
  <1>2. ASSUME NEW t \in IoThreads, NEW r \in Requests, Start(t, r) PROVE PendingUntilDone'
    BY <1>2 DEF Start, responseVars, CoreInv, TypeOK, DispatchType
  <1>3. ASSUME NEW r \in Requests, Dispatch(r) PROVE PendingUntilDone'
    <2> USE DEF CoreInv, TypeOK, DispatchType
    <2>1. CASE Respond(r) \/ NotFound(r)
      BY <2>1 DEF Respond, NotFound, Finish, ResponseType
    <2>2. CASE ~(Respond(r) \/ NotFound(r))
      <3>1. pc[r] # "done" /\ UNCHANGED answer /\ \A q \in Requests \ {r} : pc'[q] = pc[q]
        BY <1>3, <2>2 DEF Dispatch, FindHit, FindMiss, SetCombiner, Invoke, RunSlot, CheckEnded,
                          responseVars
      <3>2. QED
        BY <3>1
    <2>3. QED
      BY <2>1, <2>2
  <1>4. QED
    BY <1>1, <1>2, <1>3 DEF Next

-----------------------------------------------------------------------------
(* Precedence *)

(* What a lookup has established stays true as long as the table does. *)
LEMMA LookedUpKept ==
    ASSUME NEW q \in Requests, LookedUp(q), UNCHANGED <<table, pc[q], path[q], try[q], sig[q], answer[q]>>
    PROVE  LookedUp(q)'
  BY DEF LookedUp, BestEntry, NonePresent, Present

(* A step of the request's own dispatch. *)
LEMMA LookedUpStep ==
    ASSUME CoreInv, NEW r \in Requests, Dispatch(r), LookedUp(r), PendingUntilDone, adder = "idle"
    PROVE  LookedUp(r)'
  <1>0. /\ UNCHANGED <<table, path>> /\ pc[r] \in PCs /\ try[r] \in 1..4
        /\ sig \in [Requests -> Signals] /\ try \in [Requests -> 1..4] /\ pc \in [Requests -> PCs]
        /\ answer \in [Requests -> [status : {0, 200, 404}, body : Bodies]]
    BY DEF CoreInv, TypeOK, DispatchType, ResponseType, tableVars, Dispatch, FindHit, FindMiss,
           SetCombiner, Invoke, RunSlot, CheckEnded, Respond, NotFound, Finish
  <1>k. /\ \A s : BestEntry(r, s) <=> BestEntry(r, s)'
        /\ \A k : Present(Candidate(path[r], k))' <=> Present(Candidate(path[r], k))
        /\ NonePresent(r)' <=> NonePresent(r)
    BY <1>0 DEF BestEntry, NonePresent, Present
  <1>p. pc[r] # "done" => answer[r].status = 0
    BY DEF PendingUntilDone, Pending
  <1>1. CASE FindHit(r)
    <2>1. /\ pc[r] = "find" /\ pc'[r] = "setCombiner" /\ sig'[r] = Candidate(path[r], try[r])
          /\ Present(Candidate(path[r], try[r])) /\ UNCHANGED answer
      BY <1>0, <1>1 DEF FindHit, responseVars
    <2>2. BestEntry(r, sig'[r])
      BY <1>0, <2>1 DEF LookedUp, BestEntry
    <2>3. BestEntry(r, sig[r])'
      BY <1>k, <2>2 DEF BestEntry, Present
    <2>4. QED
      BY <1>p, <2>1, <2>3 DEF LookedUp, Serving
  <1>2. CASE FindMiss(r)
    <2>1. /\ pc[r] = "find" /\ ~Present(Candidate(path[r], try[r])) /\ UNCHANGED <<answer, sig>>
          /\ \/ try[r] < 4 /\ try'[r] = try[r] + 1 /\ pc'[r] = "find"
             \/ try[r] = 4 /\ pc'[r] = "notFound"
      BY <1>0, <1>2 DEF FindMiss, Torn, MoreLookups, NextLookup, responseVars
    <2>2. \A j \in 1..try[r] : ~Present(Candidate(path[r], j))
      BY <1>0, <2>1 DEF LookedUp
    <2>3. CASE try[r] < 4 /\ try'[r] = try[r] + 1 /\ pc'[r] = "find"
      <3>1. \A j \in 1..(try'[r] - 1) : ~Present(Candidate(path[r], j))'
        BY <1>0, <1>k, <2>2, <2>3
      <3>2. QED
        BY <1>0, <1>p, <2>1, <2>3, <3>1 DEF LookedUp, Serving
    <2>4. CASE try[r] = 4 /\ pc'[r] = "notFound"
      <3>1. NonePresent(r)'
        BY <1>k, <2>2, <2>4 DEF NonePresent
      <3>2. QED
        BY <1>p, <2>1, <2>4, <3>1 DEF LookedUp, Serving
    <2>5. QED
      BY <2>1, <2>3, <2>4
  <1>3. CASE SetCombiner(r) \/ Invoke(r) \/ RunSlot(r) \/ CheckEnded(r)
    <2>1. pc[r] \in Serving /\ pc'[r] \in Serving /\ UNCHANGED <<sig, answer>>
      BY <1>0, <1>3 DEF SetCombiner, Invoke, RunSlot, CheckEnded, Serving, responseVars
    <2>2. BestEntry(r, sig[r])'
      BY <1>k, <2>1 DEF LookedUp, BestEntry, Present
    <2>3. QED
      BY <1>p, <2>1, <2>2 DEF LookedUp, Serving
  <1>4. CASE Respond(r)
    <2>1. /\ pc[r] = "respond" /\ pc'[r] = "done" /\ UNCHANGED sig /\ answer'[r] = Ok(value[r])
      BY <1>0, <1>4 DEF Respond, Finish
    <2>2. BestEntry(r, sig[r])'
      BY <1>k, <2>1 DEF LookedUp, Serving, BestEntry, Present
    <2>3. QED
      BY <2>1, <2>2 DEF LookedUp, Serving, Ok
  <1>5. CASE NotFound(r)
    <2>1. /\ pc[r] = "notFound" /\ pc'[r] = "done" /\ answer'[r] = NotFoundAnswer
      BY <1>0, <1>5 DEF NotFound, Finish
    <2>2. QED
      BY <1>k, <2>1 DEF LookedUp, Serving, NotFoundAnswer
  <1>6. QED
    BY <1>1, <1>2, <1>3, <1>4, <1>5 DEF Dispatch

LEMMA LookupStep == CoreInv /\ LookupInv /\ [Next]_vars => LookupInv'
  <1> SUFFICES ASSUME CoreInv, LookupInv, [Next]_vars PROVE LookupInv'
    OBVIOUS
  <1>1. TableInv' /\ PendingUntilDone'
    BY TableStep, PendingStep DEF LookupInv
  <1>2. ASSUME ~LateRoutes, NEW q \in Requests PROVE LookedUp(q)'
    <2>0. LookedUp(q) /\ TableInv /\ PendingUntilDone
      BY <1>2 DEF LookupInv
    <2>m. running => running'
      BY DEF Next, Embedder, Run, Route, Insert, Connect, Start, Dispatch, FindHit, FindMiss,
             SetCombiner, Invoke, RunSlot, CheckEnded, Respond, NotFound, Finish, tableVars, vars
    (* Nobody asks before the server runs. *)
    <2>1. CASE ~running'
      <3>1. pc'[q] = "new" /\ answer'[q] = Pending
        BY <1>1, <2>1 DEF TableInv, PendingUntilDone
      <3>2. ~running /\ UNCHANGED dispatchVars
        <4>1. ~running
          BY <2>1, <2>m
        <4>2. \A r \in Requests : pc[r] = "new"
          BY <2>0, <4>1 DEF TableInv
        <4>3. QED
          BY <4>1, <4>2 DEF Next, Embedder, Run, Route, Insert, Connect, Start, Dispatch, FindHit,
             FindMiss, SetCombiner, Invoke, RunSlot, CheckEnded, Respond, NotFound, vars
      <3>3. pc[q] = "new" /\ try'[q] = 1
        BY <2>0, <3>1, <3>2 DEF dispatchVars, LookedUp
      <3>4. QED
        BY <3>1, <3>3 DEF LookedUp, Serving, Pending
    <2>2. CASE UNCHANGED vars \/ Run
      BY <2>0, <2>2, LookedUpKept DEF vars, tableVars, dispatchVars, responseVars, Run
    <2>3. CASE running /\ Embedder
      <3>1. adder = "idle"
        BY <1>2, <2>0, <2>3 DEF TableInv
      <3>2. UNCHANGED <<table, dispatchVars, responseVars>>
        BY <2>3, <3>1 DEF Embedder, Run, Route, Insert, Connect
      <3>3. QED
        BY <2>0, <3>2, LookedUpKept DEF dispatchVars, responseVars
    <2>4. ASSUME NEW t \in IoThreads, NEW r \in Requests, Start(t, r) PROVE LookedUp(q)'
      <3>1. CASE q = r
        <4>1. pc[q] = "new" /\ pc'[q] = "find" /\ answer'[q] = Pending /\ UNCHANGED try
          BY <2>0, <2>4, <3>1 DEF Start, responseVars, PendingUntilDone, CoreInv, TypeOK, DispatchType
        <4>2. try'[q] = 1
          BY <2>0, <4>1 DEF LookedUp
        <4>3. QED
          BY <4>1, <4>2 DEF LookedUp, Serving, Pending
      <3>2. CASE q # r
        <4>1. UNCHANGED <<table, pc[q], path[q], try[q], sig[q], answer[q]>>
          BY <2>4, <3>2 DEF Start, tableVars, responseVars, CoreInv, TypeOK, DispatchType
        <4>2. QED
          BY <2>0, <4>1, LookedUpKept
      <3>3. QED
        BY <3>1, <3>2
    <2>5. ASSUME NEW r \in Requests, Dispatch(r) PROVE LookedUp(q)'
      <3>1. CASE q = r
        <4>1. pc[r] # "new"
          BY <2>5 DEF Dispatch, FindHit, FindMiss, SetCombiner, Invoke, RunSlot, CheckEnded, Respond,
                      NotFound
        <4>2. adder = "idle"
          BY <1>2, <2>0, <4>1 DEF TableInv
        <4>3. QED
          BY <2>0, <2>5, <3>1, <4>2, LookedUpStep
      <3>2. CASE q # r
        <4>1. UNCHANGED <<table, pc[q], path[q], try[q], sig[q], answer[q]>>
          BY <2>5, <3>2 DEF CoreInv, TypeOK, DispatchType, ResponseType, tableVars, responseVars,
             Dispatch, FindHit, FindMiss, SetCombiner, Invoke, RunSlot, CheckEnded, Respond,
             NotFound, Finish
        <4>2. QED
          BY <2>0, <4>1, LookedUpKept
      <3>3. QED
        BY <3>1, <3>2
    <2>7. running \/ ~running' \/ Run
      BY DEF Next, Embedder, Route, Insert, Connect, Start, Dispatch, FindHit, FindMiss, SetCombiner,
             Invoke, RunSlot, CheckEnded, Respond, NotFound, Finish, tableVars, vars
    <2>8. QED
      BY <2>1, <2>2, <2>3, <2>4, <2>5, <2>7 DEF Next
  <1>3. QED
    BY <1>1, <1>2 DEF LookupInv

(* When no route is added after run(): doSignal answers from the first     *)
(* entry of its lookup order, and "not found" only if there is none,       *)
(* however many io threads look up at the same time.                       *)
THEOREM LookupsArePrecise == Spec => []LookupPrecedence
  <1>1. LookupInv => LookupPrecedence
    <2> SUFFICES ASSUME LookupInv, ~LateRoutes, NEW r \in Requests
                 PROVE  /\ answer[r].status = 200 => BestEntry(r, sig[r])
                        /\ answer[r].status = 404 => NonePresent(r)
      BY DEF LookupPrecedence, NonePresent
    <2>1. LookedUp(r)
      BY DEF LookupInv
    <2>2. QED
      BY <2>1 DEF LookedUp
  <1>2. Spec => [](CoreInv /\ LookupInv)
    BY InitCore, CoreStep, InitLookup, LookupStep, PTL DEF Spec
  <1>3. QED
    BY <1>1, <1>2, PTL

-----------------------------------------------------------------------------
(* Empty answers *)

LEMMA FilledKept ==
    ASSUME NEW q \in Requests, Filled(q),
           UNCHANGED <<pc[q], todo[q], value[q], ended[q], body[q], answer[q], ran[q]>>
    PROVE  Filled(q)'
  BY DEF Filled

(* An entry found where no route is added late has a handler. *)
LEMMA EntryHasHandler ==
    ASSUME CoreInv, LookupInv, NEW r \in Requests, pc[r] \in Serving, ~LateRoutes
    PROVE  slots[sig[r]] # {}
  <1>1. running /\ adder = "idle"
    BY DEF LookupInv, TableInv, Serving
  <1>2. sig[r] \in Signals /\ Present(sig[r])
    <2>1. BestEntry(r, sig[r])
      BY DEF LookupInv, LookedUp
    <2>2. QED
      BY <2>1 DEF BestEntry, CoreInv, TypeOK, DispatchType
  <1>3. QED
    BY <1>1, <1>2 DEF LookupInv, TableInv

LEMMA FilledStep == CoreInv /\ LookupInv /\ FilledInv /\ [Next]_vars => FilledInv'
  <1> SUFFICES ASSUME CoreInv, LookupInv, FilledInv, [Next]_vars, NEW q \in Requests
               PROVE  Filled(q)'
    BY DEF FilledInv
  <1>0. /\ Filled(q) /\ pc \in [Requests -> PCs] /\ PendingUntilDone
        /\ value \in [Requests -> Bodies] /\ todo \in [Requests -> SUBSET Slots]
        /\ ResponseType
    BY DEF FilledInv, CoreInv, TypeOK, DispatchType, LookupInv
  <1>1. CASE UNCHANGED vars \/ Embedder
    BY <1>0, <1>1, FilledKept DEF vars, dispatchVars, responseVars, Embedder, Run, Route, Insert, Connect
  <1>2. ASSUME NEW t \in IoThreads, NEW r \in Requests, Start(t, r) PROVE Filled(q)'
    <2>1. pc'[q] = pc[q] \/ (pc[q] = "new" /\ pc'[q] = "find")
      BY <1>0, <1>2 DEF Start
    <2>2. UNCHANGED <<todo[q], value[q], ended[q], body[q], answer[q], ran[q]>>
      BY <1>2 DEF Start, responseVars
    <2>3. QED
      BY <1>0, <2>1, <2>2 DEF Filled, PendingUntilDone, Pending
  <1>3. ASSUME NEW r \in Requests, Dispatch(r), q # r PROVE Filled(q)'
    <2>1. UNCHANGED <<pc[q], todo[q], value[q], ended[q], body[q], answer[q], ran[q]>>
      BY <1>0, <1>3 DEF ResponseType, responseVars, Dispatch, FindHit, FindMiss, SetCombiner,
         Invoke, RunSlot, End, CheckEnded, Respond, NotFound, Finish
    <2>2. QED
      BY <1>0, <2>1, FilledKept
  <1>4. ASSUME Dispatch(q) PROVE Filled(q)'
    <2>p. pc[q] # "done" => answer[q].status = 0
      BY <1>0 DEF PendingUntilDone, Pending
    <2>1. CASE FindHit(q) \/ FindMiss(q) \/ SetCombiner(q)
      <3>1. /\ pc[q] \in {"find", "setCombiner"} /\ pc'[q] \in {"find", "setCombiner", "invoke", "notFound"}
            /\ UNCHANGED responseVars
        BY <1>0, <2>1 DEF FindHit, FindMiss, SetCombiner
      <3>2. QED
        BY <1>0, <2>p, <3>1 DEF Filled, responseVars
    <2>2. CASE Invoke(q)
      <3>1. /\ pc[q] = "invoke" /\ UNCHANGED <<value, responseVars>> /\ todo'[q] = slots[sig[q]]
            /\ \/ slots[sig[q]] = {} /\ pc'[q] = "respond"
               \/ slots[sig[q]] # {} /\ pc'[q] = "slot"
        BY <1>0, <2>2 DEF Invoke
      <3>2. slots[sig[q]] = {} => LateRoutes
        BY <3>1, EntryHasHandler DEF Serving
      <3>3. QED
        BY <1>0, <2>p, <3>1, <3>2 DEF Filled, responseVars
    <2>3. CASE RunSlot(q)
      <3>1. PICK s \in todo[q] :
               /\ value' = [value EXCEPT ![q] = Returned(s, q)]
               /\ End(q, EndedWith(s, q)) \/ UNCHANGED <<ended, body>>
        BY <2>3 DEF RunSlot
      <3>2. value'[q].kind = "return"
        BY <1>0, <3>1 DEF Returned
      <3>3. ended'[q] => body'[q].kind = "end"
        BY <1>0, <3>1 DEF End, EndedWith, ResponseType, Filled
      <3>4. pc[q] = "slot" /\ pc'[q] = "check" /\ UNCHANGED answer
        BY <1>0, <2>3 DEF RunSlot
      <3>5. QED
        BY <2>p, <3>2, <3>3, <3>4 DEF Filled
    <2>4. CASE CheckEnded(q)
      <3>1. /\ pc[q] = "check" /\ UNCHANGED <<todo, responseVars>> /\ comb[q] \in Requests
            /\ pc'[q] = "respond" \/ (pc'[q] = "slot" /\ todo[q] # {})
        BY <1>0, <2>4 DEF CheckEnded, CoreInv, TypeOK, DispatchType, CombinerHasResponse
      <3>2. value'[q].kind # "empty"
        <4>1. CASE WritableEnded(q)
          <5>1. value'[q] = body[comb[q]] /\ ended[comb[q]]
            BY <1>0, <2>4, <4>1 DEF CheckEnded, WritableEnded
          <5>2. body[comb[q]].kind = "end"
            BY <3>1, <5>1 DEF FilledInv, Filled
          <5>3. QED
            BY <5>1, <5>2
        <4>2. CASE ~WritableEnded(q)
          BY <1>0, <2>4, <3>1, <4>2 DEF CheckEnded, Filled
        <4>3. QED
          BY <4>1, <4>2
      <3>3. QED
        BY <1>0, <2>p, <3>1, <3>2 DEF Filled, responseVars
    <2>5. CASE Respond(q)
      <3>1. /\ pc[q] = "respond" /\ pc'[q] = "done" /\ answer'[q] = Ok(value[q])
            /\ UNCHANGED <<value, ended, body, ran>>
        BY <1>0, <2>5 DEF Respond, Finish, ResponseType
      <3>2. QED
        BY <1>0, <3>1 DEF Filled, Ok
    <2>6. CASE NotFound(q)
      <3>1. /\ pc[q] = "notFound" /\ pc'[q] = "done" /\ answer'[q] = NotFoundAnswer
            /\ UNCHANGED <<value, ended, body, ran>>
        BY <1>0, <2>6 DEF NotFound, Finish, ResponseType
      <3>2. QED
        BY <1>0, <3>1 DEF Filled, NotFoundAnswer
    <2>7. QED
      BY <1>4, <2>1, <2>2, <2>3, <2>4, <2>5, <2>6 DEF Dispatch
  <1>5. QED
    BY <1>1, <1>2, <1>3, <1>4 DEF Next

(* An empty 200 takes a handler that was not connected yet, and so a route *)
(* added while the server runs: no race of io threads in doSignal makes    *)
(* one, and no handler has run for such a request.                         *)
THEOREM EmptyOkTakesALateRoute == Spec => []EmptyOkOnlyInWindow
  <1>1. FilledInv => EmptyOkOnlyInWindow
    BY DEF FilledInv, Filled, EmptyOkOnlyInWindow
  <1>2. Spec => [](CoreInv /\ LookupInv /\ FilledInv)
    BY InitCore, CoreStep, InitLookup, LookupStep, FilledStep, PTL DEF Spec
  <1>3. QED
    BY <1>1, <1>2, PTL

-----------------------------------------------------------------------------
(***************************************************************************)
(* One io thread, and no route added late: what the route table promises.  *)
(***************************************************************************)
AloneInv == CoreInv /\ SingleInv /\ LookupInv /\ FilledInv

LEMMA RunsInOrderKept ==
    ASSUME NEW q \in Requests, RunsInOrder(q),
           UNCHANGED <<slots, pc[q], sig[q], todo[q], value[q], ended[q], body[q], ran[q]>>
    PROVE  RunsInOrder(q)'
  BY DEF RunsInOrder, EndedBy, Latest

(* While it runs nobody adds a handler; before that nobody asks. *)
LEMMA SlotsFixed ==
    ASSUME AloneInv, ~LateRoutes, [Next]_vars
    PROVE  UNCHANGED slots \/ \A r \in Requests : pc[r] = "new" /\ UNCHANGED <<pc, ended>>
  <1>1. CASE UNCHANGED vars
    BY <1>1 DEF vars, tableVars
  <1>2. CASE Embedder
    <2>1. CASE running
      <3>1. adder = "idle"
        BY <2>1 DEF AloneInv, LookupInv, TableInv
      <3>2. QED
        BY <1>2, <3>1 DEF Embedder, Run, Route, Insert, Connect
    <2>2. CASE ~running
      <3>1. \A r \in Requests : pc[r] = "new"
        BY <2>2 DEF AloneInv, LookupInv, TableInv
      <3>2. UNCHANGED <<pc, ended>>
        BY <1>2 DEF Embedder, Run, Route, Insert, Connect, dispatchVars, responseVars
      <3>3. QED
        BY <3>1, <3>2
    <2>3. QED
      BY <2>1, <2>2
  <1>3. CASE \E r \in Requests : Dispatch(r) \/ \E t \in IoThreads : Start(t, r)
    BY <1>3, DispatchLeavesTable DEF tableVars
  <1>4. QED
    BY <1>1, <1>2, <1>3 DEF Next

(* A handler of the request in hand: those that have run came before it,   *)
(* those that are left come after it.                                      *)
LEMMA RunSlotInOrder ==
    ASSUME AloneInv, ~LateRoutes, NEW q \in Requests, RunSlot(q), RunsInOrder(q)
    PROVE  RunsInOrder(q)'
  <1>0. /\ pc \in [Requests -> PCs] /\ todo \in [Requests -> SUBSET Slots]
        /\ value \in [Requests -> Bodies] /\ ResponseType
    BY DEF AloneInv, CoreInv, TypeOK, DispatchType
  <1>1. PICK s \in todo[q] :
           /\ \A o \in todo[q] \ {s} : Before(s, o)
           /\ todo' = [todo EXCEPT ![q] = @ \ {s}]
           /\ value' = [value EXCEPT ![q] = Returned(s, q)]
           /\ ran' = [ran EXCEPT ![q] = @ \cup {s}]
           /\ End(q, EndedWith(s, q)) \/ UNCHANGED <<ended, body>>
    BY DEF RunSlot
  <1>2. /\ pc[q] = "slot" /\ pc'[q] = "check" /\ UNCHANGED <<slots, sig>>
        /\ todo'[q] = todo[q] \ {s} /\ ran'[q] = ran[q] \cup {s} /\ value'[q] = Returned(s, q)
    BY <1>0, <1>1 DEF RunSlot, tableVars, ResponseType
  <1>3. /\ todo[q] \subseteq slots[sig[q]] /\ ran[q] = slots[sig[q]] \ todo[q]
        /\ \A a \in ran[q], b \in todo[q] : Before(a, b)
    BY <1>2 DEF RunsInOrder
  <1>4. /\ todo'[q] \subseteq slots[sig[q]] /\ ran'[q] = slots[sig[q]] \ todo'[q]
        /\ \A a \in ran'[q], b \in todo'[q] : Before(a, b)
    BY <1>1, <1>2, <1>3
  <1>5. s \in slots[sig[q]] /\ Latest(ran'[q], s)
    BY <1>1, <1>2, <1>3 DEF Latest
  <1>6. ended'[q] => body'[q] = EndedWith(s, q)
    <2>1. ~ended[q]
      BY <1>2 DEF AloneInv, SingleInv, Isolated
    <2>2. QED
      BY <1>0, <1>1, <2>1 DEF End, ResponseType
  <1>7. (\E o \in slots[sig[q]] : Latest(ran[q], o) /\ value[q] = Returned(o, q))'
    BY <1>2, <1>5 DEF Latest
  <1>8. ended'[q] => EndedBy(q)'
    BY <1>2, <1>5, <1>6 DEF EndedBy
  <1>9. QED
    BY <1>2, <1>4, <1>7, <1>8 DEF RunsInOrder

LEMMA OwnStepInOrder ==
    ASSUME AloneInv, ~LateRoutes, NEW q \in Requests, Dispatch(q), RunsInOrder(q)
    PROVE  RunsInOrder(q)'
  <1>0. /\ pc \in [Requests -> PCs] /\ todo \in [Requests -> SUBSET Slots]
        /\ value \in [Requests -> Bodies] /\ UNCHANGED slots
        /\ Isolated(q) /\ Filled(q)
    BY DispatchLeavesTable DEF AloneInv, CoreInv, TypeOK, DispatchType, SingleInv, FilledInv, tableVars
  <1>1. CASE FindHit(q) \/ FindMiss(q) \/ SetCombiner(q) \/ NotFound(q)
    <2>1. /\ pc[q] \in {"find", "setCombiner", "notFound"}
          /\ pc'[q] \in {"find", "setCombiner", "invoke", "notFound", "done"} /\ UNCHANGED ended
      BY <1>0, <1>1 DEF FindHit, FindMiss, SetCombiner, NotFound, Finish, responseVars
    <2>2. ~ended'[q]
      BY <1>0, <2>1 DEF Isolated
    <2>3. QED
      BY <2>1, <2>2 DEF RunsInOrder
  <1>2. CASE Invoke(q)
    <2>1. pc[q] = "invoke" /\ UNCHANGED <<sig, responseVars>> /\ todo'[q] = slots[sig[q]]
      BY <1>0, <1>2 DEF Invoke
    <2>2. pc'[q] = "slot"
      BY <1>0, <1>2, <2>1, EntryHasHandler DEF Invoke, AloneInv, Serving
    <2>3. ~ended'[q] /\ ran'[q] = {}
      BY <1>0, <2>1 DEF Isolated, Filled, responseVars
    <2>4. QED
      BY <1>0, <2>1, <2>2, <2>3 DEF RunsInOrder
  <1>3. CASE CheckEnded(q)
    <2>1. pc[q] = "check" /\ comb[q] = q /\ UNCHANGED <<sig, todo, responseVars>>
      BY <1>0, <1>3 DEF CheckEnded, Isolated
    <2>2. CASE ended[q]
      <3>1. pc'[q] = "respond" /\ value'[q] = body[q]
        BY <1>0, <1>3, <2>1, <2>2 DEF CheckEnded, WritableEnded
      <3>2. QED
        BY <1>0, <2>1, <2>2, <3>1 DEF RunsInOrder, EndedBy, responseVars
    <2>3. CASE ~ended[q]
      <3>1. UNCHANGED value /\ pc'[q] = IF todo[q] = {} THEN "respond" ELSE "slot"
        BY <1>0, <1>3, <2>1, <2>3 DEF CheckEnded, WritableEnded
      <3>2. CASE todo[q] = {}
        <4>1. ran[q] = slots[sig[q]]
          BY <2>1, <3>2 DEF RunsInOrder
        <4>2. \E s \in slots[sig[q]] : Latest(slots[sig[q]], s) /\ value[q] = Returned(s, q)
          BY <2>1, <4>1 DEF RunsInOrder
        <4>3. (\E s \in slots[sig[q]] : Latest(slots[sig[q]], s) /\ value[q] = Returned(s, q))'
          BY <1>0, <2>1, <3>1, <4>2 DEF Latest
        <4>4. QED
          BY <2>1, <2>3, <3>1, <3>2, <4>3 DEF RunsInOrder, responseVars
      <3>3. CASE todo[q] # {}
        BY <1>0, <2>1, <2>3, <3>1, <3>3 DEF RunsInOrder, responseVars
      <3>4. QED
        BY <3>2, <3>3
    <2>4. QED
      BY <2>2, <2>3
  <1>4. CASE Respond(q)
    <2>1. pc'[q] = "done" /\ UNCHANGED <<sig, ended, body>>
      BY <1>0, <1>4 DEF Respond, Finish
    <2>2. QED
      BY <1>0, <2>1 DEF RunsInOrder, EndedBy
  <1>5. QED
    BY <1>1, <1>2, <1>3, <1>4, RunSlotInOrder DEF Dispatch

LEMMA OrderStep ==
    ASSUME AloneInv, ~LateRoutes, OrderInv, [Next]_vars
    PROVE  OrderInv'
  <1> SUFFICES ASSUME NEW q \in Requests PROVE RunsInOrder(q)'
    BY DEF OrderInv
  <1>0. RunsInOrder(q) /\ Isolated(q)
    BY DEF OrderInv, AloneInv, SingleInv
  <1>1. CASE UNCHANGED vars \/ Embedder
    <2>1. CASE UNCHANGED slots
      BY <1>0, <1>1, <2>1, RunsInOrderKept DEF vars, dispatchVars, responseVars, Embedder, Run, Route,
         Insert, Connect
    <2>2. CASE \A r \in Requests : pc[r] = "new" /\ UNCHANGED <<pc, ended>>
      <3>1. pc'[q] = "new" /\ ~ended'[q]
        BY <1>0, <2>2 DEF Isolated
      <3>2. QED
        BY <3>1 DEF RunsInOrder
    <2>3. QED
      BY <2>1, <2>2, SlotsFixed
  <1>2. ASSUME NEW t \in IoThreads, NEW r \in Requests, Start(t, r) PROVE RunsInOrder(q)'
    <2>1. /\ pc'[q] = pc[q] \/ (pc[q] = "new" /\ pc'[q] = "find")
          /\ UNCHANGED <<slots, sig, todo, value, ended, body, ran>>
      BY <1>2 DEF Start, tableVars, responseVars, AloneInv, CoreInv, TypeOK, DispatchType
    <2>2. QED
      BY <1>0, <2>1 DEF RunsInOrder, EndedBy, Latest, Isolated
  <1>3. ASSUME NEW r \in Requests, Dispatch(r), r # q PROVE RunsInOrder(q)'
    <2>1. UNCHANGED <<pc[q], sig[q], todo[q], value[q], ended[q], body[q], ran[q]>>
      BY <1>3 DEF AloneInv, CoreInv, TypeOK, DispatchType, ResponseType, responseVars, Dispatch,
         FindHit, FindMiss, SetCombiner, Invoke, RunSlot, End, CheckEnded, Respond, NotFound, Finish
    <2>2. UNCHANGED slots
      BY <1>3, DispatchLeavesTable DEF tableVars
    <2>3. QED
      BY <1>0, <2>1, <2>2, RunsInOrderKept
  <1>4. QED
    BY <1>0, <1>1, <1>2, <1>3, OwnStepInOrder DEF Next

(* The promise and the code speak of the same words. *)
LEMMA SameWords ==
    /\ Promise!Signals = Signals /\ Promise!NotFoundAnswer = NotFoundAnswer
    /\ Promise!Pending = Pending
    /\ \A p, k : Promise!Candidate(p, k) = Candidate(p, k)
    /\ \A a, b : Promise!Before(a, b) = Before(a, b)
    /\ \A b : Promise!Ok(b) = Ok(b)
    /\ \A s, r : Promise!Returned(s, r) = Returned(s, r) /\ Promise!EndedWith(s, r) = EndedWith(s, r)
  BY DEF Promise!Signals, Promise!Maps, Promise!PathKeys, Signals, Maps, PathKeys, Promise!NotFoundAnswer,
     NotFoundAnswer, Promise!EmptyBody, EmptyBody, Promise!Pending, Pending, Promise!Candidate, Candidate,
     Promise!Before, Before, Promise!Ok, Ok, Promise!Returned, Returned, Promise!EndedWith, EndedWith

(* An entry of the lookup order has a handler or is not there. *)
LEMMA HandlersArePresent ==
    ASSUME AloneInv, ~LateRoutes, running, NEW s \in Signals
    PROVE  slots[s] # {} <=> Present(s)
  BY DEF AloneInv, LookupInv, TableInv

(* What a dispatch answers is what the promise allows at that instant. *)
LEMMA RespondIsServe ==
    ASSUME AloneInv, OrderInv, ~LateRoutes, NEW r \in Requests, Respond(r)
    PROVE  Promise!Serve(r, path[r])
  <1>1. /\ pc[r] = "respond" /\ answer' = [answer EXCEPT ![r] = Ok(value[r])]
        /\ UNCHANGED <<slots, nAdds>> /\ running /\ answer[r] = Pending
        /\ path[r] \in PathKeys /\ path[r] \in Paths
    BY DEF Respond, Finish, tableVars, AloneInv, LookupInv, PendingUntilDone, TableInv, CoreInv, TypeOK,
       DispatchType
  <1>2. PICK k \in 1..4 : /\ sig[r] = Candidate(path[r], k) /\ Present(sig[r])
                           /\ \A j \in 1..(k - 1) : ~Present(Candidate(path[r], j))
    BY <1>1 DEF AloneInv, LookupInv, LookedUp, Serving, BestEntry
  <1> DEFINE matching == {j \in 1..4 : slots[Candidate(path[r], j)] # {}}
             best == {j \in matching : \A i \in matching : j <= i}
             S == slots[sig[r]]
             last == {s \in S : \A o \in S \ {s} : Before(o, s)}
             by == {Ok(EndedWith(s, r)) : s \in S} \cup {Ok(Returned(s, r)) : s \in last}
  <1>3. \A j \in 1..4 : slots[Candidate(path[r], j)] # {} <=> Present(Candidate(path[r], j))
    BY <1>1, CandidateType, HandlersArePresent
  <1>4. k \in best /\ matching # {}
    <2>1. k \in matching
      BY <1>2, <1>3
    <2>2. ASSUME NEW i \in matching PROVE k <= i
      BY <1>2, <1>3
    <2>3. QED
      BY <2>1, <2>2
  <1>5. Ok(value[r]) \in by
    <2>1. RunsInOrder(r)
      BY DEF OrderInv
    <2>2. CASE ended[r] /\ value[r] = body[r]
      BY <1>1, <2>1, <2>2 DEF RunsInOrder, EndedBy
    <2>3. ASSUME NEW s \in S, Latest(S, s), value[r] = Returned(s, r) PROVE Ok(value[r]) \in by
      BY <2>3 DEF Latest
    <2>4. QED
      BY <1>1, <2>1, <2>2, <2>3 DEF RunsInOrder
  <1>6. Promise!AnswersBy(slots[Candidate(path[r], k)], r) = by
    BY <1>2, SameWords DEF Promise!AnswersBy
  <1>7. Promise!Answers(r, path[r]) = UNION {Promise!AnswersBy(slots[Candidate(path[r], j)], r) : j \in best}
    BY <1>4, SameWords DEF Promise!Answers
  <1>8. Ok(value[r]) \in Promise!Answers(r, path[r])
    BY <1>4, <1>5, <1>6, <1>7
  <1>9. QED
    BY <1>1, <1>8, SameWords DEF Promise!Serve

LEMMA NotFoundIsServe ==
    ASSUME AloneInv, ~LateRoutes, NEW r \in Requests, NotFound(r)
    PROVE  Promise!Serve(r, path[r])
  <1>1. /\ pc[r] = "notFound" /\ answer' = [answer EXCEPT ![r] = NotFoundAnswer]
        /\ UNCHANGED <<slots, nAdds>> /\ running /\ answer[r] = Pending /\ path[r] \in Paths
    BY DEF NotFound, Finish, tableVars, AloneInv, LookupInv, PendingUntilDone, TableInv, CoreInv, TypeOK,
       DispatchType
  <1>2. \A j \in 1..4 : slots[Candidate(path[r], j)] = {}
    <2>1. NonePresent(r)
      BY <1>1 DEF AloneInv, LookupInv, LookedUp
    <2>2. QED
      BY <1>1, <2>1, CandidateType, HandlersArePresent DEF NonePresent
  <1>3. Promise!Answers(r, path[r]) = {NotFoundAnswer}
    BY <1>2, SameWords DEF Promise!Answers
  <1>4. QED
    BY <1>1, <1>3, SameWords DEF Promise!Serve

LEMMA PromiseStep ==
    ASSUME AloneInv, OrderInv, ~LateRoutes, [Next]_vars
    PROVE  [Promise!Next]_(Promise!vars)
  <1>1. CASE UNCHANGED vars
    BY <1>1 DEF vars, tableVars, responseVars, Promise!vars
  <1>2. CASE Connect
    <2>1. /\ adding.sig \in Signals /\ adding.pri \in Priorities /\ nAdds < MaxAdds
          /\ UNCHANGED answer
      BY <1>2 DEF Connect, AloneInv, CoreInv, TypeOK, TableType, responseVars
    <2>2. Promise!Register(adding.sig, adding.pri)
      BY <1>2, <2>1 DEF Connect, Promise!Register
    <2>3. QED
      BY <2>1, <2>2, SameWords DEF Promise!Next
  <1>3. CASE Embedder /\ ~Connect
    BY <1>3 DEF Embedder, Run, Route, Insert, responseVars, Promise!vars
  <1>4. ASSUME NEW t \in IoThreads, NEW r \in Requests, Start(t, r) PROVE UNCHANGED Promise!vars
    BY <1>4 DEF Start, tableVars, responseVars, Promise!vars
  <1>5. ASSUME NEW r \in Requests, Dispatch(r) PROVE [Promise!Next]_(Promise!vars)
    <2>1. CASE Respond(r) \/ NotFound(r)
      <3>1. path[r] \in Paths
        BY <2>1 DEF Respond, NotFound, AloneInv, CoreInv, TypeOK
      <3>2. Promise!Serve(r, path[r])
        BY <2>1, RespondIsServe, NotFoundIsServe
      <3>3. QED
        BY <3>1, <3>2 DEF Promise!Next
    <2>2. CASE ~(Respond(r) \/ NotFound(r))
      BY <1>5, <2>2 DEF Dispatch, FindHit, FindMiss, SetCombiner, Invoke, RunSlot, CheckEnded,
         tableVars, responseVars, Promise!vars
    <2>3. QED
      BY <2>1, <2>2
  <1>6. QED
    BY <1>1, <1>2, <1>3, <1>4, <1>5 DEF Next

(* One io thread, and every route added before ServerImpl::run: whatever   *)
(* the handlers do, every request is answered as if it were dispatched in  *)
(* one instant by the handlers of its best entry, in the order of their    *)
(* priorities, until one of them ends the response.                        *)
THEOREM OneThreadKeepsPromise ==
    ASSUME OneThread, ~LateRoutes
    PROVE  Spec => ImplementsPromise
  <1>1. Init => Promise!Init
    BY SameWords DEF Init, Promise!Init
  <1>2. Init => AloneInv /\ OrderInv
    BY InitCore, InitSingle, InitLookup DEF AloneInv
  <1>3. AloneInv /\ OrderInv /\ [Next]_vars => (AloneInv /\ OrderInv)'
    BY CoreStep, SingleStep, LookupStep, FilledStep, OrderStep DEF AloneInv
  <1>4. AloneInv /\ OrderInv /\ [Next]_vars => [Promise!Next]_(Promise!vars)
    BY PromiseStep
  <1>5. QED
    BY <1>1, <1>2, <1>3, <1>4, PTL DEF Spec, ImplementsPromise, Promise!Spec
=============================================================================
