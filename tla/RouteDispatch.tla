---------------------------- MODULE RouteDispatch ---------------------------
(***************************************************************************)
(* The route table of the server (RouteImpl, RouteCombiner, ResponseImpl)  *)
(* and the io threads that dispatch requests through it.                   *)
(*                                                                         *)
(* One shared RouteImpl holds three maps from a path to a Boost.Signals2   *)
(* signal.  ServerImpl::route, on the embedder's thread, adds handlers; no *)
(* lock guards the maps.  Every io thread runs RouteImpl::doSignal for the *)
(* request at hand: up to four lookups, then set_combiner on the *shared*  *)
(* signal, then the call of the signal, which copies the slots and         *)
(* whatever combiner is installed by then.  Each of these is a step.       *)
(***************************************************************************)
EXTENDS RouteTable

CONSTANTS IoThreads,    \* threads running io_context::run
          LateRoutes    \* may routes be added after ServerImpl::run?

ASSUME LateRoutesAssumption == LateRoutes \in BOOLEAN

VARIABLES
    running,    \* ServerImpl::run has started the io threads
    (* RouteImpl, shared by all threads *)
    table,      \* [Maps -> SUBSET PathKeys]: the keys of the three std::maps
    slots,      \* [Signals -> SUBSET Slots]: the handlers connected to a signal
    combiner,   \* [Signals -> Requests \cup {NoRequest}]: whose response the
                \* installed RouteCombiner holds
    (* the embedder's thread *)
    adder,      \* where it is in RouteImpl::add: "idle", "insert", "connect"
    adding,     \* the signal and the priority of that call
    nAdds,      \* handlers connected so far
    (* the io threads *)
    busy,       \* [IoThreads -> Requests \cup {NoRequest}]
    pc,         \* where the dispatch of a request is
    path,       \* the path the request asks for
    try,        \* the lookup it is at, 1..4
    sig,        \* the signal its lookup found
    comb,       \* the request whose response the invoked combiner holds
    todo,       \* the slots of the invocation that have not run yet
    value,      \* RouteCombiner's valueLast, then the string it returns
    (* ResponseImpl *)
    ended,      \* writableEndedFlag
    body,       \* bodyStrPtr
    answer,     \* status and body given to http::async_write
    (* history, for the properties *)
    ran         \* the slots that have run for a request

tableVars == <<running, table, slots, nAdds, adder, adding>>
dispatchVars == <<busy, pc, path, try, sig, comb, todo, value>>
responseVars == <<ended, body, answer, ran>>
vars == <<tableVars, combiner, dispatchVars, responseVars>>

Init ==
    /\ running = FALSE
    /\ table = [m \in Maps |-> {}]
    /\ slots = [s \in Signals |-> {}]
    /\ combiner = [s \in Signals |-> NoRequest]
    /\ adder = "idle"
    /\ adding = [sig |-> <<"GET", "*">>, pri |-> 0]
    /\ nAdds = 0
    /\ busy = [t \in IoThreads |-> NoRequest]
    /\ pc = [r \in Requests |-> "new"]
    /\ path = [r \in Requests |-> "*"]
    /\ try = [r \in Requests |-> 1]
    /\ sig = [r \in Requests |-> <<"GET", "*">>]
    /\ comb = [r \in Requests |-> NoRequest]
    /\ todo = [r \in Requests |-> {}]
    /\ value = [r \in Requests |-> EmptyBody]
    /\ ended = [r \in Requests |-> FALSE]
    /\ body = [r \in Requests |-> EmptyBody]
    /\ answer = [r \in Requests |-> Pending]
    /\ ran = [r \in Requests |-> {}]

-----------------------------------------------------------------------------
(* The embedder's thread *)

(* ServerImpl::run: the io threads exist from here on. *)
Run ==
    /\ ~running /\ adder = "idle"
    /\ running' = TRUE
    /\ UNCHANGED <<table, slots, nAdds, adder, adding, combiner, dispatchVars, responseVars>>

(* routeMap.find(path) != routeMap.end() *)
Present(s) == s[2] \in table[s[1]]

(* ServerImpl::route up to the find of RouteImpl::add. *)
Route(s, pri) ==
    /\ adder = "idle" /\ nAdds < MaxAdds
    /\ running => LateRoutes
    /\ adder' = IF Present(s) THEN "connect" ELSE "insert"
    /\ adding' = [sig |-> s, pri |-> pri]
    /\ UNCHANGED <<running, table, slots, nAdds, combiner, dispatchVars, responseVars>>

(* routeMap.insert of a fresh signal.  While adder = "insert" the tree  *)
(* of the map is being relinked (see Torn).                                *)
Insert ==
    /\ adder = "insert"
    /\ table' = [table EXCEPT ![adding.sig[1]] = @ \cup {adding.sig[2]}]
    /\ adder' = "connect"
    /\ UNCHANGED <<running, slots, nAdds, adding, combiner, dispatchVars, responseVars>>

(* pathSignal->connect(priority, routeFunction). *)
Connect ==
    /\ adder = "connect"
    /\ nAdds' = nAdds + 1
    /\ slots' = [slots EXCEPT ![adding.sig] =
                    @ \cup {[pri |-> adding.pri, id |-> nAdds + 1]}]
    /\ adder' = "idle"
    /\ UNCHANGED <<running, table, adding, combiner, dispatchVars, responseVars>>

Embedder == \/ Run
            \/ \E s \in Signals, pri \in Priorities : Route(s, pri)
            \/ Insert
            \/ Connect

-----------------------------------------------------------------------------
(* The io threads *)

(* An io thread resumes a connection that has read r: fresh RequestImpl    *)
(* and ResponseImpl, and the call of RouteImpl::doGetSignal.               *)
Start(t, r) ==
    /\ running /\ busy[t] = NoRequest /\ pc[r] = "new"
    /\ busy' = [busy EXCEPT ![t] = r]
    /\ pc' = [pc EXCEPT ![r] = "find"]
    /\ \E p \in Paths : path' = [path EXCEPT ![r] = p]
    /\ UNCHANGED <<tableVars, combiner, try, sig, comb, todo, value, responseVars>>

(* A find that races the insert of another thread in the same std::map can *)
(* miss any key: the tree is relinked without a lock.                      *)
Torn(s) == adder = "insert" /\ adding.sig[1] = s[1]

FindHit(r) ==
    /\ pc[r] = "find"
    /\ Present(Candidate(path[r], try[r]))
    /\ sig' = [sig EXCEPT ![r] = Candidate(path[r], try[r])]
    /\ pc' = [pc EXCEPT ![r] = "setCombiner"]
    /\ UNCHANGED <<tableVars, combiner, busy, path, try, comb, todo, value, responseVars>>

(* The lookups of doSignal follow one another; the fourth is the last.     *)
MoreLookupsOffByOne(k) == k <= 4
MoreLookups(k) == k < 4

NextLookupSkips(k) == IF k = 1 THEN 3 ELSE k + 1
NextLookupStays(k) == k
NextLookup(k) == k + 1

FindMiss(r) ==
    LET c == Candidate(path[r], try[r])
    IN  /\ pc[r] = "find"
        /\ ~Present(c) \/ Torn(c)
        /\ IF MoreLookups(try[r])
           THEN try' = [try EXCEPT ![r] = NextLookup(@)] /\ UNCHANGED pc
           ELSE pc' = [pc EXCEPT ![r] = "notFound"] /\ UNCHANGED try
        /\ UNCHANGED <<tableVars, combiner, busy, path, sig, comb, todo, value, responseVars>>

(* routeCombiner.setResponse(resImpl); pathSignal->set_combiner(...):      *)
(* replaces whatever combiner is installed in the shared signal.           *)
InstalledOnce(r) == IF combiner[sig[r]] = NoRequest
                    THEN [combiner EXCEPT ![sig[r]] = r] ELSE combiner
InstalledEverywhere(r) == [s \in Signals |-> r]
InstalledNull(r) == [combiner EXCEPT ![sig[r]] = NoRequest]
Installed(r) == [combiner EXCEPT ![sig[r]] = r]

SetCombiner(r) ==
    /\ pc[r] = "setCombiner"
    /\ combiner' = Installed(r)
    /\ pc' = [pc EXCEPT ![r] = "invoke"]
    /\ UNCHANGED <<tableVars, busy, path, try, sig, comb, todo, value, responseVars>>

(* ( *pathSignal )(req, res): the signal copies its slots and its combiner *)
(* under its own mutex; the combiner starts with an empty valueLast.       *)
Invoke(r) ==
    /\ pc[r] = "invoke"
    /\ comb' = [comb EXCEPT ![r] = combiner[sig[r]]]
    /\ todo' = [todo EXCEPT ![r] = slots[sig[r]]]
    /\ pc' = [pc EXCEPT ![r] = IF slots[sig[r]] = {} THEN "respond" ELSE "slot"]
    /\ UNCHANGED <<tableVars, combiner, busy, path, try, sig, value, responseVars>>

(* ResponseImpl::end: the body, then the flag. *)
End(r, b) == /\ body' = [body EXCEPT ![r] = b]
             /\ ended' = [ended EXCEPT ![r] = TRUE]

(* valueLast = *first: the next handler runs with r's own request and      *)
(* response, and may end the response.                                     *)
RunSlot(r) ==
    /\ pc[r] = "slot"
    /\ \E s \in todo[r] :
          /\ \A o \in todo[r] \ {s} : Before(s, o)
          /\ todo' = [todo EXCEPT ![r] = @ \ {s}]
          /\ value' = [value EXCEPT ![r] = Returned(s, r)]
          /\ ran' = [ran EXCEPT ![r] = @ \cup {s}]
          /\ \/ End(r, EndedWith(s, r))
             \/ UNCHANGED <<ended, body>>
    /\ pc' = [pc EXCEPT ![r] = "check"]
    /\ UNCHANGED <<tableVars, combiner, busy, path, try, sig, comb, answer>>

(* res->writableEnded(), of the response the invoked combiner holds *)
WritableEndedNever(r) == FALSE
WritableEndedAlways(r) == TRUE
WritableEnded(r) == ended[comb[r]]

(* if (res->writableEnded()) return *(res->body()); otherwise go on to     *)
(* the next slot, or return the last value when there is none.             *)
CheckEnded(r) ==
    /\ pc[r] = "check"
    /\ IF WritableEnded(r)
       THEN /\ value' = [value EXCEPT ![r] = body[comb[r]]]
            /\ pc' = [pc EXCEPT ![r] = "respond"]
       ELSE /\ pc' = [pc EXCEPT ![r] = IF todo[r] = {} THEN "respond" ELSE "slot"]
            /\ UNCHANGED value
    /\ UNCHANGED <<tableVars, combiner, busy, path, try, sig, comb, todo, responseVars>>

(* doSignal fills the beast response, or returned -1 and notFound fills it *)
(* after its sleep; the connection writes it and waits for its next        *)
(* request, so the thread is free.                                         *)
Finish(r, a) ==
    /\ answer' = [answer EXCEPT ![r] = a]
    /\ pc' = [pc EXCEPT ![r] = "done"]
    /\ busy' = [t \in IoThreads |-> IF busy[t] = r THEN NoRequest ELSE busy[t]]
    /\ UNCHANGED <<tableVars, combiner, path, try, sig, comb, todo, value, ended, body, ran>>

Respond(r) == pc[r] = "respond" /\ Finish(r, Ok(value[r]))

NotFound(r) == pc[r] = "notFound" /\ Finish(r, NotFoundAnswer)

Dispatch(r) == \/ FindHit(r) \/ FindMiss(r)
               \/ SetCombiner(r) \/ Invoke(r)
               \/ RunSlot(r) \/ CheckEnded(r)
               \/ Respond(r) \/ NotFound(r)

Next == \/ Embedder
        \/ \E t \in IoThreads, r \in Requests : Start(t, r)
        \/ \E r \in Requests : Dispatch(r)

Spec == Init /\ [][Next]_vars

(* The OS schedules every io thread and the handlers return. *)
Fairness == \A r \in Requests : WF_vars(Dispatch(r))
FairSpec == Spec /\ Fairness

-----------------------------------------------------------------------------
(* Properties *)

PCs == {"new", "find", "setCombiner", "invoke", "slot", "check", "respond",
        "notFound", "done"}
Bodies == [kind : {"empty", "return", "end"}, handler : 0..MaxAdds,
           req : Requests \cup {NoRequest}]

TableType ==
    /\ running \in BOOLEAN
    /\ table \in [Maps -> SUBSET PathKeys]
    /\ slots \in [Signals -> SUBSET Slots]
    /\ adder \in {"idle", "insert", "connect"}
    /\ adding \in [sig : Signals, pri : Priorities \cup {0}]
    /\ adder # "idle" => adding.pri \in Priorities /\ nAdds < MaxAdds
    /\ nAdds \in 0..MaxAdds

DispatchType ==
    /\ busy \in [IoThreads -> Requests \cup {NoRequest}]
    /\ pc \in [Requests -> PCs]
    /\ path \in [Requests -> PathKeys]
    /\ try \in [Requests -> 1..4]
    /\ sig \in [Requests -> Signals]
    /\ comb \in [Requests -> Requests \cup {NoRequest}]
    /\ todo \in [Requests -> SUBSET Slots]
    /\ value \in [Requests -> Bodies]

ResponseType ==
    /\ ended \in [Requests -> BOOLEAN]
    /\ body \in [Requests -> Bodies]
    /\ answer \in [Requests -> [status : {0, 200, 404}, body : Bodies]]
    /\ ran \in [Requests -> SUBSET Slots]

(* Every variable has its type; a request being dispatched has a path, and *)
(* the routes in the making fit the bound.                                 *)
TypeOK ==
    /\ TableType
    /\ combiner \in [Signals -> Requests \cup {NoRequest}]
    /\ DispatchType
    /\ ResponseType
    /\ \A r \in Requests : pc[r] # "new" => path[r] \in Paths

(* What is sent for a request was computed by a handler called with that   *)
(* request: no response carries the body of another one (doSignal,         *)
(* RouteCombiner).  It holds when one io thread dispatches.                *)
AnswersAreOwn ==
    \A r \in Requests : answer[r].body.req \in {r, NoRequest}

(* "This method signals to the server that all of the response headers and *)
(* body have been sent; that server should consider this message complete" *)
(* (Response.hpp, end): once a handler has ended a response, the body it   *)
(* gave is what is sent.                                                   *)
EndedBodySent ==
    \A r \in Requests :
        ended[r] /\ answer[r] # Pending => answer[r] = Ok(body[r])

(* ... and no handler of lower precedence runs for that request any more   *)
(* (RouteCombiner returns at once).                                        *)
EndIsFinal ==
    [][\A r \in Requests : ended[r] => UNCHANGED <<ran[r], body[r]>>]_vars

(* When no route is added after run(): doSignal answers from the first     *)
(* entry of its lookup order, and "not found" only if there is none, for   *)
(* any number of io threads.                                               *)
BestEntry(r, s) ==
    \E k \in 1..4 : /\ s = Candidate(path[r], k) /\ Present(s)
                    /\ \A j \in 1..(k - 1) : ~Present(Candidate(path[r], j))
LookupPrecedence ==
    ~LateRoutes => \A r \in Requests :
        /\ answer[r].status = 200 => BestEntry(r, sig[r])
        /\ answer[r].status = 404 =>
              \A k \in 1..4 : ~Present(Candidate(path[r], k))

(* An empty 200 is sent only by a dispatch that found an entry whose first *)
(* handler was not connected yet (between insert and connect in            *)
(* RouteImpl::add), which takes a route added while the server runs.       *)
EmptyOkOnlyInWindow ==
    \A r \in Requests :
        answer[r].status = 200 /\ answer[r].body.kind = "empty" =>
            ran[r] = {} /\ LateRoutes

(* However many threads race between set_combiner and the call, a response *)
(* can only get the body of a request that was dispatched through the same *)
(* map entry, and that ended its response.                                 *)
CrossTalkConfined ==
    \A r \in Requests : LET o == answer[r].body.req
                        IN  o \notin {r, NoRequest} =>
                              sig[o] = sig[r] /\ ended[o]

(* The combiner a call of the signal invokes always holds a response       *)
(* (res->writableEnded() dereferences it).                                 *)
CombinerHasResponse ==
    \A r \in Requests :
        /\ pc[r] = "invoke" => combiner[sig[r]] # NoRequest
        /\ pc[r] \in {"slot", "check"} => comb[r] # NoRequest

(* A request that is dispatched is answered, whatever the other threads    *)
(* and the embedder do.                                                    *)
Answered == \A r \in Requests : pc[r] = "find" ~> answer[r] # Pending

(* One io thread, and no route added while it runs, implement what the     *)
(* table promises.                                                         *)
Promise == INSTANCE RoutePromise WITH slots <- slots, nAdds <- nAdds, answer <- answer
ImplementsPromise == Promise!Spec
=============================================================================
