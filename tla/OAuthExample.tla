---------------------------- MODULE OAuthExample ----------------------------
(***************************************************************************)
(* The oauth2-google example, the one program in which every part of the   *)
(* module meets: the main thread opens the server and walks through the    *)
(* authorization, waiting with ModuleExport::wait for what the handler,    *)
(* routeAll, receives on the io threads and announces with notify; what    *)
(* was received is handed over in global strings that no mutex guards.     *)
(*                                                                         *)
(* A string is FALSE while it is empty.  Overlapping accesses to one are a *)
(* data race, and an exception that nobody catches (Client::end in both    *)
(* threads) ends the process: such a behaviour is one of these, cut short. *)
(***************************************************************************)
EXTENDS ModuleWait

CONSTANT Main       \* the waiter that runs allModulesLoaded; Notifiers are
                    \* the io threads

ASSUME ExampleAssumption ==
    /\ Main \in Waiters
    /\ WaitsFor[Main] = {"auth", "userId", "exit"}

VARIABLES
    stage,          \* where allModulesLoaded is
    asked,          \* [Notifiers -> what the request its handler serves asks]
    hpc,            \* where each routeAll is
    authCode, userId, accessToken,  \* the global strings
    sent            \* the code the token request was made with; {} before

mainVars == <<stage, accessToken, sent>>
handlerVars == <<asked, hpc, authCode, userId>>
exampleVars == <<vars, mainVars, handlerVars>>

InitExample ==
    /\ Init
    /\ stage = "setup" /\ sent = {} /\ accessToken = FALSE
    /\ asked = [n \in Notifiers |-> "nothing"]
    /\ hpc = [n \in Notifiers |-> "idle"]
    /\ authCode = FALSE /\ userId = FALSE

-----------------------------------------------------------------------------
(* allModulesLoaded, on the main thread *)

(* Certificate, server, run(), route(), authorization URL, browser. *)
SetUp ==
    /\ stage = "setup"
    /\ stage' = "auth"
    /\ UNCHANGED <<vars, accessToken, sent, handlerVars>>

(* The handle waited for at a stage has its name; where each wait leads. *)
After == [auth |-> "token", userId |-> "exit", exit |-> "returned"]

MainWaits ==
    /\ WaitCall(Main) /\ handle'[Main] = stage
    /\ UNCHANGED <<mainVars, handlerVars>>

MainReturns ==
    /\ Return(Main)
    /\ stage' = After[stage]
    /\ UNCHANGED <<accessToken, sent, handlerVars>>

(* The token request is made with the code received ... *)
TokenRequest ==
    /\ stage = "token"
    /\ stage' = "exchange" /\ sent' = {authCode}
    /\ UNCHANGED <<vars, accessToken, handlerVars>>

(* ... and, while handlers go on, answered: by JSON with or without the    *)
(* tokens, or by something else, at which allModulesLoaded returns.  (Its  *)
(* server is destroyed then: see ServerLifecycle.)                         *)
TokenAnswered ==
    /\ stage = "exchange"
    /\ \/ stage' = "userId" /\ accessToken' \in {accessToken, TRUE}
       \/ stage' = "returned" /\ UNCHANGED accessToken
    /\ UNCHANGED <<vars, sent, handlerVars>>

MainThread ==
    \/ SetUp \/ MainWaits \/ MainReturns \/ TokenRequest \/ TokenAnswered
    \/ /\ Lock(Main) \/ Emplace(Main) \/ Block(Main) \/ Relock(Main)
       /\ UNCHANGED <<mainVars, handlerVars>>

(* Another thread of the embedder may wait, too. *)
OtherWaiter(w) ==
    /\ w # Main
    /\ WaitCall(w) \/ Proceed(w)
    /\ UNCHANGED <<mainVars, handlerVars>>

WakesUp(w) == SpuriousWakeup(w) /\ UNCHANGED <<mainVars, handlerVars>>

-----------------------------------------------------------------------------
(* routeAll, on the io threads.  A request with a userId is taken for one  *)
(* before one with a code; one with neither, or one for messages, which is *)
(* one with a userId and then a call of the client with whatever           *)
(* accessToken holds, tells the main thread nothing more.                  *)

Announces == [code |-> "auth", userId |-> "userId"]

NextStepSwapped == [asked |-> "notify", store |-> "respond", notify |-> "store"]
NextStep == [asked |-> "store", store |-> "notify", notify |-> "respond"]
Then(n, done) == hpc' = [hpc EXCEPT ![n] = NextStep[done]]

(* MaxNotifies bounds the requests, too. *)
ToAnnounce(q) == {n \in Notifiers : asked[n] = q /\ hpc[n] \in {"store", "notify"}}

Ask(n, q) ==
    /\ stage # "setup" /\ hpc[n] = "idle"
    /\ called[Announces[q]] + Cardinality(ToAnnounce(q)) < MaxNotifies
    /\ asked' = [asked EXCEPT ![n] = q]
    /\ Then(n, "asked")
    /\ UNCHANGED <<vars, mainVars, authCode, userId>>

Store(n) ==
    /\ hpc[n] = "store"
    /\ authCode' = (authCode \/ asked[n] = "code")
    /\ userId' = (userId \/ asked[n] = "userId")
    /\ Then(n, "store")
    /\ UNCHANGED <<vars, mainVars, asked>>

Announce(n) ==
    /\ hpc[n] = "notify"
    /\ NotifyCall(n, Announces[asked[n]])
    /\ hpc' = [hpc EXCEPT ![n] = "notifying"]
    /\ UNCHANGED <<mainVars, asked, authCode, userId>>

Announcing(n) ==
    /\ hpc[n] = "notifying" /\ Notify(n)
    /\ IF npc'[n] = "idle" THEN Then(n, "notify") ELSE UNCHANGED hpc
    /\ UNCHANGED <<mainVars, asked, authCode, userId>>

(* The body is returned. *)
Respond(n) ==
    /\ hpc[n] = "respond"
    /\ hpc' = [hpc EXCEPT ![n] = "idle"]
    /\ asked' = [asked EXCEPT ![n] = "nothing"]
    /\ UNCHANGED <<vars, mainVars, authCode, userId>>

Handler(n) == Store(n) \/ Announce(n) \/ Announcing(n) \/ Respond(n)

NextExample ==
    \/ MainThread
    \/ \E w \in Waiters : OtherWaiter(w) \/ WakesUp(w)
    \/ \E n \in Notifiers : Handler(n) \/ \E q \in DOMAIN Announces : Ask(n, q)

SpecExample == InitExample /\ [][NextExample]_exampleVars

(* The threads are scheduled and the mutex is granted, as in ModuleWait;   *)
(* the token request is answered or times out.  Users owe no request.      *)
FairExample ==
    /\ SpecExample
    /\ WF_exampleVars(MainThread)
    /\ \A w \in Waiters : WF_exampleVars(w # Main /\ Proceed(w) /\ UNCHANGED <<mainVars, handlerVars>>)
    /\ \A n \in Notifiers : WF_exampleVars(Handler(n))

-----------------------------------------------------------------------------
(* Properties *)

(* However the handlers interleave with the main thread's waiting: what it *)
(* waited for is there when it goes on.  The token request carries a code  *)
(* that a handler has received, and the user's ID is known after the wait  *)
(* for it, unless that wait came back for no reason.                       *)
WaitedForIsThere ==
    /\ FALSE \in sent => spurious["auth"] > 0
    /\ stage = "exit" /\ ~userId => spurious["userId"] > 0
=============================================================================
