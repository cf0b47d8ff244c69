----------------------------- MODULE ModuleWait -----------------------------
(***************************************************************************)
(* ModuleExport::wait and ModuleExport::notify: named condition variables  *)
(* in one std::map, with which the embedder's thread waits for what the    *)
(* handlers on the io threads receive.  wait holds globalMutex while it    *)
(* makes the entry and until it sleeps, and has no predicate; notify takes *)
(* no lock and remembers nothing.                                          *)
(***************************************************************************)
EXTENDS Integers, FiniteSets

CONSTANTS Waiters,      \* threads that call wait
          Notifiers,    \* threads that call notify
          Free,         \* nobody holds globalMutex
          Handles,      \* the names waited for
          WaitsFor,     \* [Waiters -> SUBSET Handles]: those each may wait for
          MaxWaits,     \* bounds on the calls of wait of each thread
          MaxNotifies,  \* bound on the calls of notify, per handle
          MaxSpurious   \* bound on spurious wakeups, per handle

ASSUME WaitAssumption ==
    /\ Free \notin Waiters
    /\ IsFiniteSet(Waiters) /\ IsFiniteSet(Handles) /\ Handles # {}
    /\ WaitsFor \in [Waiters -> SUBSET Handles]
    /\ MaxWaits \in [Waiters -> Nat] /\ MaxNotifies \in Nat /\ MaxSpurious \in Nat

VARIABLES
    mutex,      \* who holds globalMutex
    entries,    \* the keys of conditionVariableMap
    wpc,        \* where each waiter is in wait
    handle,     \* the handle it waits for
    waits,      \* how often it has called wait
    npc,        \* where each notifier is in notify
    target,     \* the handle it notifies
    (* history, for the properties *)
    called,     \* how often notify was called with a handle
    spurious,   \* how often a waiter of a handle woke for no reason
    returned,   \* how often wait returned for a handle
    told        \* was notify called since wait last returned?

waitVars == <<mutex, entries, wpc, handle, waits>>
notifyVars == <<npc, target>>
history == <<called, spurious, returned, told>>
vars == <<waitVars, notifyVars, history>>

(* The argument of a call that has returned, or was not made. *)
AnyHandle == CHOOSE h \in Handles : TRUE

Init ==
    /\ mutex = Free
    /\ entries = {}
    /\ wpc = [w \in Waiters |-> "idle"]
    /\ handle = [w \in Waiters |-> AnyHandle]
    /\ waits = [w \in Waiters |-> 0]
    /\ npc = [n \in Notifiers |-> "idle"]
    /\ target = [n \in Notifiers |-> AnyHandle]
    /\ called = [h \in Handles |-> 0]
    /\ spurious = [h \in Handles |-> 0]
    /\ returned = [h \in Handles |-> 0]
    /\ told = [h \in Handles |-> FALSE]

-----------------------------------------------------------------------------
(* wait *)

WaitCall(w) ==
    /\ wpc[w] = "idle" /\ waits[w] < MaxWaits[w]
    /\ wpc' = [wpc EXCEPT ![w] = "lock"]
    /\ \E h \in WaitsFor[w] : handle' = [handle EXCEPT ![w] = h]
    /\ waits' = [waits EXCEPT ![w] = @ + 1]
    /\ UNCHANGED <<mutex, entries, notifyVars, history>>

MutexFree(w) == mutex = Free

(* std::unique_lock *)
Lock(w) ==
    /\ wpc[w] = "lock" /\ MutexFree(w)
    /\ mutex' = w
    /\ wpc' = [wpc EXCEPT ![w] = "emplace"]
    /\ UNCHANGED <<entries, handle, waits, notifyVars, history>>

(* conditionVariableMap.emplace, which does nothing if the key exists. *)
EntriesByThread(w) == entries \cup {w}
EntriesOnlyFirst(w) == IF entries = {} THEN {handle[w]} ELSE entries
EntriesWith(w) == entries \cup {handle[w]}

Emplace(w) ==
    /\ wpc[w] = "emplace"
    /\ entries' = EntriesWith(w)
    /\ wpc' = [wpc EXCEPT ![w] = "block"]
    /\ UNCHANGED <<mutex, handle, waits, notifyVars, history>>

(* condition_variable::wait gives the mutex up and sleeps in one step. *)
KeptMutex == mutex
ReleasedMutex == Free

Block(w) ==
    /\ wpc[w] = "block"
    /\ mutex' = ReleasedMutex
    /\ wpc' = [wpc EXCEPT ![w] = "asleep"]
    /\ UNCHANGED <<entries, handle, waits, notifyVars, history>>

(* The standard lets a wait end for no reason; there is no predicate here  *)
(* to go back to sleep for.                                                *)
SpuriousWakeup(w) ==
    /\ wpc[w] = "asleep" /\ spurious[handle[w]] < MaxSpurious
    /\ wpc' = [wpc EXCEPT ![w] = "relock"]
    /\ spurious' = [spurious EXCEPT ![handle[w]] = @ + 1]
    /\ UNCHANGED <<mutex, entries, handle, waits, notifyVars, called, returned, told>>

Relock(w) ==
    /\ wpc[w] = "relock" /\ MutexFree(w)
    /\ mutex' = w
    /\ wpc' = [wpc EXCEPT ![w] = "return"]
    /\ UNCHANGED <<entries, handle, waits, notifyVars, history>>

(* wait returns and the unique_lock is released. *)
Return(w) ==
    /\ wpc[w] = "return"
    /\ mutex' = Free
    /\ wpc' = [wpc EXCEPT ![w] = "idle"]
    /\ returned' = [returned EXCEPT ![handle[w]] = @ + 1]
    /\ told' = [told EXCEPT ![handle[w]] = FALSE]
    /\ handle' = [handle EXCEPT ![w] = AnyHandle]
    /\ UNCHANGED <<entries, waits, notifyVars, called, spurious>>

Proceed(w) == Lock(w) \/ Emplace(w) \/ Block(w) \/ Relock(w) \/ Return(w)

-----------------------------------------------------------------------------
(* notify *)

NotifyCall(n, h) ==
    /\ npc[n] = "idle" /\ called[h] < MaxNotifies
    /\ npc' = [npc EXCEPT ![n] = "find"]
    /\ target' = [target EXCEPT ![n] = h]
    /\ called' = [called EXCEPT ![h] = @ + 1]
    /\ told' = [told EXCEPT ![h] = TRUE]
    /\ UNCHANGED <<waitVars, spurious, returned>>

(* The map is searched without the mutex, so an emplace that is adding an  *)
(* entry can make the search miss any key.  (So can it at()'s second       *)
(* search in NotifyOne; that throws, which no caller in the example        *)
(* catches, and the process is over: such ends are not followed.)          *)
Adding == \E w \in Waiters : wpc[w] = "emplace" /\ handle[w] \notin entries

NotifyReturns(n) ==
    /\ npc' = [npc EXCEPT ![n] = "idle"]
    /\ target' = [target EXCEPT ![n] = AnyHandle]

NotifyFind(n) ==
    /\ npc[n] = "find"
    /\ \/ target[n] \in entries /\ npc' = [npc EXCEPT ![n] = "signal"]
          /\ UNCHANGED target
       \/ (target[n] \notin entries \/ Adding) /\ NotifyReturns(n)
    /\ UNCHANGED <<waitVars, history>>

Sleepers(h) == {w \in Waiters : wpc[w] = "asleep" /\ handle[w] = h}

(* notify_one wakes one of the threads asleep, if there is one. *)
WokenAll(h) == {Sleepers(h)}
WokenNone(h) == {{}}
Woken(h) == IF Sleepers(h) = {} THEN {{}} ELSE {{w} : w \in Sleepers(h)}

NotifyOne(n) ==
    /\ npc[n] = "signal"
    /\ \E W \in Woken(target[n]) :
          wpc' = [w \in Waiters |-> IF w \in W THEN "relock" ELSE wpc[w]]
    /\ NotifyReturns(n)
    /\ UNCHANGED <<mutex, entries, handle, waits, history>>

Notify(n) == NotifyFind(n) \/ NotifyOne(n)

Next == \/ \E w \in Waiters : WaitCall(w) \/ Proceed(w) \/ SpuriousWakeup(w)
        \/ \E n \in Notifiers : Notify(n) \/ \E h \in Handles : NotifyCall(n, h)

Spec == Init /\ [][Next]_vars

(* Threads inside wait or notify are scheduled, and the mutex is granted   *)
(* to one that asks for it; nobody has to call either, and spurious        *)
(* wakeups cannot be relied on.                                            *)
Fairness == /\ \A w \in Waiters : WF_vars(Proceed(w))
            /\ \A n \in Notifiers : WF_vars(Notify(n))
FairSpec == Spec /\ Fairness

-----------------------------------------------------------------------------
(* Properties *)

(* Every variable has its type. *)
TypeOK ==
    /\ mutex \in Waiters \cup {Free}
    /\ entries \subseteq Handles
    /\ wpc \in [Waiters -> {"idle", "lock", "emplace", "block", "asleep", "relock", "return"}]
    /\ handle \in [Waiters -> Handles]
    /\ waits \in [Waiters -> Nat] /\ \A w \in Waiters : waits[w] <= MaxWaits[w]
    /\ npc \in [Notifiers -> {"idle", "find", "signal"}]
    /\ target \in [Notifiers -> Handles]
    /\ called \in [Handles -> 0..MaxNotifies]
    /\ spurious \in [Handles -> 0..MaxSpurious]
    /\ returned \in [Handles -> Nat]
    /\ told \in [Handles -> BOOLEAN]

(* A thread that waits has an entry for a notify to find: wait's own at(), *)
(* under the mutex, cannot throw, and a search that races no insertion     *)
(* reaches the sleeper.                                                    *)
SleeperHasEntry ==
    \A w \in Waiters : wpc[w] \in {"block", "asleep", "relock"} => handle[w] \in entries

(* One call of notify ends at most one wait, whoever else waits for the    *)
(* same handle; the rest of the returns are spurious wakeups.              *)
Awake(h) == {w \in Waiters : wpc[w] \in {"relock", "return"} /\ handle[w] = h}
OneReturnPerNotify ==
    \A h \in Handles :
        returned[h] + Cardinality(Awake(h)) <= called[h] + spurious[h]

(* A thread that has been woken gets the mutex back and returns. *)
WokenReturns == \A w \in Waiters : wpc[w] = "relock" ~> wpc[w] = "idle"

(* Once every handle has its entry, so that no insertion can disturb the   *)
(* search, a notify called while a thread sleeps makes a wait return.      *)
SleeperIsHeard ==
    \A h \in Handles, i \in 0..(MaxNotifies + MaxSpurious) :
        (/\ entries = Handles
         /\ \E n \in Notifiers : npc[n] = "find" /\ target[n] = h
         /\ Sleepers(h) # {} /\ returned[h] = i) ~> returned[h] > i

(* The example that uses them asks the user for input ("Please enter your  *)
(* google user ID into the form on the new window"), waits for "userId",   *)
(* and lets the handler that receives it call notify: when notify has been *)
(* called, the wait is over.                                               *)
NotifiedWaitReturns ==
    \A w \in Waiters, h \in Handles :
        wpc[w] # "idle" /\ handle[w] = h /\ told[h] ~> wpc[w] = "idle"
=============================================================================
