------------------------- MODULE OAuthExampleProofs -------------------------
(***************************************************************************)
(* Theorems about ModuleWait, for every set of notifiers (a finite one or  *)
(* not), every finite set of waiters and handles, and every bound on the   *)
(* calls; and about OAuthExample, which is one use of wait and notify, so  *)
(* that they hold of it, and what its main thread waited for is there, for *)
(* any number of io threads and requests and whoever else waits.           *)
(***************************************************************************)
EXTENDS OAuthExample, FiniteSetTheorems, TLAPS

(***************************************************************************)
(* OneReturnPerNotify does not say that a call of notify which has not     *)
(* woken anybody yet is still entitled to: the calls in progress are       *)
(* counted with the waits that have ended.                                 *)
(***************************************************************************)
Calling(h) == {n \in Notifiers : npc[n] # "idle" /\ target[n] = h}

Entitled(h) ==
    /\ IsFiniteSet(Calling(h))
    /\ returned[h] + Cardinality(Awake(h)) + Cardinality(Calling(h)) <= called[h] + spurious[h]

WaitInv == TypeOK /\ SleeperHasEntry /\ \A h \in Handles : Entitled(h)

LEMMA AnyHandleType == AnyHandle \in Handles
  BY WaitAssumption DEF AnyHandle

LEMMA InitWait == Init => WaitInv
  <1> SUFFICES ASSUME Init PROVE WaitInv
    OBVIOUS
  <1>1. TypeOK
    BY AnyHandleType, WaitAssumption DEF Init, TypeOK
  <1>2. SleeperHasEntry
    BY DEF Init, SleeperHasEntry
  <1>3. ASSUME NEW h \in Handles PROVE Entitled(h)
    <2>1. Awake(h) = {} /\ Calling(h) = {}
      BY DEF Init, Awake, Calling
    <2>2. QED
      BY <2>1, FS_EmptySet DEF Init, Entitled
  <1>4. QED
    BY <1>1, <1>2, <1>3 DEF WaitInv

-----------------------------------------------------------------------------
(* Types *)

LEMMA WaiterTypes ==
    ASSUME TypeOK, NEW w \in Waiters, WaitCall(w) \/ Proceed(w) \/ SpuriousWakeup(w)
    PROVE  TypeOK'
  <1> USE DEF TypeOK, waitVars, notifyVars, history
  <1>1. CASE WaitCall(w)
    <2>1. PICK h \in WaitsFor[w] : handle' = [handle EXCEPT ![w] = h]
      BY <1>1 DEF WaitCall
    <2>2. h \in Handles /\ MaxWaits[w] \in Nat
      BY WaitAssumption
    <2>3. handle' \in [Waiters -> Handles]
      BY <2>1, <2>2
    <2>4. waits' \in [Waiters -> Nat] /\ \A v \in Waiters : waits'[v] <= MaxWaits[v]
      BY <1>1, <2>2 DEF WaitCall
    <2>5. QED
      BY <1>1, <2>3, <2>4 DEF WaitCall
  <1>2. CASE Lock(w) \/ Block(w) \/ Relock(w)
    BY <1>2 DEF Lock, Block, Relock, ReleasedMutex
  <1>3. CASE Emplace(w)
    BY <1>3 DEF Emplace, EntriesWith
  <1>4. CASE Return(w)
    BY <1>4, AnyHandleType DEF Return
  <1>5. CASE SpuriousWakeup(w)
    <2>1. spurious[handle[w]] + 1 \in 0..MaxSpurious
      BY <1>5, WaitAssumption DEF SpuriousWakeup
    <2>2. spurious' \in [Handles -> 0..MaxSpurious]
      BY <1>5, <2>1 DEF SpuriousWakeup
    <2>3. QED
      BY <1>5, <2>2 DEF SpuriousWakeup
  <1>6. QED
    BY <1>1, <1>2, <1>3, <1>4, <1>5 DEF Proceed

LEMMA NotifierTypes ==
    ASSUME TypeOK, NEW n \in Notifiers, Notify(n) \/ \E h \in Handles : NotifyCall(n, h)
    PROVE  TypeOK'
  <1> USE DEF TypeOK, waitVars, notifyVars, history
  <1>1. ASSUME NEW h \in Handles, NotifyCall(n, h) PROVE TypeOK'
    <2>1. called[h] + 1 \in 0..MaxNotifies
      BY <1>1, WaitAssumption DEF NotifyCall
    <2>2. called' \in [Handles -> 0..MaxNotifies]
      BY <1>1, <2>1 DEF NotifyCall
    <2>3. QED
      BY <1>1, <2>2 DEF NotifyCall
  <1>2. CASE NotifyFind(n)
    <2>1. npc' \in [Notifiers -> {"idle", "find", "signal"}] /\ target' \in [Notifiers -> Handles]
      BY <1>2, AnyHandleType DEF NotifyFind, NotifyReturns
    <2>2. QED
      BY <1>2, <2>1 DEF NotifyFind
  <1>3. CASE NotifyOne(n)
    <2>1. npc' \in [Notifiers -> {"idle", "find", "signal"}] /\ target' \in [Notifiers -> Handles]
      BY <1>3, AnyHandleType DEF NotifyOne, NotifyReturns
    <2>2. wpc' \in [Waiters -> {"idle", "lock", "emplace", "block", "asleep", "relock", "return"}]
      BY <1>3 DEF NotifyOne
    <2>3. QED
      BY <1>3, <2>1, <2>2 DEF NotifyOne
  <1>4. QED
    BY <1>1, <1>2, <1>3 DEF Notify

(* A thread that goes to sleep has made its entry, and entries stay.       *)
LEMMA EntryStep == TypeOK /\ SleeperHasEntry /\ [Next]_vars => SleeperHasEntry'
  <1> SUFFICES ASSUME TypeOK, SleeperHasEntry, [Next]_vars,
                      NEW v \in Waiters, wpc'[v] \in {"block", "asleep", "relock"}
               PROVE  handle'[v] \in entries'
    BY DEF SleeperHasEntry
  <1>0. wpc \in [Waiters -> {"idle", "lock", "emplace", "block", "asleep", "relock", "return"}]
    BY DEF TypeOK
  <1> USE DEF SleeperHasEntry, waitVars
  <1>1. CASE UNCHANGED vars
    BY <1>1 DEF vars
  <1>2. ASSUME NEW w \in Waiters, WaitCall(w) \/ Return(w) PROVE handle'[v] \in entries'
    <2>1. wpc'[w] \in {"lock", "idle"} /\ UNCHANGED entries
      BY <1>0, <1>2 DEF WaitCall, Return
    <2>2. v # w /\ wpc'[v] = wpc[v] /\ handle'[v] = handle[v]
      BY <1>0, <1>2, <2>1 DEF WaitCall, Return, TypeOK
    <2>3. QED
      BY <2>1, <2>2
  <1>3. ASSUME NEW w \in Waiters, Lock(w) \/ Block(w) \/ Relock(w) \/ SpuriousWakeup(w)
        PROVE  handle'[v] \in entries'
    BY <1>0, <1>3 DEF Lock, Block, Relock, SpuriousWakeup
  <1>4. ASSUME NEW w \in Waiters, Emplace(w) PROVE handle'[v] \in entries'
    BY <1>0, <1>4 DEF Emplace, EntriesWith
  <1>5. ASSUME NEW n \in Notifiers, NotifyFind(n) \/ \E h \in Handles : NotifyCall(n, h)
        PROVE  handle'[v] \in entries'
    BY <1>5 DEF NotifyFind, NotifyCall
  <1>6. ASSUME NEW n \in Notifiers, NotifyOne(n) PROVE handle'[v] \in entries'
    <2>1. wpc'[v] = wpc[v] \/ wpc[v] = "asleep"
      BY <1>0, <1>6 DEF NotifyOne, Woken, Sleepers
    <2>2. UNCHANGED <<handle, entries>>
      BY <1>6 DEF NotifyOne
    <2>3. QED
      BY <2>1, <2>2
  <1>7. QED
    BY <1>1, <1>2, <1>3, <1>4, <1>5, <1>6 DEF Next, Proceed, Notify

-----------------------------------------------------------------------------
(* Counting *)

(* The counts of a handle, and how one element more or less moves them. *)
LEMMA Counts ==
    ASSUME NEW h \in Handles, TypeOK, Entitled(h)
    PROVE  /\ IsFiniteSet(Awake(h)) /\ Cardinality(Awake(h)) \in Nat
           /\ IsFiniteSet(Calling(h)) /\ Cardinality(Calling(h)) \in Nat
           /\ returned[h] \in Nat /\ called[h] \in Nat /\ spurious[h] \in Nat
  <1>1. IsFiniteSet(Awake(h))
    BY FS_Subset, WaitAssumption DEF Awake
  <1>2. QED
    BY <1>1, FS_CardinalityType, WaitAssumption DEF Entitled, TypeOK

LEMMA OneMore ==
    ASSUME NEW S, IsFiniteSet(S), NEW x, x \notin S
    PROVE  IsFiniteSet(S \cup {x}) /\ Cardinality(S \cup {x}) = Cardinality(S) + 1
  BY FS_AddElement

LEMMA OneLess ==
    ASSUME NEW S, IsFiniteSet(S), NEW x \in S
    PROVE  IsFiniteSet(S \ {x}) /\ Cardinality(S \ {x}) = Cardinality(S) - 1
  BY FS_RemoveElement

(* A step of a waiter: it leaves the callers of notify alone. *)
LEMMA WaiterCounts ==
    ASSUME TypeOK, NEW w \in Waiters, WaitCall(w) \/ Proceed(w) \/ SpuriousWakeup(w),
           NEW h \in Handles, Entitled(h)
    PROVE  Entitled(h)'
  <1>0. /\ wpc \in [Waiters -> {"idle", "lock", "emplace", "block", "asleep", "relock", "return"}]
        /\ handle \in [Waiters -> Handles]
        /\ spurious \in [Handles -> 0..MaxSpurious] /\ returned \in [Handles -> Nat]
    BY DEF TypeOK
  <1>c. Calling(h)' = Calling(h) /\ UNCHANGED called
    BY DEF Calling, WaitCall, Proceed, Lock, Emplace, Block, Relock, Return, SpuriousWakeup, notifyVars,
           history
  <1>1. CASE WaitCall(w) \/ Lock(w) \/ Emplace(w) \/ Block(w) \/ Relock(w)
    <2>1. Awake(h)' = Awake(h)
      BY <1>0, <1>1 DEF Awake, WaitCall, Lock, Emplace, Block, Relock
    <2>2. UNCHANGED history
      BY <1>1 DEF WaitCall, Lock, Emplace, Block, Relock
    <2>3. QED
      BY <1>c, <2>1, <2>2 DEF Entitled, history
  <1>2. CASE Return(w)
    <2>1. /\ wpc[w] = "return" /\ wpc'[w] = "idle" /\ UNCHANGED spurious
          /\ returned' = [returned EXCEPT ![handle[w]] = @ + 1]
          /\ \A v \in Waiters \ {w} : wpc'[v] = wpc[v] /\ handle'[v] = handle[v]
      BY <1>0, <1>2 DEF Return
    <2>2. CASE handle[w] = h
      <3>1. w \in Awake(h) /\ Awake(h)' = Awake(h) \ {w}
        BY <2>1, <2>2 DEF Awake
      <3>2. Cardinality(Awake(h)') = Cardinality(Awake(h)) - 1
        BY <3>1, Counts, OneLess
      <3>3. returned'[h] = returned[h] + 1
        BY <1>0, <2>1, <2>2
      <3>4. QED
        BY <1>c, <2>1, <3>2, <3>3, Counts DEF Entitled
    <2>3. CASE handle[w] # h
      <3>1. Awake(h)' = Awake(h)
        BY <2>1, <2>3 DEF Awake
      <3>2. returned'[h] = returned[h]
        BY <1>0, <2>1, <2>3
      <3>3. QED
        BY <1>c, <2>1, <3>1, <3>2 DEF Entitled
    <2>4. QED
      BY <2>2, <2>3
  <1>3. CASE SpuriousWakeup(w)
    <2>1. /\ wpc[w] = "asleep" /\ wpc'[w] = "relock" /\ UNCHANGED <<handle, returned>>
          /\ spurious' = [spurious EXCEPT ![handle[w]] = @ + 1]
          /\ \A v \in Waiters \ {w} : wpc'[v] = wpc[v]
      BY <1>0, <1>3 DEF SpuriousWakeup
    <2>2. CASE handle[w] = h
      <3>1. w \notin Awake(h) /\ Awake(h)' = Awake(h) \cup {w}
        BY <2>1, <2>2 DEF Awake
      <3>2. Cardinality(Awake(h)') = Cardinality(Awake(h)) + 1
        BY <3>1, Counts, OneMore
      <3>3. spurious'[h] = spurious[h] + 1
        BY <1>0, <2>1, <2>2
      <3>4. QED
        BY <1>c, <2>1, <3>2, <3>3, Counts DEF Entitled
    <2>3. CASE handle[w] # h
      <3>1. Awake(h)' = Awake(h)
        BY <2>1, <2>3 DEF Awake
      <3>2. spurious'[h] = spurious[h]
        BY <1>0, <2>1, <2>3
      <3>3. QED
        BY <1>c, <2>1, <3>1, <3>2 DEF Entitled
    <2>4. QED
      BY <2>2, <2>3
  <1>4. QED
    BY <1>1, <1>2, <1>3 DEF Proceed

(* A step of notify: a call that begins is one call more; one that ends    *)
(* has woken one thread, or none.                                          *)
LEMMA NotifierCounts ==
    ASSUME TypeOK, NEW n \in Notifiers, Notify(n) \/ \E g \in Handles : NotifyCall(n, g),
           NEW h \in Handles, Entitled(h)
    PROVE  Entitled(h)'
  <1>0. /\ wpc \in [Waiters -> {"idle", "lock", "emplace", "block", "asleep", "relock", "return"}]
        /\ npc \in [Notifiers -> {"idle", "find", "signal"}] /\ target \in [Notifiers -> Handles]
        /\ called \in [Handles -> 0..MaxNotifies]
    BY DEF TypeOK
  <1>1. ASSUME NEW g \in Handles, NotifyCall(n, g) PROVE Entitled(h)'
    <2>1. /\ npc[n] = "idle" /\ npc'[n] = "find" /\ target'[n] = g
          /\ called' = [called EXCEPT ![g] = @ + 1] /\ UNCHANGED <<spurious, returned>>
          /\ \A m \in Notifiers \ {n} : npc'[m] = npc[m] /\ target'[m] = target[m]
          /\ Awake(h)' = Awake(h)
      BY <1>0, <1>1 DEF NotifyCall, waitVars, Awake
    <2>2. CASE g = h
      <3>1. n \notin Calling(h) /\ Calling(h)' = Calling(h) \cup {n}
        BY <2>1, <2>2 DEF Calling
      <3>2. IsFiniteSet(Calling(h)') /\ Cardinality(Calling(h)') = Cardinality(Calling(h)) + 1
        BY <3>1, Counts, OneMore
      <3>3. called'[h] = called[h] + 1
        BY <1>0, <2>1, <2>2
      <3>4. QED
        BY <2>1, <3>2, <3>3, Counts DEF Entitled
    <2>3. CASE g # h
      <3>1. Calling(h)' = Calling(h)
        BY <2>1, <2>3 DEF Calling
      <3>2. called'[h] = called[h]
        BY <1>0, <2>1, <2>3
      <3>3. QED
        BY <2>1, <3>1, <3>2 DEF Entitled
    <2>4. QED
      BY <2>2, <2>3
  (* A call that returns, having woken at most one sleeper of its handle. *)
  <1>2. ASSUME npc[n] # "idle", NotifyReturns(n), UNCHANGED <<history, handle>>,
               \/ Awake(h)' = Awake(h)
               \/ \E w \in Waiters : target[n] = h /\ w \notin Awake(h) /\ Awake(h)' = Awake(h) \cup {w}
        PROVE  Entitled(h)'
    <2>1. /\ npc'[n] = "idle" /\ UNCHANGED <<called, spurious, returned>>
          /\ \A m \in Notifiers \ {n} : npc'[m] = npc[m] /\ target'[m] = target[m]
      BY <1>0, <1>2 DEF NotifyReturns, history
    <2>2. CASE target[n] = h
      <3>1. n \in Calling(h) /\ Calling(h)' = Calling(h) \ {n}
        BY <1>2, <2>1, <2>2 DEF Calling
      <3>2. IsFiniteSet(Calling(h)') /\ Cardinality(Calling(h)') = Cardinality(Calling(h)) - 1
        BY <3>1, Counts, OneLess
      <3>3. Cardinality(Awake(h)') \in {Cardinality(Awake(h)), Cardinality(Awake(h)) + 1}
        BY <1>2, Counts, OneMore
      <3>4. QED
        BY <2>1, <3>2, <3>3, Counts DEF Entitled
    <2>3. CASE target[n] # h
      <3>1. Calling(h)' = Calling(h) /\ Awake(h)' = Awake(h)
        BY <1>2, <2>1, <2>3 DEF Calling
      <3>2. QED
        BY <2>1, <3>1 DEF Entitled
    <2>4. QED
      BY <2>2, <2>3
  <1>3. CASE NotifyFind(n)
    <2>1. npc[n] = "find" /\ Awake(h)' = Awake(h) /\ UNCHANGED <<history, handle>>
      BY <1>3 DEF NotifyFind, waitVars, Awake
    <2>2. CASE NotifyReturns(n)
      BY <1>2, <2>1, <2>2
    <2>3. CASE npc' = [npc EXCEPT ![n] = "signal"] /\ UNCHANGED target
      <3>1. Calling(h)' = Calling(h)
        BY <1>0, <2>1, <2>3 DEF Calling
      <3>2. QED
        BY <2>1, <3>1 DEF Entitled, history
    <2>4. QED
      BY <1>3, <2>2, <2>3 DEF NotifyFind
  <1>4. CASE NotifyOne(n)
    <2>1. npc[n] = "signal" /\ NotifyReturns(n) /\ UNCHANGED <<history, handle>>
      BY <1>4 DEF NotifyOne
    <2>2. PICK W \in Woken(target[n]) : wpc' = [w \in Waiters |-> IF w \in W THEN "relock" ELSE wpc[w]]
      BY <1>4 DEF NotifyOne
    <2>3. CASE W = {}
      <3>1. Awake(h)' = Awake(h)
        BY <2>1, <2>2, <2>3 DEF Awake
      <3>2. QED
        BY <1>2, <2>1, <3>1
    <2>4. ASSUME NEW w \in Sleepers(target[n]), W = {w} PROVE Entitled(h)'
      <3>1. /\ w \in Waiters /\ wpc[w] = "asleep" /\ handle[w] = target[n] /\ wpc'[w] = "relock"
            /\ \A v \in Waiters \ {w} : wpc'[v] = wpc[v]
        BY <2>2, <2>4 DEF Sleepers
      <3>2. CASE target[n] = h
        <4>1. w \notin Awake(h) /\ Awake(h)' = Awake(h) \cup {w}
          BY <2>1, <3>1, <3>2 DEF Awake
        <4>2. QED
          BY <1>2, <2>1, <3>1, <3>2, <4>1
      <3>3. CASE target[n] # h
        <4>1. Awake(h)' = Awake(h)
          BY <2>1, <3>1, <3>3 DEF Awake
        <4>2. QED
          BY <1>2, <2>1, <4>1
      <3>4. QED
        BY <3>2, <3>3
    <2>5. W = {} \/ \E w \in Sleepers(target[n]) : W = {w}
      BY <2>2 DEF Woken
    <2>6. QED
      BY <2>3, <2>4, <2>5
  <1>5. QED
    BY <1>1, <1>3, <1>4 DEF Notify

LEMMA WaitStep == WaitInv /\ [Next]_vars => WaitInv'
  <1> SUFFICES ASSUME WaitInv, [Next]_vars PROVE WaitInv'
    OBVIOUS
  <1>1. TypeOK /\ SleeperHasEntry /\ \A h \in Handles : Entitled(h)
    BY DEF WaitInv
  <1>2. TypeOK'
    <2>1. CASE UNCHANGED vars
      BY <1>1, <2>1 DEF vars, waitVars, notifyVars, history, TypeOK
    <2>2. QED
      BY <1>1, <2>1, WaiterTypes, NotifierTypes DEF Next
  <1>3. ASSUME NEW h \in Handles PROVE Entitled(h)'
    <2>1. CASE UNCHANGED vars
      BY <1>1, <2>1 DEF vars, waitVars, notifyVars, history, Entitled, Awake, Calling
    <2>2. QED
      BY <1>1, <2>1, WaiterCounts, NotifierCounts DEF Next
  <1>4. QED
    BY <1>1, <1>2, <1>3, EntryStep DEF WaitInv

(* Every variable keeps its type, however many threads wait and notify.    *)
THEOREM WaitTypes == Spec => []TypeOK
  <1>1. WaitInv => TypeOK
    BY DEF WaitInv
  <1>2. QED
    BY <1>1, InitWait, WaitStep, PTL DEF Spec

(* Whoever sleeps in ModuleExport::wait has an entry: no at() throws.      *)
THEOREM SleepersHaveEntries == Spec => []SleeperHasEntry
  <1>1. WaitInv => SleeperHasEntry
    BY DEF WaitInv
  <1>2. QED
    BY <1>1, InitWait, WaitStep, PTL DEF Spec

(* A call of notify ends at most one wait, for any number of threads that  *)
(* wait for the same handle and that notify.                               *)
THEOREM NotifyEndsOneWait == Spec => []OneReturnPerNotify
  <1>1. WaitInv => OneReturnPerNotify
    <2> SUFFICES ASSUME WaitInv, NEW h \in Handles
                 PROVE  returned[h] + Cardinality(Awake(h)) <= called[h] + spurious[h]
      BY DEF OneReturnPerNotify
    <2>1. TypeOK /\ Entitled(h)
      BY DEF WaitInv
    <2>2. QED
      BY <2>1, Counts DEF Entitled
  <1>2. QED
    BY <1>1, InitWait, WaitStep, PTL DEF Spec

-----------------------------------------------------------------------------
(***************************************************************************)
(* The example.                                                            *)
(***************************************************************************)

(***************************************************************************)
(* The chain from a handler's store to the main thread: a handler calls    *)
(* notify after it has stored; a wait that has returned was notified or    *)
(* woke for no reason (OneReturnPerNotify); and the main thread goes on    *)
(* after the wait for the stage it is at, and no other.                    *)
(***************************************************************************)
ExampleType ==
    /\ stage \in {"setup", "auth", "token", "exchange", "userId", "exit", "returned"}
    /\ asked \in [Notifiers -> {"nothing", "code", "userId"}]
    /\ hpc \in [Notifiers -> {"idle", "store", "notify", "notifying", "respond"}]
    /\ authCode \in BOOLEAN /\ userId \in BOOLEAN

AtItsWait == wpc[Main] # "idle" => handle[Main] = stage /\ stage \in DOMAIN After

StoredFirst ==
    /\ \A n \in Notifiers : hpc[n] \in {"store", "notify"} => asked[n] \in DOMAIN Announces
    /\ \A n \in Notifiers : hpc[n] = "notify" =>
          (asked[n] = "code" => authCode) /\ (asked[n] = "userId" => userId)
    /\ called["auth"] > 0 => authCode
    /\ called["userId"] > 0 => userId

WaitsAreOver ==
    /\ stage \in {"token", "exchange", "userId", "exit"} => returned["auth"] > 0
    /\ stage = "exit" => returned["userId"] > 0

ExampleInv ==
    /\ WaitInv /\ ExampleType /\ AtItsWait /\ StoredFirst /\ WaitsAreOver
    /\ FALSE \in sent => spurious["auth"] > 0

-----------------------------------------------------------------------------
(* The example is a use of wait and notify *)

LEMMA HandleNames == {"auth", "userId", "exit"} \subseteq Handles /\ Main \in Waiters
  BY ExampleAssumption, WaitAssumption

(* What a handler is about to announce has a name that can be waited for.  *)
LEMMA AnnouncedIsHandle ==
    ASSUME ExampleType, StoredFirst, NEW n \in Notifiers, hpc[n] = "notify"
    PROVE  \/ asked[n] = "code" /\ Announces[asked[n]] = "auth" /\ authCode
           \/ asked[n] = "userId" /\ Announces[asked[n]] = "userId" /\ userId
  <1>1. asked[n] \in {"code", "userId"}
    BY DEF StoredFirst, Announces
  <1>2. QED
    BY <1>1 DEF StoredFirst, Announces

(* Every step of the example is one of the waiters' and notifiers' or      *)
(* leaves wait and notify alone.                                           *)
LEMMA ExampleStepIsStep ==
    ASSUME ExampleType, StoredFirst, [NextExample]_exampleVars
    PROVE  [Next]_vars
  <1>1. CASE UNCHANGED exampleVars
    BY <1>1 DEF exampleVars
  <1>2. CASE MainThread
    <2>1. CASE SetUp \/ TokenRequest \/ TokenAnswered
      BY <2>1 DEF SetUp, TokenRequest, TokenAnswered
    <2>2. CASE MainWaits \/ MainReturns \/ Lock(Main) \/ Emplace(Main) \/ Block(Main) \/ Relock(Main)
      BY <2>2, ExampleAssumption DEF MainWaits, MainReturns, Next, Proceed
    <2>3. QED
      BY <1>2, <2>1, <2>2 DEF MainThread
  <1>3. ASSUME NEW w \in Waiters, OtherWaiter(w) \/ WakesUp(w) PROVE Next
    BY <1>3 DEF OtherWaiter, WakesUp, Next
  <1>4. ASSUME NEW n \in Notifiers, Handler(n) \/ \E q \in DOMAIN Announces : Ask(n, q)
        PROVE  [Next]_vars
    <2>1. CASE Store(n) \/ Respond(n) \/ \E q \in DOMAIN Announces : Ask(n, q)
      BY <2>1 DEF Store, Respond, Ask
    <2>2. CASE Announcing(n)
      BY <2>2 DEF Announcing, Next
    <2>3. CASE Announce(n)
      <3>1. NotifyCall(n, Announces[asked[n]])
        BY <2>3 DEF Announce
      <3>2. Announces[asked[n]] \in Handles
        BY <2>3, AnnouncedIsHandle, HandleNames DEF Announce
      <3>3. QED
        BY <3>1, <3>2 DEF Next
    <2>4. QED
      BY <1>4, <2>1, <2>2, <2>3 DEF Handler
  <1>5. QED
    BY <1>1, <1>2, <1>3, <1>4 DEF NextExample

(* Whose steps move what: the main thread's wait is its own, and only it   *)
(* moves on; handlers touch the strings.                                   *)
LEMMA MainAlone ==
    ASSUME TypeOK, NEW w \in Waiters, w # Main, WaitCall(w) \/ Proceed(w)
    PROVE  UNCHANGED <<wpc[Main], handle[Main], called, spurious>>
  BY HandleNames DEF TypeOK, WaitCall, Proceed, Lock, Emplace, Block, Relock, Return, history

(* returned never goes down. *)
LEMMA ReturnedGrows ==
    ASSUME TypeOK, [Next]_vars, NEW h \in Handles
    PROVE  returned[h] > 0 => returned'[h] > 0
  <1>1. CASE \E w \in Waiters : Return(w)
    <2>1. PICK w \in Waiters : returned' = [returned EXCEPT ![handle[w]] = @ + 1]
      BY <1>1 DEF Return
    <2>2. returned[h] \in Nat /\ returned'[h] \in {returned[h], returned[h] + 1}
      BY <2>1 DEF TypeOK
    <2>3. QED
      BY <2>2
  <1>2. CASE ~ \E w \in Waiters : Return(w)
    BY <1>2 DEF Next, Proceed, WaitCall, Lock, Emplace, Block, Relock, SpuriousWakeup, Notify, NotifyCall,
       NotifyFind, NotifyOne, vars, history
  <1>3. QED
    BY <1>1, <1>2

LEMMA ExampleTypeStep ==
    ASSUME ExampleType, TypeOK, StoredFirst, AtItsWait, [NextExample]_exampleVars
    PROVE  ExampleType'
  <1> USE DEF ExampleType, mainVars, handlerVars
  <1>1. CASE UNCHANGED exampleVars
    BY <1>1 DEF exampleVars
  <1>2. CASE MainThread
    <2>1. CASE MainReturns
      <3>1. stage \in DOMAIN After
        BY <2>1 DEF MainReturns, Return, AtItsWait
      <3>2. After[stage] \in {"token", "exit", "returned"}
        BY <3>1 DEF After
      <3>3. QED
        BY <2>1, <3>2 DEF MainReturns
    <2>2. CASE SetUp \/ MainWaits \/ TokenRequest \/ TokenAnswered
      BY <2>2 DEF SetUp, MainWaits, TokenRequest, TokenAnswered
    <2>3. QED
      BY <1>2, <2>1, <2>2 DEF MainThread
  <1>3. ASSUME NEW w \in Waiters, OtherWaiter(w) \/ WakesUp(w) PROVE ExampleType'
    BY <1>3 DEF OtherWaiter, WakesUp
  <1>4. ASSUME NEW n \in Notifiers, NEW q \in DOMAIN Announces, Ask(n, q) PROVE ExampleType'
    BY <1>4 DEF Ask, Then, NextStep, Announces
  <1>5. ASSUME NEW n \in Notifiers, Handler(n) PROVE ExampleType'
    <2>1. CASE Store(n)
      BY <2>1 DEF Store, Then, NextStep
    <2>2. CASE Announce(n) \/ Respond(n)
      BY <2>2 DEF Announce, Respond
    <2>3. CASE Announcing(n)
      BY <2>3 DEF Announcing, Then, NextStep
    <2>4. QED
      BY <1>5, <2>1, <2>2, <2>3 DEF Handler
  <1>6. QED
    BY <1>1, <1>2, <1>3, <1>4, <1>5 DEF NextExample

LEMMA SpuriousGrows ==
    ASSUME TypeOK, [Next]_vars, NEW h \in Handles
    PROVE  spurious[h] > 0 => spurious'[h] > 0
  <1>1. CASE \E w \in Waiters : SpuriousWakeup(w)
    <2>1. PICK w \in Waiters : spurious' = [spurious EXCEPT ![handle[w]] = @ + 1]
      BY <1>1 DEF SpuriousWakeup
    <2>2. spurious[h] \in Nat /\ spurious'[h] \in {spurious[h], spurious[h] + 1}
      BY <2>1, WaitAssumption DEF TypeOK
    <2>3. QED
      BY <2>2
  <1>2. CASE ~ \E w \in Waiters : SpuriousWakeup(w)
    BY <1>2 DEF Next, Proceed, WaitCall, Lock, Emplace, Block, Relock, Return, Notify, NotifyCall,
       NotifyFind, NotifyOne, vars, history
  <1>3. QED
    BY <1>1, <1>2

(* A wait that has returned was notified, or woke for no reason. *)
LEMMA ReturnedWasCalled ==
    ASSUME WaitInv, NEW h \in Handles, returned[h] > 0
    PROVE  called[h] > 0 \/ spurious[h] > 0
  BY Counts DEF WaitInv, Entitled

(* The stage does not change under a wait, nor the handle waited for.      *)
LEMMA AtItsWaitStep ==
    ASSUME TypeOK, ExampleType, AtItsWait, [NextExample]_exampleVars
    PROVE  AtItsWait'
  <1> USE DEF AtItsWait
  <1>0. wpc \in [Waiters -> {"idle", "lock", "emplace", "block", "asleep", "relock", "return"}]
        /\ handle \in [Waiters -> Handles] /\ Main \in Waiters
    BY HandleNames DEF TypeOK
  <1>1. CASE UNCHANGED exampleVars
    BY <1>1 DEF exampleVars, mainVars, vars, waitVars
  <1>2. CASE MainThread
    <2>1. CASE SetUp \/ TokenRequest \/ TokenAnswered
      <3>1. wpc[Main] = "idle" /\ UNCHANGED vars
        BY <1>0, <2>1 DEF SetUp, TokenRequest, TokenAnswered, After
      <3>2. QED
        BY <3>1 DEF vars, waitVars
    <2>2. CASE MainWaits
      <3>1. PICK h \in WaitsFor[Main] : handle' = [handle EXCEPT ![Main] = h]
        BY <2>2 DEF MainWaits, WaitCall
      <3>2. handle'[Main] = stage /\ stage' = stage /\ h = stage
        BY <1>0, <2>2, <3>1 DEF MainWaits, mainVars
      <3>3. QED
        BY <3>2, ExampleAssumption DEF After
    <2>3. CASE MainReturns
      BY <1>0, <2>3 DEF MainReturns, Return
    <2>4. CASE (Lock(Main) \/ Emplace(Main) \/ Block(Main) \/ Relock(Main)) /\ UNCHANGED <<mainVars, handlerVars>>
      BY <2>4 DEF Lock, Emplace, Block, Relock, mainVars
    <2>5. QED
      BY <1>2, <2>1, <2>2, <2>3, <2>4 DEF MainThread
  <1>3. ASSUME NEW w \in Waiters, OtherWaiter(w) PROVE AtItsWait'
    BY <1>3, MainAlone DEF OtherWaiter, mainVars
  <1>4. ASSUME NEW w \in Waiters, WakesUp(w) PROVE AtItsWait'
    BY <1>0, <1>4 DEF WakesUp, SpuriousWakeup, mainVars
  <1>5. ASSUME NEW n \in Notifiers, Handler(n) \/ \E q \in DOMAIN Announces : Ask(n, q)
        PROVE  AtItsWait'
    <2>1. UNCHANGED <<stage, handle>> /\ (wpc'[Main] = wpc[Main] \/ wpc[Main] = "asleep")
      <3>1. CASE Announcing(n)
        BY <1>0, <3>1 DEF Announcing, Notify, NotifyFind, NotifyOne, Woken, Sleepers, waitVars, mainVars
      <3>2. CASE ~Announcing(n)
        BY <1>5, <3>2 DEF Handler, Store, Announce, Respond, Ask, NotifyCall, vars, waitVars, mainVars
      <3>3. QED
        BY <3>1, <3>2
    <2>2. QED
      BY <2>1
  <1>6. QED
    BY <1>1, <1>2, <1>3, <1>4, <1>5 DEF NextExample

(* A handler stores before it announces; called counts only announcements. *)
LEMMA StoredFirstStep ==
    ASSUME TypeOK, ExampleType, StoredFirst, [NextExample]_exampleVars
    PROVE  StoredFirst'
  <1>0. /\ asked \in [Notifiers -> {"nothing", "code", "userId"}]
        /\ hpc \in [Notifiers -> {"idle", "store", "notify", "notifying", "respond"}]
        /\ authCode \in BOOLEAN /\ userId \in BOOLEAN
        /\ called \in [Handles -> 0..MaxNotifies] /\ {"auth", "userId"} \subseteq Handles
    BY HandleNames DEF TypeOK, ExampleType
  <1>1. CASE UNCHANGED <<handlerVars, called>>
    BY <1>1 DEF StoredFirst, handlerVars
  <1>2. CASE MainThread \/ UNCHANGED exampleVars
    <2>1. UNCHANGED <<handlerVars, called>>
      BY <1>2 DEF MainThread, SetUp, MainWaits, MainReturns, TokenRequest, TokenAnswered, WaitCall, Lock,
         Emplace, Block, Relock, Return, exampleVars, vars, history
    <2>2. QED
      BY <1>1, <2>1
  <1>3. ASSUME NEW w \in Waiters, OtherWaiter(w) \/ WakesUp(w) PROVE StoredFirst'
    <2>1. UNCHANGED <<handlerVars, called>>
      BY <1>3 DEF OtherWaiter, WakesUp, WaitCall, Proceed, Lock, Emplace, Block, Relock, Return,
         SpuriousWakeup, history
    <2>2. QED
      BY <1>1, <2>1
  <1>4. ASSUME NEW n \in Notifiers, NEW q \in DOMAIN Announces, Ask(n, q) PROVE StoredFirst'
    <2>1. /\ asked' = [asked EXCEPT ![n] = q] /\ hpc' = [hpc EXCEPT ![n] = "store"]
          /\ UNCHANGED <<called, authCode, userId>>
      BY <1>4 DEF Ask, Then, NextStep, vars, history
    <2>2. QED
      BY <1>0, <2>1 DEF StoredFirst
  <1>5. ASSUME NEW n \in Notifiers, Store(n) PROVE StoredFirst'
    <2>1. /\ hpc[n] = "store" /\ hpc' = [hpc EXCEPT ![n] = "notify"] /\ UNCHANGED <<asked, called>>
          /\ authCode' = (authCode \/ asked[n] = "code")
          /\ userId' = (userId \/ asked[n] = "userId")
      BY <1>5 DEF Store, Then, NextStep, vars, history
    <2>2. \A m \in Notifiers : hpc'[m] \in {"store", "notify"} => asked[m] \in DOMAIN Announces
      BY <1>0, <2>1 DEF StoredFirst
    <2>3. (authCode => authCode') /\ (userId => userId')
      BY <1>0, <2>1
    <2>4. /\ asked[n] = "code" => authCode'
          /\ asked[n] = "userId" => userId'
      BY <1>0, <2>1
    <2>5. \A m \in Notifiers \ {n} : hpc'[m] = hpc[m]
      BY <1>0, <2>1
    <2>6. QED
      BY <2>1, <2>2, <2>3, <2>4, <2>5 DEF StoredFirst
  <1>6. ASSUME NEW n \in Notifiers, Announce(n) PROVE StoredFirst'
    <2>1. /\ hpc[n] = "notify" /\ hpc' = [hpc EXCEPT ![n] = "notifying"]
          /\ UNCHANGED <<asked, authCode, userId>>
          /\ called' = [called EXCEPT ![Announces[asked[n]]] = @ + 1]
      BY <1>6 DEF Announce, NotifyCall
    <2>2. \/ Announces[asked[n]] = "auth" /\ authCode
          \/ Announces[asked[n]] = "userId" /\ userId
      BY <2>1, AnnouncedIsHandle
    <2>3. \A m \in Notifiers : hpc'[m] \in {"store", "notify"} => hpc'[m] = hpc[m]
      BY <1>0, <2>1
    <2>4. /\ called'["auth"] > 0 => authCode
          /\ called'["userId"] > 0 => userId
      BY <1>0, <2>1, <2>2 DEF StoredFirst
    <2>5. QED
      BY <2>1, <2>3, <2>4 DEF StoredFirst
  <1>7. ASSUME NEW n \in Notifiers, Announcing(n) PROVE StoredFirst'
    <2>1. /\ UNCHANGED <<asked, authCode, userId, called>>
          /\ hpc' \in {hpc, [hpc EXCEPT ![n] = "respond"]}
      BY <1>7 DEF Announcing, Notify, NotifyFind, NotifyOne, Then, NextStep, history
    <2>2. \A m \in Notifiers : hpc'[m] \in {"store", "notify"} => hpc'[m] = hpc[m]
      BY <1>0, <2>1
    <2>3. QED
      BY <2>1, <2>2 DEF StoredFirst
  <1>8. ASSUME NEW n \in Notifiers, Respond(n) PROVE StoredFirst'
    <2>1. /\ hpc' = [hpc EXCEPT ![n] = "idle"] /\ UNCHANGED <<authCode, userId, called>>
          /\ asked' = [asked EXCEPT ![n] = "nothing"]
      BY <1>8 DEF Respond, vars, history
    <2>2. \A m \in Notifiers : hpc'[m] \in {"store", "notify"} => m # n /\ hpc'[m] = hpc[m] /\ asked'[m] = asked[m]
      BY <1>0, <2>1
    <2>3. QED
      BY <2>1, <2>2 DEF StoredFirst
  <1>9. QED
    BY <1>2, <1>3, <1>4, <1>5, <1>6, <1>7, <1>8 DEF NextExample, Handler

(* The main thread goes on from a wait when it has returned. *)
LEMMA WaitsAreOverStep ==
    ASSUME TypeOK, ExampleType, AtItsWait, StoredFirst, WaitsAreOver, [NextExample]_exampleVars
    PROVE  WaitsAreOver'
  <1>0. \A h \in {"auth", "userId"} : returned[h] > 0 => returned'[h] > 0
    BY ExampleStepIsStep, ReturnedGrows, HandleNames
  <1>1. CASE stage' = stage
    BY <1>0, <1>1 DEF WaitsAreOver
  <1>2. CASE SetUp \/ TokenRequest \/ TokenAnswered
    BY <1>0, <1>2 DEF SetUp, TokenRequest, TokenAnswered, WaitsAreOver
  <1>3. CASE MainReturns
    <2>1. /\ handle[Main] = stage /\ stage \in DOMAIN After /\ stage' = After[stage]
          /\ returned' = [returned EXCEPT ![stage] = @ + 1]
      BY <1>3 DEF MainReturns, Return, AtItsWait
    <2>2. returned'[stage] > 0
      <3>1. stage \in Handles /\ returned[stage] \in Nat
        BY <2>1, HandleNames DEF After, TypeOK
      <3>2. returned'[stage] = returned[stage] + 1
        BY <2>1, <3>1 DEF TypeOK
      <3>3. QED
        BY <3>1, <3>2
    <2>3. \/ stage = "auth" /\ stage' = "token"
          \/ stage = "userId" /\ stage' = "exit"
          \/ stage' = "returned"
      BY <2>1 DEF After
    <2>4. QED
      BY <1>0, <2>2, <2>3 DEF WaitsAreOver
  <1>4. CASE ~(SetUp \/ TokenRequest \/ TokenAnswered \/ MainReturns)
    <2>1. stage' = stage
      BY <1>4 DEF NextExample, MainThread, MainWaits, OtherWaiter, WakesUp, Handler, Store, Announce,
         Announcing, Respond, Ask, mainVars, exampleVars
    <2>2. QED
      BY <1>1, <2>1
  <1>5. QED
    BY <1>2, <1>3, <1>4

LEMMA ExampleStep == ExampleInv /\ [NextExample]_exampleVars => ExampleInv'
  <1> SUFFICES ASSUME ExampleInv, [NextExample]_exampleVars PROVE ExampleInv'
    OBVIOUS
  <1>0. /\ WaitInv /\ TypeOK /\ ExampleType /\ AtItsWait /\ StoredFirst /\ WaitsAreOver
        /\ FALSE \in sent => spurious["auth"] > 0
        /\ [Next]_vars /\ "auth" \in Handles
    BY ExampleStepIsStep, HandleNames DEF ExampleInv, WaitInv
  <1>1. WaitInv' /\ ExampleType' /\ AtItsWait' /\ StoredFirst' /\ WaitsAreOver'
    BY <1>0, WaitStep, ExampleTypeStep, AtItsWaitStep, StoredFirstStep, WaitsAreOverStep
  <1>2. ASSUME FALSE \in sent' PROVE spurious'["auth"] > 0
    <2>1. CASE FALSE \in sent
      BY <1>0, <2>1, SpuriousGrows
    <2>2. CASE TokenRequest
      <3>1. stage = "token" /\ authCode = FALSE /\ UNCHANGED spurious
        BY <1>2, <2>2 DEF TokenRequest, vars, history
      <3>2. returned["auth"] > 0 /\ ~(called["auth"] > 0)
        BY <1>0, <3>1 DEF WaitsAreOver, StoredFirst
      <3>3. QED
        BY <1>0, <3>1, <3>2, ReturnedWasCalled
    <2>3. CASE ~TokenRequest
      <3>1. sent' = sent
        BY <2>3 DEF NextExample, MainThread, SetUp, MainWaits, MainReturns, TokenAnswered, OtherWaiter,
           WakesUp, Handler, Store, Announce, Announcing, Respond, Ask, mainVars, exampleVars
      <3>2. QED
        BY <1>2, <2>1, <3>1
    <2>4. QED
      BY <2>2, <2>3
  <1>3. QED
    BY <1>1, <1>2 DEF ExampleInv

LEMMA InitExampleInv == InitExample => ExampleInv
  <1> SUFFICES ASSUME InitExample PROVE ExampleInv
    OBVIOUS
  <1>1. WaitInv /\ ExampleType
    BY InitWait DEF InitExample, ExampleType
  <1>2. AtItsWait /\ StoredFirst /\ WaitsAreOver /\ sent = {}
    BY HandleNames DEF InitExample, Init, AtItsWait, StoredFirst, WaitsAreOver
  <1>3. QED
    BY <1>1, <1>2 DEF ExampleInv

(* The example uses wait and notify as ModuleWait lets anybody: what is    *)
(* proved of them holds in it.                                             *)
THEOREM ExampleUsesWait == SpecExample => Spec
  <1>1. InitExample => Init
    BY DEF InitExample
  <1>2. ExampleInv /\ [NextExample]_exampleVars => [Next]_vars
    BY ExampleStepIsStep DEF ExampleInv
  <1>3. QED
    BY <1>1, <1>2, InitExampleInv, ExampleStep, PTL DEF SpecExample, Spec

(* What allModulesLoaded waited for is there when it goes on: the token    *)
(* request carries a code that a handler has received, and the user's ID   *)
(* is known, unless a wait came back for no reason.                        *)
THEOREM ExampleGoesOnWithIt == SpecExample => []WaitedForIsThere
  <1>1. ExampleInv => WaitedForIsThere
    <2> SUFFICES ASSUME ExampleInv, stage = "exit", ~userId PROVE spurious["userId"] > 0
      BY DEF ExampleInv, WaitedForIsThere
    <2>1. returned["userId"] > 0 /\ ~(called["userId"] > 0)
      BY DEF ExampleInv, WaitsAreOver, StoredFirst
    <2>2. QED
      BY <2>1, ReturnedWasCalled, HandleNames DEF ExampleInv
  <1>2. QED
    BY <1>1, InitExampleInv, ExampleStep, PTL DEF SpecExample
=============================================================================
