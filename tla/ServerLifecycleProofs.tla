----------------------- MODULE ServerLifecycleProofs -----------------------
(***************************************************************************)
(* Theorems about ServerLifecycle, for any number of threads, connections  *)
(* and certificates and every bound.                                       *)
(***************************************************************************)
EXTENDS ServerLifecycle, FiniteSetTheorems, TLAPS

(***************************************************************************)
(* Certificates.  EstablishedHasPair is about what a stream copied when it *)
(* was made, so the invariant says of the context what it says of a        *)
(* stream: a key, if there is one, is the key of the chain.  Between the   *)
(* two steps of useCertificate the context holds the chain that the key to *)
(* come belongs to.                                                        *)
(***************************************************************************)
CertType ==
    /\ chain \in Certs /\ key \in Certs /\ using \in Certs
    /\ ssl \in [Conns -> [chain : Certs, key : Certs]]
    /\ conn \in [Conns -> {"none", "accepted", "established", "closed"}]

ContextFits == key # NoCert => key = chain
Installing == usePc = "key" => chain = using /\ ready = NoCert /\ using \in Certificates
StreamsFit == \A c \in Conns : ssl[c].key # NoCert => ssl[c].key = ssl[c].chain
EstablishedHasBoth ==
    \A c \in Conns : conn[c] = "established" => ssl[c].chain # NoCert /\ ssl[c].key # NoCert

PairInv == /\ CertType /\ ContextFits /\ Installing /\ StreamsFit
           /\ EstablishedHasBoth /\ ReadyMeansInstalled

LEMMA PairInvInit == Init => PairInv
  BY DEF Init, PairInv, CertType, ContextFits, Installing, StreamsFit,
         EstablishedHasBoth, ReadyMeansInstalled, Certs

LEMMA PairInvNext == PairInv /\ [Next]_vars => PairInv'
<1> SUFFICES ASSUME PairInv, [Next]_vars PROVE PairInv'
  OBVIOUS
<1> USE DEF PairInv
<1>1. CASE UNCHANGED <<certVars, conn, ssl>>
  BY <1>1 DEF certVars, CertType, ContextFits, Installing, StreamsFit,
              EstablishedHasBoth, ReadyMeansInstalled
<1>2. ASSUME NEW c \in Certificates, UseChain(c) PROVE PairInv'
  BY <1>2, LifecycleAssumption
     DEF UseChain, KeyWithChain, KeyAfterChain, ioVars, Certs, CertType, ContextFits,
         Installing, StreamsFit, EstablishedHasBoth, ReadyMeansInstalled
<1>3. CASE UseKey
  <2>1. chain = using /\ ready = NoCert /\ using \in Certificates
    BY <1>3 DEF UseKey, Installing
  <2> QED
    BY <1>3, <2>1
       DEF UseKey, KeyInstalled, ioVars, Certs, CertType, ContextFits, Installing,
           StreamsFit, EstablishedHasBoth, ReadyMeansInstalled
<1>4. ASSUME NEW c \in Conns, Accept(c) PROVE PairInv'
  <2>1. ssl' = [ssl EXCEPT ![c] = [chain |-> chain, key |-> key]]
        /\ conn' = [conn EXCEPT ![c] = "accepted"] /\ UNCHANGED certVars
    BY <1>4 DEF Accept
  <2>2. CertType'
    BY <2>1 DEF CertType, certVars
  <2>3. StreamsFit'
    BY <2>1 DEF CertType, StreamsFit, ContextFits
  <2>4. EstablishedHasBoth'
    BY <2>1 DEF CertType, EstablishedHasBoth
  <2> QED
    BY <2>1, <2>2, <2>3, <2>4 DEF certVars, ContextFits, Installing, ReadyMeansInstalled
<1>5. ASSUME NEW c \in Conns, Handshake(c) \/ Close(c) PROVE PairInv'
  <2>1. UNCHANGED <<certVars, ssl>>
    BY <1>5 DEF Handshake, Close
  <2>2. conn' \in [Conns -> {"none", "accepted", "established", "closed"}]
    BY <1>5 DEF Handshake, Close, CertType
  <2>3. EstablishedHasBoth'
    BY <1>5, <2>1 DEF Handshake, Close, CanHandshake, CertType, EstablishedHasBoth
  <2> QED
    BY <2>1, <2>2, <2>3
       DEF certVars, CertType, ContextFits, Installing, StreamsFit, ReadyMeansInstalled
<1>6. CASE Loading
  BY <1>1, <1>6 DEF Loading, Register, DeployNothing, Deploy, ioVars
<1>7. CASE NewServer \/ Run \/ Destroy \/ Destroyed
  BY <1>1, <1>7 DEF NewServer, Run, Destroy, Destroyed, ioVars
<1>8. CASE Setup \/ \E t \in Threads : Enter(t) \/ Leave(t)
  BY <1>1, <1>8 DEF Setup, Enter, Leave
<1>9. CASE RunOverThreads \/ RunWithoutSettings \/ UseNull
  <2>1. Crash
    BY <1>9 DEF RunOverThreads, RunWithoutSettings, UseNull
  <2>2. UNCHANGED <<certVars, ssl>>
        /\ conn' = [c \in Conns |-> IF conn[c] = "none" THEN "none" ELSE "closed"]
    BY <2>1 DEF Crash
  <2> QED
    BY <2>2 DEF certVars, CertType, ContextFits, Installing, StreamsFit,
                EstablishedHasBoth, ReadyMeansInstalled
<1>10. CASE UNCHANGED vars
  BY <1>1, <1>10 DEF vars, ioVars
<1> QED
  BY <1>2, <1>3, <1>4, <1>5, <1>6, <1>7, <1>8, <1>9, <1>10
     DEF Next, Embedder, Io, Session

(* Every session that is established has a certificate and the key that    *)
(* belongs to it, however useCertificate and the listener interleave.      *)
THEOREM SessionsHavePairs == Spec => []EstablishedHasPair
<1>1. PairInv => EstablishedHasPair
  BY DEF PairInv, CertType, StreamsFit, EstablishedHasBoth, EstablishedHasPair, Certs
<1> QED
  BY <1>1, PairInvInit, PairInvNext, PTL DEF Spec

(* Once useCertificate has returned 0, the context holds that certificate  *)
(* and its key until the next call.                                        *)
THEOREM ReadyIsInstalled == Spec => []ReadyMeansInstalled
<1>1. PairInv => ReadyMeansInstalled
  BY DEF PairInv
<1> QED
  BY <1>1, PairInvInit, PairInvNext, PTL DEF Spec

(***************************************************************************)
(* The destructor.  A thread leaves when there is no work; run() starts    *)
(* all threads, and only when those of an earlier run have all ended.  So  *)
(* a listener that has come up keeps its threads, and until one comes up   *)
(* there is no connection.                                                 *)
(***************************************************************************)
IoType ==
    /\ threads \in [Threads -> {"none", "starting", "running", "ended"}]
    /\ conn \in [Conns -> {"none", "accepted", "established", "closed"}]
    /\ listener \in {"none", "spawned", "listening", "failed"}
    /\ runs \in Nat

NotYetRun == runs = 0 => listener = "none" /\ \A t \in Threads : threads[t] = "none"
RunStartsAll == runs > 0 /\ server # "crashed" => \A t \in Threads : threads[t] # "none"
EndedMeansNoWork == (\E t \in Threads : threads[t] = "ended") => ~Work
ListenerHasThread == listener \in {"listening", "failed"} => Threads # {}
OnlyListenersAccept ==
    server # "crashed" /\ listener # "listening" => \A c \in Conns : conn[c] = "none"
GoneIsDone == server = "gone" => ThreadsDone

JoinInv == /\ IoType /\ NotYetRun /\ RunStartsAll /\ EndedMeansNoWork
           /\ ListenerHasThread /\ OnlyListenersAccept /\ GoneIsDone
           /\ DestroyedNeverListened

LEMMA JoinInvInit == Init => JoinInv
  BY DEF Init, JoinInv, IoType, NotYetRun, RunStartsAll, EndedMeansNoWork,
         ListenerHasThread, OnlyListenersAccept, GoneIsDone, DestroyedNeverListened

(* Where all threads are done, the listener is not listening: it would     *)
(* have kept them.                                                         *)
LEMMA DoneIsQuiet ==
  ASSUME JoinInv, ThreadsDone, server # "crashed"
  PROVE  /\ listener \in {"none", "failed"} \/ (listener = "spawned" /\ Threads = {})
         /\ \A c \in Conns : conn[c] = "none"
<1>1. CASE Threads = {}
  BY <1>1 DEF JoinInv, IoType, ListenerHasThread, OnlyListenersAccept
<1>2. CASE Threads # {} /\ runs = 0
  BY <1>2 DEF JoinInv, NotYetRun, OnlyListenersAccept
<1>3. CASE Threads # {} /\ runs # 0
  <2>1. runs > 0
    BY <1>3 DEF JoinInv, IoType
  <2>2. \E t \in Threads : threads[t] = "ended"
    BY <1>3, <2>1 DEF JoinInv, RunStartsAll, ThreadsDone
  <2>3. listener \notin {"spawned", "listening"}
    BY <2>2 DEF JoinInv, EndedMeansNoWork, Work
  <2> QED
    BY <2>3 DEF JoinInv, IoType, OnlyListenersAccept
<1> QED
  BY <1>1, <1>2, <1>3

LEMMA JoinInvNext == JoinInv /\ [Next]_vars => JoinInv'
<1> SUFFICES ASSUME JoinInv, [Next]_vars PROVE JoinInv'
  OBVIOUS
<1> USE DEF JoinInv
<1>1. ASSUME UNCHANGED <<runs, threads, listener, conn>>,
             (server' \notin {"gone", "crashed"} /\ server # "crashed") \/ UNCHANGED server
      PROVE  JoinInv'
  BY <1>1 DEF IoType, NotYetRun, RunStartsAll, EndedMeansNoWork, Work, ListenerHasThread,
              OnlyListenersAccept, GoneIsDone, DestroyedNeverListened, ThreadsDone
<1>2. CASE Run
  <2>1. /\ ThreadsDone /\ UNCHANGED <<server, conn>> /\ server = "made"
        /\ runs' = runs + 1 /\ listener' = "spawned"
        /\ threads' = [t \in Threads |-> "starting"]
    BY <1>2 DEF Run, EmbedderFree
  <2>2. \A c \in Conns : conn[c] = "none"
    BY <2>1, DoneIsQuiet
  <2> QED
    BY <2>1, <2>2
       DEF IoType, NotYetRun, RunStartsAll, EndedMeansNoWork, ListenerHasThread,
           OnlyListenersAccept, GoneIsDone, DestroyedNeverListened
<1>3. CASE Destroyed
  <2>1. /\ UNCHANGED <<runs, threads, listener, conn>> /\ ThreadsDone
        /\ server = "joining" /\ server' = "gone"
    BY <1>3 DEF Destroyed, Joined, ioVars
  <2>2. /\ listener \in {"none", "failed"} \/ (listener = "spawned" /\ Threads = {})
        /\ \A c \in Conns : conn[c] = "none"
    BY <2>1, DoneIsQuiet
  <2> QED
    BY <2>1, <2>2
       DEF IoType, NotYetRun, RunStartsAll, EndedMeansNoWork, Work, ListenerHasThread,
           OnlyListenersAccept, GoneIsDone, DestroyedNeverListened, ThreadsDone
<1>4. ASSUME NEW t \in Threads, Enter(t) \/ Leave(t) PROVE JoinInv'
  <2>1. /\ UNCHANGED <<server, runs, listener, conn>>
        /\ threads[t] \in {"starting", "running"}
        /\ \/ threads' = [threads EXCEPT ![t] = "running"]
           \/ threads' = [threads EXCEPT ![t] = "ended"] /\ ~Work
    BY <1>4 DEF Enter, Leave, serverVars
  <2>2. server # "gone" /\ runs > 0
    BY <2>1 DEF GoneIsDone, ThreadsDone, NotYetRun, IoType
  <2> QED
    BY <2>1, <2>2
       DEF IoType, NotYetRun, RunStartsAll, EndedMeansNoWork, Work, ListenerHasThread,
           OnlyListenersAccept, GoneIsDone, DestroyedNeverListened
<1>5. CASE Setup
  <2>1. /\ SomeThread /\ listener = "spawned" /\ listener' \in {"listening", "failed"}
        /\ UNCHANGED <<server, runs, threads, conn>>
    BY <1>5 DEF Setup, serverVars
  <2>2. server # "gone" /\ Threads # {} /\ runs # 0
    BY <2>1 DEF SomeThread, GoneIsDone, ThreadsDone, NotYetRun
  <2>3. ~\E t \in Threads : threads[t] = "ended"
    BY <2>1 DEF EndedMeansNoWork, Work
  <2> QED
    BY <2>1, <2>2, <2>3
       DEF IoType, NotYetRun, RunStartsAll, EndedMeansNoWork, ListenerHasThread,
           OnlyListenersAccept, GoneIsDone, DestroyedNeverListened
<1>6. ASSUME NEW c \in Conns, Session(c) PROVE JoinInv'
  <2>1. SomeThread /\ UNCHANGED <<server, runs, threads, listener>>
    BY <1>6 DEF Session, Accept, Handshake, Close, serverVars
  <2>2. server # "gone"
    BY <2>1 DEF SomeThread, GoneIsDone, ThreadsDone
  <2>3. /\ conn' \in [Conns -> {"none", "accepted", "established", "closed"}]
        /\ conn[c] # "none" \/ listener = "listening"
        /\ Work
    BY <1>6 DEF Session, Accept, Handshake, Close, IoType, Work
  <2>4. OnlyListenersAccept'
    BY <2>1, <2>3 DEF OnlyListenersAccept
  <2> QED
    BY <2>1, <2>2, <2>3, <2>4
       DEF IoType, NotYetRun, RunStartsAll, EndedMeansNoWork, ListenerHasThread,
           GoneIsDone, DestroyedNeverListened
<1>7. CASE Loading
  BY <1>1, <1>7 DEF Loading, Register, DeployNothing, Deploy, serverVars, ioVars
<1>8. CASE NewServer \/ Destroy
  BY <1>1, <1>8 DEF NewServer, Destroy, EmbedderFree, ioVars
<1>9. CASE UseKey \/ \E c \in Certificates : UseChain(c)
  BY <1>1, <1>9 DEF UseKey, UseChain, serverVars, ioVars
<1>10. CASE RunOverThreads \/ RunWithoutSettings \/ UseNull
  <2>1. Crash
    BY <1>10 DEF RunOverThreads, RunWithoutSettings, UseNull
  <2> QED
    BY <2>1 DEF Crash, IoType, NotYetRun, RunStartsAll, EndedMeansNoWork, ListenerHasThread,
                OnlyListenersAccept, GoneIsDone, DestroyedNeverListened
<1>11. CASE UNCHANGED vars
  BY <1>1, <1>11 DEF vars, serverVars, ioVars
<1> QED
  BY <1>2, <1>3, <1>4, <1>5, <1>6, <1>7, <1>8, <1>9, <1>10, <1>11
     DEF Next, Embedder, Io

(* The destructor returns only if no listener has come up: what it         *)
(* destroys has never taken a connection, and no coroutine of it waits.    *)
THEOREM OnlyQuietServersGo == Spec => []DestroyedNeverListened
<1>1. JoinInv => DestroyedNeverListened
  BY DEF JoinInv
<1> QED
  BY <1>1, JoinInvInit, JoinInvNext, PTL DEF Spec

(***************************************************************************)
(* Types.                                                                  *)
(***************************************************************************)

(* What extractSettings leaves in ServerState is a port number. *)
LEMMA EndpointPort == \A d \in Documents : \A e \in Endpoints(d) : e.port \in Ports
<1> SUFFICES ASSUME NEW d \in Documents, NEW e \in Endpoints(d) PROVE e.port \in Ports
  OBVIOUS
<1>1. \A n \in Int : Narrow(n) \in Ports
  BY DEF Narrow, Ports, MaxPort
<1>2. IntOr(d.port) \subseteq Int
  BY LifecycleAssumption DEF IntOr
<1>3. e.port \in {Narrow(n) : n \in IntOr(d.port)} \cup {Narrow(n) : n \in Stray}
  BY DEF Endpoints
<1> QED
  BY <1>1, <1>2, <1>3, LifecycleAssumption

LEMMA AtMostOne ==
  /\ Cardinality({}) <= 1
  /\ \A d : Cardinality({d}) <= 1
BY FS_EmptySet, FS_Singleton

(* The types of the module's variables, the server's, the context's and    *)
(* those of the io_context; few actions touch more than one group.         *)
ModuleTyped ==
    /\ loader \in {"loading", "registered", "ready"}
    /\ moduleDoc \subseteq Documents /\ Cardinality(moduleDoc) <= 1
    /\ deploys \in 0..MaxDeploys
ServerTyped ==
    /\ server \in {"none", "made", "joining", "gone", "crashed"}
    /\ doc \subseteq Documents /\ Cardinality(doc) <= 1
    /\ runs \in 0..MaxRuns
    /\ endpoint.port \in Ports
ContextTyped ==
    /\ {chain, key, using, ready} \subseteq Certs
    /\ usePc \in {"idle", "key"} /\ uses \in 0..MaxUses
IoTyped ==
    /\ threads \in [Threads -> {"none", "starting", "running", "ended"}]
    /\ listener \in {"none", "spawned", "listening", "failed"}
    /\ conn \in [Conns -> {"none", "accepted", "established", "closed"}]
    /\ ssl \in [Conns -> [chain : Certs, key : Certs]]

LEMMA TypeParts == TypeOK <=> ModuleTyped /\ ServerTyped /\ ContextTyped /\ IoTyped
  BY DEF TypeOK, ModuleTyped, ServerTyped, ContextTyped, IoTyped

LEMMA LifecycleTypeInit == Init => TypeOK
<1> SUFFICES ASSUME Init PROVE ModuleTyped /\ ServerTyped /\ ContextTyped /\ IoTyped
  BY TypeParts
<1>1. ModuleTyped
  BY AtMostOne, LifecycleAssumption DEF Init, ModuleTyped
<1>2. ServerTyped
  <2>1. 0 \in Ports
    BY DEF Ports, MaxPort
  <2> QED
    BY <2>1, AtMostOne, LifecycleAssumption DEF Init, ServerTyped
<1>3. ContextTyped
  BY LifecycleAssumption DEF Init, ContextTyped, Certs
<1>4. IoTyped
  BY DEF Init, IoTyped, Certs
<1> QED
  BY <1>1, <1>2, <1>3, <1>4

LEMMA LoadingTypes == TypeOK /\ Loading => TypeOK'
<1> SUFFICES ASSUME ModuleTyped, ServerTyped, ContextTyped, IoTyped, Loading PROVE TypeOK'
  BY TypeParts
<1>1. ServerTyped' /\ ContextTyped' /\ IoTyped'
  <2>1. UNCHANGED <<serverVars, certVars, ioVars>>
    BY DEF Loading, Register, DeployNothing, Deploy
  <2> QED
    BY <2>1 DEF serverVars, certVars, ioVars, ServerTyped, ContextTyped, IoTyped
<1>2. ModuleTyped'
  <2>1. CASE Register \/ DeployNothing
    BY <2>1 DEF Register, DeployNothing, ModuleTyped
  <2>2. ASSUME NEW d \in Documents, Deploy(d) PROVE ModuleTyped'
    <3>1. moduleDoc' = {d} /\ loader' = "ready" /\ deploys' = deploys + 1 /\ deploys < MaxDeploys
      BY <2>2 DEF Deploy
    <3>2. Cardinality(moduleDoc') <= 1
      BY <3>1, AtMostOne
    <3> QED
      BY <3>1, <3>2, LifecycleAssumption DEF ModuleTyped
  <2> QED
    BY <2>1, <2>2 DEF Loading
<1> QED
  BY <1>1, <1>2 DEF TypeOK, ModuleTyped, ServerTyped, ContextTyped, IoTyped

LEMMA ServerTypes ==
  TypeOK /\ (NewServer \/ Run \/ Destroy \/ Destroyed \/ Crash) => TypeOK'
<1> SUFFICES ASSUME ModuleTyped, ServerTyped, ContextTyped, IoTyped,
                    NewServer \/ Run \/ Destroy \/ Destroyed \/ Crash
             PROVE  TypeOK'
  BY TypeParts
<1>1. ModuleTyped' /\ ContextTyped'
  <2>1. UNCHANGED <<moduleVars, certVars>>
    BY DEF NewServer, Run, Destroy, Destroyed, Crash
  <2> QED
    BY <2>1 DEF moduleVars, certVars, ModuleTyped, ContextTyped
<1>2. ServerTyped' /\ IoTyped'
  <2>1. CASE NewServer \/ Destroy \/ Destroyed
    BY <2>1 DEF NewServer, Destroy, Destroyed, ioVars, ModuleTyped, ServerTyped, IoTyped
  <2>2. CASE Run
    <3>1. endpoint'.port \in Ports
      <4>1. \E d \in doc : endpoint' \in Endpoints(d)
        BY <2>2 DEF Run, Settings
      <4> QED
        BY <4>1, EndpointPort DEF ServerTyped
    <3>2. UNCHANGED <<server, doc>>
      BY <2>2 DEF Run
    <3>3. runs' \in 0..MaxRuns
      BY <2>2, LifecycleAssumption DEF Run, ServerTyped
    <3>4. ServerTyped'
      BY <3>1, <3>2, <3>3 DEF ServerTyped
    <3>5. IoTyped'
      BY <2>2 DEF Run, IoTyped
    <3> QED
      BY <3>4, <3>5
  <2>3. CASE Crash
    BY <2>3 DEF Crash, ServerTyped, IoTyped
  <2> QED
    BY <2>1, <2>2, <2>3
<1> QED
  BY <1>1, <1>2 DEF TypeOK, ModuleTyped, ServerTyped, ContextTyped, IoTyped

LEMMA ContextTypes ==
  TypeOK /\ (UseKey \/ \E c \in Certificates : UseChain(c)) => TypeOK'
<1> SUFFICES ASSUME ModuleTyped, ServerTyped, ContextTyped, IoTyped,
                    UseKey \/ \E c \in Certificates : UseChain(c)
             PROVE  TypeOK'
  BY TypeParts
<1>1. ModuleTyped' /\ ServerTyped' /\ IoTyped'
  <2>1. UNCHANGED <<moduleVars, serverVars, ioVars>>
    BY DEF UseKey, UseChain
  <2> QED
    BY <2>1 DEF moduleVars, serverVars, ioVars, ModuleTyped, ServerTyped, IoTyped
<1>2. ContextTyped'
  <2>1. CASE UseKey
    BY <2>1 DEF UseKey, KeyInstalled, ContextTyped, Certs
  <2>2. ASSUME NEW c \in Certificates, UseChain(c) PROVE ContextTyped'
    BY <2>2, LifecycleAssumption DEF UseChain, KeyWithChain, KeyAfterChain, ContextTyped, Certs
  <2> QED
    BY <2>1, <2>2
<1> QED
  BY <1>1, <1>2 DEF TypeOK, ModuleTyped, ServerTyped, ContextTyped, IoTyped

LEMMA IoTypes == TypeOK /\ Io => TypeOK'
<1> SUFFICES ASSUME ModuleTyped, ServerTyped, ContextTyped, IoTyped, Io PROVE TypeOK'
  BY TypeParts
<1>1. ModuleTyped' /\ ServerTyped' /\ ContextTyped'
  <2>1. UNCHANGED <<moduleVars, serverVars, certVars>>
    BY DEF Io, Enter, Leave, Setup, Session, Accept, Handshake, Close
  <2> QED
    BY <2>1 DEF moduleVars, serverVars, certVars, ModuleTyped, ServerTyped, ContextTyped
<1>2. IoTyped'
  <2>1. CASE Setup \/ \E t \in Threads : Enter(t) \/ Leave(t)
    BY <2>1 DEF Setup, Enter, Leave, IoTyped
  <2>2. ASSUME NEW c \in Conns, Accept(c) PROVE IoTyped'
    BY <2>2 DEF Accept, IoTyped, ContextTyped
  <2>3. ASSUME NEW c \in Conns, Handshake(c) \/ Close(c) PROVE IoTyped'
    BY <2>3 DEF Handshake, Close, IoTyped
  <2> QED
    BY <2>1, <2>2, <2>3 DEF Io, Session
<1> QED
  BY <1>1, <1>2 DEF TypeOK, ModuleTyped, ServerTyped, ContextTyped, IoTyped

LEMMA LifecycleTypeNext == TypeOK /\ [Next]_vars => TypeOK'
<1>1. ASSUME TypeOK, UNCHANGED vars PROVE TypeOK'
  BY <1>1 DEF vars, moduleVars, serverVars, certVars, ioVars, TypeOK
<1> QED
  BY <1>1, LoadingTypes, ServerTypes, ContextTypes, IoTypes
     DEF Next, Embedder, RunOverThreads, RunWithoutSettings, UseNull

(* Every variable keeps its type, whatever is deployed; the port, too,     *)
(* whatever number the settings name.                                      *)
THEOREM LifecycleTypes == Spec => []TypeOK
BY LifecycleTypeInit, LifecycleTypeNext, PTL DEF Spec

(***************************************************************************)
(* Settings.  The server keeps the document it was made with, and what     *)
(* run() has taken from it fits it; a listener exists only after run().    *)
(***************************************************************************)
OneDocument(D) == \A d, e \in D : d = e

SettingsInv ==
    /\ OneDocument(moduleDoc) /\ OneDocument(doc) /\ runs \in Nat
    /\ server = "none" => runs = 0
    /\ listener # "none" => runs > 0
    /\ runs > 0 => \A d \in doc : endpoint \in Endpoints(d)

LEMMA SettingsInvInit == Init => SettingsInv
  BY DEF Init, SettingsInv, OneDocument

LEMMA SettingsInvNext == SettingsInv /\ [Next]_vars => SettingsInv'
<1> SUFFICES ASSUME SettingsInv, [Next]_vars PROVE SettingsInv'
  OBVIOUS
<1> USE DEF SettingsInv, OneDocument
<1>1. ASSUME UNCHANGED <<moduleDoc, doc, runs, endpoint>>,
             server' # "none" \/ UNCHANGED server,
             listener # "none" \/ listener' = "none"
      PROVE  SettingsInv'
  BY <1>1 DEF Endpoints
<1>2. CASE Loading
  BY <1>2 DEF Loading, Register, DeployNothing, Deploy, serverVars, ioVars, Endpoints
<1>3. CASE NewServer
  BY <1>3 DEF NewServer, moduleVars, ioVars
<1>4. CASE Run
  <2>1. PICK d \in doc : endpoint' \in Endpoints(d)
    BY <1>4 DEF Run, Settings
  <2>2. /\ UNCHANGED <<moduleDoc, doc, server>> /\ server = "made"
        /\ runs' = runs + 1 /\ runs' > 0
    BY <1>4 DEF Run, EmbedderFree, moduleVars
  <2>3. \A e \in doc : endpoint' \in Endpoints(e)
    BY <2>1
  <2>4. (\A e \in doc : endpoint \in Endpoints(e))'
    BY <2>2, <2>3 DEF Endpoints
  <2> QED
    BY <2>2, <2>4
<1>5. CASE RunOverThreads \/ RunWithoutSettings \/ UseNull
  BY <1>1, <1>5 DEF RunOverThreads, RunWithoutSettings, UseNull, Crash, moduleVars
<1>6. CASE Destroy \/ Destroyed \/ UseKey \/ \E c \in Certificates : UseChain(c)
  BY <1>1, <1>6 DEF Destroy, Destroyed, UseKey, UseChain, moduleVars, serverVars, ioVars
<1>7. CASE Io
  BY <1>1, <1>7 DEF Io, Enter, Leave, Setup, Session, Accept, Handshake, Close, moduleVars, serverVars
<1>8. CASE UNCHANGED vars
  BY <1>1, <1>8 DEF vars, moduleVars, serverVars, ioVars
<1> QED
  BY <1>2, <1>3, <1>4, <1>5, <1>6, <1>7, <1>8 DEF Next, Embedder

(* A listener that listens does so at the address and the port of the      *)
(* document the server was made with, whatever was deployed since, and     *)
(* however often run() was called.                                         *)
THEOREM ListenerIsConfigured == Spec => []ListensAsConfigured
<1>1. SettingsInv => ListensAsConfigured
  <2> SUFFICES ASSUME SettingsInv, listener = "listening", NEW d \in doc,
                      d.server, d.port # {}, d.port \subseteq Ports
               PROVE  endpoint.address \in d.address /\ endpoint.port \in d.port
    BY DEF ListensAsConfigured
  <2>1. endpoint \in [address : d.address, port : {Narrow(n) : n \in d.port}]
    BY DEF SettingsInv, Endpoints, IntOr
  <2>2. \A n \in Ports : Narrow(n) = n
    <3>1. MaxPort \in Int
      BY DEF MaxPort
    <3>2. \A n \in Ports : n \in Int /\ 0 <= n /\ n <= MaxPort
      BY <3>1 DEF Ports
    <3> QED
      BY <3>2 DEF Narrow, MaxPort
  <2> QED
    BY <2>1, <2>2
<1> QED
  BY <1>1, SettingsInvInit, SettingsInvNext, PTL DEF Spec
=============================================================================
