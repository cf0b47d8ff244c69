-------------------------- MODULE ServerLifecycle --------------------------
(***************************************************************************)
(* The life of a server object: the loader registers the module's settings *)
(* callbacks and deploys the settings file, the embedder makes a server,   *)
(* gives it certificates, runs it and finally destroys it; meanwhile io    *)
(* threads run its io_context: the listener and the sessions.              *)
(*                                                                         *)
(* A std::optional, and a JSON member that may be absent or of another     *)
(* type, is a set with at most one element.                                *)
(***************************************************************************)
EXTENDS Integers, FiniteSets

CONSTANTS
    Documents,       \* settings documents that may be deployed
    Stray,           \* what an uninitialised int may hold
    Certificates,    \* certificates: [name, match]; match: its key fits it
    NoCert,
    HardwareThreads, \* std::thread::hardware_concurrency(), 0 if unknown
    Conns,           \* connections of clients
    MaxDeploys,      \* bound on the deployments of settings
    MaxRuns,         \* bound on the calls of run
    MaxUses          \* bound on the calls of useCertificate

ASSUME LifecycleAssumption ==
    /\ {HardwareThreads, MaxDeploys, MaxRuns, MaxUses} \subseteq Nat
    /\ NoCert \notin Certificates
    /\ Stray \subseteq Int
    /\ \A d \in Documents : d.port \subseteq Int

(* What extractSettings can find: no "server" object, or one with some of  *)
(* its members.  An address that make_address does not accept counts as    *)
(* absent: both make it throw.                                             *)
NoServerMember == [server |-> FALSE, address |-> {}, port |-> {}]
AnyAddress == "0.0.0.0"

Threads == 1..HardwareThreads

VARIABLES
    loader,     \* loadModule: "loading", "registered", "ready"
    moduleDoc,  \* ModuleExport::settingsDoc; {} is the null pointer
    deploys,    \* deployments so far
    server,     \* the ServerImpl: "none", "made", "joining", "gone", "crashed"
    doc,        \* ServerImpl::settingsDoc
    runs,       \* calls of run() that have spawned a listener
    endpoint,   \* ServerState::address and port, as given to the listener
    threads,    \* [Threads -> "none", "starting", "running", "ended"]
    listener,   \* "none", "spawned", "listening", "failed"
    chain, key, \* what the ssl::context holds
    using,      \* the certificate useCertificate is installing
    usePc,      \* where it is: "idle", "key"
    ready,      \* the certificate of the last useCertificate that returned 0,
                \* NoCert if it threw half way or was never called
    uses,       \* calls of useCertificate
    conn,       \* [Conns -> "none", "accepted", "established", "closed"]
    ssl         \* [Conns -> the chain and the key its stream was made with]

moduleVars == <<loader, moduleDoc, deploys>>
serverVars == <<server, doc, runs, endpoint>>
certVars == <<chain, key, using, usePc, ready, uses>>
ioVars == <<threads, listener, conn, ssl>>
vars == <<moduleVars, serverVars, certVars, ioVars>>

Init ==
    /\ loader = "loading" /\ moduleDoc = {} /\ deploys = 0
    /\ server = "none" /\ doc = {}
    /\ runs = 0 /\ endpoint = [address |-> AnyAddress, port |-> 0]
    /\ threads = [t \in Threads |-> "none"]
    /\ listener = "none"
    /\ chain = NoCert /\ key = NoCert
    /\ using = NoCert /\ usePc = "idle" /\ ready = NoCert /\ uses = 0
    /\ conn = [c \in Conns |-> "none"]
    /\ ssl = [c \in Conns |-> [chain |-> NoCert, key |-> NoCert]]

-----------------------------------------------------------------------------
(* Loading the module *)

(* The load callback: init, registerSettings, merge of the callbacks. *)
Register ==
    /\ loader = "loading"
    /\ loader' = "registered"
    /\ UNCHANGED <<moduleDoc, deploys, serverVars, certVars, ioVars>>

(* deployFile finds "HTTP_settings" in the file and calls setSettings with *)
(* a copy; the loader does so once, the embedder may do it again.          *)
Deploy(d) ==
    /\ loader # "loading" /\ deploys < MaxDeploys
    /\ server \notin {"joining", "crashed"} /\ usePc = "idle"
    /\ deploys' = deploys + 1
    /\ moduleDoc' = {d}
    /\ loader' = "ready"
    /\ UNCHANGED <<serverVars, certVars, ioVars>>

(* The file is missing, broken or has no "HTTP_settings": setSettings is   *)
(* not called, the embedder is called back all the same.                   *)
DeployNothing ==
    /\ loader = "registered"
    /\ loader' = "ready"
    /\ UNCHANGED <<moduleDoc, deploys, serverVars, certVars, ioVars>>

Loading == Register \/ DeployNothing \/ \E d \in Documents : Deploy(d)

-----------------------------------------------------------------------------
(* The embedder's calls; they come from one thread *)

EmbedderFree == server = "made" /\ usePc = "idle"

(* newServer(map): the map is not looked at; the server keeps the document *)
(* the module has now.  The embedder is called back after the deployment.  *)
NewServer ==
    /\ loader = "ready" /\ server = "none"
    /\ server' = "made"
    /\ doc' = moduleDoc
    /\ UNCHANGED <<moduleVars, runs, endpoint, certVars, ioVars>>

(* What a JSON member and an int that is not initialised can be. *)
IntOr(member) == IF member = {} THEN Stray ELSE member

(* static_cast<unsigned short>(portInt) *)
MaxPort == 65535
Ports == 0..MaxPort
NarrowNot(n) == n
Narrow(n) == n % 65536

(* The document extractSettings reads. *)
SettingsOfModule == moduleDoc
Settings == doc

(* What address and port can be after extractSettings: nothing if          *)
(* make_address throws; the constructor's if it returned early.            *)
Endpoints(d) ==
    IF d.server
    THEN [address : d.address, port : {Narrow(n) : n \in IntOr(d.port)}]
    ELSE [address : {AnyAddress}, port : {Narrow(n) : n \in Stray}]

ThreadsDone == \A t \in Threads : threads[t] \in {"none", "ended"}

(* The process ends, and with it the io threads and their coroutines. *)
Crash ==
    /\ server' = "crashed"
    /\ threads' = [t \in Threads |-> "none"]
    /\ listener' = "none"
    /\ conn' = [c \in Conns |-> IF conn[c] = "none" THEN "none" ELSE "closed"]
    /\ UNCHANGED <<moduleVars, doc, runs, endpoint, certVars, ssl>>

(* run(): settings, a new io_context, the listener's coroutine, threads:   *)
(* hardware_concurrency() of them, whatever thread count was configured.   *)
(* Its return value does not depend on whether the listener will work, so  *)
(* it may be called again: the document is the same one, and an int that   *)
(* is not initialised keeps what it holds.  It changes nothing if          *)
(* make_address throws.                                                    *)
Run ==
    /\ EmbedderFree /\ runs < MaxRuns /\ ThreadsDone
    /\ \E d \in Settings : endpoint' \in Endpoints(d)
    /\ runs > 0 => endpoint' = endpoint
    /\ runs' = runs + 1
    /\ listener' = "spawned"
    /\ threads' = [t \in Threads |-> "starting"]
    /\ UNCHANGED <<moduleVars, server, doc, certVars, conn, ssl>>

(* While threads of an earlier call run its io_context, or are about to,   *)
(* the new one takes its place and it is freed under them.                 *)
RunOverThreads ==
    /\ EmbedderFree /\ runs < MaxRuns /\ ~ThreadsDone
    /\ Crash

(* Without a settings document extractSettings reads through a null        *)
(* pointer.                                                                *)
RunWithoutSettings ==
    /\ EmbedderFree /\ runs < MaxRuns /\ Settings = {}
    /\ Crash

(* So does useCertificate with the null pointer that a loadCertificate     *)
(* whose return value nobody looks at has left.                            *)
UseNull ==
    /\ EmbedderFree /\ uses < MaxUses
    /\ Crash

(* use_certificate_chain: a key that does not fit the new certificate is   *)
(* dropped from the context (OpenSSL).                                     *)
KeyAfterChain(c) == IF key = c THEN key ELSE NoCert
KeyKept(c) == key
KeyWithChain(c) == KeyAfterChain(c)

(* useCertificate, first part: cert, private key and DH parameters could   *)
(* be written as PEM (it returns -1 before any change otherwise, as for a  *)
(* request nobody has signed), and the chain is installed.                 *)
UseChain(c) ==
    /\ EmbedderFree /\ uses < MaxUses
    /\ uses' = uses + 1
    /\ chain' = c /\ key' = KeyWithChain(c)
    /\ using' = c /\ usePc' = "key" /\ ready' = NoCert
    /\ UNCHANGED <<moduleVars, serverVars, ioVars>>

(* use_private_key refuses, by an exception, a key that does not fit the   *)
(* chain; otherwise use_tmp_dh follows, and useCertificate returns 0 if    *)
(* that does not throw.                                                    *)
KeyForgotten(c) == key
KeyInstalled(c) == c
UseKey ==
    /\ usePc = "key"
    /\ IF using.match THEN key' = KeyInstalled(using) /\ ready' \in {using, NoCert}
                      ELSE UNCHANGED <<key, ready>>
    /\ usePc' = "idle"
    /\ UNCHANGED <<moduleVars, serverVars, ioVars, chain, using, uses>>

(* The destructor joins the threads ... *)
Destroy ==
    /\ EmbedderFree
    /\ server' = "joining"
    /\ UNCHANGED <<moduleVars, doc, runs, endpoint, certVars, ioVars>>

(* ... and, when all have ended, destroys the members.                     *)
ThreadsEntered == \A t \in Threads : threads[t] # "starting"
Joined == ThreadsDone

Destroyed ==
    /\ server = "joining" /\ Joined
    /\ server' = "gone"
    /\ UNCHANGED <<moduleVars, doc, runs, endpoint, certVars, ioVars>>

Embedder == \/ NewServer
            \/ Run \/ RunOverThreads \/ RunWithoutSettings
            \/ Destroy \/ Destroyed
            \/ \E c \in Certificates : UseChain(c)
            \/ UseKey \/ UseNull

-----------------------------------------------------------------------------
(* The io threads *)

SomeThread == \E t \in Threads : threads[t] = "running"

(* A coroutine that has not ended is work for the io_context. *)
WorkGuarded == listener # "none"
Work == \/ listener \in {"spawned", "listening"}
        \/ \E c \in Conns : conn[c] \in {"accepted", "established"}

(* runIoContext: the thread enters io_context::run ... *)
Enter(t) ==
    /\ threads[t] = "starting"
    /\ threads' = [threads EXCEPT ![t] = "running"]
    /\ UNCHANGED <<moduleVars, serverVars, certVars, listener, conn, ssl>>

(* ... and returns from it when there is no work left. *)
Leave(t) ==
    /\ threads[t] = "running" /\ ~Work
    /\ threads' = [threads EXCEPT ![t] = "ended"]
    /\ UNCHANGED <<moduleVars, serverVars, certVars, listener, conn, ssl>>

(* Listener::run: open, set_option, bind and listen, or one of them fails. *)
Setup ==
    /\ SomeThread /\ listener = "spawned"
    /\ listener' \in {"listening", "failed"}
    /\ UNCHANGED <<moduleVars, serverVars, certVars, threads, conn, ssl>>

(* The listener accepts; the new stream copies what the context holds.     *)
Accept(c) ==
    /\ SomeThread /\ listener = "listening" /\ conn[c] = "none"
    /\ conn' = [conn EXCEPT ![c] = "accepted"]
    /\ ssl' = [ssl EXCEPT ![c] = [chain |-> chain, key |-> key]]
    /\ UNCHANGED <<moduleVars, serverVars, certVars, threads, listener>>

(* The TLS handshake: a server without a certificate and its key fails it. *)
CanHandshake(s) == s.chain # NoCert /\ s.key # NoCert

Handshake(c) ==
    /\ SomeThread /\ conn[c] = "accepted"
    /\ \/ CanHandshake(ssl[c]) /\ conn' = [conn EXCEPT ![c] = "established"]
       \/ conn' = [conn EXCEPT ![c] = "closed"]
    /\ UNCHANGED <<moduleVars, serverVars, certVars, threads, listener, ssl>>

(* A session ends (HttpSessions). *)
Close(c) ==
    /\ SomeThread /\ conn[c] = "established"
    /\ conn' = [conn EXCEPT ![c] = "closed"]
    /\ UNCHANGED <<moduleVars, serverVars, certVars, threads, listener, ssl>>

Session(c) == Accept(c) \/ Handshake(c) \/ Close(c)

Io == \/ \E t \in Threads : Enter(t) \/ Leave(t)
      \/ Setup
      \/ \E c \in Conns : Session(c)

Next == Loading \/ Embedder \/ Io

Spec == Init /\ [][Next]_vars

(* The system schedules the threads and completes what they wait for;      *)
(* timeouts end every session (HttpSessions).  useCertificate returns, and *)
(* a destructor goes on when its joins do.  No one has to connect.         *)
Fairness ==
    /\ \A t \in Threads : WF_vars(Enter(t) \/ Leave(t))
    /\ WF_vars(Setup)
    /\ \A c \in Conns : WF_vars(Handshake(c)) /\ WF_vars(Close(c))
    /\ WF_vars(UseKey) /\ WF_vars(Destroyed)
FairSpec == Spec /\ Fairness

-----------------------------------------------------------------------------
(* Properties *)

Certs == Certificates \cup {NoCert}

(* Every variable has its type. *)
TypeOK ==
    /\ loader \in {"loading", "registered", "ready"}
    /\ moduleDoc \subseteq Documents /\ Cardinality(moduleDoc) <= 1
    /\ deploys \in 0..MaxDeploys
    /\ server \in {"none", "made", "joining", "gone", "crashed"}
    /\ doc \subseteq Documents /\ Cardinality(doc) <= 1
    /\ runs \in 0..MaxRuns
    /\ endpoint.port \in Ports
    /\ threads \in [Threads -> {"none", "starting", "running", "ended"}]
    /\ listener \in {"none", "spawned", "listening", "failed"}
    /\ {chain, key, using, ready} \subseteq Certs
    /\ usePc \in {"idle", "key"} /\ uses \in 0..MaxUses
    /\ conn \in [Conns -> {"none", "accepted", "established", "closed"}]
    /\ ssl \in [Conns -> [chain : Certs, key : Certs]]

(* A server whose settings name an address and a port in range listens     *)
(* there, even if other settings are deployed between newServer and run    *)
(* (ModuleExport::newServer hands over its document, extractSettings reads *)
(* it).                                                                    *)
ListensAsConfigured ==
    listener = "listening" =>
        \A d \in doc : d.server /\ d.port # {} /\ d.port \subseteq Ports =>
            endpoint.address \in d.address /\ endpoint.port \in d.port

(* However useCertificate and the listener interleave, and when it fails   *)
(* half way: a session is only established with a certificate and the      *)
(* private key that belongs to it.                                         *)
EstablishedHasPair ==
    \A c \in Conns : conn[c] = "established" =>
        ssl[c].chain = ssl[c].key /\ ssl[c].chain \in Certificates

(* Once useCertificate has returned 0, streams are made with that          *)
(* certificate and its key until the next call.                            *)
ReadyMeansInstalled == ready # NoCert => chain = ready /\ key = ready

(* ~ServerImpl joins threads that nothing stops, so it returns only if no  *)
(* run has brought up a listener: what is destroyed has never taken a      *)
(* connection, and no coroutine waits that would go on in what is gone.    *)
(* (Without a thread to join, the listener's coroutine has never started.) *)
DestroyedNeverListened ==
    server = "gone" =>
        /\ listener \in {"none", "failed"} \/ (listener = "spawned" /\ Threads = {})
        /\ \A c \in Conns : conn[c] = "none"

(* The destructor returns if the listener could not be set up: the threads *)
(* run out of work.                                                        *)
FailedServerIsDestroyed ==
    (server = "joining" /\ listener = "failed") ~> (server = "gone")

(* "Application Shutting Done" and return (the oauth2-google example): the *)
(* server that goes out of scope is destroyed.                             *)
DestructorReturns == server = "joining" ~> server = "gone"
=============================================================================
