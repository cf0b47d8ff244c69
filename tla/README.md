# Specifications of the BookFiler HTTP module

TLA+ models of `src/src` and `src/include` (the BookFiler HTTP module: an HTTPS
server with routes, an HTTPS client, URLs, cookies, certificates, templates),
their TLC configurations, and TLAPS proofs. Paths below are relative to the
repository; `core/X` stands for `src/core/X`.

## 1. The system

| Part | State | Operations | Talks to |
| --- | --- | --- | --- |
| Module (`src/Module.cpp`) | settings and accounts documents, a map of condition variables | `registerSettings`, `setSettings`, `new*`, `wait`, `notify` | settings manager (callbacks), everything it makes |
| Server (`core/Server.cpp`) | `ServerState` (address, port, threads, `connectionList`), TLS context, `io_context`, io threads | `useCertificate`, `route`, `run`, destructor | Listener (spawned coroutine), route table (shared) |
| Listener (`core/ServerListener.cpp`) | acceptor | `run` | `connectionList` under `globalMutex`; spawns sessions |
| Connection (`core/ServerConnection.cpp`) | TLS stream, buffer | `run`, `badRequest`, `notFound` | route table, client |
| Route table (`core/ServerRoute.cpp`, `ServerUtil.hpp`) | three maps from a path to a shared Boost.Signals2 signal | `getAdd`, `postAdd`, `allAdd`, `doGetSignal` | handlers of the embedder |
| Request, Response (`core/Request.cpp`, `Response.cpp`) | path, query; body and ended flag | `parseRequest`, `end`, `writableEnded` | handlers, `RouteCombiner` |
| Client (`core/Client.cpp`) | URL, beast request and response, results | setters, `end`, `getResponse*` | remote servers |
| Url, Query (`core/Url.cpp`, `UrlQuery.cpp`, `Util.cpp`) | a `boost::url` and a second copy of the query, a decoded map | setters, getters, encode, decode | Client, Request |
| Cookies (`core/RequestCookie.cpp`) | fields of one cookie | construction from a map, `toString` | - |
| Certificates (`core/certificateManager.cpp`, `certificate.cpp`) | OpenSSL objects | create, request, sign, save, load | Server |
| Template, Json, loaders, native stores, SSH | thin wrappers, or not built | | |

What is hard here:

* **Concurrency.** `ServerImpl::run` starts `hardware_concurrency()` io threads
  that run all coroutines. Each coroutine has a strand, so one session is
  sequential, but handlers of different sessions run in parallel and share the
  route table, its signals and everything the embedder captures. The embedder
  may add routes while they run (`src_example/oauth2-google/main.cpp` calls `run`
  before `route`). Only `connectionList`, logging and `wait` take `globalMutex`.
* **Ordering.** Lookup order of routes, priority order of handlers, `end()`
  stopping later handlers, pipelined requests.
* **Failure.** Every asynchronous operation can fail or time out; sessions end by
  many paths. `saveCertificate` may be cut off at any point, and the next start
  reads what it left.
* **Blocking.** `notFound` sleeps five seconds on its io thread; handlers run there.
* **Waiting.** `wait` and `notify` are a condition variable without a predicate;
  what the threads tell each other with it goes through global strings.

What makes each part correct: a request is answered by the handlers of its best
entry, for itself and nobody else (route table); requests are answered one for
one and in order, sessions end, descriptors come back (sessions); a notify ends
the wait it is meant for (module); what `run` listens on is what was configured,
and the destructor returns (server); results belong to the last request (client);
both copies of the query agree and decoding undoes encoding (URL); objects are
freed once, keys that nothing refers to any more are freed, failures are reported,
and no key is loaded with a certificate it does not belong to (certificates).

## 2. Modules

| Module | Models |
| --- | --- |
| `RouteTable` | vocabulary: maps, signals, slots, lookup order, answers |
| `RoutePromise` | abstract specification: a request is answered in one step by the handlers of its best entry |
| `RouteDispatch` | `RouteImpl`, `RouteCombiner`, `ResponseImpl`, `ServerImpl::route` on io threads and the embedder's thread |
| `RouteDispatchProofs` | theorems about `RouteDispatch`: types, combiners and isolation, then lookups, empty answers and the refinement of `RoutePromise` |
| `SessionPromise` | abstract specification: requests come in, replies go out, one for one and in order, until the session is over |
| `HttpSessions` | `Listener::run` and `Connection::run`, clients, io threads, descriptors |
| `HttpSessionsProofs` | theorems about `HttpSessions` |
| `ModuleWait` | `ModuleExport::wait` and `notify` |
| `OAuthExample` | `src_example/oauth2-google`: its main thread and its handler, which meet in `wait` and `notify`; extends `ModuleWait` |
| `OAuthExampleProofs` | theorems about `ModuleWait`, and about `OAuthExample` |
| `ServerLifecycle` | the loader, settings, `newServer`, `run`, `useCertificate`, the destructor, and the io threads as far as they matter to these |
| `ServerLifecycleProofs` | theorems about `ServerLifecycle` |
| `UrlQuery` | `Util`'s encoding byte by byte, `QueryImpl`, `UrlImpl` |
| `UrlQueryProofs` | theorems about the encoding and the conversions of a query, for strings and maps of any size |
| `HttpClient` | `ClientImpl` over several requests, and the server's `parseRequest` at the other end; extends `UrlQuery` |
| `HttpClientProofs` | theorems about `HttpClient`; extends `UrlQueryProofs` |
| `Certificates` | `ManagerImpl` and the OpenSSL objects a `CertificateImpl` owns |
| `CertificateFiles` | `saveCertificate` step by step, what `loadCertificate` finds, crashes and restarts; extends `Certificates` |
| `CertificateFilesProofs` | the invariant of `Certificates`, and theorems about it and about `CertificateFiles` |
| `Cookies` | `CookieImpl`: setters, construction from a map, `toString` |
| `CookiesProofs` | theorems about `Cookies` |
| `MC*` | values of the constants for TLC |

They compose as the code does: `RouteDispatch` implements `RoutePromise`, and
`HttpSessions` uses of it that a dispatch ends with an answer or none (its
`Dispatch`); `HttpSessions` implements `SessionPromise`, and `ServerLifecycle` uses
of that that a session ends (its `Close`). `OAuthExample` is `ModuleWait` with the
threads that call it: its actions conjoin those of `ModuleWait` with their own.
`CertificateFiles` does the same with those of `Certificates`. `HttpClient` is built
on the operators of `UrlQuery`, which it extends.

Operators such as `InstalledOnce` or `FailIgnored`, defined next to the one they
resemble, are deliberately wrong variants; no specification uses them. Each
property is known to fail when one of them takes the place of the right one.

### RouteDispatch

One dispatch is `Start` (the session has parsed the request), up to four
`FindHit`/`FindMiss` (the four `find` calls of `doSignal`), `SetCombiner`,
`Invoke` (the signal copies its slots and its combiner, as Boost.Signals2 does
under its own mutex), alternating `RunSlot` and `CheckEnded`
(`RouteCombiner::operator()`), and `Respond` or `NotFound`. The embedder's
`route` is `Route` (find), `Insert` (new entry), `Connect`. While an insertion
is going on, a find in the same `std::map` is a data race; the model lets it miss
any key (`Torn`), and does not follow a torn tree into a crash.
A handler is a slot; it may or may not call `end`. A body is represented by where
it comes from (which handler, for which request, returned or ended). `end` writes
body and flag in one step and `CheckEnded` reads both in one: the flag is only
ever set, after the body, so finer steps add no outcome. Handlers that throw, or
keep the response and end it later from another thread, are not modelled.

### HttpSessions

The environment is `ClientConnect`, `ClientSend` (of five kinds of request,
pipelined), `ClientClose`, `ClientAbort`. `Timeout` is the stream closing its
socket under a pending operation. A step that resumes a coroutine needs a
`FreeThread`; sessions in a handler or in `notFound`'s sleep occupy one.
`open` is the descriptor: it is set by `Accept` and reset by `Timeout` only,
because `connectionList` keeps every `Connection` and nothing closes the socket
otherwise. `asked` and `replies` are what went over the connection.

`ImplementsSession` maps it to `SessionPromise`: `asked` and `replies` to themselves,
`pc` and `outcome` to a `phase` (open until `run` returns, then served, refused or
cut). `Accept` is `Open`, `ClientSend` is `Ask`, a `Write` that succeeds is `Reply`, the
steps that set `outcome` are `Finish`; all others stutter. The promise includes that
every open session finishes, which rests on the timeouts alone.

### ModuleWait

`wait` is `WaitCall`, `Lock`, `Emplace`, `Block`, then `Relock` and `Return`
after a `NotifyOne` or a `SpuriousWakeup`; `notify` is `NotifyCall`,
`NotifyFind` (without the mutex; `Adding` is the insertion it can race with) and
`NotifyOne`. The code searches a second time, in `at()` (`Module.cpp:139`); should that
search miss, it throws, which ends the process, and is not followed. `called`, `spurious`, `returned` and `told` are history.

### OAuthExample

The main thread is the waiter `Main`: it waits for `auth`, makes the token request,
waits for `userId`, then for `exit` (`After`). The io threads are the notifiers: each
runs `routeAll` for a request with a code or a user's ID (`Ask`, `Store`, `Announce`,
`Announcing`, `Respond`). A global string is TRUE once something has been stored in
it; what it says, and that two threads may touch it at once, is left out. Requests
that tell the main thread nothing (no query, or the one for messages, which calls
the client) leave the model's state as it is and have no action. An exception ends
the process, which is one of these behaviours cut short. `w2` stands for a thread
another embedder could have that waits for a handle the example waits for, too.

### ServerLifecycle

`Register`, `Deploy` and `DeployNothing` are `loadModule`'s callbacks; `Deploy`
may come again, also between `newServer` and `run`. `Endpoints` is
`extractSettings`, early returns included: an absent member leaves what the
constructor left, which for the port is an uninitialised int (`Stray`).
`Run` may come again: when the threads of the first call have ended, it starts
a listener once more where the first one was; while they have not (`RunOverThreads`),
the `io_context` they use is freed, which the model takes as the end of the process
(`Crash`), as it does a null dereference (`RunWithoutSettings`, `UseNull`). What the
undefined behaviour could do instead of ending the process is not followed.
`useCertificate` is two steps, `UseChain` and `UseKey`, because the listener makes
streams from the same `ssl::context` on other threads (`Accept`); each OpenSSL
call counts as one step. `Destroy` and `Destroyed` are the destructor before and
after its joins; a thread may `Leave` when the `io_context` has no `Work`.
`use_tmp_dh` may throw after certificate and key are there (`UseKey` leaves `ready`
open then).

### UrlQuery and HttpClient

A string is a sequence of bytes, because the properties are about which bytes are
escaped. A URL is three copies of a query: `query` (in `boost::url`), `text`
(`QueryImpl`'s encoded one) and `map` (the decoded one). The setters are `SetQuery`,
`SetURL`, `SetMethod`; `end` is one action per outcome (`EndUnconnected`,
`EndBroken`, `EndNotOk`, `EndOk`). `view` and `json` name the response that
`responseStr` and `responseJsonDoc` come from; `heard` is the map which the handlers
see if the server is this module's, which refuses a POST and a target with `..` before
any handler runs (`Heard`). `wish` and `spoiled` are history. `boost::url` refuses
a query with a character it does not allow or an ill-formed escape (`Accepts`), and
takes what follows a `#` in a URL for its fragment.

The loops over a string are written by what each position contributes: `uriEncode`
joins the codes of the bytes, `uriDecode` what is `Decoded` at each position up to the
first ill-formed escape (`Stop`), where the code returns -1 and its callers go on with
what is there; the second and third byte of an escape are `Passed`. `generateQueryMap`
looks at the parts after 0 and after each `&` (`Cuts`); `insert` keeps what is there,
so the first part with a name wins, and a name the map has already stays.

### Certificates

A pointer is a set with at most one element; objects are named by the certificate
they were made for. `Settle` ends every operation: certificates no `shared_ptr` is
left to (`Users`: the embedder's, `certRootLocalhostPtr`,
`certServerLocalhostPtr`) are destroyed. `~CertificateImpl` frees the X509 and gives up
its hold on the key, which other objects may refer to (`Refers`, `Freed`): the
request, which nothing ever frees, and an X509 that a later signature replaced, which
is forgotten, each took a reference when they were given the key
(`X509_REQ_set_pubkey`, `X509_set_pubkey`), so that it stays.
`signRequest` gives a certificate a new X509 and makes it the manager's server
certificate; given the same certificate twice, it makes it sign itself, and name no
issuer, since the new X509 is in place before its subject is read. `newCertServerWithoutRoot` is the null dereference without a root.
So is `signWithRequest` and `getInfoOfRequest`: a request has no X509 (`Dies`).
`loadCertificate(parts)` is a load of which the first `parts` files could be read.
`getCertStr`, `getPrivateKeyStr` and `getDhStr` are the PEM text by what it encodes;
a certificate is `Usable` when each encodes something.

### CertificateFiles

`disk` is what the files hold: the pair the certificate in one belongs to, the pair
of the key in the other, and whether there are DH parameters, which are read but
never saved. A save is `SaveBegin` (opens, and so empties, the certificate's file),
`SaveOpenKey`, `SaveFlushKey`, `SaveFlushCert`: both files are empty before anything is
written, and the texts reach them when the BIOs are freed, the key's first. Every
open and every flush may fail, which changes nothing in what `saveCertificate` does
or returns. `Restart` may come between any two steps. `refused` is history: some open
has failed. That the settings name the same two files for saving and for loading is
assumed; the names `saveCertificate` makes itself are in the list below.

### Cookies

One cookie, a clock in half seconds, the text written last. `OfMap` is what the
constructor's loop leaves when it has gone through the attributes in `std::map`'s
order: each attribute it knows sets a field of its own, except that `expires` and
`max-age` set the same one, where the later wins (`max-age`), and so it is with the
names it does not know (`LastName`). `Netscape` and `Rfc2109` are the two forms of
`toString`, each the map a reader gets by splitting the text.
The date in a text is the number that `mktime`, told of no daylight saving time, reads
in it. `Expires` is what `localtime` shows of the moment of expiry: an hour ahead in
`Summer`. The age is an int (`Narrow`), where the count of the seconds is not.

## 3. Checks

| Run | Bounds | Shows |
| --- | --- | --- |
| `route_single` | 1 io thread, 2 requests, 1 path and `*`, 2 routes added before `run`, 2 priorities | `AnswersAreOwn`, `LookupPrecedence`, `EndedBodySent`, `EndIsFinal`, `ImplementsPromise` |
| `route_threads` | 2 io threads, 2 routes added at any time, 1 priority | `EmptyOkOnlyInWindow`, `CrossTalkConfined`, `CombinerHasResponse`, `Answered` |
| `route_race` | 2 io threads, 1 route | violation of `EndedBodySent` |
| `sessions` | 2 connections, 2 requests on one and 1 on the other, 1 io thread, 2 descriptors | `RepliesInOrder`, `SocketOpenWhileUsed`, `ReadIsAnswered`, `ImplementsSession`, `EveryConnectionAccepted` |
| `sessions_descriptors` | 2 connections, 1 descriptor | violation of `EveryConnectionAccepted` |
| `wait` | oauth2-google: the main thread with 3 waits, another with 1 for `auth`, 2 io threads, 3 handles, per handle 1 notify and 1 spurious wakeup | `SleeperHasEntry`, `OneReturnPerNotify`, `WaitedForIsThere`, `WokenReturns`, `SleeperIsHeard` |
| `wait_lost` | the same with the main thread and 1 io thread | violation of `NotifiedWaitReturns` |
| `lifecycle` | 5 documents, 3 certificates (one whose key does not fit), 2 threads, 2 connections, 2 deployments, 2 calls of `run`, 2 of `useCertificate` | `ListensAsConfigured`, `EstablishedHasPair`, `ReadyMeansInstalled`, `DestroyedNeverListened`, `FailedServerIsDestroyed` |
| `lifecycle_shutdown` | fewer documents | violation of `DestructorReturns` |
| `client` | 2 requests, 2 calls of setters, names and values over 8 bytes | `HandlersHearQuery`, `TargetIsPrintable`, `MapDecodesText`, `ViewIsAlive` |
| `certificates` | 3 certificates, 2 signatures (not followed further once both are used up), any saves, crashes and lost writes | `PointersAreValid`, `KeysFreedUnlessReferred`, `ServerIsSigned`, `LoadedPairFits`, `FailureChangesNothing` |
| `cookies` | 4 calls, 4 seconds, summer time in 2 later ones, ints of 4 bits, 2 names | `WrittenIsRead`, `ExpiryMovesByTimeKept` |

The first run of each stateful module that has one also checks its `TypeOK`.

The bounds. A race between two dispatches takes two requests, two threads and one
signal; precedence takes two entries, order two handlers in one signal. Two
requests on a connection are pipelining; two connections with one io thread are
one holding what the other needs. A notify that wakes too many takes two waiters
for one handle; a handler that comes early or twice takes a second io thread. An interleaving of `useCertificate` and `Accept` takes one
connection and two certificates. A second request is what a client object can
remember the first one by. The eight bytes are a control character, `#` (not
escaped, but refused by `boost::url`), the dot, the three separators, a hexadecimal
digit, and one above 127. A root, its successor and a server certificate, or one saved, one saved over it
and one loaded, are three certificates; a request signed again takes two signatures;
`FewOfBoth` stops where three certificates and two signatures have all been made, so
that every call is still tried with any three certificates of which one was signed, or
two of which one was signed twice. Half seconds are what two roundings in a row can tell
apart; the ages are few, so an int of 4 bits already wraps. More of each repeats the same
cases. Deadlock is not checked (`CHECK_DEADLOCK FALSE`): a run ends when the calls,
clients, routes or notifications of its bound are used up, and a process that
crashed stays where it is.

**Fairness.** `RouteDispatch`: weak fairness of each dispatch (the system
schedules every io thread, handlers return). `HttpSessions`: of the listener's
setup, of accepting each queued connection, of each session's next completion
and of each timeout (time passes). Clients owe nothing. `ModuleWait`: of a thread
inside `wait` or `notify` (the mutex is granted to one that asks; nobody has to
call `notify`, and spurious wakeups are not relied on). `OAuthExample`: of the main
thread (its token request is answered or times out), of a handler once its request
is read, of the other thread inside `wait`; no user has to send anything. `ServerLifecycle`: of each
io thread's entry and return, of the listener's setup, of the end of handshakes
and sessions (they have timeouts), and of the second halves of `useCertificate`
and the destructor. Nobody has to connect, or to destroy a server.
The other modules state no liveness and no fairness.

**Findings** (violation runs):

1. `route_race`: `set_combiner` then call on the shared signal
   (`core/ServerRoute.cpp:96`). With two threads a response a handler ended is
   replaced by something else, possibly the body of another request.
2. `sessions_descriptors`: sessions that ended keep their descriptors
   (`core/ServerListener.cpp:70`); in the end nothing is accepted.
3. `wait_lost`: a notify that comes before the wait is lost (`Module.cpp:132`): a user
   who enters the ID while the main thread still exchanges the token waits forever.
4. `lifecycle_shutdown`: the destructor joins threads that nothing stops
   (`core/Server.cpp:28`).

**Seen while modelling, in the models, but without a run of their own:**

* `run` overwrites the configured `threadNum` with `hardware_concurrency()`
  (`core/Server.cpp:43`; line 58 speaks of "the requested number of threads"), so
  with 0 no thread runs the `io_context` (`Run`).
* `newServer` ignores its map (`Module.cpp:102`; `README.md:100` passes a port).
* `badRequest` fills a response that is never written (`core/ServerConnection.cpp:72`),
  and the socket stays open after the graceful shutdown (line 115) (`AfterRead`, `Shutdown`).
* `ClientImpl::end` returns 0 or throws, never a negative number
  (`core/Client.cpp:241`; `src_example/http-client-json/main.cpp:48` tests for one);
  after a status other than 200 the results of an earlier request stay
  (`core/Client.cpp:217`), the string as a view of a body that is gone (`EndNotOk`).
* A query in the text given to `setURL` is not sent: the target takes `QueryImpl`'s
  copy (`setEncodedUrl`, `target`). Every method but POST is sent as GET, and a POST
  is refused by this module's own server, as is a query with `..` in it (`Heard`),
  which the client does not escape.
* `newCertServerLocalhost` without a root dereferences null; `signRequest` makes
  any certificate it signs the manager's server certificate, and forgets the X509
  of an earlier signature; DH parameters and certificate requests are never freed, and
  with a request or a forgotten X509 its private key stays in memory when the
  certificate is gone (`Freed`). `signRequest` with the same certificate twice returns 0
  and serves one that signed itself and names no issuer (`signRequest`).
* `saveCertificate` returns 0 whatever happens (`core/certificateManager.cpp:448`). Cut
  off, it loses the certificate that was saved before; a key file that could not be
  opened keeps a key which the new certificate does not fit. It names the key's file
  `X.pemprivateKey.pem`, since `append` changes the name it is given, and saves no DH
  parameters, without which `loadCertificate` fails.
* `useCertificate` of a request nobody signed returns -1 or throws; the examples do not
  look whether `loadCertificate` failed and pass the null pointer on (`UseNull`).
* OpenSSL's 0 for failure is not noticed (`core/certificateManager.cpp:102`).
* A cookie keeps an age where it was given a moment, so that it expires later the
  later it is written; one read in the second second after it expired becomes a
  session cookie; the date is written as `localtime` shows it and read without daylight
  saving time, so that in summer it moves by an hour each time it is written and read;
  an age beyond an int wraps. Attributes are recognised in one spelling only, which is not
  everywhere the one `toString` uses; `CookieImpl::escape` returns an empty string.

## 4. Proofs

| Theorem | States | Assumes |
| --- | --- | --- |
| `TypesHold` | `TypeOK` of `RouteDispatch` | `TableAssumption` |
| `CombinersHold` | `CombinerHasResponse` | `TableAssumption` |
| `CrossTalkIsConfined` | `CrossTalkConfined`, any number of io threads, routes added at any time | `TableAssumption` |
| `OneThreadAnswersAreOwn`, `OneThreadEndedBodySent`, `OneThreadEndIsFinal` | the three isolation properties, routes added at any time | `OneThread` |
| `LookupsArePrecise`, `EmptyOkTakesALateRoute` | `LookupPrecedence`, `EmptyOkOnlyInWindow`, any number of io threads | `TableAssumption` |
| `OneThreadKeepsPromise` | `ImplementsPromise`: the refinement of `RoutePromise` | `OneThread`, no late routes |
| `SessionTypes`, `RepliesAreInOrder`, `SocketsAreOpen` | `TypeOK`, `RepliesInOrder`, `SocketOpenWhileUsed` | `SessionsAssumption` |
| `SessionsKeepPromise` | `Promised!Safety`: the refinement of `SessionPromise` without its fairness | `SessionsAssumption` |
| `WaitTypes`, `SleepersHaveEntries`, `NotifyEndsOneWait` | `TypeOK`, `SleeperHasEntry`, `OneReturnPerNotify` | `WaitAssumption` |
| `ExampleUsesWait`, `ExampleGoesOnWithIt` | `OAuthExample` implements `ModuleWait`; `WaitedForIsThere` | `ExampleAssumption`, `WaitAssumption` |
| `LifecycleTypes`, `ListenerIsConfigured` | `TypeOK`, `ListensAsConfigured` | `LifecycleAssumption` |
| `SessionsHavePairs`, `ReadyIsInstalled` | `EstablishedHasPair`, `ReadyMeansInstalled` | `LifecycleAssumption` |
| `OnlyQuietServersGo` | `DestroyedNeverListened` | nothing |
| `CertificatesAreSound` | the three invariants of `Certificates` and `FailureChangesNothing`, without files | `CertificatesAssumption` |
| `PointersStayValid`, `OnlyReferredKeysStay`, `ServerStaysSigned`, `FailedLoadsChangeNothing` | the same one by one, with files, lost writes, crashes and restarts | `CertificatesAssumption` |
| `LoadedPairsFit` | `LoadedPairFits` | `CertificatesAssumption` |
| `DecodeUndoesEncode` | `uriDecode(uriEncode(s)) = s` for every string of bytes | nothing |
| `GenerateUndoesFlatten` | `generateQueryMap` gives back what `flattenQueryMap` wrote | the map is finite, not empty, and of strings of bytes |
| `ClientTypeOK`, `ViewAlive`, `MapDecodes` | `TypeOK` of `HttpClient`, `ViewIsAlive`, `MapDecodesText` | `ClientAssumption` |
| `HandlersHear`, `TargetPrintable` | `HandlersHearQuery`, `TargetIsPrintable` | `ClientAssumption` |
| `WrittenCookieIsRead`, `ExpiryMoves` | `WrittenIsRead`, `ExpiryMovesByTimeKept` | `CookiesAssumption` |

Each holds for every value of the constants that the named assumptions of its
module allow: every set of requests, paths, connections or handles, any number of
threads and certificates, every bound. None needs fairness. The assumptions say
that counts and bounds are natural numbers, that ports in a settings document and
uninitialised ints are integers, and that the model values which stand for nothing
(`NoRequest`, `NoCert`) are not among the values. `ClientAssumption` adds that an
embedder's map is a finite map of strings, as a `std::map` is; `CookiesAssumption`
that no cookie is called like an attribute the constructor knows, and that `stoi` and
`get_time` read the ages, moments and versions they are given (they throw, or give no
date, otherwise). Every inductive invariant
below was an invariant of the TLC run of its module before it was proved.

**Routes.** `CoreInv` (`TypeOK` and `CombinerHasResponse`) is inductive as it stands: a
combiner is only ever replaced by one that holds a response, so what `Invoke`
copies holds one. `CrossTalkConfined` is not: it speaks of what was sent, and
nothing in it says where the value came from. `ConfinedInv` adds that whatever a
signal has installed, and whatever combiner an invocation copied, belongs to a
request that went *through that same signal* (`Through`: it is past
`SetCombiner`, where its `sig` no longer changes), and that every value on its
way to the client is the request's own or comes from such a request that has
ended. The isolation properties rest on `SingleInv`: with one thread, a request
between `Start` and its answer is the one that thread is busy with, so nobody
comes between `SetCombiner` and `Invoke` and the invoked combiner is the
request's own (`Isolated`). `route_race` shows that `OneThread` is needed.

`LookupPrecedence` says nothing of a lookup that is going on. `LookupInv` adds what
the lookups of each request have found so far (`LookedUp`), which stays true because
nobody changes the table of a running server when routes come early (`TableInv`).
`TableInv` also says that an entry without a handler is one the embedder is about to
connect; `FilledInv` carries that from `Invoke` to the answer: a value is empty only
as long as no handler has run. For the refinement, `OrderInv` says that what has run
comes before what has not, and that the value is the latest handler's or the one a
handler ended with; with `SingleInv` no other request's value gets in between, so
`Respond` and `NotFound` are the steps of `RoutePromise` and all others stutter.

**Sessions.** `RepliesInOrder` does not say which request a session has in hand.
`ConnInv`, connection by connection, does: replies owed are the request in hand and
no other (`Counted`), it is of a kind that is answered, by the status being written
(`Served`), and a session says goodbye only when all is answered, to a client that
sends nothing more (`Goodbye`). A step of one connection leaves every other alone
(`Untouched`), so the induction is over one. From it each step is one of
`SessionPromise` or a stutter. That sessions end at last, the promise's fairness, is
left to TLC.

**Wait and notify.** `OneReturnPerNotify` is not inductive: a `notify` that has been
called but has woken nobody is still entitled to. `Entitled` counts the calls in
progress along with the waits that were woken and those that returned. The example's
steps are steps of `ModuleWait` (`ExampleUsesWait`), so this holds in it; and
`WaitedForIsThere` follows with `StoredFirst` (a handler notifies after it has
stored) and `WaitsAreOver` (the main thread is at a stage only after the waits before).

**Server.** `EstablishedHasPair` speaks of what a stream copied from the `ssl::context`
when it was accepted. `PairInv` therefore says of the context what is to be shown of a
stream, that a key belongs to its chain (`ContextFits`, `StreamsFit`), and that
between `UseChain` and `UseKey` the chain is the one the key to come belongs to
(`Installing`). It needs of OpenSSL that installing a chain drops a key that does
not fit it and that a key that does not fit is refused. `JoinInv` is about the
destructor: a thread ends only when there is no work, and work, once gone, comes back
only with another `run`, which waits for no thread but must find all of them ended or
ends the process (`EndedMeansNoWork`); `run` starts every thread (`RunStartsAll`), so
once all are done there is no work, a listener that has come up is work for ever, and
only such a listener accepts (`OnlyListenersAccept`): what the destructor returns from
has never listened. `SettingsInv` says that a server has one
document or none, that it keeps it, that a listener exists only after `run`, and that
what `run` has taken fits that document; `ListensAsConfigured` follows because the
narrowing to a port changes no number that is one.

**Certificates.** `CertInv` names what every object is: it carries the number of the
certificate it was made for, each certificate points to objects of its own
(`OwnsItsThings`), and an object of a certificate or a signature to come does not exist
(`Known`), so that what is made is never something already freed. `KeepsItsThings`
is the other direction, no object without a pointer to it except an X509 under a
newer one and a key that such an X509 or a request refers to (`LeftBehind`), which in
turn find it there; a certificate is not empty only while somebody points to it
(`UsedAreAlive`), and then it is complete (`AliveAreComplete`). One lemma
(`SettleSound`) shows it for the end of every call, where what is not used any more is
destroyed, and the calls only have to show what they make. A call in `CertificateFiles`
is a call in `Certificates`, saving touches no object and a restart begins with none,
so the invariant holds there, too. `FilesInv` follows a save from file to file:
what is open is empty or holds the part of the pair being saved, the certificate
coming last, so whatever is cut off leaves a pair or half of one.

**Encoding.** What loops over strings and maps compute needs induction over data, and
the library states it with an operator as a parameter, which the provers cannot
instantiate. It is stated with sets here: `LeastNatural` takes a least element of a
set of numbers, and `SequencesByInduction` says that a set which has the empty string
and is closed under appending has every string. With it, `FlattenSeq`'s recursive
function is shown to exist, and to join. `DecodeUndoesEncode` is then one byte at a
time: a byte's code is well formed, it is read as that byte, and what stands before it
is read as before (`WellFormed`: no percent sign without its two digits).
`GenerateUndoesFlatten` rests on the separators: an encoded name or value has no `&`
and no `=` and is printable, so the parts between the cuts are the pairs that were
written, one for every name, and the first `=` of each is the one that was put there.
The keys of a finite set of strings can be enumerated in the map's order, which is
total (`BeforeTotal`).

**Client.** `IInv` adds to the properties where things come from: a client that was told a
map has the text of that map (`WishIsText`), and the handlers' map was parsed from the
client's text (`HeardIsText`). With the round trip these give `HandlersHearQuery`, and
`TargetIsPrintable` because whatever `uriEncode` writes is printable. `MapDecodesText` is
inductive with it: `setQuery` replaces text and map together, and the constructor with
a query decodes into an empty map.

**Cookies.** `WrittenIsRead` speaks of a cookie made of a text, which may have been
written of an older cookie at another time. `TextsCarry` says of the text what does not
depend on the clock: each field of the cookie is there under the name the constructor
looks for, and beside the cookie's own name only `Priority` may be taken for a name
(`Carries`). `CarriedIsRead` then does the reading, at any time. For
`ExpiryMovesByTimeKept` it is `AgesRead`: the age is what was left when the text was read,
so that the moment of expiry, however often the clock ticks, moves by the time the cookie
was kept; what is written of it is that moment and, in summer, an hour more. The
property excludes ages beyond an int, which wrap.

Every invariant of a passing run is proved, and of the action and temporal properties
those that are safety: `EndIsFinal`, `FailureChangesNothing`, `ImplementsPromise`, and
`ImplementsSession` but for its fairness. Not proved, only checked by TLC: the liveness
properties (`Answered`, `ReadIsAnswered`, `EveryConnectionAccepted`, `WokenReturns`,
`SleeperIsHeard`, `FailedServerIsDestroyed`) and the fairness of `SessionPromise`, since
fairness and `ENABLED` are out of the prover's reach. That the models' closed forms of
loops over strings and maps say what the loops do is read off the source, not proved.

## 5. Not modelled, and the plan

Not modelled for good: output and wording of messages, TLS itself, parsing inside
Boost.Beast, mustache and ua-parser calls, Windows certificate stores, the SSH
module and unused sources (not built), MIME types (not called), empty classes.
`Template` hands its data to mustache; its `addContext` stores a key under itself and
`mergeData` does nothing. What a certificate's or a PEM file's bytes say is abstracted
to which pair it belongs to.
An exception that leaves a handler or `parseRequest` ends the process, and data
races inside OpenSSL's context or a torn `std::map` may, too; this is noted here
and not modelled.

Next, in this order:

1. A handler that keeps its response and ends it later, from another thread.
2. `getQuery` of a client, which decodes the whole text at once, separators included.
