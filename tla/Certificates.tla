---------------------------- MODULE Certificates ----------------------------
(***************************************************************************)
(* certificate::ManagerImpl and the CertificateImpl objects it makes: who  *)
(* owns which OpenSSL object, which certificate vouches for which, and     *)
(* what is left when one of the steps of an operation fails.               *)
(*                                                                         *)
(* A CertificateImpl is a number, in the order they are made; it is        *)
(* destroyed when the last shared_ptr to it goes.  An OpenSSL object is    *)
(* named by the certificate it was made for, its kind, and, as             *)
(* signRequest makes a new X509 every time, a number.  A pointer is a set  *)
(* with at most one element.  One thread calls.                            *)
(***************************************************************************)
EXTENDS Integers, FiniteSets

CONSTANTS MaxCerts,   \* bound on the certificates made
          MaxSigns    \* bound on the requests signed

ASSUME CertificatesAssumption == MaxCerts \in Nat /\ MaxSigns \in Nat

VARIABLES
    made,      \* how many CertificateImpl there have been
    signs,     \* calls of signRequest so far
    cert,      \* [1..MaxCerts -> what each holds]
    held,      \* those the embedder has a shared_ptr to
    root,      \* certRootLocalhostPtr
    served,    \* certServerLocalhostPtr
    allocated, \* OpenSSL objects made and not freed
    freed,     \* those freed
    rc         \* what the last call returned; {} after a null dereference

managerVars == <<root, served>>
heapVars == <<allocated, freed>>
vars == <<made, signs, cert, held, managerVars, heapVars, rc>>

Certs == 1..MaxCerts
Object(c, kind, n) == [cert |-> c, kind |-> kind, n |-> n]

(* x509, pkey, dh, req: the pointers; issuer: the certificate whose subject *)
(* is named as its issuer; signer: the one whose key signed it.            *)
Empty == [x509 |-> {}, pkey |-> {}, dh |-> {}, req |-> {}, issuer |-> {}, signer |-> {}]

Init ==
    /\ made = 0 /\ signs = 0
    /\ cert = [c \in Certs |-> Empty]
    /\ held = {} /\ root = {} /\ served = {}
    /\ allocated = {} /\ freed = {}
    /\ rc = {0}

-----------------------------------------------------------------------------
(* shared_ptr and ~CertificateImpl *)

Running == rc # {}
Fresh == Running /\ made < MaxCerts /\ made' = made + 1
New == made + 1

(* An X509 or a request that was made here refers to the key of its        *)
(* certificate (X509_set_pubkey, X509_REQ_set_pubkey); an X509 that was    *)
(* read from a file, of kind "read", has a public key of its own.          *)
Refers(o, k) == o.cert = k.cert /\ o.kind \in {"x509", "req"}

(* ~CertificateImpl frees the X509 and gives up its hold on the key, which *)
(* goes when none of the objects that are there refers to it any more.  It *)
(* frees nothing else.                                                     *)
FreedX509Only(x509s, keys, there) == x509s
FreedUnlessReferred(x509s, keys, there) ==
    x509s \cup {k \in keys : \A o \in there \ x509s : ~Refers(o, k)}
Freed(x509s, keys, there) == FreedUnlessReferred(x509s, keys, there)

(* Pointers that keep a certificate: the embedder's and the manager's two. *)
EmbeddersOnly(h, r, s) == h
EmbeddersAndManagers(h, r, s) == h \cup r \cup s
Users(h, r, s) == EmbeddersAndManagers(h, r, s)

(* Given the objects a call made, and the certificates as it left them:    *)
(* those no pointer is left to are destroyed.                              *)
Settle(h, r, s, crt, objects) ==
    LET gone == {c \in Certs : crt[c] # Empty} \ Users(h, r, s)
        released == Freed(UNION {crt[c].x509 : c \in gone}, UNION {crt[c].pkey : c \in gone},
                          allocated \cup objects)
    IN  /\ held' = h /\ root' = r /\ served' = s
        /\ cert' = [c \in Certs |-> IF c \in gone THEN Empty ELSE crt[c]]
        /\ allocated' = (allocated \cup objects) \ released
        /\ freed' = freed \cup released

(* The embedder lets go of a certificate. *)
Release(c) ==
    /\ Running /\ c \in held
    /\ rc' = {0}
    /\ Settle(held \ {c}, root, served, cert, {})
    /\ UNCHANGED <<made, signs>>

-----------------------------------------------------------------------------
(* What the operations are made of *)

(* A key pair in an EVP_PKEY that owns it, and DH parameters.  (The        *)
(* EVP_PKEY that newCertificate and newRequest wrap them in is theirs, and *)
(* is never freed.)                                                        *)
WithKeys(c) == [Empty EXCEPT !.pkey = {Object(c, "pkey", 0)}, !.dh = {Object(c, "dh", 0)}]

Request(c) == [WithKeys(c) EXCEPT !.req = {Object(c, "req", 0)}]

SelfSigned(c) == [WithKeys(c) EXCEPT !.x509 = {Object(c, "x509", 0)},
                                     !.issuer = {c}, !.signer = {c}]

(* signRequest: a new X509 with the key of the request, the name of the CA *)
(* and a signature by the CA's key; a former X509 is forgotten, not freed. *)
(* Where the CA is the request itself, the name is taken from the new      *)
(* X509, which has none yet.                                               *)
SignedBySelf(c, ca) == c
SignedByCA(c, ca) == ca
SignedBy(c, ca) == SignedByCA(c, ca)
Signed(r, c, ca) == [r EXCEPT !.x509 = {Object(c, "x509", signs + 1)},
                              !.issuer = {ca} \ {c}, !.signer = {SignedBy(c, ca)}]

Objects(r) == r.x509 \cup r.pkey \cup r.dh \cup r.req

-----------------------------------------------------------------------------
(* ManagerImpl.  The calls of OpenSSL that make something succeed: they    *)
(* report failure with 0, the code looks for less than 0 and goes on.      *)

newCertificate ==
    /\ Fresh
    /\ rc' = {0}
    /\ Settle(held \cup {New}, root, served, [cert EXCEPT ![New] = SelfSigned(New)],
              Objects(SelfSigned(New)))
    /\ UNCHANGED signs

newCertRootLocalhost ==
    /\ Fresh
    /\ rc' = {0}
    /\ Settle(held \cup {New}, {New}, served, [cert EXCEPT ![New] = SelfSigned(New)],
              Objects(SelfSigned(New)))
    /\ UNCHANGED signs

newRequest ==
    /\ Fresh
    /\ rc' = {0}
    /\ Settle(held \cup {New}, root, served, [cert EXCEPT ![New] = Request(New)],
              Objects(Request(New)))
    /\ UNCHANGED signs

(* The embedder's own pair, which may be a certificate and itself.         *)
(* Whatever is signed becomes the certificate the manager keeps for the    *)
(* server.                                                                 *)
signRequest(c, ca) ==
    LET r == Signed(cert[c], c, ca)
    IN  /\ Running /\ signs < MaxSigns /\ signs' = signs + 1
        /\ {c, ca} \subseteq held /\ (c = ca \/ cert[ca].x509 # {})
        /\ rc' = {0}
        /\ Settle(held, root, {c}, [cert EXCEPT ![c] = r], r.x509)
        /\ UNCHANGED made

(* newRequest, then signRequest with the root ... *)
newCertServerLocalhost ==
    /\ signs < MaxSigns /\ signs' = signs + 1
    /\ Fresh
    /\ rc' = {0}
    /\ \E ca \in root :
          LET r == Signed(Request(New), New, ca)
          IN  Settle(held \cup {New}, root, {New}, [cert EXCEPT ![New] = r], Objects(r))

(* ... which nobody has to have made.  Reading through a null pointer ends *)
(* the process: there is no root; or a request, which has no X509, is to   *)
(* sign another one, or to give its names.                                 *)
Dies == rc' = {} /\ UNCHANGED <<made, signs, cert, held, managerVars, heapVars>>

newCertServerWithoutRoot == Running /\ root = {} /\ made < MaxCerts /\ Dies

signWithRequest(c, ca) ==
    /\ Running /\ signs < MaxSigns
    /\ {c, ca} \subseteq held /\ cert[ca].x509 = {} /\ c # ca
    /\ Dies

getInfoOfRequest(c) == Running /\ c \in held /\ cert[c].x509 = {} /\ Dies

(* loadCertificate: certificate, key and DH parameters are read in turn;   *)
(* one that is missing or broken ends it with -1, the caller's pointer     *)
(* untouched, and the CertificateImpl with what was read goes.  What is    *)
(* loaded was signed by somebody.                                          *)
Loaded(c, parts) ==
    [Empty EXCEPT !.x509 = IF parts > 0 THEN {Object(c, "read", 0)} ELSE {},
                  !.pkey = IF parts > 1 THEN {Object(c, "pkey", 0)} ELSE {},
                  !.dh = IF parts > 2 THEN {Object(c, "dh", 0)} ELSE {}]

HeldAfterLoadEarly(parts) == IF parts > 0 THEN held \cup {New} ELSE held
HeldAfterLoadLast(parts) == IF parts = 3 THEN held \cup {New} ELSE held
HeldAfterLoad(parts) == HeldAfterLoadLast(parts)

loadCertificate(parts) ==
    LET r == Loaded(New, parts)
    IN  /\ Fresh
        /\ rc' = {IF parts = 3 THEN 0 ELSE -1}
        /\ Settle(HeldAfterLoad(parts), root, served, [cert EXCEPT ![New] = r], Objects(r))
        /\ UNCHANGED signs

(* The PEM texts useCertificate asks a certificate for stand for what they *)
(* encode.  If one encodes nothing, being null or empty, useCertificate    *)
(* returns -1, or throws, before it has changed the ssl::context; the rest *)
(* of it is in ServerLifecycle.                                            *)
getCertStr(c) == cert[c].x509
getPrivateKeyStr(c) == cert[c].pkey
getDhStr(c) == cert[c].dh
Usable(c) == {} \notin {getCertStr(c), getPrivateKeyStr(c), getDhStr(c)}

useCertificate(c) ==
    /\ Running /\ c \in held
    /\ rc' = {IF Usable(c) THEN 0 ELSE -1}
    /\ UNCHANGED <<made, signs, cert, held, managerVars, heapVars>>

Next == \/ newCertificate \/ newCertRootLocalhost \/ newRequest
        \/ newCertServerLocalhost \/ newCertServerWithoutRoot
        \/ \E c, ca \in Certs : signRequest(c, ca) \/ signWithRequest(c, ca)
        \/ \E parts \in 0..3 : loadCertificate(parts)
        \/ \E c \in Certs : Release(c) \/ useCertificate(c) \/ getInfoOfRequest(c)

Spec == Init /\ [][Next]_vars

-----------------------------------------------------------------------------
(* Properties *)

Alive == held \cup root \cup served

(* What a certificate points to exists, and is its own: no order of        *)
(* making, signing, replacing the root and letting go makes an object be   *)
(* used after it was freed, or freed twice (~CertificateImpl).             *)
PointersAreValid ==
    /\ \A c \in Alive : cert[c] # Empty /\ Objects(cert[c]) \subseteq allocated
    /\ \A c, d \in Alive : c # d => Objects(cert[c]) \cap Objects(cert[d]) = {}
    /\ allocated \cap freed = {}

(* When a certificate is gone, by whatever path, the failures of           *)
(* loadCertificate included, its key is freed, unless the certificate came *)
(* as a request, which is never freed, or signRequest replaced an X509     *)
(* that was made for it, which is forgotten: these refer to the key.  What *)
(* refers to a key finds it there, and an X509 stays only if signRequest   *)
(* put another in its place.                                               *)
Replaced(o) == \E p \in allocated \cup freed :
                  p.cert = o.cert /\ p.kind = "x509" /\ p.n > o.n
KeysFreedUnlessReferred ==
    \A o \in allocated :
        /\ o.kind = "pkey" =>
              \/ o.cert \in Alive /\ o \in cert[o.cert].pkey
              \/ \E p \in allocated :
                    p.cert = o.cert /\ (p.kind = "req" \/ (p.kind = "x509" /\ Replaced(p)))
        /\ o.kind \in {"x509", "read"} =>
              (o.cert \in Alive /\ o \in cert[o.cert].x509) \/ Replaced(o)
        /\ o.kind \in {"x509", "req"} => Object(o.cert, "pkey", 0) \in allocated

(* "Creates a server certificate for bookfiler local apps signed by the    *)
(* root certificate" (certificateManager.hpp): the certificate the manager *)
(* keeps for the server can be given to useCertificate, and names as its   *)
(* issuer the one whose key signed it, also when it is signed again; only  *)
(* one that the embedder signs with itself names nobody.                   *)
ServerIsSigned ==
    \A c \in served :
        /\ Usable(c)
        /\ \/ cert[c].signer # {} /\ c \notin cert[c].signer
              /\ cert[c].issuer = cert[c].signer
           \/ cert[c].signer = {c} /\ cert[c].issuer = {}

(* A call that returns -1 leaves the embedder's and the manager's          *)
(* certificates as they were (loadCertificate).                            *)
FailureChangesNothing ==
    [][rc' = {-1} => UNCHANGED <<held, managerVars, cert>>]_vars
=============================================================================
