----------------------- MODULE CertificateFilesProofs -----------------------
(***************************************************************************)
(* Theorems about Certificates, for any number of certificates and of      *)
(* signatures; and about CertificateFiles: what is true of the             *)
(* certificates stays true with files, crashes and restarts, and the pair  *)
(* that is on the disk fits wherever saveCertificate is cut off.           *)
(***************************************************************************)
EXTENDS CertificateFiles, TLAPS

(***************************************************************************)
(* The invariant.  What an OpenSSL object is called says which certificate *)
(* it was made for, so two certificates share nothing as long as each      *)
(* points to objects of its own; an object that is made is new because     *)
(* objects of certificates to come, and of signatures to come, do not      *)
(* exist.  Sound is stated of any certificates and any heap, because a     *)
(* call first makes things and then lets go of what nobody uses (Settle).  *)
(* Kept says why a thing is still there, and that what refers to a key     *)
(* finds it; a key without its certificate is left with a request or with  *)
(* an X509 that signing replaced.                                          *)
(***************************************************************************)
Thing == [cert : Certs, kind : {"x509", "read", "pkey", "dh", "req"}, n : Nat]
CertRecord == [x509 : SUBSET Thing, pkey : SUBSET Thing, dh : SUBSET Thing,
               req : SUBSET Thing, issuer : SUBSET Certs, signer : SUBSET Certs]

Newer(o, A) == \E p \in A : p.cert = o.cert /\ p.kind = "x509" /\ p.n > o.n
OwnsItsThings(crt, A) ==
    \A c \in Certs :
        /\ \A o \in Objects(crt[c]) : o.cert = c /\ o \in A
        /\ \A o \in crt[c].x509 : o.kind # "pkey"
        /\ \A o \in crt[c].pkey : o = Object(c, "pkey", 0)

LeftBehind(o, A, F) ==
    \E p \in A : p.cert = o.cert /\ (p.kind = "req" \/ (p.kind = "x509" /\ Newer(p, A \cup F)))
Kept(o, crt, A, F) ==
    /\ o.cert \in Certs
    /\ o.kind = "pkey" =>
          o \in crt[o.cert].pkey \/ (crt[o.cert] = Empty /\ LeftBehind(o, A, F))
    /\ o.kind \in {"x509", "read"} => o \in crt[o.cert].x509 \/ Newer(o, A \cup F)
    /\ o.kind \in {"x509", "req"} => Object(o.cert, "pkey", 0) \in A
KeepsItsThings(crt, A, F) == \A o \in A : Kept(o, crt, A, F)

Sound(crt, A, F) ==
    /\ A \cap F = {}
    /\ OwnsItsThings(crt, A)
    /\ KeepsItsThings(crt, A, F)

(* A certificate that somebody points to has a key and DH parameters. *)
Complete(r) == r.pkey # {} /\ r.dh # {}
WellSigned(r, c) ==
    /\ r.x509 # {}
    /\ \/ r.signer # {} /\ c \notin r.signer /\ r.issuer = r.signer
       \/ r.signer = {c} /\ r.issuer = {}

Counted == made \in 0..MaxCerts /\ signs \in Nat
Known == \A o \in allocated \cup freed :
            o \in Thing /\ o.cert <= made /\ o.n <= signs
UsedAreAlive == \A c \in Certs : cert[c] # Empty => c \in Alive
AliveAreComplete == \A c \in Alive : c \in Certs /\ c <= made /\ Complete(cert[c])
ServedAreSigned == \A c \in served : WellSigned(cert[c], c)

CertInv ==
    /\ Counted /\ cert \in [Certs -> CertRecord]
    /\ Sound(cert, allocated, freed) /\ Known
    /\ UsedAreAlive /\ AliveAreComplete /\ ServedAreSigned

(***************************************************************************)
(* Settling.  Who goes takes along what it owns, which is what nobody else *)
(* points to; the things that have ever been made stay the same.           *)
(***************************************************************************)
LEMMA EmptyRecord == Empty \in CertRecord /\ Objects(Empty) = {}
  BY DEF Empty, CertRecord, Objects

LEMMA SettleSound ==
  ASSUME NEW h, NEW r, NEW s, NEW crt \in [Certs -> CertRecord], NEW objects,
         Settle(h, r, s, crt, objects), Sound(crt, allocated \cup objects, freed)
  PROVE  /\ cert' \in [Certs -> CertRecord]
         /\ \A c \in Certs \cap (h \cup r \cup s) : cert'[c] = crt[c]
         /\ \A c \in Certs \ (h \cup r \cup s) : cert'[c] = Empty
         /\ allocated' \cup freed' = allocated \cup objects \cup freed
         /\ Sound(cert', allocated', freed')
<1> DEFINE gone == {c \in Certs : crt[c] # Empty} \ (h \cup r \cup s)
           A == allocated \cup objects
           x509s == UNION {crt[c].x509 : c \in gone}
           keys == UNION {crt[c].pkey : c \in gone}
           released == Freed(x509s, keys, A)
<1>1. /\ cert' = [c \in Certs |-> IF c \in gone THEN Empty ELSE crt[c]]
      /\ allocated' = A \ released /\ freed' = freed \cup released
  BY DEF Settle, Users, EmbeddersAndManagers
<1> HIDE DEF gone, x509s, keys, released
<1>2. cert' \in [Certs -> CertRecord]
  BY <1>1, EmptyRecord
<1>3. /\ \A c \in Certs \cap (h \cup r \cup s) : cert'[c] = crt[c]
      /\ \A c \in Certs \ (h \cup r \cup s) : cert'[c] = Empty
  BY <1>1 DEF gone
<1>a. gone \subseteq Certs /\ \A c \in gone : crt[c] # Empty
  BY DEF gone
<1>4. /\ \A o : o \in x509s <=> \E c \in gone : o \in crt[c].x509
      /\ \A o : o \in keys <=> \E c \in gone : o \in crt[c].pkey
      /\ \A o : o \in released <=>
                  o \in x509s \/ (o \in keys /\ \A p \in A \ x509s : ~Refers(p, o))
  BY DEF x509s, keys, released, Freed, FreedUnlessReferred
<1>b. /\ \A o \in x509s : o \in A /\ o.cert \in gone /\ o.kind # "pkey"
      /\ \A o \in keys : o \in A /\ o.cert \in gone /\ o.kind = "pkey"
  <2>1. \A c \in gone :
           /\ \A o \in crt[c].x509 : o \in A /\ o.cert = c /\ o.kind # "pkey"
           /\ \A o \in crt[c].pkey : o \in A /\ o.cert = c /\ o.kind = "pkey"
    BY <1>a DEF Sound, OwnsItsThings, Objects, Object
  <2> QED
    BY <1>4, <2>1
<1>5. \A o \in released : o \in A /\ o.cert \in gone
  BY <1>4, <1>b
<1>6. allocated' \cup freed' = allocated \cup objects \cup freed
  BY <1>1, <1>5
<1>7. allocated' \cap freed' = {}
  BY <1>1 DEF Sound
<1>8. OwnsItsThings(cert', allocated')
  <2> SUFFICES ASSUME NEW c \in Certs
               PROVE  /\ \A o \in Objects(cert'[c]) : o.cert = c /\ o \in allocated'
                      /\ \A o \in cert'[c].x509 : o.kind # "pkey"
                      /\ \A o \in cert'[c].pkey : o = Object(c, "pkey", 0)
    BY DEF OwnsItsThings
  <2>1. CASE c \in gone
    BY <1>1, <2>1, EmptyRecord DEF Empty
  <2>2. CASE c \notin gone
    <3>1. cert'[c] = crt[c]
      BY <1>1, <2>2
    <3>2. /\ \A o \in Objects(crt[c]) : o.cert = c /\ o \in A
          /\ \A o \in crt[c].x509 : o.kind # "pkey"
          /\ \A o \in crt[c].pkey : o = Object(c, "pkey", 0)
      BY DEF Sound, OwnsItsThings
    <3> QED
      BY <1>1, <1>5, <2>2, <3>1, <3>2
  <2> QED
    BY <2>1, <2>2
<1>9. KeepsItsThings(cert', allocated', freed')
  <2> SUFFICES ASSUME NEW o \in allocated'
               PROVE  Kept(o, cert', allocated', freed')
    BY DEF KeepsItsThings
  <2>1. o \in A /\ o \notin released
    BY <1>1
  <2>2. \A p \in A : Kept(p, crt, A, freed)
    BY DEF Sound, KeepsItsThings
  <2>3. /\ o.cert \in Certs
        /\ o.kind = "pkey" =>
              o \in crt[o.cert].pkey \/ (crt[o.cert] = Empty /\ LeftBehind(o, A, freed))
        /\ o.kind \in {"x509", "read"} => o \in crt[o.cert].x509 \/ Newer(o, A \cup freed)
        /\ o.kind \in {"x509", "req"} => Object(o.cert, "pkey", 0) \in A
    BY <2>1, <2>2 DEF Kept
  <2>4. A \cup freed = allocated' \cup freed'
    BY <1>6
  <2>5. o.cert \notin gone => cert'[o.cert] = crt[o.cert]
    BY <1>1, <2>3
  <2>6. o.kind = "pkey" =>
           o \in cert'[o.cert].pkey \/ (cert'[o.cert] = Empty /\ LeftBehind(o, allocated', freed'))
    <3> SUFFICES ASSUME o.kind = "pkey", o \notin cert'[o.cert].pkey
                 PROVE  cert'[o.cert] = Empty /\ LeftBehind(o, allocated', freed')
      OBVIOUS
    <3>1. CASE o.cert \notin gone
      <4>1. crt[o.cert] = Empty /\ LeftBehind(o, A, freed)
        BY <2>3, <2>5, <3>1
      <4>2. PICK p \in A : p.cert = o.cert /\ (p.kind = "req" \/ (p.kind = "x509" /\ Newer(p, A \cup freed)))
        BY <4>1, Zenon DEF LeftBehind
      <4>3. p \in allocated'
        BY <1>1, <1>5, <3>1, <4>2
      <4> QED
        BY <2>4, <2>5, <3>1, <4>1, <4>2, <4>3 DEF LeftBehind
    <3>2. CASE o.cert \in gone
      <4>1. o \in keys
        BY <1>a, <1>4, <2>3, <3>2
      <4>2. PICK p \in A \ x509s : Refers(p, o)
        BY <1>4, <2>1, <4>1
      <4>3. p.cert = o.cert /\ p.kind \in {"x509", "req"} /\ p.kind # "pkey"
        BY <4>2 DEF Refers
      <4>4. p \in allocated'
        BY <1>1, <1>4, <1>b, <4>2, <4>3
      <4>5. p.kind = "x509" => Newer(p, A \cup freed)
        <5>1. p.kind = "x509" => p \in crt[p.cert].x509 \/ Newer(p, A \cup freed)
          BY <2>2, <4>2 DEF Kept
        <5>2. p \notin crt[p.cert].x509
          BY <1>4, <3>2, <4>2, <4>3
        <5> QED
          BY <5>1, <5>2
      <4>6. cert'[o.cert] = Empty
        BY <1>1, <2>3, <3>2
      <4> QED
        BY <2>4, <4>3, <4>4, <4>5, <4>6 DEF LeftBehind
    <3> QED
      BY <3>1, <3>2
  <2>7. o.kind \in {"x509", "read"} =>
           o \in cert'[o.cert].x509 \/ Newer(o, allocated' \cup freed')
    <3>1. o.cert \in gone => o \notin crt[o.cert].x509
      BY <1>4, <2>1
    <3> QED
      BY <2>3, <2>4, <2>5, <3>1
  <2>8. o.kind \in {"x509", "req"} => Object(o.cert, "pkey", 0) \in allocated'
    <3> SUFFICES ASSUME o.kind \in {"x509", "req"} PROVE Object(o.cert, "pkey", 0) \in allocated'
      OBVIOUS
    <3> DEFINE k == Object(o.cert, "pkey", 0)
    <3>1. k \in A /\ k.kind = "pkey" /\ k.cert = o.cert
      BY <2>3 DEF Object
    <3>2. Refers(o, k) /\ o \in A \ x509s
      BY <1>4, <2>1, <3>1 DEF Refers
    <3> HIDE DEF k
    <3>3. k \notin released
      BY <1>4, <1>b, <3>1, <3>2
    <3>4. k \in allocated'
      BY <1>1, <3>1, <3>3
    <3> QED
      BY <3>4 DEF k
  <2> QED
    BY <2>3, <2>6, <2>7, <2>8 DEF Kept
<1> QED
  BY <1>2, <1>3, <1>6, <1>7, <1>8, <1>9 DEF Sound

(* What a call makes of the certificates before it settles. *)
LEMMA SettledInv ==
  ASSUME NEW h, NEW r, NEW s, NEW crt \in [Certs -> CertRecord], NEW objects,
         Settle(h, r, s, crt, objects), Sound(crt, allocated \cup objects, freed),
         Counted',
         \A o \in allocated \cup objects \cup freed :
            o \in Thing /\ o.cert <= made' /\ o.n <= signs',
         \A c \in h \cup r \cup s : c \in Certs /\ c <= made' /\ Complete(crt[c]),
         \A c \in s : WellSigned(crt[c], c)
  PROVE  CertInv'
<1>1. held' = h /\ root' = r /\ served' = s
  BY DEF Settle
<1>2. /\ cert' \in [Certs -> CertRecord]
      /\ \A c \in Certs \cap (h \cup r \cup s) : cert'[c] = crt[c]
      /\ \A c \in Certs \ (h \cup r \cup s) : cert'[c] = Empty
      /\ allocated' \cup freed' = allocated \cup objects \cup freed
      /\ Sound(cert', allocated', freed')
  BY SettleSound
<1>3. Known'
  BY <1>2 DEF Known
<1>4. UsedAreAlive'
  BY <1>1, <1>2 DEF UsedAreAlive, Alive
<1>5. AliveAreComplete'
  BY <1>1, <1>2 DEF AliveAreComplete, Alive
<1>6. ServedAreSigned'
  BY <1>1, <1>2 DEF ServedAreSigned
<1> QED
  BY <1>2, <1>3, <1>4, <1>5, <1>6 DEF CertInv

(***************************************************************************)
(* The records that are made, as the proofs use them.                      *)
(***************************************************************************)
LEMMA ThingsNamed ==
  ASSUME NEW c \in Certs, NEW n \in Nat
  PROVE  \A k \in {"x509", "read", "pkey", "dh", "req"} :
            /\ Object(c, k, n) \in Thing
            /\ Object(c, k, n).cert = c
            /\ Object(c, k, n).kind = k
            /\ Object(c, k, n).n = n
  BY DEF Thing, Object

(* A record of c, whose things are c's, and named n at most. *)
MadeFor(rec, c, top) ==
    /\ rec \in CertRecord
    /\ \A o \in Objects(rec) : o \in Thing /\ o.cert = c /\ o.n <= top
    /\ \A o \in Objects(rec) :
          /\ o.kind = "pkey" => o \in rec.pkey
          /\ o.kind \in {"x509", "read"} => o \in rec.x509
          /\ o.kind \in {"x509", "req"} => Object(c, "pkey", 0) \in Objects(rec)
    /\ \A o \in rec.x509 : o.kind # "pkey"
    /\ \A o \in rec.pkey : o = Object(c, "pkey", 0)

LEMMA KeysMakeRecord == \A c \in Certs : WithKeys(c) \in CertRecord
<1> SUFFICES ASSUME NEW c \in Certs PROVE WithKeys(c) \in CertRecord
  OBVIOUS
<1>1. {Object(c, "pkey", 0)} \in SUBSET Thing /\ {Object(c, "dh", 0)} \in SUBSET Thing
  BY ThingsNamed
<1> QED
  BY <1>1, EmptyRecord DEF WithKeys, CertRecord

LEMMA SignatureMakesRecord ==
  ASSUME NEW rec \in CertRecord, NEW X \in SUBSET Thing,
         NEW I \in SUBSET Certs, NEW S \in SUBSET Certs
  PROVE  [rec EXCEPT !.x509 = X, !.issuer = I, !.signer = S] \in CertRecord
  BY DEF CertRecord

LEMMA SelfSignedIsMade ==
  ASSUME NEW c \in Certs, NEW top \in Nat
  PROVE  MadeFor(SelfSigned(c), c, top) /\ Complete(SelfSigned(c))
<1> DEFINE R == SelfSigned(c)
<1>1. /\ R.x509 = {Object(c, "x509", 0)} /\ R.pkey = {Object(c, "pkey", 0)}
      /\ R.dh = {Object(c, "dh", 0)} /\ R.req = {}
  BY DEF SelfSigned, WithKeys, Empty
<1>2. R \in CertRecord
  <2>1. {Object(c, "x509", 0)} \in SUBSET Thing /\ {c} \in SUBSET Certs
    BY ThingsNamed
  <2> QED
    BY <2>1, KeysMakeRecord, SignatureMakesRecord DEF SelfSigned
<1> QED
  BY <1>1, <1>2, ThingsNamed DEF MadeFor, Objects, Complete

LEMMA RequestIsMade ==
  ASSUME NEW c \in Certs, NEW top \in Nat
  PROVE  MadeFor(Request(c), c, top) /\ Complete(Request(c))
<1> DEFINE R == Request(c)
<1>1. /\ R.x509 = {} /\ R.pkey = {Object(c, "pkey", 0)}
      /\ R.dh = {Object(c, "dh", 0)} /\ R.req = {Object(c, "req", 0)}
  BY DEF Request, WithKeys, Empty
<1>2. R \in CertRecord
  <2>1. {Object(c, "req", 0)} \in SUBSET Thing
    BY ThingsNamed
  <2> QED
    BY <2>1, KeysMakeRecord DEF Request, CertRecord
<1> QED
  BY <1>1, <1>2, ThingsNamed DEF MadeFor, Objects, Complete

LEMMA LoadedIsMade ==
  ASSUME NEW c \in Certs, NEW top \in Nat, NEW parts \in 0..3
  PROVE  MadeFor(Loaded(c, parts), c, top) /\ (parts = 3 => Complete(Loaded(c, parts)))
<1> DEFINE R == Loaded(c, parts)
<1>1. /\ R.x509 = IF parts > 0 THEN {Object(c, "read", 0)} ELSE {}
      /\ R.pkey = IF parts > 1 THEN {Object(c, "pkey", 0)} ELSE {}
      /\ R.dh = IF parts > 2 THEN {Object(c, "dh", 0)} ELSE {}
      /\ R.req = {}
  BY DEF Loaded, Empty
<1>2. R \in CertRecord
  <2>1. \A k \in {"read", "pkey", "dh"} : {Object(c, k, 0)} \in SUBSET Thing
    BY ThingsNamed
  <2> QED
    BY <2>1, EmptyRecord DEF Loaded, CertRecord
<1> QED
  BY <1>1, <1>2, ThingsNamed DEF MadeFor, Objects, Complete

LEMMA SigningSigns ==
  ASSUME NEW rec \in CertRecord, NEW c \in Certs, NEW ca \in Certs, signs \in Nat
  PROVE  LET R == Signed(rec, c, ca)
         IN  /\ R \in CertRecord /\ WellSigned(R, c)
             /\ R.x509 = {Object(c, "x509", signs + 1)}
             /\ R.pkey = rec.pkey /\ R.dh = rec.dh /\ R.req = rec.req
<1> DEFINE R == Signed(rec, c, ca)
<1>1. /\ {Object(c, "x509", signs + 1)} \in SUBSET Thing
      /\ {ca} \in SUBSET Certs /\ {ca} \ {c} \in SUBSET Certs
  BY ThingsNamed
<1>2. R \in CertRecord
  BY <1>1 DEF Signed, SignedBy, SignedByCA, CertRecord
<1>3. /\ R.x509 = {Object(c, "x509", signs + 1)}
      /\ R.pkey = rec.pkey /\ R.dh = rec.dh /\ R.req = rec.req
      /\ R.issuer = {ca} \ {c} /\ R.signer = {ca}
  BY DEF Signed, SignedBy, SignedByCA, CertRecord
<1> QED
  BY <1>2, <1>3 DEF WellSigned

(***************************************************************************)
(* The steps.                                                              *)
(***************************************************************************)

(* A certificate that is made, whatever of it was made, keeps the          *)
(* invariant.                                                              *)
LEMMA NewCertInv ==
  ASSUME CertInv, Fresh, signs' \in Nat, signs <= signs',
         NEW h, NEW r, NEW s, NEW rec, MadeFor(rec, New, signs'),
         Settle(h, r, s, [cert EXCEPT ![New] = rec], Objects(rec)),
         h \cup r \cup s \subseteq Alive \cup {New}, s \subseteq served \cup {New},
         New \in h \cup r \cup s => Complete(rec),
         New \in s => WellSigned(rec, New)
  PROVE  CertInv'
<1> DEFINE crt == [cert EXCEPT ![New] = rec]
<1>1. /\ made \in Nat /\ signs \in Nat /\ New \in Certs /\ Counted'
      /\ made' = New /\ made < New
  BY CertificatesAssumption DEF CertInv, Counted, Fresh, New, Certs
<1>2. crt \in [Certs -> CertRecord]
  BY <1>1 DEF CertInv, MadeFor
<1>3. crt[New] = rec /\ \A c \in Certs : c # New => crt[c] = cert[c]
  BY <1>1 DEF CertInv
<1> HIDE DEF crt
<1>4. \A o \in allocated \cup freed :
         /\ o \in Thing /\ o.cert \in Certs /\ o.cert # New
         /\ o.cert <= made /\ o.n <= signs
  <2>1. \A o \in allocated \cup freed : o \in Thing /\ o.cert <= made /\ o.n <= signs
    BY DEF CertInv, Known
  <2>2. \A o \in Thing : o.cert \in Certs
    BY DEF Thing
  <2>3. \A c \in Certs : c <= made => c # New
    BY <1>1 DEF New, Certs
  <2> QED
    BY <2>1, <2>2, <2>3
<1>5. \A o \in Objects(rec) : o.cert = New /\ o \notin allocated /\ o \notin freed
  BY <1>4 DEF MadeFor
<1>c. /\ \A o \in rec.x509 : o.kind # "pkey"
      /\ \A o \in rec.pkey : o = Object(New, "pkey", 0)
  BY DEF MadeFor
<1>6. Sound(crt, allocated \cup Objects(rec), freed)
  <2>1. (allocated \cup Objects(rec)) \cap freed = {}
    BY <1>5 DEF CertInv, Sound
  <2>2. OwnsItsThings(crt, allocated \cup Objects(rec))
    BY <1>3, <1>5, <1>c DEF CertInv, Sound, OwnsItsThings
  <2>3. KeepsItsThings(crt, allocated \cup Objects(rec), freed)
    <3> DEFINE B == allocated \cup Objects(rec)
    <3>1. ASSUME NEW o \in Objects(rec)
          PROVE  Kept(o, crt, B, freed)
      <4>1. o.cert = New /\ crt[o.cert] = rec
        BY <1>3, <1>5
      <4>2. /\ o.kind = "pkey" => o \in rec.pkey
            /\ o.kind \in {"x509", "read"} => o \in rec.x509
            /\ o.kind \in {"x509", "req"} => Object(New, "pkey", 0) \in Objects(rec)
        BY DEF MadeFor
      <4> QED
        BY <1>1, <4>1, <4>2 DEF Kept
    <3>2. ASSUME NEW o \in allocated
          PROVE  Kept(o, crt, B, freed)
      <4>1. o.cert \in Certs /\ crt[o.cert] = cert[o.cert]
        BY <1>3, <1>4
      <4>2. Kept(o, cert, allocated, freed)
        BY DEF CertInv, Sound, KeepsItsThings
      <4>3. \A p : Newer(p, allocated \cup freed) => Newer(p, B \cup freed)
        BY DEF Newer
      <4>4. LeftBehind(o, allocated, freed) => LeftBehind(o, B, freed)
        BY <4>3 DEF LeftBehind
      <4> QED
        BY <4>1, <4>2, <4>3, <4>4 DEF Kept
    <3> QED
      BY <3>1, <3>2 DEF KeepsItsThings
  <2> QED
    BY <2>1, <2>2, <2>3 DEF Sound
<1>7. \A o \in allocated \cup Objects(rec) \cup freed :
         o \in Thing /\ o.cert <= made' /\ o.n <= signs'
  <2>1. \A o \in allocated \cup freed : o.cert <= made' /\ o.n <= signs'
    <3>1. \A o \in Thing : o.cert \in Int /\ o.n \in Int
      BY DEF Thing, Certs
    <3> QED
      BY <1>1, <1>4, <3>1 DEF New
  <2>2. \A o \in Objects(rec) : o \in Thing /\ o.cert <= made' /\ o.n <= signs'
    <3>1. New <= made'
      BY <1>1 DEF New
    <3> QED
      BY <3>1 DEF MadeFor
  <2> QED
    BY <1>4, <2>1, <2>2
<1>8. \A c \in h \cup r \cup s : c \in Certs /\ c <= made' /\ Complete(crt[c])
  <2>1. \A c \in Alive : c \in Certs /\ c <= made /\ Complete(cert[c])
    BY DEF CertInv, AliveAreComplete
  <2>2. \A c \in Alive : c # New /\ c <= made'
    BY <1>1, <2>1 DEF Certs, New
  <2>3. New <= made'
    BY <1>1 DEF New
  <2> QED
    BY <1>1, <1>3, <2>1, <2>2, <2>3
<1>9. \A c \in s : WellSigned(crt[c], c)
  <2>1. \A c \in served : c \in Certs /\ WellSigned(cert[c], c)
    BY DEF CertInv, AliveAreComplete, Alive, ServedAreSigned
  <2> QED
    BY <1>3, <2>1
<1>10. Settle(h, r, s, crt, Objects(rec))
  BY DEF crt
<1> QED
  BY <1>1, <1>2, <1>6, <1>7, <1>8, <1>9, <1>10, SettledInv

(* signRequest: the X509 that c had stays behind, under a newer one. *)
LEMMA SignKeepsInv ==
  ASSUME CertInv, NEW c \in Certs, NEW ca \in Certs, signRequest(c, ca)
  PROVE  CertInv'
<1> DEFINE R == Signed(cert[c], c, ca)
           crt == [cert EXCEPT ![c] = R]
           x == Object(c, "x509", signs + 1)
<1>1. /\ c \in Alive /\ signs \in Nat /\ made \in Nat /\ c <= made
      /\ signs' = signs + 1 /\ made' = made /\ Counted'
  BY DEF signRequest, CertInv, Counted, Alive, AliveAreComplete
<1>2. /\ R \in CertRecord /\ WellSigned(R, c) /\ R.x509 = {x}
      /\ R.pkey = cert[c].pkey /\ R.dh = cert[c].dh /\ R.req = cert[c].req
  <2>1. cert[c] \in CertRecord
    BY DEF CertInv
  <2> QED
    BY <1>1, <2>1, SigningSigns
<1>3. Settle(held, root, {c}, crt, {x})
  BY <1>2 DEF signRequest
<1>4. x \in Thing /\ x.cert = c /\ x.kind = "x509" /\ x.n = signs + 1
  BY <1>1, ThingsNamed
<1> HIDE DEF R, x
<1>5. crt \in [Certs -> CertRecord] /\ crt[c] = R /\ \A d \in Certs : d # c => crt[d] = cert[d]
  BY <1>2 DEF CertInv
<1> HIDE DEF crt
<1>6. /\ \A o \in allocated \cup freed : o \in Thing /\ o.cert <= made /\ o.n <= signs
      /\ \A o \in Thing : o.n \in Nat
  BY DEF CertInv, Known, Thing
<1>7. x \notin allocated /\ x \notin freed
  BY <1>1, <1>4, <1>6
<1>8. Sound(crt, allocated \cup {x}, freed)
  <2>1. (allocated \cup {x}) \cap freed = {}
    BY <1>7 DEF CertInv, Sound
  <2>2. OwnsItsThings(crt, allocated \cup {x})
    <3>1. \A o \in Objects(R) : o = x \/ o \in Objects(cert[c])
      BY <1>2 DEF Objects
    <3>2. \A d \in Certs : \A o \in Objects(cert[d]) : o.cert = d /\ o \in allocated
      BY DEF CertInv, Sound, OwnsItsThings
    <3>3. /\ \A d \in Certs : \A o \in cert[d].x509 : o.kind # "pkey"
          /\ \A d \in Certs : \A o \in cert[d].pkey : o = Object(d, "pkey", 0)
      BY DEF CertInv, Sound, OwnsItsThings
    <3>4. /\ \A o \in R.x509 : o.kind # "pkey"
          /\ \A o \in R.pkey : o = Object(c, "pkey", 0)
      BY <1>2, <1>4, <3>3
    <3> QED
      BY <1>4, <1>5, <3>1, <3>2, <3>3, <3>4 DEF OwnsItsThings
  <2>3. KeepsItsThings(crt, allocated \cup {x}, freed)
    <3> DEFINE B == allocated \cup {x}
    <3>1. Kept(x, crt, B, freed)
      <4>1. cert[c].pkey # {} /\ \A o \in cert[c].pkey : o = Object(c, "pkey", 0) /\ o \in allocated
        BY <1>1 DEF CertInv, AliveAreComplete, Complete, Sound, OwnsItsThings, Objects
      <4>2. Object(c, "pkey", 0) \in allocated
        BY <4>1
      <4> QED
        BY <1>2, <1>4, <1>5, <4>2 DEF Kept
    <3>2. ASSUME NEW o \in allocated
          PROVE  Kept(o, crt, B, freed)
      <4>1. Kept(o, cert, allocated, freed)
        BY DEF CertInv, Sound, KeepsItsThings
      <4>2. \A p : Newer(p, allocated \cup freed) => Newer(p, B \cup freed)
        BY DEF Newer
      <4>3. LeftBehind(o, allocated, freed) => LeftBehind(o, B, freed)
        BY <4>2 DEF LeftBehind
      <4>4. o.cert = c => Newer(o, B \cup freed)
        <5>1. o.n <= signs /\ o.n \in Nat
          BY <1>6
        <5>2. x.n > o.n
          BY <1>1, <1>4, <5>1
        <5> QED
          BY <1>4, <5>2 DEF Newer
      <4>5. CASE o.cert = c
        <5>1. crt[o.cert].pkey = cert[o.cert].pkey
          BY <1>2, <1>5, <4>5
        <5>2. cert[o.cert] # Empty
          BY <1>1, <4>5 DEF CertInv, AliveAreComplete, Complete, Empty
        <5> QED
          BY <4>1, <4>4, <4>5, <5>1, <5>2 DEF Kept
      <4>6. CASE o.cert # c
        <5>1. o.cert \in Certs
          BY <4>1 DEF Kept
        <5>2. crt[o.cert] = cert[o.cert]
          BY <1>5, <4>6, <5>1
        <5> QED
          BY <4>1, <4>2, <4>3, <5>2 DEF Kept
      <4> QED
        BY <4>5, <4>6
    <3> QED
      BY <3>1, <3>2 DEF KeepsItsThings
  <2> QED
    BY <2>1, <2>2, <2>3 DEF Sound
<1>9. \A o \in allocated \cup {x} \cup freed : o \in Thing /\ o.cert <= made' /\ o.n <= signs'
  <2>1. \A o \in allocated \cup freed : o \in Thing /\ o.cert <= made' /\ o.n <= signs'
    BY <1>1, <1>6
  <2>2. x.cert <= made' /\ x.n <= signs'
    BY <1>1, <1>4
  <2> QED
    BY <1>4, <2>1, <2>2
<1>10. \A d \in held \cup root \cup {c} : d \in Certs /\ d <= made' /\ Complete(crt[d])
  <2>1. \A d \in Alive : d \in Certs /\ d <= made /\ Complete(cert[d])
    BY DEF CertInv, AliveAreComplete
  <2>2. Complete(crt[c])
    BY <1>1, <1>2, <1>5, <2>1 DEF Complete
  <2> QED
    BY <1>1, <1>5, <2>1, <2>2 DEF Alive
<1>11. \A d \in {c} : WellSigned(crt[d], d)
  BY <1>2, <1>5
<1> QED
  BY <1>1, <1>3, <1>5, <1>8, <1>9, <1>10, <1>11, SettledInv

(* Letting go: what is destroyed is what nobody has, and nothing is made. *)
LEMMA ReleaseKeepsInv ==
  ASSUME CertInv, NEW c \in Certs, Release(c)
  PROVE  CertInv'
<1>1. Settle(held \ {c}, root, served, cert, {}) /\ UNCHANGED <<made, signs>>
  BY DEF Release
<1>2. Sound(cert, allocated \cup {}, freed)
  <2>1. allocated \cup {} = allocated
    OBVIOUS
  <2> QED
    BY <2>1 DEF CertInv
<1>3. Counted'
  BY <1>1 DEF CertInv, Counted
<1>4. \A o \in allocated \cup {} \cup freed : o \in Thing /\ o.cert <= made' /\ o.n <= signs'
  BY <1>1 DEF CertInv, Known
<1>5. \A d \in (held \ {c}) \cup root \cup served : d \in Certs /\ d <= made' /\ Complete(cert[d])
  BY <1>1 DEF CertInv, AliveAreComplete, Alive
<1>6. \A d \in served : WellSigned(cert[d], d)
  BY DEF CertInv, ServedAreSigned
<1>7. cert \in [Certs -> CertRecord]
  BY DEF CertInv
<1> QED
  BY <1>1, <1>2, <1>3, <1>4, <1>5, <1>6, <1>7, SettledInv

(* The calls that make a certificate, and keep it or not. *)
Making == \/ newCertificate \/ newCertRootLocalhost \/ newRequest \/ newCertServerLocalhost
          \/ \E parts \in 0..3 : loadCertificate(parts)

LEMMA MakingKeepsInv ==
  ASSUME CertInv, Making
  PROVE  CertInv'
<1>1. Fresh /\ made \in Nat /\ signs \in Nat /\ New \in Certs
  <2>1. Fresh
    BY DEF Making, newCertificate, newCertRootLocalhost, newRequest, newCertServerLocalhost,
           loadCertificate
  <2> QED
    BY <2>1, CertificatesAssumption DEF CertInv, Counted, Fresh, New, Certs
<1>2. New \notin served /\ served \subseteq Alive /\ root \subseteq Alive /\ held \subseteq Alive
  BY <1>1 DEF CertInv, AliveAreComplete, Alive, New
<1>3. CASE newCertificate
  <2>1. /\ Settle(held \cup {New}, root, served, [cert EXCEPT ![New] = SelfSigned(New)],
                  Objects(SelfSigned(New)))
        /\ signs' = signs
    BY <1>3 DEF newCertificate
  <2> QED
    BY <1>1, <1>2, <2>1, SelfSignedIsMade, NewCertInv
<1>4. CASE newCertRootLocalhost
  <2>1. /\ Settle(held \cup {New}, {New}, served, [cert EXCEPT ![New] = SelfSigned(New)],
                  Objects(SelfSigned(New)))
        /\ signs' = signs
    BY <1>4 DEF newCertRootLocalhost
  <2> QED
    BY <1>1, <1>2, <2>1, SelfSignedIsMade, NewCertInv
<1>5. CASE newRequest
  <2>1. /\ Settle(held \cup {New}, root, served, [cert EXCEPT ![New] = Request(New)],
                  Objects(Request(New)))
        /\ signs' = signs
    BY <1>5 DEF newRequest
  <2> QED
    BY <1>1, <1>2, <2>1, RequestIsMade, NewCertInv
<1>6. CASE newCertServerLocalhost
  <2> DEFINE R(ca) == Signed(Request(New), New, ca)
  <2>1. PICK ca \in root : Settle(held \cup {New}, root, {New}, [cert EXCEPT ![New] = R(ca)],
                                 Objects(R(ca)))
    BY <1>6 DEF newCertServerLocalhost
  <2>2. signs' = signs + 1
    BY <1>6 DEF newCertServerLocalhost
  <2>3. ca \in Certs /\ New # ca
    BY <1>1, <1>2 DEF CertInv, AliveAreComplete, New
  <2>4. MadeFor(Request(New), New, signs') /\ Complete(Request(New)) /\ Request(New) \in CertRecord
    BY <1>1, <2>2, RequestIsMade DEF MadeFor
  <2>5. /\ R(ca) \in CertRecord /\ WellSigned(R(ca), New)
        /\ R(ca).x509 = {Object(New, "x509", signs + 1)}
        /\ R(ca).pkey = Request(New).pkey /\ R(ca).dh = Request(New).dh
        /\ R(ca).req = Request(New).req
    BY <1>1, <2>3, <2>4, SigningSigns
  <2> HIDE DEF R
  <2>6. MadeFor(R(ca), New, signs')
    <3>1. \A o \in Objects(R(ca)) : o = Object(New, "x509", signs + 1) \/ o \in Objects(Request(New))
      BY <2>5 DEF Objects
    <3>2. LET x == Object(New, "x509", signs + 1)
          IN  x \in Thing /\ x.cert = New /\ x.kind = "x509" /\ x.n <= signs'
      BY <1>1, <2>2, ThingsNamed
    <3>3. \A o \in Objects(Request(New)) :
             /\ o \in Thing /\ o.cert = New /\ o.n <= signs'
             /\ o.kind = "pkey" => o \in R(ca).pkey
             /\ o.kind \notin {"x509", "read"}
      <4>1. Request(New).x509 = {}
        BY DEF Request, WithKeys, Empty
      <4> QED
        BY <2>4, <2>5, <4>1 DEF MadeFor
    <3>4. /\ R(ca).pkey = {Object(New, "pkey", 0)}
          /\ Object(New, "pkey", 0) \in Objects(R(ca))
      BY <2>5 DEF Request, WithKeys, Empty, Objects
    <3> QED
      BY <2>5, <3>1, <3>2, <3>3, <3>4 DEF MadeFor
  <2>7. Complete(R(ca))
    BY <2>4, <2>5 DEF Complete
  <2> QED
    BY <1>1, <1>2, <2>1, <2>2, <2>5, <2>6, <2>7, NewCertInv DEF R
<1>7. ASSUME NEW parts \in 0..3, loadCertificate(parts) PROVE CertInv'
  <2> DEFINE R == Loaded(New, parts)
  <2>1. /\ Settle(HeldAfterLoad(parts), root, served, [cert EXCEPT ![New] = R], Objects(R))
        /\ signs' = signs
    BY <1>7 DEF loadCertificate
  <2>2. /\ HeldAfterLoad(parts) \subseteq held \cup {New}
        /\ New \in HeldAfterLoad(parts) => parts = 3
    BY <1>1, <1>2 DEF HeldAfterLoad, HeldAfterLoadLast, CertInv, AliveAreComplete, New
  <2>3. New \notin root
    BY <1>1, <1>2 DEF CertInv, AliveAreComplete, New
  <2>4. MadeFor(R, New, signs') /\ (parts = 3 => Complete(R))
    BY <1>1, <2>1, LoadedIsMade
  <2> QED
    BY <1>1, <1>2, <2>1, <2>2, <2>3, <2>4, NewCertInv
<1> QED
  BY <1>3, <1>4, <1>5, <1>6, <1>7 DEF Making

LEMMA CertInvInit == Init => CertInv
<1> SUFFICES ASSUME Init PROVE CertInv
  OBVIOUS
<1>1. Counted /\ cert \in [Certs -> CertRecord]
  BY EmptyRecord, CertificatesAssumption DEF Init, Counted
<1>2. \A c \in Certs : Objects(cert[c]) = {}
  BY EmptyRecord DEF Init
<1>3. Sound(cert, allocated, freed) /\ Known
  BY <1>2, EmptyRecord DEF Init, Sound, OwnsItsThings, KeepsItsThings, Known, Empty
<1> QED
  BY <1>1, <1>3 DEF Init, CertInv, UsedAreAlive, AliveAreComplete, ServedAreSigned, Alive

LEMMA CertInvNext == CertInv /\ [Next]_vars => CertInv'
<1> SUFFICES ASSUME CertInv, [Next]_vars PROVE CertInv'
  OBVIOUS
<1>1. ASSUME UNCHANGED <<made, signs, cert, held, managerVars, heapVars>> PROVE CertInv'
  BY <1>1 DEF managerVars, heapVars, CertInv, Counted, Known, UsedAreAlive, AliveAreComplete,
              ServedAreSigned, Alive
<1>2. CASE newCertServerWithoutRoot \/ \E c, ca \in Certs : signWithRequest(c, ca)
  BY <1>1, <1>2 DEF newCertServerWithoutRoot, signWithRequest, Dies
<1>3. CASE \E c \in Certs : useCertificate(c) \/ getInfoOfRequest(c)
  BY <1>1, <1>3 DEF useCertificate, getInfoOfRequest, Dies
<1>4. CASE UNCHANGED vars
  BY <1>1, <1>4 DEF vars
<1> QED
  BY <1>2, <1>3, <1>4, MakingKeepsInv, SignKeepsInv, ReleaseKeepsInv DEF Next, Making

(***************************************************************************)
(* What follows from the invariant.                                        *)
(***************************************************************************)
LEMMA PointersFollow == CertInv => PointersAreValid
<1> SUFFICES ASSUME CertInv PROVE PointersAreValid
  OBVIOUS
<1>1. \A c \in Alive : c \in Certs /\ cert[c].pkey # {}
  BY DEF CertInv, AliveAreComplete, Complete
<1>2. \A c \in Alive : cert[c] # Empty
  BY <1>1 DEF Empty
<1>3. \A c \in Certs : \A o \in Objects(cert[c]) : o.cert = c /\ o \in allocated
  BY DEF CertInv, Sound, OwnsItsThings
<1>4. allocated \cap freed = {}
  BY DEF CertInv, Sound
<1> QED
  BY <1>1, <1>2, <1>3, <1>4 DEF PointersAreValid

LEMMA KeysFollow == CertInv => KeysFreedUnlessReferred
<1> SUFFICES ASSUME CertInv, NEW o \in allocated
             PROVE  /\ o.kind = "pkey" =>
                          \/ o.cert \in Alive /\ o \in cert[o.cert].pkey
                          \/ \E p \in allocated :
                                p.cert = o.cert /\ (p.kind = "req" \/ (p.kind = "x509" /\ Replaced(p)))
                    /\ o.kind \in {"x509", "read"} =>
                          (o.cert \in Alive /\ o \in cert[o.cert].x509) \/ Replaced(o)
                    /\ o.kind \in {"x509", "req"} => Object(o.cert, "pkey", 0) \in allocated
  BY DEF KeysFreedUnlessReferred
<1>1. Kept(o, cert, allocated, freed)
  BY DEF CertInv, Sound, KeepsItsThings
<1>2. \A c \in Certs : cert[c].pkey # {} \/ cert[c].x509 # {} => c \in Alive
  BY DEF CertInv, UsedAreAlive, Empty
<1>3. \A p : Newer(p, allocated \cup freed) <=> Replaced(p)
  BY DEF Newer, Replaced
<1>4. LeftBehind(o, allocated, freed) =>
         \E p \in allocated : p.cert = o.cert /\ (p.kind = "req" \/ (p.kind = "x509" /\ Replaced(p)))
  BY <1>3, Zenon DEF LeftBehind
<1> QED
  BY <1>1, <1>2, <1>3, <1>4 DEF Kept

LEMMA SignedFollow == CertInv => ServerIsSigned
  BY DEF CertInv, ServedAreSigned, WellSigned, AliveAreComplete, Alive, Complete,
         ServerIsSigned, Usable, getCertStr, getPrivateKeyStr, getDhStr

(* A certificate of which not all could be loaded goes before anybody has  *)
(* had a pointer to it.                                                    *)
LEMMA FailureStep ==
  ASSUME CertInv, Next, rc' = {-1}
  PROVE  UNCHANGED <<held, managerVars, cert>>
<1>1. CASE \E c \in Certs : useCertificate(c)
  BY <1>1 DEF useCertificate
<1>2. ASSUME NEW parts \in 0..3, loadCertificate(parts)
      PROVE  UNCHANGED <<held, managerVars, cert>>
  <2> DEFINE R == Loaded(New, parts)
             crt == [cert EXCEPT ![New] = R]
  <2>1. parts # 3 /\ Settle(held, root, served, crt, Objects(R))
    BY <1>2 DEF loadCertificate, HeldAfterLoad, HeldAfterLoadLast
  <2>2. UNCHANGED <<held, managerVars>>
    BY <2>1 DEF Settle, managerVars
  <2>3. /\ cert \in [Certs -> CertRecord] /\ New \in Certs
        /\ New \notin Alive /\ cert[New] = Empty
    <3>1. Fresh /\ made \in Nat /\ New \in Certs
      BY <1>2, CertificatesAssumption DEF loadCertificate, CertInv, Counted, Fresh, New, Certs
    <3>2. New \notin Alive
      BY <3>1 DEF CertInv, AliveAreComplete, New
    <3> QED
      BY <3>1, <3>2 DEF CertInv, UsedAreAlive
  <2>4. \A c \in Certs : cert'[c] = IF c \in Alive \/ crt[c] = Empty THEN crt[c] ELSE Empty
    <3>1. cert' = [c \in Certs |-> IF c \in {d \in Certs : crt[d] # Empty} \ (held \cup root \cup served)
                                   THEN Empty ELSE crt[c]]
      BY <2>1 DEF Settle, Users, EmbeddersAndManagers
    <3> QED
      BY <3>1 DEF Alive
  <2>5. \A c \in Certs : c # New => crt[c] = cert[c]
    BY <2>3
  <2>6. \A c \in Certs : cert'[c] = cert[c]
    BY <2>3, <2>4, <2>5 DEF CertInv, UsedAreAlive
  <2>7. DOMAIN cert' = Certs /\ cert' = [c \in Certs |-> cert'[c]]
    BY <2>1 DEF Settle
  <2>8. cert = [c \in Certs |-> cert[c]]
    BY <2>3
  <2> QED
    BY <2>2, <2>6, <2>7, <2>8
<1>3. rc' # {} /\ rc' # {0}
  <2>1. -1 \in rc'
    OBVIOUS
  <2> QED
    BY <2>1
<1>4. ASSUME NEW c \in Certs, NEW ca \in Certs
      PROVE  ~signRequest(c, ca) /\ ~signWithRequest(c, ca) /\ ~Release(c) /\ ~getInfoOfRequest(c)
  BY <1>3 DEF signRequest, signWithRequest, Release, getInfoOfRequest, Dies
<1>5. ~newCertificate /\ ~newCertRootLocalhost /\ ~newRequest /\ ~newCertServerLocalhost
      /\ ~newCertServerWithoutRoot
  BY <1>3 DEF newCertificate, newCertRootLocalhost, newRequest, newCertServerLocalhost,
              newCertServerWithoutRoot, Dies
<1> QED
  BY <1>1, <1>2, <1>4, <1>5 DEF Next

(* Without files and crashes: pointers stay valid, a key stays behind its  *)
(* certificate only for a request or a replaced X509 that refers to it,    *)
(* the server's certificate stays signed, and calls that fail change       *)
(* nothing, whatever is made, signed, loaded, replaced and let go.         *)
THEOREM CertificatesAreSound ==
  Spec => [](PointersAreValid /\ KeysFreedUnlessReferred /\ ServerIsSigned) /\ FailureChangesNothing
<1>1. CertInv /\ [Next]_vars => [rc' = {-1} => UNCHANGED <<held, managerVars, cert>>]_vars
  BY FailureStep
<1> QED
  BY <1>1, CertInvInit, CertInvNext, PointersFollow, KeysFollow, SignedFollow, PTL
     DEF Spec, FailureChangesNothing

-----------------------------------------------------------------------------
(***************************************************************************)
(* With files.                                                             *)
(***************************************************************************)

(***************************************************************************)
(* Every step that is not a crash is a step of Certificates, or leaves the *)
(* certificates alone.                                                     *)
(***************************************************************************)
LEMMA CallIsNext == Call => Next
<1>1. Make => Next
  BY DEF Make, Next
<1>2. Sign => Next
  BY DEF Sign, Next
<1>3. LetGo => Next
  BY DEF LetGo, Next
<1>4. Load => Next
  <2>1. Readable \in 0..3
    BY DEF Readable
  <2> QED
    BY <2>1 DEF Load, Next
<1>5. LeavePairs => Next
  BY DEF LeavePairs, Next
<1> QED
  BY <1>1, <1>2, <1>3, <1>4, <1>5 DEF Call

LEMMA RestartKeepsInv == CertInv /\ Restart => CertInv'
<1> SUFFICES ASSUME CertInv, Restart PROVE CertInv'
  OBVIOUS
<1>1. /\ cert' = [c \in Certs |-> Empty] /\ allocated' = {} /\ freed' = {}
      /\ held' = {} /\ root' = {} /\ served' = {} /\ UNCHANGED <<made, signs>>
  BY DEF Restart
<1>2. \A c \in Certs : Objects(cert'[c]) = {}
  BY <1>1, EmptyRecord
<1>3. Sound(cert', allocated', freed') /\ Known'
  BY <1>1, <1>2, EmptyRecord DEF Sound, OwnsItsThings, KeepsItsThings, Known, Empty
<1>4. Counted' /\ cert' \in [Certs -> CertRecord]
  BY <1>1, EmptyRecord DEF CertInv, Counted
<1> QED
  BY <1>1, <1>3, <1>4 DEF CertInv, UsedAreAlive, AliveAreComplete, ServedAreSigned, Alive

LEMMA CertInvNextFiles == CertInv /\ [NextFiles]_allVars => CertInv'
<1> SUFFICES ASSUME CertInv, [NextFiles]_allVars PROVE CertInv'
  OBVIOUS
<1>1. CASE Call
  BY <1>1, CallIsNext, CertInvNext
<1>2. CASE Save \/ UNCHANGED allVars
  <2>1. UNCHANGED <<made, signs, cert, held, managerVars, heapVars>>
    BY <1>2 DEF Save, SaveBegin, SaveOpenKey, SaveFlushKey, SaveFlushCert, allVars, vars
  <2> QED
    BY <2>1 DEF managerVars, heapVars, CertInv, Counted, Known, UsedAreAlive, AliveAreComplete,
                ServedAreSigned, Alive
<1>3. CASE Restart
  BY <1>3, RestartKeepsInv
<1> QED
  BY <1>1, <1>2, <1>3 DEF NextFiles

(* What a certificate points to exists and is its own, whatever is made,   *)
(* signed, loaded, replaced and let go, and wherever the process crashes.  *)
THEOREM PointersStayValid == SpecFiles => []PointersAreValid
BY CertInvInit, CertInvNextFiles, PointersFollow, PTL DEF SpecFiles, InitFiles

(* A key outlives its certificate only where an X509_REQ, or an X509 that  *)
(* signRequest replaced, stays and refers to it, and no other X509 stays,  *)
(* whatever file is missing or broken when a certificate is loaded; what   *)
(* refers to a key finds it.                                               *)
THEOREM OnlyReferredKeysStay == SpecFiles => []KeysFreedUnlessReferred
BY CertInvInit, CertInvNextFiles, KeysFollow, PTL DEF SpecFiles, InitFiles

(* What the manager keeps for the server is complete, and signed by the    *)
(* certificate that it names, or, where the embedder asked for that, by    *)
(* itself (newCertServerLocalhost, signRequest).                           *)
THEOREM ServerStaysSigned == SpecFiles => []ServerIsSigned
BY CertInvInit, CertInvNextFiles, SignedFollow, PTL DEF SpecFiles, InitFiles

(* A call that returns -1 changes no certificate, whatever it found in the *)
(* files.                                                                  *)
THEOREM FailedLoadsChangeNothing == SpecFiles => FailureChangesNothing
<1>1. CertInv /\ [NextFiles]_allVars => [rc' = {-1} => UNCHANGED <<held, managerVars, cert>>]_vars
  <2> SUFFICES ASSUME CertInv, [NextFiles]_allVars, rc' = {-1}, vars' # vars
               PROVE  UNCHANGED <<held, managerVars, cert>>
    OBVIOUS
  <2>1. CASE Call
    BY <2>1, CallIsNext, FailureStep
  <2>2. CASE Save
    BY <2>2 DEF Save, SaveBegin, SaveOpenKey, SaveFlushKey, SaveFlushCert
  <2>3. ~Restart
    <3>1. -1 \in rc' /\ rc' # {0}
      OBVIOUS
    <3> QED
      BY <3>1 DEF Restart
  <2>4. ~UNCHANGED allVars
    BY DEF allVars
  <2> QED
    BY <2>1, <2>2, <2>3, <2>4 DEF NextFiles
<1> QED
  BY <1>1, CertInvInit, CertInvNextFiles, PTL DEF SpecFiles, InitFiles, FailureChangesNothing

(***************************************************************************)
(* The pair on the disk.  While saveCertificate is at work, what it has    *)
(* opened is empty but for what it has written, and that is of the pair    *)
(* that is being saved; the certificate, written last, meets an empty key  *)
(* file or its own key.  Nothing holds of a file that was refused.         *)
(***************************************************************************)
PairRecord == [cert : SUBSET Nat, key : SUBSET Nat]
DiskRecord == [cert : SUBSET Nat, key : SUBSET Nat, dh : BOOLEAN]

PairsTyped ==
    /\ pair \in [Certs -> PairRecord]
    /\ disk \in DiskRecord
    /\ saving \subseteq Certs /\ \A c, d \in saving : c = d
    /\ step \in {"idle", "openKey", "flushKey", "flushCert"}

CertificateOpen == opened = {"cert"} /\ disk.cert = {}
BothOpen == opened = {"cert", "key"} /\ disk.cert = {}

SavingInOrder ==
    /\ step = "openKey" => CertificateOpen
    /\ step = "flushKey" => BothOpen /\ disk.key = {}
    /\ step = "flushCert" => BothOpen /\ \A c \in saving : disk.key \in {{}, pair[c].key}

PairsFit == PairFits(disk) /\ \A c \in Certs : PairFits(pair[c])

FilesInv ==
    /\ PairsTyped
    /\ step = "idle" => opened = {}
    /\ refused \/ (PairsFit /\ SavingInOrder)

LEMMA PairsAreFit ==
  ASSUME NEW p \in [Certs -> PairRecord], PairsAre(p)
  PROVE  /\ pair' \in [Certs -> PairRecord]
         /\ (\A c \in Certs : PairFits(p[c])) => \A c \in Certs : PairFits(pair'[c])
<1>1. NoPair \in PairRecord /\ PairFits(NoPair)
  BY DEF NoPair, PairRecord, PairFits
<1>2. pair' = [c \in Certs |-> IF cert'[c] = Empty THEN NoPair ELSE p[c]]
  BY DEF PairsAre
<1> QED
  BY <1>1, <1>2

(* One certificate's pair changes. *)
LEMMA OnePairChanges ==
  ASSUME PairsTyped, NEW c, NEW q \in PairRecord, PairsAre([pair EXCEPT ![c] = q])
  PROVE  /\ pair' \in [Certs -> PairRecord]
         /\ PairFits(q) /\ (\A d \in Certs : PairFits(pair[d]))
               => \A d \in Certs : PairFits(pair'[d])
<1>1. [pair EXCEPT ![c] = q] \in [Certs -> PairRecord]
  BY DEF PairsTyped
<1>2. \A d \in Certs : [pair EXCEPT ![c] = q][d] = IF d = c THEN q ELSE pair[d]
  BY DEF PairsTyped
<1> DEFINE p == [pair EXCEPT ![c] = q]
<1>3. p \in [Certs -> PairRecord] /\ PairsAre(p) /\ \A d \in Certs : p[d] = IF d = c THEN q ELSE pair[d]
  BY <1>1, <1>2
<1> HIDE DEF p
<1>4. /\ pair' \in [Certs -> PairRecord]
      /\ (\A d \in Certs : PairFits(p[d])) => \A d \in Certs : PairFits(pair'[d])
  BY <1>3, PairsAreFit
<1>5. PairFits(q) /\ (\A d \in Certs : PairFits(pair[d])) => \A d \in Certs : PairFits(p[d])
  BY <1>3
<1> QED
  BY <1>4, <1>5

(* Whatever is made, signed or loaded has the pair of its own key, or that *)
(* of the files, which fits if theirs does.                                *)
LEMMA CallKeepsPairs ==
  ASSUME PairsTyped, made \in Nat, Call
  PROVE  /\ pair' \in [Certs -> PairRecord]
         /\ PairsFit => PairsFit'
<1>1. UNCHANGED disk
  BY DEF Call
<1>2. New \in Nat
  BY DEF New
<1>3. CASE Make
  <2>1. OwnPair(New) \in PairRecord /\ PairFits(OwnPair(New))
    BY <1>2 DEF OwnPair, PairRecord, PairFits
  <2>2. LET q == [NoPair EXCEPT !.key = {New}] IN q \in PairRecord /\ PairFits(q)
    BY <1>2 DEF NoPair, PairRecord, PairFits
  <2>3. \/ PairsAre([pair EXCEPT ![New] = OwnPair(New)])
        \/ PairsAre([pair EXCEPT ![New] = [NoPair EXCEPT !.key = {New}]])
    BY <1>3 DEF Make
  <2> QED
    BY <1>1, <2>1, <2>2, <2>3, OnePairChanges DEF PairsFit
<1>4. CASE Sign
  <2>1. PICK c \in Certs : PairsAre([pair EXCEPT ![c] = Certified(c)])
    BY <1>4 DEF Sign
  <2>2. Certified(c) \in PairRecord /\ PairFits(Certified(c))
    BY DEF PairsTyped, PairRecord, Certified, PairFits
  <2> QED
    BY <1>1, <2>1, <2>2, OnePairChanges DEF PairsFit
<1>5. CASE Load
  <2> DEFINE q == [cert |-> disk.cert, key |-> disk.key]
  <2>1. q \in PairRecord /\ (PairFits(disk) => PairFits(q))
    BY DEF PairsTyped, PairRecord, DiskRecord, PairFits
  <2>2. PairsAre([pair EXCEPT ![New] = q])
    BY <1>5 DEF Load
  <2> HIDE DEF q
  <2> QED
    BY <1>1, <2>1, <2>2, OnePairChanges DEF PairsFit
<1>6. CASE LetGo
  <2>1. pair \in [Certs -> PairRecord] /\ PairsAre(pair)
    BY <1>6 DEF LetGo, PairsTyped
  <2> QED
    BY <1>1, <2>1, PairsAreFit DEF PairsFit
<1>7. CASE LeavePairs
  BY <1>1, <1>7 DEF LeavePairs, PairsTyped, PairsFit
<1> QED
  BY <1>3, <1>4, <1>5, <1>6, <1>7 DEF Call

LEMMA FilesInvInit == InitFiles => FilesInv
<1> SUFFICES ASSUME InitFiles PROVE FilesInv
  OBVIOUS
<1>1. NoPair \in PairRecord /\ PairFits(NoPair)
  BY DEF NoPair, PairRecord, PairFits
<1>2. pair = [c \in Certs |-> NoPair] /\ saving = {} /\ step = "idle" /\ opened = {}
  BY DEF InitFiles
<1>3. disk \in DiskRecord /\ PairFits(disk)
  <2>1. CASE disk \in [cert : {{0}}, key : {{0}}, dh : BOOLEAN]
    BY <2>1 DEF PairFits, DiskRecord
  <2>2. CASE disk \in [cert : {{}}, key : {{}}, dh : BOOLEAN]
    BY <2>2 DEF PairFits, DiskRecord
  <2> QED
    BY <2>1, <2>2 DEF InitFiles
<1> QED
  BY <1>1, <1>2, <1>3 DEF FilesInv, PairsTyped, PairsFit, SavingInOrder

(* Opening a file empties it, or it is refused. *)
LEMMA OpeningEmpties ==
  ASSUME disk \in DiskRecord, NEW file \in {"cert", "key"}, NEW next, OpenFile(file, next)
  PROVE  /\ disk' \in DiskRecord
         /\ \/ refused'
            \/ /\ UNCHANGED refused /\ opened' = opened \cup {file} /\ disk'[file] = {}
               /\ \A g \in {"cert", "key"} \ {file} : disk'[g] = disk[g]
  BY DEF OpenFile, Truncated, TruncatedAtOnce, DiskRecord

(* Flushing writes the pair's part, or loses it. *)
LEMMA FlushingWrites ==
  ASSUME disk \in DiskRecord, NEW file \in {"cert", "key"}, NEW c \in Certs,
         pair[c] \in PairRecord, file \in opened, Flush(file, c)
  PROVE  /\ disk' \in DiskRecord /\ disk'[file] \in {pair[c][file], {}}
         /\ \A g \in {"cert", "key"} \ {file} : disk'[g] = disk[g]
<1>1. PICK p \in {pair[c][file], {}} : disk' = [disk EXCEPT ![file] = p]
  BY DEF Flush, Truncated, TruncatedAtOnce
<1>2. p \in SUBSET Nat
  BY DEF PairRecord
<1> QED
  BY <1>1, <1>2 DEF DiskRecord

(* A file that was not opened stays as it is. *)
LEMMA FlushingTypes ==
  ASSUME disk \in DiskRecord, NEW file \in {"cert", "key"}, NEW c \in Certs,
         pair[c] \in PairRecord, Flush(file, c)
  PROVE  disk' \in DiskRecord
<1>1. CASE file \in opened
  BY <1>1, FlushingWrites
<1>2. CASE file \notin opened
  BY <1>2 DEF Flush
<1> QED
  BY <1>1, <1>2

LEMMA BeginKeepsInv ==
  ASSUME FilesInv, NEW c \in Certs, SaveBegin(c)
  PROVE  FilesInv'
<1>1. /\ OpenFile("cert", "openKey") /\ saving' = {c} /\ step = "idle" /\ opened = {}
      /\ step' = "openKey" /\ UNCHANGED pair
  BY DEF SaveBegin, Idle, OpenFile, FilesInv
<1>2. disk \in DiskRecord
  BY DEF FilesInv, PairsTyped
<1>3. /\ disk' \in DiskRecord
      /\ refused' \/ (UNCHANGED refused /\ opened' = {"cert"} /\ disk'.cert = {} /\ disk'.key = disk.key)
  BY <1>1, <1>2, OpeningEmpties
<1>4. PairsTyped'
  BY <1>1, <1>3 DEF FilesInv, PairsTyped
<1> QED
  BY <1>1, <1>3, <1>4
     DEF FilesInv, PairsFit, PairFits, SavingInOrder, CertificateOpen, BothOpen

LEMMA OpenKeyKeepsInv ==
  ASSUME FilesInv, SaveOpenKey
  PROVE  FilesInv'
<1>1. /\ OpenFile("key", "flushKey") /\ step = "openKey" /\ step' = "flushKey"
      /\ UNCHANGED <<pair, saving>>
  BY DEF SaveOpenKey, OpenFile
<1>2. disk \in DiskRecord
  BY DEF FilesInv, PairsTyped
<1>3. /\ disk' \in DiskRecord
      /\ \/ refused'
         \/ /\ UNCHANGED refused /\ opened' = opened \cup {"key"}
            /\ disk'.key = {} /\ disk'.cert = disk.cert
  BY <1>1, <1>2, OpeningEmpties
<1>4. PairsTyped'
  BY <1>1, <1>3 DEF FilesInv, PairsTyped
<1> QED
  BY <1>1, <1>3, <1>4
     DEF FilesInv, PairsFit, PairFits, SavingInOrder, CertificateOpen, BothOpen

LEMMA FlushKeyKeepsInv ==
  ASSUME FilesInv, SaveFlushKey
  PROVE  FilesInv'
<1>1. PICK c \in saving : Flush("key", c)
  BY DEF SaveFlushKey
<1>2. /\ step = "flushKey" /\ step' = "flushCert"
      /\ UNCHANGED <<pair, saving, opened, refused>>
  BY DEF SaveFlushKey
<1>3. disk \in DiskRecord /\ c \in Certs /\ pair[c] \in PairRecord /\ \A d \in saving : d = c
  BY DEF FilesInv, PairsTyped
<1>4. PairsTyped'
  <2>1. disk' \in DiskRecord
    BY <1>1, <1>3, FlushingTypes
  <2> QED
    BY <1>2, <2>1 DEF FilesInv, PairsTyped
<1>5. ASSUME ~refused PROVE PairsFit' /\ SavingInOrder'
  <2>1. PairsFit /\ opened = {"cert", "key"} /\ disk.cert = {}
    BY <1>2, <1>5 DEF FilesInv, SavingInOrder, BothOpen
  <2>2. disk'.key \in {pair[c].key, {}} /\ disk'.cert = disk.cert
    BY <1>1, <1>3, <2>1, FlushingWrites
  <2>3. PairsFit'
    BY <1>2, <2>1, <2>2 DEF PairsFit, PairFits
  <2>4. SavingInOrder'
    BY <1>2, <1>3, <2>1, <2>2 DEF SavingInOrder, BothOpen
  <2> QED
    BY <2>3, <2>4
<1> QED
  BY <1>2, <1>4, <1>5 DEF FilesInv

LEMMA FlushCertKeepsInv ==
  ASSUME FilesInv, SaveFlushCert
  PROVE  FilesInv'
<1>1. PICK c \in saving : Flush("cert", c)
  BY DEF SaveFlushCert
<1>2. /\ step = "flushCert" /\ step' = "idle" /\ saving' = {} /\ opened' = {}
      /\ UNCHANGED <<pair, refused>>
  BY DEF SaveFlushCert
<1>3. disk \in DiskRecord /\ c \in Certs /\ pair[c] \in PairRecord
  BY DEF FilesInv, PairsTyped
<1>4. PairsTyped'
  <2>1. disk' \in DiskRecord
    BY <1>1, <1>3, FlushingTypes
  <2> QED
    BY <1>2, <2>1 DEF FilesInv, PairsTyped
<1>5. ASSUME ~refused PROVE PairsFit' /\ SavingInOrder'
  <2>1. PairsFit /\ opened = {"cert", "key"} /\ disk.key \in {{}, pair[c].key}
    BY <1>2, <1>5 DEF FilesInv, SavingInOrder, BothOpen
  <2>2. disk'.cert \in {pair[c].cert, {}} /\ disk'.key = disk.key
    BY <1>1, <1>3, <2>1, FlushingWrites
  <2>3. PairFits(pair[c])
    BY <1>3, <2>1 DEF PairsFit
  <2>4. PairFits(disk')
    BY <2>1, <2>2, <2>3 DEF PairFits
  <2>5. SavingInOrder'
    BY <1>2 DEF SavingInOrder
  <2> QED
    BY <1>2, <2>1, <2>4, <2>5 DEF PairsFit
<1> QED
  BY <1>2, <1>4, <1>5 DEF FilesInv

LEMMA FilesInvNext == FilesInv /\ made \in Nat /\ [NextFiles]_allVars => FilesInv'
<1> SUFFICES ASSUME FilesInv, made \in Nat, [NextFiles]_allVars PROVE FilesInv'
  OBVIOUS
<1>1. CASE Call
  <2>1. UNCHANGED <<disk, saving, step, opened, refused>> /\ step = "idle"
    BY <1>1 DEF Call, Idle, saveVars
  <2>2. pair' \in [Certs -> PairRecord] /\ (PairsFit => PairsFit')
    BY <1>1, CallKeepsPairs DEF FilesInv
  <2>3. PairsTyped'
    BY <2>1, <2>2 DEF FilesInv, PairsTyped
  <2> QED
    BY <2>1, <2>2, <2>3 DEF FilesInv, SavingInOrder
<1>2. CASE Save
  BY <1>2, BeginKeepsInv, OpenKeyKeepsInv, FlushKeyKeepsInv, FlushCertKeepsInv DEF Save
<1>3. CASE Restart
  <2>1. /\ pair' = [c \in Certs |-> NoPair] /\ UNCHANGED <<disk, refused>>
        /\ saving' = {} /\ step' = "idle" /\ opened' = {}
    BY <1>3 DEF Restart
  <2>2. NoPair \in PairRecord /\ PairFits(NoPair)
    BY DEF NoPair, PairRecord, PairFits
  <2>3. PairsTyped'
    BY <2>1, <2>2 DEF FilesInv, PairsTyped
  <2>4. PairsFit => PairsFit'
    BY <2>1, <2>2 DEF PairsFit
  <2> QED
    BY <2>1, <2>3, <2>4 DEF FilesInv, SavingInOrder
<1>4. CASE UNCHANGED allVars
  BY <1>4 DEF allVars, saveVars, FilesInv, PairsTyped, PairsFit, SavingInOrder,
              CertificateOpen, BothOpen
<1> QED
  BY <1>1, <1>2, <1>3, <1>4 DEF NextFiles

(* Wherever the process ends while it saves, and whatever write is lost,   *)
(* the certificate that is loaded and its key are a pair; only a file that *)
(* could not be opened breaks it.                                          *)
THEOREM LoadedPairsFit == SpecFiles => []LoadedPairFits
<1>1. FilesInv => LoadedPairFits
  BY DEF FilesInv, PairsFit, LoadedPairFits
<1>2. CertInv => made \in Nat
  BY DEF CertInv, Counted
<1> QED
  BY <1>1, <1>2, FilesInvInit, FilesInvNext, CertInvInit, CertInvNextFiles, PTL
     DEF SpecFiles, InitFiles
=============================================================================
