-------------------------- MODULE CertificateFiles -------------------------
(***************************************************************************)
(* Certificates with the files they are kept in: saveCertificate, step by  *)
(* step, loadCertificate reading what is there, and a process that may end *)
(* at any moment and start again.                                          *)
(*                                                                         *)
(* The settings name the files saveCertificate writes, and the DH          *)
(* parameters, which it does not write, lie where the administrator put    *)
(* them or nowhere.  A key pair is named by the certificate it was made    *)
(* for, 0 being the one the files came with; a file holds nothing, being   *)
(* absent, empty or cut short, or one thing.                               *)
(***************************************************************************)
EXTENDS Certificates

VARIABLES
    disk,      \* the pairs that the certificate and the key file belong to,
               \* and whether there is a file of DH parameters
    pair,      \* [Certs -> the pairs its X509 and its key belong to]
    saving,    \* the certificate saveCertificate is saving
    step,      \* where it is
    opened,    \* the files it could open
    refused    \* has a file ever been refused to it?

saveVars == <<saving, step, opened, refused>>
allVars == <<vars, disk, pair, saveVars>>

NoPair == [cert |-> {}, key |-> {}]

InitFiles ==
    /\ Init
    /\ disk \in [cert : {{0}}, key : {{0}}, dh : BOOLEAN]
                    \cup [cert : {{}}, key : {{}}, dh : BOOLEAN]
    /\ pair = [c \in Certs |-> NoPair]
    /\ saving = {} /\ step = "idle" /\ opened = {} /\ refused = FALSE

-----------------------------------------------------------------------------
(* Making, signing and loading *)

Idle == step = "idle"

(* The pairs p, but for the certificates the call destroyed. *)
PairsAre(p) == pair' = [c \in Certs |-> IF cert'[c] = Empty THEN NoPair ELSE p[c]]

(* A new key pair, and an X509 that carries its public half ... *)
OwnPair(c) == [cert |-> {c}, key |-> {c}]

(* ... as the one that signRequest makes carries that of c's key. *)
Certified(c) == [pair[c] EXCEPT !.cert = pair[c].key]

Make ==
    \/ newCertificate /\ PairsAre([pair EXCEPT ![New] = OwnPair(New)])
    \/ newCertRootLocalhost /\ PairsAre([pair EXCEPT ![New] = OwnPair(New)])
    \/ newRequest /\ PairsAre([pair EXCEPT ![New] = [NoPair EXCEPT !.key = {New}]])
    \/ newCertServerLocalhost /\ PairsAre([pair EXCEPT ![New] = OwnPair(New)])

Sign == \E c, ca \in Certs :
           signRequest(c, ca) /\ PairsAre([pair EXCEPT ![c] = Certified(c)])

LeavePairs ==
    /\ \/ newCertServerWithoutRoot
       \/ \E c, ca \in Certs : signWithRequest(c, ca)
       \/ \E c \in Certs : useCertificate(c) \/ getInfoOfRequest(c)
    /\ UNCHANGED pair

LetGo == \E c \in Certs : Release(c) /\ PairsAre(pair)

(* The three files are read in turn; nobody compares what they hold. *)
Readable == IF disk.cert = {} THEN 0
            ELSE IF disk.key = {} THEN 1
            ELSE IF disk.dh THEN 3 ELSE 2

Load ==
    /\ loadCertificate(Readable)
    /\ PairsAre([pair EXCEPT ![New] = [cert |-> disk.cert, key |-> disk.key]])

Call == /\ Idle
        /\ Make \/ Sign \/ LetGo \/ Load \/ LeavePairs
        /\ UNCHANGED <<disk, saveVars>>

-----------------------------------------------------------------------------
(* saveCertificate *)

(* A file opened with "wb" is empty from then on. *)
TruncatedLater(contents) == contents
TruncatedAtOnce(contents) == {}
Truncated(contents) == TruncatedAtOnce(contents)

(* BIO_new_file, which gives null when it cannot open the file, as nobody  *)
(* notices: the writes to it fail, as unnoticed.                           *)
OpenFile(file, next) ==
    /\ step' = next
    /\ \/ /\ opened' = opened \cup {file}
          /\ disk' = [disk EXCEPT ![file] = Truncated(@)]
          /\ UNCHANGED refused
       \/ /\ refused' = TRUE
          /\ UNCHANGED <<opened, disk>>

SaveBegin(c) ==
    /\ Running /\ Idle /\ c \in held
    /\ saving' = {c}
    /\ OpenFile("cert", "openKey")
    /\ UNCHANGED <<vars, pair>>

SaveOpenKey ==
    /\ step = "openKey"
    /\ OpenFile("key", "flushKey")
    /\ UNCHANGED <<vars, pair, saving>>

(* PEM_write_bio fills the buffers of the files; they are flushed when the *)
(* BIOs are freed, or lost, the last one first.  There is nothing to write *)
(* for a request that has no X509.                                         *)
Flush(file, c) ==
    disk' \in IF file \in opened
              THEN {[disk EXCEPT ![file] = p] : p \in {pair[c][file], Truncated(disk[file])}}
              ELSE {disk}

SaveFlushKey ==
    /\ step = "flushKey"
    /\ \E c \in saving : Flush("key", c)
    /\ step' = "flushCert"
    /\ UNCHANGED <<vars, pair, saving, opened, refused>>

(* ... and saveCertificate returns 0, whatever has happened. *)
SaveFlushCert ==
    /\ step = "flushCert"
    /\ \E c \in saving : Flush("cert", c)
    /\ rc' = {0}
    /\ step' = "idle" /\ saving' = {} /\ opened' = {}
    /\ UNCHANGED <<made, signs, cert, held, managerVars, heapVars, pair, refused>>

Save == \/ \E c \in Certs : SaveBegin(c)
        \/ SaveOpenKey \/ SaveFlushKey \/ SaveFlushCert

-----------------------------------------------------------------------------
(* The process ends, by whatever cause, the null dereference above         *)
(* included, and starts again: the files are as the last step left them.   *)
Restart ==
    /\ cert' = [c \in Certs |-> Empty] /\ pair' = [c \in Certs |-> NoPair]
    /\ held' = {} /\ root' = {} /\ served' = {}
    /\ allocated' = {} /\ freed' = {}
    /\ rc' = {0}
    /\ saving' = {} /\ step' = "idle" /\ opened' = {}
    /\ UNCHANGED <<made, signs, disk, refused>>

NextFiles == Call \/ Save \/ Restart

SpecFiles == InitFiles /\ [][NextFiles]_allVars

-----------------------------------------------------------------------------
(* Properties *)

(* Wherever the process ends while it saves, and whatever write is lost:   *)
(* the key that a certificate is loaded with, or will be, is its own       *)
(* (saveCertificate empties both files before it writes to either).  Only  *)
(* a file that could not be opened, which saveCertificate does not report, *)
(* leaves a stranger's key or certificate beside what it wrote.            *)
PairFits(p) == p.cert = {} \/ p.key = {} \/ p.cert = p.key
LoadedPairFits == refused \/ (PairFits(disk) /\ \A c \in Certs : PairFits(pair[c]))
=============================================================================
