------------------------------- MODULE Vault -------------------------------
(***************************************************************************)
(* The encrypted vault directory and the processes working on it: the CLI  *)
(* commands, the daemon's and the GUI's LocalVaultService, and             *)
(* `sauce share add`.  Every one of them takes vault.lock (flock), then    *)
(* works through the *.age files, one UUID-named file per secret; the name *)
(* of a secret is inside the encrypted envelope, so finding a secret means *)
(* decrypting files until one matches.  A process can be killed at any     *)
(* point, and any file operation can fail.                                 *)
(***************************************************************************)
EXTENDS Naturals

CONSTANTS
    Procs,      \* processes (or daemon goroutines) using the vault
    Users,      \* X25519 identities; a user acts with the key in its keyring
    Founders,   \* the recipients the vault starts with
    Impatient,  \* users who use the vault before a share add of their key ends
    Flaky,      \* files an open or read of which may fail for no lasting reason
    Names,      \* valid secret names (validateKey)
    Data,       \* secret payloads
    UUIDs,      \* file names; Glob returns them in ascending order
    None

Envelope == [name : Names, data : Data, rcpt : SUBSET Users]
Call     == [data : Data, dest : UUIDs \cup {None}]

Requests ==
         [kind : {"write"}, by : Users, name : Names, data : Data]
    \cup [kind : {"read", "delete"}, by : Users, name : Names]
    \cup [kind : {"readall"}, by : Users]
    \cup [kind : {"share"}, by : Users, to : Users]

ASSUME UsersAssumption == Founders \subseteq Users /\ Impatient \subseteq Users
ASSUME FilesAssumption == UUIDs \subseteq Nat /\ Flaky \subseteq UUIDs
ASSUME NoneAssumption  ==
    /\ None \notin Data
    /\ None \notin UUIDs
    /\ None \notin Envelope
    /\ None \notin Call
    /\ None \notin Requests

VARIABLES
    files,       \* the *.age files: UUID -> envelope and whom it is encrypted to
    recipients,  \* .vault_recipients
    admitted,    \* history: founders, and users whose share add succeeded
    op,          \* the request each process serves
    pc,          \* where in the request it is
    holds,       \* its lock on vault.lock: none, shared or exclusive
    rcpt,        \* the recipients it has read
    list,        \* the files it has still to decrypt (or to remove)
    got,         \* name -> data decrypted so far
    calls,       \* name -> its vault.WriteSecret call under way
    status       \* the outcome so far: none, ok, notfound, error

disk  == <<files, recipients, admitted>>
local == <<rcpt, list, got, calls, status>>
vars  == <<disk, op, pc, holds, local>>

Nothing == [k \in Names |-> None]

TypeOK ==
    /\ files \in [UUIDs -> Envelope \cup {None}]
    /\ recipients \subseteq Users
    /\ admitted \subseteq Users
    /\ op \in [Procs -> Requests \cup {None}]
    /\ pc \in [Procs -> {"idle", "lock", "plan", "lookup", "remove", "append",
                         "glob", "decrypt", "writing", "unlock"}]
    /\ holds \in [Procs -> {"none", "shared", "exclusive"}]
    /\ rcpt \in [Procs -> SUBSET Users]
    /\ list \in [Procs -> SUBSET UUIDs]
    /\ got \in [Procs -> [Names -> Data \cup {None}]]
    /\ calls \in [Procs -> [Names -> Call \cup {None}]]
    /\ status \in [Procs -> {"none", "ok", "notfound", "error"}]

Init ==
    /\ files = [f \in UUIDs |-> None]
    /\ recipients = Founders
    /\ admitted = Founders
    /\ op = [p \in Procs |-> None]
    /\ pc = [p \in Procs |-> "idle"]
    /\ holds = [p \in Procs |-> "none"]
    /\ rcpt = [p \in Procs |-> {}]
    /\ list = [p \in Procs |-> {}]
    /\ got = [p \in Procs |-> Nothing]
    /\ calls = [p \in Procs |-> Nothing]
    /\ status = [p \in Procs |-> "none"]

-----------------------------------------------------------------------------
(* Scanning the directory *)

Present == {f \in UUIDs : files[f] # None}

Readable(u, f) == files[f] # None /\ u \in files[f].rcpt

\* The files in which user u finds name k; those in miss are skipped as
\* unreadable for a passing reason.
Matches(u, k, miss) ==
    {f \in UUIDs \ miss : Readable(u, f) /\ files[f].name = k}

\* The first of them in glob order: {} when there is none.
FirstOf(S) == {f \in S : \A g \in S : f <= g}

\* newUUID: never the name of a file there is or is about to be.
Fresh(d) ==
    /\ files[d] = None
    /\ \A q \in Procs, k \in Names : calls[q][k] # None => calls[q][k].dest # d

-----------------------------------------------------------------------------
(* Starting a request and locking *)

FirstStep == [write |-> "plan", delete |-> "lookup", share |-> "append",
              read |-> "lookup", readall |-> "glob"]

Begin(p, o) ==
    /\ pc[p] = "idle"
    /\ o.by \in admitted \cup Impatient
    /\ op' = [op EXCEPT ![p] = o]
    /\ pc' = [pc EXCEPT ![p] = "lock"]
    /\ UNCHANGED <<disk, holds, local>>

\* Slip: LOCK_SH for LOCK_EX.
AcquireExclusiveAsShared(p) ==
    /\ pc[p] = "lock" /\ op[p].kind \in {"write", "delete", "share"}
    /\ \A q \in Procs : holds[q] # "exclusive"
    /\ holds' = [holds EXCEPT ![p] = "shared"]
    /\ pc' = [pc EXCEPT ![p] = FirstStep[op[p].kind]]
    /\ UNCHANGED <<disk, op, local>>

AcquireExclusive(p) ==
    /\ pc[p] = "lock" /\ op[p].kind \in {"write", "delete", "share"}
    /\ \A q \in Procs : holds[q] = "none"
    /\ holds' = [holds EXCEPT ![p] = "exclusive"]
    /\ pc' = [pc EXCEPT ![p] = FirstStep[op[p].kind]]
    /\ UNCHANGED <<disk, op, local>>

\* Slip: reading without waiting for the writer.
AcquireSharedAtOnce(p) ==
    /\ pc[p] = "lock" /\ op[p].kind \in {"read", "readall"}
    /\ holds' = [holds EXCEPT ![p] = "shared"]
    /\ pc' = [pc EXCEPT ![p] = FirstStep[op[p].kind]]
    /\ UNCHANGED <<disk, op, local>>

AcquireShared(p) ==
    /\ pc[p] = "lock" /\ op[p].kind \in {"read", "readall"}
    /\ \A q \in Procs : holds[q] # "exclusive"
    /\ holds' = [holds EXCEPT ![p] = "shared"]
    /\ pc' = [pc EXCEPT ![p] = FirstStep[op[p].kind]]
    /\ UNCHANGED <<disk, op, local>>

-----------------------------------------------------------------------------
(* vault.WriteSecret, called once by LocalVaultService.WriteSecret and once *)
(* per secret, concurrently, by share add                                   *)

PlanWrite(p) ==
    /\ pc[p] = "plan"
    /\ rcpt' = [rcpt EXCEPT ![p] = recipients]
    /\ calls' = [calls EXCEPT ![p][op[p].name] =
                    [data |-> op[p].data, dest |-> None]]
    /\ pc' = [pc EXCEPT ![p] = "writing"]
    /\ UNCHANGED <<disk, op, holds, list, got, status>>

\* Slip: a new file for every write.
WriteSecretAnew(p, k) ==
    /\ pc[p] = "writing"
    /\ calls[p][k] # None /\ calls[p][k].dest = None
    /\ \E d \in UUIDs :
        /\ Fresh(d)
        /\ calls' = [calls EXCEPT ![p][k] = [data |-> @.data, dest |-> d]]
    /\ UNCHANGED <<disk, op, pc, holds, rcpt, list, got, status>>

\* The scan for a file of that name, and the choice of the destination.
WriteSecretScan(p, k) ==
    /\ pc[p] = "writing"
    /\ calls[p][k] # None /\ calls[p][k].dest = None
    /\ \E miss \in SUBSET Flaky, d \in UUIDs :
        LET found == Matches(op[p].by, k, miss)
        IN  /\ IF found = {} THEN Fresh(d) ELSE d \in FirstOf(found)
            /\ calls' = [calls EXCEPT ![p][k] = [data |-> @.data, dest |-> d]]
    /\ UNCHANGED <<disk, op, pc, holds, rcpt, list, got, status>>

\* encryptToFile: the temp file, which no glob matches, becomes the secret.
RenameSecret(p, k) ==
    /\ pc[p] = "writing"
    /\ calls[p][k] # None /\ calls[p][k].dest # None
    /\ files' = [files EXCEPT ![calls[p][k].dest] =
                    [name |-> k, data |-> calls[p][k].data, rcpt |-> rcpt[p]]]
    /\ calls' = [calls EXCEPT ![p][k] = None]
    /\ status' = IF op[p].kind = "write"
                 THEN [status EXCEPT ![p] = "ok"] ELSE status
    /\ UNCHANGED <<recipients, admitted, op, pc, holds, rcpt, list, got>>

\* One call fails before its rename; its siblings in the errgroup go on.
WriteSecretFails(p, k) ==
    /\ pc[p] = "writing"
    /\ calls[p][k] # None
    /\ calls' = [calls EXCEPT ![p][k] = None]
    /\ status' = [status EXCEPT ![p] = "error"]
    /\ UNCHANGED <<disk, op, pc, holds, rcpt, list, got>>

\* Slip: the error of g.Wait() is dropped.
WritesDoneAnyway(p) ==
    /\ pc[p] = "writing"
    /\ calls[p] = Nothing
    /\ status' = IF status[p] = "none"
                 THEN [status EXCEPT ![p] = "ok"] ELSE status
    /\ admitted' = IF op[p].kind = "share"
                   THEN admitted \cup {op[p].to} ELSE admitted
    /\ pc' = [pc EXCEPT ![p] = "unlock"]
    /\ UNCHANGED <<files, recipients, op, holds, rcpt, list, got, calls>>

\* g.Wait() returns: a share add without an error is reported as done.
WritesDone(p) ==
    /\ pc[p] = "writing"
    /\ calls[p] = Nothing
    /\ status' = IF status[p] = "none"
                 THEN [status EXCEPT ![p] = "ok"] ELSE status
    /\ admitted' = IF op[p].kind = "share" /\ status[p] = "none"
                   THEN admitted \cup {op[p].to} ELSE admitted
    /\ pc' = [pc EXCEPT ![p] = "unlock"]
    /\ UNCHANGED <<files, recipients, op, holds, rcpt, list, got, calls>>

-----------------------------------------------------------------------------
(* vault.ReadSecret and vault.DeleteSecret *)

NotFound(p) ==
    /\ pc[p] = "lookup"
    /\ \E miss \in SUBSET Flaky : Matches(op[p].by, op[p].name, miss) = {}
    /\ status' = [status EXCEPT ![p] = "notfound"]
    /\ pc' = [pc EXCEPT ![p] = "unlock"]
    /\ UNCHANGED <<disk, op, holds, rcpt, list, got, calls>>

ReadSecret(p) ==
    /\ pc[p] = "lookup" /\ op[p].kind = "read"
    /\ \E miss \in SUBSET Flaky :
        \E f \in FirstOf(Matches(op[p].by, op[p].name, miss)) :
            got' = [got EXCEPT ![p][op[p].name] = files[f].data]
    /\ status' = [status EXCEPT ![p] = "ok"]
    /\ pc' = [pc EXCEPT ![p] = "unlock"]
    /\ UNCHANGED <<disk, op, holds, rcpt, list, calls>>

FindDoomed(p) ==
    /\ pc[p] = "lookup" /\ op[p].kind = "delete"
    /\ \E miss \in SUBSET Flaky :
        \E f \in FirstOf(Matches(op[p].by, op[p].name, miss)) :
            list' = [list EXCEPT ![p] = {f}]
    /\ pc' = [pc EXCEPT ![p] = "remove"]
    /\ UNCHANGED <<disk, op, holds, rcpt, got, calls, status>>

RemoveSecret(p) ==
    /\ pc[p] = "remove"
    /\ list[p] \subseteq Present
    /\ files' = [f \in UUIDs |-> IF f \in list[p] THEN None ELSE files[f]]
    /\ list' = [list EXCEPT ![p] = {}]
    /\ status' = [status EXCEPT ![p] = "ok"]
    /\ pc' = [pc EXCEPT ![p] = "unlock"]
    /\ UNCHANGED <<recipients, admitted, op, holds, rcpt, got, calls>>

-----------------------------------------------------------------------------
(* vault.ReadAllSecrets, for itself and inside share add *)

\* Slip: the recipients are read before the new one is appended.
AppendRecipientLate(p) ==
    /\ pc[p] = "append"
    /\ recipients' = recipients \cup {op[p].to}
    /\ rcpt' = [rcpt EXCEPT ![p] = recipients]
    /\ pc' = [pc EXCEPT ![p] = "glob"]
    /\ UNCHANGED <<files, admitted, op, holds, list, got, calls, status>>

AppendRecipient(p) ==
    /\ pc[p] = "append"
    /\ recipients' = recipients \cup {op[p].to}
    /\ rcpt' = [rcpt EXCEPT ![p] = recipients']
    /\ pc' = [pc EXCEPT ![p] = "glob"]
    /\ UNCHANGED <<files, admitted, op, holds, list, got, calls, status>>

Glob(p) ==
    /\ pc[p] = "glob"
    /\ list' = [list EXCEPT ![p] = Present]
    /\ pc' = [pc EXCEPT ![p] = "decrypt"]
    /\ UNCHANGED <<disk, op, holds, rcpt, got, calls, status>>

\* One goroutine per file, in any order; a later file of a name wins.
DecryptOne(p, f) ==
    /\ pc[p] = "decrypt" /\ f \in list[p]
    /\ Readable(op[p].by, f)
    /\ got' = [got EXCEPT ![p][files[f].name] = files[f].data]
    /\ list' = [list EXCEPT ![p] = @ \ {f}]
    /\ UNCHANGED <<disk, op, pc, holds, rcpt, calls, status>>

\* One file that cannot be decrypted fails the whole read.
DecryptFails(p, f) ==
    /\ pc[p] = "decrypt" /\ f \in list[p]
    /\ ~Readable(op[p].by, f) \/ f \in Flaky
    /\ status' = [status EXCEPT ![p] = "error"]
    /\ pc' = [pc EXCEPT ![p] = "unlock"]
    /\ UNCHANGED <<disk, op, holds, rcpt, list, got, calls>>

ReadAllDone(p) ==
    /\ pc[p] = "decrypt" /\ list[p] = {}
    /\ op[p].kind = "readall"
    /\ status' = [status EXCEPT ![p] = "ok"]
    /\ pc' = [pc EXCEPT ![p] = "unlock"]
    /\ UNCHANGED <<disk, op, holds, rcpt, list, got, calls>>

\* Slip: a call for every name, whether the secret was read or not.
PlanReencryptAll(p) ==
    /\ pc[p] = "decrypt" /\ list[p] = {}
    /\ op[p].kind = "share"
    /\ calls' = [calls EXCEPT ![p] =
                    [k \in Names |-> [data |-> got[p][k], dest |-> None]]]
    /\ pc' = [pc EXCEPT ![p] = "writing"]
    /\ UNCHANGED <<disk, op, holds, rcpt, list, got, status>>

\* share add starts one WriteSecret per secret it has read.
PlanReencrypt(p) ==
    /\ pc[p] = "decrypt" /\ list[p] = {}
    /\ op[p].kind = "share"
    /\ calls' = [calls EXCEPT ![p] = [k \in Names |->
                    IF got[p][k] = None THEN None
                    ELSE [data |-> got[p][k], dest |-> None]]]
    /\ pc' = [pc EXCEPT ![p] = "writing"]
    /\ UNCHANGED <<disk, op, holds, rcpt, list, got, status>>

-----------------------------------------------------------------------------
(* Failing, returning and dying *)

\* An early error return: no lock, no recipients file, no key in the keyring,
\* glob or remove failed.
Fails(p) ==
    /\ pc[p] \in {"lock", "plan", "lookup", "remove", "append", "glob"}
    /\ status' = [status EXCEPT ![p] = "error"]
    /\ pc' = [pc EXCEPT ![p] = "unlock"]
    /\ UNCHANGED <<disk, op, holds, rcpt, list, got, calls>>

\* Process memory goes, and with the descriptor the lock.
Forget(p) ==
    /\ op' = [op EXCEPT ![p] = None]
    /\ pc' = [pc EXCEPT ![p] = "idle"]
    /\ holds' = [holds EXCEPT ![p] = "none"]
    /\ rcpt' = [rcpt EXCEPT ![p] = {}]
    /\ list' = [list EXCEPT ![p] = {}]
    /\ got' = [got EXCEPT ![p] = Nothing]
    /\ calls' = [calls EXCEPT ![p] = Nothing]
    /\ status' = [status EXCEPT ![p] = "none"]
    /\ UNCHANGED disk

\* Slip: an early return that skips the unlock.
ReturnLocked(p) ==
    /\ pc[p] = "unlock" /\ status[p] = "error"
    /\ pc' = [pc EXCEPT ![p] = "idle"]
    /\ op' = [op EXCEPT ![p] = None]
    /\ calls' = [calls EXCEPT ![p] = Nothing]
    /\ status' = [status EXCEPT ![p] = "none"]
    /\ UNCHANGED <<disk, holds, rcpt, list, got>>

\* defer unlock(), and the answer to the caller.
Return(p) == pc[p] = "unlock" /\ Forget(p)

\* The process is killed; files stay as they are, half-done work included.
Crash(p) == pc[p] \notin {"idle", "unlock"} /\ Forget(p)

Step(p) ==
    \/ AcquireExclusive(p) \/ AcquireShared(p)
    \/ PlanWrite(p) \/ WritesDone(p)
    \/ \E k \in Names :
        WriteSecretScan(p, k) \/ RenameSecret(p, k) \/ WriteSecretFails(p, k)
    \/ NotFound(p) \/ ReadSecret(p) \/ FindDoomed(p) \/ RemoveSecret(p)
    \/ AppendRecipient(p) \/ Glob(p)
    \/ \E f \in UUIDs : DecryptOne(p, f) \/ DecryptFails(p, f)
    \/ ReadAllDone(p) \/ PlanReencrypt(p)
    \/ Fails(p) \/ Return(p)

Next == \E p \in Procs :
    \/ \E o \in Requests : Begin(p, o)
    \/ Step(p)
    \/ Crash(p)

Spec == Init /\ [][Next]_vars

\* A process that is scheduled goes on; nothing makes a new request, a crash
\* or an error happen.
FairSpec == Spec /\ \A p \in Procs : WF_vars(Step(p))

-----------------------------------------------------------------------------
(* The invariant behind the properties *)

\* Which locks a process has at which point, and who may have one beside it.
LockDiscipline == \A p \in Procs :
    /\ holds[p] = "exclusive" => \A q \in Procs \ {p} : holds[q] = "none"
    /\ pc[p] \in {"plan", "remove", "append", "writing"} => holds[p] = "exclusive"
    /\ pc[p] \in {"lookup", "glob", "decrypt"} =>
          holds[p] = IF op[p].kind \in {"delete", "share"}
                     THEN "exclusive" ELSE "shared"
    /\ pc[p] \in {"idle", "lock"} => holds[p] = "none"

\* Which kinds of request get to which point.
OpShape == \A p \in Procs :
    /\ pc[p] # "idle" => op[p] \in Requests
    /\ pc[p] = "plan" => op[p].kind = "write"
    /\ pc[p] = "lookup" => op[p].kind \in {"read", "delete"}
    /\ pc[p] = "remove" => op[p].kind = "delete"
    /\ pc[p] = "append" => op[p].kind = "share"
    /\ pc[p] \in {"glob", "decrypt"} => op[p].kind \in {"readall", "share"}
    /\ pc[p] = "writing" => op[p].kind \in {"write", "share"}
    /\ pc[p] # "writing" => calls[p] = Nothing

\* The recipients a writer uses are those on disk, however long ago it read
\* them, and cover everyone any file is encrypted to.
RecipientsCurrent ==
    /\ \A f \in Present : files[f].rcpt \subseteq recipients
    /\ \A p \in Procs :
        \/ pc[p] = "writing"
        \/ pc[p] \in {"glob", "decrypt"} /\ op[p].kind = "share"
        => /\ rcpt[p] = recipients
           /\ op[p].kind = "share" => op[p].to \in recipients

\* Where a WriteSecret call under way will rename its file to: the one file of
\* that name, or, when there is none, a path no other call has chosen.
Destinations == \A p \in Procs, k \in Names :
    calls[p][k] # None /\ calls[p][k].dest # None =>
        /\ \A f \in Present : files[f].name = k <=> f = calls[p][k].dest
        /\ \A j \in Names \ {k} :
            calls[p][j] # None => calls[p][j].dest # calls[p][k].dest

\* Users wait for their share add to be reported as done.
Members ==
    /\ admitted \subseteq recipients
    /\ \A p \in Procs : pc[p] # "idle" => op[p].by \in admitted

\* A share add without errors so far has not lost sight of any secret: each is
\* readable by the new recipient or still to be decrypted and rewritten.
Covered(p) ==
    pc[p] \in {"decrypt", "writing"} /\ op[p].kind = "share" /\ status[p] = "none" =>
        \A f \in Present :
            IF pc[p] = "decrypt"
            THEN f \in list[p] \/ got[p][files[f].name] # None
            ELSE op[p].to \in files[f].rcpt \/ calls[p][files[f].name] # None

Coverage == \A p \in Procs : Covered(p)

-----------------------------------------------------------------------------
(* Properties *)

\* A name has one file: otherwise a scan by another user, or a delete, would
\* bring back an older value of the secret.
UniqueNames ==
    \A f, g \in Present : files[f].name = files[g].name => f = g

\* Whoever has been told that they have access can read every secret,
\* whatever writes, crashes and half-done share adds there were.
AdmittedReadsAll == \A f \in Present : admitted \subseteq files[f].rcpt

\* What each step needs of the state before it.
LockInv == TypeOK /\ LockDiscipline /\ OpShape /\ RecipientsCurrent

InductiveInv ==
    /\ LockInv
    /\ UniqueNames /\ AdmittedReadsAll
    /\ Destinations /\ Members /\ Coverage

\* Overwriting a file never takes it from someone who could read it, although
\* the recipients are read long before the new file is renamed into place.
NoAccessLost ==
    [][\A f \in UUIDs : files[f] # None /\ files'[f] # None
                          => files[f].rcpt \subseteq files'[f].rcpt]_vars

\* From the first file it decrypts to its last write a share add meets no other
\* value of a secret than the one it re-encrypts, so it never puts an old value
\* over a newer one.
ShareKeepsValues ==
    [][\A p \in Procs, f \in UUIDs :
        /\ pc[p] \in {"decrypt", "writing"} /\ op[p].kind = "share"
        /\ files[f] # None /\ files'[f] # None
        => files'[f].name = files[f].name /\ files'[f].data = files[f].data]_vars

\* Readers, writers and share adds see and leave a vault that behaves as one
\* atomic map: every request takes effect at one moment or not at all.
value(fs, k) ==
    LET here == {f \in UUIDs : fs[f] # None /\ fs[f].name = k}
    IN  IF here = {} THEN None ELSE fs[CHOOSE f \in here : TRUE].data

contents == [k \in Names |-> value(files, k)]

\* What a caller has been told.
answers == [p \in Procs |->
    IF status[p] = "ok" /\ op[p].kind \in {"read", "readall"}
    THEN got[p] ELSE Nothing]

Store == INSTANCE AtomicStore WITH store <- contents, result <- answers

AtomicVault == Store!Spec

\* No early return, error or success keeps vault.lock.
LockReleased ==
    \A p \in Procs : holds[p] # "none" ~> holds[p] = "none"
=============================================================================
