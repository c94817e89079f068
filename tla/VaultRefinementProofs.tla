------------------------ MODULE VaultRefinementProofs ------------------------
(***************************************************************************)
(* Vault implements AtomicStore: with every lock, scan, rename, failure    *)
(* and crash, its callers see one map on which each request takes effect   *)
(* at one moment, or not at all.                                           *)
(*                                                                         *)
(* A write takes effect at its rename, a delete at the removal, a read when*)
(* the file is found, a read of all when the last file has been decrypted, *)
(* a share add when its last write has returned; every other step of Vault *)
(* is a stutter of the store, or a failure.  Why the steps between fit that*)
(* moment is what Underway says, on top of InductiveInv: what a process has*)
(* gathered under its lock is still so.                                    *)
(***************************************************************************)
EXTENDS VaultProofs

\* Some file has name k with data d.
Stores(k, d) == \E f \in Present : files[f].name = k /\ files[f].data = d

\* A request is undecided while it is being worked on.
Unanswered(p) ==
    /\ pc[p] = "idle" => op[p] = None
    /\ pc[p] \notin {"writing", "unlock"} => status[p] = "none"
    /\ pc[p] = "writing" /\ op[p].kind = "share" => status[p] \in {"none", "error"}
    /\ pc[p] = "writing" /\ op[p].kind = "write" =>
          (status[p] = "none" <=> calls[p][op[p].name] # None)

\* A read has got what the files it has been through say.
Gathered(p) ==
    /\ pc[p] \in {"idle", "lock", "plan", "lookup", "append", "glob"} => got[p] = Nothing
    /\ pc[p] = "decrypt" =>
        /\ \A k \in Names : got[p][k] # None => Stores(k, got[p][k])
        /\ \A f \in Present : f \in list[p] \/ got[p][files[f].name] # None

\* A delete has found the file of its name.
Doomed(p) == pc[p] = "remove" =>
    \E f \in Present : list[p] = {f} /\ files[f].name = op[p].name

\* A write writes what it was asked to, a share add what is there.
Writing(p) == pc[p] = "writing" => \A k \in Names : calls[p][k] # None =>
    IF op[p].kind = "write"
    THEN k = op[p].name /\ calls[p][k].data = op[p].data
    ELSE Stores(k, calls[p][k].data)

Underway(p) == Unanswered(p) /\ Gathered(p) /\ Doomed(p) /\ Writing(p)

RefinementInv == InductiveInv /\ \A p \in Procs : Underway(p)

\* What process p does.
Acts(p) == (\E o \in Requests : Begin(p, o)) \/ Step(p) \/ Crash(p)

-----------------------------------------------------------------------------
(* What the steps of a process leave alone *)

\* A process works on its own request.
LEMMA OthersKeep ==
  ASSUME TypeOK, NEW p \in Procs, NEW q \in Procs, q # p, Acts(q)
  PROVE  /\ op'[p] = op[p] /\ pc'[p] = pc[p] /\ list'[p] = list[p]
         /\ got'[p] = got[p] /\ calls'[p] = calls[p] /\ status'[p] = status[p]
<1> USE DEF TypeOK, disk, local
<1>1. ASSUME NEW o \in Requests, Begin(q, o)
      PROVE  op'[p] = op[p] /\ pc'[p] = pc[p] /\ UNCHANGED <<list, got, calls, status>>
  BY <1>1 DEF Begin
<1>2. CASE AcquireExclusive(q) \/ AcquireShared(q) \/ AppendRecipient(q)
  BY <1>2 DEF AcquireExclusive, AcquireShared, AppendRecipient
<1>3. CASE PlanWrite(q) \/ WritesDone(q) \/ PlanReencrypt(q)
  BY <1>3 DEF PlanWrite, WritesDone, PlanReencrypt
<1>4. ASSUME NEW k \in Names, WriteSecretScan(q, k)
      PROVE  calls'[p] = calls[p] /\ UNCHANGED <<op, pc, list, got, status>>
  BY <1>4 DEF WriteSecretScan
<1>5. ASSUME NEW k \in Names, RenameSecret(q, k) \/ WriteSecretFails(q, k)
      PROVE  /\ calls'[p] = calls[p] /\ status'[p] = status[p]
             /\ UNCHANGED <<op, pc, list, got>>
  BY <1>5 DEF RenameSecret, WriteSecretFails
<1>6. CASE NotFound(q) \/ RemoveSecret(q) \/ Glob(q) \/ ReadAllDone(q) \/ Fails(q)
  BY <1>6 DEF NotFound, RemoveSecret, Glob, ReadAllDone, Fails
<1>7. CASE ReadSecret(q)
  BY <1>7 DEF ReadSecret
<1>8. CASE FindDoomed(q)
  BY <1>8 DEF FindDoomed
<1>9. ASSUME NEW f \in UUIDs, DecryptOne(q, f) \/ DecryptFails(q, f)
      PROVE  /\ got'[p] = got[p] /\ list'[p] = list[p] /\ status'[p] = status[p]
             /\ pc'[p] = pc[p] /\ UNCHANGED <<op, calls>>
  BY <1>9 DEF DecryptOne, DecryptFails
<1>10. CASE Forget(q)
  BY <1>10 DEF Forget
<1> QED
  BY <1>1, <1>2, <1>3, <1>4, <1>5, <1>6, <1>7, <1>8, <1>9, <1>10
     DEF Acts, Step, Return, Crash

\* Only a rename and a removal change the secrets.
LEMMA OtherwiseSameFiles ==
  ASSUME NEW q \in Procs, Acts(q)
  PROVE  files' = files \/ RemoveSecret(q) \/ \E k \in Names : RenameSecret(q, k)
  BY DEF Acts, Step, Return, Crash, Begin, AcquireExclusive, AcquireShared,
         PlanWrite, WriteSecretScan, WriteSecretFails, WritesDone, NotFound,
         ReadSecret, FindDoomed, AppendRecipient, Glob, DecryptOne,
         DecryptFails, ReadAllDone, PlanReencrypt, Fails, Forget, disk

\* While a process has the lock, nobody else changes the secrets.
LEMMA FilesHeld ==
  ASSUME LockInv, NEW p \in Procs, NEW q \in Procs, q # p, Acts(q),
         holds[p] # "none"
  PROVE  files' = files
<1>1. ~RemoveSecret(q) /\ \A k \in Names : ~RenameSecret(q, k)
  BY DEF RemoveSecret, RenameSecret, LockInv, LockDiscipline
<1> QED
  BY <1>1, OtherwiseSameFiles

\* The points at which a process has the lock.
LEMMA HoldsAt ==
  ASSUME LockInv, NEW p \in Procs, pc[p] \in {"remove", "writing", "decrypt"}
  PROVE  holds[p] # "none"
  BY DEF LockInv, LockDiscipline

\* What a process has gathered is not disturbed by the others.
LEMMA OthersUnderway ==
  ASSUME InductiveInv, NEW p \in Procs, Underway(p), NEW q \in Procs, q # p, Acts(q)
  PROVE  Underway(p)'
<1>1. /\ op'[p] = op[p] /\ pc'[p] = pc[p] /\ list'[p] = list[p]
      /\ got'[p] = got[p] /\ calls'[p] = calls[p] /\ status'[p] = status[p]
  BY OthersKeep DEF InductiveInv, LockInv
<1>2. pc[p] \in {"remove", "writing", "decrypt"} => files' = files
  BY HoldsAt, FilesHeld DEF InductiveInv
<1>3. Unanswered(p)'
  BY <1>1 DEF Underway, Unanswered
<1>4. Gathered(p)'
  BY <1>1, <1>2 DEF Underway, Gathered, Stores, Present
<1>5. Doomed(p)'
  BY <1>1, <1>2 DEF Underway, Doomed, Present
<1>6. Writing(p)'
  BY <1>1, <1>2 DEF Underway, Writing, Stores, Present
<1> QED
  BY <1>3, <1>4, <1>5, <1>6 DEF Underway

-----------------------------------------------------------------------------
(* The contents of the vault *)

\* A name has the value its file has,
LEMMA ValueFound ==
  ASSUME NEW fs, NEW k, NEW f \in UUIDs, fs[f] # None, fs[f].name = k,
         \A g \in UUIDs : fs[g] # None /\ fs[g].name = k => g = f
  PROVE  value(fs, k) = fs[f].data
<1> DEFINE here == {g \in UUIDs : fs[g] # None /\ fs[g].name = k}
<1>1. here = {f}
  OBVIOUS
<1>2. (CHOOSE g \in here : TRUE) = f
  BY <1>1
<1> QED
  BY <1>1, <1>2 DEF value

\* and none without a file.
LEMMA ValueNone ==
  ASSUME NEW fs, NEW k, \A g \in UUIDs : ~(fs[g] # None /\ fs[g].name = k)
  PROVE  value(fs, k) = None
  BY DEF value

\* It depends on the files of the name only.
LEMMA ValueSame ==
  ASSUME NEW fs, NEW gs, NEW k,
         \A f \in UUIDs : (fs[f] # None /\ fs[f].name = k)
                         <=> (gs[f] # None /\ gs[f].name = k),
         \A f \in UUIDs : fs[f] # None /\ fs[f].name = k => gs[f] = fs[f]
  PROVE  value(fs, k) = value(gs, k)
<1> DEFINE here(hs) == {f \in UUIDs : hs[f] # None /\ hs[f].name = k}
<1>1. here(fs) = here(gs)
  OBVIOUS
<1>2. value(fs, k) = IF here(fs) = {} THEN None ELSE fs[CHOOSE f \in here(fs) : TRUE].data
  BY DEF value
<1>3. value(gs, k) = IF here(gs) = {} THEN None ELSE gs[CHOOSE f \in here(gs) : TRUE].data
  BY DEF value
<1>4. ASSUME here(fs) # {}
      PROVE  fs[CHOOSE f \in here(fs) : TRUE] = gs[CHOOSE f \in here(gs) : TRUE]
  <2>1. (CHOOSE f \in here(fs) : TRUE) \in here(fs)
    BY <1>4
  <2> QED
    BY <1>1, <2>1
<1> HIDE DEF here
<1> QED
  BY <1>1, <1>2, <1>3, <1>4

\* What some file says of a name is what the store has.
LEMMA StoresValue ==
  ASSUME TypeOK, UniqueNames, NEW k \in Names, NEW d, Stores(k, d)
  PROVE  contents[k] = d
<1>1. PICK f \in Present : files[f].name = k /\ files[f].data = d
  BY DEF Stores
<1>2. value(files, k) = d
  BY <1>1, ValueFound DEF UniqueNames, Present
<1> QED
  BY <1>2 DEF contents

\* A rename gives its name the data written.
LEMMA RenameContents ==
  ASSUME InductiveInv, NEW p \in Procs, NEW k \in Names, RenameSecret(p, k)
  PROVE  contents' = [contents EXCEPT ![k] = calls[p][k].data]
<1>0. /\ calls[p][k] # None /\ calls[p][k].dest # None
      /\ calls[p][k].data \in Data /\ calls[p][k].dest \in UUIDs
  <2>1. calls[p][k] \in Call /\ calls[p][k].dest # None
    BY DEF RenameSecret, InductiveInv, LockInv, TypeOK
  <2> QED
    BY <2>1, NoneAssumption DEF Call
<1>1. PICK d \in UUIDs :
         /\ d = calls[p][k].dest
         /\ files' = [files EXCEPT ![d] =
                        [name |-> k, data |-> calls[p][k].data, rcpt |-> rcpt[p]]]
         /\ \A f \in Present : files[f].name = k <=> f = d
  <2>1. \A f \in Present : files[f].name = k <=> f = calls[p][k].dest
    BY <1>0 DEF InductiveInv, Destinations
  <2>2. files' = [files EXCEPT ![calls[p][k].dest] =
                    [name |-> k, data |-> calls[p][k].data, rcpt |-> rcpt[p]]]
    BY DEF RenameSecret
  <2> QED
    BY <1>0, <2>1, <2>2
<1>2. files \in [UUIDs -> Envelope \cup {None}]
  BY DEF InductiveInv, LockInv, TypeOK
<1>3. files'[d] # None /\ files'[d].name = k /\ files'[d].data = calls[p][k].data
  <2>1. calls[p][k].data \in Data /\ rcpt[p] \in SUBSET Users
    BY <1>0 DEF InductiveInv, LockInv, TypeOK
  <2>2. [name |-> k, data |-> calls[p][k].data, rcpt |-> rcpt[p]] \in Envelope
    BY <2>1 DEF Envelope
  <2> QED
    BY <1>1, <1>2, <2>2, NoneAssumption
<1>4. \A f \in UUIDs \ {d} : files'[f] = files[f]
  BY <1>1, <1>2
<1>5. value(files', k) = calls[p][k].data
  <2>1. \A g \in UUIDs : files'[g] # None /\ files'[g].name = k => g = d
    BY <1>1, <1>4 DEF Present
  <2> QED
    BY <1>3, <2>1, ValueFound
<1>6. ASSUME NEW j \in Names, j # k PROVE value(files', j) = value(files, j)
  <2>1. \A f \in UUIDs : (files'[f] # None /\ files'[f].name = j)
                         <=> (files[f] # None /\ files[f].name = j)
    BY <1>1, <1>3, <1>4, <1>6 DEF Present
  <2>2. \A f \in UUIDs : files'[f] # None /\ files'[f].name = j => files[f] = files'[f]
    BY <1>3, <1>4, <1>6
  <2> QED
    BY <2>1, <2>2, ValueSame
<1> QED
  BY <1>5, <1>6 DEF contents

\* A removal takes the name away.
LEMMA RemoveContents ==
  ASSUME InductiveInv, NEW p \in Procs, Underway(p), RemoveSecret(p)
  PROVE  /\ op[p].name \in Names /\ contents[op[p].name] # None
         /\ contents' = [contents EXCEPT ![op[p].name] = None]
<1>1. PICK d \in Present : list[p] = {d} /\ files[d].name = op[p].name
  BY DEF RemoveSecret, Underway, Doomed
<1>2. files[d] \in Envelope /\ d \in UUIDs
  BY <1>1 DEF Present, InductiveInv, LockInv, TypeOK
<1>3. PICK k \in Names : k = op[p].name
  BY <1>1, <1>2 DEF Envelope
<1>4. files' = [f \in UUIDs |-> IF f = d THEN None ELSE files[f]]
  BY <1>1 DEF RemoveSecret
<1>5. \A f \in UUIDs : files[f] # None /\ files[f].name = k => f = d
  BY <1>1, <1>3 DEF InductiveInv, UniqueNames, Present
<1>6. value(files', k) = None
  BY <1>4, <1>5, ValueNone
<1>7. ASSUME NEW j \in Names, j # k PROVE value(files', j) = value(files, j)
  <2>1. \A f \in UUIDs : (files'[f] # None /\ files'[f].name = j)
                         <=> (files[f] # None /\ files[f].name = j)
    BY <1>1, <1>3, <1>4, <1>7
  <2>2. \A f \in UUIDs : files'[f] # None /\ files'[f].name = j => files[f] = files'[f]
    BY <1>4
  <2> QED
    BY <2>1, <2>2, ValueSame
<1>8. contents[k] # None
  <2>1. contents[k] = files[d].data
    BY <1>1, <1>3, StoresValue DEF Stores, InductiveInv, LockInv
  <2> QED
    BY <1>2, <2>1, NoneAssumption DEF Envelope
<1> QED
  BY <1>3, <1>6, <1>7, <1>8 DEF contents

-----------------------------------------------------------------------------
(* A process's own steps *)

\* Without passing failures a scan finds every file of its name.
LEMMA MatchesAll ==
  ASSUME Calm, InductiveInv, NEW p \in Procs, pc[p] # "idle", NEW k,
         NEW miss \in SUBSET Flaky
  PROVE  Matches(op[p].by, k, miss) = {f \in Present : files[f].name = k}
  BY DEF Calm, InductiveInv, Members, AdmittedReadsAll, Matches, Readable, Present

\* A rename leaves the other names their files.
LEMMA RenameKeeps ==
  ASSUME InductiveInv, NEW p \in Procs, NEW k \in Names, RenameSecret(p, k),
         NEW j, j # k, NEW d, Stores(j, d)
  PROVE  Stores(j, d)'
<1>1. PICK f \in Present : files[f].name = j /\ files[f].data = d
  BY DEF Stores
<1>2. calls[p][k] # None /\ calls[p][k].dest # None
  BY DEF RenameSecret
<1>3. f # calls[p][k].dest
  BY <1>1, <1>2 DEF InductiveInv, Destinations
<1>4. files'[f] = files[f]
  BY <1>3 DEF RenameSecret, InductiveInv, LockInv, TypeOK, Present
<1> QED
  BY <1>1, <1>4 DEF Stores, Present

\* A write is answered with its rename or failure.
LEMMA OwnUnanswered ==
  ASSUME InductiveInv, NEW p \in Procs, Underway(p), Acts(p)
  PROVE  Unanswered(p)'
<1> USE DEF InductiveInv, LockInv, TypeOK, Underway, Unanswered, disk, local
<1>1. ASSUME NEW o \in Requests, Begin(p, o) PROVE Unanswered(p)'
  BY <1>1 DEF Begin
<1>2. CASE AcquireExclusive(p) \/ AcquireShared(p) \/ AppendRecipient(p)
  BY <1>2, RequestFields, NoneAssumption
     DEF AcquireExclusive, AcquireShared, AppendRecipient, FirstStep, OpShape
<1>3. CASE PlanWrite(p)
  <2>1. op[p].name \in Names /\ op[p].data \in Data /\ op[p].kind = "write"
    BY <1>3, RequestFields DEF PlanWrite, OpShape
  <2>2. calls'[p][op[p].name] # None
    BY <1>3, <2>1, CallRecord DEF PlanWrite
  <2> QED
    BY <1>3, <2>1, <2>2 DEF PlanWrite
<1>4. ASSUME NEW k \in Names, WriteSecretScan(p, k) PROVE Unanswered(p)'
  <2>1. PICK d \in UUIDs :
           calls' = [calls EXCEPT ![p][k] = [data |-> @.data, dest |-> d]]
    BY <1>4 DEF WriteSecretScan
  <2>2. calls[p][k] # None /\ calls[p][k] \in Call
    BY <1>4 DEF WriteSecretScan
  <2>3. [data |-> calls[p][k].data, dest |-> d] # None
    BY <2>2, CallRecord DEF Call
  <2>4. \A j \in Names : calls'[p][j] # None <=> calls[p][j] # None
    BY <2>1, <2>2, <2>3
  <2>5. UNCHANGED <<op, pc, status>> /\ pc[p] = "writing"
    BY <1>4 DEF WriteSecretScan
  <2>6. op[p].kind = "write" => op[p].name \in Names
    BY <2>5, RequestFields DEF OpShape
  <2> QED
    BY <2>4, <2>5, <2>6
<1>5. ASSUME NEW k \in Names, RenameSecret(p, k) \/ WriteSecretFails(p, k)
      PROVE  Unanswered(p)'
  <2>1. op[p].kind = "write" => k = op[p].name
    BY <1>5 DEF RenameSecret, WriteSecretFails, Writing
  <2>2. calls'[p][k] = None /\ UNCHANGED <<op, pc>> /\ pc[p] = "writing"
    BY <1>5 DEF RenameSecret, WriteSecretFails
  <2>3. IF WriteSecretFails(p, k) THEN status'[p] = "error"
        ELSE status'[p] = IF op[p].kind = "write" THEN "ok" ELSE status[p]
    BY <1>5 DEF RenameSecret, WriteSecretFails
  <2> QED
    BY <2>1, <2>2, <2>3
<1>6. CASE FindDoomed(p)
  BY <1>6 DEF FindDoomed
<1>7. CASE Glob(p) \/ PlanReencrypt(p)
  BY <1>7 DEF Glob, PlanReencrypt
<1>8. ASSUME NEW f \in UUIDs, DecryptOne(p, f) PROVE Unanswered(p)'
  BY <1>8 DEF DecryptOne
<1>9. CASE pc'[p] = "unlock"
  BY <1>9
<1>10. CASE Forget(p)
  BY <1>10 DEF Forget
<1> QED
  BY <1>1, <1>2, <1>3, <1>4, <1>5, <1>6, <1>7, <1>8, <1>9, <1>10
     DEF Acts, Step, Return, Crash, WritesDone, NotFound, ReadSecret, RemoveSecret,
         DecryptFails, ReadAllDone, Fails

\* A read gathers what is there.
LEMMA OwnGathered ==
  ASSUME InductiveInv, NEW p \in Procs, Underway(p), Acts(p)
  PROVE  Gathered(p)'
<1> USE DEF InductiveInv, LockInv, TypeOK, Underway, Gathered, disk, local
<1>1. ASSUME NEW o \in Requests, Begin(p, o) PROVE Gathered(p)'
  BY <1>1 DEF Begin
<1>2. CASE AcquireExclusive(p) \/ AcquireShared(p) \/ AppendRecipient(p)
  BY <1>2, RequestFields, NoneAssumption
     DEF AcquireExclusive, AcquireShared, AppendRecipient, FirstStep, OpShape
<1>3. CASE pc'[p] \in {"writing", "remove", "unlock"}
  BY <1>3
<1>4. CASE Glob(p)
  <2>1. got'[p] = Nothing /\ list'[p] = Present /\ pc'[p] = "decrypt" /\ files' = files
    BY <1>4 DEF Glob
  <2>2. \A k \in Names : got'[p][k] = None
    BY <2>1 DEF Nothing
  <2> QED
    BY <2>1, <2>2 DEF Present
<1>5. ASSUME NEW f \in UUIDs, DecryptOne(p, f) PROVE Gathered(p)'
  <2>1. /\ pc[p] = "decrypt" /\ pc'[p] = "decrypt" /\ files' = files /\ f \in Present
        /\ list'[p] = list[p] \ {f}
    BY <1>5 DEF DecryptOne, Readable, Present
  <2>2. PICK n \in Names, d \in Data : n = files[f].name /\ d = files[f].data
    BY <2>1 DEF Present, Envelope
  <2>3. got'[p] = [got[p] EXCEPT ![n] = d]
    BY <1>5, <2>2 DEF DecryptOne
  <2>4. got'[p][n] = d /\ d # None /\ \A k \in Names \ {n} : got'[p][k] = got[p][k]
    BY <2>2, <2>3, NoneAssumption
  <2>5. ASSUME NEW k \in Names, got'[p][k] # None PROVE Stores(k, got'[p][k])
    <3>1. CASE k = n
      BY <2>1, <2>2, <2>4, <3>1 DEF Stores
    <3>2. CASE k # n
      <4>1. got'[p][k] = got[p][k] /\ got[p][k] # None
        BY <2>4, <2>5, <3>2
      <4> QED
        BY <2>1, <4>1
    <3> QED
      BY <3>1, <3>2
  <2>6. ASSUME NEW g \in Present PROVE g \in list'[p] \/ got'[p][files[g].name] # None
    <3>1. files[g].name \in Names
      BY DEF Present, Envelope
    <3> QED
      BY <2>1, <2>2, <2>4, <3>1
  <2> QED
    BY <2>1, <2>5, <2>6 DEF Stores, Present
<1>6. CASE Forget(p)
  BY <1>6 DEF Forget
<1> QED
  BY <1>1, <1>2, <1>3, <1>4, <1>5, <1>6
     DEF Acts, Step, Return, Crash, PlanWrite, WriteSecretScan, RenameSecret,
         WriteSecretFails, WritesDone, NotFound, ReadSecret, FindDoomed,
         RemoveSecret, DecryptFails, ReadAllDone, PlanReencrypt, Fails

\* A delete takes the file its scan has found.
LEMMA OwnDoomed ==
  ASSUME InductiveInv, NEW p \in Procs, Acts(p)
  PROVE  Doomed(p)'
<1> USE DEF InductiveInv, LockInv, TypeOK, Doomed, disk, local
<1>1. CASE FindDoomed(p)
  <2>1. PICK f \in Present : files[f].name = op[p].name /\ list'[p] = {f}
    BY <1>1 DEF FindDoomed, FirstOf, Matches, Readable, Present
  <2> QED
    BY <1>1, <2>1 DEF FindDoomed, Present
<1>2. CASE AcquireExclusive(p) \/ AcquireShared(p)
  BY <1>2 DEF AcquireExclusive, AcquireShared, FirstStep, OpShape
<1>3. CASE pc'[p] # "remove"
  BY <1>3
<1> QED
  BY <1>1, <1>2, <1>3
     DEF Acts, Step, Return, Crash, Begin, PlanWrite, WriteSecretScan, RenameSecret,
         WriteSecretFails, WritesDone, NotFound, ReadSecret, RemoveSecret,
         AppendRecipient, Glob, DecryptOne, DecryptFails, ReadAllDone, PlanReencrypt,
         Fails, Forget

\* The writes of a share add are of what it has read.
LEMMA OwnWriting ==
  ASSUME InductiveInv, NEW p \in Procs, Underway(p), Acts(p)
  PROVE  Writing(p)'
<1> USE DEF InductiveInv, LockInv, TypeOK, Underway, Writing, disk, local
<1>1. CASE PlanWrite(p)
  <2>1. op[p].name \in Names /\ op[p].kind = "write" /\ calls[p] = Nothing
    BY <1>1, RequestFields DEF PlanWrite, OpShape
  <2>2. calls'[p] = [Nothing EXCEPT ![op[p].name] = [data |-> op[p].data, dest |-> None]]
    BY <1>1, <2>1 DEF PlanWrite
  <2> QED
    BY <1>1, <2>1, <2>2 DEF PlanWrite, Nothing
<1>2. ASSUME NEW k \in Names, WriteSecretScan(p, k) PROVE Writing(p)'
  <2>1. PICK d \in UUIDs :
           calls' = [calls EXCEPT ![p][k] = [data |-> @.data, dest |-> d]]
    BY <1>2 DEF WriteSecretScan
  <2>2. calls[p][k] # None
    BY <1>2 DEF WriteSecretScan
  <2>3. \A j \in Names : calls'[p][j] # None =>
           calls[p][j] # None /\ calls'[p][j].data = calls[p][j].data
    BY <2>1, <2>2
  <2> QED
    BY <1>2, <2>3 DEF WriteSecretScan, Stores, Present
<1>3. ASSUME NEW k \in Names, RenameSecret(p, k) PROVE Writing(p)'
  <2>1. calls'[p][k] = None /\ \A j \in Names \ {k} : calls'[p][j] = calls[p][j]
    BY <1>3 DEF RenameSecret
  <2>2. UNCHANGED <<op, pc>> /\ pc[p] = "writing"
    BY <1>3 DEF RenameSecret
  <2>3. ASSUME NEW j \in Names, calls'[p][j] # None
        PROVE  IF op[p].kind = "write"
               THEN j = op[p].name /\ calls'[p][j].data = op[p].data
               ELSE Stores(j, calls[p][j].data)'
    <3>1. j # k /\ calls'[p][j] = calls[p][j] /\ calls[p][j] # None
      BY <2>1, <2>3
    <3>2. PICK d : d = calls[p][j].data
      OBVIOUS
    <3>3. Stores(j, d) => Stores(j, d)'
      BY <1>3, <3>1, RenameKeeps
    <3> QED
      BY <2>2, <3>1, <3>2, <3>3 DEF Stores
  <2> QED
    BY <2>2, <2>3
<1>4. ASSUME NEW k \in Names, WriteSecretFails(p, k) PROVE Writing(p)'
  BY <1>4 DEF WriteSecretFails, Stores, Present
<1>5. CASE PlanReencrypt(p)
  <2>1. UNCHANGED <<op, files>> /\ pc[p] = "decrypt" /\ op[p].kind = "share"
    BY <1>5 DEF PlanReencrypt
  <2>2. ASSUME NEW k \in Names, calls'[p][k] # None
        PROVE  got[p][k] # None /\ calls'[p][k].data = got[p][k]
    BY <1>5, <2>2 DEF PlanReencrypt
  <2> QED
    BY <2>1, <2>2 DEF Gathered, Stores, Present
<1>6. CASE AcquireExclusive(p) \/ AcquireShared(p)
  BY <1>6 DEF AcquireExclusive, AcquireShared, FirstStep, OpShape
<1>7. CASE pc'[p] # "writing"
  BY <1>7
<1> QED
  BY <1>1, <1>2, <1>3, <1>4, <1>5, <1>6, <1>7
     DEF Acts, Step, Return, Crash, Begin, WritesDone, NotFound, ReadSecret,
         FindDoomed, RemoveSecret, AppendRecipient, Glob, DecryptOne, DecryptFails,
         ReadAllDone, Fails, Forget

\* A step disturbs neither its own process's work nor another's.
LEMMA StepRefinementInv == Calm /\ RefinementInv /\ [Next]_vars => RefinementInv'
<1> SUFFICES ASSUME Calm, RefinementInv, [Next]_vars PROVE RefinementInv'
  OBVIOUS
<1>1. InductiveInv'
  BY StepTypeOK, StepOpShape, StepLockDiscipline, StepRecipientsCurrent,
     StepMembers, StepDestinations, StepUniqueNames, StepAdmittedReadsAll,
     StepCoverage DEF RefinementInv, InductiveInv, LockInv
<1>2. ASSUME NEW p \in Procs, NEW q \in Procs, Acts(q) PROVE Underway(p)'
  <2>1. CASE q # p
    BY <1>2, <2>1, OthersUnderway DEF RefinementInv
  <2>2. CASE q = p
    BY <1>2, <2>2, OwnUnanswered, OwnGathered, OwnDoomed, OwnWriting
       DEF RefinementInv, Underway
  <2> QED
    BY <2>1, <2>2
<1>3. ASSUME UNCHANGED vars, NEW p \in Procs PROVE Underway(p)'
  <2>1. UNCHANGED <<files, op, pc, list, got, calls, status>> /\ Underway(p)
    BY <1>3 DEF vars, disk, local, RefinementInv
  <2>2. Unanswered(p)' /\ Doomed(p)'
    BY <2>1 DEF Underway, Unanswered, Doomed, Present
  <2>3. Gathered(p)'
    BY <2>1 DEF Underway, Gathered, Stores, Present
  <2>4. Writing(p)'
    BY <2>1 DEF Underway, Writing, Stores, Present
  <2> QED
    BY <2>2, <2>3, <2>4 DEF Underway
<1> QED
  BY <1>1, <1>2, <1>3 DEF Next, Acts, RefinementInv

-----------------------------------------------------------------------------
(* The steps of Vault are steps of the store *)

\* A step answers its own process only.
LEMMA AnswersOwn ==
  ASSUME TypeOK, NEW p \in Procs, Acts(p)
  PROVE  answers' = [answers EXCEPT ![p] =
            IF status'[p] = "ok" /\ op'[p].kind \in {"read", "readall"}
            THEN got'[p] ELSE Nothing]
<1>1. \A q \in Procs \ {p} : op'[q] = op[q] /\ got'[q] = got[q] /\ status'[q] = status[q]
  BY OthersKeep
<1> QED
  BY <1>1 DEF answers

\* The store sees nothing of a step that changes no secret, request or outcome,
\* but perhaps what a read has gathered so far.
LEMMA Quiet ==
  ASSUME TypeOK, NEW p \in Procs, Acts(p), UNCHANGED <<files, op, status>>,
         status[p] # "ok" \/ got'[p] = got[p]
  PROVE  UNCHANGED Store!storeVars
<1>1. UNCHANGED contents
  BY DEF contents
<1>2. UNCHANGED answers
  <2>1. answers[p] = IF status[p] = "ok" /\ op[p].kind \in {"read", "readall"}
                     THEN got[p] ELSE Nothing
    BY DEF answers
  <2>2. answers' = [answers EXCEPT ![p] = answers[p]]
    BY <2>1, AnswersOwn
  <2> QED
    BY <2>2 DEF answers
<1> QED
  BY <1>1, <1>2 DEF Store!storeVars

\* A failure is one of the store.
LEMMA Failure ==
  ASSUME TypeOK, NEW p \in Procs, Acts(p), op[p] # None, status[p] = "none",
         UNCHANGED <<files, op>>, status' = [status EXCEPT ![p] = "error"]
  PROVE  Store!Fail(p)
<1>1. UNCHANGED contents
  BY DEF contents
<1>2. UNCHANGED answers
  <2>1. status'[p] = "error"
    BY DEF TypeOK
  <2>2. answers' = [answers EXCEPT ![p] = Nothing] /\ answers[p] = Nothing
    BY <2>1, AnswersOwn DEF answers
  <2> QED
    BY <2>2 DEF answers
<1> QED
  BY <1>1, <1>2 DEF Store!Fail

\* The moment a write takes effect.
LEMMA RenameImplements ==
  ASSUME InductiveInv, NEW p \in Procs, Underway(p), NEW k \in Names, RenameSecret(p, k)
  PROVE  Store!Write(p) \/ UNCHANGED Store!storeVars
<1> USE DEF InductiveInv, LockInv, TypeOK
<1>1. /\ pc[p] = "writing" /\ calls[p][k] # None /\ op' = op /\ got' = got
      /\ op[p] \in Requests /\ op[p].kind \in {"write", "share"}
  BY DEF RenameSecret, OpShape, local, disk
<1>2. contents' = [contents EXCEPT ![k] = calls[p][k].data]
  BY RenameContents
<1>3. Acts(p)
  BY DEF Acts, Step
<1>4. CASE op[p].kind = "write"
  <2>1. k = op[p].name /\ calls[p][k].data = op[p].data /\ status[p] = "none"
    BY <1>1, <1>4 DEF Underway, Writing, Unanswered
  <2>2. status' = [status EXCEPT ![p] = "ok"]
    BY <1>4 DEF RenameSecret
  <2>3. answers' = [answers EXCEPT ![p] = Nothing] /\ answers[p] = Nothing
    BY <1>1, <1>3, <1>4, AnswersOwn DEF answers
  <2>4. UNCHANGED answers
    BY <2>3 DEF answers
  <2> QED
    BY <1>1, <1>2, <1>4, <2>1, <2>2, <2>4, NoneAssumption
       DEF Store!Write, Store!Undecided
<1>5. CASE op[p].kind = "share"
  <2>1. contents[k] = calls[p][k].data
    BY <1>1, <1>5, StoresValue DEF Underway, Writing
  <2>2. UNCHANGED contents
    BY <1>2, <2>1 DEF contents
  <2>3. status' = status
    BY <1>5 DEF RenameSecret
  <2>4. answers' = [answers EXCEPT ![p] = Nothing] /\ answers[p] = Nothing
    BY <1>1, <1>3, <1>5, AnswersOwn DEF answers
  <2>5. UNCHANGED answers
    BY <2>4 DEF answers
  <2> QED
    BY <1>1, <2>2, <2>3, <2>5 DEF Store!storeVars
<1> QED
  BY <1>1, <1>4, <1>5

\* The moment a delete takes effect.
LEMMA RemoveImplements ==
  ASSUME InductiveInv, NEW p \in Procs, Underway(p), RemoveSecret(p)
  PROVE  Store!Delete(p)
<1> USE DEF InductiveInv, LockInv, TypeOK
<1>1. /\ pc[p] = "remove" /\ op' = op /\ status' = [status EXCEPT ![p] = "ok"]
      /\ op[p] \in Requests /\ op[p].kind = "delete" /\ status[p] = "none"
  BY DEF RemoveSecret, OpShape, Underway, Unanswered
<1>2. Acts(p)
  BY DEF Acts, Step
<1>3. answers' = [answers EXCEPT ![p] = Nothing] /\ answers[p] = Nothing
  BY <1>1, <1>2, AnswersOwn DEF answers
<1>4. UNCHANGED answers
  BY <1>3 DEF answers
<1> QED
  BY <1>1, <1>4, RemoveContents, NoneAssumption DEF Store!Delete, Store!Undecided

\* The moment a read takes effect, or finds nothing.
LEMMA LookupImplements ==
  ASSUME Calm, InductiveInv, NEW p \in Procs, Underway(p), NotFound(p) \/ ReadSecret(p)
  PROVE  Store!NotFound(p) \/ Store!Read(p)
<1>0. pc[p] = "lookup"
  BY DEF NotFound, ReadSecret
<1>a. \A k \in Names : \A miss \in SUBSET Flaky :
         Matches(op[p].by, k, miss) = {f \in Present : files[f].name = k}
  BY <1>0, MatchesAll
<1> USE DEF InductiveInv, LockInv, TypeOK
<1>1. /\ pc[p] = "lookup" /\ op' = op /\ files' = files
      /\ op[p] \in Requests /\ op[p].kind \in {"read", "delete"} /\ status[p] = "none"
      /\ got[p] = Nothing
  BY DEF NotFound, ReadSecret, OpShape, Underway, Unanswered, Gathered, disk
<1>2. Acts(p)
  BY DEF Acts, Step
<1>3. PICK k \in Names : k = op[p].name
  BY <1>1, RequestFields
<1>4. UNCHANGED contents
  BY <1>1 DEF contents
<1>5. answers[p] = Nothing
  BY <1>1 DEF answers
<1>6. CASE NotFound(p)
  <2>1. {f \in Present : files[f].name = k} = {}
    <3>1. PICK miss \in SUBSET Flaky : Matches(op[p].by, k, miss) = {}
      BY <1>3, <1>6 DEF NotFound
    <3>2. Matches(op[p].by, k, miss) = {f \in Present : files[f].name = k}
      BY <1>a
    <3> QED
      BY <3>1, <3>2
  <2>2. contents[k] = None
    BY <2>1, ValueNone DEF contents, Present
  <2>3. status' = [status EXCEPT ![p] = "notfound"]
    BY <1>6 DEF NotFound
  <2>4. answers' = [answers EXCEPT ![p] = Nothing]
    BY <1>2, <2>3, AnswersOwn
  <2>5. UNCHANGED answers
    BY <1>5, <2>4 DEF answers
  <2> QED
    BY <1>1, <1>3, <1>4, <2>2, <2>3, <2>5, NoneAssumption
       DEF Store!NotFound, Store!Undecided
<1>7. CASE ReadSecret(p)
  <2>1. PICK f \in Present :
           files[f].name = k /\ got' = [got EXCEPT ![p][k] = files[f].data]
    <3>1. PICK miss \in SUBSET Flaky :
             \E f \in FirstOf(Matches(op[p].by, k, miss)) :
                got' = [got EXCEPT ![p][k] = files[f].data]
      BY <1>3, <1>7 DEF ReadSecret
    <3>2. Matches(op[p].by, k, miss) = {f \in Present : files[f].name = k}
      BY <1>a
    <3> QED
      BY <3>1, <3>2 DEF FirstOf
  <2>2. contents[k] = files[f].data /\ contents[k] # None
    <3>1. contents[k] = files[f].data
      BY <2>1, StoresValue DEF Stores
    <3>2. files[f] \in Envelope
      BY <2>1 DEF Present
    <3> QED
      BY <3>1, <3>2, NoneAssumption DEF Envelope
  <2>3. got'[p] = [j \in Names |-> IF j = k THEN contents[j] ELSE None]
    BY <1>1, <2>1, <2>2 DEF Nothing
  <2>4. status' = [status EXCEPT ![p] = "ok"] /\ op[p].kind = "read"
    BY <1>7 DEF ReadSecret
  <2>5. answers' = [answers EXCEPT ![p] =
                      [j \in Names |-> IF j = k THEN contents[j] ELSE None]]
    BY <1>1, <1>2, <2>3, <2>4, AnswersOwn
  <2> QED
    BY <1>1, <1>3, <1>4, <2>2, <2>4, <2>5, NoneAssumption DEF Store!Read, Store!Undecided
<1> QED
  BY <1>6, <1>7

\* The moment a read of all takes effect: the last file has been decrypted.
LEMMA ReadAllImplements ==
  ASSUME InductiveInv, NEW p \in Procs, Underway(p), ReadAllDone(p)
  PROVE  Store!ReadAll(p)
<1> USE DEF InductiveInv, LockInv, TypeOK
<1>1. /\ pc[p] = "decrypt" /\ op' = op /\ files' = files /\ got' = got
      /\ status' = [status EXCEPT ![p] = "ok"] /\ list[p] = {}
      /\ op[p] \in Requests /\ op[p].kind = "readall" /\ status[p] = "none"
  BY DEF ReadAllDone, OpShape, Underway, Unanswered, disk
<1>2. Acts(p)
  BY DEF Acts, Step
<1>3. UNCHANGED contents
  BY <1>1 DEF contents
<1>4. ASSUME NEW k \in Names PROVE got[p][k] = contents[k]
  <2>1. CASE got[p][k] # None
    BY <1>1, <2>1, StoresValue DEF Underway, Gathered
  <2>2. CASE got[p][k] = None
    <3>1. \A f \in Present : files[f].name # k
      BY <1>1, <2>2 DEF Underway, Gathered
    <3>2. value(files, k) = None
      BY <3>1, ValueNone DEF Present
    <3> QED
      BY <2>2, <3>2 DEF contents
  <2> QED
    BY <2>1, <2>2
<1>5. got[p] = contents
  BY <1>4 DEF contents
<1>6. answers' = [answers EXCEPT ![p] = contents]
  BY <1>1, <1>2, <1>5, AnswersOwn
<1> QED
  BY <1>1, <1>3, <1>6, NoneAssumption DEF Store!ReadAll, Store!Undecided

\* The end of the writes: a share add is done if none has failed; a write has
\* been answered by its rename.
LEMMA WritesDoneImplements ==
  ASSUME InductiveInv, NEW p \in Procs, Underway(p), WritesDone(p)
  PROVE  Store!Share(p) \/ UNCHANGED Store!storeVars
<1> USE DEF InductiveInv, LockInv, TypeOK
<1>1. /\ pc[p] = "writing" /\ op' = op /\ files' = files /\ got' = got
      /\ op[p] \in Requests /\ op[p].kind \in {"write", "share"} /\ calls[p] = Nothing
  BY DEF WritesDone, OpShape
<1>2. Acts(p)
  BY DEF Acts, Step
<1>3. CASE status[p] = "none"
  <2>1. op[p].kind = "share"
    <3>1. op[p].kind = "write" => calls[p][op[p].name] = None
      BY <1>1, RequestFields DEF Nothing
    <3> QED
      BY <1>1, <1>3, <3>1 DEF Underway, Unanswered
  <2>2. status' = [status EXCEPT ![p] = "ok"]
    BY <1>3 DEF WritesDone
  <2>3. answers' = [answers EXCEPT ![p] = Nothing] /\ answers[p] = Nothing
    BY <1>1, <1>2, <2>1, AnswersOwn DEF answers
  <2>4. UNCHANGED answers
    BY <2>3 DEF answers
  <2>5. UNCHANGED contents
    BY <1>1 DEF contents
  <2> QED
    BY <1>1, <1>3, <2>1, <2>2, <2>4, <2>5, NoneAssumption DEF Store!Share, Store!Undecided
<1>4. CASE status[p] # "none"
  BY <1>1, <1>2, <1>4, Quiet DEF WritesDone
<1> QED
  BY <1>3, <1>4

\* The caller leaves with its answer, or dies.
LEMMA ForgetImplements ==
  ASSUME TypeOK, OpShape, NEW p \in Procs, Acts(p), pc[p] # "idle", Forget(p)
  PROVE  Store!Leave(p)
<1>1. op[p] # None
  BY NoneAssumption DEF OpShape
<1>2. UNCHANGED contents
  BY DEF Forget, disk, contents
<1>3. status'[p] = "none"
  BY DEF Forget, TypeOK
<1>4. answers' = [answers EXCEPT ![p] = Nothing]
  BY <1>3, AnswersOwn
<1> QED
  BY <1>1, <1>2, <1>4 DEF Forget, Store!Leave, Store!NoResult, Nothing

\* A new request has no answer yet.
LEMMA BeginImplements ==
  ASSUME InductiveInv, NEW p \in Procs, Underway(p), NEW o \in Requests, Begin(p, o)
  PROVE  Store!Invoke(p, o)
<1> USE DEF InductiveInv, LockInv, TypeOK
<1>1. op[p] = None /\ status[p] = "none" /\ status' = status /\ files' = files
  BY DEF Begin, Underway, Unanswered, disk, local
<1>2. answers' = [answers EXCEPT ![p] = Nothing] /\ answers[p] = Nothing
  BY <1>1, AnswersOwn DEF answers, Acts
<1>3. UNCHANGED <<answers, contents>>
  BY <1>1, <1>2 DEF answers, contents
<1> QED
  BY <1>1, <1>3 DEF Begin, Store!Invoke

\* Every step of a process is one of the store, or none.
LEMMA StepImplements ==
  ASSUME Calm, RefinementInv, NEW p \in Procs, Acts(p)
  PROVE  Store!Next \/ UNCHANGED Store!storeVars
<1> USE DEF RefinementInv, InductiveInv, LockInv
<1>1. Underway(p)
  OBVIOUS
<1>2. pc[p] # "idle" => op[p] # None
  BY NoneAssumption DEF OpShape
<1>3. ASSUME NEW o \in Requests, Begin(p, o) PROVE Store!Next
  BY <1>1, <1>3, BeginImplements DEF Store!Next
<1>4. CASE AcquireExclusive(p) \/ AcquireShared(p) \/ PlanWrite(p) \/ FindDoomed(p)
  <2>1. UNCHANGED <<files, op, status, got>>
    BY <1>4 DEF AcquireExclusive, AcquireShared, PlanWrite, FindDoomed, disk, local
  <2> QED
    BY <2>1, Quiet
<1>5. CASE AppendRecipient(p) \/ Glob(p) \/ PlanReencrypt(p)
  <2>1. UNCHANGED <<files, op, status, got>>
    BY <1>5 DEF AppendRecipient, Glob, PlanReencrypt, disk
  <2> QED
    BY <2>1, Quiet
<1>6. ASSUME NEW k \in Names, WriteSecretScan(p, k) PROVE UNCHANGED Store!storeVars
  BY <1>6, Quiet DEF WriteSecretScan, disk
<1>7. ASSUME NEW f \in UUIDs, DecryptOne(p, f) PROVE UNCHANGED Store!storeVars
  <2>1. UNCHANGED <<files, op, status>> /\ status[p] # "ok"
    BY <1>1, <1>7 DEF DecryptOne, disk, Underway, Unanswered
  <2> QED
    BY <2>1, Quiet
<1>8. ASSUME NEW k \in Names, RenameSecret(p, k)
      PROVE  Store!Next \/ UNCHANGED Store!storeVars
  BY <1>1, <1>8, RenameImplements DEF Store!Next
<1>9. ASSUME NEW k \in Names, WriteSecretFails(p, k)
      PROVE  Store!Next \/ UNCHANGED Store!storeVars
  <2>1. /\ pc[p] = "writing" /\ calls[p][k] # None
        /\ UNCHANGED <<files, op, got>> /\ status' = [status EXCEPT ![p] = "error"]
    BY <1>9 DEF WriteSecretFails, disk
  <2>2. status[p] \in {"none", "error"}
    BY <1>1, <2>1 DEF Underway, Unanswered, Writing, OpShape
  <2>3. CASE status[p] = "none"
    BY <1>2, <2>1, <2>3, Failure DEF Store!Next
  <2>4. CASE status[p] = "error"
    <3>1. status' = status
      BY <2>1, <2>4 DEF TypeOK
    <3> QED
      BY <2>1, <3>1, Quiet
  <2> QED
    BY <2>2, <2>3, <2>4
<1>10. CASE WritesDone(p)
  BY <1>1, <1>10, WritesDoneImplements DEF Store!Next
<1>11. CASE NotFound(p) \/ ReadSecret(p)
  BY <1>1, <1>11, LookupImplements DEF Store!Next
<1>12. CASE RemoveSecret(p)
  BY <1>1, <1>12, RemoveImplements DEF Store!Next
<1>13. CASE ReadAllDone(p)
  BY <1>1, <1>13, ReadAllImplements DEF Store!Next
<1>14. CASE Fails(p) \/ \E f \in UUIDs : DecryptFails(p, f)
  <2>1. /\ pc[p] # "idle" /\ status[p] = "none" /\ UNCHANGED <<files, op>>
        /\ status' = [status EXCEPT ![p] = "error"]
    BY <1>1, <1>14 DEF Fails, DecryptFails, disk, Underway, Unanswered
  <2> QED
    BY <1>2, <2>1, Failure DEF Store!Next
<1>15. CASE Return(p) \/ Crash(p)
  BY <1>15, ForgetImplements DEF Return, Crash, Store!Next
<1> QED
  BY <1>3, <1>4, <1>5, <1>6, <1>7, <1>8, <1>9, <1>10, <1>11, <1>12, <1>13,
     <1>14, <1>15 DEF Acts, Step

\* The vault starts as the empty store.
LEMMA InitImplements == Init => RefinementInv /\ Store!Init
<1> SUFFICES ASSUME Init PROVE RefinementInv /\ Store!Init
  OBVIOUS
<1>1. InductiveInv
  BY InitTypeOK
     DEF Init, LockInv, TypeOK, LockDiscipline, OpShape, RecipientsCurrent, Present,
         InductiveInv, UniqueNames, AdmittedReadsAll, Destinations, Members, Coverage,
         Covered, Nothing
<1>2. \A p \in Procs : Underway(p)
  BY DEF Init, Underway, Unanswered, Gathered, Doomed, Writing
<1>3. contents = Nothing
  BY ValueNone DEF Init, contents, Nothing
<1>4. answers = [p \in Procs |-> Nothing]
  BY DEF Init, answers
<1> QED
  BY <1>1, <1>2, <1>3, <1>4 DEF RefinementInv, Init, Store!Init, Store!NoResult, Nothing

\* What a process has gathered under its lock is still so when it acts on it.
THEOREM WorkIsCurrent ==
  ASSUME Calm
  PROVE  Spec => []RefinementInv
<1>1. Init => RefinementInv
  BY InitImplements
<1>2. RefinementInv /\ [Next]_vars => RefinementInv'
  BY StepRefinementInv
<1> QED
  BY <1>1, <1>2, PTL DEF Spec

\* Readers, writers and share adds see and leave a vault that behaves as one
\* atomic map, whoever dies or fails at whatever point.
THEOREM VaultIsAtomic ==
  ASSUME Calm
  PROVE  Spec => AtomicVault
<1>1. Init => Store!Init
  BY InitImplements
<1>2. RefinementInv /\ [Next]_vars => [Store!Next]_(Store!storeVars)
  <2> SUFFICES ASSUME RefinementInv, [Next]_vars
               PROVE  Store!Next \/ UNCHANGED Store!storeVars
    OBVIOUS
  <2>1. ASSUME NEW p \in Procs, Acts(p) PROVE Store!Next \/ UNCHANGED Store!storeVars
    BY <2>1, StepImplements
  <2>2. CASE UNCHANGED vars
    BY <2>2 DEF vars, disk, local, Store!storeVars, contents, answers
  <2> QED
    BY <2>1, <2>2 DEF Next, Acts
<1> QED
  BY WorkIsCurrent, <1>1, <1>2, PTL DEF Spec, AtomicVault, Store!Spec
=============================================================================
