-------------------------- MODULE VaultDaemonProofs --------------------------
(***************************************************************************)
(* What is left of the vault's promises when the daemon's delete removes   *)
(* files without vault.lock, for every value of the constants.  A delete   *)
(* that was answered is not final (NoResurrection does not hold), but the  *)
(* rest of the vault stays sound: a file that goes away under a writer or  *)
(* a share add leaves names with one file, readers with what they could    *)
(* read, recipients in order, and no value replaced by an older one.       *)
(***************************************************************************)
EXTENDS VaultDaemon, VaultRefinementProofs

\* A delete touches nothing but its file.
LEMMA DeleteKeepsTheRest ==
  ASSUME NEW f \in UUIDs, DaemonDelete(f)
  PROVE  /\ UNCHANGED <<recipients, admitted, op, pc, holds>>
         /\ UNCHANGED <<rcpt, list, got, calls, status>>
         /\ files' = [files EXCEPT ![f] = None]
  BY DEF DaemonDelete, local

\* The files after a delete were there before it, as they are.
LEMMA DeleteLeavesFiles ==
  ASSUME TypeOK, NEW f \in UUIDs, DaemonDelete(f)
  PROVE  /\ files' \in [UUIDs -> Envelope \cup {None}]
         /\ \A g \in Present' : g \in Present /\ files'[g] = files[g]
<1>1. files' = [files EXCEPT ![f] = None] /\ files \in [UUIDs -> Envelope \cup {None}]
  BY DeleteKeepsTheRest DEF TypeOK
<1> QED
  BY <1>1 DEF Present

\* Locks and requests are about the processes, and a file that is gone is
\* encrypted to nobody.
LEMMA DeleteLockInv ==
  ASSUME LockInv, NEW f \in UUIDs, DaemonDelete(f)
  PROVE  LockInv'
<1> USE DeleteKeepsTheRest
<1>1. TypeOK /\ TypeOK'
  BY DeleteLeavesFiles DEF LockInv, TypeOK
<1>2. LockDiscipline' /\ OpShape'
  BY DEF LockInv, LockDiscipline, OpShape
<1>3. RecipientsCurrent'
  BY <1>1, DeleteLeavesFiles DEF LockInv, RecipientsCurrent
<1> QED
  BY <1>1, <1>2, <1>3 DEF LockInv

\* A call under way keeps its destination when the file it was to replace
\* goes, or the file of another name; a share add has one secret less to see.
LEMMA DeleteInductiveInv ==
  ASSUME InductiveInv, NEW f \in UUIDs, DaemonDelete(f)
  PROVE  InductiveInv'
<1> USE DeleteKeepsTheRest
<1>1. TypeOK /\ LockInv'
  BY DeleteLockInv DEF InductiveInv, LockInv
<1>2. \A g \in Present' : g \in Present /\ files'[g] = files[g]
  BY <1>1, DeleteLeavesFiles
<1>3. UniqueNames' /\ AdmittedReadsAll'
  BY <1>2 DEF InductiveInv, UniqueNames, AdmittedReadsAll
<1>4. Destinations' /\ Members'
  BY <1>2 DEF InductiveInv, Destinations, Members
<1>5. Coverage'
  BY <1>2 DEF InductiveInv, Coverage, Covered
<1> QED
  BY <1>1, <1>3, <1>4, <1>5 DEF InductiveInv

-----------------------------------------------------------------------------
\* Locks and recipients are in order in every reachable state, deletes of the
\* daemon included, whoever uses the vault and whatever fails.
THEOREM DaemonLockInvariant == DaemonSpec => []LockInv
<1>1. Init => LockInv
  BY InitTypeOK
     DEF Init, LockInv, TypeOK, LockDiscipline, OpShape, RecipientsCurrent, Present
<1>2. LockInv /\ [DaemonNext]_vars => LockInv'
  <2> SUFFICES ASSUME LockInv, [DaemonNext]_vars PROVE LockInv'
    OBVIOUS
  <2>1. CASE [Next]_vars
    BY <2>1, StepTypeOK, StepOpShape, StepLockDiscipline, StepRecipientsCurrent DEF LockInv
  <2>2. CASE \E f \in UUIDs : DaemonDelete(f)
    BY <2>2, DeleteLockInv
  <2> QED
    BY <2>1, <2>2 DEF DaemonNext
<1> QED
  BY <1>1, <1>2, PTL DEF DaemonSpec

\* A write that races the daemon's delete takes a secret from nobody: the file
\* it brings back is for everyone who could read the one it found.
THEOREM DaemonLosesNoAccess == DaemonSpec => NoAccessLost
<1> DEFINE Kept == \A f \in UUIDs : files[f] # None /\ files'[f] # None
                                   => files[f].rcpt \subseteq files'[f].rcpt
<1>1. LockInv /\ [DaemonNext]_vars => [Kept]_vars
  <2> SUFFICES ASSUME LockInv, DaemonNext PROVE Kept
    OBVIOUS
  <2>1. CASE Next
    BY <2>1, NextLosesNoAccess
  <2>2. ASSUME NEW f \in UUIDs, DaemonDelete(f) PROVE Kept
    BY <2>2, DeleteLeavesFiles DEF LockInv, Present
  <2> QED
    BY <2>1, <2>2 DEF DaemonNext
<1> QED
  BY DaemonLockInvariant, <1>1, PTL DEF DaemonSpec, NoAccessLost

\* The parts of the invariant need no lock around a delete.
THEOREM DaemonVaultInvariant ==
  ASSUME Calm
  PROVE  DaemonSpec => []InductiveInv
<1>1. InductiveInv /\ [DaemonNext]_vars => InductiveInv'
  <2> SUFFICES ASSUME InductiveInv, [DaemonNext]_vars PROVE InductiveInv'
    OBVIOUS
  <2>1. CASE [Next]_vars
    BY <2>1, StepInductiveInv
  <2>2. CASE \E f \in UUIDs : DaemonDelete(f)
    BY <2>2, DeleteInductiveInv
  <2> QED
    BY <2>1, <2>2 DEF DaemonNext
<1> QED
  BY InitInductiveInv, <1>1, PTL DEF DaemonSpec

\* Neither a delete between a write's scan and its rename nor one under a share
\* add gives a name a second file.
THEOREM DaemonNamesUnique ==
  ASSUME Calm
  PROVE  DaemonSpec => []UniqueNames
  BY DaemonVaultInvariant, PTL DEF InductiveInv

\* What is brought back is for every admitted user, like all the rest.
THEOREM DaemonAdmittedCanRead ==
  ASSUME Calm
  PROVE  DaemonSpec => []AdmittedReadsAll
  BY DaemonVaultInvariant, PTL DEF InductiveInv

-----------------------------------------------------------------------------
(* A share add does not put back an old value over a newer one.  Its work  *)
(* fits the files there are: with deletes beside it, it may know secrets   *)
(* that are gone, so Underway is more than what holds here.                *)

Fits(p) ==
    /\ pc[p] \in {"idle", "lock", "plan", "lookup", "append", "glob"} => got[p] = Nothing
    /\ pc[p] \in {"decrypt", "writing"} /\ op[p].kind = "share" => \A f \in Present :
        IF pc[p] = "decrypt"
        THEN got[p][files[f].name] \in {None, files[f].data}
        ELSE calls[p][files[f].name] # None => calls[p][files[f].name].data = files[f].data

FitsInv == InductiveInv /\ \A p \in Procs : Fits(p)

\* One file less is one to fit less.
LEMMA DeleteFits ==
  ASSUME FitsInv, NEW f \in UUIDs, DaemonDelete(f)
  PROVE  FitsInv'
<1> USE DeleteKeepsTheRest
<1>1. TypeOK /\ InductiveInv'
  BY DeleteInductiveInv DEF FitsInv, InductiveInv, LockInv
<1>2. \A g \in Present' : g \in Present /\ files'[g] = files[g]
  BY <1>1, DeleteLeavesFiles
<1>3. \A p \in Procs : Fits(p)'
  BY <1>2 DEF FitsInv, Fits
<1> QED
  BY <1>1, <1>3 DEF FitsInv

\* The others do not get at the files a share add works on.
LEMMA OthersFit ==
  ASSUME InductiveInv, NEW p \in Procs, Fits(p), NEW q \in Procs, q # p, Acts(q)
  PROVE  Fits(p)'
<1>1. op'[p] = op[p] /\ pc'[p] = pc[p] /\ got'[p] = got[p] /\ calls'[p] = calls[p]
  BY OthersKeep DEF InductiveInv, LockInv
<1>2. pc[p] \in {"writing", "decrypt"} => files' = files
  BY HoldsAt, FilesHeld DEF InductiveInv
<1> QED
  BY <1>1, <1>2 DEF Fits, Present

\* A share add gathers what is there, and writes what it has gathered.
LEMMA OwnFits ==
  ASSUME InductiveInv, NEW p \in Procs, Fits(p), Acts(p)
  PROVE  Fits(p)'
<1> USE DEF InductiveInv, LockInv, TypeOK, Fits, Present, disk, local
<1>1. ASSUME NEW o \in Requests, Begin(p, o) PROVE Fits(p)'
  BY <1>1 DEF Begin
<1>2. CASE AcquireExclusive(p) \/ AcquireShared(p) \/ AppendRecipient(p)
  BY <1>2, RequestFields, NoneAssumption
     DEF AcquireExclusive, AcquireShared, AppendRecipient, FirstStep, OpShape
<1>3. CASE pc'[p] \in {"remove", "unlock"}
  BY <1>3
<1>4. CASE Glob(p)
  BY <1>4 DEF Glob, Nothing, Envelope
<1>5. ASSUME NEW f \in UUIDs, DecryptOne(p, f) PROVE Fits(p)'
  <2>1. UNCHANGED <<files, op, pc>> /\ pc[p] = "decrypt" /\ f \in Present
    BY <1>5 DEF DecryptOne, Readable
  <2>2. PICK n \in Names, d \in Data : n = files[f].name /\ d = files[f].data
    BY <2>1 DEF Envelope
  <2>3. got'[p] = [got[p] EXCEPT ![n] = d]
    BY <1>5, <2>2 DEF DecryptOne
  <2>4. ASSUME NEW g \in Present, op[p].kind = "share"
        PROVE  got'[p][files[g].name] \in {None, files[g].data}
    <3>1. CASE g = f
      BY <2>2, <2>3, <3>1
    <3>2. CASE g # f
      <4>1. files[g].name \in Names /\ files[g].name # n
        BY <2>1, <2>2, <3>2 DEF UniqueNames, Envelope
      <4> QED
        BY <2>1, <2>3, <2>4, <4>1
    <3> QED
      BY <3>1, <3>2
  <2> QED
    BY <2>1, <2>4
<1>6. CASE PlanWrite(p)
  BY <1>6 DEF PlanWrite, OpShape
<1>7. ASSUME NEW k \in Names, WriteSecretScan(p, k) PROVE Fits(p)'
  <2>1. PICK d \in UUIDs :
           calls' = [calls EXCEPT ![p][k] = [data |-> @.data, dest |-> d]]
    BY <1>7 DEF WriteSecretScan
  <2>2. calls[p][k] # None
    BY <1>7 DEF WriteSecretScan
  <2>3. \A j \in Names : calls'[p][j] # None =>
           calls[p][j] # None /\ calls'[p][j].data = calls[p][j].data
    BY <2>1, <2>2
  <2>4. \A f \in Present : files[f].name \in Names
    BY DEF Envelope
  <2> QED
    BY <1>7, <2>3, <2>4 DEF WriteSecretScan
<1>8. ASSUME NEW k \in Names, RenameSecret(p, k) PROVE Fits(p)'
  <2>1. PICK d \in UUIDs : d = calls[p][k].dest
    BY <1>8 DEF RenameSecret, Call
  <2>2. /\ UNCHANGED <<op, pc>> /\ pc[p] = "writing"
        /\ files' = [files EXCEPT ![d] =
                        [name |-> k, data |-> calls[p][k].data, rcpt |-> rcpt[p]]]
        /\ calls'[p][k] = None /\ \A j \in Names \ {k} : calls'[p][j] = calls[p][j]
    BY <1>8, <2>1 DEF RenameSecret
  <2>3. files'[d].name = k /\ \A f \in UUIDs \ {d} : files'[f] = files[f]
    BY <2>2
  <2>4. \A f \in Present : files[f].name \in Names
    BY DEF Envelope
  <2>5. ASSUME NEW f \in Present', op[p].kind = "share",
               calls'[p][files'[f].name] # None
        PROVE  calls'[p][files'[f].name].data = files'[f].data
    <3>1. f # d
      BY <2>2, <2>3, <2>5
    <3>2. f \in Present /\ files'[f] = files[f]
      BY <2>3, <3>1
    <3>3. files[f].name \in Names \ {k}
      BY <2>2, <2>4, <2>5, <3>2
    <3>4. calls'[p][files[f].name] = calls[p][files[f].name]
      BY <2>2, <3>3
    <3> QED
      BY <2>2, <2>5, <3>2, <3>4
  <2> QED
    BY <2>2, <2>5
<1>9. ASSUME NEW k \in Names, WriteSecretFails(p, k) PROVE Fits(p)'
  BY <1>9 DEF WriteSecretFails, Envelope
<1>10. CASE PlanReencrypt(p)
  <2>1. /\ UNCHANGED <<op, files>> /\ op[p].kind = "share"
        /\ pc[p] = "decrypt" /\ pc'[p] = "writing"
    BY <1>10 DEF PlanReencrypt
  <2>2. ASSUME NEW k \in Names, calls'[p][k] # None
        PROVE  got[p][k] # None /\ calls'[p][k].data = got[p][k]
    BY <1>10, <2>2 DEF PlanReencrypt
  <2> QED
    BY <2>1, <2>2 DEF Envelope
<1>11. CASE Forget(p)
  BY <1>11 DEF Forget
<1> QED
  BY <1>1, <1>2, <1>3, <1>4, <1>5, <1>6, <1>7, <1>8, <1>9, <1>10, <1>11
     DEF Acts, Step, Return, Crash, WritesDone, NotFound, ReadSecret, FindDoomed,
         RemoveSecret, DecryptFails, ReadAllDone, Fails

\* The file a share add renames over has the value it writes.
LEMMA RenameKeepsValue ==
  ASSUME FitsInv, NEW p \in Procs, NEW k \in Names, RenameSecret(p, k),
         op[p].kind = "share", NEW f \in Present, f = calls[p][k].dest
  PROVE  files'[f].name = files[f].name /\ files'[f].data = files[f].data
<1>1. pc[p] = "writing" /\ calls[p][k] # None /\ calls[p][k].dest # None
  BY DEF RenameSecret
<1>2. files[f].name = k
  BY <1>1 DEF FitsInv, InductiveInv, Destinations
<1>3. calls[p][k].data = files[f].data
  BY <1>1, <1>2 DEF FitsInv, Fits
<1>4. files' = [files EXCEPT ![f] =
                   [name |-> k, data |-> calls[p][k].data, rcpt |-> rcpt[p]]]
  BY DEF RenameSecret
<1>5. files'[f] = [name |-> k, data |-> calls[p][k].data, rcpt |-> rcpt[p]]
  BY <1>4 DEF FitsInv, InductiveInv, LockInv, TypeOK, Present
<1> QED
  BY <1>2, <1>3, <1>5

\* With the daemon's deletes beside it, a share add may bring a secret back, but
\* it never puts an old value over a newer one.
THEOREM ShareKeepsWhatIsThere ==
  ASSUME Calm
  PROVE  DaemonSpec => ShareKeepsValues
<1> DEFINE Kept == \A p \in Procs, f \in UUIDs :
        /\ pc[p] \in {"decrypt", "writing"} /\ op[p].kind = "share"
        /\ files[f] # None /\ files'[f] # None
        => files'[f].name = files[f].name /\ files'[f].data = files[f].data
<1>1. Init => FitsInv
  BY InitInductiveInv DEF FitsInv, Fits, Init
<1>2. FitsInv /\ [DaemonNext]_vars => FitsInv'
  <2> SUFFICES ASSUME FitsInv, [DaemonNext]_vars PROVE FitsInv'
    OBVIOUS
  <2>1. ASSUME NEW q \in Procs, Acts(q) PROVE \A p \in Procs : Fits(p)'
    BY <2>1, OthersFit, OwnFits DEF FitsInv
  <2>2. CASE Next
    <3>1. InductiveInv'
      BY <2>2, StepInductiveInv DEF FitsInv
    <3> QED
      BY <2>1, <2>2, <3>1 DEF Next, Acts, FitsInv
  <2>3. CASE \E f \in UUIDs : DaemonDelete(f)
    BY <2>3, DeleteFits
  <2>4. CASE UNCHANGED vars
    <3>1. InductiveInv'
      BY <2>4, StepInductiveInv DEF FitsInv
    <3> QED
      BY <2>4, <3>1 DEF FitsInv, Fits, Present, vars, disk, local
  <2> QED
    BY <2>2, <2>3, <2>4 DEF DaemonNext
<1>3. FitsInv /\ [DaemonNext]_vars => [Kept]_vars
  <2> SUFFICES ASSUME FitsInv, DaemonNext, NEW p \in Procs, NEW f \in UUIDs,
                      pc[p] \in {"decrypt", "writing"}, op[p].kind = "share",
                      files[f] # None, files'[f] # None
               PROVE  files'[f].name = files[f].name /\ files'[f].data = files[f].data
    OBVIOUS
  <2> USE DEF FitsInv, InductiveInv
  <2>1. ASSUME NEW g \in UUIDs, DaemonDelete(g) PROVE files'[f] = files[f]
    BY <2>1, DeleteLeavesFiles DEF LockInv, Present
  <2>2. ASSUME NEW q \in Procs, q # p, Acts(q) PROVE files'[f] = files[f]
    BY <2>2, HoldsAt, FilesHeld
  <2>3. CASE RemoveSecret(p)
    BY <2>3 DEF RemoveSecret
  <2>4. ASSUME NEW k \in Names, RenameSecret(p, k)
        PROVE  files'[f].name = files[f].name /\ files'[f].data = files[f].data
    <3>1. CASE f = calls[p][k].dest
      BY <2>4, <3>1, RenameKeepsValue DEF Present
    <3>2. CASE f # calls[p][k].dest
      BY <2>4, <3>2 DEF RenameSecret, LockInv, TypeOK
    <3> QED
      BY <3>1, <3>2
  <2>5. CASE Acts(p)
    BY <2>3, <2>4, <2>5, OtherwiseSameFiles
  <2> QED
    BY <2>1, <2>2, <2>5 DEF DaemonNext, Next, Acts
<1> QED
  BY <1>1, <1>2, <1>3, PTL DEF DaemonSpec, ShareKeepsValues

\* All the more without them: the locks of readers and writers are enough.
THEOREM ShareAddIsFaithful ==
  ASSUME Calm
  PROVE  Spec => ShareKeepsValues
<1>1. [Next]_vars => [DaemonNext]_vars
  BY DEF DaemonNext
<1>2. Spec => DaemonSpec
  BY <1>1, PTL DEF Spec, DaemonSpec
<1> QED
  BY <1>2, ShareKeepsWhatIsThere, PTL
=============================================================================
