---------------------------- MODULE VaultProofs ----------------------------
(***************************************************************************)
(* Theorems about Vault, for every value of its constants.  LockInv is     *)
(* inductive by itself; uniqueness of names and access need each other and *)
(* the parts of InductiveInv about calls under way and share adds.         *)
(***************************************************************************)
EXTENDS Vault, TLAPS

\* The initial values have their types.
LEMMA InitTypeOK == Init => TypeOK
  BY UsersAssumption DEF Init, TypeOK, disk, local, Nothing

\* The fields a request of each kind has.
LEMMA RequestFields ==
  ASSUME NEW o \in Requests
  PROVE  /\ o.kind \in {"write", "read", "delete", "readall", "share"}
         /\ o.by \in Users
         /\ o.kind = "write" => o.name \in Names /\ o.data \in Data
         /\ o.kind \in {"read", "delete"} => o.name \in Names
         /\ o.kind = "share" => o.to \in Users
  BY DEF Requests

\* Every action keeps the types; op's fields exist by OpShape.
LEMMA StepTypeOK == TypeOK /\ OpShape /\ [Next]_vars => TypeOK'
<1> SUFFICES ASSUME TypeOK, OpShape, [Next]_vars PROVE TypeOK'
  OBVIOUS
<1> USE DEF disk, local, TypeOK
<1>1. ASSUME NEW p \in Procs, NEW o \in Requests, Begin(p, o) PROVE TypeOK'
  BY <1>1 DEF Begin
<1>2. ASSUME NEW p \in Procs, AcquireExclusive(p) PROVE TypeOK'
  BY <1>2 DEF AcquireExclusive, FirstStep
<1>3. ASSUME NEW p \in Procs, AcquireShared(p) PROVE TypeOK'
  BY <1>3 DEF AcquireShared, FirstStep
<1>4. ASSUME NEW p \in Procs, PlanWrite(p) PROVE TypeOK'
  BY <1>4, RequestFields, NoneAssumption DEF PlanWrite, OpShape, Call
<1>5. ASSUME NEW p \in Procs, NEW k \in Names, WriteSecretScan(p, k) PROVE TypeOK'
  BY <1>5, NoneAssumption DEF WriteSecretScan, Call
<1>6. ASSUME NEW p \in Procs, NEW k \in Names, RenameSecret(p, k) PROVE TypeOK'
  BY <1>6 DEF RenameSecret, Call, Envelope
<1>7. ASSUME NEW p \in Procs, NEW k \in Names, WriteSecretFails(p, k) PROVE TypeOK'
  BY <1>7 DEF WriteSecretFails
<1>8. ASSUME NEW p \in Procs, WritesDone(p) PROVE TypeOK'
  BY <1>8, RequestFields DEF WritesDone, OpShape
<1>9. ASSUME NEW p \in Procs, NotFound(p) PROVE TypeOK'
  BY <1>9 DEF NotFound
<1>10. ASSUME NEW p \in Procs, ReadSecret(p) PROVE TypeOK'
  BY <1>10 DEF ReadSecret, FirstOf, Matches, Readable, Envelope
<1>11. ASSUME NEW p \in Procs, FindDoomed(p) PROVE TypeOK'
  BY <1>11 DEF FindDoomed, FirstOf, Matches
<1>12. ASSUME NEW p \in Procs, RemoveSecret(p) PROVE TypeOK'
  BY <1>12 DEF RemoveSecret
<1>13. ASSUME NEW p \in Procs, AppendRecipient(p) PROVE TypeOK'
  BY <1>13, RequestFields DEF AppendRecipient, OpShape
<1>14. ASSUME NEW p \in Procs, Glob(p) PROVE TypeOK'
  BY <1>14 DEF Glob, Present
<1>15. ASSUME NEW p \in Procs, NEW f \in UUIDs, DecryptOne(p, f) PROVE TypeOK'
  BY <1>15 DEF DecryptOne, Readable, Envelope
<1>16. ASSUME NEW p \in Procs, NEW f \in UUIDs, DecryptFails(p, f) PROVE TypeOK'
  BY <1>16 DEF DecryptFails
<1>17. ASSUME NEW p \in Procs, ReadAllDone(p) PROVE TypeOK'
  BY <1>17 DEF ReadAllDone
<1>18. ASSUME NEW p \in Procs, PlanReencrypt(p) PROVE TypeOK'
  BY <1>18 DEF PlanReencrypt, Call
<1>19. ASSUME NEW p \in Procs, Fails(p) PROVE TypeOK'
  BY <1>19 DEF Fails
<1>20. ASSUME NEW p \in Procs, Forget(p) PROVE TypeOK'
  BY <1>20 DEF Forget, Nothing
<1>21. CASE UNCHANGED vars
  BY <1>21 DEF vars
<1> QED
  BY <1>1, <1>2, <1>3, <1>4, <1>5, <1>6, <1>7, <1>8, <1>9, <1>10, <1>11,
     <1>12, <1>13, <1>14, <1>15, <1>16, <1>17, <1>18, <1>19, <1>20, <1>21
     DEF Next, Step, Return, Crash

\* Control reaches each point with the requests meant for it.
LEMMA StepOpShape == TypeOK /\ OpShape /\ [Next]_vars => OpShape'
<1> SUFFICES ASSUME TypeOK, OpShape, [Next]_vars PROVE OpShape'
  OBVIOUS
<1> USE DEF TypeOK, OpShape, disk, local
<1>1. ASSUME NEW p \in Procs, NEW o \in Requests, Begin(p, o) PROVE OpShape'
  BY <1>1 DEF Begin
<1>2. ASSUME NEW p \in Procs, AcquireExclusive(p) PROVE OpShape'
  BY <1>2, NoneAssumption DEF AcquireExclusive, FirstStep
<1>3. ASSUME NEW p \in Procs, AcquireShared(p) PROVE OpShape'
  BY <1>3, NoneAssumption DEF AcquireShared, FirstStep
<1>4. ASSUME NEW p \in Procs, PlanWrite(p) PROVE OpShape'
  BY <1>4 DEF PlanWrite
<1>5. ASSUME NEW p \in Procs, NEW k \in Names, WriteSecretScan(p, k) PROVE OpShape'
  BY <1>5 DEF WriteSecretScan
<1>6. ASSUME NEW p \in Procs, NEW k \in Names, RenameSecret(p, k) PROVE OpShape'
  BY <1>6 DEF RenameSecret
<1>7. ASSUME NEW p \in Procs, NEW k \in Names, WriteSecretFails(p, k) PROVE OpShape'
  BY <1>7 DEF WriteSecretFails
<1>8. ASSUME NEW p \in Procs, WritesDone(p) PROVE OpShape'
  BY <1>8 DEF WritesDone
<1>9. ASSUME NEW p \in Procs, NotFound(p) PROVE OpShape'
  BY <1>9 DEF NotFound
<1>10. ASSUME NEW p \in Procs, ReadSecret(p) PROVE OpShape'
  BY <1>10 DEF ReadSecret
<1>11. ASSUME NEW p \in Procs, FindDoomed(p) PROVE OpShape'
  BY <1>11 DEF FindDoomed
<1>12. ASSUME NEW p \in Procs, RemoveSecret(p) PROVE OpShape'
  BY <1>12 DEF RemoveSecret
<1>13. ASSUME NEW p \in Procs, AppendRecipient(p) PROVE OpShape'
  BY <1>13 DEF AppendRecipient
<1>14. ASSUME NEW p \in Procs, Glob(p) PROVE OpShape'
  BY <1>14 DEF Glob
<1>15. ASSUME NEW p \in Procs, NEW f \in UUIDs, DecryptOne(p, f) PROVE OpShape'
  BY <1>15 DEF DecryptOne
<1>16. ASSUME NEW p \in Procs, NEW f \in UUIDs, DecryptFails(p, f) PROVE OpShape'
  BY <1>16 DEF DecryptFails
<1>17. ASSUME NEW p \in Procs, ReadAllDone(p) PROVE OpShape'
  BY <1>17 DEF ReadAllDone
<1>18. ASSUME NEW p \in Procs, PlanReencrypt(p) PROVE OpShape'
  BY <1>18 DEF PlanReencrypt, Nothing
<1>19. ASSUME NEW p \in Procs, Fails(p) PROVE OpShape'
  BY <1>19 DEF Fails
<1>20. ASSUME NEW p \in Procs, Forget(p) PROVE OpShape'
  BY <1>20 DEF Forget, Nothing
<1>21. CASE UNCHANGED vars
  BY <1>21 DEF vars
<1> QED
  BY <1>1, <1>2, <1>3, <1>4, <1>5, <1>6, <1>7, <1>8, <1>9, <1>10, <1>11,
     <1>12, <1>13, <1>14, <1>15, <1>16, <1>17, <1>18, <1>19, <1>20, <1>21
     DEF Next, Step, Return, Crash

\* flock excludes, and each point of the code is reached with its lock.
LEMMA StepLockDiscipline == TypeOK /\ OpShape /\ LockDiscipline /\ [Next]_vars => LockDiscipline'
<1> SUFFICES ASSUME TypeOK, OpShape, LockDiscipline, [Next]_vars PROVE LockDiscipline'
  OBVIOUS
<1> USE DEF TypeOK, LockDiscipline, disk, local
<1>1. ASSUME NEW p \in Procs, NEW o \in Requests, Begin(p, o) PROVE LockDiscipline'
  BY <1>1 DEF Begin
<1>2. ASSUME NEW p \in Procs, AcquireExclusive(p) PROVE LockDiscipline'
  BY <1>2 DEF AcquireExclusive, OpShape, FirstStep
<1>3. ASSUME NEW p \in Procs, AcquireShared(p) PROVE LockDiscipline'
  BY <1>3 DEF AcquireShared, OpShape, FirstStep
<1>4. ASSUME NEW p \in Procs, PlanWrite(p) PROVE LockDiscipline'
  BY <1>4 DEF PlanWrite, OpShape
<1>5. ASSUME NEW p \in Procs, NEW k \in Names, WriteSecretScan(p, k) PROVE LockDiscipline'
  BY <1>5 DEF WriteSecretScan
<1>6. ASSUME NEW p \in Procs, NEW k \in Names, RenameSecret(p, k) PROVE LockDiscipline'
  BY <1>6 DEF RenameSecret
<1>7. ASSUME NEW p \in Procs, NEW k \in Names, WriteSecretFails(p, k) PROVE LockDiscipline'
  BY <1>7 DEF WriteSecretFails
<1>8. ASSUME NEW p \in Procs, WritesDone(p) PROVE LockDiscipline'
  BY <1>8 DEF WritesDone
<1>9. ASSUME NEW p \in Procs, NotFound(p) PROVE LockDiscipline'
  BY <1>9 DEF NotFound
<1>10. ASSUME NEW p \in Procs, ReadSecret(p) PROVE LockDiscipline'
  BY <1>10 DEF ReadSecret
<1>11. ASSUME NEW p \in Procs, FindDoomed(p) PROVE LockDiscipline'
  BY <1>11 DEF FindDoomed, OpShape
<1>12. ASSUME NEW p \in Procs, RemoveSecret(p) PROVE LockDiscipline'
  BY <1>12 DEF RemoveSecret
<1>13. ASSUME NEW p \in Procs, AppendRecipient(p) PROVE LockDiscipline'
  BY <1>13 DEF AppendRecipient, OpShape
<1>14. ASSUME NEW p \in Procs, Glob(p) PROVE LockDiscipline'
  BY <1>14 DEF Glob
<1>15. ASSUME NEW p \in Procs, NEW f \in UUIDs, DecryptOne(p, f) PROVE LockDiscipline'
  BY <1>15 DEF DecryptOne
<1>16. ASSUME NEW p \in Procs, NEW f \in UUIDs, DecryptFails(p, f) PROVE LockDiscipline'
  BY <1>16 DEF DecryptFails
<1>17. ASSUME NEW p \in Procs, ReadAllDone(p) PROVE LockDiscipline'
  BY <1>17 DEF ReadAllDone
<1>18. ASSUME NEW p \in Procs, PlanReencrypt(p) PROVE LockDiscipline'
  BY <1>18 DEF PlanReencrypt, OpShape
<1>19. ASSUME NEW p \in Procs, Fails(p) PROVE LockDiscipline'
  BY <1>19 DEF Fails
<1>20. ASSUME NEW p \in Procs, Forget(p) PROVE LockDiscipline'
  BY <1>20 DEF Forget
<1>21. CASE UNCHANGED vars
  BY <1>21 DEF vars
<1> QED
  BY <1>1, <1>2, <1>3, <1>4, <1>5, <1>6, <1>7, <1>8, <1>9, <1>10, <1>11,
     <1>12, <1>13, <1>14, <1>15, <1>16, <1>17, <1>18, <1>19, <1>20, <1>21
     DEF Next, Step, Return, Crash

\* The recipients change only under the exclusive lock of a share add.
LEMMA StepRecipientsCurrent == LockInv /\ [Next]_vars => RecipientsCurrent'
<1> SUFFICES ASSUME LockInv, [Next]_vars PROVE RecipientsCurrent'
  OBVIOUS
<1> USE DEF LockInv, TypeOK, RecipientsCurrent, Present, disk, local
<1>1. ASSUME NEW p \in Procs, NEW o \in Requests, Begin(p, o) PROVE RecipientsCurrent'
  BY <1>1 DEF Begin, OpShape
<1>2. ASSUME NEW p \in Procs, AcquireExclusive(p) PROVE RecipientsCurrent'
  BY <1>2 DEF AcquireExclusive, OpShape, FirstStep
<1>3. ASSUME NEW p \in Procs, AcquireShared(p) PROVE RecipientsCurrent'
  BY <1>3 DEF AcquireShared, OpShape, FirstStep
<1>4. ASSUME NEW p \in Procs, PlanWrite(p) PROVE RecipientsCurrent'
  BY <1>4 DEF PlanWrite, OpShape
<1>5. ASSUME NEW p \in Procs, NEW k \in Names, WriteSecretScan(p, k) PROVE RecipientsCurrent'
  BY <1>5 DEF WriteSecretScan
<1>6. ASSUME NEW p \in Procs, NEW k \in Names, RenameSecret(p, k) PROVE RecipientsCurrent'
  BY <1>6, NoneAssumption DEF RenameSecret, Envelope
<1>7. ASSUME NEW p \in Procs, NEW k \in Names, WriteSecretFails(p, k) PROVE RecipientsCurrent'
  BY <1>7 DEF WriteSecretFails
<1>8. ASSUME NEW p \in Procs, WritesDone(p) PROVE RecipientsCurrent'
  BY <1>8 DEF WritesDone
<1>9. ASSUME NEW p \in Procs, NotFound(p) PROVE RecipientsCurrent'
  BY <1>9 DEF NotFound
<1>10. ASSUME NEW p \in Procs, ReadSecret(p) PROVE RecipientsCurrent'
  BY <1>10 DEF ReadSecret
<1>11. ASSUME NEW p \in Procs, FindDoomed(p) PROVE RecipientsCurrent'
  BY <1>11 DEF FindDoomed
<1>12. ASSUME NEW p \in Procs, RemoveSecret(p) PROVE RecipientsCurrent'
  BY <1>12 DEF RemoveSecret
<1>13. ASSUME NEW p \in Procs, AppendRecipient(p) PROVE RecipientsCurrent'
  BY <1>13, RequestFields DEF AppendRecipient, OpShape, LockDiscipline
<1>14. ASSUME NEW p \in Procs, Glob(p) PROVE RecipientsCurrent'
  BY <1>14 DEF Glob
<1>15. ASSUME NEW p \in Procs, NEW f \in UUIDs, DecryptOne(p, f) PROVE RecipientsCurrent'
  BY <1>15 DEF DecryptOne
<1>16. ASSUME NEW p \in Procs, NEW f \in UUIDs, DecryptFails(p, f) PROVE RecipientsCurrent'
  BY <1>16 DEF DecryptFails
<1>17. ASSUME NEW p \in Procs, ReadAllDone(p) PROVE RecipientsCurrent'
  BY <1>17 DEF ReadAllDone
<1>18. ASSUME NEW p \in Procs, PlanReencrypt(p) PROVE RecipientsCurrent'
  BY <1>18 DEF PlanReencrypt
<1>19. ASSUME NEW p \in Procs, Fails(p) PROVE RecipientsCurrent'
  BY <1>19 DEF Fails
<1>20. ASSUME NEW p \in Procs, Forget(p) PROVE RecipientsCurrent'
  BY <1>20 DEF Forget
<1>21. CASE UNCHANGED vars
  BY <1>21 DEF vars
<1> QED
  BY <1>1, <1>2, <1>3, <1>4, <1>5, <1>6, <1>7, <1>8, <1>9, <1>10, <1>11,
     <1>12, <1>13, <1>14, <1>15, <1>16, <1>17, <1>18, <1>19, <1>20, <1>21
     DEF Next, Step, Return, Crash

\* The lock, and what it protects, are in order in every reachable state,
\* whoever uses the vault and whatever fails.
THEOREM LockInvariant == Spec => []LockInv
<1>1. Init => LockInv
  BY InitTypeOK
     DEF Init, LockInv, TypeOK, LockDiscipline, OpShape, RecipientsCurrent, Present
<1>2. LockInv /\ [Next]_vars => LockInv'
  BY StepTypeOK, StepOpShape, StepLockDiscipline, StepRecipientsCurrent DEF LockInv
<1> QED
  BY <1>1, <1>2, PTL DEF Spec

\* The variables keep their types.
THEOREM TypeCorrect == Spec => []TypeOK
  BY LockInvariant, PTL DEF LockInv

\* A writer's copy of the recipients covers everyone the file it replaces was
\* encrypted to, so no step takes a secret from anybody.
LEMMA NextLosesNoAccess ==
  ASSUME LockInv, Next
  PROVE  \A f \in UUIDs : files[f] # None /\ files'[f] # None
                            => files[f].rcpt \subseteq files'[f].rcpt
<1> DEFINE Kept == \A f \in UUIDs : files[f] # None /\ files'[f] # None
                                   => files[f].rcpt \subseteq files'[f].rcpt
<1> USE DEF LockInv, TypeOK, disk, local
<1>1. ASSUME NEW p \in Procs, NEW k \in Names, RenameSecret(p, k) PROVE Kept
  BY <1>1 DEF RenameSecret, RecipientsCurrent, Present
<1>2. ASSUME NEW p \in Procs, RemoveSecret(p) PROVE Kept
  BY <1>2 DEF RemoveSecret
<1>3. files' = files \/ (\E p \in Procs : RemoveSecret(p) \/ \E k \in Names : RenameSecret(p, k))
  BY DEF Next, Step, Return, Crash, Begin, AcquireExclusive, AcquireShared,
         PlanWrite, WriteSecretScan, WriteSecretFails, WritesDone, NotFound,
         ReadSecret, FindDoomed, AppendRecipient, Glob, DecryptOne,
         DecryptFails, ReadAllDone, PlanReencrypt, Fails, Forget
<1> QED
  BY <1>1, <1>2, <1>3

\* Rewriting a secret takes it from nobody.
THEOREM AccessNeverLost == Spec => NoAccessLost
<1> DEFINE Kept == \A f \in UUIDs : files[f] # None /\ files'[f] # None
                                   => files[f].rcpt \subseteq files'[f].rcpt
<1>1. LockInv /\ [Next]_vars => [Kept]_vars
  BY NextLosesNoAccess
<1> QED
  BY LockInvariant, <1>1, PTL DEF Spec, NoAccessLost

-----------------------------------------------------------------------------
(* With users who wait for their share add, and files that can be read *)

Calm == Impatient = {} /\ Flaky = {}

\* Users act once they are admitted, and the admitted are recipients.
LEMMA StepMembers ==
  ASSUME Calm, LockInv, Members, [Next]_vars
  PROVE  Members'
<1> USE DEF Calm, LockInv, TypeOK, Members, disk, local
<1>1. ASSUME NEW p \in Procs, NEW o \in Requests, Begin(p, o) PROVE Members'
  BY <1>1 DEF Begin
<1>2. ASSUME NEW p \in Procs, AcquireExclusive(p) PROVE Members'
  BY <1>2 DEF AcquireExclusive
<1>3. ASSUME NEW p \in Procs, AcquireShared(p) PROVE Members'
  BY <1>3 DEF AcquireShared
<1>4. ASSUME NEW p \in Procs, PlanWrite(p) PROVE Members'
  BY <1>4 DEF PlanWrite
<1>5. ASSUME NEW p \in Procs, NEW k \in Names, WriteSecretScan(p, k) PROVE Members'
  BY <1>5 DEF WriteSecretScan
<1>6. ASSUME NEW p \in Procs, NEW k \in Names, RenameSecret(p, k) PROVE Members'
  BY <1>6 DEF RenameSecret
<1>7. ASSUME NEW p \in Procs, NEW k \in Names, WriteSecretFails(p, k) PROVE Members'
  BY <1>7 DEF WriteSecretFails
<1>8. ASSUME NEW p \in Procs, WritesDone(p) PROVE Members'
  BY <1>8 DEF WritesDone, RecipientsCurrent
<1>9. ASSUME NEW p \in Procs, NotFound(p) PROVE Members'
  BY <1>9 DEF NotFound
<1>10. ASSUME NEW p \in Procs, ReadSecret(p) PROVE Members'
  BY <1>10 DEF ReadSecret
<1>11. ASSUME NEW p \in Procs, FindDoomed(p) PROVE Members'
  BY <1>11 DEF FindDoomed
<1>12. ASSUME NEW p \in Procs, RemoveSecret(p) PROVE Members'
  BY <1>12 DEF RemoveSecret
<1>13. ASSUME NEW p \in Procs, AppendRecipient(p) PROVE Members'
  BY <1>13 DEF AppendRecipient
<1>14. ASSUME NEW p \in Procs, Glob(p) PROVE Members'
  BY <1>14 DEF Glob
<1>15. ASSUME NEW p \in Procs, NEW f \in UUIDs, DecryptOne(p, f) PROVE Members'
  BY <1>15 DEF DecryptOne
<1>16. ASSUME NEW p \in Procs, NEW f \in UUIDs, DecryptFails(p, f) PROVE Members'
  BY <1>16 DEF DecryptFails
<1>17. ASSUME NEW p \in Procs, ReadAllDone(p) PROVE Members'
  BY <1>17 DEF ReadAllDone
<1>18. ASSUME NEW p \in Procs, PlanReencrypt(p) PROVE Members'
  BY <1>18 DEF PlanReencrypt
<1>19. ASSUME NEW p \in Procs, Fails(p) PROVE Members'
  BY <1>19 DEF Fails
<1>20. ASSUME NEW p \in Procs, Forget(p) PROVE Members'
  BY <1>20 DEF Forget
<1>21. CASE UNCHANGED vars
  BY <1>21 DEF vars
<1> QED
  BY <1>1, <1>2, <1>3, <1>4, <1>5, <1>6, <1>7, <1>8, <1>9, <1>10, <1>11,
     <1>12, <1>13, <1>14, <1>15, <1>16, <1>17, <1>18, <1>19, <1>20, <1>21
     DEF Next, Step, Return, Crash

\* Nobody else touches the files while a process is writing.
LEMMA SoleWriter ==
  ASSUME LockInv, NEW p \in Procs, NEW q \in Procs, q # p,
         holds[p] = "exclusive"
  PROVE  holds[q] = "none" /\ pc[q] \notin {"plan", "remove", "append", "writing"}
  BY DEF LockInv, LockDiscipline, TypeOK

\* A WriteSecret call is never mistaken for none.
LEMMA CallRecord ==
  ASSUME NEW d \in Data, NEW e \in UUIDs \cup {None}
  PROVE  [data |-> d, dest |-> e] # None
  BY NoneAssumption DEF Call

\* The destination a call has chosen stays right until its rename.
LEMMA StepDestinations ==
  ASSUME Calm, InductiveInv, [Next]_vars
  PROVE  Destinations'
<1> USE DEF InductiveInv, LockInv, TypeOK, Destinations, Present, disk, local
<1>1. ASSUME NEW p \in Procs, NEW o \in Requests, Begin(p, o) PROVE Destinations'
  BY <1>1 DEF Begin
<1>2. ASSUME NEW p \in Procs, AcquireExclusive(p) PROVE Destinations'
  BY <1>2 DEF AcquireExclusive
<1>3. ASSUME NEW p \in Procs, AcquireShared(p) PROVE Destinations'
  BY <1>3 DEF AcquireShared
<1>4. ASSUME NEW p \in Procs, PlanWrite(p) PROVE Destinations'
  BY <1>4 DEF PlanWrite, Call
<1>5. ASSUME NEW p \in Procs, NEW k \in Names, WriteSecretScan(p, k) PROVE Destinations'
  <2> DEFINE named == {f \in Present : files[f].name = k}
  <2>1. Matches(op[p].by, k, {}) = named
    BY <1>5 DEF WriteSecretScan, Matches, Readable, Members, AdmittedReadsAll
  <2>2. PICK d \in UUIDs :
           /\ IF named = {} THEN Fresh(d) ELSE d \in FirstOf(named)
           /\ calls' = [calls EXCEPT ![p][k] = [data |-> @.data, dest |-> d]]
    <3>1. \A miss \in SUBSET Flaky : miss = {}
      BY DEF Calm
    <3> HIDE DEF named
    <3> QED
      BY <1>5, <2>1, <3>1 DEF WriteSecretScan
  <2>3. UNCHANGED files
    BY <1>5 DEF WriteSecretScan
  <2>4. \A f \in Present : files[f].name = k <=> f = d
    BY <2>2 DEF Fresh, FirstOf, UniqueNames
  <2>5. \A j \in Names \ {k} : calls[p][j] # None => calls[p][j].dest # d
    <3>1. CASE named = {}
      BY <2>2, <3>1 DEF Fresh
    <3>2. CASE named # {}
      <4>1. d \in Present /\ files[d].name = k
        BY <2>2, <3>2 DEF FirstOf
      <4> QED
        BY <4>1, NoneAssumption
    <3> QED
      BY <3>1, <3>2
  <2>6. calls'[p][k].dest = d
    BY <2>2
  <2>7. ASSUME NEW q \in Procs, NEW j \in Names, q # p \/ j # k
        PROVE  calls'[q][j] = calls[q][j]
    BY <2>2, <2>7
  <2> SUFFICES ASSUME NEW q \in Procs, NEW j \in Names,
                      calls'[q][j] # None, calls'[q][j].dest # None
               PROVE  /\ \A f \in Present : files[f].name = j <=> f = calls'[q][j].dest
                      /\ \A i \in Names \ {j} :
                           calls'[q][i] # None => calls'[q][i].dest # calls'[q][j].dest
    BY <2>3
  <2>8. CASE q = p /\ j = k
    BY <2>4, <2>5, <2>6, <2>7, <2>8
  <2>9. CASE q # p \/ j # k
    <3>1. calls'[q][j] = calls[q][j]
      BY <2>7, <2>9
    <3>2. \A i \in Names \ {j} :
             calls'[q][i] # None => calls'[q][i].dest # calls'[q][j].dest
      BY <2>5, <2>6, <2>7, <2>9, <3>1
    <3> QED
      BY <3>1, <3>2
  <2> QED
    BY <2>8, <2>9
<1>6. ASSUME NEW p \in Procs, NEW k \in Names, RenameSecret(p, k) PROVE Destinations'
  <2> SUFFICES ASSUME NEW q \in Procs, NEW j \in Names,
                      calls'[q][j] # None, calls'[q][j].dest # None
               PROVE  /\ \A f \in Present' : files'[f].name = j <=> f = calls'[q][j].dest
                      /\ \A i \in Names \ {j} :
                           calls'[q][i] # None => calls'[q][i].dest # calls'[q][j].dest
    OBVIOUS
  <2> DEFINE d == calls[p][k].dest
  <2>1. pc[p] = "writing" /\ d \in UUIDs
    BY <1>6 DEF RenameSecret, Call
  <2>2. calls' = [calls EXCEPT ![p][k] = None]
    BY <1>6 DEF RenameSecret
  <2>3. files' = [files EXCEPT ![d] = [name |-> k, data |-> calls[p][k].data, rcpt |-> rcpt[p]]]
    BY <1>6 DEF RenameSecret
  <2>4. q = p
    BY <2>1, <2>2, SoleWriter DEF LockDiscipline, OpShape, Nothing
  <2>5. j # k /\ calls'[p][j] = calls[p][j]
    BY <2>2, <2>4
  <2>6. calls[p][j].dest # d
    BY <1>6, <2>4, <2>5 DEF RenameSecret
  <2>7. \A f \in UUIDs \ {d} : files'[f] = files[f]
    BY <2>3
  <2>8. files'[d].name = k
    BY <2>1, <2>3
  <2>9. ASSUME NEW f \in Present' PROVE files'[f].name = j <=> f = calls'[q][j].dest
    <3>1. CASE f = d
      BY <2>4, <2>5, <2>6, <2>8, <3>1
    <3>2. CASE f # d
      BY <2>4, <2>5, <2>7, <3>2
    <3> QED
      BY <3>1, <3>2
  <2>10. ASSUME NEW i \in Names \ {j}, calls'[q][i] # None
         PROVE  calls'[q][i].dest # calls'[q][j].dest
    <3>1. i # k /\ calls'[p][i] = calls[p][i]
      BY <2>2, <2>4, <2>10
    <3> QED
      BY <2>4, <2>5, <2>10, <3>1
  <2> QED
    BY <2>9, <2>10
<1>7. ASSUME NEW p \in Procs, NEW k \in Names, WriteSecretFails(p, k) PROVE Destinations'
  BY <1>7 DEF WriteSecretFails
<1>8. ASSUME NEW p \in Procs, WritesDone(p) PROVE Destinations'
  BY <1>8 DEF WritesDone
<1>9. ASSUME NEW p \in Procs, NotFound(p) PROVE Destinations'
  BY <1>9 DEF NotFound
<1>10. ASSUME NEW p \in Procs, ReadSecret(p) PROVE Destinations'
  BY <1>10 DEF ReadSecret
<1>11. ASSUME NEW p \in Procs, FindDoomed(p) PROVE Destinations'
  BY <1>11 DEF FindDoomed
<1>12. ASSUME NEW p \in Procs, RemoveSecret(p) PROVE Destinations'
  BY <1>12, SoleWriter DEF RemoveSecret, LockDiscipline
<1>13. ASSUME NEW p \in Procs, AppendRecipient(p) PROVE Destinations'
  BY <1>13 DEF AppendRecipient
<1>14. ASSUME NEW p \in Procs, Glob(p) PROVE Destinations'
  BY <1>14 DEF Glob
<1>15. ASSUME NEW p \in Procs, NEW f \in UUIDs, DecryptOne(p, f) PROVE Destinations'
  BY <1>15 DEF DecryptOne
<1>16. ASSUME NEW p \in Procs, NEW f \in UUIDs, DecryptFails(p, f) PROVE Destinations'
  BY <1>16 DEF DecryptFails
<1>17. ASSUME NEW p \in Procs, ReadAllDone(p) PROVE Destinations'
  BY <1>17 DEF ReadAllDone
<1>18. ASSUME NEW p \in Procs, PlanReencrypt(p) PROVE Destinations'
  BY <1>18 DEF PlanReencrypt, Call
<1>19. ASSUME NEW p \in Procs, Fails(p) PROVE Destinations'
  BY <1>19 DEF Fails
<1>20. ASSUME NEW p \in Procs, Forget(p) PROVE Destinations'
  BY <1>20 DEF Forget, Nothing
<1>21. CASE UNCHANGED vars
  BY <1>21 DEF vars
<1> QED
  BY <1>1, <1>2, <1>3, <1>4, <1>5, <1>6, <1>7, <1>8, <1>9, <1>10, <1>11,
     <1>12, <1>13, <1>14, <1>15, <1>16, <1>17, <1>18, <1>19, <1>20, <1>21
     DEF Next, Step, Return, Crash

\* A rename replaces the file of its name or adds the first one.
LEMMA StepUniqueNames ==
  ASSUME Calm, InductiveInv, [Next]_vars
  PROVE  UniqueNames'
<1> USE DEF InductiveInv, LockInv, TypeOK, UniqueNames, Present, disk, local
<1>1. ASSUME NEW p \in Procs, NEW o \in Requests, Begin(p, o) PROVE UniqueNames'
  BY <1>1 DEF Begin
<1>2. ASSUME NEW p \in Procs, AcquireExclusive(p) PROVE UniqueNames'
  BY <1>2 DEF AcquireExclusive
<1>3. ASSUME NEW p \in Procs, AcquireShared(p) PROVE UniqueNames'
  BY <1>3 DEF AcquireShared
<1>4. ASSUME NEW p \in Procs, PlanWrite(p) PROVE UniqueNames'
  BY <1>4 DEF PlanWrite
<1>5. ASSUME NEW p \in Procs, NEW k \in Names, WriteSecretScan(p, k) PROVE UniqueNames'
  BY <1>5 DEF WriteSecretScan
<1>6. ASSUME NEW p \in Procs, NEW k \in Names, RenameSecret(p, k) PROVE UniqueNames'
  BY <1>6 DEF RenameSecret, Destinations, Envelope
<1>7. ASSUME NEW p \in Procs, NEW k \in Names, WriteSecretFails(p, k) PROVE UniqueNames'
  BY <1>7 DEF WriteSecretFails
<1>8. ASSUME NEW p \in Procs, WritesDone(p) PROVE UniqueNames'
  BY <1>8 DEF WritesDone
<1>9. ASSUME NEW p \in Procs, NotFound(p) PROVE UniqueNames'
  BY <1>9 DEF NotFound
<1>10. ASSUME NEW p \in Procs, ReadSecret(p) PROVE UniqueNames'
  BY <1>10 DEF ReadSecret
<1>11. ASSUME NEW p \in Procs, FindDoomed(p) PROVE UniqueNames'
  BY <1>11 DEF FindDoomed
<1>12. ASSUME NEW p \in Procs, RemoveSecret(p) PROVE UniqueNames'
  BY <1>12 DEF RemoveSecret
<1>13. ASSUME NEW p \in Procs, AppendRecipient(p) PROVE UniqueNames'
  BY <1>13 DEF AppendRecipient
<1>14. ASSUME NEW p \in Procs, Glob(p) PROVE UniqueNames'
  BY <1>14 DEF Glob
<1>15. ASSUME NEW p \in Procs, NEW f \in UUIDs, DecryptOne(p, f) PROVE UniqueNames'
  BY <1>15 DEF DecryptOne
<1>16. ASSUME NEW p \in Procs, NEW f \in UUIDs, DecryptFails(p, f) PROVE UniqueNames'
  BY <1>16 DEF DecryptFails
<1>17. ASSUME NEW p \in Procs, ReadAllDone(p) PROVE UniqueNames'
  BY <1>17 DEF ReadAllDone
<1>18. ASSUME NEW p \in Procs, PlanReencrypt(p) PROVE UniqueNames'
  BY <1>18 DEF PlanReencrypt
<1>19. ASSUME NEW p \in Procs, Fails(p) PROVE UniqueNames'
  BY <1>19 DEF Fails
<1>20. ASSUME NEW p \in Procs, Forget(p) PROVE UniqueNames'
  BY <1>20 DEF Forget
<1>21. CASE UNCHANGED vars
  BY <1>21 DEF vars
<1> QED
  BY <1>1, <1>2, <1>3, <1>4, <1>5, <1>6, <1>7, <1>8, <1>9, <1>10, <1>11,
     <1>12, <1>13, <1>14, <1>15, <1>16, <1>17, <1>18, <1>19, <1>20, <1>21
     DEF Next, Step, Return, Crash

\* New files are for all recipients, and a share add admits when all are done.
LEMMA StepAdmittedReadsAll ==
  ASSUME Calm, InductiveInv, [Next]_vars
  PROVE  AdmittedReadsAll'
<1> USE DEF InductiveInv, LockInv, TypeOK, AdmittedReadsAll, Present, disk, local
<1>1. ASSUME NEW p \in Procs, NEW o \in Requests, Begin(p, o) PROVE AdmittedReadsAll'
  BY <1>1 DEF Begin
<1>2. ASSUME NEW p \in Procs, AcquireExclusive(p) PROVE AdmittedReadsAll'
  BY <1>2 DEF AcquireExclusive
<1>3. ASSUME NEW p \in Procs, AcquireShared(p) PROVE AdmittedReadsAll'
  BY <1>3 DEF AcquireShared
<1>4. ASSUME NEW p \in Procs, PlanWrite(p) PROVE AdmittedReadsAll'
  BY <1>4 DEF PlanWrite
<1>5. ASSUME NEW p \in Procs, NEW k \in Names, WriteSecretScan(p, k) PROVE AdmittedReadsAll'
  BY <1>5 DEF WriteSecretScan
<1>6. ASSUME NEW p \in Procs, NEW k \in Names, RenameSecret(p, k) PROVE AdmittedReadsAll'
  BY <1>6 DEF RenameSecret, RecipientsCurrent, Members
<1>7. ASSUME NEW p \in Procs, NEW k \in Names, WriteSecretFails(p, k) PROVE AdmittedReadsAll'
  BY <1>7 DEF WriteSecretFails
<1>8. ASSUME NEW p \in Procs, WritesDone(p) PROVE AdmittedReadsAll'
  <2> USE <1>8 DEF WritesDone
  <2>1. CASE op[p].kind = "share" /\ status[p] = "none"
    <3>1. \A f \in Present : files[f].name \in Names
      BY DEF Envelope
    <3>2. \A f \in Present : op[p].to \in files[f].rcpt
      BY <2>1, <3>1 DEF Coverage, Covered, Nothing
    <3> QED
      BY <2>1, <3>2
  <2>2. CASE ~(op[p].kind = "share" /\ status[p] = "none")
    BY <2>2
  <2> QED
    BY <2>1, <2>2
<1>9. ASSUME NEW p \in Procs, NotFound(p) PROVE AdmittedReadsAll'
  BY <1>9 DEF NotFound
<1>10. ASSUME NEW p \in Procs, ReadSecret(p) PROVE AdmittedReadsAll'
  BY <1>10 DEF ReadSecret
<1>11. ASSUME NEW p \in Procs, FindDoomed(p) PROVE AdmittedReadsAll'
  BY <1>11 DEF FindDoomed
<1>12. ASSUME NEW p \in Procs, RemoveSecret(p) PROVE AdmittedReadsAll'
  BY <1>12 DEF RemoveSecret
<1>13. ASSUME NEW p \in Procs, AppendRecipient(p) PROVE AdmittedReadsAll'
  BY <1>13 DEF AppendRecipient
<1>14. ASSUME NEW p \in Procs, Glob(p) PROVE AdmittedReadsAll'
  BY <1>14 DEF Glob
<1>15. ASSUME NEW p \in Procs, NEW f \in UUIDs, DecryptOne(p, f) PROVE AdmittedReadsAll'
  BY <1>15 DEF DecryptOne
<1>16. ASSUME NEW p \in Procs, NEW f \in UUIDs, DecryptFails(p, f) PROVE AdmittedReadsAll'
  BY <1>16 DEF DecryptFails
<1>17. ASSUME NEW p \in Procs, ReadAllDone(p) PROVE AdmittedReadsAll'
  BY <1>17 DEF ReadAllDone
<1>18. ASSUME NEW p \in Procs, PlanReencrypt(p) PROVE AdmittedReadsAll'
  BY <1>18 DEF PlanReencrypt
<1>19. ASSUME NEW p \in Procs, Fails(p) PROVE AdmittedReadsAll'
  BY <1>19 DEF Fails
<1>20. ASSUME NEW p \in Procs, Forget(p) PROVE AdmittedReadsAll'
  BY <1>20 DEF Forget
<1>21. CASE UNCHANGED vars
  BY <1>21 DEF vars
<1> QED
  BY <1>1, <1>2, <1>3, <1>4, <1>5, <1>6, <1>7, <1>8, <1>9, <1>10, <1>11,
     <1>12, <1>13, <1>14, <1>15, <1>16, <1>17, <1>18, <1>19, <1>20, <1>21
     DEF Next, Step, Return, Crash

\* A share add loses sight of no secret, whatever its goroutines' order.
LEMMA StepCoverage ==
  ASSUME Calm, InductiveInv, [Next]_vars
  PROVE  Coverage'
<1> SUFFICES ASSUME NEW q \in Procs PROVE Covered(q)'
  BY DEF Coverage
<1> Covered(q)
  BY DEF InductiveInv, Coverage
<1> USE DEF InductiveInv, LockInv, TypeOK, Covered, Present, disk, local
<1>1. ASSUME NEW p \in Procs, NEW o \in Requests, Begin(p, o) PROVE Covered(q)'
  BY <1>1 DEF Begin
<1>2. ASSUME NEW p \in Procs, AcquireExclusive(p) PROVE Covered(q)'
  <2>1. pc'[p] \in {"plan", "lookup", "append"} /\ (q # p => pc'[q] = pc[q])
    BY <1>2 DEF AcquireExclusive, FirstStep
  <2> QED
    BY <1>2, <2>1 DEF AcquireExclusive
<1>3. ASSUME NEW p \in Procs, AcquireShared(p) PROVE Covered(q)'
  BY <1>3 DEF AcquireShared, FirstStep
<1>4. ASSUME NEW p \in Procs, PlanWrite(p) PROVE Covered(q)'
  BY <1>4 DEF PlanWrite, OpShape
<1>5. ASSUME NEW p \in Procs, NEW k \in Names, WriteSecretScan(p, k) PROVE Covered(q)'
  <2>1. PICK d \in UUIDs :
           calls' = [calls EXCEPT ![p][k] = [data |-> @.data, dest |-> d]]
    BY <1>5 DEF WriteSecretScan
  <2>2. calls[p][k] \in Call
    BY <1>5 DEF WriteSecretScan
  <2>3. [data |-> calls[p][k].data, dest |-> d] # None
    BY <2>2, CallRecord DEF Call
  <2>4. \A j \in Names : calls[q][j] # None => calls'[q][j] # None
    BY <2>1, <2>3
  <2> QED
    BY <1>5, <2>4 DEF WriteSecretScan, Envelope
<1>6. ASSUME NEW p \in Procs, NEW k \in Names, RenameSecret(p, k) PROVE Covered(q)'
  BY <1>6, SoleWriter, RequestFields
     DEF RenameSecret, LockDiscipline, UniqueNames, Destinations, RecipientsCurrent, OpShape
<1>7. ASSUME NEW p \in Procs, NEW k \in Names, WriteSecretFails(p, k) PROVE Covered(q)'
  BY <1>7 DEF WriteSecretFails
<1>8. ASSUME NEW p \in Procs, WritesDone(p) PROVE Covered(q)'
  BY <1>8 DEF WritesDone
<1>9. ASSUME NEW p \in Procs, NotFound(p) PROVE Covered(q)'
  BY <1>9 DEF NotFound
<1>10. ASSUME NEW p \in Procs, ReadSecret(p) PROVE Covered(q)'
  <2>1. pc'[p] = "unlock" /\ (q # p => got'[q] = got[q])
    BY <1>10 DEF ReadSecret
  <2>2. UNCHANGED <<files, op, list, calls>> /\ (q # p => pc'[q] = pc[q] /\ status'[q] = status[q])
    BY <1>10 DEF ReadSecret
  <2> QED
    BY <2>1, <2>2
<1>11. ASSUME NEW p \in Procs, FindDoomed(p) PROVE Covered(q)'
  BY <1>11 DEF FindDoomed
<1>12. ASSUME NEW p \in Procs, RemoveSecret(p) PROVE Covered(q)'
  BY <1>12, SoleWriter DEF RemoveSecret, LockDiscipline
<1>13. ASSUME NEW p \in Procs, AppendRecipient(p) PROVE Covered(q)'
  BY <1>13 DEF AppendRecipient
<1>14. ASSUME NEW p \in Procs, Glob(p) PROVE Covered(q)'
  BY <1>14 DEF Glob
<1>15. ASSUME NEW p \in Procs, NEW f \in UUIDs, DecryptOne(p, f) PROVE Covered(q)'
  <2> USE <1>15 DEF DecryptOne
  <2>1. CASE q # p
    BY <2>1
  <2>2. CASE q = p
    <3> SUFFICES ASSUME op[p].kind = "share", status[p] = "none", NEW g \in Present
                 PROVE  g \in list'[p] \/ got'[p][files[g].name] # None
      BY <2>2
    <3>1. files[f] \in Envelope /\ files[g] \in Envelope
      BY DEF Readable
    <3>2. files[f].name \in Names /\ files[g].name \in Names /\ files[f].data # None
      BY <3>1, NoneAssumption DEF Envelope
    <3>3. got'[p] = [got[p] EXCEPT ![files[f].name] = files[f].data]
      OBVIOUS
    <3> QED
      BY <2>2, <3>2, <3>3
  <2> QED
    BY <2>1, <2>2
<1>16. ASSUME NEW p \in Procs, NEW f \in UUIDs, DecryptFails(p, f) PROVE Covered(q)'
  BY <1>16 DEF DecryptFails
<1>17. ASSUME NEW p \in Procs, ReadAllDone(p) PROVE Covered(q)'
  BY <1>17 DEF ReadAllDone
<1>18. ASSUME NEW p \in Procs, PlanReencrypt(p) PROVE Covered(q)'
  <2> USE <1>18 DEF PlanReencrypt
  <2>1. CASE q # p
    BY <2>1
  <2>2. CASE q = p
    <3> SUFFICES ASSUME op[p].kind = "share", status[p] = "none", NEW g \in Present
                 PROVE  calls'[p][files[g].name] # None
      BY <2>2
    <3>1. files[g].name \in Names
      BY DEF Envelope
    <3>2. got[p][files[g].name] \in Data
      <4>1. pc[p] = "decrypt" /\ g \notin list[p]
        OBVIOUS
      <4>2. got[p][files[g].name] # None
        BY <2>2, <4>1
      <4>3. got[p] \in [Names -> Data \cup {None}]
        OBVIOUS
      <4> QED
        BY <3>1, <4>2, <4>3
    <3>3. calls'[p] = [k \in Names |-> IF got[p][k] = None THEN None
                                      ELSE [data |-> got[p][k], dest |-> None]]
      OBVIOUS
    <3>4. calls'[p][files[g].name] = [data |-> got[p][files[g].name], dest |-> None]
      BY <3>1, <3>2, <3>3, NoneAssumption
    <3> QED
      BY <3>2, <3>4, CallRecord
  <2> QED
    BY <2>1, <2>2
<1>19. ASSUME NEW p \in Procs, Fails(p) PROVE Covered(q)'
  BY <1>19 DEF Fails
<1>20. ASSUME NEW p \in Procs, Forget(p) PROVE Covered(q)'
  BY <1>20 DEF Forget
<1>21. CASE UNCHANGED vars
  BY <1>21 DEF vars
<1> QED
  BY <1>1, <1>2, <1>3, <1>4, <1>5, <1>6, <1>7, <1>8, <1>9, <1>10, <1>11,
     <1>12, <1>13, <1>14, <1>15, <1>16, <1>17, <1>18, <1>19, <1>20, <1>21
     DEF Next, Step, Return, Crash

\* An empty vault is in order.
LEMMA InitInductiveInv == Init => InductiveInv
<1> SUFFICES ASSUME Init PROVE InductiveInv
  OBVIOUS
<1>1. LockInv
  BY InitTypeOK
     DEF Init, LockInv, TypeOK, LockDiscipline, OpShape, RecipientsCurrent, Present
<1> QED
  BY <1>1 DEF Init, InductiveInv, UniqueNames, AdmittedReadsAll, Destinations,
              Members, Coverage, Covered, Present, Nothing

\* Every step leaves it in order.
LEMMA StepInductiveInv ==
  ASSUME Calm, InductiveInv, [Next]_vars
  PROVE  InductiveInv'
  BY StepTypeOK, StepOpShape, StepLockDiscipline, StepRecipientsCurrent,
     StepMembers, StepDestinations, StepUniqueNames, StepAdmittedReadsAll,
     StepCoverage DEF InductiveInv, LockInv

\* The vault's promise to everyone who has access: one file per name, and each
\* readable by every admitted user, across crashes and half-done share adds.
THEOREM VaultInvariant ==
  ASSUME Calm
  PROVE  Spec => []InductiveInv
<1>1. InductiveInv /\ [Next]_vars => InductiveInv'
  BY StepInductiveInv
<1> QED
  BY InitInductiveInv, <1>1, PTL DEF Spec

\* A write finds the file its name has.
THEOREM NamesUnique ==
  ASSUME Calm
  PROVE  Spec => []UniqueNames
  BY VaultInvariant, PTL DEF InductiveInv

\* A share add that reports success has reached every secret, and so has every
\* write since.
THEOREM AdmittedCanRead ==
  ASSUME Calm
  PROVE  Spec => []AdmittedReadsAll
  BY VaultInvariant, PTL DEF InductiveInv
=============================================================================
