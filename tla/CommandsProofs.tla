--------------------------- MODULE CommandsProofs ---------------------------
(***************************************************************************)
(* What holds of every command, whatever the secrets, the manifests, the   *)
(* exports, the limits and the number of processors are: its types, what   *)
(* set and edit write, what the child of run finds, and what import counts *)
(* and keeps.                                                              *)
(***************************************************************************)
EXTENDS Commands, FieldsProofs, FiniteSetTheorems

\* What a secret has been since the command started.
Was(n) == OthersWrote(n) \cup {before[n]}

Texts == UNION {Range(data) : data \in Contents}

\* The part every command has.
History ==
    /\ before \in [Names -> Contents \cup {None}] /\ DOMAIN secrets = Names
    /\ others \subseteq Shared \X (Contents \cup {None})
    /\ via \in {"local", "daemon"}
    /\ pc \in Ended \cup {"set", "edit", "editor", "save", "fetch", "files",
                          "probe", "writes"}

-----------------------------------------------------------------------------
(* edit: what it has read is data, and what it has shown is the text of it. *)

EditInv ==
    /\ pc \in {"set", "edit", "editor", "save"} => request \in Requests
    /\ pc = "edit" => base = None /\ \A n \in Names : secrets[n] \in Contents \cup {None}
    /\ pc \in {"editor", "save"} /\ base # None => base \in Contents /\ shown = Shown(base)

-----------------------------------------------------------------------------
(* run: what it has fetched are values the secrets had, what it has put    *)
(* into variables and files comes from there, and a descriptor finds the   *)
(* file that was made for its variable.                                    *)

Running == pc \in {"fetch", "files"} \/ fetched # <<>>

\* One file for each variable so far.
FilesInOrder ==
    /\ files \in Seq(Texts)
    /\ IsFiniteSet(DOMAIN fds) /\ Cardinality(DOMAIN fds) = Len(files)

FetchedRight == Running =>
    /\ pc \in Ended \cup {"fetch", "files"}
    /\ request \in Manifests
    /\ DOMAIN fetched \subseteq NameSet
    /\ \A n \in DOMAIN fetched : fetched[n] \in Was(n) \ {None}
    /\ pc \in {"fetch", "files"} => \A n \in Names : secrets[n] \in Was(n)

EnvRight == Running /\ pc \in {"files", "done"} =>
    /\ DOMAIN fetched = NameSet
    /\ HasFields(request.env)
    /\ env = [v \in DOMAIN request.env |-> Value(request.env[v])]

\* What a variable that has a descriptor finds behind it.
FileRight(v) ==
    /\ v \in DOMAIN request.file
    /\ RefField(request.file[v]) \in DOMAIN fetched[RefName(request.file[v])]
    /\ fds[v] \in 3..(2 + Len(files))
    /\ Inherited(fds[v]) = Value(request.file[v])

FilesRight == Running =>
    /\ pc = "fetch" => DOMAIN fds = {}
    /\ pc = "done" => DOMAIN fds = DOMAIN request.file
    /\ \A v \in DOMAIN fds : FileRight(v)

RunInv == FilesInOrder /\ FetchedRight /\ EnvRight /\ FilesRight

-----------------------------------------------------------------------------
(* import: each place of the list is not begun, under way or counted, and  *)
(* as long as no write has failed the names of the counted ones hold what  *)
(* the list says.                                                          *)

Importing == pc \in {"probe", "writes"} \/ conc # 0

Unusable == Len(Export) - Cardinality(Places)
Undone == todo \cup writing

PlacesRight == Importing =>
    /\ pc \in {"probe", "writes", "done", "incomplete"}
    /\ Export \in Exports /\ tasks = Tasks(Export)
    /\ conc \in Nat \ {0} /\ Cardinality(writing) <= conc
    /\ todo \subseteq Places /\ writing \subseteq Places /\ todo \cap writing = {}
    /\ pc = "probe" => writing = {}
    /\ pc \in Ended => Undone = {} /\ (pc = "done" <=> skipped = 0)

CountsRight == Importing =>
    /\ imported \in Nat /\ skipped \in Nat /\ Unusable <= skipped
    /\ imported + skipped + Cardinality(Undone) = Len(Export)

\* What a name may hold after a write of the list to it.
Says(key) == {AsTexts(t.data) : t \in TasksOf(key)} \cup OthersWrote(key)

WritesKept == Importing /\ skipped = Unusable =>
    \A i \in Places \ Undone : secrets[tasks[i].key] \in Says(tasks[i].key)

ImportInv ==
    /\ Importing \/ ImportOff
    /\ PlacesRight /\ CountsRight /\ WritesKept

CommandsInv == History /\ EditInv /\ RunInv /\ ImportInv

-----------------------------------------------------------------------------
\* What others write is data, or nothing.
LEMMA WasTypes ==
    ASSUME History, NEW n \in Names
    PROVE  Was(n) \subseteq Contents \cup {None}
  BY SharedAssumption DEF History, Was, OthersWrote

\* The history only grows.
LEMMA WasGrows ==
    ASSUME History, Next, NEW n
    PROVE  Was(n) \subseteq Was(n)' /\ OthersWrote(n) \subseteq OthersWrote(n)'
<1>1. before' = before /\ others \subseteq others'
  <2>1. CASE EditNext
    BY <2>1 DEF EditNext, Set, SetFails, ReadForEdit, StartEmpty, EditFails, EditorSaves,
        SaveEdit, SaveFails, Goes
  <2>2. CASE RunNext
    BY <2>2 DEF RunNext, Fetch, FetchFails, InjectEnv, InjectFile, InjectFails, Spawn, Goes
  <2>3. CASE ImportNext
    BY <2>3 DEF ImportNext, Probe, NothingToProbe, StartWrite, FinishWrite, ImportEnds, Goes
  <2>4. CASE \E m \in Shared, data \in Contents \cup {None} : OtherWrites(m, data)
    BY <2>4 DEF OtherWrites
  <2> QED BY <2>1, <2>2, <2>3, <2>4 DEF Next
<1> QED BY <1>1 DEF Was, OthersWrote

\* The part every command has, step by step.
LEMMA HistoryStep ==
    ASSUME History, [Next]_vars
    PROVE  History'
<1> USE DEF History, Ended
<1>1. CASE EditNext
  BY <1>1 DEF EditNext, Set, SetFails, ReadForEdit, StartEmpty, EditFails, EditorSaves,
      SaveEdit, SaveFails, Goes, Writes, WriteFails
<1>2. CASE RunNext
  BY <1>2 DEF RunNext, Fetch, FetchFails, InjectEnv, InjectFile, InjectFails, Spawn, Goes,
      run
<1>3. CASE ImportNext
  BY <1>3 DEF ImportNext, Probe, NothingToProbe, StartWrite, FinishWrite, ImportEnds, Goes,
      WriteTaskEnds, Writes, WriteFails, import
<1>4. CASE \E n \in Shared, data \in Contents \cup {None} : OtherWrites(n, data)
  BY <1>4 DEF OtherWrites
<1>5. CASE UNCHANGED vars
  BY <1>5 DEF vars, commandVault
<1> QED BY <1>1, <1>2, <1>3, <1>4, <1>5 DEF Next

-----------------------------------------------------------------------------
(* edit *)

\* What edit has, step by step.
LEMMA EditStep ==
    ASSUME History, EditInv, [Next]_vars
    PROVE  EditInv'
<1>1. CASE EditNext
  <2>1. CASE ReadForEdit
    <3>1. request \in Requests /\ request' = request /\ base' = secrets[request.name]
      BY <2>1 DEF EditInv, ReadForEdit, Goes
    <3>2. base' \in Contents
      BY <2>1, <3>1, RequestsAssumption DEF EditInv, ReadForEdit, Goes
    <3>3. shown' = Shown(base)'
      BY <2>1, <3>1 DEF ReadForEdit, Shown
    <3> QED BY <2>1, <3>1, <3>2, <3>3 DEF EditInv, ReadForEdit, Goes
  <2>2. CASE StartEmpty
    BY <2>2 DEF EditInv, StartEmpty, Goes
  <2>3. CASE \E text \in {shown} \cup Typed : EditorSaves(text)
    BY <2>3 DEF EditInv, EditorSaves, Goes, Shown
  <2>4. CASE Set \/ SetFails \/ EditFails \/ SaveEdit \/ SaveFails
    BY <2>4 DEF EditInv, Set, SetFails, EditFails, SaveEdit, SaveFails, Goes
  <2> QED BY <1>1, <2>1, <2>2, <2>3, <2>4 DEF EditNext
<1>2. CASE RunNext
  BY <1>2 DEF EditInv, RunNext, Fetch, FetchFails, InjectEnv, InjectFile, InjectFails,
      Spawn, Goes
<1>3. CASE ImportNext
  BY <1>3 DEF EditInv, ImportNext, Probe, NothingToProbe, StartWrite, FinishWrite,
      ImportEnds, Goes
<1>4. CASE \E n \in Shared, data \in Contents \cup {None} :
              OtherWrites(n, data) /\ UNCHANGED <<edit, run, import>>
  BY <1>4 DEF EditInv, OtherWrites, edit, Shown, History
<1>5. CASE UNCHANGED vars
  BY <1>5 DEF EditInv, vars, commandVault, edit, Shown
<1> QED BY <1>1, <1>2, <1>3, <1>4, <1>5 DEF Next

-----------------------------------------------------------------------------
(* run *)

\* The secrets a manifest names are names.
LEMMA ManifestNames ==
    ASSUME request \in Manifests
    PROVE  /\ NameSet \subseteq Names
           /\ \A v \in DOMAIN request.env : RefName(request.env[v]) \in NameSet
           /\ \A v \in DOMAIN request.file : RefName(request.file[v]) \in NameSet
  BY ManifestsAssumption DEF NameSet, Refs

\* What is fetched is data, and each value in it a text.
LEMMA ValueTypes ==
    ASSUME History, FetchedRight, Running,
           NEW n \in DOMAIN fetched, NEW field \in DOMAIN fetched[n]
    PROVE  fetched[n][field] \in Texts
<1>1. n \in Names
  BY ManifestNames DEF FetchedRight
<1>2. fetched[n] \in Contents
  BY <1>1, WasTypes DEF FetchedRight
<1> QED BY <1>2 DEF Texts, Range

\* A call to fetch gives what the secret is at that moment.
LEMMA FetchStep ==
    ASSUME History, RunInv, NEW n \in NameSet, Fetch(n), Next
    PROVE  RunInv'
<1> USE DEF Fetch, Goes
<1>0. Running /\ Running' /\ request' = request /\ pc' = "fetch" /\ pc = "fetch"
  BY DEF Running
<1>1. request \in Manifests /\ n \in Names
  BY <1>0, ManifestNames DEF RunInv, FetchedRight
<1>2. /\ DOMAIN fetched' = DOMAIN fetched \cup {n}
      /\ fetched'[n] = secrets[n]
      /\ \A m \in DOMAIN fetched : fetched'[m] = fetched[m]
  BY DEF Extended
<1>3. FilesInOrder'
  BY DEF RunInv, FilesInOrder
<1>4. FetchedRight'
  <2>1. \A m : Was(m)' = Was(m)
    BY DEF Was, OthersWrote
  <2>2. \A m \in DOMAIN fetched' : fetched'[m] \in Was(m) \ {None}
    BY <1>0, <1>1, <1>2 DEF RunInv, FetchedRight
  <2>3. \A m \in Names : secrets'[m] \in Was(m)
    BY <1>0 DEF RunInv, FetchedRight
  <2>4. NameSet' = NameSet /\ DOMAIN fetched' \subseteq NameSet
    BY <1>0, <1>2 DEF RunInv, FetchedRight, NameSet
  <2> QED BY <1>0, <1>1, <2>1, <2>2, <2>3, <2>4 DEF FetchedRight
<1>5. EnvRight' /\ FilesRight'
  BY <1>0 DEF RunInv, EnvRight, FilesRight
<1> QED BY <1>3, <1>4, <1>5 DEF RunInv

\* The variables of the environment come from what was fetched.
LEMMA InjectEnvStep ==
    ASSUME History, RunInv, InjectEnv
    PROVE  RunInv'
<1> USE DEF InjectEnv, Goes
<1>0. Running /\ request' = request /\ fetched' = fetched /\ pc = "fetch"
  BY DEF Running
<1>1. FilesInOrder' /\ FilesRight'
  BY <1>0 DEF RunInv, FilesInOrder, FilesRight
<1>2. FetchedRight'
  BY <1>0 DEF RunInv, FetchedRight, Was, OthersWrote, NameSet, Ended
<1>3. EnvRight'
  <2>1. CASE HasFields(request.env)
    BY <1>0, <2>1 DEF EnvRight, HasFields, Value, NameSet, Running
  <2>2. CASE ~HasFields(request.env)
    BY <1>0, <2>2 DEF EnvRight
  <2> QED BY <2>1, <2>2
<1> QED BY <1>1, <1>2, <1>3 DEF RunInv

\* A file of its own for each variable: the descriptor finds that file.
LEMMA InjectFileStep ==
    ASSUME History, RunInv, NEW v \in DOMAIN request.file, InjectFile(v)
    PROVE  RunInv'
<1> DEFINE ref == request.file[v]
<1> USE DEF InjectFile, Goes
<1>0. /\ Running /\ Running' /\ request' = request /\ fetched' = fetched
      /\ pc = "files" /\ pc' = "files"
  BY DEF Running
<1>1. RefName(ref) \in DOMAIN fetched /\ RefField(ref) \in DOMAIN fetched[RefName(ref)]
  BY <1>0, ManifestNames DEF RunInv, FetchedRight, EnvRight
<1>2. Value(ref) \in Texts
  BY <1>0, <1>1, ValueTypes DEF RunInv, Value
<1>3. files \in Seq(Texts) /\ files' = Append(files, Value(ref))
  BY DEF RunInv, FilesInOrder
<1>4. /\ files' \in Seq(Texts) /\ Len(files') = Len(files) + 1
      /\ files'[Len(files) + 1] = Value(ref)
      /\ \A i \in 1..Len(files) : files'[i] = files[i]
      /\ Len(files) \in Nat
  BY <1>2, <1>3
<1>5. /\ DOMAIN fds' = DOMAIN fds \cup {v} /\ v \notin DOMAIN fds
      /\ fds'[v] = 3 + Len(files)
      /\ \A w \in DOMAIN fds : fds'[w] = fds[w]
  BY <1>4 DEF Extended
<1>6. FilesInOrder'
  <2>1. IsFiniteSet(DOMAIN fds) /\ Cardinality(DOMAIN fds) = Len(files)
    BY DEF RunInv, FilesInOrder
  <2>2. /\ IsFiniteSet(DOMAIN fds \cup {v})
        /\ Cardinality(DOMAIN fds \cup {v}) = Len(files) + 1
    <3> HIDE DEF InjectFile, Goes
    <3> QED BY <1>5, <2>1, FS_AddElement
  <2> QED BY <1>4, <1>5, <2>2 DEF FilesInOrder
<1>7. FetchedRight' /\ EnvRight'
  BY <1>0 DEF RunInv, FetchedRight, EnvRight, Was, OthersWrote, NameSet, HasFields, Value
<1>8. ASSUME NEW w \in DOMAIN fds'
      PROVE  FileRight(w)'
  <2>1. CASE w = v
    BY <1>0, <1>1, <1>4, <1>5, <2>1 DEF FileRight, Inherited, Value
  <2>2. CASE w \in DOMAIN fds
    <3>1. FileRight(w)
      BY <1>0, <2>2 DEF RunInv, FilesRight
    <3>2. fds'[w] = fds[w] /\ fds[w] \in 3..(2 + Len(files))
      BY <1>5, <2>2, <3>1 DEF FileRight
    <3>3. files'[fds[w] - 2] = files[fds[w] - 2]
      BY <1>4, <3>2
    <3> QED BY <1>0, <1>4, <3>1, <3>2, <3>3 DEF FileRight, Inherited, Value
  <2> QED BY <1>5, <2>1, <2>2
<1>9. FilesRight'
  BY <1>0, <1>8 DEF FilesRight
<1> QED BY <1>6, <1>7, <1>9 DEF RunInv

\* What run has keeps as long as it is left alone, and others write what
\* counts as what the secret was.
LEMMA RunStays ==
    ASSUME History, RunInv, UNCHANGED run, UNCHANGED request,
           \A n : Was(n) \subseteq Was(n)',
           Running' => \/ pc' \in {"failed", "incomplete"}
                       \/ UNCHANGED <<pc, secrets>>
                       \/ /\ pc' = pc
                          /\ \A n \in Names : secrets'[n] \in {secrets[n]} \cup Was(n)'
                       \/ pc = "files" /\ pc' = "done" /\ DOMAIN fds = DOMAIN request.file,
           Running' => Running
    PROVE  RunInv'
<1> USE DEF run
<1>1. FilesInOrder'
  BY DEF RunInv, FilesInOrder
<1>2. FetchedRight'
  BY DEF RunInv, FetchedRight, NameSet, Ended
<1>3. EnvRight'
  BY DEF RunInv, EnvRight, NameSet, HasFields, Value
<1>4. FilesRight'
  BY DEF RunInv, FilesRight, FileRight, Inherited, Value
<1> QED BY <1>1, <1>2, <1>3, <1>4 DEF RunInv

\* What run has, step by step.
LEMMA RunStep ==
    ASSUME History, RunInv, [Next]_vars
    PROVE  RunInv'
<1> USE DEF Running
<1>1. CASE EditNext /\ UNCHANGED <<run, import>>
  <2>1. ~Running /\ pc' \in {"done", "failed", "editor", "save"}
    BY <1>1 DEF EditNext, Set, SetFails, ReadForEdit, StartEmpty, EditFails, EditorSaves,
        SaveEdit, SaveFails, Goes, RunInv, FetchedRight, Ended
  <2>2. fetched = <<>> /\ fetched' = <<>> /\ ~Running'
    BY <1>1, <2>1 DEF run
  <2>3. FilesInOrder'
    BY <1>1 DEF run, RunInv, FilesInOrder
  <2> QED BY <2>2, <2>3 DEF RunInv, FetchedRight, EnvRight, FilesRight
<1>2. CASE ImportNext /\ UNCHANGED <<edit, run>>
  <2>1. ~Running /\ pc' \in {"writes", "done", "incomplete"}
    BY <1>2 DEF ImportNext, Probe, NothingToProbe, StartWrite, FinishWrite, ImportEnds,
        Goes, RunInv, FetchedRight, Ended
  <2>2. fetched = <<>> /\ fetched' = <<>> /\ ~Running'
    BY <1>2, <2>1 DEF run
  <2>3. FilesInOrder'
    BY <1>2 DEF run, RunInv, FilesInOrder
  <2> QED BY <2>2, <2>3 DEF RunInv, FetchedRight, EnvRight, FilesRight
<1>3. CASE RunNext /\ UNCHANGED <<edit, import>>
  <2>1. CASE \E n \in NameSet : Fetch(n)
    <3>1. Next
      BY <1>3 DEF Next
    <3> QED BY <2>1, <3>1, FetchStep
  <2>2. CASE InjectEnv
    BY <2>2, InjectEnvStep
  <2>3. CASE \E v \in DOMAIN request.file : InjectFile(v)
    BY <2>3, InjectFileStep
  <2>4. CASE FetchFails \/ InjectFails \/ Spawn
    <3>1. \A n : Was(n) = Was(n)'
      BY <2>4 DEF FetchFails, InjectFails, Spawn, Goes, Was, OthersWrote
    <3>2. UNCHANGED run /\ UNCHANGED request
      BY <2>4 DEF FetchFails, InjectFails, Spawn, Goes
    <3>3. \/ pc' = "failed"
          \/ pc = "files" /\ pc' = "done" /\ DOMAIN fds = DOMAIN request.file
      BY <2>4 DEF FetchFails, InjectFails, Spawn, Goes
    <3>4. Running
      BY <2>4 DEF FetchFails, InjectFails, Spawn, Goes
    <3> QED BY <3>1, <3>2, <3>3, <3>4, RunStays
  <2> QED BY <1>3, <2>1, <2>2, <2>3, <2>4 DEF RunNext
<1>4. ASSUME NEW m \in Shared, NEW data \in Contents \cup {None},
             OtherWrites(m, data) /\ UNCHANGED <<edit, run, import>>
      PROVE  RunInv'
  <2>1. UNCHANGED run /\ UNCHANGED <<request, pc, before>>
    BY <1>4 DEF OtherWrites
  <2>2. \A n : Was(n) \subseteq Was(n)'
    BY <1>4, <2>1 DEF OtherWrites, Was, OthersWrote
  <2>3. data \in Was(m)'
    <3>1. <<m, data>> \in {x \in others' : x[1] = m} /\ data = <<m, data>>[2]
      BY <1>4 DEF OtherWrites
    <3> QED BY <3>1 DEF Was, OthersWrote
  <2>4. \A n \in Names : secrets'[n] \in {secrets[n]} \cup Was(n)'
    BY <1>4, <2>3 DEF OtherWrites, History
  <2> QED BY <2>1, <2>2, <2>4, RunStays DEF run
<1>5. CASE UNCHANGED vars
  BY <1>5, RunStays DEF vars, commandVault, Was, OthersWrote, run
<1> QED BY <1>1, <1>2, <1>3, <1>4, <1>5 DEF Next

-----------------------------------------------------------------------------
(* import *)

\* The places of an export's list are places of its items.
LEMMA PlacesTypes ==
    ASSUME Export \in Exports, tasks = Tasks(Export)
    PROVE  /\ Len(Export) \in Nat /\ Places \subseteq 1..Len(Export)
           /\ IsFiniteSet(Places) /\ Cardinality(Places) \in 0..Len(Export)
           /\ \A i \in Places : tasks[i].key \in Names
<1>1. Len(Export) \in Nat /\ DOMAIN Export = 1..Len(Export)
  BY ExportsAssumption, LenProperties
<1>2. Places \subseteq 1..Len(Export)
  BY <1>1 DEF Places, Tasks
<1>3. ASSUME NEW n \in Nat
      PROVE  IsFiniteSet(1..n) /\ Cardinality(1..n) = n
  <2>1. IsFiniteSet(1..n) /\ Cardinality(1..n) = IF 1 > n THEN 0 ELSE n - 1 + 1
    BY FS_Interval
  <2> QED BY <2>1
<1>4. IsFiniteSet(Places) /\ Cardinality(Places) \in 0..Len(Export)
  <2>1. IsFiniteSet(1..Len(Export)) /\ Cardinality(1..Len(Export)) = Len(Export)
    BY <1>1, <1>3
  <2>2. IsFiniteSet(Places) /\ Cardinality(Places) <= Cardinality(1..Len(Export))
    BY <1>2, <2>1, FS_Subset
  <2>3. Cardinality(Places) \in Nat
    BY <2>2, FS_CardinalityType
  <2> QED BY <1>1, <2>1, <2>2, <2>3
<1>5. ASSUME NEW i \in Places
      PROVE  tasks[i].key \in Names
  <2>1. tasks[i] \in Range(Tasks(Export))
    BY <1>5 DEF Range, Places
  <2> QED BY <2>1, ExportsAssumption
<1> QED BY <1>1, <1>2, <1>4, <1>5

\* Taking a place out of those not done.
LEMMA UndoneTypes ==
    ASSUME Export \in Exports, tasks = Tasks(Export), todo \subseteq Places,
           writing \subseteq Places
    PROVE  /\ IsFiniteSet(todo) /\ IsFiniteSet(writing) /\ IsFiniteSet(Undone)
           /\ Cardinality(writing) \in Nat
           /\ \A i \in Undone : IsFiniteSet(Undone \ {i})
                    /\ Cardinality(Undone) = Cardinality(Undone \ {i}) + 1
                    /\ Cardinality(Undone \ {i}) \in Nat
<1>1. IsFiniteSet(todo) /\ IsFiniteSet(writing) /\ IsFiniteSet(Undone)
  BY PlacesTypes, FS_Subset DEF Undone
<1>2. ASSUME NEW i \in Undone
      PROVE  /\ IsFiniteSet(Undone \ {i}) /\ Cardinality(Undone \ {i}) \in Nat
             /\ Cardinality(Undone) = Cardinality(Undone \ {i}) + 1
  <2>1. IsFiniteSet(Undone \ {i}) /\ Cardinality(Undone \ {i}) = Cardinality(Undone) - 1
    BY <1>1, <1>2, FS_RemoveElement
  <2>2. Cardinality(Undone) \in Nat /\ Cardinality(Undone \ {i}) \in Nat
    BY <1>1, <2>1, FS_CardinalityType
  <2> QED BY <2>1, <2>2
<1> QED BY <1>1, <1>2, FS_CardinalityType

\* A name holds what the list says of it after a write of the list to it.
LEMMA SaysTask ==
    ASSUME NEW i \in Places
    PROVE  AsTexts(tasks[i].data) \in Says(tasks[i].key)
<1>1. tasks[i] \in TasksOf(tasks[i].key)
  BY DEF Places, TasksOf, Range
<1> QED BY <1>1 DEF Says

\* The end of a write, the first one or another, counts its place once; a
\* failed one is seen in skipped for ever.
LEMMA WriteEndsStep ==
    ASSUME History, ImportInv, Importing, NEW i \in Undone,
           WriteTaskEnds(tasks[i]),
           UNCHANGED <<request, others, tasks, conc>>, pc' = "writes",
           todo' \subseteq todo, writing' \subseteq writing, Undone' = Undone \ {i}
    PROVE  ImportInv'
<1>0. /\ Export' = Export /\ Places' = Places /\ Unusable' = Unusable /\ Importing'
      /\ \A key : Says(key)' = Says(key)
  BY DEF Export, Places, Unusable, Importing, Says, TasksOf, OthersWrote
<1>1. /\ Export \in Exports /\ tasks = Tasks(Export) /\ conc \in Nat \ {0}
      /\ todo \subseteq Places /\ writing \subseteq Places /\ todo \cap writing = {}
      /\ Cardinality(writing) <= conc
  BY DEF ImportInv, PlacesRight
<1>2. i \in Places /\ tasks[i].key \in Names
  BY <1>1, PlacesTypes DEF Undone
<1>3. PlacesRight'
  <2>1. Cardinality(writing') <= conc
    <3>1. IsFiniteSet(writing) /\ Cardinality(writing) \in Nat
      BY <1>1, UndoneTypes
    <3>2. IsFiniteSet(writing') /\ Cardinality(writing') <= Cardinality(writing)
      BY <3>1, FS_Subset
    <3>3. Cardinality(writing') \in Nat
      BY <3>2, FS_CardinalityType
    <3> QED BY <1>1, <3>1, <3>2, <3>3
  <2> QED BY <1>0, <1>1, <2>1 DEF PlacesRight, Ended
<1>4. CountsRight'
  <2>1. /\ imported \in Nat /\ skipped \in Nat /\ Unusable <= skipped
        /\ imported + skipped + Cardinality(Undone) = Len(Export)
    BY DEF ImportInv, CountsRight
  <2>2. /\ Cardinality(Undone) = Cardinality(Undone') + 1 /\ Cardinality(Undone') \in Nat
    BY <1>1, UndoneTypes
  <2>3. Len(Export) \in Nat /\ Unusable \in Int
    BY <1>1, PlacesTypes DEF Unusable
  <2>4. \/ imported' = imported + 1 /\ skipped' = skipped
        \/ imported' = imported /\ skipped' = skipped + 1
    BY DEF WriteTaskEnds
  <2>5. imported' \in Nat /\ skipped' \in Nat /\ Unusable <= skipped'
    BY <2>1, <2>3, <2>4
  <2>6. imported' + skipped' + Cardinality(Undone') = Len(Export)
    BY <2>1, <2>2, <2>3, <2>4
  <2> QED BY <1>0, <2>5, <2>6 DEF CountsRight
<1>5. WritesKept'
  <2>1. CASE imported' = imported + 1 /\ skipped' = skipped
                /\ Writes(tasks[i].key, AsTexts(tasks[i].data))
    <3>1. ASSUME skipped' = Unusable, NEW j \in Places \ Undone'
          PROVE  secrets'[tasks[j].key] \in Says(tasks[j].key)
      <4>1. CASE tasks[j].key = tasks[i].key
        <5>1. secrets'[tasks[j].key] = AsTexts(tasks[i].data)
          BY <1>2, <2>1, <4>1 DEF Writes, History
        <5> QED BY <1>2, <4>1, <5>1, SaysTask
      <4>2. CASE tasks[j].key # tasks[i].key
        <5>1. j \in Places \ Undone
          BY <3>1, <4>2
        <5>2. secrets[tasks[j].key] \in Says(tasks[j].key)
          BY <2>1, <3>1, <5>1 DEF ImportInv, WritesKept
        <5>3. secrets'[tasks[j].key] = secrets[tasks[j].key]
          <6>1. tasks[j].key \in Names
            BY <1>1, <5>1, PlacesTypes
          <6> QED BY <2>1, <4>2, <6>1 DEF Writes, History
        <5> QED BY <5>2, <5>3
      <4> QED BY <4>1, <4>2
    <3> QED BY <1>0, <3>1 DEF WritesKept
  <2>2. CASE skipped' = skipped + 1
    <3>1. skipped' # Unusable
      <4>1. skipped \in Nat /\ Unusable <= skipped /\ Unusable \in Int
        BY <1>1, PlacesTypes DEF ImportInv, CountsRight, Unusable
      <4> QED BY <2>2, <4>1
    <3> QED BY <1>0, <3>1 DEF WritesKept
  <2> QED BY <2>1, <2>2 DEF WriteTaskEnds
<1> QED BY <1>0, <1>3, <1>4, <1>5 DEF ImportInv

\* What import has keeps as long as it is left alone.
LEMMA ImportStays ==
    ASSUME History, ImportInv, UNCHANGED import,
           Importing /\ Importing' => UNCHANGED request,
           Importing' => Importing, Importing /\ conc # 0 => Importing',
           \A n : OthersWrote(n) \subseteq OthersWrote(n)',
           Importing => \A n \in Names : secrets'[n] \in {secrets[n]} \cup OthersWrote(n)',
           Importing => \/ pc' = pc
                        \/ pc = "probe" /\ pc' = "writes"
                        \/ /\ pc = "writes" /\ Undone = {}
                           /\ pc' = IF skipped > 0 THEN "incomplete" ELSE "done"
    PROVE  ImportInv'
<1>0. CASE ~Importing
  BY <1>0 DEF ImportInv, ImportOff, PlacesRight, CountsRight, WritesKept, import
<1>1. CASE Importing
  <2>0. /\ conc # 0 /\ Importing' /\ UNCHANGED request
        /\ Export' = Export /\ Places' = Places /\ Undone' = Undone /\ Unusable' = Unusable
    BY <1>1 DEF ImportInv, PlacesRight, Export, Places, Undone, Unusable, import
  <2>1. CountsRight'
    BY <1>1, <2>0 DEF ImportInv, CountsRight, import
  <2>2. PlacesRight'
    <3>1. skipped \in Nat
      BY <1>1 DEF ImportInv, CountsRight
    <3> QED BY <1>1, <2>0, <3>1 DEF ImportInv, PlacesRight, Ended, import
  <2>3. WritesKept'
    <3>1. \A key : Says(key) \subseteq Says(key)' /\ OthersWrote(key)' \subseteq Says(key)'
      BY DEF Says, TasksOf, import
    <3>2. ASSUME skipped = Unusable, NEW j \in Places \ Undone
          PROVE  secrets'[tasks[j].key] \in Says(tasks[j].key)'
      <4>1. PICK key \in Names : tasks[j].key = key
        BY <1>1, <3>2, PlacesTypes DEF ImportInv, PlacesRight
      <4>2. secrets[key] \in Says(key)
        BY <1>1, <3>2, <4>1 DEF ImportInv, WritesKept
      <4>3. secrets'[key] \in Says(key)'
        BY <1>1, <3>1, <4>2
      <4> QED BY <4>1, <4>3 DEF import
    <3> QED BY <2>0, <3>2 DEF WritesKept, import
  <2> QED BY <2>0, <2>1, <2>2, <2>3 DEF ImportInv
<1> QED BY <1>0, <1>1

\* What import has, step by step.
LEMMA ImportStep ==
    ASSUME History, ImportInv, [Next]_vars
    PROVE  ImportInv'
<1>1. CASE EditNext /\ UNCHANGED <<run, import>>
  <2>1. ~Importing /\ ~Importing'
    BY <1>1 DEF EditNext, Set, SetFails, ReadForEdit, StartEmpty, EditFails, EditorSaves,
        SaveEdit, SaveFails, Goes, ImportInv, Importing, PlacesRight, import
  <2> QED BY <1>1, <2>1 DEF ImportInv, PlacesRight, CountsRight, WritesKept, ImportOff,
                            import
<1>2. CASE RunNext /\ UNCHANGED <<edit, import>>
  <2>1. ~Importing /\ ~Importing'
    BY <1>2 DEF RunNext, Fetch, FetchFails, InjectEnv, InjectFile, InjectFails, Spawn, Goes,
        ImportInv, Importing, PlacesRight, import
  <2> QED BY <1>2, <2>1 DEF ImportInv, PlacesRight, CountsRight, WritesKept, ImportOff,
                            import
<1>3. CASE ImportNext /\ UNCHANGED <<edit, run>>
  <2>0. Importing
    BY <1>3 DEF ImportNext, Probe, NothingToProbe, StartWrite, FinishWrite, ImportEnds,
        Goes, Importing
  <2>1. /\ Export \in Exports /\ tasks = Tasks(Export) /\ conc \in Nat \ {0}
        /\ todo \subseteq Places /\ writing \subseteq Places /\ todo \cap writing = {}
        /\ pc = "probe" => writing = {}
    BY <2>0 DEF ImportInv, PlacesRight
  <2>2. ASSUME NEW i \in todo, Probe(i)
        PROVE  ImportInv'
    <3>1. /\ i \in Undone /\ WriteTaskEnds(tasks[i]) /\ pc' = "writes"
          /\ UNCHANGED <<request, others, tasks, conc>>
          /\ todo' \subseteq todo /\ writing' \subseteq writing /\ Undone' = Undone \ {i}
      BY <2>1, <2>2 DEF Probe, Goes, Undone
    <3> QED BY <2>0, <3>1, WriteEndsStep
  <2>3. ASSUME NEW i \in writing, FinishWrite(i)
        PROVE  ImportInv'
    <3>1. /\ i \in Undone /\ WriteTaskEnds(tasks[i]) /\ pc' = "writes"
          /\ UNCHANGED <<request, others, tasks, conc>>
          /\ todo' \subseteq todo /\ writing' \subseteq writing /\ Undone' = Undone \ {i}
      BY <2>1, <2>3 DEF FinishWrite, Goes, Undone
    <3> QED BY <2>0, <3>1, WriteEndsStep
  <2>4. ASSUME NEW i \in todo, StartWrite(i)
        PROVE  ImportInv'
    <3>1. /\ Undone' = Undone /\ pc = "writes" /\ pc' = "writes"
          /\ UNCHANGED <<request, others, secrets, tasks, conc, imported, skipped>>
      BY <2>4 DEF StartWrite, Goes, Undone
    <3>2. /\ Export' = Export /\ Places' = Places /\ Unusable' = Unusable
          /\ \A key : Says(key)' = Says(key)
      BY <3>1 DEF Export, Places, Unusable, Says, TasksOf, OthersWrote
    <3>3. Cardinality(writing') <= conc
      <4>1. IsFiniteSet(writing) /\ Cardinality(writing) \in Nat
        BY <2>1, UndoneTypes
      <4>2. Cardinality(writing \cup {i}) <= Cardinality(writing) + 1
        BY <4>1, FS_AddElement
      <4>3. Cardinality(writing) < conc /\ writing' = writing \cup {i}
        BY <2>4 DEF StartWrite
      <4>4. Cardinality(writing \cup {i}) \in Nat
        BY <4>1, FS_AddElement, FS_CardinalityType
      <4> QED BY <2>1, <4>1, <4>2, <4>3, <4>4
    <3>4. PlacesRight'
      <4>1. todo' \subseteq Places /\ writing' \subseteq Places /\ todo' \cap writing' = {}
        BY <2>1, <2>4 DEF StartWrite
      <4> QED BY <2>1, <3>1, <3>2, <3>3, <4>1 DEF PlacesRight, Ended
    <3>5. CountsRight' /\ WritesKept'
      BY <2>0, <3>1, <3>2 DEF ImportInv, CountsRight, WritesKept
    <3> QED BY <3>1, <3>4, <3>5 DEF ImportInv, Importing
  <2>5. CASE NothingToProbe \/ ImportEnds
    <3>1. /\ UNCHANGED import /\ UNCHANGED <<request, secrets, others>>
          /\ \/ pc = "probe" /\ pc' = "writes"
             \/ /\ pc = "writes" /\ Undone = {}
                /\ pc' = IF skipped > 0 THEN "incomplete" ELSE "done"
      BY <2>5 DEF NothingToProbe, ImportEnds, Goes, Undone
    <3>2. Importing'
      BY <2>1, <3>1 DEF Importing, import
    <3> QED BY <2>0, <3>1, <3>2, ImportStays DEF OthersWrote
  <2> QED BY <1>3, <2>2, <2>3, <2>4, <2>5 DEF ImportNext
<1>4. ASSUME NEW m \in Shared, NEW data \in Contents \cup {None},
             OtherWrites(m, data) /\ UNCHANGED <<edit, run, import>>
      PROVE  ImportInv'
  <2>1. UNCHANGED import /\ UNCHANGED <<request, pc>> /\ (Importing' <=> Importing)
    BY <1>4 DEF OtherWrites, Importing, import
  <2>2. \A n : OthersWrote(n) \subseteq OthersWrote(n)'
    BY <1>4 DEF OtherWrites, OthersWrote
  <2>3. data \in OthersWrote(m)'
    <3>1. <<m, data>> \in {x \in others' : x[1] = m} /\ data = <<m, data>>[2]
      BY <1>4 DEF OtherWrites
    <3> QED BY <3>1 DEF OthersWrote
  <2>4. \A n \in Names : secrets'[n] \in {secrets[n]} \cup OthersWrote(n)'
    BY <1>4, <2>3 DEF OtherWrites, History
  <2> QED BY <2>1, <2>2, <2>4, ImportStays
<1>5. CASE UNCHANGED vars
  <2>1. /\ UNCHANGED import /\ UNCHANGED <<request, secrets, pc, others>>
        /\ (Importing' <=> Importing)
    BY <1>5 DEF vars, commandVault, Importing, import
  <2> QED BY <2>1, ImportStays DEF OthersWrote
<1> QED BY <1>1, <1>2, <1>3, <1>4, <1>5 DEF Next

\* The capacity of the semaphore is positive, whatever was configured.
LEMMA SomeConcurrency ==
    ASSUME NEW flag \in Int, NEW cfg \in Int
    PROVE  ResolveConcurrency(flag, cfg) \in Nat \ {0}
  BY NumCPUAssumption DEF ResolveConcurrency

\* The invariant holds when a command starts.
LEMMA CommandsStart ==
    ASSUME Init
    PROVE  CommandsInv
<1>0. IsFiniteSet({}) /\ Cardinality({}) = 0
  BY FS_EmptySet
<1>1. \A n \in Names : secrets[n] \in Was(n)
  BY DEF Init, EditInit, RunInit, ImportInit, Start, Was
<1>2. History
  BY DEF Init, EditInit, RunInit, ImportInit, Start, History, Ended
<1>5. EditInv
  BY DEF EditInv, Init, EditInit, EditOff, RunInit, ImportInit, Start
<1>3. RunInv
  <2>1. RunOff
    BY DEF Init, RunInit
  <2>2. FilesInOrder
    BY <1>0, <2>1 DEF RunOff, FilesInOrder
  <2>3. FetchedRight /\ EnvRight /\ FilesRight
    BY <1>1, <2>1 DEF RunOff, Init, EditInit, RunInit, ImportInit, Start, Running,
        FetchedRight, EnvRight, FilesRight
  <2> QED BY <2>2, <2>3 DEF RunInv
<1>4. ImportInv
  <2>1. CASE ~ImportInit
    BY <2>1 DEF Init, EditInit, RunInit, Start, ImportOff, ImportInv,
        Importing, PlacesRight, CountsRight, WritesKept
  <2>2. CASE ImportInit
    <3>1. /\ pc = "probe" /\ tasks = Tasks(Export) /\ todo = Places /\ writing = {}
          /\ imported = 0 /\ skipped = Len(Export) - Cardinality(Places)
          /\ conc = ResolveConcurrency(request[2][1], request[2][2])
          /\ Export \in Exports /\ request[2] \in Int \X Int
      BY <2>2, LimitsAssumption DEF ImportInit, Start, Export
    <3>2. conc \in Nat \ {0}
      BY <3>1, SomeConcurrency
    <3>3. PlacesRight
      BY <1>0, <3>1, <3>2 DEF PlacesRight, Ended
    <3>4. Undone = Places
      BY <3>1 DEF Undone
    <3>5. /\ Len(Export) \in Nat /\ Cardinality(Places) \in 0..Len(Export)
      BY <3>1, PlacesTypes
    <3>6. CountsRight
      BY <3>1, <3>4, <3>5 DEF CountsRight, Unusable
    <3>7. WritesKept
      BY <3>4 DEF WritesKept
    <3> QED BY <3>1, <3>3, <3>6, <3>7 DEF ImportInv, Importing
  <2> QED BY <2>1, <2>2 DEF Init
<1> QED BY <1>2, <1>3, <1>4, <1>5 DEF CommandsInv

\* Every reachable state of every command has the invariant.
THEOREM CommandsInvariant == Spec => []CommandsInv
<1>1. CommandsInv /\ [Next]_vars => CommandsInv'
  BY HistoryStep, EditStep, RunStep, ImportStep DEF CommandsInv
<1> QED BY CommandsStart, <1>1, PTL DEF Spec

\* The types: a run has one file per descriptor, and an import never has more
\* writes under way than its semaphore lets through.
THEOREM CommandsTypeCorrect == Spec => []TypeOK
<1>1. CommandsInv => TypeOK
  <2> SUFFICES ASSUME CommandsInv PROVE TypeOK
    OBVIOUS
  <2>1. DOMAIN fetched \subseteq Names /\ None \notin {fetched[n] : n \in DOMAIN fetched}
    <3>1. CASE Running
      BY <3>1, ManifestNames DEF CommandsInv, RunInv, FetchedRight
    <3>2. CASE ~Running
      BY <3>2 DEF Running
    <3> QED BY <3>1, <3>2
  <2>2. Cardinality(writing) <= conc /\ imported \in Nat /\ skipped \in Nat
    <3>1. CASE Importing
      BY <3>1 DEF CommandsInv, ImportInv, PlacesRight, CountsRight
    <3>2. CASE ImportOff
      BY <3>2, FS_EmptySet DEF ImportOff
    <3> QED BY <3>1, <3>2 DEF CommandsInv, ImportInv
  <2> QED BY <2>1, <2>2 DEF CommandsInv, History, RunInv, FilesInOrder, TypeOK
<1> QED BY CommandsInvariant, <1>1, PTL

\* What the child of run finds of a secret, in variables and in files, is one
\* moment of that secret, whatever others write while it is fetched and used.
THEOREM ChildIsConsistent == Spec => []ChildSeesOneMoment
<1>1. CommandsInv => ChildSeesOneMoment
  <2> SUFFICES ASSUME CommandsInv, pc = "done", fetched # <<>>, NEW n \in NameSet
               PROVE  \E data \in (OthersWrote(n) \cup {before[n]}) \ {None} :
                        /\ Agrees(request.env, n, data, LAMBDA v : env[v])
                        /\ Agrees(request.file, n, data, LAMBDA v : Inherited(fds[v]))
    BY DEF ChildSeesOneMoment
  <2>1. /\ DOMAIN fetched = NameSet /\ fetched[n] \in Was(n) \ {None}
        /\ HasFields(request.env)
        /\ env = [v \in DOMAIN request.env |-> Value(request.env[v])]
        /\ \A v \in DOMAIN request.file : FileRight(v)
    BY DEF CommandsInv, RunInv, FetchedRight, EnvRight, FilesRight, Running
  <2>2. Agrees(request.env, n, fetched[n], LAMBDA v : env[v])
    BY <2>1 DEF Agrees, HasFields, Refs, Value
  <2>3. Agrees(request.file, n, fetched[n], LAMBDA v : Inherited(fds[v]))
    BY <2>1 DEF Agrees, FileRight, Value
  <2> QED BY <2>1, <2>2, <2>3 DEF Was
<1> QED BY CommandsInvariant, <1>1, PTL

\* The write of an item stored as a map holds every value the item has under a
\* key, whatever the export is, unless one of the item's own keys looks like a
\* renamed one.
THEOREM ImportKeepsValues == Spec => []NoValueLost
<1>1. CommandsInv => NoValueLost
  <2> SUFFICES ASSUME CommandsInv, pc \in {"probe", "writes"}, NEW i \in Places,
                      Export[i].category = "map", Export[i] \notin Lookalikes
               PROVE  Wanted(Export[i]) \ {NoText} \subseteq Range(tasks[i].data)
    BY DEF NoValueLost
  <2>1. Export \in Exports /\ tasks = Tasks(Export)
    BY DEF CommandsInv, ImportInv, Importing, PlacesRight
  <2>2. PICK item : item = Export[i]
    OBVIOUS
  <2>3. i \in DOMAIN Export /\ tasks[i] = WriteTask(item)
    BY <2>1, <2>2 DEF Places, Tasks
  <2>4. item \in Range(Export)
    BY <2>2, <2>3 DEF Range
  <2>5. WellFormed(item)
    BY <2>1, <2>4, ExportsAssumption
  <2>6. ~Lookalike(item)
    BY <2>1, <2>2, <2>4 DEF Lookalikes
  <2>7. tasks[i].data = MapFields(item)
    BY <2>2, <2>3 DEF WriteTask
  <2> QED BY <2>2, <2>5, <2>6, <2>7, FieldsKeepValues
<1> QED BY CommandsInvariant, <1>1, PTL

\* import counts every item once, and succeeds exactly when none was skipped.
THEOREM ImportIsCounted == Spec => []ImportCounts
<1>1. CommandsInv => ImportCounts
  <2> SUFFICES ASSUME CommandsInv, pc \in {"done", "incomplete"}, conc # 0
               PROVE  imported + skipped = Len(Export) /\ (pc = "done" <=> skipped = 0)
    BY DEF ImportCounts
  <2>1. Importing /\ Undone = {} /\ (pc = "done" <=> skipped = 0)
    BY DEF CommandsInv, ImportInv, Importing, PlacesRight, Ended
  <2>2. /\ imported \in Nat /\ skipped \in Nat
        /\ imported + skipped + Cardinality(Undone) = Len(Export)
    BY <2>1 DEF CommandsInv, ImportInv, CountsRight
  <2>3. Cardinality(Undone) = 0
    BY <2>1, FS_EmptySet
  <2> QED BY <2>1, <2>2, <2>3
<1> QED BY CommandsInvariant, <1>1, PTL

\* When no write of an import failed, every name in its list holds what the
\* list says of it or what another process wrote: no write is lost, in
\* whatever order the goroutines end.
THEOREM ImportLosesNothing == Spec => []ImportKeeps
<1>1. CommandsInv => ImportKeeps
  <2> SUFFICES ASSUME CommandsInv, pc \in {"done", "incomplete"}, conc # 0,
                      skipped = Len(Export) - Cardinality(Places), NEW t \in Range(tasks)
               PROVE  secrets[t.key] \in Says(t.key)
    BY DEF ImportKeeps, Says
  <2>1. PICK i \in Places : t = tasks[i]
    BY DEF Range, Places
  <2>2. Importing /\ Undone = {} /\ skipped = Unusable
    BY DEF CommandsInv, ImportInv, Importing, PlacesRight, Ended, Unusable
  <2> QED BY <2>1, <2>2 DEF CommandsInv, ImportInv, WritesKept
<1> QED BY CommandsInvariant, <1>1, PTL

-----------------------------------------------------------------------------
(* set and edit *)

\* A command that was set, or was saving an edit, and is done has written.
LEMMA WhoIsDone ==
    ASSUME Next, pc' = "done"
    PROVE  (pc = "set" => Set) /\ (pc = "save" => SaveEdit)
<1>1. CASE EditNext
  BY <1>1 DEF EditNext, Set, SetFails, ReadForEdit, StartEmpty, EditFails, EditorSaves,
      SaveEdit, SaveFails, Goes
<1>2. CASE RunNext
  BY <1>2 DEF RunNext, Fetch, FetchFails, InjectEnv, InjectFile, InjectFails, Spawn, Goes
<1>3. CASE ImportNext
  BY <1>3 DEF ImportNext, Probe, NothingToProbe, StartWrite, FinishWrite, ImportEnds, Goes
<1>4. CASE \E n \in Shared, data \in Contents \cup {None} : OtherWrites(n, data)
  BY <1>4 DEF OtherWrites
<1> QED BY <1>1, <1>2, <1>3, <1>4 DEF Next

\* A map that is set is stored as the data its k=v arguments are the pairs of,
\* and nothing else, whatever "=" signs and lines are in the values, in whatever
\* order and however often the pairs are given.
THEOREM SetIsExact == Spec => SetStoresWhatIsMeant
<1> DEFINE Stored == \A data \in Contents :
        /\ pc = "set" /\ pc' = "done" /\ request.kind = "map"
        /\ PlainKeys(data)
        /\ Range(request.args) = {Pair(f, data[f]) : f \in DOMAIN data}
        => secrets' = [secrets EXCEPT ![request.name] = data]
<1>1. CommandsInv /\ [Next]_vars => [Stored]_<<commandVault, edit>>
  <2> SUFFICES ASSUME CommandsInv, Next, NEW data \in Contents,
                      pc = "set", pc' = "done", request.kind = "map", PlainKeys(data),
                      Range(request.args) = {Pair(f, data[f]) : f \in DOMAIN data}
               PROVE  secrets' = [secrets EXCEPT ![request.name] = data]
    BY DEF vars
  <2>1. Set
    BY WhoIsDone
  <2>2. Len(request.args) \in Nat /\ DOMAIN request.args = 1..Len(request.args)
    BY RequestsAssumption DEF CommandsInv, EditInv
  <2>3. FromPairs(request.args) = data
    BY <2>2, PairsAreData
  <2> QED BY <2>1, <2>3 DEF Set, SetData, Writes
<1> QED BY CommandsInvariant, <1>1, PTL DEF Spec, SetStoresWhatIsMeant

\* A text of which every line has a "=" sign, left as it was: no line is dropped,
\* and only the last one may change.
LEMMA UntouchedLines ==
    ASSUME typed \in Seq(Seq(STRING)), typed # <<>>,
           \A line \in Range(typed) : Len(line) > 1,
           TrimFront(Head(typed)) = Head(typed)
    PROVE  EditedLines = [i \in 1..Len(typed) |->
                IF i = Len(typed) THEN <<TrimBack(typed[i])>> ELSE <<typed[i]>>]
<1>1. PICK N \in Nat \ {0} : N = Len(typed) /\ DOMAIN typed = 1..N
  BY EmptySeq, LenProperties
<1>2. Len(EmptyLine) = 1 /\ \A n \in Nat : n > 1 => n # 1
  BY DEF EmptyLine
<1>3. ASSUME NEW i \in 1..N
      PROVE  /\ TrimFront(typed[i]) # EmptyLine
             /\ typed[i] # EmptyLine /\ TrimBack(typed[i]) # EmptyLine
  <2>1. PICK line \in Seq(STRING) : line = typed[i] /\ Len(line) > 1
    <3>1. PICK Lines : Lines = Seq(STRING)
      OBVIOUS
    <3>2. typed \in Seq(Lines) /\ i \in DOMAIN typed
      BY <1>1, <3>1
    <3>3. typed[i] \in Lines
      BY ONLY <3>2
    <3>4. typed[i] \in Range(typed)
      BY <3>2 DEF Range
    <3> QED BY <3>1, <3>3, <3>4
  <2>2. Len(line) \in Nat /\ line # <<>>
    BY <2>1, EmptySeq, LenProperties
  <2>3. PICK All : All = STRING \cup {TrimLeft[s] : s \in STRING}
                                \cup {TrimRight[s] : s \in STRING}
    OBVIOUS
  <2>4. Head(line) \in STRING /\ Tail(line) \in Seq(STRING) /\ Len(Tail(line)) = Len(line) - 1
    BY ONLY <2>1, <2>2, HeadTailProperties
  <2>5. STRING \subseteq All /\ TrimLeft[Head(line)] \in All
    BY <2>3, <2>4
  <2>6. Tail(line) \in Seq(All) /\ line \in Seq(All)
    BY ONLY <2>1, <2>4, <2>5, WiderSeq
  <2>7. Len(TrimFront(line)) = Len(line)
    <3>1. PICK x \in All, rest \in Seq(All) : x = TrimLeft[Head(line)] /\ rest = Tail(line)
      BY <2>5, <2>6
    <3>2. Len(<<x>> \o rest) = Len(rest) + 1
      BY ONLY <3>1, PutBefore
    <3>3. TrimFront(line) = <<x>> \o rest
      BY ONLY <3>1 DEF TrimFront
    <3> QED BY ONLY <2>2, <2>4, <3>1, <3>2, <3>3
  <2>8. Len(TrimBack(line)) = Len(line)
    <3>1. line[Len(line)] \in STRING
      BY <2>1, <2>2, LenProperties
    <3>2. TrimRight[line[Len(line)]] \in All
      BY <2>3, <3>1
    <3> QED BY ONLY <2>2, <2>6, <3>2, TrimBackOf
  <2> QED BY ONLY <1>2, <2>1, <2>2, <2>7, <2>8
<1>4. Ink(typed) = 1..N
  BY <1>1, <1>3 DEF Ink
<1>5. typed[1] = Head(typed) /\ 1 \in 1..N /\ N \in 1..N
  BY <1>1
<1>6. ASSUME NEW i \in 1..N
      PROVE  /\ (\A j \in 1..N : i <= j) <=> i = 1
             /\ (\A j \in 1..N : j <= i) <=> i = N
             /\ \E k, l \in 1..N : k <= i /\ i <= l
  <2>1. i \in Nat /\ 1 <= i /\ i <= N /\ 1 \in 1..N /\ N \in 1..N
    OBVIOUS
  <2>2. (\A j \in 1..N : i <= j) <=> i = 1
    BY ONLY <2>1
  <2>3. (\A j \in 1..N : j <= i) <=> i = N
    BY ONLY <2>1
  <2>4. \E k, l \in 1..N : k <= i /\ i <= l
    BY ONLY <2>1
  <2> QED BY <2>2, <2>3, <2>4
<1> DEFINE cut == [i \in 1..N |-> IF i = N THEN TrimBack(typed[i]) ELSE typed[i]]
<1>7. TrimSpace(typed) = cut
  <2>1. {j \in DOMAIN typed : \E k, l \in Ink(typed) : k <= j /\ j <= l} = 1..N
    BY <1>1, <1>4, <1>6
  <2>2. \A i \in 1..N : (IF \A j \in 1..N : i <= j THEN TrimFront(typed[i]) ELSE typed[i])
                            = typed[i]
    BY <1>5, <1>6
  <2>3. \A i \in 1..N : (\A j \in 1..N : j <= i) <=> i = N
    BY <1>6
  <2>4. PICK ink : ink = Ink(typed) /\ ink = 1..N
    BY <1>4
  <2>5. TrimSpace(typed) = [i \in 1..N |->
            IF \A j \in ink : j <= i
            THEN TrimBack(IF \A j \in ink : i <= j THEN TrimFront(typed[i]) ELSE typed[i])
            ELSE IF \A j \in ink : i <= j THEN TrimFront(typed[i]) ELSE typed[i]]
    BY ONLY <2>1, <2>4 DEF TrimSpace
  <2>6. ASSUME NEW i \in 1..N
        PROVE  (IF \A j \in ink : j <= i
                THEN TrimBack(IF \A j \in ink : i <= j THEN TrimFront(typed[i]) ELSE typed[i])
                ELSE IF \A j \in ink : i <= j THEN TrimFront(typed[i]) ELSE typed[i]) = cut[i]
    <3>1. (IF \A j \in ink : i <= j THEN TrimFront(typed[i]) ELSE typed[i]) = typed[i]
      BY <2>2, <2>4
    <3>2. (\A j \in ink : j <= i) <=> i = N
      BY <2>3, <2>4
    <3> QED BY <3>1, <3>2
  <2> QED BY <2>5, <2>6
<1>8. \A i \in 1..N : cut[i] # EmptyLine
  BY <1>3
<1>9. PICK text : text = cut
  OBVIOUS
<1>10. EditedLines = [i \in {j \in DOMAIN text : text[j] # EmptyLine} |-> <<text[i]>>]
  BY <1>7, <1>9 DEF EditedLines
<1>11. DOMAIN text = 1..N /\ {j \in DOMAIN text : text[j] # EmptyLine} = 1..N
  BY <1>8, <1>9
<1>12. EditedLines = [i \in 1..N |-> <<text[i]>>]
  BY <1>10, <1>11
<1>13. \A i \in 1..N : <<text[i]>> = IF i = N THEN <<TrimBack(typed[i])>> ELSE <<typed[i]>>
  BY <1>9
<1> QED BY <1>1, <1>12, <1>13

\* The lines of the format of a map, left as they were, are read as that map,
\* of which the value shown last has lost the white space at its end.
LEMMA FormatIsRead ==
    ASSUME NEW data \in Contents, data # <<>>, OneLine(data), PlainKeys(data),
           typed = Format(data), TrimFront(Head(typed)) = Head(typed)
    PROVE  \E f \in DOMAIN data : /\ Pair(f, data[f]) = <<Last(typed)>>
                                  /\ FromPairs(EditedLines) = [data EXCEPT ![f] = TrimEnd(@)]
<1>1. /\ typed \in Seq(Seq(STRING))
      /\ \A line \in Range(typed) : Len(line) > 1
      /\ {<<line>> : line \in Range(typed)} = {Pair(f, data[f]) : f \in DOMAIN data}
  BY FormatLines
<1>2. DOMAIN data \subseteq Text /\ data \in [DOMAIN data -> Text]
  BY ContentsAssumption
<1>3. typed # <<>>
  <2>1. PICK f \in DOMAIN data : TRUE
    <3>1. CASE DOMAIN data = {}
      <4>1. data = <<>>
        BY <1>2, <3>1
      <4> QED BY <4>1
    <3> QED BY <3>1
  <2>2. PICK line \in Range(typed) : <<line>> = Pair(f, data[f])
    BY <1>1
  <2>3. DOMAIN typed # {}
    BY <2>2 DEF Range
  <2> QED BY <2>3
<1>4. PICK N \in Nat \ {0} : N = Len(typed) /\ DOMAIN typed = 1..N
  BY <1>1, <1>3, EmptySeq, LenProperties
<1>5. ASSUME NEW i \in 1..N
      PROVE  \E f \in DOMAIN data : Pair(f, data[f]) = <<typed[i]>>
  <2>1. typed[i] \in Range(typed)
    BY <1>4 DEF Range
  <2> QED BY <1>1, <2>1
<1>6. PICK g \in DOMAIN data : Pair(g, data[g]) = <<typed[N]>>
  BY <1>4, <1>5
<1>7. PICK texts : texts = EditedLines
  OBVIOUS
<1>8. texts = [i \in 1..N |-> IF i = N THEN <<TrimBack(typed[i])>> ELSE <<typed[i]>>]
  BY ONLY <1>1, <1>3, <1>4, <1>7, TrimFront(Head(typed)) = Head(typed), UntouchedLines
<1>9. PICK read : read = [data EXCEPT ![g] = TrimEnd(@)]
  OBVIOUS
<1>10. /\ DOMAIN read = DOMAIN data /\ read = [f \in DOMAIN read |-> read[f]]
       /\ read[g] = TrimEnd(data[g])
       /\ \A f \in DOMAIN data : f # g => read[f] = data[f]
  BY ONLY <1>2, <1>6, <1>9
<1>11. CutKey(texts[N]) = g /\ CutValue(texts[N]) = read[g]
  <2>1. PICK All : All = CutParts
    OBVIOUS
  <2>2. g \in Text /\ Len(g) = 1 /\ data[g] \in Text /\ Len(data[g]) = 1 /\ Plain(g)
    BY <1>2, <1>6 DEF OneLine, PlainKeys
  <2>3. PICK text, line : text = data[g] /\ line = typed[N]
    OBVIOUS
  <2>4. text \in Text /\ Len(text) = 1 /\ Pair(g, text) = <<line>>
    BY <1>6, <2>2, <2>3
  <2>5. /\ g \in AText(All) /\ TrimEnd(text) \in AText(All)
        /\ Pair(g, TrimEnd(text)) = <<TrimBack(line)>>
    <3>1. g \in Text /\ Len(g) = 1
      BY <2>2
    <3> QED BY ONLY <2>1, <2>4, <3>1, TrimOfPair
  <2>6. /\ CutKey(Pair(g, TrimEnd(text))) = g
        /\ CutValue(Pair(g, TrimEnd(text))) = TrimEnd(text)
    BY ONLY <2>2, <2>5, PairIsCut
  <2>7. texts[N] = <<TrimBack(line)>>
    BY <1>8, <2>3
  <2> QED BY ONLY <1>10, <2>3, <2>5, <2>6, <2>7
<1>12. ASSUME NEW i \in 1..N, i # N
       PROVE  /\ CutKey(texts[i]) \in DOMAIN data
              /\ CutValue(texts[i]) = data[CutKey(texts[i])]
              /\ Pair(CutKey(texts[i]), data[CutKey(texts[i])]) = <<typed[i]>>
  <2>1. PICK f \in DOMAIN data : Pair(f, data[f]) = <<typed[i]>>
    BY <1>5
  <2>2. f \in AText(STRING) /\ data[f] \in AText(STRING) /\ Plain(f)
    BY <1>2, <2>1, TextsOfParts DEF PlainKeys
  <2>3. CutKey(Pair(f, data[f])) = f /\ CutValue(Pair(f, data[f])) = data[f]
    BY ONLY <2>2, PairIsCut
  <2>4. texts[i] = Pair(f, data[f])
    BY <1>8, <1>12, <2>1
  <2> QED BY ONLY <2>1, <2>3, <2>4
<1>13. {CutKey(texts[i]) : i \in DOMAIN texts} = DOMAIN read
  <2>1. DOMAIN texts = 1..N
    BY <1>8
  <2>2. \A i \in 1..N : CutKey(texts[i]) \in DOMAIN data
    BY <1>6, <1>11, <1>12
  <2>3. ASSUME NEW f \in DOMAIN data
        PROVE  \E i \in 1..N : CutKey(texts[i]) = f
    <3>1. CASE f = g
      BY <1>4, <1>11, <3>1
    <3>2. CASE f # g
      <4>1. PICK line \in Range(typed) : <<line>> = Pair(f, data[f])
        BY <1>1
      <4>2. PICK i \in 1..N : line = typed[i]
        BY <1>4, <4>1 DEF Range
      <4>3. f \in AText(STRING) /\ data[f] \in AText(STRING) /\ Plain(f)
        BY <1>2, TextsOfParts DEF PlainKeys
      <4>4. g \in AText(STRING) /\ data[g] \in AText(STRING) /\ Plain(g)
        BY <1>2, <1>6, TextsOfParts DEF PlainKeys
      <4>5. CutKey(Pair(f, data[f])) = f /\ CutKey(Pair(g, data[g])) = g
        BY ONLY <4>3, <4>4, PairIsCut
      <4>6. i # N
        BY <1>6, <3>2, <4>1, <4>2, <4>5
      <4>7. texts[i] = <<typed[i]>>
        BY <1>8, <4>6
      <4> QED BY ONLY <4>1, <4>2, <4>5, <4>7
    <3> QED BY <3>1, <3>2
  <2> QED BY <1>10, <2>1, <2>2, <2>3
<1>14. ASSUME NEW i \in DOMAIN texts,
              \A j \in DOMAIN texts : j > i => CutKey(texts[j]) # CutKey(texts[i])
       PROVE  CutValue(texts[i]) = read[CutKey(texts[i])]
  <2>0. DOMAIN texts = 1..N
    BY <1>8
  <2>1. CASE i = N
    BY ONLY <1>11, <2>1
  <2>2. CASE i # N
    <3>1. N > i /\ N \in DOMAIN texts /\ i \in 1..N
      BY <2>0, <2>2
    <3>2. CutKey(texts[i]) # g
      BY ONLY <1>11, <1>14, <3>1
    <3> QED BY ONLY <1>10, <1>12, <2>2, <3>1, <3>2
  <2> QED BY <2>1, <2>2
<1>15. FromPairs(texts) = read
  <2>1. DOMAIN texts \subseteq 1..N /\ N \in Nat
    BY <1>8
  <2>2. read = [f \in DOMAIN read |-> read[f]]
    BY <1>10
  <2> QED BY ONLY <1>13, <1>14, <2>1, <2>2, LastCounts
<1>16. Last(typed) = typed[N]
  BY <1>4 DEF Last
<1> QED BY ONLY <1>6, <1>7, <1>9, <1>15, <1>16

\* A secret that was shown in the editor and left as it was is written back as
\* it was read, if the format can carry it, whatever "=" signs its values have
\* and whatever other processes did meanwhile; except that the value shown last
\* in a map loses the white space at its end.
THEOREM UntouchedEditIsExact == Spec => UntouchedEditKeeps
<1> DEFINE Kept ==
        pc = "save" /\ pc' = "done" /\ typed = shown /\ Carried =>
            IF request.kind = "map"
            THEN \E f \in DOMAIN base :
                    /\ Pair(f, base[f]) = <<Last(shown)>>
                    /\ secrets' = [secrets EXCEPT
                            ![request.name] = [base EXCEPT ![f] = TrimEnd(@)]]
            ELSE secrets' = [secrets EXCEPT ![request.name] = base]
<1>1. CommandsInv /\ [Next]_vars => [Kept]_<<commandVault, edit>>
  <2> SUFFICES ASSUME CommandsInv, Next, pc = "save", pc' = "done", typed = shown, Carried
               PROVE  IF request.kind = "map"
                      THEN \E f \in DOMAIN base :
                              /\ Pair(f, base[f]) = <<Last(shown)>>
                              /\ secrets' = [secrets EXCEPT
                                      ![request.name] = [base EXCEPT ![f] = TrimEnd(@)]]
                      ELSE secrets' = [secrets EXCEPT ![request.name] = base]
    BY DEF vars
  <2>1. secrets' = [secrets EXCEPT ![request.name] = EditedData]
    BY WhoIsDone DEF SaveEdit, Writes
  <2>2. base \in Contents /\ typed = Shown(base)
    BY DEF CommandsInv, EditInv, Carried
  <2>3. CASE request.kind = "map"
    <3>1. /\ base # <<>> /\ OneLine(base) /\ PlainKeys(base) /\ typed = Format(base)
          /\ TrimFront(Head(typed)) = Head(typed)
      BY <2>2, <2>3 DEF Carried, Shown
    <3>2. PICK f \in DOMAIN base : /\ Pair(f, base[f]) = <<Last(typed)>>
                                   /\ FromPairs(EditedLines) = [base EXCEPT ![f] = TrimEnd(@)]
      BY ONLY <2>2, <3>1, FormatIsRead
    <3>3. EditedData = FromPairs(EditedLines)
      BY <2>3 DEF EditedData
    <3>4. secrets' = [secrets EXCEPT ![request.name] = [base EXCEPT ![f] = TrimEnd(@)]]
      BY ONLY <2>1, <3>2, <3>3
    <3> QED BY <2>3, <3>2, <3>4
  <2>4. CASE request.kind # "map"
    <3>1. DOMAIN base = {ValueKey} /\ base = [f \in DOMAIN base |-> base[f]]
      BY <2>2, <2>4, ContentsAssumption DEF Carried
    <3>2. typed = base[ValueKey]
      BY <2>2, <2>4, <3>1 DEF Shown
    <3>3. OnlyValue(typed) = [f \in {ValueKey} |-> typed]
      BY DEF OnlyValue
    <3>4. base = [f \in {ValueKey} |-> typed]
      BY <3>1, <3>2
    <3>5. EditedData = base
      BY <2>4, <3>3, <3>4 DEF EditedData
    <3> QED BY <2>1, <2>4, <3>5
  <2> QED BY <2>3, <2>4
<1> QED BY CommandsInvariant, <1>1, PTL DEF Spec, UntouchedEditKeeps
=============================================================================
