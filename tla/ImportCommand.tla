---------------------------- MODULE ImportCommand ----------------------------
(***************************************************************************)
(* `sauce import 1password`: makes a list of writes of an export           *)
(* (ImportItems), does the first one alone and the others in goroutines,   *)
(* a bounded number at a time, and counts what was imported and skipped.   *)
(***************************************************************************)
EXTENDS CommandVault, ImportItems, Integers

CONSTANTS
    Exports,    \* sequences of items
    Limits,     \* pairs of --concurrency and the configured concurrency
    NumCPU

ASSUME NumCPUAssumption == NumCPU \in Nat \ {0}
ASSUME LimitsAssumption == Limits \subseteq Int \X Int
ASSUME ExportsAssumption == \A export \in Exports :
    /\ export \in Seq(Range(export))
    /\ \A task \in Range(Tasks(export)) : task.key \in Names
    /\ \A item \in Range(export) : WellFormed(item)

VARIABLES
    tasks,      \* the writes to do, by the places of their items
    todo,       \* the places of those not begun
    conc,       \* the capacity of the semaphore
    writing,    \* the places of those under way
    imported, skipped

import == <<tasks, todo, conc, writing, imported, skipped>>

ImportOff ==
    tasks = <<>> /\ todo = {} /\ conc = 0 /\ writing = {} /\ imported = 0 /\ skipped = 0

Export == request[1]

\* A slip: 0 is taken as it is.
ResolveConcurrencyZero(flag, cfg) == IF flag > 0 THEN flag ELSE IF cfg > 0 THEN cfg ELSE 0
ResolveConcurrency(flag, cfg) ==
    IF flag > 0 THEN flag ELSE IF cfg > 0 THEN cfg ELSE NumCPU

Places == DOMAIN tasks

\* The archive has been read and its items turned into writes; whatever fails
\* before this ends the command without a call.
ImportInit ==
    /\ request \in Exports \X Limits
    /\ Start("probe")
    /\ tasks = Tasks(Export)
    /\ todo = Places
    /\ conc = ResolveConcurrency(request[2][1], request[2][2])
    /\ skipped = Len(Export) - Cardinality(Places)
    /\ writing = {} /\ imported = 0

\* The bytes of a field's key are one word, and those of its value.
AsTexts(data) == [key \in {Word(f) : f \in DOMAIN data} |-> Word(data[key[1][1]])]

\* The write of a task succeeds or fails, and is counted.
WriteTaskEnds(task) ==
    \/ /\ Writes(task.key, AsTexts(task.data))
       /\ imported' = imported + 1 /\ UNCHANGED skipped
    \/ /\ WriteFails(task.key, AsTexts(task.data))
       /\ skipped' = skipped + 1 /\ UNCHANGED imported

\* The tasks are taken in the order of the export.
IsNext(i) == i \in todo /\ \A j \in todo : i <= j

\* A slip: the first task stays in the list.
ProbeAgain(i) ==
    /\ IsNext(i)
    /\ Goes("probe", "writes")
    /\ WriteTaskEnds(tasks[i])
    /\ UNCHANGED <<tasks, todo, conc, writing>>

\* The first write, alone, so that the keyring asks once.
Probe(i) ==
    /\ IsNext(i)
    /\ Goes("probe", "writes")
    /\ WriteTaskEnds(tasks[i])
    /\ todo' = todo \ {i}
    /\ UNCHANGED <<tasks, conc, writing>>

NothingToProbe ==
    /\ todo = {}
    /\ Goes("probe", "writes")
    /\ UNCHANGED <<secrets, import>>

\* A slip: the semaphore is taken inside the goroutine.
StartWriteAtOnce(i) ==
    /\ IsNext(i)
    /\ Goes("writes", "writes")
    /\ writing' = writing \cup {i}
    /\ todo' = todo \ {i}
    /\ UNCHANGED <<secrets, tasks, conc, imported, skipped>>

\* sem <- struct{}{} and go.
StartWrite(i) ==
    /\ IsNext(i) /\ Cardinality(writing) < conc
    /\ Goes("writes", "writes")
    /\ writing' = writing \cup {i}
    /\ todo' = todo \ {i}
    /\ UNCHANGED <<secrets, tasks, conc, imported, skipped>>

\* A slip: every goroutine works on the loop's variable.
FinishWriteShared(i) ==
    /\ i \in writing
    /\ Goes("writes", "writes")
    /\ WriteTaskEnds(tasks[CHOOSE last \in writing : \A j \in writing : j <= last])
    /\ writing' = writing \ {i}
    /\ UNCHANGED <<tasks, todo, conc>>

\* A goroutine ends: its write, the counter, and its place in the semaphore.
FinishWrite(i) ==
    /\ i \in writing
    /\ Goes("writes", "writes")
    /\ WriteTaskEnds(tasks[i])
    /\ writing' = writing \ {i}
    /\ UNCHANGED <<tasks, todo, conc>>

\* wg.Wait and the totals.
ImportEnds ==
    /\ todo = {} /\ writing = {}
    /\ Goes("writes", IF skipped > 0 THEN "incomplete" ELSE "done")
    /\ UNCHANGED <<secrets, import>>

ImportNext ==
    \/ \E i \in todo : Probe(i) \/ StartWrite(i)
    \/ NothingToProbe
    \/ \E i \in writing : FinishWrite(i)
    \/ ImportEnds

-----------------------------------------------------------------------------
\* Every item is counted once, as imported or as skipped, and the command
\* succeeds exactly when nothing was skipped.  (Other commands have conc = 0.)
ImportCounts ==
    pc \in {"done", "incomplete"} /\ conc # 0 =>
        /\ imported + skipped = Len(Export)
        /\ pc = "done" <=> skipped = 0

TasksOf(key) == {t \in Range(tasks) : t.key = key}

\* When no write failed, each name the export has an item for holds what one
\* of these items says, or what another process wrote: no write is lost.
ImportKeeps ==
    pc \in {"done", "incomplete"} /\ conc # 0
        /\ skipped = Len(Export) - Cardinality(Places) =>
            \A t \in Range(tasks) :
                secrets[t.key] \in {AsTexts(u.data) : u \in TasksOf(t.key)} \cup OthersWrote(t.key)

\* Items with a key that looks like a renamed one.
Lookalikes == {item \in UNION {Range(export) : export \in Exports} : Lookalike(item)}

\* The write of an item stored as a map holds every value the item has under a
\* key, although the second field of a key is renamed; unless one of the item's
\* own keys looks like a renamed one.
NoValueLost ==
    pc \in {"probe", "writes"} =>
        \A i \in Places :
            LET item == Export[i]
            IN  item.category = "map" /\ item \notin Lookalikes
                    => Wanted(item) \ {NoText} \subseteq Range(tasks[i].data)
=============================================================================
