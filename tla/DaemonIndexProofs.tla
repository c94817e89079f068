------------------------- MODULE DaemonIndexProofs -------------------------
(***************************************************************************)
(* Theorems about DaemonIndex, for any handlers, names, files and times:   *)
(* types, that the index is exact while it counts as fresh, that answers   *)
(* are right at some moment of the request, and that no entry leads a read *)
(* or delete to another secret's file.  Files of Flaky may fail to open:   *)
(* what is said of an absent name is said of its other files.              *)
(*                                                                         *)
(* The argument is about what a handler could answer.  Up to the stat of   *)
(* its request the index may be of any age.  From then on, the index it    *)
(* will use was either fresh at that stat (IndexFresh), or is the work of  *)
(* a rebuild that looked at each file later (BuildSaid); either way what   *)
(* it says of a name has been true since the request came (IndexSaid), and *)
(* stays an allowed answer when the directory changes under it.            *)
(***************************************************************************)
EXTENDS DaemonIndex, TLAPS

\* The daemon keeps one index: it is about one directory if all clients agree.
OneDirectory == \A d, e \in Dirs : d = e

\* The time stamp of a change by the CLI is later than those before it.
PreciseCli == "cli" \notin Coarse

\* The handlers that have been told that the index is fresh enough for them,
\* or will be when the index built with time stamp m is installed.
Waits(h, m) == pc[h] = "entry" \/ (pc[h] \in {"check", "wait", "build"} /\ seen[h] <= m)

\* A handler's request and what it holds fit the step it is at.
RequestFits == \A h \in Handlers :
    /\ pc[h] = "idle" <=> req[h] = None
    /\ pc[h] \in {"stat", "check", "wait", "build", "entry"} =>
          req[h].op \in {"list", "read", "delete"}
    /\ pc[h] = "decrypt" => req[h].op = "read"
    /\ pc[h] = "remove" => req[h].op = "delete"
    /\ pc[h] = "write" => req[h].op = "write"
    /\ pc[h] = "invalidate" => req[h].op \in {"write", "delete"}
    /\ pc[h] \in {"decrypt", "remove"} => uuid[h] # None
    /\ pc[h] = "build" <=> builder = h

Typed == TypeOK /\ RequestFits

\* No time stamp is of the future.
TimesPast ==
    /\ dirModTime <= clock
    /\ \A d \in Dirs : mtime[d] <= clock
    /\ \A h \in Handlers : seen[h] <= clock

\* A name has one file that is sure to open.
OneFilePerName == \A d \in Dirs : \A u, v \in UUIDs \ Flaky :
    file[d][u] \in Names /\ file[d][u] = file[d][v] => u = v

\* What the index and a rebuild point at is the file of the name or has gone.
EntriesRight == \A d \in Dirs, k \in Names :
    entries[k] # None => file[d][entries[k]] \in {k, Gone}
NewRight == \A d \in Dirs, h \in Handlers, k \in Names :
    new[h][k] # None => file[d][new[h][k]] \in {k, Gone}

\* While the directory has not changed since the index was built,
IndexFresh == \A d \in Dirs, k \in Names : UpToDate(mtime[d]) =>
    /\ entries[k] = None => Missing(d, k) \/ Underway(d, "write", k)
    /\ entries[k] # None => file[d][entries[k]] = k \/ Underway(d, "delete", k)

\* nor since the stat of a rebuild, they miss only changes under way.
BuildFresh == \A d \in Dirs, b \in Handlers, k \in Names :
    pc[b] = "build" /\ mtime[d] <= seen[b] =>
        /\ new[b][k] = None =>
              \/ Underway(d, "write", k)
              \/ \A u \in UUIDs \ Flaky : file[d][u] = k => u \in scan[b]
        /\ new[b][k] # None => file[d][new[b][k]] = k \/ Underway(d, "delete", k)

IndexSaid == \A h \in Handlers :
    pc[h] = "entry" \/ (pc[h] \in {"check", "wait"} /\ UpToDate(seen[h])) =>
        \A k \in Asked(req[h]) :
            /\ entries[k] = None => <<k, FALSE>> \in could[h]
            /\ entries[k] # None => <<k, TRUE>> \in could[h]

BuildSaid == \A b, h \in Handlers : pc[b] = "build" /\ Waits(h, seen[b]) =>
    \A k \in Asked(req[h]) :
        /\ new[b][k] = None /\ (\A d \in Dirs : \A u \in scan[b] \ Flaky : file[d][u] # k) =>
              <<k, FALSE>> \in could[h]
        /\ new[b][k] # None => <<k, TRUE>> \in could[h]

DecryptSaid == \A h \in Handlers :
    pc[h] = "decrypt" => <<req[h].name, TRUE>> \in could[h]

\* The inductive invariant.
IndexInv ==
    /\ Typed /\ TimesPast /\ OneFilePerName /\ EntriesRight /\ NewRight /\ RightFile
    /\ IndexFresh /\ BuildFresh /\ IndexSaid /\ BuildSaid /\ DecryptSaid
    /\ AnswersCurrent

-----------------------------------------------------------------------------
(* Types *)

\* What may be answered names secrets.
LEMMA ObserveTypes ==
  ASSUME TypeOK, req' \in [Handlers -> Requests \cup {None}], Observe
  PROVE  could' \in [Handlers -> SUBSET (Names \X BOOLEAN)]
<1> DEFINE Told(h) == {s \in Sayable'[req'[h].dir] : s[1] \in Asked(req'[h])}
<1>1. \A h \in Handlers : req'[h] # None => Told(h) \subseteq Names \X BOOLEAN
  BY DEF Sayable, Requests
<1> HIDE DEF Told
<1> QED
  BY <1>1 DEF Observe, TypeOK, Told

\* A request is a record, and None is not.
LEMMA RequestFields ==
  \A r \in Requests :
    /\ r # None
    /\ r.dir \in Dirs
    /\ r.op \in {"list", "read", "write", "delete"}
    /\ r.op # "list" => r.name \in Names
  BY SentinelsAssumption DEF Requests

\* The check under the read lock finds the index fresh, or not.
LEMMA CheckCases ==
  ASSUME NEW h, Check(h)
  PROVE  /\ pc[h] = "check" /\ builder = None
         /\ \/ UpToDate(seen[h]) /\ Refreshed(h)
            \/ ~UpToDate(seen[h]) /\ Goto(h, "wait") /\ seen' = seen
         /\ UNCHANGED <<directory, index, builder, req, rebuild, uuid, answer>>
         /\ Observe
  BY DEF Check

\* A write keeps the types of the directory.
LEMMA PutSecretTypes ==
  ASSUME TypeOK, NEW who, NEW d \in Dirs, NEW k \in Names, PutSecret(who, d, k)
  PROVE  /\ file' \in [Dirs -> [UUIDs -> Names \cup {Unborn, Gone}]]
         /\ mtime' \in [Dirs -> 1..MaxClock] /\ clock' \in 1..MaxClock
<1>1. file' \in [Dirs -> [UUIDs -> Names \cup {Unborn, Gone}]]
  <2>1. CASE file' = file
    BY <2>1 DEF TypeOK
  <2>2. CASE file' # file
    <3>1. PICK u \in UUIDs : file' = [file EXCEPT ![d][u] = k]
      BY <2>2 DEF PutSecret
    <3> QED
      BY <3>1 DEF TypeOK
  <2> QED
    BY <2>1, <2>2
<1>2. clock' \in 1..MaxClock /\ mtime' \in [Dirs -> 1..MaxClock]
  BY ClockAssumption DEF PutSecret, Touch, TypeOK
<1> QED
  BY <1>1, <1>2

\* Every step of a handler, the CLI and a restart keeps the types.
LEMMA StepTypeOK ==
  ASSUME TypeOK, RequestFits, [Next]_vars
  PROVE  TypeOK'
<1> USE SentinelsAssumption, ClockAssumption, RequestFields, ObserveTypes
        DEF TypeOK, RequestFits, directory, index, rebuild, answer, Empty,
            Replies
<1>1. ASSUME NEW d \in Dirs, NEW k \in Names, CliWrite(d, k) PROVE TypeOK'
  BY <1>1, PutSecretTypes DEF CliWrite
<1>2. ASSUME NEW d \in Dirs, NEW u \in UUIDs, CliDelete(d, u) PROVE TypeOK'
  BY <1>2 DEF CliDelete, RemoveFile, Touch
<1>3. ASSUME NEW h \in Handlers, NEW r \in Requests, Receive(h, r) PROVE TypeOK'
  BY <1>3 DEF Receive, Goto
<1>4. ASSUME NEW h \in Handlers, Stat(h) PROVE TypeOK'
  BY <1>4 DEF Stat, Goto
<1>5. ASSUME NEW h \in Handlers, Check(h) PROVE TypeOK'
  <2>1. CASE UpToDate(seen[h])
    <3>1. seen' = [seen EXCEPT ![h] = 0] /\ pc' = [pc EXCEPT ![h] = "entry"]
      BY <1>5, <2>1, CheckCases DEF Refreshed, Goto
    <3> QED
      BY <1>5, <3>1, CheckCases
  <2>2. CASE ~UpToDate(seen[h])
    <3>1. seen' = seen /\ pc' = [pc EXCEPT ![h] = "wait"]
      BY <1>5, <2>2, CheckCases DEF Goto
    <3> QED
      BY <1>5, <3>1, CheckCases
  <2> QED
    BY <2>1, <2>2
<1>6. ASSUME NEW h \in Handlers, FindRebuilt(h) PROVE TypeOK'
  BY <1>6 DEF FindRebuilt, Refreshed, Goto
<1>7. ASSUME NEW h \in Handlers, StartRebuild(h) PROVE TypeOK'
  BY <1>7 DEF StartRebuild, Goto
<1>8. ASSUME NEW h \in Handlers, RefreshFails(h) PROVE TypeOK'
  BY <1>8 DEF RefreshFails, Answer, Goto
<1>9. ASSUME NEW h \in Handlers, NEW u \in UUIDs, IndexFile(h, u) PROVE TypeOK'
  <2>1. CASE new' = new
    BY <1>9, <2>1 DEF IndexFile
  <2>2. CASE new' # new
    <3>1. PICK k \in Names : new' = [new EXCEPT ![h][k] = u]
      BY <1>9, <2>2 DEF IndexFile
    <3> QED
      BY <1>9, <3>1 DEF IndexFile
  <2> QED
    BY <2>1, <2>2
<1>10. ASSUME NEW h \in Handlers, Install(h) PROVE TypeOK'
  BY <1>10 DEF Install, Refreshed, Goto
<1>11. ASSUME NEW h \in Handlers, ListNames(h) PROVE TypeOK'
  BY <1>11 DEF ListNames, Answer, Goto
<1>12. ASSUME NEW h \in Handlers, NoEntry(h) PROVE TypeOK'
  BY <1>12 DEF NoEntry, Answer, Goto
<1>13. ASSUME NEW h \in Handlers, Entry(h) PROVE TypeOK'
  BY <1>13 DEF Entry, Goto
<1>14. ASSUME NEW h \in Handlers, DecryptFile(h) PROVE TypeOK'
  BY <1>14 DEF DecryptFile, Answer, Goto
<1>15. ASSUME NEW h \in Handlers, Remove(h) PROVE TypeOK'
  BY <1>15 DEF Remove, RemoveFile, Touch, Goto
<1>16. ASSUME NEW h \in Handlers, Write(h) PROVE TypeOK'
  <2>1. req[h] \in Requests /\ req[h].op # "list" /\ pc' = [pc EXCEPT ![h] = "invalidate"]
    BY <1>16 DEF Write, Goto
  <2>2. /\ file' \in [Dirs -> [UUIDs -> Names \cup {Unborn, Gone}]]
        /\ mtime' \in [Dirs -> 1..MaxClock] /\ clock' \in 1..MaxClock
    BY <1>16, <2>1, PutSecretTypes DEF Write
  <2> QED
    BY <1>16, <2>1, <2>2 DEF Write
<1>17. ASSUME NEW h \in Handlers, ChangeFails(h) PROVE TypeOK'
  BY <1>17 DEF ChangeFails, Answer, Goto
<1>18. ASSUME NEW h \in Handlers, Invalidate(h) PROVE TypeOK'
  BY <1>18 DEF Invalidate, Answer, Goto
<1>19. ASSUME NEW h \in Handlers, Reply(h) PROVE TypeOK'
  BY <1>19 DEF Reply, Goto
<1>20. CASE Restart
  BY <1>20 DEF Restart
<1>21. CASE UNCHANGED vars
  BY <1>21 DEF vars
<1> QED
  BY <1>1, <1>2, <1>3, <1>4, <1>5, <1>6, <1>7, <1>8, <1>9, <1>10, <1>11,
     <1>12, <1>13, <1>14, <1>15, <1>16, <1>17, <1>18, <1>19, <1>20, <1>21
     DEF Next, Refresh, Serve, Cli

\* Handlers go from step to step as their requests say; the write lock is the builder's.
LEMMA StepRequestFits ==
  ASSUME TypeOK, RequestFits, [Next]_vars
  PROVE  RequestFits'
<1> USE SentinelsAssumption, RequestFields
        DEF TypeOK, RequestFits, directory, index, rebuild, answer
<1>1. ASSUME NEW d \in Dirs, NEW k \in Names, CliWrite(d, k) PROVE RequestFits'
  BY <1>1 DEF CliWrite, PutSecret, Touch
<1>2. ASSUME NEW d \in Dirs, NEW u \in UUIDs, CliDelete(d, u) PROVE RequestFits'
  BY <1>2 DEF CliDelete, RemoveFile, Touch
<1>3. ASSUME NEW h \in Handlers, NEW r \in Requests, Receive(h, r) PROVE RequestFits'
  BY <1>3 DEF Receive, Goto
<1>4. ASSUME NEW h \in Handlers, Stat(h) PROVE RequestFits'
  BY <1>4 DEF Stat, Goto
<1>5. ASSUME NEW h \in Handlers, Check(h) PROVE RequestFits'
  BY <1>5 DEF Check, Refreshed, Goto
<1>6. ASSUME NEW h \in Handlers, FindRebuilt(h) PROVE RequestFits'
  BY <1>6 DEF FindRebuilt, Refreshed, Goto
<1>7. ASSUME NEW h \in Handlers, StartRebuild(h) PROVE RequestFits'
  BY <1>7 DEF StartRebuild, Goto
<1>8. ASSUME NEW h \in Handlers, RefreshFails(h) PROVE RequestFits'
  BY <1>8 DEF RefreshFails, Answer, Goto
<1>9. ASSUME NEW h \in Handlers, NEW u \in UUIDs, IndexFile(h, u) PROVE RequestFits'
  BY <1>9 DEF IndexFile
<1>10. ASSUME NEW h \in Handlers, Install(h) PROVE RequestFits'
  BY <1>10 DEF Install, Refreshed, Goto
<1>11. ASSUME NEW h \in Handlers, ListNames(h) PROVE RequestFits'
  BY <1>11 DEF ListNames, Answer, Goto
<1>12. ASSUME NEW h \in Handlers, NoEntry(h) PROVE RequestFits'
  BY <1>12 DEF NoEntry, Answer, Goto
<1>13. ASSUME NEW h \in Handlers, Entry(h) PROVE RequestFits'
  BY <1>13 DEF Entry, Goto
<1>14. ASSUME NEW h \in Handlers, DecryptFile(h) PROVE RequestFits'
  BY <1>14 DEF DecryptFile, Answer, Goto
<1>15. ASSUME NEW h \in Handlers, Remove(h) PROVE RequestFits'
  BY <1>15 DEF Remove, RemoveFile, Touch, Goto
<1>16. ASSUME NEW h \in Handlers, Write(h) PROVE RequestFits'
  BY <1>16 DEF Write, PutSecret, Touch, Goto
<1>17. ASSUME NEW h \in Handlers, ChangeFails(h) PROVE RequestFits'
  BY <1>17 DEF ChangeFails, Answer, Goto
<1>18. ASSUME NEW h \in Handlers, Invalidate(h) PROVE RequestFits'
  BY <1>18 DEF Invalidate, Answer, Goto
<1>19. ASSUME NEW h \in Handlers, Reply(h) PROVE RequestFits'
  BY <1>19 DEF Reply, Goto
<1>20. CASE Restart
  BY <1>20 DEF Restart
<1>21. CASE UNCHANGED vars
  BY <1>21 DEF vars
<1> QED
  BY <1>1, <1>2, <1>3, <1>4, <1>5, <1>6, <1>7, <1>8, <1>9, <1>10, <1>11,
     <1>12, <1>13, <1>14, <1>15, <1>16, <1>17, <1>18, <1>19, <1>20, <1>21
     DEF Next, Refresh, Serve, Cli

\* The clock does not run back, and stamps come from it.
LEMMA StepTimesPast ==
  ASSUME TypeOK, RequestFits, TimesPast, [Next]_vars
  PROVE  TimesPast'
<1> USE SentinelsAssumption, ClockAssumption, RequestFields
        DEF TypeOK, RequestFits, TimesPast, directory, index, rebuild, answer
<1>1. ASSUME NEW d \in Dirs, NEW k \in Names, CliWrite(d, k) PROVE TimesPast'
  BY <1>1 DEF CliWrite, PutSecret, Touch
<1>2. ASSUME NEW d \in Dirs, NEW u \in UUIDs, CliDelete(d, u) PROVE TimesPast'
  BY <1>2 DEF CliDelete, RemoveFile, Touch
<1>3. ASSUME NEW h \in Handlers, NEW r \in Requests, Receive(h, r) PROVE TimesPast'
  BY <1>3 DEF Receive, Goto
<1>4. ASSUME NEW h \in Handlers, Stat(h) PROVE TimesPast'
  BY <1>4 DEF Stat, Goto
<1>5. ASSUME NEW h \in Handlers, Check(h) PROVE TimesPast'
  <2>1. CASE UpToDate(seen[h])
    <3>1. seen' = [seen EXCEPT ![h] = 0] /\ pc' = [pc EXCEPT ![h] = "entry"]
      BY <1>5, <2>1, CheckCases DEF Refreshed, Goto
    <3> QED
      BY <1>5, <3>1, CheckCases
  <2>2. CASE ~UpToDate(seen[h])
    <3>1. seen' = seen /\ pc' = [pc EXCEPT ![h] = "wait"]
      BY <1>5, <2>2, CheckCases DEF Goto
    <3> QED
      BY <1>5, <3>1, CheckCases
  <2> QED
    BY <2>1, <2>2
<1>6. ASSUME NEW h \in Handlers, FindRebuilt(h) PROVE TimesPast'
  BY <1>6 DEF FindRebuilt, Refreshed, Goto
<1>7. ASSUME NEW h \in Handlers, StartRebuild(h) PROVE TimesPast'
  BY <1>7 DEF StartRebuild, Goto
<1>8. ASSUME NEW h \in Handlers, RefreshFails(h) PROVE TimesPast'
  BY <1>8 DEF RefreshFails, Answer, Goto
<1>9. ASSUME NEW h \in Handlers, NEW u \in UUIDs, IndexFile(h, u) PROVE TimesPast'
  BY <1>9 DEF IndexFile
<1>10. ASSUME NEW h \in Handlers, Install(h) PROVE TimesPast'
  BY <1>10 DEF Install, Refreshed, Goto
<1>11. ASSUME NEW h \in Handlers, ListNames(h) PROVE TimesPast'
  BY <1>11 DEF ListNames, Answer, Goto
<1>12. ASSUME NEW h \in Handlers, NoEntry(h) PROVE TimesPast'
  BY <1>12 DEF NoEntry, Answer, Goto
<1>13. ASSUME NEW h \in Handlers, Entry(h) PROVE TimesPast'
  BY <1>13 DEF Entry, Goto
<1>14. ASSUME NEW h \in Handlers, DecryptFile(h) PROVE TimesPast'
  BY <1>14 DEF DecryptFile, Answer, Goto
<1>15. ASSUME NEW h \in Handlers, Remove(h) PROVE TimesPast'
  BY <1>15 DEF Remove, RemoveFile, Touch, Goto
<1>16. ASSUME NEW h \in Handlers, Write(h) PROVE TimesPast'
  BY <1>16 DEF Write, PutSecret, Touch, Goto
<1>17. ASSUME NEW h \in Handlers, ChangeFails(h) PROVE TimesPast'
  BY <1>17 DEF ChangeFails, Answer, Goto
<1>18. ASSUME NEW h \in Handlers, Invalidate(h) PROVE TimesPast'
  BY <1>18 DEF Invalidate, Answer, Goto
<1>19. ASSUME NEW h \in Handlers, Reply(h) PROVE TimesPast'
  BY <1>19 DEF Reply, Goto
<1>20. CASE Restart
  BY <1>20 DEF Restart
<1>21. CASE UNCHANGED vars
  BY <1>21 DEF vars
<1> QED
  BY <1>1, <1>2, <1>3, <1>4, <1>5, <1>6, <1>7, <1>8, <1>9, <1>10, <1>11,
     <1>12, <1>13, <1>14, <1>15, <1>16, <1>17, <1>18, <1>19, <1>20, <1>21
     DEF Next, Refresh, Serve, Cli

-----------------------------------------------------------------------------
(* Files and requests *)

\* What a busy handler works on.
LEMMA HandlerRequest ==
  ASSUME TypeOK, RequestFits
  PROVE  \A h \in Handlers :
           /\ pc[h] # "idle" => req[h] \in Requests /\ req[h].dir \in Dirs
           /\ pc[h] \in {"decrypt", "remove", "write", "invalidate"} =>
                 req[h].name \in Names
           /\ pc[h] \in {"decrypt", "remove"} => uuid[h] \in UUIDs
<1> SUFFICES ASSUME NEW h \in Handlers, pc[h] # "idle"
             PROVE  /\ req[h] \in Requests /\ req[h].dir \in Dirs
                    /\ pc[h] \in {"decrypt", "remove", "write", "invalidate"} =>
                          req[h].name \in Names
                    /\ pc[h] \in {"decrypt", "remove"} => uuid[h] \in UUIDs
  OBVIOUS
<1>1. req[h] \in Requests
  BY DEF TypeOK, RequestFits
<1>2. req[h].dir \in Dirs /\ (req[h].op # "list" => req[h].name \in Names)
  BY <1>1, RequestFields
<1> QED
  BY <1>1, <1>2 DEF TypeOK, RequestFits

\* A handler's step leaves the others where they are, and it is not idle; only
\* the end of its answer makes it forget its request.
LEMMA OthersStay ==
  ASSUME Typed, NEW g \in Handlers, Refresh(g) \/ Serve(g)
  PROVE  /\ pc[g] # "idle"
         /\ Reply(g) \/ (req' = req /\ pc[g] # "reply")
         /\ \A h \in Handlers \ {g} :
               pc'[h] = pc[h] /\ seen'[h] = seen[h] /\ req'[h] = req[h]
<1> USE DEF Typed, TypeOK
<1>1. CASE Check(g)
  <2>1. /\ pc' = [pc EXCEPT ![g] = "entry"] \/ pc' = [pc EXCEPT ![g] = "wait"]
        /\ seen' = [seen EXCEPT ![g] = 0] \/ seen' = seen
        /\ pc[g] = "check" /\ req' = req
    BY <1>1, CheckCases DEF Refreshed, Goto
  <2> QED
    BY <2>1
<1>2. CASE Stat(g) \/ FindRebuilt(g) \/ StartRebuild(g) \/ Install(g)
  BY <1>2 DEF Stat, FindRebuilt, StartRebuild, Install, Refreshed, Goto
<1>3. CASE RefreshFails(g) \/ \E u \in UUIDs : IndexFile(g, u)
  BY <1>3 DEF RefreshFails, IndexFile, Answer, Goto
<1>4. CASE ListNames(g) \/ NoEntry(g) \/ Entry(g) \/ DecryptFile(g)
  BY <1>4 DEF ListNames, NoEntry, Entry, DecryptFile, Answer, Goto
<1>5. CASE Remove(g) \/ Write(g) \/ ChangeFails(g) \/ Invalidate(g)
  BY <1>5 DEF Remove, Write, ChangeFails, Invalidate, Answer, Goto
<1>6. CASE Reply(g)
  BY <1>6 DEF Reply, Goto
<1> QED
  BY <1>1, <1>2, <1>3, <1>4, <1>5, <1>6 DEF Refresh, Serve

\* A refresh ends before an answer, unless it fails.
LEMMA RefreshSteps ==
  ASSUME Typed, NEW g \in Handlers, Refresh(g), NEW h \in Handlers,
         pc'[h] \in {"decrypt", "remove", "reply"}
  PROVE  RefreshFails(g) \/ (pc'[h] = pc[h] /\ UNCHANGED answer)
<1>1. CASE Check(g)
  <2>1. /\ pc' = [pc EXCEPT ![g] = "entry"] \/ pc' = [pc EXCEPT ![g] = "wait"]
        /\ UNCHANGED answer
    BY <1>1, CheckCases DEF Refreshed, Goto
  <2> QED
    BY <2>1 DEF Typed, TypeOK
<1> QED
  BY <1>1 DEF Refresh, Stat, FindRebuilt, StartRebuild, Install, IndexFile, Refreshed,
              Goto, Typed, TypeOK

\* Only an installed rebuild changes the index, but for its time stamp and a
\* restart.
LEMMA RefreshKeeps ==
  ASSUME NEW g, Refresh(g)
  PROVE  UNCHANGED <<directory, req, uuid>> /\ (Install(g) \/ UNCHANGED index)
<1>1. CASE Check(g)
  BY <1>1, CheckCases
<1> QED
  BY <1>1 DEF Refresh, Stat, FindRebuilt, StartRebuild, RefreshFails, Install, IndexFile

\* A file appears, for a name without one that is sure to open, or goes; it is
\* never renamed.
LEMMA FileChange ==
  ASSUME TypeOK, RequestFits, [Next]_vars
  PROVE  \/ file' = file
         \/ \E d \in Dirs, k \in Names, u \in UUIDs :
               /\ Missing(d, k)
               /\ \A e \in Dirs : file[e][u] = Unborn
               /\ file' = [file EXCEPT ![d][u] = k]
         \/ \E d \in Dirs, u \in UUIDs :
               file[d][u] \in Names /\ file' = [file EXCEPT ![d][u] = Gone]
<1> DEFINE Kept == file' = file
           Born(d, k, u) == /\ Missing(d, k)
                            /\ \A e \in Dirs : file[e][u] = Unborn
                            /\ file' = [file EXCEPT ![d][u] = k]
           Removed(d, u) == file[d][u] \in Names /\ file' = [file EXCEPT ![d][u] = Gone]
<1>1. ASSUME NEW who, NEW d \in Dirs, NEW k \in Names, PutSecret(who, d, k)
      PROVE  Kept \/ \E u \in UUIDs : Born(d, k, u)
  BY <1>1 DEF PutSecret
<1>2. ASSUME NEW d \in Dirs, NEW k \in Names, CliWrite(d, k)
      PROVE  Kept \/ \E u \in UUIDs : Born(d, k, u)
  BY <1>1, <1>2 DEF CliWrite
<1>3. ASSUME NEW h \in Handlers, Write(h)
      PROVE  Kept \/ \E d \in Dirs, k \in Names, u \in UUIDs : Born(d, k, u)
  <2>1. req[h].dir \in Dirs /\ req[h].name \in Names
    <3>1. pc[h] = "write"
      BY <1>3 DEF Write
    <3> QED
      BY <3>1, HandlerRequest
  <2>2. PutSecret("daemon", req[h].dir, req[h].name)
    BY <1>3 DEF Write
  <2> HIDE DEF Kept, Born
  <2>3. Kept \/ \E u \in UUIDs : Born(req[h].dir, req[h].name, u)
    BY <1>1, <2>1, <2>2
  <2> QED
    BY <2>1, <2>3
<1>4. ASSUME NEW d \in Dirs, NEW u \in UUIDs, CliDelete(d, u) PROVE Removed(d, u)
  BY <1>4 DEF CliDelete, RemoveFile
<1>5. ASSUME NEW h \in Handlers, Remove(h)
      PROVE  \E d \in Dirs, u \in UUIDs : Removed(d, u)
  <2>1. req[h].dir \in Dirs /\ uuid[h] \in UUIDs
    <3>1. pc[h] = "remove"
      BY <1>5 DEF Remove
    <3> QED
      BY <3>1, HandlerRequest
  <2> QED
    BY <1>5, <2>1 DEF Remove, RemoveFile
<1>6. \/ Kept \/ (\E d \in Dirs, k \in Names : CliWrite(d, k))
      \/ (\E d \in Dirs, u \in UUIDs : CliDelete(d, u))
      \/ \E h \in Handlers : Write(h) \/ Remove(h)
  BY DEF Next, Cli, Refresh, Serve, vars, directory, Restart, Receive, Stat, Check,
         FindRebuilt, StartRebuild, RefreshFails, IndexFile, Install, ListNames,
         NoEntry, Entry, DecryptFile, ChangeFails, Invalidate, Reply
<1> QED
  BY <1>2, <1>3, <1>4, <1>5, <1>6

\* A file keeps its name until it goes, for good.
LEMMA FilesStay ==
  ASSUME TypeOK, RequestFits, [Next]_vars
  PROVE  \A d \in Dirs : \A u \in UUIDs :
           file[d][u] # Unborn => file'[d][u] \in {file[d][u], Gone}
<1> DEFINE Stay == \A d \in Dirs : \A u \in UUIDs :
                     file[d][u] # Unborn => file'[d][u] \in {file[d][u], Gone}
<1>1. ASSUME NEW d \in Dirs, NEW k \in Names, NEW u \in UUIDs,
             \A e \in Dirs : file[e][u] = Unborn, file' = [file EXCEPT ![d][u] = k]
      PROVE  Stay
  BY <1>1 DEF TypeOK
<1>2. ASSUME NEW d \in Dirs, NEW u \in UUIDs, file' = [file EXCEPT ![d][u] = Gone]
      PROVE  Stay
  BY <1>2 DEF TypeOK
<1>3. file' = file => Stay
  OBVIOUS
<1> HIDE DEF Stay
<1>4. Stay
  BY <1>1, <1>2, <1>3, FileChange
<1> QED
  BY <1>4 DEF Stay

\* A second file of a name appears only when the first may fail to open.
LEMMA StepOneFilePerName ==
  ASSUME TypeOK, RequestFits, OneFilePerName, [Next]_vars
  PROVE  OneFilePerName'
<1>1. CASE file' = file
  BY <1>1 DEF OneFilePerName
<1>2. ASSUME NEW d \in Dirs, NEW k \in Names, NEW u \in UUIDs, Missing(d, k),
             file' = [file EXCEPT ![d][u] = k]
      PROVE  OneFilePerName'
  BY <1>2 DEF OneFilePerName, Missing, TypeOK
<1>3. ASSUME NEW d \in Dirs, NEW u \in UUIDs, file' = [file EXCEPT ![d][u] = Gone]
      PROVE  OneFilePerName'
  BY <1>3, SentinelsAssumption DEF OneFilePerName, TypeOK
<1> QED
  BY <1>1, <1>2, <1>3, FileChange

\* A request not yet answered may still be answered as before,
LEMMA SaidStays ==
  ASSUME Observe, NEW h \in Handlers, req'[h] # None
  PROVE  could[h] \subseteq could'[h]
  BY DEF Observe

\* and as the directory is now.
LEMMA NowSaid ==
  ASSUME Observe, NEW h \in Handlers, pc[h] # "reply", req'[h] # None,
         NEW d \in Dirs, d = req'[h].dir,
         NEW k \in Names, k \in Asked(req'[h])
  PROVE  /\ HasName(d, k)' \/ Underway(d, "delete", k)' => <<k, TRUE>> \in could'[h]
         /\ Missing(d, k)' \/ Underway(d, "write", k)' => <<k, FALSE>> \in could'[h]
<1>1. could'[h] = could[h] \cup {s \in Sayable'[d] : s[1] \in Asked(req'[h])}
  BY DEF Observe
<1>2. Sayable'[d] =
              {n \in Names : HasName(d, n)' \/ Underway(d, "delete", n)'} \X {TRUE}
         \cup {n \in Names : Missing(d, n)' \/ Underway(d, "write", n)'} \X {FALSE}
  BY DEF Sayable
<1>3. HasName(d, k)' \/ Underway(d, "delete", k)' => <<k, TRUE>> \in Sayable'[d]
  BY <1>2
<1>4. Missing(d, k)' \/ Underway(d, "write", k)' => <<k, FALSE>> \in Sayable'[d]
  BY <1>2
<1> QED
  BY <1>1, <1>3, <1>4

\* A request about one secret is its op, directory and name.
LEMMA RequestRecord ==
  ASSUME NEW r \in Requests, r.op # "list"
  PROVE  r = [op |-> r.op, dir |-> r.dir, name |-> r.name]
  BY DEF Requests

\* A change by the daemon is under way until the index has been invalidated.
LEMMA UnderwayStays ==
  ASSUME RequestFits, TypeOK, [Next]_vars, ~(dirModTime' = 0 /\ builder' = None),
         NEW d, NEW o, NEW k, Underway(d, o, k)
  PROVE  Underway(d, o, k)'
<1>1. PICK h \in Handlers :
         pc[h] = "invalidate" /\ req[h] = [op |-> o, dir |-> d, name |-> k]
  BY DEF Underway
<1>2. ASSUME NEW g \in Handlers, Refresh(g) \/ Serve(g)
      PROVE  pc'[h] = pc[h] /\ req'[h] = req[h]
  <2>1. g # h
    <3>1. ~Refresh(h)
      BY <1>1 DEF Refresh, Stat, Check, FindRebuilt, StartRebuild, RefreshFails,
                  IndexFile, Install
    <3>2. Serve(h) => Invalidate(h)
      BY <1>1 DEF Serve, ListNames, NoEntry, Entry, DecryptFile, Remove, Write,
                  ChangeFails, Reply
    <3>3. ~Invalidate(h)
      BY DEF Invalidate
    <3> QED
      BY <1>2, <3>1, <3>2, <3>3
  <2> QED
    BY <1>2, <2>1, OthersStay DEF Typed
<1>3. ASSUME NEW g \in Handlers, NEW r \in Requests, Receive(g, r)
      PROVE  pc'[h] = pc[h] /\ req'[h] = req[h]
  BY <1>1, <1>3 DEF Receive, Goto, TypeOK
<1>4. CASE Cli \/ UNCHANGED vars
  BY <1>1, <1>4 DEF Cli, CliWrite, CliDelete, vars, Underway
<1>5. ~Restart
  BY DEF Restart
<1> QED
  BY <1>1, <1>2, <1>3, <1>4, <1>5 DEF Next, Underway

\* A list asks about every name, a read or delete about one.
LEMMA AskedNames ==
  \A r \in Requests : r.op \in {"list", "read", "delete"} =>
    /\ Asked(r) \subseteq Names
    /\ r.op # "list" => Asked(r) = {r.name}
    /\ r.op = "list" => Asked(r) = Names
  BY DEF Asked, Requests

-----------------------------------------------------------------------------
(* The right file *)

\* What points at the file of a name goes on doing so.
LEMMA RightStays ==
  ASSUME TypeOK, RequestFits, [Next]_vars, NEW d \in Dirs, NEW k \in Names,
         NEW u \in UUIDs, file[d][u] \in {k, Gone}
  PROVE  file'[d][u] \in {k, Gone}
  BY FilesStay, SentinelsAssumption

\* The index is taken from a rebuild.
LEMMA StepEntriesRight ==
  ASSUME TypeOK, RequestFits, EntriesRight, NewRight, [Next]_vars
  PROVE  EntriesRight'
<1>1. entries' = entries \/ entries' = Empty \/ \E h \in Handlers : entries' = new[h]
  <2>1. ASSUME NEW g \in Handlers, Refresh(g)
        PROVE  entries' = entries \/ entries' = new[g]
    BY <2>1, RefreshKeeps DEF Install, index
  <2>2. ASSUME NEW g \in Handlers, Serve(g) PROVE entries' = entries
    BY <2>2 DEF Serve, ListNames, NoEntry, Entry, DecryptFile, Remove, Write,
                ChangeFails, Invalidate, Reply, index
  <2> QED
    BY <2>1, <2>2 DEF Next, Receive, Cli, CliWrite, CliDelete, Restart, index, vars
<1>2. ASSUME NEW d \in Dirs, NEW k \in Names, entries'[k] # None
      PROVE  file[d][entries'[k]] \in {k, Gone} /\ entries'[k] \in UUIDs
  <2>1. CASE entries' = entries
    BY <1>2, <2>1 DEF EntriesRight, TypeOK
  <2>2. CASE \E h \in Handlers : entries' = new[h]
    BY <1>2, <2>2 DEF NewRight, TypeOK
  <2>3. CASE entries' = Empty
    BY <1>2, <2>3 DEF Empty
  <2> QED
    BY <1>1, <2>1, <2>2, <2>3
<1> QED
  BY <1>2, RightStays DEF EntriesRight

\* A rebuild enters a file under the name inside.
LEMMA StepNewRight ==
  ASSUME OneDirectory, TypeOK, RequestFits, NewRight, [Next]_vars
  PROVE  NewRight'
<1> DEFINE Found(h, u) == /\ file[req[h].dir][u] \in Names
                          /\ new' = [new EXCEPT ![h][file[req[h].dir][u]] = u]
<1>1. ASSUME NEW h \in Handlers, NEW u \in UUIDs, IndexFile(h, u)
      PROVE  new' = new \/ (Found(h, u) /\ pc[h] = "build")
  BY <1>1 DEF IndexFile
<1>2. \/ new' = new
      \/ (\E h \in Handlers : new' = [new EXCEPT ![h] = Empty])
      \/ new' = [h \in Handlers |-> Empty]
      \/ \E h \in Handlers : \E u \in UUIDs : Found(h, u) /\ pc[h] = "build"
  <2> HIDE DEF Found
  <2> QED
    BY <1>1 DEF Next, Cli, Refresh, Serve, vars, directory, index, rebuild, answer,
         CliWrite, CliDelete, Restart, Receive, Stat, Check, FindRebuilt,
         StartRebuild, RefreshFails, Install, ListNames, NoEntry, Entry,
         DecryptFile, Remove, Write, ChangeFails, Invalidate, Reply, TypeOK
<1>3. ASSUME NEW d \in Dirs, NEW g \in Handlers, NEW k \in Names, new'[g][k] # None
      PROVE  file[d][new'[g][k]] \in {k, Gone} /\ new'[g][k] \in UUIDs
  <2>1. CASE new' = new
    BY <1>3, <2>1 DEF NewRight, TypeOK
  <2>2. CASE \E h \in Handlers : new' = [new EXCEPT ![h] = Empty]
    BY <1>3, <2>2 DEF NewRight, TypeOK, Empty
  <2>3. CASE new' = [h \in Handlers |-> Empty]
    BY <1>3, <2>3 DEF Empty
  <2>4. ASSUME NEW h \in Handlers, NEW u \in UUIDs, Found(h, u), pc[h] = "build"
        PROVE  file[d][new'[g][k]] \in {k, Gone} /\ new'[g][k] \in UUIDs
    <3>1. req[h].dir = d
      BY <2>4, HandlerRequest DEF OneDirectory
    <3>2. CASE g = h /\ k = file[d][u]
      BY <2>4, <3>1, <3>2 DEF TypeOK
    <3>3. CASE ~(g = h /\ k = file[d][u])
      <4>1. new'[g][k] = new[g][k]
        BY <2>4, <3>1, <3>3 DEF TypeOK
      <4> QED
        BY <4>1, <1>3 DEF NewRight, TypeOK
    <3> QED
      BY <3>2, <3>3
  <2> QED
    BY <1>2, <2>1, <2>2, <2>3, <2>4
<1> QED
  BY <1>3, RightStays DEF NewRight

\* A handler takes the file from the entry of its name, and other steps leave it
\* the file.
LEMMA StepRightFile ==
  ASSUME TypeOK, RequestFits, EntriesRight, RightFile, [Next]_vars
  PROVE  RightFile'
<1> DEFINE Looked(h) == /\ pc[h] = "entry" /\ req'[h] = req[h]
                        /\ uuid'[h] = entries[req[h].name] /\ uuid'[h] # None
                        /\ req[h].op # "list"
           Held(h) == /\ pc[h] \in {"decrypt", "remove"}
                      /\ req'[h] = req[h] /\ uuid'[h] = uuid[h]
<1>1. ASSUME NEW h \in Handlers, pc'[h] \in {"decrypt", "remove"}
      PROVE  Looked(h) \/ Held(h)
  <2>1. ASSUME NEW g \in Handlers, Entry(g) PROVE Looked(h) \/ Held(h)
    BY <1>1, <2>1 DEF Entry, Goto, TypeOK, Looked, Held
  <2>2. ASSUME NEW g \in Handlers, Refresh(g) PROVE Held(h)
    <3>1. RefreshFails(g) => pc'[h] = pc[h]
      BY <1>1 DEF RefreshFails, Answer, Goto, TypeOK
    <3>2. pc'[h] = pc[h]
      BY <1>1, <2>2, <3>1, RefreshSteps DEF Typed
    <3> QED
      BY <1>1, <2>2, <3>2, RefreshKeeps
  <2>3. ASSUME NEW g \in Handlers, Serve(g), ~Entry(g) PROVE Held(h)
    BY <1>1, <2>3 DEF Serve, ListNames, NoEntry, DecryptFile, Remove, Write,
                      ChangeFails, Invalidate, Reply, Answer, Goto, TypeOK
  <2>4. ASSUME NEW g \in Handlers, NEW r \in Requests, Receive(g, r) PROVE Held(h)
    BY <1>1, <2>4 DEF Receive, Goto, TypeOK
  <2>5. ASSUME Cli \/ Restart \/ UNCHANGED vars PROVE Held(h)
    BY <1>1, <2>5 DEF Cli, CliWrite, CliDelete, Restart, vars
  <2> HIDE DEF Looked, Held
  <2> QED
    BY <2>1, <2>2, <2>3, <2>4, <2>5 DEF Next
<1>2. ASSUME NEW h \in Handlers, pc'[h] \in {"decrypt", "remove"}
      PROVE  /\ req'[h] = req[h] /\ req[h].dir \in Dirs /\ req[h].name \in Names
             /\ uuid'[h] \in UUIDs
             /\ file[req[h].dir][uuid'[h]] \in {req[h].name, Gone}
  <2>1. CASE Looked(h)
    <3>1. req[h].dir \in Dirs /\ req[h].name \in Names
      BY <2>1, HandlerRequest, RequestFields
    <3> QED
      BY <2>1, <3>1 DEF EntriesRight, TypeOK
  <2>2. CASE Held(h)
    BY <2>2, HandlerRequest DEF RightFile
  <2> QED
    BY <1>1, <1>2, <2>1, <2>2
<1> QED
  BY <1>2, RightStays DEF RightFile

-----------------------------------------------------------------------------
(* Freshness *)

\* A change by the daemon is under way until the index is invalidated for it.
Shows(d) ==
    /\ mtime[d] <= mtime'[d]
    /\ \A u \in UUIDs, k \in Names :
        /\ file'[d][u] = k => file[d][u] = k \/ Underway(d, "write", k)'
        /\ file[d][u] = k => file'[d][u] = k \/ Underway(d, "delete", k)'

\* A write by the daemon makes a file for a name that it has under way,
LEMMA WriteShows ==
  ASSUME Typed, TimesPast, NEW h \in Handlers, Write(h), NEW d \in Dirs
  PROVE  Shows(d)
<1>0. pc[h] = "write" /\ req[h].op = "write"
  BY DEF Write, Typed, RequestFits
<1>a. req[h] \in Requests
  BY <1>0, HandlerRequest DEF Typed
<1>1. PICK e \in Dirs, n \in Names : e = req[h].dir /\ n = req[h].name
  BY <1>0, HandlerRequest DEF Typed
<1>2. PutSecret("daemon", e, n) /\ pc' = [pc EXCEPT ![h] = "invalidate"] /\ req' = req
  BY <1>1 DEF Write, Goto
<1>3. req[h] = [op |-> "write", dir |-> e, name |-> n]
  BY <1>0, <1>a, <1>1, RequestRecord
<1>4. Underway(e, "write", n)'
  BY <1>2, <1>3 DEF Underway, Typed, TypeOK
<1>5. mtime[d] <= mtime'[d]
  BY <1>1, <1>2 DEF PutSecret, Touch, Typed, TypeOK, TimesPast
<1>6. \/ file' = file
      \/ \E u \in UUIDs : file[e][u] = Unborn /\ file' = [file EXCEPT ![e][u] = n]
  BY <1>1, <1>2 DEF PutSecret
<1>7. ASSUME NEW u \in UUIDs, NEW k \in Names
      PROVE  /\ file'[d][u] = k => file[d][u] = k \/ Underway(d, "write", k)'
             /\ file[d][u] = k => file'[d][u] = k
  <2>1. file'[d][u] = file[d][u] \/ (d = e /\ file[d][u] = Unborn /\ file'[d][u] = n)
    <3>1. ASSUME NEW v \in UUIDs, file[e][v] = Unborn, file' = [file EXCEPT ![e][v] = n]
          PROVE  \/ file'[d][u] = file[d][u]
                 \/ d = e /\ file[d][u] = Unborn /\ file'[d][u] = n
      BY <1>1, <3>1 DEF Typed, TypeOK
    <3> QED
      BY <1>6, <3>1
  <2> QED
    BY <1>4, <2>1, SentinelsAssumption
<1> QED
  BY <1>5, <1>7 DEF Shows

\* and a delete removes the file of a name that it has under way.
LEMMA RemoveShows ==
  ASSUME Typed, TimesPast, RightFile, NEW h \in Handlers, Remove(h), NEW d \in Dirs
  PROVE  Shows(d)
<1>0. pc[h] = "remove" /\ req[h].op = "delete"
  BY DEF Remove, Typed, RequestFits
<1>a. req[h] \in Requests
  BY <1>0, HandlerRequest DEF Typed
<1>1. PICK e \in Dirs, n \in Names, f \in UUIDs :
         e = req[h].dir /\ n = req[h].name /\ f = uuid[h]
  BY <1>0, HandlerRequest DEF Typed
<1>2. RemoveFile("daemon", e, f) /\ pc' = [pc EXCEPT ![h] = "invalidate"] /\ req' = req
  BY <1>1 DEF Remove, Goto
<1>3. req[h] = [op |-> "delete", dir |-> e, name |-> n]
  BY <1>0, <1>a, <1>1, RequestRecord
<1>4. Underway(e, "delete", n)'
  BY <1>2, <1>3 DEF Underway, Typed, TypeOK
<1>5. mtime[d] <= mtime'[d]
  BY <1>1, <1>2 DEF RemoveFile, Touch, Typed, TypeOK, TimesPast
<1>6. file' = [file EXCEPT ![e][f] = Gone] /\ file[e][f] = n
  BY <1>0, <1>1, <1>2, SentinelsAssumption DEF RemoveFile, RightFile
<1>7. ASSUME NEW u \in UUIDs, NEW k \in Names
      PROVE  /\ file'[d][u] = k => file[d][u] = k
             /\ file[d][u] = k => file'[d][u] = k \/ Underway(d, "delete", k)'
  <2>1. file'[d][u] = file[d][u] \/ (d = e /\ file[d][u] = n /\ file'[d][u] = Gone)
    <3>1. CASE d = e /\ u = f
      BY <1>1, <1>6, <3>1 DEF Typed, TypeOK
    <3>2. CASE ~(d = e /\ u = f)
      BY <1>1, <1>6, <3>2 DEF Typed, TypeOK
    <3> QED
      BY <3>1, <3>2
  <2> QED
    BY <1>4, <2>1, SentinelsAssumption
<1> QED
  BY <1>5, <1>7 DEF Shows

\* A change by the CLI has a later time than any stat before it.
LEMMA CliMoves ==
  ASSUME OneDirectory, PreciseCli, Typed, TimesPast, Cli, NEW d \in Dirs
  PROVE  mtime'[d] > clock /\ UNCHANGED <<index, builder, pc, req, seen, rebuild>>
<1>1. ASSUME NEW e \in Dirs, Touch("cli", e)
      PROVE  mtime'[d] > clock
  <2>1. clock' = clock + 1 /\ d = e
    BY <1>1 DEF Touch, OneDirectory, PreciseCli
  <2> QED
    BY <1>1, <2>1, ClockAssumption DEF Touch, Typed, TypeOK
<1>2. \E e \in Dirs : Touch("cli", e)
  BY DEF Cli, CliWrite, CliDelete, PutSecret, RemoveFile
<1>3. UNCHANGED <<index, builder, pc, req, seen, rebuild>>
  BY DEF Cli, CliWrite, CliDelete
<1> QED
  BY <1>1, <1>2, <1>3

\* Every change in the directory that is not by the CLI is under way at once.
LEMMA ChangesShow ==
  ASSUME Typed, TimesPast, RightFile, [Next]_vars, ~Cli, NEW d \in Dirs
  PROVE  Shows(d)
<1>1. ASSUME UNCHANGED directory PROVE Shows(d)
  BY <1>1 DEF Shows, directory, Typed, TypeOK
<1>2. UNCHANGED directory \/ \E h \in Handlers : Write(h) \/ Remove(h)
  BY DEF Next, Refresh, Serve, vars, directory, index, rebuild, answer,
         CliWrite, CliDelete, Restart, Receive, Stat, Check, FindRebuilt,
         StartRebuild, RefreshFails, IndexFile, Install, ListNames, NoEntry, Entry,
         DecryptFile, ChangeFails, Invalidate, Reply
<1> QED
  BY <1>1, <1>2, WriteShows, RemoveShows

\* The index stays fresh, or a change is under way, or the directory has moved on.
LEMMA StepIndexFresh ==
  ASSUME OneDirectory, PreciseCli, Typed, TimesPast, RightFile, IndexFresh, BuildFresh,
         TypeOK', [Next]_vars
  PROVE  IndexFresh'
<1> SUFFICES ASSUME NEW d \in Dirs, NEW k \in Names, dirModTime' # 0,
                    mtime'[d] <= dirModTime'
             PROVE  /\ entries'[k] = None => Missing(d, k)' \/ Underway(d, "write", k)'
                    /\ entries'[k] # None =>
                          file'[d][entries'[k]] = k \/ Underway(d, "delete", k)'
  BY DEF IndexFresh, UpToDate
<1>1. ~Cli
  <2>1. dirModTime \in Nat /\ clock \in Nat /\ mtime'[d] \in Nat
    BY ClockAssumption DEF Typed, TypeOK
  <2> QED
    BY <2>1, CliMoves DEF index, TimesPast
<1>2. Shows(d)
  BY <1>1, ChangesShow
<1>3. /\ Underway(d, "write", k) => Underway(d, "write", k)'
      /\ Underway(d, "delete", k) => Underway(d, "delete", k)'
  BY UnderwayStays DEF Typed
<1>4. \/ entries' = entries /\ dirModTime' = dirModTime
      \/ \E h \in Handlers : Install(h)
  BY <1>1 DEF Next, Refresh, Serve, vars, directory, index, rebuild, answer,
         CliWrite, CliDelete, Restart, Receive, Stat, Check, FindRebuilt,
         StartRebuild, RefreshFails, IndexFile, ListNames, NoEntry, Entry,
         DecryptFile, Remove, Write, ChangeFails, Invalidate, Reply
<1>5. CASE entries' = entries /\ dirModTime' = dirModTime
  <2>1. UpToDate(mtime[d])
    BY <1>2, <1>5 DEF Shows, UpToDate, Typed, TypeOK
  <2>2. /\ entries[k] = None => Missing(d, k) \/ Underway(d, "write", k)
        /\ entries[k] # None => file[d][entries[k]] = k \/ Underway(d, "delete", k)
    BY <2>1 DEF IndexFresh
  <2> QED
    BY <1>2, <1>3, <1>5, <2>2 DEF Shows, HasName, Missing, Typed, TypeOK
<1>6. ASSUME NEW h \in Handlers, Install(h)
      PROVE  /\ entries'[k] = None => Missing(d, k)' \/ Underway(d, "write", k)'
             /\ entries'[k] # None =>
                   file'[d][entries'[k]] = k \/ Underway(d, "delete", k)'
  <2>1. /\ pc[h] = "build" /\ scan[h] = {} /\ mtime[d] <= seen[h]
        /\ entries' = new[h] /\ file' = file
    BY <1>6 DEF Install, directory
  <2>2. /\ new[h][k] = None => Underway(d, "write", k) \/ Missing(d, k)
        /\ new[h][k] # None => file[d][new[h][k]] = k \/ Underway(d, "delete", k)
    BY <2>1 DEF BuildFresh, HasName, Missing
  <2> QED
    BY <1>3, <2>1, <2>2 DEF HasName, Missing
<1> QED
  BY <1>4, <1>5, <1>6

\* What a step does to a rebuild.
LEMMA BuildSteps ==
  ASSUME Typed, Typed', [Next]_vars, NEW b \in Handlers, pc'[b] = "build"
  PROVE  \/ StartRebuild(b)
         \/ \E u \in UUIDs : IndexFile(b, u)
         \/ /\ pc[b] = "build" /\ seen'[b] = seen[b]
            /\ new'[b] = new[b] /\ scan'[b] = scan[b]
<1> DEFINE Same == /\ pc[b] = "build" /\ seen'[b] = seen[b]
                   /\ new'[b] = new[b] /\ scan'[b] = scan[b]
<1>1. builder' = b /\ b # None
  BY SentinelsAssumption DEF Typed, RequestFits
<1>2. ASSUME NEW h \in Handlers, StartRebuild(h) PROVE h = b
  BY <1>1, <1>2 DEF StartRebuild
<1>3. ASSUME NEW h \in Handlers, NEW u \in UUIDs, IndexFile(h, u) PROVE h = b \/ Same
  BY <1>3 DEF IndexFile, Typed, TypeOK
<1>4. \/ Same \/ (\E h \in Handlers : StartRebuild(h))
      \/ \E h \in Handlers : \E u \in UUIDs : IndexFile(h, u)
  BY <1>1
     DEF Next, Cli, Refresh, Serve, vars, directory, index, rebuild, answer,
         CliWrite, CliDelete, Restart, Receive, Stat, Check, FindRebuilt,
         RefreshFails, Install, ListNames, NoEntry, Entry, DecryptFile, Remove,
         Write, ChangeFails, Invalidate, Reply, Typed, TypeOK, Goto, Answer,
         Refreshed
<1> HIDE DEF Same
<1>5. Same \/ StartRebuild(b) \/ \E u \in UUIDs : IndexFile(b, u)
  BY <1>2, <1>3, <1>4
<1> QED
  BY <1>5 DEF Same

\* So does what a rebuild has found.
LEMMA StepBuildFresh ==
  ASSUME OneDirectory, PreciseCli, Typed, TimesPast, RightFile, BuildFresh,
         Typed', [Next]_vars
  PROVE  BuildFresh'
<1> SUFFICES ASSUME NEW d \in Dirs, NEW b \in Handlers, NEW k \in Names,
                    pc'[b] = "build", mtime'[d] <= seen'[b]
             PROVE  /\ new'[b][k] = None =>
                          \/ Underway(d, "write", k)'
                          \/ \A u \in UUIDs \ Flaky : file'[d][u] = k => u \in scan'[b]
                    /\ new'[b][k] # None =>
                          file'[d][new'[b][k]] = k \/ Underway(d, "delete", k)'
  BY DEF BuildFresh
<1>1. ~Cli
  <2>1. seen[b] \in Nat /\ clock \in Nat /\ mtime'[d] \in Nat
    BY ClockAssumption DEF Typed, TypeOK
  <2> QED
    BY <2>1, CliMoves DEF TimesPast
<1>2. Shows(d)
  BY <1>1, ChangesShow
<1>3. builder' = b /\ b # None
  BY SentinelsAssumption DEF Typed, RequestFits
<1>4. /\ Underway(d, "write", k) => Underway(d, "write", k)'
      /\ Underway(d, "delete", k) => Underway(d, "delete", k)'
  BY <1>3, UnderwayStays DEF Typed
<1>5. \/ /\ pc[b] = "build" /\ seen'[b] = seen[b]
         /\ new'[b] = new[b] /\ scan'[b] = scan[b]
      \/ StartRebuild(b)
      \/ \E u \in UUIDs : IndexFile(b, u)
  BY BuildSteps
<1>6. CASE /\ pc[b] = "build" /\ seen'[b] = seen[b]
           /\ new'[b] = new[b] /\ scan'[b] = scan[b]
  <2>1. mtime[d] <= seen[b]
    BY <1>2, <1>6 DEF Shows, Typed, TypeOK
  <2>2. /\ new[b][k] = None =>
              \/ Underway(d, "write", k)
              \/ \A u \in UUIDs \ Flaky : file[d][u] = k => u \in scan[b]
        /\ new[b][k] # None => file[d][new[b][k]] = k \/ Underway(d, "delete", k)
    BY <1>6, <2>1 DEF BuildFresh
  <2> QED
    BY <1>2, <1>4, <1>6, <2>2 DEF Shows, Typed, TypeOK
<1>7. CASE StartRebuild(b)
  <2>1. req[b].dir = d
    BY <1>7, HandlerRequest DEF StartRebuild, OneDirectory, Typed
  <2> QED
    BY <1>7, <2>1 DEF StartRebuild, Empty, directory, Typed, TypeOK
<1>8. ASSUME NEW u \in UUIDs, IndexFile(b, u)
      PROVE  /\ new'[b][k] = None =>
                   \/ Underway(d, "write", k)'
                   \/ \A v \in UUIDs \ Flaky : file'[d][v] = k => v \in scan'[b]
             /\ new'[b][k] # None =>
                   file'[d][new'[b][k]] = k \/ Underway(d, "delete", k)'
  <2>1. pc[b] = "build"
    BY <1>8 DEF IndexFile
  <2>2. req[b].dir = d
    BY <2>1, HandlerRequest DEF OneDirectory, Typed
  <2>3. scan'[b] = scan[b] \ {u} /\ file' = file /\ mtime[d] <= seen[b]
    BY <1>8 DEF IndexFile, directory, Typed, TypeOK
  <2>4. \/ file[d][u] = k /\ new'[b][k] = u
        \/ (file[d][u] = k => u \in Flaky) /\ new'[b][k] = new[b][k]
    BY <1>8, <2>2 DEF IndexFile, Typed, TypeOK
  <2>5. /\ new[b][k] = None =>
              \/ Underway(d, "write", k)
              \/ \A v \in UUIDs \ Flaky : file[d][v] = k => v \in scan[b]
        /\ new[b][k] # None => file[d][new[b][k]] = k \/ Underway(d, "delete", k)
    BY <2>1, <2>3 DEF BuildFresh
  <2>6. CASE file[d][u] = k /\ new'[b][k] = u
    BY <2>3, <2>6, SentinelsAssumption
  <2>7. CASE (file[d][u] = k => u \in Flaky) /\ new'[b][k] = new[b][k]
    BY <1>4, <2>3, <2>5, <2>7
  <2> QED
    BY <2>4, <2>6, <2>7
<1> QED
  BY <1>5, <1>6, <1>7, <1>8

-----------------------------------------------------------------------------
(* What has been so during a request *)

\* A handler that checks the index or is about to use it, and comes from where.
LEMMA CheckedSteps ==
  ASSUME Typed, [Next]_vars, NEW h \in Handlers, pc'[h] \in {"check", "wait", "entry"}
  PROVE  \/ Stat(h)
         \/ \E g \in Handlers :
               Install(g) /\ (g = h \/ (pc'[h] = pc[h] /\ seen'[h] = seen[h]))
         \/ /\ entries' = entries /\ dirModTime' \in {dirModTime, 0}
            /\ \/ pc[h] \in {"check", "wait"} /\ UpToDate(seen[h]) /\ pc'[h] = "entry"
               \/ pc[h] \in {"check", "wait"} /\ pc'[h] # "entry" /\ seen'[h] = seen[h]
               \/ pc[h] = "entry" /\ pc'[h] = "entry"
<1> DEFINE Kept == /\ entries' = entries /\ dirModTime' \in {dirModTime, 0}
                   /\ \/ /\ pc[h] \in {"check", "wait"} /\ UpToDate(seen[h])
                         /\ pc'[h] = "entry"
                      \/ /\ pc[h] \in {"check", "wait"} /\ pc'[h] # "entry"
                         /\ seen'[h] = seen[h]
                      \/ pc[h] = "entry" /\ pc'[h] = "entry"
           Installed == \E g \in Handlers :
                  Install(g) /\ (g = h \/ (pc'[h] = pc[h] /\ seen'[h] = seen[h]))
<1>1. ASSUME NEW g \in Handlers, Stat(g) PROVE g = h \/ Kept
  BY <1>1 DEF Stat, Goto, index, Typed, TypeOK
<1>2. ASSUME NEW g \in Handlers, Install(g) PROVE Installed
  BY <1>2 DEF Install, Refreshed, Goto, Typed, TypeOK
<1>3. ASSUME NEW g \in Handlers, Check(g) PROVE Kept
  <2>1. /\ pc[g] = "check" /\ entries' = entries /\ dirModTime' = dirModTime
        /\ \/ /\ UpToDate(seen[g]) /\ seen' = [seen EXCEPT ![g] = 0]
              /\ pc' = [pc EXCEPT ![g] = "entry"]
           \/ seen' = seen /\ pc' = [pc EXCEPT ![g] = "wait"]
    BY <1>3, CheckCases DEF Refreshed, Goto, index
  <2> QED
    BY <2>1 DEF Typed, TypeOK
<1>4. ASSUME NEW g \in Handlers, FindRebuilt(g) PROVE Kept
  BY <1>4 DEF FindRebuilt, Refreshed, Goto, index, Typed, TypeOK
<1>5. ASSUME NEW g \in Handlers, \/ StartRebuild(g) \/ RefreshFails(g) \/ Serve(g)
                                 \/ \E u \in UUIDs : IndexFile(g, u)
      PROVE  Kept
  <2>1. entries' = entries /\ dirModTime' \in {dirModTime, 0}
    BY <1>5 DEF StartRebuild, RefreshFails, IndexFile, Serve, ListNames, NoEntry, Entry,
                DecryptFile, Remove, Write, ChangeFails, Invalidate, Reply, index
  <2>2. pc'[g] \notin {"check", "wait", "entry"}
    BY <1>5 DEF StartRebuild, RefreshFails, IndexFile, Serve, ListNames, NoEntry, Entry,
                DecryptFile, Remove, Write, ChangeFails, Invalidate, Reply, Answer, Goto,
                Typed, TypeOK
  <2>3. pc'[h] = pc[h] /\ seen'[h] = seen[h]
    BY <1>5, <2>2, OthersStay DEF Refresh
  <2> QED
    BY <2>1, <2>3
<1>6. ASSUME NEW g \in Handlers, NEW r \in Requests, Receive(g, r) PROVE Kept
  BY <1>6 DEF Receive, Goto, index, Typed, TypeOK
<1>7. ASSUME Cli \/ Restart \/ UNCHANGED vars PROVE Kept
  BY <1>7 DEF Cli, CliWrite, CliDelete, Restart, index, vars
<1> HIDE DEF Kept, Installed
<1>8. Kept \/ Stat(h) \/ Installed
  BY <1>1, <1>2, <1>3, <1>4, <1>5, <1>6, <1>7 DEF Next, Refresh
<1> QED
  BY <1>8 DEF Kept, Installed

\* Only an answered request is forgotten, and what it asks stays the same.
LEMMA RequestStays ==
  ASSUME Typed, [Next]_vars, NEW h \in Handlers, pc[h] # "idle", pc'[h] # "idle"
  PROVE  req'[h] = req[h] /\ req[h] \in Requests /\ (pc[h] = "reply" => pc'[h] = "reply")
<1>1. req[h] \in Requests
  BY HandlerRequest DEF Typed
<1>2. ASSUME NEW g \in Handlers, Refresh(g) \/ Serve(g)
      PROVE  req'[h] = req[h] /\ (pc[h] = "reply" => pc'[h] = "reply")
  <2>1. CASE g = h
    <3>1. ~Reply(h)
      BY DEF Reply, Goto, Typed, TypeOK
    <3> QED
      BY <1>2, <2>1, <3>1, OthersStay
  <2>2. CASE g # h
    BY <1>2, <2>2, OthersStay
  <2> QED
    BY <2>1, <2>2
<1>3. ASSUME NEW g \in Handlers, NEW r \in Requests, Receive(g, r)
      PROVE  req'[h] = req[h] /\ (pc[h] = "reply" => pc'[h] = "reply")
  BY <1>3 DEF Receive, Goto, Typed, TypeOK
<1>4. CASE Cli \/ Restart \/ UNCHANGED vars
  BY <1>1, <1>4 DEF Cli, CliWrite, CliDelete, Restart, vars
<1> QED
  BY <1>1, <1>2, <1>3, <1>4 DEF Next

\* Every step lets the requests not yet answered say what has become true.
LEMMA Observed == ASSUME [Next]_vars PROVE Observe \/ UNCHANGED vars
  BY DEF Next, Cli, Refresh, Serve,
         CliWrite, CliDelete, Restart, Receive, Stat, Check, FindRebuilt,
         StartRebuild, RefreshFails, IndexFile, Install, ListNames, NoEntry, Entry,
         DecryptFile, Remove, Write, ChangeFails, Invalidate, Reply

\* What could be answered can still be.
LEMMA StillSaid ==
  ASSUME Typed, [Next]_vars, NEW h \in Handlers, pc[h] # "idle", pc'[h] # "idle"
  PROVE  could[h] \subseteq could'[h]
<1>1. req'[h] # None
  BY RequestStays, RequestFields
<1> QED
  BY <1>1, Observed, SaidStays DEF vars

\* A handler that uses the index may answer what it says: the index was fresh at
\* its stat or has been built after it.
LEMMA StepIndexSaid ==
  ASSUME OneDirectory, Typed, IndexFresh, IndexSaid, BuildSaid, Typed', [Next]_vars
  PROVE  IndexSaid'
<1> SUFFICES ASSUME NEW h \in Handlers,
                    \/ pc'[h] = "entry"
                    \/ pc'[h] \in {"check", "wait"} /\ UpToDate(seen[h])',
                    NEW k \in Asked(req'[h])
             PROVE  /\ entries'[k] = None => <<k, FALSE>> \in could'[h]
                    /\ entries'[k] # None => <<k, TRUE>> \in could'[h]
  BY DEF IndexSaid
<1>1. pc'[h] \in {"check", "wait", "entry"}
  OBVIOUS
<1>2. /\ \/ Stat(h)
         \/ \E g \in Handlers :
               Install(g) /\ (g = h \/ (pc'[h] = pc[h] /\ seen'[h] = seen[h]))
         \/ /\ entries' = entries /\ dirModTime' \in {dirModTime, 0}
            /\ \/ pc[h] \in {"check", "wait"} /\ UpToDate(seen[h]) /\ pc'[h] = "entry"
               \/ pc[h] \in {"check", "wait"} /\ pc'[h] # "entry" /\ seen'[h] = seen[h]
               \/ pc[h] = "entry" /\ pc'[h] = "entry"
  BY <1>1, CheckedSteps
<1>3. pc[h] # "idle"
  BY <1>1, <1>2 DEF Stat, Install
<1>4. req'[h] = req[h] /\ req[h] \in Requests /\ pc[h] # "reply"
  BY <1>1, <1>3, RequestStays
<1>5. could[h] \subseteq could'[h]
  BY <1>1, <1>3, StillSaid
<1>6. k \in Asked(req[h]) /\ k \in Names
  BY <1>1, <1>4, AskedNames DEF Typed, RequestFits
<1>7. CASE Stat(h)
  <2>1. PICK d \in Dirs : d = req'[h].dir
    BY <1>4, RequestFields
  <2>2. /\ seen'[h] = mtime[d] /\ dirModTime' = dirModTime /\ entries' = entries
        /\ file' = file /\ pc'[h] = "check" /\ pc[h] = "stat" /\ Observe
    BY <1>4, <1>7, <2>1 DEF Stat, Goto, index, directory, Typed, TypeOK
  <2>3. UpToDate(mtime[d])
    BY <2>2 DEF UpToDate
  <2>4. Underway(d, "write", k) => Underway(d, "write", k)'
    BY <2>2, <2>3, UnderwayStays DEF Typed, UpToDate
  <2>5. Underway(d, "delete", k) => Underway(d, "delete", k)'
    BY <2>2, <2>3, UnderwayStays DEF Typed, UpToDate
  <2>6. /\ entries[k] = None => Missing(d, k) \/ Underway(d, "write", k)
        /\ entries[k] # None => file[d][entries[k]] = k \/ Underway(d, "delete", k)
    BY <1>6, <2>3 DEF IndexFresh
  <2>7. entries[k] \in UUIDs \cup {None}
    BY <1>6 DEF Typed, TypeOK
  <2>8. /\ entries[k] = None => Missing(d, k)' \/ Underway(d, "write", k)'
        /\ entries[k] # None => HasName(d, k)' \/ Underway(d, "delete", k)'
    BY <2>2, <2>4, <2>5, <2>6, <2>7 DEF HasName, Missing
  <2>9. req'[h] # None
    BY <1>4, RequestFields
  <2> QED
    BY <1>4, <1>6, <2>1, <2>2, <2>8, <2>9, NowSaid
<1>8. ASSUME NEW g \in Handlers, Install(g),
             g = h \/ (pc'[h] = pc[h] /\ seen'[h] = seen[h])
      PROVE  /\ entries'[k] = None => <<k, FALSE>> \in could'[h]
             /\ entries'[k] # None => <<k, TRUE>> \in could'[h]
  <2>1. pc[g] = "build" /\ scan[g] = {} /\ entries' = new[g] /\ dirModTime' = seen[g]
    BY <1>8 DEF Install
  <2>2. Waits(h, seen[g])
    <3>1. CASE g = h
      BY <2>1, <3>1 DEF Waits, Typed, TypeOK
    <3>2. CASE pc'[h] = pc[h] /\ seen'[h] = seen[h]
      BY <1>1, <2>1, <3>2 DEF Waits, UpToDate
    <3> QED
      BY <1>8, <3>1, <3>2
  <2> QED
    BY <1>5, <1>6, <2>1, <2>2 DEF BuildSaid
<1>9. CASE /\ entries' = entries /\ dirModTime' \in {dirModTime, 0}
           /\ \/ pc[h] \in {"check", "wait"} /\ UpToDate(seen[h]) /\ pc'[h] = "entry"
              \/ pc[h] \in {"check", "wait"} /\ pc'[h] # "entry" /\ seen'[h] = seen[h]
              \/ pc[h] = "entry" /\ pc'[h] = "entry"
  <2>1. pc[h] = "entry" \/ (pc[h] \in {"check", "wait"} /\ UpToDate(seen[h]))
    BY <1>9 DEF UpToDate
  <2> QED
    BY <1>5, <1>6, <1>9, <2>1 DEF IndexSaid
<1> QED
  BY <1>2, <1>7, <1>8, <1>9

\* While another handler rebuilds, one that waits for it can only stat anew.
LEMMA WaitSteps ==
  ASSUME Typed, Typed', [Next]_vars, NEW b \in Handlers, NEW h \in Handlers,
         pc[b] = "build", pc'[b] = "build", pc'[h] \in {"check", "wait", "build", "entry"}
  PROVE  Stat(h) \/ (pc'[h] = pc[h] /\ seen'[h] = seen[h])
<1> DEFINE Same == pc'[h] = pc[h] /\ seen'[h] = seen[h]
<1>1. builder' = b /\ builder = b /\ b # None
  BY SentinelsAssumption DEF Typed, RequestFits
<1>2. ASSUME NEW g \in Handlers, Stat(g) PROVE g = h \/ Same
  BY <1>2 DEF Stat, Goto, Typed, TypeOK
<1>3. ASSUME NEW g \in Handlers
      PROVE  ~Check(g) /\ ~FindRebuilt(g) /\ ~Install(g) /\ ~StartRebuild(g)
  BY <1>1 DEF Check, FindRebuilt, Install, StartRebuild
<1>4. ASSUME NEW g \in Handlers, Refresh(g) \/ Serve(g) PROVE Same \/ Stat(g)
  <2>1. CASE g = h
    <3>1. ~Serve(h) /\ ~RefreshFails(h)
      BY DEF Serve, RefreshFails, ListNames, NoEntry, Entry, DecryptFile, Remove, Write,
             ChangeFails, Invalidate, Reply, Answer, Goto, Typed, TypeOK
    <3> QED
      BY <1>3, <1>4, <2>1, <3>1 DEF Refresh, IndexFile
  <2>2. CASE g # h
    BY <1>4, <2>2, OthersStay
  <2> QED
    BY <2>1, <2>2
<1>5. ASSUME NEW g \in Handlers, NEW r \in Requests, Receive(g, r) PROVE Same
  BY <1>5 DEF Receive, Goto, Typed, TypeOK
<1>6. ASSUME Cli \/ Restart \/ UNCHANGED vars PROVE Same
  BY <1>6 DEF Cli, CliWrite, CliDelete, Restart, vars
<1> HIDE DEF Same
<1>7. Same \/ Stat(h)
  BY <1>2, <1>4, <1>5, <1>6 DEF Next
<1> QED
  BY <1>7 DEF Same

\* What a rebuild finds could be answered by all that wait for it: it found a file
\* while they waited, or they have stat'ed the directory since and it was fresh.
LEMMA ObservedBuildSaid ==
  ASSUME OneDirectory, Typed, OneFilePerName, BuildFresh, BuildSaid,
         Typed', OneFilePerName', BuildFresh', [Next]_vars, Observe
  PROVE  BuildSaid'
<1> SUFFICES ASSUME NEW b \in Handlers, NEW h \in Handlers, pc'[b] = "build",
                    Waits(h, seen[b])', NEW k \in Asked(req'[h])
             PROVE  /\ new'[b][k] = None /\ (\A d \in Dirs :
                          \A u \in scan'[b] \ Flaky : file'[d][u] # k)
                          => <<k, FALSE>> \in could'[h]
                    /\ new'[b][k] # None => <<k, TRUE>> \in could'[h]
  BY DEF BuildSaid
<1> DEFINE Unseen == \A d \in Dirs : \A u \in scan[b] \ Flaky : file[d][u] # k
           Unseen1 == \A d \in Dirs : \A u \in scan'[b] \ Flaky : file'[d][u] # k
<1>1. pc'[h] \in {"check", "wait", "build", "entry"}
  BY DEF Waits
<1>2. req'[h] \in Requests /\ k \in Names
  BY <1>1, AskedNames, HandlerRequest DEF Typed, TypeOK, RequestFits
<1>3. PICK d \in Dirs : d = req'[h].dir
  BY <1>2, RequestFields
<1>4. \A e \in Dirs : e = d
  BY DEF OneDirectory
<1>5. pc[h] # "idle"
  <2>1. ASSUME NEW g \in Handlers, NEW r \in Requests, Receive(g, r)
        PROVE  pc'[h] = pc[h] \/ pc'[h] \in {"write", "stat"}
    BY <2>1 DEF Receive, Goto, Typed, TypeOK
  <2>2. ASSUME NEW g \in Handlers, Refresh(g) \/ Serve(g), pc[h] = "idle"
        PROVE  pc'[h] = "idle"
    BY <2>2, OthersStay
  <2>3. ASSUME Cli \/ Restart \/ UNCHANGED vars, pc[h] = "idle"
        PROVE  pc'[h] = "idle"
    BY <2>3 DEF Cli, CliWrite, CliDelete, Restart, vars
  <2> QED
    BY <1>1, <2>1, <2>2, <2>3 DEF Next
<1>6. req'[h] = req[h] /\ pc[h] # "reply" /\ req'[h] # None
  BY <1>1, <1>2, <1>5, RequestStays, RequestFields
<1>7. could[h] \subseteq could'[h]
  BY <1>1, <1>5, StillSaid
<1>8. /\ HasName(d, k)' \/ Underway(d, "delete", k)' => <<k, TRUE>> \in could'[h]
      /\ Missing(d, k)' \/ Underway(d, "write", k)' => <<k, FALSE>> \in could'[h]
  BY <1>2, <1>3, <1>6, NowSaid
<1>10. CASE StartRebuild(b)
  <2>1. new'[b][k] = None /\ \A u \in UUIDs \ Flaky : file'[d][u] = k => u \in scan'[b]
    <3>1. req[b].dir = d
      BY <1>4, <1>10, HandlerRequest DEF StartRebuild, Typed
    <3> QED
      BY <1>2, <1>10, <3>1 DEF StartRebuild, Empty, directory, Typed, TypeOK
  <2>2. Unseen1 => Missing(d, k)'
    BY <2>1 DEF Missing
  <2> QED
    BY <1>8, <2>1, <2>2
<1>11. ASSUME NEW u \in UUIDs, IndexFile(b, u)
       PROVE  /\ new'[b][k] = None /\ Unseen1 => <<k, FALSE>> \in could'[h]
              /\ new'[b][k] # None => <<k, TRUE>> \in could'[h]
  <2>1. pc[b] = "build" /\ pc' = pc /\ seen' = seen /\ file' = file
        /\ scan'[b] = scan[b] \ {u}
    BY <1>11 DEF IndexFile, directory, Typed, TypeOK
  <2>2. req[b].dir = d
    BY <1>4, <2>1, HandlerRequest DEF Typed
  <2>3. \/ file[d][u] = k /\ new'[b][k] = u
        \/ (file[d][u] = k => u \in Flaky) /\ new'[b][k] = new[b][k]
    BY <1>2, <1>11, <2>2 DEF IndexFile, Typed, TypeOK
  <2>4. CASE file[d][u] = k /\ new'[b][k] = u
    <3>1. HasName(d, k)'
      BY <2>1, <2>4 DEF HasName
    <3> QED
      BY <1>8, <2>4, <3>1, SentinelsAssumption
  <2>5. CASE (file[d][u] = k => u \in Flaky) /\ new'[b][k] = new[b][k]
    <3>1. Waits(h, seen[b])
      BY <2>1 DEF Waits
    <3>2. Unseen1 => Unseen
      BY <1>4, <2>1, <2>5
    <3>3. k \in Asked(req[h])
      BY <1>6
    <3>4. /\ new[b][k] = None /\ Unseen => <<k, FALSE>> \in could[h]
          /\ new[b][k] # None => <<k, TRUE>> \in could[h]
      BY <2>1, <3>1, <3>3 DEF BuildSaid
    <3> HIDE DEF Unseen, Unseen1
    <3> QED
      BY <1>7, <2>5, <3>2, <3>4
  <2> QED
    BY <2>3, <2>4, <2>5
<1>12. CASE /\ pc[b] = "build" /\ seen'[b] = seen[b]
            /\ new'[b] = new[b] /\ scan'[b] = scan[b]
  <2>1. CASE Stat(h)
    <3>1. mtime'[d] <= seen'[b]
      <4>1. seen'[h] = mtime'[d] /\ pc'[h] = "check"
        BY <1>3, <1>6, <2>1 DEF Stat, Goto, directory, Typed, TypeOK
      <4> QED
        BY <4>1 DEF Waits
    <3>2. /\ new'[b][k] = None =>
                \/ Underway(d, "write", k)'
                \/ \A u \in UUIDs \ Flaky : file'[d][u] = k => u \in scan'[b]
          /\ new'[b][k] # None =>
                file'[d][new'[b][k]] = k \/ Underway(d, "delete", k)'
      BY <1>2, <3>1 DEF BuildFresh
    <3>3. new'[b][k] \in UUIDs \cup {None}
      BY <1>2 DEF Typed, TypeOK
    <3>4. new'[b][k] # None => HasName(d, k)' \/ Underway(d, "delete", k)'
      BY <3>2, <3>3 DEF HasName
    <3>5. new'[b][k] = None /\ Unseen1 => Missing(d, k)' \/ Underway(d, "write", k)'
      BY <3>2 DEF Missing
    <3> QED
      BY <1>8, <3>4, <3>5
  <2>2. CASE pc'[h] = pc[h] /\ seen'[h] = seen[h]
    <3>1. Waits(h, seen[b]) /\ k \in Asked(req[h])
      BY <1>6, <1>12, <2>2 DEF Waits
    <3>2. /\ new[b][k] = None /\ Unseen => <<k, FALSE>> \in could[h]
          /\ new[b][k] # None => <<k, TRUE>> \in could[h]
      BY <1>12, <3>1 DEF BuildSaid
    <3>3. Unseen1 => Unseen \/ Missing(d, k)'
      <4> SUFFICES ASSUME NEW u \in scan[b] \ Flaky, NEW v \in UUIDs \ Flaky, Unseen1,
                          file[d][u] = k, file'[d][v] = k
                   PROVE  FALSE
        BY <1>4 DEF Missing
      <4>1. u \in UUIDs /\ file'[d][u] # k /\ u # v
        BY <1>12 DEF Typed, TypeOK
      <4>2. file[d][v] = k
        <5>1. ~Missing(d, k)
          BY <4>1 DEF Missing
        <5>2. ASSUME NEW e \in Dirs, NEW n \in Names, NEW w \in UUIDs, Missing(e, n),
                     file' = [file EXCEPT ![e][w] = n]
              PROVE  file[d][v] = k
          BY <1>2, <1>4, <5>1, <5>2, SentinelsAssumption DEF Typed, TypeOK
        <5>3. ASSUME NEW e \in Dirs, NEW w \in UUIDs, file' = [file EXCEPT ![e][w] = Gone]
              PROVE  file[d][v] = k
          BY <1>2, <5>3, SentinelsAssumption DEF Typed, TypeOK
        <5> QED
          BY <5>2, <5>3, FileChange DEF Typed
      <4> QED
        BY <1>2, <4>1, <4>2 DEF OneFilePerName
    <3> HIDE DEF Unseen, Unseen1
    <3>4. new'[b][k] # None => <<k, TRUE>> \in could'[h]
      BY <1>7, <1>12, <3>2
    <3>5. new'[b][k] = None /\ Unseen1 => <<k, FALSE>> \in could'[h]
      <4>1. Unseen1 => Unseen \/ <<k, FALSE>> \in could'[h]
        BY <1>8, <3>3
      <4> QED
        BY <1>7, <1>12, <3>2, <4>1
    <3> QED
      BY <3>4, <3>5 DEF Unseen1
  <2> QED
    BY <1>1, <1>12, <2>1, <2>2, WaitSteps
<1> QED
  BY <1>10, <1>11, <1>12, BuildSteps

\* The same for steps that change nothing.
LEMMA StepBuildSaid ==
  ASSUME OneDirectory, Typed, OneFilePerName, BuildFresh, BuildSaid,
         Typed', OneFilePerName', BuildFresh', [Next]_vars
  PROVE  BuildSaid'
<1>1. CASE UNCHANGED vars
  <2>1. UNCHANGED <<pc, seen, new, scan, file, req, could>>
    BY <1>1 DEF vars, directory, rebuild
  <2> SUFFICES ASSUME NEW b \in Handlers, NEW h \in Handlers, pc'[b] = "build",
                      Waits(h, seen[b])', NEW k \in Asked(req'[h])
               PROVE  /\ new'[b][k] = None /\ (\A d \in Dirs :
                            \A u \in scan'[b] \ Flaky : file'[d][u] # k)
                            => <<k, FALSE>> \in could'[h]
                      /\ new'[b][k] # None => <<k, TRUE>> \in could'[h]
    BY DEF BuildSaid
  <2>2. Waits(h, seen[b]) /\ k \in Asked(req[h]) /\ pc[b] = "build"
    BY <2>1 DEF Waits
  <2>3. /\ new[b][k] = None /\ (\A d \in Dirs : \A u \in scan[b] \ Flaky : file[d][u] # k)
               => <<k, FALSE>> \in could[h]
        /\ new[b][k] # None => <<k, TRUE>> \in could[h]
    BY <2>2 DEF BuildSaid
  <2> QED
    BY <2>1, <2>3
<1>2. CASE Observe
  BY <1>2, ObservedBuildSaid
<1> QED
  BY <1>1, <1>2, Observed

-----------------------------------------------------------------------------
(* Answers *)

\* A read has found the name in the index.
LEMMA StepDecryptSaid ==
  ASSUME Typed, IndexSaid, DecryptSaid, [Next]_vars
  PROVE  DecryptSaid'
<1> SUFFICES ASSUME NEW h \in Handlers, pc'[h] = "decrypt"
             PROVE  <<req'[h].name, TRUE>> \in could'[h]
  BY DEF DecryptSaid
<1> DEFINE Looked == /\ pc[h] = "entry" /\ req[h].op = "read"
                     /\ entries[req[h].name] # None
<1>1. Looked \/ pc[h] = "decrypt"
  <2>1. ASSUME NEW g \in Handlers, Entry(g) PROVE Looked \/ pc[h] = "decrypt"
    BY <2>1 DEF Entry, Goto, Typed, TypeOK
  <2>2. ASSUME NEW g \in Handlers, Refresh(g) PROVE pc[h] = "decrypt"
    <3>1. CASE RefreshFails(g)
      BY <3>1 DEF RefreshFails, Answer, Goto, Typed, TypeOK
    <3> QED
      BY <2>2, <3>1, RefreshSteps
  <2> HIDE DEF Looked
  <2> QED
    BY <2>1, <2>2
       DEF Next, Cli, Serve, vars, CliWrite, CliDelete, Restart, Receive, ListNames,
           NoEntry, DecryptFile, Remove, Write, ChangeFails, Invalidate, Reply, Typed,
           TypeOK, Goto, Answer
<1>2. pc[h] # "idle"
  BY <1>1
<1>3. req'[h] = req[h] /\ req[h] \in Requests /\ could[h] \subseteq could'[h]
  BY <1>2, RequestStays, StillSaid
<1>4. CASE Looked
  <2>1. req[h].name \in Asked(req[h])
    BY <1>3, <1>4, AskedNames
  <2> QED
    BY <1>3, <1>4, <2>1 DEF IndexSaid
<1> QED
  BY <1>1, <1>3, <1>4 DEF DecryptSaid

\* A handler answers by an error, a list, a missing entry, a file, or the end
\* of a change.
LEMMA AnswerSteps ==
  ASSUME Typed, [Next]_vars, NEW h \in Handlers, pc'[h] = "reply"
  PROVE  \/ reply'[h] = "error" \/ ListNames(h) \/ NoEntry(h) \/ DecryptFile(h)
         \/ Invalidate(h)
         \/ pc[h] = "reply" /\ reply'[h] = reply[h] /\ names'[h] = names[h]
<1> DEFINE Same == pc[h] = "reply" /\ reply'[h] = reply[h] /\ names'[h] = names[h]
           Failed == reply'[h] = "error"
<1>1. ASSUME NEW g \in Handlers, ListNames(g) PROVE g = h \/ Same
  BY <1>1 DEF ListNames, Answer, Goto, Typed, TypeOK
<1>2. ASSUME NEW g \in Handlers, NoEntry(g) PROVE g = h \/ Same
  BY <1>2 DEF NoEntry, Answer, Goto, Typed, TypeOK
<1>3. ASSUME NEW g \in Handlers, DecryptFile(g) PROVE g = h \/ Same
  BY <1>3 DEF DecryptFile, Answer, Goto, Typed, TypeOK
<1>4. ASSUME NEW g \in Handlers, Invalidate(g) PROVE g = h \/ Same
  BY <1>4 DEF Invalidate, Answer, Goto, Typed, TypeOK
<1>5. ASSUME NEW g \in Handlers, RefreshFails(g) \/ ChangeFails(g) PROVE Same \/ Failed
  BY <1>5 DEF RefreshFails, ChangeFails, Answer, Goto, answer, Typed, TypeOK
<1>6. ASSUME NEW g \in Handlers, Refresh(g) PROVE Same \/ RefreshFails(g)
  BY <1>6, RefreshSteps DEF answer
<1>7. \/ Same
      \/ \E g \in Handlers : \/ ListNames(g) \/ NoEntry(g) \/ DecryptFile(g)
                             \/ Invalidate(g) \/ RefreshFails(g) \/ ChangeFails(g)
  <2>1. CASE Cli \/ Restart \/ UNCHANGED vars
    BY <2>1 DEF Cli, CliWrite, CliDelete, Restart, answer, vars
  <2>2. ASSUME NEW g \in Handlers, \/ \E r \in Requests : Receive(g, r)
                                   \/ Entry(g) \/ Remove(g) \/ Write(g) \/ Reply(g)
        PROVE  Same
    BY <2>2 DEF Receive, Entry, Remove, Write, Reply, Goto, answer, Typed, TypeOK
  <2> HIDE DEF Same
  <2> QED
    BY <1>6, <2>1, <2>2 DEF Next, Serve
<1> HIDE DEF Same, Failed
<1>8. \/ Same \/ Failed \/ ListNames(h) \/ NoEntry(h) \/ DecryptFile(h) \/ Invalidate(h)
  BY <1>1, <1>2, <1>3, <1>4, <1>5, <1>7
<1> QED
  BY <1>8 DEF Same, Failed

\* Handlers answer what the index said, and what they have answered stays.
LEMMA StepAnswersCurrent ==
  ASSUME Typed, IndexSaid, DecryptSaid, AnswersCurrent, [Next]_vars
  PROVE  AnswersCurrent'
<1> DEFINE Right(h) ==
             /\ reply[h] = "notfound" => <<req[h].name, FALSE>> \in could[h]
             /\ reply[h] = "ok" /\ req[h].op = "read" =>
                   <<req[h].name, TRUE>> \in could[h]
             /\ reply[h] = "ok" /\ req[h].op = "list" =>
                   \A k \in Names : <<k, k \in names[h]>> \in could[h]
<1> SUFFICES ASSUME NEW h \in Handlers, pc'[h] = "reply" PROVE Right(h)'
  BY DEF AnswersCurrent
<1>1. pc[h] # "idle" =>
        req'[h] = req[h] /\ req[h] \in Requests /\ could[h] \subseteq could'[h]
  BY RequestStays, StillSaid
<1>2. CASE reply'[h] = "error"
  BY <1>2
<1>3. CASE ListNames(h)
  <2>1. /\ pc[h] = "entry" /\ req[h].op = "list" /\ reply'[h] = "ok"
        /\ names'[h] = {k \in Names : entries[k] # None}
    BY <1>3 DEF ListNames, Answer, Typed, TypeOK
  <2>2. Asked(req[h]) = Names
    BY <1>1, <2>1, AskedNames
  <2>3. ASSUME NEW k \in Names PROVE <<k, k \in names'[h]>> \in could[h]
    <3>1. /\ entries[k] = None => <<k, FALSE>> \in could[h]
          /\ entries[k] # None => <<k, TRUE>> \in could[h]
      BY <2>1, <2>2 DEF IndexSaid
    <3>2. CASE entries[k] = None
      <4>1. (k \in names'[h]) = FALSE
        BY <2>1, <3>2
      <4> QED
        BY <3>1, <3>2, <4>1
    <3>3. CASE entries[k] # None
      <4>1. (k \in names'[h]) = TRUE
        BY <2>1, <3>3
      <4> QED
        BY <3>1, <3>3, <4>1
    <3> QED
      BY <3>2, <3>3
  <2> QED
    BY <1>1, <2>1, <2>3
<1>4. CASE NoEntry(h)
  <2>1. /\ pc[h] = "entry" /\ req[h].op \in {"read", "delete"} /\ reply'[h] = "notfound"
        /\ entries[req[h].name] = None
    BY <1>4 DEF NoEntry, Answer, Typed, TypeOK
  <2>2. req[h].name \in Asked(req[h])
    BY <1>1, <2>1, AskedNames
  <2> QED
    BY <1>1, <2>1, <2>2 DEF IndexSaid
<1>5. CASE DecryptFile(h)
  <2>1. pc[h] = "decrypt" /\ req[h].op = "read" /\ reply'[h] \in {"ok", "error"}
    BY <1>5 DEF DecryptFile, Answer, Typed, TypeOK, RequestFits
  <2> QED
    BY <1>1, <2>1 DEF DecryptSaid
<1>6. CASE Invalidate(h)
  <2>1. pc[h] = "invalidate" /\ req[h].op \in {"write", "delete"} /\ reply'[h] = "ok"
    BY <1>6 DEF Invalidate, Answer, Typed, TypeOK, RequestFits
  <2> QED
    BY <1>1, <2>1
<1>7. CASE pc[h] = "reply" /\ reply'[h] = reply[h] /\ names'[h] = names[h]
  <2>1. Right(h)
    BY <1>7 DEF AnswersCurrent
  <2> QED
    BY <1>1, <1>7, <2>1
<1> QED
  BY <1>2, <1>3, <1>4, <1>5, <1>6, <1>7, AnswerSteps

-----------------------------------------------------------------------------
(* Theorems *)

\* An empty index, no requests, no files.
LEMMA InitIndexInv == Init => IndexInv
<1> SUFFICES ASSUME Init PROVE IndexInv
  OBVIOUS
<1> USE SentinelsAssumption, ClockAssumption DEF Init
<1>1. Typed
  BY DEF Typed, TypeOK, RequestFits, Empty, Replies
<1>2. TimesPast /\ OneFilePerName /\ EntriesRight /\ NewRight /\ RightFile
  BY DEF TimesPast, OneFilePerName, EntriesRight, NewRight, RightFile, Empty
<1>3. IndexFresh /\ BuildFresh
  BY DEF IndexFresh, BuildFresh, UpToDate
<1>4. IndexSaid /\ BuildSaid /\ DecryptSaid /\ AnswersCurrent
  BY DEF IndexSaid, BuildSaid, DecryptSaid, AnswersCurrent
<1> QED
  BY <1>1, <1>2, <1>3, <1>4 DEF IndexInv

\* Types and requests need nothing else.
LEMMA StepTyped == Typed /\ [Next]_vars => Typed'
  BY StepTypeOK, StepRequestFits DEF Typed

\* The index, the handlers and the directories always have their types, whatever
\* the time stamps and however many directories (internal/daemon/server.go).
THEOREM IndexTypeCorrect == Spec => []TypeOK
<1>1. Init => Typed
  BY InitIndexInv DEF IndexInv
<1> QED
  BY <1>1, StepTyped, PTL DEF Spec, Typed

\* The inductive invariant: with one vault directory, and a CLI whose changes have
\* later time stamps, for any number of handlers, names and files.
THEOREM IndexInvariant ==
  ASSUME OneDirectory, PreciseCli
  PROVE  Spec => []IndexInv
<1>1. IndexInv /\ [Next]_vars => IndexInv'
  <2> SUFFICES ASSUME IndexInv, [Next]_vars PROVE IndexInv'
    OBVIOUS
  <2> USE DEF IndexInv
  <2>1. Typed'
    BY StepTyped
  <2>2. TimesPast' /\ OneFilePerName' /\ EntriesRight' /\ NewRight' /\ RightFile'
    BY StepTimesPast, StepOneFilePerName, StepEntriesRight, StepNewRight, StepRightFile
       DEF Typed
  <2>3. IndexFresh' /\ BuildFresh'
    BY <2>1, StepIndexFresh, StepBuildFresh DEF Typed
  <2>4. IndexSaid' /\ BuildSaid' /\ DecryptSaid' /\ AnswersCurrent'
    BY <2>1, <2>2, <2>3, StepIndexSaid, StepBuildSaid, StepDecryptSaid,
       StepAnswersCurrent
  <2> QED
    BY <2>1, <2>2, <2>3, <2>4
<1> QED
  BY <1>1, InitIndexInv, PTL DEF Spec

\* An index that a request would find up to date is exact, but for changes about
\* to invalidate it and names whose every file may fail to open: neither a rebuild
\* that races a change nor the double check of refreshIndexIfStale installs an
\* older view under a newer time stamp.
THEOREM IndexIsExact ==
  ASSUME OneDirectory, PreciseCli
  PROVE  Spec => []IndexExact
<1>1. IndexInv => IndexExact
  <2> SUFFICES ASSUME IndexInv, NEW d \in Dirs, UpToDate(mtime[d]), NEW k \in Names,
                      ~Underway(d, "write", k), ~Underway(d, "delete", k)
               PROVE  IF entries[k] = None THEN Missing(d, k)
                      ELSE file[d][entries[k]] = k
    BY DEF IndexExact
  <2> QED
    BY DEF IndexInv, IndexFresh
<1> QED
  BY <1>1, IndexInvariant, PTL

\* A read, delete or list answers what was so at some moment of the request, though
\* it uses the index after the lock and others rebuild it meanwhile.  Only a name
\* whose every file may fail to open can be there and not be found.
THEOREM AnswersAreCurrent ==
  ASSUME OneDirectory, PreciseCli
  PROVE  Spec => []AnswersCurrent
  BY IndexInvariant, PTL DEF IndexInv

\* A read or delete by the daemon never meets another secret's file, whatever the
\* time stamps.
THEOREM FilesAreRight ==
  ASSUME OneDirectory
  PROVE  Spec => []RightFile
<1> DEFINE Part == Typed /\ EntriesRight /\ NewRight /\ RightFile
<1>1. Init => Part
  BY InitIndexInv DEF IndexInv
<1>2. Part /\ [Next]_vars => Part'
  BY StepTyped, StepEntriesRight, StepNewRight, StepRightFile DEF Typed
<1> QED
  BY <1>1, <1>2, PTL DEF Spec
=============================================================================
