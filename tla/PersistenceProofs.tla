------------------------- MODULE PersistenceProofs --------------------------
(***************************************************************************)
(* That the files keep what the server has to remember, for any number of  *)
(* devices, tasks, failures and crashes.                                   *)
(***************************************************************************)
EXTENDS Persistence, HashMapTheorems, TLAPS

\* Most leaves are first-order reasoning; the others name SMT.
USE Zenon

-----------------------------------------------------------------------------
(* Saves and their jobs.                                                   *)

\* What is saved is told from a file that is missing, empty or torn.
LEMMA DataFacts ==
    ASSUME NEW f \in File, NEW d \in Data(f)
    PROVE  d # NoFile /\ d # Empty /\ d # Torn /\ d \in Content(f)
BY PersistenceAssumption DEF Data, Content

\* The list and the states are different files.
LEMMA FileFacts ==
    /\ "included" \in File
    /\ Data("included") = SUBSET Endpoint
    /\ \A e \in Endpoint : e \in File /\ e # "included" /\ Data(e) = State
BY PersistenceAssumption DEF File, Data

\* The two forms of a list of jobs.
LEMMA OneJob ==
    ASSUME NEW a
    PROVE  Head(<<a>>) = a /\ Len(<<a>>) = 1
BY SMT

\* Two jobs: the head and what is left.
LEMMA TwoJobs ==
    ASSUME NEW a, NEW b
    PROVE  Head(<<a, b>>) = a /\ Tail(<<a, b>>) = <<b>> /\ Len(<<a, b>>) = 2
BY SMT

\* A job is a save or a deletion of one file.
LEMMA JobType ==
    ASSUME NEW f \in File, NEW d \in {NoFile} \cup Data(f)
    PROVE  [file |-> f, data |-> d] \in Job
BY SMT DEF Job

\* What a save under way is.
LEMMA SavingFacts ==
    ASSUME NEW jobs \in Seq(Job), NEW F \in SUBSET File
    PROVE  /\ Saving(jobs, F) \in Save
           /\ Saving(jobs, F).pc = "open"
           /\ Saving(jobs, F).jobs = jobs
           /\ Saving(jobs, F).files = F
           /\ Saving(jobs, F).fd = "none"
BY DEF Saving, Save

\* What a save that has its shape is about to do, and what comes after.
LEMMA ShapeFacts ==
    ASSUME TypeOK, NEW t \in Task, SaveShape(t), IsSave(t)
    PROVE  /\ task[t] \in Save
           /\ Held(t) = task[t].files
           /\ Held(t) \subseteq File
           /\ Current(t).file \in Held(t)
           /\ Current(t).data \in {NoFile} \cup Data(Current(t).file)
           /\ task[t].pc # "open" => Current(t).data \in Data(Current(t).file)
<1>1. task[t] \in Save
  BY SMT DEF TypeOK, IsSave, NoTask, Timer, Marking, Excluding
<1>2. Held(t) = task[t].files /\ task[t].files \subseteq File
  BY <1>1 DEF Held, Save
<1>3. ASSUME NEW f \in File, NEW d \in Data(f), task[t].jobs = <<Writes(f, d)>>, task[t].files = {f}
      PROVE  /\ Current(t).file \in Held(t)
             /\ Current(t).data \in Data(Current(t).file)
  BY SMT, <1>2, <1>3, OneJob DEF Current, Writes
<1>4. ASSUME NEW e \in Endpoint, NEW d \in SUBSET Endpoint,
             task[t].jobs = <<Writes("included", d), Deletes(e)>>, task[t].files = {"included", e}
      PROVE  /\ Current(t).file \in Held(t)
             /\ Current(t).data \in Data(Current(t).file)
  BY SMT, <1>2, <1>4, TwoJobs, FileFacts DEF Current, Writes
<1>5. ASSUME NEW e \in Endpoint, task[t].jobs = <<Deletes(e)>>, task[t].files = {"included", e},
             task[t].pc = "open"
      PROVE  /\ Current(t).file \in Held(t)
             /\ Current(t).data = NoFile
  BY SMT, <1>2, <1>5, OneJob DEF Current, Deletes
<1> QED
  BY <1>1, <1>2, <1>3, <1>4, <1>5 DEF SaveShape

\* After its first job an exclusion goes on with the deletion; any other save
\* has ended.
LEMMA NextJobFacts ==
    ASSUME TypeOK, NEW t \in Task, SaveShape(t), IsSave(t)
    PROVE  \/ NextJob(task[t]) = NoTask
           \/ \E e \in Endpoint :
                /\ NextJob(task[t]) = Saving(<<Deletes(e)>>, {"included", e})
                /\ Held(t) = {"included", e}
                /\ Current(t).file = "included"
                /\ task[t].jobs = <<Current(t), Deletes(e)>>
<1>1. task[t] \in Save /\ Held(t) = task[t].files
  BY ShapeFacts
<1>2. ASSUME NEW f, NEW d, task[t].jobs = <<Writes(f, d)>>
      PROVE  NextJob(task[t]) = NoTask
  BY <1>2, OneJob DEF NextJob
<1>3. ASSUME NEW e \in Endpoint, NEW d \in SUBSET Endpoint,
             task[t].jobs = <<Writes("included", d), Deletes(e)>>, task[t].files = {"included", e}
      PROVE  /\ NextJob(task[t]) = Saving(<<Deletes(e)>>, {"included", e})
             /\ Current(t) = Writes("included", d)
  <2>1. Len(task[t].jobs) # 1 /\ Tail(task[t].jobs) = <<Deletes(e)>>
    BY SMT, <1>3, TwoJobs
  <2>2. NextJob(task[t]) = [task[t] EXCEPT !.pc = "open", !.jobs = <<Deletes(e)>>, !.fd = "none"]
    BY <2>1 DEF NextJob
  <2>3. task[t] = [pc |-> task[t].pc, jobs |-> task[t].jobs, files |-> task[t].files,
                   fd |-> task[t].fd]
    BY <1>1 DEF Save
  <2>4. NextJob(task[t]) = [pc |-> "open", jobs |-> <<Deletes(e)>>, files |-> task[t].files,
                            fd |-> "none"]
    BY <2>2, <2>3
  <2> QED
    BY <1>3, <2>4, TwoJobs DEF Saving, Current
<1>4. ASSUME NEW e, task[t].jobs = <<Deletes(e)>>
      PROVE  NextJob(task[t]) = NoTask
  BY <1>4, OneJob DEF NextJob
<1>5. \A d : Writes("included", d).file = "included"
  BY DEF Writes
<1> QED
  BY <1>1, <1>2, <1>3, <1>4, <1>5 DEF SaveShape

\* Where a save goes when it is done with a file.
LEMMA NextJobPc ==
    ASSUME TypeOK, NEW t \in Task, SaveShape(t), IsSave(t)
    PROVE  NextJob(task[t]).pc \in {"none", "open"}
<1>1. task[t] \in Save
  BY ShapeFacts
<1> QED
  BY <1>1 DEF NextJob, NoTask, Save

\* The effect of the steps that take data for the files F: a save of some jobs
\* begins, and files that another task holds become disturbed.
Begins(t, jobs, F) ==
    /\ ~IsSave(t)
    /\ task' = [task EXCEPT ![t] = Saving(jobs, F)]
    /\ UNCHANGED <<path, tmp>>
    /\ disturbed \cup Contended(t, F) \subseteq disturbed'

\* The effect of all steps that are no part of a save.
SavesSame ==
    /\ UNCHANGED <<path, tmp, disturbed>>
    /\ \A t \in Task : (IsSave(t)' <=> IsSave(t)) /\ (IsSave(t) => task'[t] = task[t])

\* The steps of a save.
SaveStep(t) == \/ open(t) \/ write(t) \/ write_fails(t) \/ rename(t)
               \/ delete_device_state(t) \/ delete_fails(t)

-----------------------------------------------------------------------------
(* Types.                                                                  *)

\* json_merge and build_device_payload give states.
LEMMA MergeType ==
    ASSUME NEW a \in State, NEW b \in State
    PROVE  json_merge(a, b) \in State /\ build_device_payload(b) \in State
<1>1. PICK A \in SUBSET Leaf : a \in [A -> Value]
  BY DEF State
<1>2. PICK B \in SUBSET Leaf : b \in [B -> Value]
  BY DEF State
<1>3. json_merge(a, b) \in [A \cup B -> Value]
  BY <1>1, <1>2 DEF json_merge
<1>4. build_device_payload(b) \in [B \cap Known -> Value]
  BY <1>2 DEF build_device_payload
<1> QED
  BY <1>1, <1>2, <1>3, <1>4, PersistenceAssumption DEF State

\* The state of a new device.
LEMMA EmptyState == EmptyMap \in State
<1>1. EmptyMap \in [{} -> Value]
  BY DEF EmptyMap
<1> QED
  BY <1>1 DEF State

\* No files or those of an earlier run, and main at its first step.
LEMMA InitTypes == Init => TypeOK
<1> SUFFICES ASSUME Init PROVE TypeOK
  OBVIOUS
<1>1. IsMap(state, Endpoint, State)
  BY EmptyMapType DEF Init
<1>2. main \in [pc : {"run", "load"}] /\ rx \in Packet
  BY DEF Init, Running, Idle, Packet
<1>3. errors \in 0 .. MaxError /\ restarts \in 0 .. MaxRestart
  BY SMT, PersistenceAssumption DEF Init
<1> QED
  BY <1>1, <1>2, <1>3 DEF Init, TypeOK, Content

\* Relink gives tasks of the same kind.
LEMMA RelinkFacts ==
    ASSUME TypeOK, NEW f, NEW after \in [{"none", "tmp", "path", "gone"} -> {"none", "tmp", "path", "gone"}],
           NEW t \in Task
    PROVE  /\ Relink(f, after)[t] \in {NoTask} \cup Timer \cup Marking \cup Excluding \cup Save
           /\ ~IsSave(t) \/ Current(t).file # f => Relink(f, after)[t] = task[t]
           /\ IsSave(t) => /\ Relink(f, after)[t].pc = task[t].pc
                           /\ Relink(f, after)[t].jobs = task[t].jobs
                           /\ Relink(f, after)[t].files = task[t].files
                           /\ after["none"] = "none" /\ task[t].fd = "none"
                              => Relink(f, after)[t].fd = "none"
<1>1. CASE IsSave(t) /\ Head(task[t].jobs).file = f
  <2>1. task[t] \in Save
    BY SMT, <1>1 DEF TypeOK, IsSave, NoTask, Timer, Marking, Excluding
  <2>2. Relink(f, after)[t] = [task[t] EXCEPT !.fd = after[task[t].fd]]
    BY <1>1 DEF Relink
  <2>3. after[task[t].fd] \in {"none", "tmp", "path", "gone"}
    BY <2>1 DEF Save
  <2> QED
    BY <1>1, <2>1, <2>2, <2>3 DEF Save, Current
<1>2. CASE ~(IsSave(t) /\ Head(task[t].jobs).file = f)
  <2>1. Relink(f, after)[t] = task[t]
    BY <1>2 DEF Relink
  <2> QED
    BY <1>2, <2>1 DEF TypeOK, Current
<1> QED
  BY <1>1, <1>2

\* Where an open file ends up after rename and remove_file.
LEMMA AfterTypes ==
    /\ AfterRename \in [{"none", "tmp", "path", "gone"} -> {"none", "tmp", "path", "gone"}]
    /\ AfterRemove \in [{"none", "tmp", "path", "gone"} -> {"none", "tmp", "path", "gone"}]
    /\ AfterRename["none"] = "none" /\ AfterRemove["none"] = "none"
BY SMT DEF AfterRename, AfterRemove

-----------------------------------------------------------------------------
(* The steps of a save.                                                    *)

Kept(t)    == task'[t].jobs = task[t].jobs /\ task'[t].files = task[t].files
Opened(t)  == /\ task[t].pc = "open" /\ Current(t).data # NoFile
              /\ task'[t] \in Save /\ task'[t].pc = "write" /\ task'[t].fd = "tmp" /\ Kept(t)
WrittenTo(t) == /\ task[t].pc = "write"
              /\ task'[t] \in Save /\ task'[t].pc = "rename" /\ task'[t].fd = "none" /\ Kept(t)

\* What a step of a save changes: its own task, its current file, and the open
\* files of others that are at the same file.
LEMMA SaveStepFacts ==
    ASSUME TypeOK, \A x \in Task : SaveShape(x), NEW t \in Task, SaveStep(t)
    PROVE  /\ IsSave(t)
           /\ UNCHANGED <<memory, main, wakaama, restarts>>
           /\ DOMAIN task' = Task
           /\ Opened(t) \/ WrittenTo(t) \/ task'[t] = NextJob(task[t])
           /\ \A u \in Task \ {t} :
                /\ task'[u] \in {NoTask} \cup Timer \cup Marking \cup Excluding \cup Save
                /\ ~IsSave(u) \/ Current(u).file # Current(t).file => task'[u] = task[u]
                /\ IsSave(u) => /\ task'[u].pc = task[u].pc
                                /\ task[u].fd = "none" => task'[u].fd = "none"
                                /\ Kept(u)
           /\ DOMAIN path' = File /\ DOMAIN tmp' = File
           /\ \A g \in File : g # Current(t).file => path'[g] = path[g] /\ tmp'[g] = tmp[g]
           /\ path'[Current(t).file] \in Content(Current(t).file)
           /\ tmp'[Current(t).file] \in Content(Current(t).file)
           /\ disturbed' \in {disturbed, disturbed \cup {Current(t).file}}
           /\ errors' \in 0 .. MaxError
<1> DEFINE f == Current(t).file
           d == Current(t).data
           Frame(u) == /\ task'[u] \in {NoTask} \cup Timer \cup Marking \cup Excluding \cup Save
                       /\ ~IsSave(u) \/ Current(u).file # f => task'[u] = task[u]
                       /\ IsSave(u) => /\ task'[u].pc = task[u].pc
                                       /\ task[u].fd = "none" => task'[u].fd = "none"
                                       /\ Kept(u)
<1>1. IsSave(t)
  BY DEF SaveStep, IsSave, open, write, write_fails, rename, delete_device_state,
         delete_fails
<1>2. task[t] \in Save /\ f \in File /\ d \in {NoFile} \cup Data(f)
  BY <1>1, ShapeFacts
<1>3. task[t].pc # "open" => d \in Data(f)
  BY <1>1, ShapeFacts
<1>4. d # NoFile => d \in Content(f)
  BY <1>2, DataFacts
<1>5. NoFile \in Content(f) /\ Empty \in Content(f) /\ Torn \in Content(f)
  BY DEF Content
<1>6. \A u \in Task : task[u] \in {NoTask} \cup Timer \cup Marking \cup Excluding \cup Save
  BY DEF TypeOK
<1>7. errors \in 0 .. MaxError /\ DOMAIN task = Task /\ DOMAIN path = File /\ DOMAIN tmp = File
      /\ path[f] \in Content(f) /\ tmp[f] \in Content(f)
  BY <1>2 DEF TypeOK
<1> HIDE DEF f, d
<1>10. CASE open(t)
  <2>1. task' = [task EXCEPT ![t].pc = "write", ![t].fd = "tmp"] /\ task[t].pc = "open" /\ d # NoFile
    BY <1>10 DEF open, d, Current
  <2>2. Opened(t)
    BY <1>2, <1>7, <2>1 DEF Opened, Save, Kept, d
  <2>3. tmp' = [tmp EXCEPT ![f] = Empty] /\ path' = path
    BY <1>10 DEF open, f, Current
  <2>4. \A u \in Task \ {t} : Frame(u)
    BY <1>6, <1>7, <2>1 DEF Kept
  <2>5. UNCHANGED <<memory, main, wakaama, restarts, disturbed, errors>>
    BY <1>10 DEF open
  <2> QED
    BY <1>1, <1>2, <1>5, <1>7, <2>1, <2>2, <2>3, <2>4, <2>5 DEF f
<1>11. CASE write(t)
  <2>1. task' = [task EXCEPT ![t].pc = "rename", ![t].fd = "none"] /\ task[t].pc = "write"
    BY <1>11 DEF write
  <2>2. WrittenTo(t)
    BY <1>2, <1>7, <2>1 DEF WrittenTo, Save, Kept
  <2>3. /\ tmp' = tmp \/ \E c \in {d, Torn} : tmp' = [tmp EXCEPT ![f] = c]
        /\ path' = path \/ \E c \in {d, Torn} : path' = [path EXCEPT ![f] = c]
    BY <1>11 DEF write, f, d, Current, Written
  <2>4. \A u \in Task \ {t} : Frame(u)
    BY <1>6, <1>7, <2>1 DEF Kept
  <2>5. UNCHANGED <<memory, main, wakaama, restarts, disturbed, errors>>
    BY <1>11 DEF write
  <2>6. {d, Torn} \subseteq Content(f)
    BY <1>2, <1>3, <1>5, <2>1, DataFacts
  <2>7. /\ DOMAIN path' = File /\ DOMAIN tmp' = File
        /\ \A g \in File : g # f => path'[g] = path[g] /\ tmp'[g] = tmp[g]
        /\ path'[f] \in Content(f) /\ tmp'[f] \in Content(f)
    BY <1>2, <1>7, <2>3, <2>6
  <2> QED
    BY <1>1, <1>7, <2>1, <2>2, <2>4, <2>5, <2>7 DEF f
<1>12. CASE write_fails(t)
  <2>1. task' = [task EXCEPT ![t] = NextJob(task[t])]
    BY <1>12 DEF write_fails
  <2>2. /\ tmp' = [tmp EXCEPT ![f] = IF task[t].fd = "tmp" THEN Torn ELSE @]
        /\ path' = [path EXCEPT ![f] = IF task[t].fd = "path" THEN Torn ELSE @]
        /\ disturbed' = disturbed \cup {f}
    BY <1>12 DEF write_fails, f, Current
  <2>3. \A u \in Task \ {t} : Frame(u)
    BY <1>6, <1>7, <2>1 DEF Kept
  <2>4. UNCHANGED <<memory, main, wakaama, restarts>> /\ errors' \in 0 .. MaxError
    BY SMT, <1>7, <1>12, PersistenceAssumption DEF write_fails
  <2>5. /\ DOMAIN path' = File /\ DOMAIN tmp' = File
        /\ \A g \in File : g # f => path'[g] = path[g] /\ tmp'[g] = tmp[g]
        /\ path'[f] \in Content(f) /\ tmp'[f] \in Content(f)
    BY <1>2, <1>5, <1>7, <2>2
  <2> QED
    BY <1>1, <1>7, <2>1, <2>2, <2>3, <2>4, <2>5 DEF f
<1>13. ASSUME NEW after \in [{"none", "tmp", "path", "gone"} -> {"none", "tmp", "path", "gone"}],
              after["none"] = "none",
              task' = [Relink(f, after) EXCEPT ![t] = NextJob(task[t])]
       PROVE  /\ DOMAIN task' = Task
              /\ task'[t] = NextJob(task[t])
              /\ \A u \in Task \ {t} : Frame(u)
  <2>1. DOMAIN Relink(f, after) = Task
    BY DEF Relink
  <2>2. \A u \in Task \ {t} : task'[u] = Relink(f, after)[u]
    BY <1>13, <2>1
  <2>3. \A u \in Task \ {t} : Frame(u)
    BY SMT, <1>13, <2>2, RelinkFacts DEF Kept
  <2> QED
    BY <1>13, <2>1, <2>3
<1>14. CASE rename(t)
  <2>1. UNCHANGED <<memory, main, wakaama, restarts, disturbed, errors>>
    BY <1>14 DEF rename
  <2>2. CASE tmp[f] = NoFile
    <3>1. task' = [task EXCEPT ![t] = NextJob(task[t])] /\ UNCHANGED <<path, tmp>>
      BY <1>14, <2>2 DEF rename, f, Current
    <3>2. \A u \in Task \ {t} : Frame(u)
      BY <1>6, <1>7, <3>1 DEF Kept
    <3> QED
      BY <1>1, <1>7, <2>1, <3>1, <3>2 DEF f
  <2>3. CASE tmp[f] # NoFile
    <3>1. /\ path' = [path EXCEPT ![f] = tmp[f]]
          /\ tmp' = [tmp EXCEPT ![f] = NoFile]
          /\ task' = [Relink(f, AfterRename) EXCEPT ![t] = NextJob(task[t])]
      BY <1>14, <2>3 DEF rename, f, Current
    <3>2. /\ DOMAIN task' = Task
          /\ task'[t] = NextJob(task[t])
          /\ \A u \in Task \ {t} : Frame(u)
      BY <1>13, <3>1, AfterTypes
    <3> QED
      BY <1>1, <1>2, <1>5, <1>7, <2>1, <3>1, <3>2 DEF f
  <2> QED
    BY <2>2, <2>3
<1>15. CASE delete_device_state(t)
  <2>1. UNCHANGED <<memory, main, wakaama, restarts, disturbed, errors, tmp>>
    BY <1>15 DEF delete_device_state
  <2>2. /\ path' = [path EXCEPT ![f] = NoFile]
        /\ task' = [Relink(f, AfterRemove) EXCEPT ![t] = NextJob(task[t])]
    BY <1>15 DEF delete_device_state, f, Current
  <2>3. /\ DOMAIN task' = Task
        /\ task'[t] = NextJob(task[t])
        /\ \A u \in Task \ {t} : Frame(u)
    BY <1>13, <2>2, AfterTypes
  <2> QED
    BY <1>1, <1>2, <1>5, <1>7, <2>1, <2>2, <2>3 DEF f
<1>16. CASE delete_fails(t)
  <2>1. /\ UNCHANGED <<memory, main, wakaama, restarts, disturbed, path, tmp>>
        /\ task' = [task EXCEPT ![t] = NextJob(task[t])]
    BY <1>16 DEF delete_fails, disk
  <2>2. errors' \in 0 .. MaxError
    BY SMT, <1>16, PersistenceAssumption DEF delete_fails, TypeOK
  <2>3. \A u \in Task \ {t} : Frame(u)
    BY <1>6, <1>7, <2>1 DEF Kept
  <2> QED
    BY <1>1, <1>7, <2>1, <2>2, <2>3 DEF f
<1> QED
  BY <1>10, <1>11, <1>12, <1>14, <1>15, <1>16 DEF SaveStep

\* The data a step takes makes a save of one file, or of the list and a
\* deletion.
LEMMA BeginFacts ==
    ASSUME TypeOK, NEW t \in Task, NEW jobs \in Seq(Job), NEW F \in SUBSET File, Begins(t, jobs, F)
    PROVE  /\ DOMAIN task' = Task
           /\ task'[t] \in Save /\ task'[t].pc = "open" /\ task'[t].fd = "none"
           /\ task'[t].jobs = jobs /\ task'[t].files = F
           /\ \A u \in Task \ {t} : task'[u] = task[u]
BY SMT, SavingFacts DEF Begins, TypeOK

\* The jobs of save_device_state, save_included and an exclusion.
LEMMA JobsType ==
    /\ \A f \in File : \A d \in Data(f) : <<Writes(f, d)>> \in Seq(Job)
    /\ \A e \in Endpoint : \A d \in SUBSET Endpoint :
          <<Writes("included", d), Deletes(e)>> \in Seq(Job)
<1>1. \A f \in File : \A d \in Data(f) : Writes(f, d) \in Job
  BY JobType DEF Writes
<1>2. \A e \in Endpoint : Deletes(e) \in Job
  BY JobType, FileFacts DEF Deletes
<1>3. \A d \in SUBSET Endpoint : Writes("included", d) \in Job
  BY <1>1, FileFacts
<1> QED
  BY SMT, <1>1, <1>2, <1>3

\* merge_device_state: types, and the save it begins.
LEMMA MergeStep ==
    ASSUME TypeOK, NEW t \in Task, merge_device_state(t)
    PROVE  \E e \in Endpoint : \E d \in State :
             /\ Begins(t, <<Writes(e, d)>>, {e})
             /\ disturbed' = disturbed \cup Contended(t, {e})
             /\ IsMap(state', Endpoint, State)
             /\ DOMAIN state' = DOMAIN state
             /\ e \in DOMAIN state => state'[e] = d
             /\ \A x \in DOMAIN state \ {e} : state'[x] = state[x]
             /\ UNCHANGED <<included, main, wakaama, errors, restarts>> /\ rx' = Idle
<1> DEFINE e == rx.ep
           d == IF e \in DOMAIN state THEN json_merge(state[e], rx.report) ELSE rx.report
<1>1. e \in Endpoint /\ rx.report \in State
  BY DEF merge_device_state, TypeOK, Packet
<1>2. d \in State
  BY <1>1, MergeType, ValueType DEF TypeOK
<1>3. Begins(t, <<Writes(e, d)>>, {e}) /\ disturbed' = disturbed \cup Contended(t, {e})
  BY SMT DEF merge_device_state, spawn_save, Begins, Take, Writes, IsSave, NoTask, disk
<1>4. state' = IF e \in DOMAIN state THEN Insert(state, e, d) ELSE state
  BY DEF merge_device_state
<1>5. IsMap(state', Endpoint, State)
  BY <1>1, <1>2, <1>4, InsertType DEF TypeOK
<1>6. /\ DOMAIN state' = DOMAIN state
      /\ e \in DOMAIN state => state'[e] = d
      /\ \A x \in DOMAIN state \ {e} : state'[x] = state[x]
  BY <1>4 DEF Insert
<1>7. UNCHANGED <<included, main, wakaama, errors, restarts>> /\ rx' = Idle
  BY DEF merge_device_state, disk
<1> QED
  BY <1>1, <1>2, <1>3, <1>5, <1>6, <1>7

\* save_included: what it leaves alone, and the save it begins.
LEMMA SaveListStep ==
    ASSUME TypeOK, NEW t \in Task, save_included(t)
    PROVE  /\ Begins(t, <<Writes("included", included)>>, {"included"})
           /\ disturbed' = disturbed \cup Contended(t, {"included"})
           /\ UNCHANGED <<memory, main, wakaama, errors, restarts>>
BY DEF save_included, Begins, Take, Writes, IsSave, disk

\* save_excluded: what it leaves alone, and the save and deletion it begins.
LEMMA SaveExcludedStep ==
    ASSUME TypeOK, NEW t \in Task, save_excluded(t)
    PROVE  \E e \in Endpoint :
             /\ Begins(t, <<Writes("included", included), Deletes(e)>>, {"included", e})
             /\ disturbed' = disturbed \cup Contended(t, {"included", e})
                                       \cup ({e} \cap (DOMAIN state \cup included))
             /\ UNCHANGED <<memory, main, wakaama, errors, restarts>>
<1>1. task[t].ep \in Endpoint
  BY SMT DEF save_excluded, TypeOK, Excluding, NoTask, Timer, Marking, Save
<1>2. /\ Begins(t, <<Writes("included", included), Deletes(task[t].ep)>>, {"included", task[t].ep})
      /\ disturbed' = disturbed \cup Contended(t, {"included", task[t].ep})
                                \cup ({task[t].ep} \cap (DOMAIN state \cup included))
  BY DEF save_excluded, Begins, Writes, Deletes, IsSave, disk
<1>3. UNCHANGED <<memory, main, wakaama, errors, restarts>>
  BY DEF save_excluded, disk
<1> QED
  BY <1>1, <1>2, <1>3

\* Steps that are no part of a save and change one task at most.
QuietTask(t) ==
    \/ check_included(t) \/ timer_fires(t) \/ unmark_included(t) \/ remove_excluded(t)
    \/ \E e \in Endpoint : mark_included(t, e) \/ handle_exclusion(t, e)
QuietServer ==
    \/ \E e \in Endpoint : \/ handle_registration(e) \/ handle_delete(e) \/ expire_stale(e)
                           \/ \E r \in State : handle_dp(e, r)
    \/ reply_fails \/ save_registry

\* Steps of tasks that begin no save.
LEMMA QuietTaskFacts ==
    ASSUME TypeOK, NEW t \in Task, QuietTask(t)
    PROVE  /\ SavesSame
           /\ DOMAIN task' = Task
           /\ \A u \in Task : task'[u] \in {NoTask} \cup Timer \cup Marking \cup Excluding \cup Save
           /\ UNCHANGED <<main, wakaama, errors, restarts>>
<1>1. DOMAIN task = Task /\ \A u \in Task : task[u] \in {NoTask} \cup Timer \cup Marking \cup Excluding \cup Save
  BY DEF TypeOK
<1>3. ~IsSave(t) \/ task' = task
  BY SMT DEF QuietTask, check_included, timer_fires, unmark_included, remove_excluded, mark_included,
     handle_exclusion, IsSave, NoTask
<1>4. \/ task' = task
      \/ \E v \in {NoTask} \cup Timer \cup Marking \cup Excluding : task' = [task EXCEPT ![t] = v]
  <2>1. CASE check_included(t)
    <3>1. rx.ep \in Endpoint
      BY <2>1 DEF check_included, TypeOK, Packet
    <3> QED
      BY <2>1, <3>1 DEF check_included, Timer
  <2>2. CASE timer_fires(t)
    BY <2>2 DEF timer_fires
  <2>3. CASE unmark_included(t)
    <3>1. task[t] \in Excluding
      BY SMT, <1>1, <2>3 DEF unmark_included, NoTask, Timer, Marking, Save
    <3>2. [task[t] EXCEPT !.pc = "remove"] \in Excluding
      BY <3>1 DEF Excluding
    <3>3. task' = [task EXCEPT ![t] = [task[t] EXCEPT !.pc = "remove"]]
      BY <1>1, <2>3 DEF unmark_included
    <3> QED
      BY <3>2, <3>3
  <2>4. CASE remove_excluded(t)
    <3>1. task[t] \in Excluding
      BY SMT, <1>1, <2>4 DEF remove_excluded, NoTask, Timer, Marking, Save
    <3>2. [task[t] EXCEPT !.pc = "list"] \in Excluding
      BY <3>1 DEF Excluding
    <3>3. task' = [task EXCEPT ![t] = [task[t] EXCEPT !.pc = "list"]]
      BY <1>1, <2>4 DEF remove_excluded
    <3> QED
      BY <3>2, <3>3
  <2>5. ASSUME NEW e \in Endpoint, mark_included(t, e)
        PROVE  \E v \in {NoTask} \cup Timer \cup Marking \cup Excluding : task' = [task EXCEPT ![t] = v]
    BY <2>5 DEF mark_included, Marking
  <2>6. ASSUME NEW e \in Endpoint, handle_exclusion(t, e)
        PROVE  \E v \in {NoTask} \cup Timer \cup Marking \cup Excluding : task' = [task EXCEPT ![t] = v]
    <3>1. [pc |-> "unmark", ep |-> e, found |-> e \in DOMAIN state] \in Excluding
      BY SMT DEF Excluding
    <3> QED
      BY <2>6, <3>1 DEF handle_exclusion
  <2> QED
    BY <2>1, <2>2, <2>3, <2>4, <2>5, <2>6 DEF QuietTask
<1>5. \A v \in {NoTask} \cup Timer \cup Marking \cup Excluding : v.pc \notin {"open", "write", "rename"}
  BY SMT DEF NoTask, Timer, Marking, Excluding
<1>6. UNCHANGED <<path, tmp, disturbed, main, wakaama, errors, restarts>>
  BY DEF QuietTask, check_included, timer_fires, unmark_included, remove_excluded, mark_included,
     handle_exclusion, disk
<1> QED
  BY <1>1, <1>3, <1>4, <1>5, <1>6 DEF SavesSame, IsSave

\* Steps of the server task that begin no save.
LEMMA QuietServerFacts ==
    ASSUME TypeOK, QuietServer
    PROVE  /\ SavesSame
           /\ UNCHANGED <<task, main, included, restarts>>
           /\ wakaama' \subseteq Endpoint
           /\ errors' \in 0 .. MaxError
<1>1. UNCHANGED <<task, main, included, restarts, path, tmp, disturbed>>
  BY DEF QuietServer, handle_registration, handle_delete, expire_stale, handle_dp, reply_fails,
     save_registry, disk, memory
<1>2. wakaama' = wakaama \/ wakaama' = DOMAIN state
  BY DEF QuietServer, handle_registration, handle_delete, expire_stale, handle_dp, reply_fails,
     save_registry, disk, memory
<1>3. errors' = errors \/ (errors < MaxError /\ errors' = errors + 1)
  BY DEF QuietServer, handle_registration, handle_delete, expire_stale, handle_dp, reply_fails,
     save_registry
<1> QED
  BY SMT, <1>1, <1>2, <1>3, PersistenceAssumption DEF SavesSame, IsSave, TypeOK, IsMap

\* What the steps above make of the states in memory: they add a device with
\* an empty state, or remove devices.
StatesShrink ==
    /\ IsMap(state', Endpoint, State)
    /\ \A e \in DOMAIN state' :
         (e \in DOMAIN state /\ state'[e] = state[e]) \/ state'[e] = EmptyMap

\* What those steps do to the states in memory.
LEMMA QuietStates ==
    ASSUME TypeOK, QuietServer \/ \E t \in Task : QuietTask(t)
    PROVE  StatesShrink
<1>1. state' = state \/ (\E e : state' = Remove(state, e)) \/ (\E e \in Endpoint : state' = Insert(state, e, EmptyMap))
  BY DEF QuietServer, QuietTask, handle_registration, handle_delete, expire_stale, handle_dp,
     reply_fails, save_registry, check_included, timer_fires, unmark_included, remove_excluded,
     mark_included, handle_exclusion, memory
<1>2. CASE state' = state
  BY <1>2 DEF StatesShrink, TypeOK
<1>3. ASSUME NEW e, state' = Remove(state, e) PROVE StatesShrink
  <2>1. IsMap(state', Endpoint, State)
    BY <1>3, RemoveAllType DEF Remove, TypeOK
  <2>2. \A x \in DOMAIN state' : x \in DOMAIN state /\ state'[x] = state[x]
    BY <1>3 DEF Remove, RemoveAll
  <2> QED
    BY <2>1, <2>2 DEF StatesShrink
<1>4. ASSUME NEW e \in Endpoint, state' = Insert(state, e, EmptyMap) PROVE StatesShrink
  <2>1. IsMap(state', Endpoint, State)
    BY <1>4, InsertType, EmptyState DEF TypeOK
  <2>2. \A x \in DOMAIN state' : (x \in DOMAIN state /\ state'[x] = state[x]) \/ state'[x] = EmptyMap
    BY <1>4 DEF Insert
  <2> QED
    BY <2>1, <2>2 DEF StatesShrink
<1> QED
  BY <1>1, <1>2, <1>3, <1>4

\* The packet at hand and the list keep their types in those steps.
LEMMA QuietPackets ==
    ASSUME TypeOK, QuietServer \/ \E t \in Task : QuietTask(t)
    PROVE  rx' \in Packet /\ included' \subseteq Endpoint
<1>0. rx \in Packet /\ Idle \in Packet /\ included \subseteq Endpoint
  BY DEF TypeOK, Packet, Idle
<1>1. ASSUME NEW e \in Endpoint, handle_registration(e) PROVE rx' \in Packet /\ included' \subseteq Endpoint
  BY <1>0, <1>1 DEF handle_registration, Packet
<1>2. ASSUME NEW e \in Endpoint, NEW r \in State, handle_dp(e, r)
      PROVE  rx' \in Packet /\ included' \subseteq Endpoint
  BY <1>0, <1>2, MergeType DEF handle_dp, Packet
<1>3. ASSUME NEW e \in Endpoint, handle_delete(e) \/ expire_stale(e)
      PROVE  rx' \in Packet /\ included' \subseteq Endpoint
  BY <1>0, <1>3 DEF handle_delete, expire_stale
<1>4. CASE reply_fails \/ save_registry
  BY <1>0, <1>4 DEF reply_fails, save_registry, memory
<1>5. ASSUME NEW t \in Task, QuietTask(t) PROVE rx' \in Packet /\ included' \subseteq Endpoint
  BY <1>0, <1>5 DEF QuietTask, check_included, timer_fires, unmark_included, remove_excluded,
     mark_included, handle_exclusion, memory
<1> QED
  BY <1>1, <1>2, <1>3, <1>4, <1>5 DEF QuietServer

\* A deletion by main, done or failed, concerns one file.
LEMMA OrphanFacts ==
    ASSUME TypeOK, NEW e \in Endpoint, Deleted(e) \/ NotDeleted
    PROVE  /\ DOMAIN path' = File /\ \A f \in File : path'[f] \in Content(f)
           /\ \A f \in File : f # e => path'[f] = path[f]
           /\ load_included' = load_included
           /\ errors' \in 0 .. MaxError
<1>1. /\ DOMAIN path' = File /\ \A f \in File : path'[f] \in Content(f)
      /\ \A f \in File : f # e => path'[f] = path[f]
  BY DEF Deleted, NotDeleted, TypeOK, Content
<1>2. errors' \in 0 .. MaxError
  BY SMT, PersistenceAssumption DEF Deleted, NotDeleted, TypeOK
<1>3. path'["included"] = path["included"]
  BY <1>1, FileFacts
<1> QED
  BY <1>1, <1>2, <1>3 DEF load_included

\* The three outcomes for the state of one device, and what main is after them.
LEMMA RestoreFacts ==
    ASSUME TypeOK, NEW e \in Endpoint, restore_device_state(e)
    PROVE  /\ main \in Starting /\ main.pc = "states" /\ e \in main.todo
           /\ main' \in Starting /\ main'.pc = "states" /\ main'.list = main.list
           /\ main'.todo = main.todo \ {e} /\ main.kept \subseteq main'.kept
           /\ UNCHANGED <<included, rx, task, tmp, wakaama, disturbed, restarts>>
           /\ \/ /\ e \in main.list
                 /\ state' = IF e \in DOMAIN state THEN Insert(state, e, path[e]) ELSE state
                 /\ UNCHANGED <<path, errors>>
              \/ e \notin main.list /\ state' = state /\ Deleted(e)
              \/ e \notin main.list /\ state' = state /\ NotDeleted /\ e \in main'.kept
<1>1. main \in Starting /\ main.pc = "states" /\ e \in main.todo
  BY DEF restore_device_state, TypeOK
<1>2. CASE main' = [main EXCEPT !.todo = @ \ {e}]
  <2>1. /\ main' \in Starting /\ main'.pc = main.pc /\ main'.list = main.list
        /\ main'.todo = main.todo \ {e} /\ main'.kept = main.kept
    BY <1>1, <1>2 DEF Starting
  <2>2. main' = [main EXCEPT !.todo = @ \ {e}, !.kept = @ \cup {e}] => e \in main'.kept
    BY <1>1 DEF Starting
  <2> QED
    BY <1>1, <2>1, <2>2 DEF restore_device_state
<1>3. CASE main' = [main EXCEPT !.todo = @ \ {e}, !.kept = @ \cup {e}]
  <2>1. /\ main' \in Starting /\ main'.pc = main.pc /\ main'.list = main.list
        /\ main'.todo = main.todo \ {e} /\ main'.kept = main.kept \cup {e}
    BY <1>1, <1>3 DEF Starting
  <2> QED
    BY <1>1, <2>1 DEF restore_device_state
<1> QED
  BY <1>2, <1>3 DEF restore_device_state

\* main takes no step once the server runs.
LEMMA MainStarts == MainStep => main # Running
<1>1. ASSUME main = Running  PROVE main.pc = "run"
  BY <1>1 DEF Running
<1> QED
  BY <1>1 DEF MainStep, load_files, drop_orphan, restore, restore_device_state, run

\* The steps of main and a crash.
LEMMA MainTypes ==
    ASSUME TypeOK, MainInv, MainStep
    PROVE  TypeOK'
<1>1. ASSUME NEW L \in SUBSET Endpoint, load_files(L) PROVE TypeOK'
  <2>1. load_included \subseteq Endpoint
    BY FileFacts DEF load_included, TypeOK, Content
  <2>2. main' \in Starting
    BY <1>1, <2>1 DEF load_files, Starting
  <2> QED
    BY <1>1, <2>2 DEF load_files, TypeOK, memory, disk
<1>2. ASSUME NEW e \in Endpoint, drop_orphan(e) PROVE TypeOK'
  <2>1. main \in Starting
    BY <1>2 DEF drop_orphan, TypeOK
  <2>2. main' \in Starting
    BY <1>2, <2>1 DEF drop_orphan, Starting
  <2> QED
    BY <1>2, <2>2, OrphanFacts DEF drop_orphan, TypeOK, memory
<1>3. CASE restore
  <2>1. main \in Starting
    BY <1>3 DEF restore, TypeOK
  <2>2. main' \in Starting
    BY <1>3, <2>1 DEF restore, Starting
  <2>3. IsMap(state', Endpoint, State)
    BY <1>3, <2>1, EmptyState DEF restore, Starting, IsMap
  <2>4. included' \subseteq Endpoint /\ wakaama' \subseteq Endpoint
    BY <1>3, <2>1 DEF restore, Starting, TypeOK
  <2> QED
    BY <1>3, <2>2, <2>3, <2>4 DEF restore, TypeOK
<1>4. ASSUME NEW e \in Endpoint, restore_device_state(e) PROVE TypeOK'
  <2>1. main' \in Starting /\ UNCHANGED <<included, rx, task, tmp, wakaama, disturbed, restarts>>
    BY <1>4, RestoreFacts
  <2>2. path[e] \in State
    <3>1. Readable(e)
      BY <1>4, RestoreFacts DEF MainInv
    <3> QED
      BY SMT, <3>1, FileFacts DEF Readable, TypeOK, Content
  <2>3. IsMap(state', Endpoint, State)
    <3>1. state' = state \/ state' = Insert(state, e, path[e])
      BY <1>4, RestoreFacts
    <3> QED
      BY <2>2, <3>1, InsertType DEF TypeOK
  <2>4. /\ DOMAIN path' = File /\ \A f \in File : path'[f] \in Content(f)
        /\ errors' \in 0 .. MaxError
    BY <1>4, RestoreFacts, OrphanFacts DEF TypeOK
  <2> QED
    BY <2>1, <2>3, <2>4 DEF TypeOK
<1>5. CASE run
  BY <1>5 DEF run, TypeOK, Running, memory, disk
<1> QED
  BY <1>1, <1>2, <1>3, <1>4, <1>5 DEF MainStep

\* A crash leaves the disk.
LEMMA CrashTypes ==
    ASSUME TypeOK, crash
    PROVE  TypeOK'
<1>1. IsMap(state', Endpoint, State)
  BY EmptyMapType DEF crash
<1>2. rx' \in Packet /\ main' \in [pc : {"run", "load"}]
  BY DEF crash, Idle, Packet
<1>3. DOMAIN tmp' = File /\ \A f \in File : tmp'[f] \in Content(f)
  BY DEF crash, Content
<1>4. restarts' \in 0 .. MaxRestart
  BY SMT, PersistenceAssumption DEF crash, TypeOK
<1> QED
  BY <1>1, <1>2, <1>3, <1>4 DEF crash, TypeOK

\* Every step is of one of these kinds.
LEMMA NextKinds ==
    ASSUME [Next]_vars
    PROVE  \/ QuietServer
           \/ \E t \in Task : QuietTask(t)
           \/ \E t \in Task : merge_device_state(t) \/ save_included(t) \/ save_excluded(t)
           \/ \E t \in Task : SaveStep(t)
           \/ crash
           \/ MainStep
           \/ UNCHANGED vars
BY DEF Next, ServerStep, TaskStep, QuietServer, QuietTask, SaveStep

\* A save that begins has its shape, and so has each save after a step.
LEMMA NextShape ==
    ASSUME TypeOK, MainInv, \A t \in Task : SaveShape(t), [Next]_vars
    PROVE  TypeOK' /\ \A t \in Task : SaveShape(t)'
<1>q. ASSUME SavesSame PROVE \A t \in Task : SaveShape(t)'
  BY <1>q DEF SavesSame, SaveShape
<1>1. CASE QuietServer
  <2>1. TypeOK'
    BY <1>1, QuietServerFacts, QuietStates, QuietPackets DEF TypeOK, SavesSame, StatesShrink
  <2> QED
    BY <1>1, <1>q, <2>1, QuietServerFacts
<1>2. ASSUME NEW t \in Task, QuietTask(t) PROVE TypeOK' /\ \A x \in Task : SaveShape(x)'
  <2>1. TypeOK'
    BY <1>2, QuietTaskFacts, QuietStates, QuietPackets DEF TypeOK, SavesSame, StatesShrink
  <2> QED
    BY <1>2, <1>q, <2>1, QuietTaskFacts
<1>b. ASSUME NEW t \in Task, NEW jobs \in Seq(Job), NEW F \in SUBSET File, Begins(t, jobs, F),
             disturbed' \subseteq File
      PROVE  /\ DOMAIN task' = Task
             /\ \A x \in Task : task'[x] \in {NoTask} \cup Timer \cup Marking \cup Excluding \cup Save
             /\ path' = path /\ tmp' = tmp
             /\ \A x \in Task \ {t} : SaveShape(x)'
             /\ task'[t].pc = "open" /\ task'[t].fd = "none"
             /\ task'[t].jobs = jobs /\ task'[t].files = F
  <2>1. /\ DOMAIN task' = Task
        /\ task'[t] \in Save /\ task'[t].pc = "open" /\ task'[t].fd = "none"
        /\ task'[t].jobs = jobs /\ task'[t].files = F
        /\ \A x \in Task \ {t} : task'[x] = task[x]
    BY <1>b, BeginFacts
  <2>2. \A x \in Task \ {t} : SaveShape(x)'
    BY SMT, <2>1 DEF SaveShape, IsSave
  <2> QED
    BY <1>b, <2>1, <2>2 DEF Begins, TypeOK
<1>3. ASSUME NEW t \in Task, merge_device_state(t) PROVE TypeOK' /\ \A x \in Task : SaveShape(x)'
  <2>1. PICK e \in Endpoint : \E d \in State :
             /\ Begins(t, <<Writes(e, d)>>, {e})
             /\ disturbed' = disturbed \cup Contended(t, {e})
             /\ IsMap(state', Endpoint, State)
             /\ UNCHANGED <<included, main, wakaama, errors, restarts>> /\ rx' = Idle
    BY <1>3, MergeStep
  <2>2. PICK d \in State :
             /\ Begins(t, <<Writes(e, d)>>, {e})
             /\ disturbed' = disturbed \cup Contended(t, {e})
             /\ IsMap(state', Endpoint, State)
             /\ UNCHANGED <<included, main, wakaama, errors, restarts>> /\ rx' = Idle
    BY <2>1
  <2>3. e \in File /\ d \in Data(e) /\ <<Writes(e, d)>> \in Seq(Job) /\ {e} \in SUBSET File
    BY FileFacts, JobsType
  <2>4. disturbed' \subseteq File /\ rx' \in Packet
    BY <2>2, <2>3 DEF TypeOK, Contended, Idle, Packet
  <2>5. /\ DOMAIN task' = Task
        /\ \A x \in Task : task'[x] \in {NoTask} \cup Timer \cup Marking \cup Excluding \cup Save
        /\ path' = path /\ tmp' = tmp
        /\ \A x \in Task \ {t} : SaveShape(x)'
        /\ task'[t].pc = "open" /\ task'[t].fd = "none"
        /\ task'[t].jobs = <<Writes(e, d)>> /\ task'[t].files = {e}
    BY <1>b, <2>2, <2>3, <2>4
  <2>6. SaveShape(t)'
    BY <2>3, <2>5 DEF SaveShape
  <2>7. TypeOK'
    BY <2>2, <2>4, <2>5 DEF TypeOK
  <2> QED
    BY <2>5, <2>6, <2>7
<1>4. ASSUME NEW t \in Task, save_included(t) PROVE TypeOK' /\ \A x \in Task : SaveShape(x)'
  <2>1. /\ Begins(t, <<Writes("included", included)>>, {"included"})
        /\ disturbed' = disturbed \cup Contended(t, {"included"})
        /\ UNCHANGED <<memory, main, wakaama, errors, restarts>>
    BY <1>4, SaveListStep
  <2>2. included \in Data("included") /\ <<Writes("included", included)>> \in Seq(Job)
    BY FileFacts, JobsType DEF TypeOK
  <2>3. disturbed' \subseteq File /\ {"included"} \in SUBSET File
    BY <2>1, FileFacts DEF TypeOK, Contended
  <2>4. /\ DOMAIN task' = Task
        /\ \A x \in Task : task'[x] \in {NoTask} \cup Timer \cup Marking \cup Excluding \cup Save
        /\ path' = path /\ tmp' = tmp
        /\ \A x \in Task \ {t} : SaveShape(x)'
        /\ task'[t].pc = "open" /\ task'[t].fd = "none"
        /\ task'[t].jobs = <<Writes("included", included)>> /\ task'[t].files = {"included"}
    BY <1>b, <2>1, <2>2, <2>3
  <2>5. SaveShape(t)'
    BY <2>2, <2>4, FileFacts DEF SaveShape
  <2>6. TypeOK'
    BY <2>1, <2>3, <2>4 DEF TypeOK, memory
  <2> QED
    BY <2>4, <2>5, <2>6
<1>5. ASSUME NEW t \in Task, save_excluded(t) PROVE TypeOK' /\ \A x \in Task : SaveShape(x)'
  <2>1. PICK e \in Endpoint :
          /\ Begins(t, <<Writes("included", included), Deletes(e)>>, {"included", e})
          /\ disturbed' = disturbed \cup Contended(t, {"included", e})
                                    \cup ({e} \cap (DOMAIN state \cup included))
          /\ UNCHANGED <<memory, main, wakaama, errors, restarts>>
    BY <1>5, SaveExcludedStep
  <2>2. included \in SUBSET Endpoint /\ <<Writes("included", included), Deletes(e)>> \in Seq(Job)
    BY JobsType DEF TypeOK
  <2>3. disturbed' \subseteq File /\ {"included", e} \in SUBSET File
    BY SMT, <2>1, FileFacts DEF TypeOK, Contended
  <2>4. /\ DOMAIN task' = Task
        /\ \A x \in Task : task'[x] \in {NoTask} \cup Timer \cup Marking \cup Excluding \cup Save
        /\ path' = path /\ tmp' = tmp
        /\ \A x \in Task \ {t} : SaveShape(x)'
        /\ task'[t].pc = "open" /\ task'[t].fd = "none"
        /\ task'[t].jobs = <<Writes("included", included), Deletes(e)>>
        /\ task'[t].files = {"included", e}
    BY <1>b, <2>1, <2>2, <2>3
  <2>5. SaveShape(t)'
    BY <2>2, <2>4 DEF SaveShape
  <2>6. TypeOK'
    BY <2>1, <2>3, <2>4 DEF TypeOK, memory
  <2> QED
    BY <2>4, <2>5, <2>6
<1>6. ASSUME NEW t \in Task, SaveStep(t) PROVE TypeOK' /\ \A x \in Task : SaveShape(x)'
  <2>1. /\ task'[t] \in {NoTask} \cup Save
        /\ SaveShape(t)'
    <3>0. IsSave(t) /\ (Opened(t) \/ WrittenTo(t) \/ task'[t] = NextJob(task[t]))
      BY <1>6, SaveStepFacts
    <3>1. CASE Opened(t) \/ WrittenTo(t)
      <4>1. task[t].pc # "open" \/ Current(t).data # NoFile
        BY <3>1 DEF Opened, WrittenTo
      <4>2. ~\E e \in Endpoint : task[t].jobs = <<Deletes(e)>> /\ task[t].pc = "open"
        <5> SUFFICES ASSUME NEW e \in Endpoint, task[t].jobs = <<Deletes(e)>>, task[t].pc = "open"
                     PROVE  FALSE
          OBVIOUS
        <5>1. Current(t) = Deletes(e)
          BY OneJob DEF Current
        <5> QED
          BY SMT, <4>1, <5>1 DEF Deletes
      <4> QED
        BY <3>0, <3>1, <4>2 DEF SaveShape, Opened, WrittenTo, Kept
    <3>2. CASE task'[t] = NoTask
      BY SMT, <3>2 DEF SaveShape, IsSave, NoTask
    <3>3. ASSUME NEW e \in Endpoint, task'[t] = Saving(<<Deletes(e)>>, {"included", e})
          PROVE  task'[t] \in Save /\ SaveShape(t)'
      <4>1. <<Deletes(e)>> \in Seq(Job) /\ {"included", e} \in SUBSET File
        BY SMT, JobType, FileFacts DEF Deletes
      <4>2. /\ task'[t] \in Save /\ task'[t].pc = "open" /\ task'[t].fd = "none"
            /\ task'[t].jobs = <<Deletes(e)>> /\ task'[t].files = {"included", e}
        BY SMT, <3>3, <4>1 DEF Saving, Save
      <4> QED
        BY <4>2 DEF SaveShape
    <3> QED
      BY <3>0, <3>1, <3>2, <3>3, NextJobFacts DEF Opened, WrittenTo
  <2>2. \A x \in Task \ {t} : /\ task'[x] \in {NoTask} \cup Timer \cup Marking \cup Excluding \cup Save
                              /\ ~IsSave(x) => task'[x] = task[x]
                              /\ IsSave(x) => /\ task'[x].pc = task[x].pc
                                              /\ task[x].fd = "none" => task'[x].fd = "none"
                                              /\ Kept(x)
    BY <1>6, SaveStepFacts
  <2>3. \A x \in Task \ {t} : SaveShape(x)'
    BY SMT, <2>2 DEF SaveShape, IsSave, Kept
  <2>4. TypeOK'
    <3>1. Current(t).file \in File
      BY <1>6, SaveStepFacts, ShapeFacts
    <3>2. /\ UNCHANGED <<memory, main, wakaama, restarts>> /\ DOMAIN task' = Task
          /\ DOMAIN path' = File /\ DOMAIN tmp' = File
          /\ disturbed' \in {disturbed, disturbed \cup {Current(t).file}}
          /\ errors' \in 0 .. MaxError
      BY <1>6, SaveStepFacts
    <3>3. \A g \in File : path'[g] \in Content(g) /\ tmp'[g] \in Content(g)
      BY <1>6, SaveStepFacts DEF TypeOK
    <3>4. \A x \in Task : task'[x] \in {NoTask} \cup Timer \cup Marking \cup Excluding \cup Save
      BY <2>1, <2>2
    <3> QED
      BY <3>1, <3>2, <3>3, <3>4 DEF TypeOK, memory
  <2> QED
    BY <2>1, <2>3, <2>4
<1>7. CASE crash
  <2>1. \A t \in Task : SaveShape(t)'
    BY <1>7 DEF crash, SaveShape, IsSave, NoTask
  <2> QED
    BY <1>7, <2>1, CrashTypes
<1>8. CASE MainStep
  <2>1. task' = task
    BY <1>8 DEF MainStep, load_files, drop_orphan, restore, restore_device_state, run
  <2> QED
    BY <1>8, <2>1, MainTypes DEF SaveShape, IsSave
<1>9. CASE UNCHANGED vars
  BY <1>9 DEF vars, TypeOK, SaveShape, IsSave
<1> QED
  BY <1>1, <1>2, <1>3, <1>4, <1>5, <1>6, <1>7, <1>8, <1>9, NextKinds

-----------------------------------------------------------------------------
(* Undisturbed files.                                                      *)

\* On a file that stays undisturbed a save goes from open to write to rename,
\* and what it renames is what it was given.
Clean(t) ==
    \/ /\ Opened(t)
       /\ path'[Current(t).file] = path[Current(t).file] /\ tmp'[Current(t).file] = Empty
    \/ /\ WrittenTo(t)
       /\ path'[Current(t).file] = path[Current(t).file] /\ tmp'[Current(t).file] = Current(t).data
    \/ /\ task[t].pc = "rename" /\ Current(t).data # NoFile
       /\ path'[Current(t).file] = Current(t).data /\ task'[t] = NextJob(task[t])
    \/ /\ task[t].pc = "open" /\ Current(t).data = NoFile
       /\ path'[Current(t).file] \in {NoFile, path[Current(t).file]}
       /\ task'[t] = NextJob(task[t])

\* A step of a save whose file no other save meets does what it is there for.
LEMMA CleanStep ==
    ASSUME TypeOK, \A x \in Task : SaveShape(x), DiskInv, NEW t \in Task, SaveStep(t),
           Current(t).file \notin disturbed'
    PROVE  Clean(t)
<1> DEFINE f == Current(t).file
           d == Current(t).data
<1>1. /\ IsSave(t) /\ (Opened(t) \/ WrittenTo(t) \/ task'[t] = NextJob(task[t]))
      /\ disturbed' \in {disturbed, disturbed \cup {f}}
  BY SaveStepFacts
<1>2. f \notin disturbed
  BY <1>1
<1>3. f \in File /\ (task[t].pc # "open" => d \in Data(f))
  BY <1>1, ShapeFacts
<1>4. DOMAIN path = File /\ DOMAIN tmp = File
  BY DEF TypeOK
<1>5. /\ task[t].pc = "write" => task[t].fd = "tmp" /\ tmp[f] = Empty
      /\ task[t].pc = "rename" => tmp[f] = d
  BY <1>1, <1>2 DEF DiskInv
<1> HIDE DEF f, d
<1>10. CASE open(t)
  <2>1. tmp' = [tmp EXCEPT ![f] = Empty] /\ path' = path /\ task[t].pc = "open" /\ d # NoFile
    BY <1>10 DEF open, f, d, Current
  <2>2. task'[t] # NextJob(task[t])
    <3>1. task'[t].pc = "write"
      BY SMT, <1>10 DEF open, TypeOK
    <3> QED
      BY <1>1, <3>1, NextJobPc
  <2>3. Opened(t)
    BY <1>1, <2>1, <2>2 DEF WrittenTo
  <2> QED
    BY <1>3, <1>4, <2>1, <2>3 DEF Clean, f
<1>11. CASE write(t)
  <2>1. task[t].pc = "write"
    BY <1>11 DEF write
  <2>2. \E c \in Written(tmp[f], d) : tmp' = [tmp EXCEPT ![f] = c]
    BY <1>5, <1>11, <2>1 DEF write, f, d, Current
  <2>3. tmp'[f] = d /\ path' = path
    BY <1>3, <1>4, <1>5, <1>11, <2>1, <2>2 DEF write, Written
  <2>4. task'[t] # NextJob(task[t])
    <3>1. task'[t].pc = "rename"
      BY SMT, <1>11 DEF write, TypeOK
    <3> QED
      BY <1>1, <3>1, NextJobPc
  <2>5. WrittenTo(t)
    BY <1>1, <2>1, <2>4 DEF Opened
  <2> QED
    BY <2>3, <2>5 DEF Clean, f, d
<1>12. CASE write_fails(t)
  BY <1>12 DEF write_fails, f, Current
<1>13. CASE rename(t)
  <2>1. task[t].pc = "rename" /\ d # NoFile /\ tmp[f] = d
    BY <1>3, <1>5, <1>13, DataFacts DEF rename
  <2>2. path' = [path EXCEPT ![f] = tmp[f]]
    BY <1>13, <2>1 DEF rename, f, Current
  <2>3. task'[t] = NextJob(task[t])
    BY <1>1, <2>1 DEF Opened, WrittenTo
  <2> QED
    BY <1>3, <1>4, <2>1, <2>2, <2>3 DEF Clean, f, d
<1>14. CASE delete_device_state(t)
  <2>1. task[t].pc = "open" /\ d = NoFile /\ path' = [path EXCEPT ![f] = NoFile]
    BY <1>14 DEF delete_device_state, f, d, Current
  <2>2. task'[t] = NextJob(task[t])
    BY <1>1, <2>1 DEF Opened, WrittenTo, d
  <2> QED
    BY <1>3, <1>4, <2>1, <2>2 DEF Clean, f, d
<1>15. CASE delete_fails(t)
  <2>1. task[t].pc = "open" /\ d = NoFile /\ path' = path
    BY <1>15 DEF delete_fails, d, Current, disk
  <2>2. task'[t] = NextJob(task[t])
    BY <1>1, <2>1 DEF Opened, WrittenTo, d
  <2> QED
    BY <2>1, <2>2 DEF Clean, f, d
<1> QED
  BY <1>10, <1>11, <1>12, <1>13, <1>14, <1>15 DEF SaveStep, f

\* The files a save holds after a step: the same, or none.
LEMMA HeldAfter ==
    ASSUME TypeOK, \A x \in Task : SaveShape(x), NEW t \in Task, SaveStep(t)
    PROVE  /\ Held(t)' \in {{}, Held(t)}
           /\ \A u \in Task \ {t} : Held(u)' = Held(u) /\ (IsSave(u)' <=> IsSave(u))
           /\ \A u \in Task \ {t} : IsSave(u) => Current(u)' = Current(u)
<1>1. /\ IsSave(t) /\ (Opened(t) \/ WrittenTo(t) \/ task'[t] = NextJob(task[t]))
      /\ \A u \in Task \ {t} : /\ ~IsSave(u) => task'[u] = task[u]
                               /\ IsSave(u) => task'[u].pc = task[u].pc /\ Kept(u)
  BY SaveStepFacts
<1>2. \A u \in Task \ {t} : Held(u)' = Held(u) /\ (IsSave(u)' <=> IsSave(u))
  BY <1>1 DEF Held, IsSave, Kept
<1>3. Held(t)' \in {{}, Held(t)}
  <2>1. CASE Opened(t) \/ WrittenTo(t)
    BY <1>1, <2>1 DEF Opened, WrittenTo, Kept, Held, IsSave
  <2>2. CASE task'[t] = NoTask
    BY SMT, <2>2 DEF Held, IsSave, NoTask
  <2>3. ASSUME NEW e \in Endpoint, task'[t] = Saving(<<Deletes(e)>>, {"included", e}),
               Held(t) = {"included", e}
        PROVE  Held(t)' = Held(t)
    BY SMT, <2>3 DEF Held, IsSave, Saving
  <2> QED
    BY <1>1, <2>1, <2>2, <2>3, NextJobFacts
<1>4. \A u \in Task \ {t} : IsSave(u) => Current(u)' = Current(u)
  BY <1>1 DEF Kept, Current
<1> QED
  BY <1>2, <1>3, <1>4

\* What a step that takes data leaves alone, and what it adds.
LEMMA HeldAfterBegin ==
    ASSUME TypeOK, NEW t \in Task, NEW jobs \in Seq(Job), NEW F \in SUBSET File, Begins(t, jobs, F)
    PROVE  /\ Held(t) = {} /\ Held(t)' = F /\ IsSave(t)' /\ Current(t)' = Head(jobs)
           /\ \A u \in Task \ {t} : /\ task'[u] = task[u] /\ Held(u)' = Held(u)
                                    /\ (IsSave(u)' <=> IsSave(u)) /\ Current(u)' = Current(u)
           /\ \A u \in Task \ {t}, f \in F \ disturbed' : f \notin Held(u)
<1>1. /\ task'[t].pc = "open" /\ task'[t].jobs = jobs /\ task'[t].files = F
      /\ \A u \in Task \ {t} : task'[u] = task[u]
  BY BeginFacts
<1> QED
  BY SMT, <1>1 DEF Begins, Held, IsSave, Current, Contended

\* SavesSame, in the terms of the invariants.
LEMMA HeldSame ==
    ASSUME SavesSame
    PROVE  \A t \in Task : /\ Held(t)' = Held(t) /\ (IsSave(t)' <=> IsSave(t))
                           /\ IsSave(t) => task'[t] = task[t] /\ Current(t)' = Current(t)
BY DEF SavesSame, Held, Current

\* write_atomic: a file that no two saves met in is missing or whole.
LEMMA NextDisk ==
    ASSUME TypeOK, \A x \in Task : SaveShape(x), DiskInv, [Next]_vars
    PROVE  DiskInv'
<1>q. ASSUME SavesSame PROVE DiskInv'
  BY SMT, <1>q, HeldSame DEF SavesSame, DiskInv, WholeUnlessDisturbed
<1>b. ASSUME NEW t \in Task, NEW jobs \in Seq(Job), NEW F \in SUBSET File, Begins(t, jobs, F)
      PROVE  DiskInv'
  <2>0. path' = path /\ tmp' = tmp /\ disturbed \subseteq disturbed' /\ task'[t].pc = "open"
    BY <1>b, BeginFacts DEF Begins
  <2>1. /\ Held(t) = {} /\ Held(t)' = F
        /\ \A u \in Task \ {t} : /\ task'[u] = task[u] /\ Held(u)' = Held(u)
                                 /\ (IsSave(u)' <=> IsSave(u)) /\ Current(u)' = Current(u)
        /\ \A u \in Task \ {t}, f \in F \ disturbed' : f \notin Held(u)
    BY <1>b, HeldAfterBegin
  <2>2. (\A x, u \in Task : \A f \in File \ disturbed : f \in Held(x) /\ f \in Held(u) => x = u)'
    BY SMT, <2>0, <2>1 DEF DiskInv
  <2>3. (\A x \in Task : IsSave(x) /\ Current(x).file \notin disturbed =>
           /\ task[x].pc = "write" => task[x].fd = "tmp" /\ tmp[Current(x).file] = Empty
           /\ task[x].pc = "rename" => tmp[Current(x).file] = Current(x).data)'
    BY SMT, <2>0, <2>1 DEF DiskInv
  <2>4. WholeUnlessDisturbed'
    BY <2>0 DEF DiskInv, WholeUnlessDisturbed
  <2> QED
    BY <2>2, <2>3, <2>4 DEF DiskInv
<1>1. CASE QuietServer
  BY <1>1, <1>q, QuietServerFacts
<1>2. ASSUME NEW t \in Task, QuietTask(t) PROVE DiskInv'
  BY <1>2, <1>q, QuietTaskFacts
<1>3. ASSUME NEW t \in Task, merge_device_state(t) PROVE DiskInv'
  <2>1. PICK e \in Endpoint, d \in State : Begins(t, <<Writes(e, d)>>, {e})
    BY <1>3, MergeStep
  <2>2. <<Writes(e, d)>> \in Seq(Job) /\ {e} \in SUBSET File
    BY FileFacts, JobsType
  <2> QED
    BY <1>b, <2>1, <2>2
<1>4. ASSUME NEW t \in Task, save_included(t) PROVE DiskInv'
  <2>1. Begins(t, <<Writes("included", included)>>, {"included"})
    BY <1>4, SaveListStep
  <2>2. <<Writes("included", included)>> \in Seq(Job) /\ {"included"} \in SUBSET File
    BY FileFacts, JobsType DEF TypeOK
  <2> QED
    BY <1>b, <2>1, <2>2
<1>5. ASSUME NEW t \in Task, save_excluded(t) PROVE DiskInv'
  <2>1. PICK e \in Endpoint :
             Begins(t, <<Writes("included", included), Deletes(e)>>, {"included", e})
    BY <1>5, SaveExcludedStep
  <2>2. <<Writes("included", included), Deletes(e)>> \in Seq(Job) /\ {"included", e} \in SUBSET File
    BY FileFacts, JobsType DEF TypeOK
  <2> QED
    BY <1>b, <2>1, <2>2
<1>6. ASSUME NEW t \in Task, SaveStep(t) PROVE DiskInv'
  <2> DEFINE f == Current(t).file
  <2>1. /\ IsSave(t)
        /\ disturbed' \in {disturbed, disturbed \cup {f}}
        /\ \A u \in Task \ {t} : Current(u).file # f => task'[u] = task[u]
        /\ \A g \in File : g # f => path'[g] = path[g] /\ tmp'[g] = tmp[g]
    BY <1>6, SaveStepFacts
  <2>2. f \in Held(t) /\ f \in File
    BY <2>1, ShapeFacts
  <2>3. /\ Held(t)' \in {{}, Held(t)}
        /\ \A u \in Task \ {t} : Held(u)' = Held(u) /\ (IsSave(u)' <=> IsSave(u))
        /\ \A u \in Task \ {t} : IsSave(u) => Current(u)' = Current(u)
    BY <1>6, HeldAfter
  <2>4. f \notin disturbed' => Clean(t)
    BY <1>6, CleanStep
  <2>5. (\A x, u \in Task : \A g \in File \ disturbed : g \in Held(x) /\ g \in Held(u) => x = u)'
    BY SMT, <2>1, <2>3 DEF DiskInv
  <2>6. ASSUME NEW u \in Task \ {t}, IsSave(u)', Current(u)'.file \notin disturbed'
        PROVE  /\ task'[u].pc = "write" => task'[u].fd = "tmp" /\ tmp'[Current(u)'.file] = Empty
               /\ task'[u].pc = "rename" => tmp'[Current(u)'.file] = Current(u)'.data
    <3>1. IsSave(u) /\ Current(u)' = Current(u) /\ Current(u).file \notin disturbed
      BY <2>1, <2>3, <2>6
    <3>2. Current(u).file \in Held(u) /\ Current(u).file \in File
      BY <3>1, ShapeFacts
    <3>3. Current(u).file # f
      BY <2>2, <3>1, <3>2 DEF DiskInv
    <3> QED
      BY SMT, <2>1, <3>1, <3>2, <3>3 DEF DiskInv
  <2>7. ASSUME IsSave(t)', Current(t)'.file \notin disturbed'
        PROVE  /\ task'[t].pc = "write" => task'[t].fd = "tmp" /\ tmp'[Current(t)'.file] = Empty
               /\ task'[t].pc = "rename" => tmp'[Current(t)'.file] = Current(t)'.data
    <3>1. CASE task'[t] = NextJob(task[t])
      BY <2>1, <3>1, NextJobPc
    <3>2. CASE Opened(t) \/ WrittenTo(t)
      <4>1. Current(t)' = Current(t)
        BY <3>2 DEF Opened, WrittenTo, Kept, Current
      <4>2. Clean(t)
        BY <2>4, <2>7, <4>1
      <4> QED
        BY <3>2, <4>1, <4>2 DEF Clean, Opened, WrittenTo
    <3> QED
      BY <1>6, <3>1, <3>2, SaveStepFacts
  <2>8. WholeUnlessDisturbed'
    <3>1. f \notin disturbed' => path'[f] \notin {Empty, Torn}
      <4> SUFFICES ASSUME f \notin disturbed' PROVE path'[f] \notin {Empty, Torn}
        OBVIOUS
      <4>1. Clean(t)
        BY <2>4
      <4>2. path[f] \notin {Empty, Torn}
        BY <2>1, <2>2 DEF DiskInv, WholeUnlessDisturbed
      <4>3. Current(t).data # NoFile => Current(t).data \notin {Empty, Torn}
        BY <2>1, <2>2, ShapeFacts, DataFacts
      <4> QED
        BY <4>1, <4>2, <4>3, PersistenceAssumption DEF Clean
    <3> QED
      BY <2>1, <3>1 DEF DiskInv, WholeUnlessDisturbed
  <2> QED
    BY <2>5, <2>6, <2>7, <2>8 DEF DiskInv
<1>7. CASE crash
  BY <1>7 DEF crash, DiskInv, WholeUnlessDisturbed, Held, IsSave, NoTask
<1>8. CASE MainStep
  <2>1. task' = task /\ tmp' = tmp /\ disturbed' = disturbed
    BY <1>8 DEF MainStep, load_files, drop_orphan, restore, restore_device_state, run, disk
  <2>2. path' = path \/ \E e : path' = [path EXCEPT ![e] = NoFile]
    BY <1>8 DEF MainStep, load_files, drop_orphan, restore, restore_device_state, run,
       Deleted, NotDeleted, disk
  <2>3. WholeUnlessDisturbed'
    BY <2>1, <2>2, PersistenceAssumption DEF DiskInv, WholeUnlessDisturbed, TypeOK
  <2> QED
    BY <2>1, <2>3 DEF DiskInv, Held, IsSave, Current
<1>9. CASE UNCHANGED vars
  BY <1>9 DEF vars, DiskInv, WholeUnlessDisturbed, Held, IsSave, Current
<1> QED
  BY <1>1, <1>2, <1>3, <1>4, <1>5, <1>6, <1>7, <1>8, <1>9, NextKinds

-----------------------------------------------------------------------------
(* main.                                                                   *)

\* While main starts nothing else runs, and main does nothing after that.
LEMMA Phases ==
    ASSUME TypeOK, MainInv, [Next]_vars
    PROVE  \/ main = Running /\ main' = Running /\ ~MainStep /\ ~crash
           \/ crash
           \/ main # Running /\ MainStep
           \/ UNCHANGED vars
<1>1. CASE main # Running
  <2>1. rx = Idle /\ \A t \in Task : task[t] = NoTask
    BY <1>1 DEF MainInv
  <2>2. ~QuietServer
    BY <1>1, <2>1 DEF QuietServer, handle_registration, handle_delete, expire_stale, handle_dp,
       reply_fails, save_registry, Idle
  <2>3. \A t \in Task : ~QuietTask(t)
    BY SMT, <1>1, <2>1 DEF QuietTask, check_included, timer_fires, unmark_included, remove_excluded,
       mark_included, handle_exclusion, Idle, NoTask
  <2>4. \A t \in Task : ~(merge_device_state(t) \/ save_included(t) \/ save_excluded(t))
    BY SMTT(30), <2>1 DEF merge_device_state, save_included, save_excluded, Idle, NoTask
  <2>5. \A t \in Task : ~SaveStep(t)
    BY SMT, <2>1 DEF SaveStep, open, write, write_fails, rename, delete_device_state,
       delete_fails, NoTask
  <2> QED
    BY <1>1, <2>2, <2>3, <2>4, <2>5, NextKinds
<1>2. CASE main = Running
  <2>1. ~MainStep
    BY <1>2 DEF MainStep, load_files, drop_orphan, restore, restore_device_state, run, Running
  <2>2. main' = main \/ crash
    BY <2>1 DEF Next, ServerStep, TaskStep, handle_registration, handle_dp, handle_delete,
       reply_fails, check_included, merge_device_state, open, write, write_fails, rename,
       delete_device_state, delete_fails, timer_fires, mark_included, handle_exclusion, save_included,
       unmark_included, remove_excluded, save_excluded, expire_stale, save_registry, vars
  <2> QED
    BY <1>2, <2>1, <2>2
<1> QED
  BY <1>1, <1>2

\* Startup: what main has read is what is on disk.
LEMMA NextMain ==
    ASSUME TypeOK, MainInv, [Next]_vars
    PROVE  MainInv'
<1>1. CASE main' = Running
  BY <1>1 DEF MainInv, Running
<1>2. CASE crash
  BY <1>2 DEF crash, MainInv, EmptyMap
<1>3. CASE main # Running /\ MainStep
  <2>0. rx = Idle /\ (\A t \in Task : task[t] = NoTask) /\ task' = task /\ rx' = rx
    BY <1>3 DEF MainInv, MainStep, load_files, drop_orphan, restore, restore_device_state, run, memory
  <2>1. ASSUME NEW L \in SUBSET Endpoint, load_files(L) PROVE MainInv'
    <3>1. load_included' = load_included
      BY <2>1 DEF load_files, load_included, disk
    <3>2. main'.pc = "clean" /\ main'.list = load_included /\ main'.todo = L \ load_included
      BY <2>1 DEF load_files
    <3>3. DOMAIN state' = {}
      BY <2>1 DEF load_files, MainInv, memory
    <3> QED
      BY <2>0, <3>1, <3>2, <3>3 DEF MainInv
  <2>2. ASSUME NEW e \in Endpoint, drop_orphan(e) PROVE MainInv'
    <3>1. load_included' = load_included
      BY <2>2, OrphanFacts DEF drop_orphan
    <3>2. main \in Starting
      BY <2>2 DEF drop_orphan, TypeOK
    <3>3. main'.pc = "clean" /\ main'.list = main.list /\ main'.todo = main.todo \ {e} /\ state' = state
      BY <2>2, <3>2 DEF drop_orphan, Starting, memory
    <3> QED
      BY <2>0, <2>2, <3>1, <3>3 DEF MainInv, drop_orphan
  <2>3. CASE restore
    <3>1. load_included' = load_included
      BY <2>3 DEF restore, load_included
    <3>2. main \in Starting
      BY <2>3 DEF restore, TypeOK
    <3>3. /\ main'.pc = "states" /\ main'.list = main.list
          /\ main'.todo = {e \in Endpoint : Readable(e)}
          /\ included' = main.list /\ DOMAIN state' \subseteq main.list /\ path' = path
      BY <2>3, <3>2 DEF restore, Starting
    <3>4. main.list = load_included
      BY <2>3 DEF restore, MainInv
    <3> QED
      BY <2>0, <3>1, <3>3, <3>4 DEF MainInv, Readable
  <2>4. ASSUME NEW e \in Endpoint, restore_device_state(e) PROVE MainInv'
    <3>1. /\ main.pc = "states" /\ e \in main.todo /\ main.todo \subseteq Endpoint
          /\ main'.pc = "states" /\ main'.list = main.list /\ main'.todo = main.todo \ {e}
          /\ main.kept \subseteq main'.kept /\ included' = included
      BY <2>4, RestoreFacts DEF Starting
    <3>2. load_included' = load_included
      BY <2>4, RestoreFacts, OrphanFacts DEF load_included
    <3>3. DOMAIN state' = DOMAIN state
      BY <2>4, RestoreFacts DEF Insert
    <3>4. \A x \in Endpoint : x # e => (Readable(x)' <=> Readable(x))
      BY <2>4, RestoreFacts, OrphanFacts, FileFacts DEF Readable
    <3>5. Deleted(e) => ~Readable(e)'
      BY FileFacts DEF Deleted, Readable, TypeOK
    <3>6. Readable(e)' => e \in main.list \cup main'.kept
      BY <2>4, <3>5, RestoreFacts
    <3> QED
      BY <2>0, <3>1, <3>2, <3>3, <3>4, <3>6 DEF MainInv
  <2>5. CASE run
    BY <1>1, <2>5 DEF run
  <2> QED
    BY <1>3, <2>1, <2>2, <2>3, <2>4, <2>5 DEF MainStep
<1>4. CASE UNCHANGED vars
  BY <1>4 DEF vars, MainInv, load_included, Readable
<1> QED
  BY <1>1, <1>2, <1>3, <1>4, Phases

-----------------------------------------------------------------------------
(* The included list.                                                      *)

\* save_included: the list on disk is the one in memory, or a save is under way.
LEMMA NextList ==
    ASSUME TypeOK, \A x \in Task : SaveShape(x), DiskInv, MainInv, ListInv, [Next]_vars
    PROVE  ListInv'
<1> SUFFICES ASSUME main' = Running, "included" \notin disturbed', \A t \in Task : ~Unlisted(t)'
             PROVE  /\ \A t \in Task : "included" \in Held(t)' =>
                          IF Current(t)'.file = "included" THEN Current(t)'.data = included'
                                                           ELSE load_included' = included'
                    /\ (\A t \in Task : "included" \notin Held(t)') => load_included' = included'
  BY DEF ListInv
<1> DEFINE Goal == /\ \A t \in Task : "included" \in Held(t)' =>
                         IF Current(t)'.file = "included" THEN Current(t)'.data = included'
                                                          ELSE load_included' = included'
                   /\ (\A t \in Task : "included" \notin Held(t)') => load_included' = included'
<1>q. ASSUME SavesSame, included' = included, main = Running, \A t \in Task : ~Unlisted(t)
      PROVE  Goal
  <2>1. load_included' = load_included /\ disturbed' = disturbed
    BY <1>q DEF SavesSame, load_included
  <2>2. \A t \in Task : Held(t)' = Held(t) /\ (Held(t) # {} => Current(t)' = Current(t))
    BY <1>q, HeldSame DEF Held
  <2> QED
    BY <1>q, <2>1, <2>2 DEF ListInv
<1>1. CASE MainStep /\ main # Running
  <2>1. run
    <3>1. main'.pc = "run"
      BY SMT DEF Running
    <3>2. \A L : ~load_files(L)
      BY SMT, <3>1 DEF load_files
    <3>3. \A e \in Endpoint : ~restore_device_state(e)
      BY SMT, <3>1, RestoreFacts
    <3>4. \A e \in Endpoint : ~drop_orphan(e)
      <4>1. ASSUME NEW e \in Endpoint, drop_orphan(e) PROVE main'.pc = "clean"
        <5>1. main \in Starting
          BY <4>1 DEF drop_orphan, TypeOK
        <5> QED
          BY <4>1, <5>1 DEF drop_orphan, Starting
      <4> QED
        BY SMT, <3>1, <4>1
    <3>5. ~restore
      <4>1. ASSUME restore PROVE main'.pc = "states"
        <5>1. main \in Starting
          BY <4>1 DEF restore, TypeOK
        <5> QED
          BY <4>1, <5>1 DEF restore, Starting
      <4> QED
        BY SMT, <3>1, <4>1
    <3> QED
      BY <1>1, <3>2, <3>3, <3>4, <3>5 DEF MainStep
  <2>2. load_included = included /\ \A t \in Task : task[t] = NoTask
    BY <1>1, <2>1 DEF run, MainInv
  <2>3. load_included' = included' /\ \A t \in Task : Held(t)' = {}
    BY SMT, <2>1, <2>2 DEF run, load_included, memory, disk, Held, IsSave, NoTask
  <2> QED
    BY <2>3
<1>2. CASE crash
  BY SMT, <1>2 DEF crash, Running
<1>3. CASE UNCHANGED vars
  <2>1. SavesSame /\ included' = included /\ main = Running /\ \A t \in Task : ~Unlisted(t)
    BY <1>3 DEF vars, SavesSame, IsSave, Unlisted
  <2> QED
    BY <1>q, <2>1
<1>4. CASE main = Running /\ ~MainStep
  <2>1. CASE QuietServer
    <3>1. SavesSame /\ included' = included /\ \A t \in Task : ~Unlisted(t)
      BY <2>1, QuietServerFacts DEF Unlisted
    <3> QED
      BY <1>q, <1>4, <3>1
  <2>2. ASSUME NEW t \in Task, QuietTask(t) PROVE Goal
    <3>1. included' = included /\ ~Unlisted(t)
      <4>0. DOMAIN task = Task /\ ~Unlisted(t)'
        BY DEF TypeOK
      <4>1. CASE check_included(t)
        BY SMT, <4>0, <4>1 DEF check_included, Unlisted, NoTask
      <4>2. CASE timer_fires(t)
        BY <4>2 DEF timer_fires, Unlisted
      <4>3. CASE unmark_included(t) \/ remove_excluded(t)
        <5>1. task'[t].pc \in {"remove", "list"}
          BY <4>0, <4>3 DEF unmark_included, remove_excluded, TypeOK, Excluding, NoTask, Timer, Marking, Save
        <5> QED
          BY <4>0, <5>1 DEF Unlisted
      <4>4. ASSUME NEW e \in Endpoint, mark_included(t, e) PROVE FALSE
        BY <4>0, <4>4 DEF mark_included, Unlisted
      <4>5. ASSUME NEW e \in Endpoint, handle_exclusion(t, e) PROVE included' = included /\ ~Unlisted(t)
        BY SMT, <4>5 DEF handle_exclusion, Unlisted, NoTask, memory
      <4> QED
        BY <2>2, <4>1, <4>2, <4>3, <4>4, <4>5 DEF QuietTask
    <3>2. \A x \in Task \ {t} : task'[x] = task[x]
      BY <2>2 DEF QuietTask, check_included, timer_fires, unmark_included, remove_excluded,
         mark_included, handle_exclusion, TypeOK
    <3>3. \A x \in Task : ~Unlisted(x)
      BY <3>1, <3>2 DEF Unlisted
    <3> QED
      BY <1>q, <1>4, <2>2, <3>1, <3>3, QuietTaskFacts
  <2>3. ASSUME NEW t \in Task, merge_device_state(t) PROVE Goal
    <3>1. PICK e \in Endpoint, d \in State :
               Begins(t, <<Writes(e, d)>>, {e}) /\ included' = included
      BY <2>3, MergeStep
    <3>2. <<Writes(e, d)>> \in Seq(Job) /\ {e} \in SUBSET File /\ e # "included"
      BY FileFacts, JobsType
    <3>3. /\ Held(t) = {} /\ Held(t)' = {e}
          /\ \A u \in Task \ {t} : /\ task'[u] = task[u] /\ Held(u)' = Held(u)
                                   /\ Current(u)' = Current(u)
      BY <3>1, <3>2, HeldAfterBegin
    <3>4. \A x \in Task : ~Unlisted(x)
      BY SMT, <2>3, <3>3 DEF merge_device_state, spawn_save, Unlisted, NoTask
    <3>5. load_included' = load_included /\ disturbed \subseteq disturbed'
      BY <3>1 DEF Begins, load_included
    <3> QED
      BY <1>4, <3>1, <3>2, <3>3, <3>4, <3>5 DEF ListInv
  <2>4. ASSUME NEW t \in Task, save_included(t) PROVE Goal
    <3>1. Begins(t, <<Writes("included", included)>>, {"included"}) /\ included' = included
      BY <2>4, SaveListStep DEF memory
    <3>2. <<Writes("included", included)>> \in Seq(Job) /\ {"included"} \in SUBSET File
      BY FileFacts, JobsType DEF TypeOK
    <3>3. /\ Held(t)' = {"included"} /\ Current(t)' = Head(<<Writes("included", included)>>)
          /\ \A u \in Task \ {t} : Held(u)' = Held(u)
          /\ \A u \in Task \ {t}, f \in {"included"} \ disturbed' : f \notin Held(u)
      BY <3>1, <3>2, HeldAfterBegin
    <3>4. Current(t)'.file = "included" /\ Current(t)'.data = included
      BY SMT, <3>3, OneJob DEF Writes
    <3> QED
      BY <3>1, <3>3, <3>4
  <2>5. ASSUME NEW t \in Task, save_excluded(t) PROVE Goal
    <3>1. PICK e \in Endpoint :
               /\ Begins(t, <<Writes("included", included), Deletes(e)>>, {"included", e})
               /\ included' = included
      BY <2>5, SaveExcludedStep DEF memory
    <3>2. /\ <<Writes("included", included), Deletes(e)>> \in Seq(Job)
          /\ {"included", e} \in SUBSET File
      BY ZenonT(60), FileFacts, JobsType DEF TypeOK
    <3>3. /\ Held(t)' = {"included", e}
          /\ Current(t)' = Head(<<Writes("included", included), Deletes(e)>>)
          /\ \A u \in Task \ {t} : Held(u)' = Held(u)
          /\ \A u \in Task \ {t}, f \in {"included", e} \ disturbed' : f \notin Held(u)
      BY <3>1, <3>2, HeldAfterBegin
    <3>4. Current(t)'.file = "included" /\ Current(t)'.data = included
      BY SMT, <3>3, TwoJobs DEF Writes
    <3> QED
      BY <3>1, <3>3, <3>4
  <2>6. ASSUME NEW t \in Task, SaveStep(t) PROVE Goal
    <3> DEFINE f == Current(t).file
    <3>1. /\ IsSave(t) /\ included' = included
          /\ Opened(t) \/ WrittenTo(t) \/ task'[t] = NextJob(task[t])
          /\ disturbed' \in {disturbed, disturbed \cup {f}}
          /\ \A u \in Task \ {t} : /\ ~IsSave(u) => task'[u] = task[u]
                                   /\ IsSave(u) => task'[u].pc = task[u].pc
          /\ \A g \in File : g # f => path'[g] = path[g]
      BY <2>6, SaveStepFacts DEF memory
    <3>2. f \in Held(t) /\ f \in File /\ Current(t).data \in {NoFile} \cup Data(f)
      BY <3>1, ShapeFacts
    <3>3. /\ Held(t)' \in {{}, Held(t)}
          /\ \A u \in Task \ {t} : Held(u)' = Held(u) /\ (IsSave(u) => Current(u)' = Current(u))
      BY <2>6, HeldAfter
    <3>4. \A x \in Task : ~Unlisted(x)
      BY <3>1 DEF Unlisted, IsSave
    <3>5. /\ \A x \in Task : "included" \in Held(x) =>
               IF Current(x).file = "included" THEN Current(x).data = included
                                               ELSE load_included = included
          /\ (\A x \in Task : "included" \notin Held(x)) => load_included = included
      BY <1>4, <3>1, <3>4 DEF ListInv
    <3>6. \A x \in Task : "included" \in Held(x) => IsSave(x)
      BY DEF Held
    <3>7. CASE f # "included"
      <4>1. load_included' = load_included
        BY <3>1, <3>7, FileFacts DEF load_included
      <4>2. "included" \in Held(t)' => Current(t)'.file # "included"
        <5>1. CASE Opened(t) \/ WrittenTo(t)
          BY <3>7, <5>1 DEF Opened, WrittenTo, Kept, Current
        <5>2. CASE task'[t] = NextJob(task[t])
          <6>1. NextJob(task[t]) = NoTask
            BY <3>1, <3>7, NextJobFacts
          <6> QED
            BY SMT, <5>2, <6>1 DEF Held, IsSave, NoTask
        <5> QED
          BY <3>1, <5>1, <5>2
      <4> QED
        BY ZenonT(60), <3>1, <3>3, <3>5, <3>6, <3>7, <4>1, <4>2
    <3>8. CASE f = "included"
      <4>1. Clean(t) /\ Current(t).data = included /\ included # NoFile
        BY <2>6, <3>2, <3>5, <3>8, CleanStep, PersistenceAssumption DEF TypeOK
      <4>2. \A u \in Task \ {t} : "included" \notin Held(u)
        BY <3>1, <3>2, <3>8 DEF DiskInv
      <4>3. CASE Opened(t) \/ WrittenTo(t)
        <5>1. Current(t)' = Current(t) /\ Held(t)' = Held(t)
          BY <3>1, <4>3 DEF Opened, WrittenTo, Kept, Current, Held, IsSave
        <5> QED
          BY SMT, <3>1, <3>2, <3>3, <3>8, <4>1, <4>2, <5>1
      <4>4. CASE ~(Opened(t) \/ WrittenTo(t))
        <5>1. path'["included"] = included /\ task'[t] = NextJob(task[t])
          BY <3>8, <4>1, <4>4 DEF Clean
        <5>2. load_included' = included'
          BY <3>1, <5>1, PersistenceAssumption DEF load_included, TypeOK
        <5>3. "included" \in Held(t)' => Current(t)'.file # "included"
          <6>1. CASE NextJob(task[t]) = NoTask
            BY SMT, <5>1, <6>1 DEF Held, IsSave, NoTask
          <6>2. ASSUME NEW e \in Endpoint, NextJob(task[t]) = Saving(<<Deletes(e)>>, {"included", e})
                PROVE  Current(t)'.file # "included"
            BY SMT, <5>1, <6>2, OneJob, FileFacts DEF Current, Saving, Deletes
          <6> QED
            BY <3>1, <6>1, <6>2, NextJobFacts
        <5> QED
          BY <3>3, <4>2, <5>2, <5>3
      <4> QED
        BY <4>3, <4>4
    <3> QED
      BY <3>7, <3>8
  <2> QED
    BY <1>2, <1>3, <1>4, <2>1, <2>2, <2>3, <2>4, <2>5, <2>6, NextKinds
<1> QED
  BY <1>1, <1>2, <1>3, <1>4, Phases

-----------------------------------------------------------------------------
(* Deletions.                                                              *)

\* handle_exclusion: a file is deleted after the list without it is on disk.
LEMMA NextDelete ==
    ASSUME TypeOK, \A x \in Task : SaveShape(x), DiskInv, MainInv, DeleteInv, [Next]_vars
    PROVE  DeleteInv'
<1> SUFFICES ASSUME NEW x \in Task, NEW e \in Endpoint, Excludes(x, e)',
                    "included" \notin disturbed', e \notin disturbed'
             PROVE  IF Current(x)'.file = "included" THEN e \notin Current(x)'.data
                                                     ELSE e \notin load_included'
  BY DEF DeleteInv
<1> DEFINE Goal == IF Current(x)'.file = "included" THEN e \notin Current(x)'.data
                                                    ELSE e \notin load_included'
<1>0. Held(x)' = {"included", e} /\ e # "included" /\ IsSave(x)'
  BY DEF Excludes, Held
<1>q. ASSUME Excludes(x, e), Current(x)' = Current(x), load_included' = load_included,
             disturbed \subseteq disturbed'
      PROVE  Goal
  BY <1>q DEF DeleteInv
<1>s. ASSUME SavesSame PROVE Goal
  <2>1. Excludes(x, e) /\ Current(x)' = Current(x)
    BY <1>0, <1>s, HeldSame DEF Excludes, Held
  <2> QED
    BY <1>q, <1>s, <2>1 DEF SavesSame, load_included
<1>b. ASSUME NEW t \in Task, NEW jobs \in Seq(Job), NEW F \in SUBSET File, Begins(t, jobs, F), x # t
      PROVE  Goal
  <2>1. Excludes(x, e) /\ Current(x)' = Current(x)
    BY <1>0, <1>b, HeldAfterBegin DEF Excludes, Held
  <2> QED
    BY <1>b, <1>q, <2>1 DEF Begins, load_included
<1>1. CASE QuietServer
  BY <1>1, <1>s, QuietServerFacts
<1>2. ASSUME NEW t \in Task, QuietTask(t) PROVE Goal
  BY <1>2, <1>s, QuietTaskFacts
<1>3. ASSUME NEW t \in Task, merge_device_state(t) PROVE Goal
  <2>1. PICK a \in Endpoint, d \in State : Begins(t, <<Writes(a, d)>>, {a})
    BY <1>3, MergeStep
  <2>2. <<Writes(a, d)>> \in Seq(Job) /\ {a} \in SUBSET File
    BY FileFacts, JobsType
  <2>3. Held(t)' = {a}
    BY <2>1, <2>2, HeldAfterBegin
  <2>4. x # t
    BY SMT, <1>0, <2>3
  <2> QED
    BY <1>b, <2>1, <2>2, <2>4
<1>4. ASSUME NEW t \in Task, save_included(t) PROVE Goal
  <2>1. Begins(t, <<Writes("included", included)>>, {"included"})
    BY <1>4, SaveListStep
  <2>2. <<Writes("included", included)>> \in Seq(Job) /\ {"included"} \in SUBSET File
    BY FileFacts, JobsType DEF TypeOK
  <2>3. Held(t)' = {"included"}
    BY <2>1, <2>2, HeldAfterBegin
  <2>4. x # t
    BY <1>0, <2>3
  <2> QED
    BY <1>b, <2>1, <2>2, <2>4
<1>5. ASSUME NEW t \in Task, save_excluded(t) PROVE Goal
  <2>1. PICK a \in Endpoint :
             /\ Begins(t, <<Writes("included", included), Deletes(a)>>, {"included", a})
             /\ a \in included => a \in disturbed'
    BY <1>5, SaveExcludedStep
  <2>2. /\ <<Writes("included", included), Deletes(a)>> \in Seq(Job)
        /\ {"included", a} \in SUBSET File
    BY SMT, FileFacts, JobsType DEF TypeOK
  <2>3. CASE x = t
    <3>1. /\ Held(t)' = {"included", a}
          /\ Current(t)' = Head(<<Writes("included", included), Deletes(a)>>)
      BY <2>1, <2>2, HeldAfterBegin
    <3>2. a = e
      BY <1>0, <2>3, <3>1
    <3>3. Current(t)'.file = "included" /\ Current(t)'.data = included
      BY SMT, <3>1, TwoJobs DEF Writes
    <3> QED
      BY <2>1, <2>3, <3>2, <3>3
  <2> QED
    BY <1>b, <2>1, <2>2, <2>3
<1>6. ASSUME NEW t \in Task, SaveStep(t) PROVE Goal
  <2> DEFINE f == Current(t).file
  <2>1. /\ IsSave(t)
        /\ Opened(t) \/ WrittenTo(t) \/ task'[t] = NextJob(task[t])
        /\ disturbed' \in {disturbed, disturbed \cup {f}}
        /\ \A g \in File : g # f => path'[g] = path[g]
    BY <1>6, SaveStepFacts
  <2>2. f \in Held(t) /\ f \in File
    BY <2>1, ShapeFacts
  <2>3. /\ Held(t)' \in {{}, Held(t)}
        /\ \A u \in Task \ {t} : /\ Held(u)' = Held(u) /\ (IsSave(u)' <=> IsSave(u))
                                 /\ IsSave(u) => Current(u)' = Current(u)
    BY <1>6, HeldAfter
  <2>4. disturbed \subseteq disturbed'
    BY <2>1
  <2>5. IsSave(x) /\ Held(x) = {"included", e}
    BY <1>0, <2>1, <2>3
  <2>6. Excludes(x, e)
    BY <1>0, <2>5 DEF Excludes, Held
  <2>7. f # "included" => load_included' = load_included
    BY <2>1, FileFacts DEF load_included
  <2>8. CASE x # t
    <3>1. f # "included"
      BY <2>2, <2>4, <2>5, <2>8 DEF DiskInv
    <3> QED
      BY <1>q, <2>3, <2>4, <2>5, <2>6, <2>7, <2>8, <3>1
  <2>9. CASE x = t
    <3>1. CASE Opened(t) \/ WrittenTo(t)
      <4>1. Current(t)' = Current(t)
        BY <3>1 DEF Opened, WrittenTo, Kept, Current
      <4>2. load_included' = load_included
        <5>1. CASE f = "included"
          <6>1. Clean(t)
            BY <1>6, <5>1, CleanStep
          <6>2. task'[t] # NextJob(task[t])
            BY <2>1, <3>1, NextJobPc DEF Opened, WrittenTo
          <6> QED
            BY <5>1, <6>1, <6>2 DEF Clean, load_included
        <5> QED
          BY <2>7, <5>1
      <4> QED
        BY <1>q, <2>4, <2>6, <2>9, <4>1, <4>2
    <3>2. CASE task'[t] = NextJob(task[t]) /\ ~(Opened(t) \/ WrittenTo(t))
      <4>1. PICK a \in Endpoint :
              /\ task'[t] = Saving(<<Deletes(a)>>, {"included", a})
              /\ Held(t) = {"included", a} /\ f = "included"
              /\ task[t].jobs = <<Current(t), Deletes(a)>>
        <5>1. task'[t] # NoTask
          BY SMT, <1>0, <2>9 DEF IsSave, NoTask
        <5> QED
          BY <2>1, <3>2, <5>1, NextJobFacts
      <4>2. a = e
        BY <1>0, <2>5, <2>9, <4>1
      <4>3. Current(t)'.file = e
        BY SMT, <4>1, <4>2, OneJob DEF Current, Saving, Deletes
      <4>4. e \notin Current(t).data
        BY <2>4, <2>6, <2>9, <4>1 DEF DeleteInv
      <4>5. Clean(t)
        BY <1>6, <4>1, CleanStep
      <4>6. Current(t).data # NoFile
        <5>1. task[t].jobs # <<Deletes(e)>>
          BY SMTT(30), <4>1, OneJob, TwoJobs
        <5>2. PICK d \in SUBSET Endpoint : Current(t).data = d
          <6>1. ASSUME NEW g \in File, NEW d \in Data(g), task[t].jobs = <<Writes(g, d)>>,
                       task[t].files = {g}
                PROVE  FALSE
            BY SMT, <4>1, <6>1, OneJob, TwoJobs
          <6>2. ASSUME NEW b \in Endpoint, NEW d \in SUBSET Endpoint,
                       task[t].jobs = <<Writes("included", d), Deletes(b)>>
                PROVE  Current(t).data = d
            BY SMTT(30), <6>2, TwoJobs DEF Current, Writes
          <6>3. ASSUME NEW b \in Endpoint, task[t].jobs = <<Deletes(b)>> PROVE FALSE
            BY SMT, <4>1, <6>3, OneJob, TwoJobs
          <6> QED
            BY SMTT(30), <2>1, <6>1, <6>2, <6>3 DEF SaveShape
        <5> QED
          BY <5>2, PersistenceAssumption
      <4>7. path'["included"] = Current(t).data
        BY <3>2, <4>1, <4>5, <4>6 DEF Clean
      <4>8. e \notin load_included'
        BY <4>4, <4>7 DEF load_included
      <4> QED
        BY <1>0, <2>9, <4>3, <4>8
    <3> QED
      BY <2>1, <3>1, <3>2
  <2> QED
    BY <2>8, <2>9
<1>7. CASE crash
  BY <1>0, <1>7 DEF crash, IsSave, NoTask
<1>8. CASE MainStep
  <2>1. task' = task
    BY <1>8 DEF MainStep, load_files, drop_orphan, restore, restore_device_state, run
  <2>2. task[x] = NoTask
    BY <1>8, MainStarts DEF MainInv
  <2> QED
    BY SMT, <1>0, <2>1, <2>2 DEF IsSave, NoTask
<1>9. CASE UNCHANGED vars
  BY <1>s, <1>9 DEF vars, SavesSame, IsSave
<1> QED
  BY <1>1, <1>2, <1>3, <1>4, <1>5, <1>6, <1>7, <1>8, <1>9, NextKinds

-----------------------------------------------------------------------------
(* The states.                                                             *)

\* save_device_state: the state on disk is the one in memory, or a save is
\* under way, or it was disturbed.
LEMMA NextStates ==
    ASSUME TypeOK, \A x \in Task : SaveShape(x), DiskInv, MainInv, StateInv, [Next]_vars
    PROVE  StateInv'
<1> SUFFICES ASSUME NEW e \in DOMAIN state', e \notin disturbed', state'[e] # EmptyMap
             PROVE  /\ \A x \in Task : e \in Held(x)' => Current(x)' = Writes(e, state'[e])
                    /\ (\A x \in Task : e \notin Held(x)') => path'[e] = state'[e]
  BY DEF StateInv, Writes
<1> DEFINE Goal == /\ \A x \in Task : e \in Held(x)' => Current(x)' = Writes(e, state'[e])
                   /\ (\A x \in Task : e \notin Held(x)') => path'[e] = state'[e]
           Before == /\ \A x \in Task : e \in Held(x) => Current(x) = Writes(e, state[e])
                     /\ (\A x \in Task : e \notin Held(x)) => path[e] = state[e]
<1>0. e \in DOMAIN state /\ state'[e] = state[e] /\ disturbed \subseteq disturbed' => Before
  BY DEF StateInv
<1>f. \A x \in Task : Held(x) # {} => IsSave(x)
  BY DEF Held
<1>q. ASSUME StatesShrink, SavesSame PROVE Goal
  <2>1. e \in DOMAIN state /\ state'[e] = state[e] /\ disturbed' = disturbed /\ path' = path
    BY <1>q DEF StatesShrink, SavesSame
  <2>2. \A x \in Task : Held(x)' = Held(x) /\ (Held(x) # {} => Current(x)' = Current(x))
    BY <1>q, <1>f, HeldSame
  <2> QED
    BY <1>0, <2>1, <2>2
<1>b. ASSUME NEW t \in Task, NEW jobs \in Seq(Job), NEW F \in SUBSET File, Begins(t, jobs, F),
             e \notin F, e \in DOMAIN state, state'[e] = state[e]
      PROVE  Goal
  <2>1. /\ Held(t) = {} /\ Held(t)' = F
        /\ \A u \in Task \ {t} : Held(u)' = Held(u) /\ Current(u)' = Current(u)
    BY <1>b, HeldAfterBegin
  <2>2. path' = path /\ Before
    BY <1>0, <1>b DEF Begins
  <2> QED
    BY <1>b, <2>1, <2>2
<1>1. CASE QuietServer
  BY <1>1, <1>q, QuietServerFacts, QuietStates
<1>2. ASSUME NEW t \in Task, QuietTask(t) PROVE Goal
  BY <1>2, <1>q, QuietTaskFacts, QuietStates
<1>3. ASSUME NEW t \in Task, merge_device_state(t) PROVE Goal
  <2>1. PICK a \in Endpoint, d \in State :
             /\ Begins(t, <<Writes(a, d)>>, {a})
             /\ DOMAIN state' = DOMAIN state
             /\ a \in DOMAIN state => state'[a] = d
             /\ \A y \in DOMAIN state \ {a} : state'[y] = state[y]
    BY <1>3, MergeStep
  <2>2. <<Writes(a, d)>> \in Seq(Job) /\ {a} \in SUBSET File
    BY FileFacts, JobsType
  <2>3. CASE e = a
    <3>1. /\ Held(t)' = {a} /\ Current(t)' = Head(<<Writes(a, d)>>)
          /\ \A u \in Task \ {t} : Held(u)' = Held(u)
          /\ \A u \in Task \ {t}, f \in {a} \ disturbed' : f \notin Held(u)
      BY <2>1, <2>2, HeldAfterBegin
    <3>2. Current(t)' = Writes(e, state'[e])
      BY <2>1, <2>3, <3>1, OneJob
    <3> QED
      BY <2>3, <3>1, <3>2
  <2>4. CASE e # a
    BY <1>b, <2>1, <2>2, <2>4
  <2> QED
    BY <2>3, <2>4
<1>4. ASSUME NEW t \in Task, save_included(t) PROVE Goal
  <2>1. Begins(t, <<Writes("included", included)>>, {"included"}) /\ state' = state
    BY <1>4, SaveListStep DEF memory
  <2>2. <<Writes("included", included)>> \in Seq(Job) /\ {"included"} \in SUBSET File
    BY FileFacts, JobsType DEF TypeOK
  <2>3. e \notin {"included"}
    BY <2>1, FileFacts DEF TypeOK, IsMap
  <2> QED
    BY <1>b, <2>1, <2>2, <2>3
<1>5. ASSUME NEW t \in Task, save_excluded(t) PROVE Goal
  <2>1. PICK a \in Endpoint :
             /\ Begins(t, <<Writes("included", included), Deletes(a)>>, {"included", a})
             /\ a \in DOMAIN state => a \in disturbed'
             /\ state' = state
    BY <1>5, SaveExcludedStep DEF memory
  <2>2. /\ <<Writes("included", included), Deletes(a)>> \in Seq(Job)
        /\ {"included", a} \in SUBSET File
    BY ZenonT(60), FileFacts, JobsType DEF TypeOK
  <2>3. e \notin {"included", a}
    BY <2>1, FileFacts DEF TypeOK, IsMap
  <2> QED
    BY <1>b, <2>1, <2>2, <2>3
<1>6. ASSUME NEW t \in Task, SaveStep(t) PROVE Goal
  <2> DEFINE f == Current(t).file
  <2>1. /\ IsSave(t) /\ state' = state
        /\ Opened(t) \/ WrittenTo(t) \/ task'[t] = NextJob(task[t])
        /\ disturbed' \in {disturbed, disturbed \cup {f}}
        /\ \A g \in File : g # f => path'[g] = path[g]
    BY <1>6, SaveStepFacts DEF memory
  <2>2. f \in Held(t) /\ f \in File
    BY <2>1, ShapeFacts
  <2>3. /\ Held(t)' \in {{}, Held(t)}
        /\ \A u \in Task \ {t} : Held(u)' = Held(u) /\ (IsSave(u) => Current(u)' = Current(u))
    BY <1>6, HeldAfter
  <2>4. Before
    BY <1>0, <2>1
  <2>5. e \in Endpoint /\ e \in File /\ state[e] \in State
    BY <2>1, FileFacts DEF TypeOK, IsMap
  <2>6. CASE e # f
    <3>1. e \notin Held(t)
      BY SMT, <2>4, <2>6 DEF Writes
    <3> QED
      BY <1>f, <2>1, <2>3, <2>4, <2>5, <2>6, <3>1
  <2>7. CASE e = f
    <3>1. Current(t) = Writes(e, state[e]) /\ Current(t).data = state[e]
      BY SMT, <2>2, <2>4, <2>7 DEF Writes
    <3>2. \A u \in Task \ {t} : e \notin Held(u)
      BY <2>1, <2>2, <2>7 DEF DiskInv
    <3>3. Clean(t)
      BY <1>6, <2>7, CleanStep
    <3>4. CASE Opened(t) \/ WrittenTo(t)
      <4>1. Current(t)' = Current(t) /\ Held(t)' = Held(t)
        BY <2>1, <3>4 DEF Opened, WrittenTo, Kept, Current, Held, IsSave
      <4> QED
        BY <2>1, <2>2, <2>3, <2>7, <3>1, <3>2, <4>1
    <3>5. CASE ~(Opened(t) \/ WrittenTo(t))
      <4>1. path'[e] = state[e] /\ task'[t] = NextJob(task[t])
        BY <2>5, <2>7, <3>1, <3>3, <3>5, PersistenceAssumption DEF Clean
      <4>2. f # "included"
        BY <2>5, <2>7, FileFacts
      <4>3. NextJob(task[t]) = NoTask
        BY <2>1, <4>2, NextJobFacts
      <4>4. Held(t)' = {}
        BY SMT, <4>1, <4>3 DEF Held, IsSave, NoTask
      <4> QED
        BY <2>1, <2>3, <3>2, <4>1, <4>4
    <3> QED
      BY <3>4, <3>5
  <2> QED
    BY <2>6, <2>7
<1>7. CASE crash
  BY <1>7 DEF crash, EmptyMap
<1>8. CASE MainStep
  <2>1. task' = task /\ disturbed' = disturbed
    BY <1>8 DEF MainStep, load_files, drop_orphan, restore, restore_device_state, run
  <2>2. \A x \in Task : task[x] = NoTask
    BY <1>8, MainStarts DEF MainInv
  <2>3. \A x \in Task : Held(x) = {} /\ Held(x)' = {}
    BY SMT, <2>1, <2>2 DEF Held, IsSave, NoTask
  <2>4. path'[e] = state'[e]
    <3>1. CASE (\E L \in SUBSET Endpoint : load_files(L)) \/ run
      BY <1>0, <2>1, <2>3, <3>1 DEF load_files, run, memory, disk
    <3>2. ASSUME NEW a \in Endpoint, drop_orphan(a) PROVE FALSE
      BY <3>2 DEF drop_orphan, MainInv, memory
    <3>3. CASE restore
      BY <3>3 DEF restore
    <3>4. ASSUME NEW a \in Endpoint, restore_device_state(a) PROVE path'[e] = state'[e]
      <4>1. DOMAIN state \subseteq main.list
        BY <3>4, RestoreFacts DEF MainInv
      <4>2. CASE e = a /\ a \in DOMAIN state
        BY <3>4, <4>1, <4>2, RestoreFacts DEF Insert
      <4>3. CASE ~(e = a /\ a \in DOMAIN state)
        <5>1. e \in DOMAIN state /\ state'[e] = state[e] /\ e # a
          BY <3>4, <4>3, RestoreFacts DEF Insert
        <5>2. path'[e] = path[e]
          BY <3>4, <5>1, RestoreFacts, OrphanFacts, FileFacts DEF TypeOK, IsMap
        <5> QED
          BY <1>0, <2>1, <2>3, <5>1, <5>2
      <4> QED
        BY <4>2, <4>3
    <3> QED
      BY <1>8, <3>1, <3>2, <3>3, <3>4 DEF MainStep
  <2> QED
    BY <2>3, <2>4
<1>9. CASE UNCHANGED vars
  <2>1. StatesShrink /\ SavesSame
    BY <1>9 DEF vars, StatesShrink, SavesSame, IsSave, TypeOK
  <2> QED
    BY <1>q, <2>1
<1> QED
  BY <1>1, <1>2, <1>3, <1>4, <1>5, <1>6, <1>7, <1>8, <1>9, NextKinds

-----------------------------------------------------------------------------
(* The theorems.                                                           *)

\* The invariant holds at the start.
LEMMA InitInv == Init => PersistenceInv
<1> SUFFICES ASSUME Init PROVE PersistenceInv
  OBVIOUS
<1>1. TypeOK
  BY InitTypes
<1>2. /\ main = Running /\ included = {} /\ DOMAIN state = {}
      /\ \A t \in Task : task[t] = NoTask
      /\ \A f \in File : path[f] = NoFile
  BY DEF Init, EmptyMap
<1>3. \A t \in Task : ~IsSave(t) /\ Held(t) = {}
  BY SMT, <1>2 DEF IsSave, Held, NoTask
<1>4. \A t \in Task : SaveShape(t)
  BY <1>3 DEF SaveShape
<1>5. DiskInv
  BY <1>2, <1>3, PersistenceAssumption DEF DiskInv, WholeUnlessDisturbed
<1>6. ListInv /\ DeleteInv /\ StateInv
  BY <1>2, <1>3, FileFacts DEF ListInv, DeleteInv, Excludes, StateInv, load_included
<1>7. MainInv
  BY <1>2 DEF MainInv, Running
<1> QED
  BY <1>1, <1>4, <1>5, <1>6, <1>7 DEF PersistenceInv

\* Every step keeps the invariant.
LEMMA NextInv == PersistenceInv /\ [Next]_vars => PersistenceInv'
BY NextShape, NextDisk, NextList, NextDelete, NextStates, NextMain DEF PersistenceInv

\* The invariant holds at the start and every step keeps it.
THEOREM PersistenceInvariant == Spec => []PersistenceInv
BY InitInv, NextInv, PTL DEF Spec

\* A file that no two saves had at the same time, and no failed write, is whole
\* at every moment: write_atomic leaves the old text or the new one.
THEOREM FilesAreWhole == Spec => []WholeUnlessDisturbed
<1>1. PersistenceInv => WholeUnlessDisturbed
  BY DEF PersistenceInv, DiskInv
<1> QED
  BY <1>1, PersistenceInvariant, PTL

\* The list that save_included and save_excluded leave on disk, and that
\* load_included reads after a crash, is the list in memory.
THEOREM ListIsSaved == Spec => []ListSaved
<1>1. PersistenceInv => ListSaved
  BY DEF PersistenceInv, ListInv, ListSaved
<1> QED
  BY <1>1, PersistenceInvariant, PTL

\* The file that the save after merge_device_state leaves is the state in
\* memory, unless an exclusion or another save came in between.
THEOREM StatesAreSaved == Spec => []StateSaved
<1>1. PersistenceInv => StateSaved
  BY DEF PersistenceInv, StateInv, StateSaved
<1> QED
  BY <1>1, PersistenceInvariant, PTL

\* When main has read the files and cleaned them up, only included devices are
\* left in memory, and on disk but for states that this start failed to delete.
THEOREM StartupIsConsistent == Spec => StartupConsistent
<1>1. PersistenceInv /\ [Next]_vars
      => [run => /\ DOMAIN state \subseteq included
                 /\ \A e \in Endpoint : Readable(e) => e \in included \cup main.kept]_vars
  BY DEF PersistenceInv, MainInv, run
<1> QED
  BY <1>1, PersistenceInvariant, PTL DEF Spec, StartupConsistent

\* Neither an exclusion nor main deletes the state of a device that the list on
\* disk still names.
THEOREM DeletionsAreSafe == Spec => DeletedMeansUnlisted
<1> DEFINE Unlists == \A e \in Endpoint :
              path[e] # NoFile /\ path'[e] = NoFile /\ disturbed \cap {"included", e} = {}
              => e \notin load_included
<1>1. PersistenceInv /\ [Next]_vars => [Unlists]_vars
  <2> SUFFICES ASSUME PersistenceInv, [Next]_vars, NEW e \in Endpoint, path[e] # NoFile,
                      path'[e] = NoFile, "included" \notin disturbed, e \notin disturbed
               PROVE  e \notin load_included
    OBVIOUS
  <2> USE DEF PersistenceInv
  <2>0. e \in File /\ e # "included"
    BY FileFacts
  <2>1. CASE QuietServer
    BY <2>1, QuietServerFacts DEF SavesSame
  <2>2. ASSUME NEW t \in Task, QuietTask(t) PROVE FALSE
    BY <2>2, QuietTaskFacts DEF SavesSame
  <2>3. ASSUME NEW t \in Task, merge_device_state(t) \/ save_included(t) \/ save_excluded(t)
        PROVE  FALSE
    BY <2>3 DEF merge_device_state, save_included, save_excluded, disk
  <2>4. ASSUME NEW t \in Task, SaveStep(t) PROVE e \notin load_included
    <3>1. /\ IsSave(t) /\ disturbed' \in {disturbed, disturbed \cup {Current(t).file}}
          /\ \A g \in File : g # Current(t).file => path'[g] = path[g]
      BY <2>4, SaveStepFacts
    <3>2. Current(t).file = e
      BY <2>0, <3>1
    <3>3. CASE write_fails(t)
      BY SMTT(30), <3>2, <3>3, PersistenceAssumption DEF write_fails, Current, TypeOK
    <3>4. CASE ~write_fails(t)
      <4>1. disturbed' = disturbed
        BY <2>4, <3>4 DEF SaveStep, open, write, rename, delete_device_state, delete_fails
      <4>2. Clean(t)
        BY <2>4, <3>2, <4>1, CleanStep
      <4>3. Current(t).data = NoFile
        BY <3>2, <4>2 DEF Clean
      <4>4. task[t].files = {"included", e}
        <5>1. ASSUME NEW f \in File, NEW d \in Data(f), task[t].jobs = <<Writes(f, d)>> PROVE FALSE
          BY SMT, <4>3, <5>1, OneJob, DataFacts DEF Current, Writes
        <5>2. ASSUME NEW a \in Endpoint, NEW d \in SUBSET Endpoint,
                     task[t].jobs = <<Writes("included", d), Deletes(a)>>
              PROVE  FALSE
          BY SMT, <2>0, <3>2, <5>2, TwoJobs DEF Current, Writes
        <5>3. ASSUME NEW a \in Endpoint, task[t].jobs = <<Deletes(a)>>,
                     task[t].files = {"included", a}
              PROVE  task[t].files = {"included", e}
          BY SMT, <3>2, <5>3, OneJob DEF Current, Deletes
        <5> QED
          BY <3>1, <5>1, <5>2, <5>3 DEF SaveShape
      <4> QED
        BY SMT, <2>0, <3>1, <3>2, <4>4 DEF DeleteInv, Excludes
    <3> QED
      BY <3>3, <3>4
  <2>5. CASE crash
    BY <2>5 DEF crash
  <2>6. CASE MainStep
    <3>1. ASSUME NEW a \in Endpoint, drop_orphan(a) PROVE e \notin load_included
      <4>1. e = a
        BY <2>0, <3>1, OrphanFacts DEF drop_orphan
      <4> QED
        BY <3>1, <4>1 DEF drop_orphan, MainInv
    <3>2. ASSUME NEW a \in Endpoint, restore_device_state(a) PROVE e \notin load_included
      <4>1. e = a /\ e \notin main.list
        BY <2>0, <3>2, RestoreFacts, OrphanFacts
      <4> QED
        BY <3>2, <4>1, RestoreFacts DEF MainInv
    <3> QED
      BY <2>6, <3>1, <3>2 DEF MainStep, load_files, restore, run, disk
  <2>7. CASE UNCHANGED vars
    BY <2>7 DEF vars
  <2> QED
    BY <2>1, <2>2, <2>3, <2>4, <2>5, <2>6, <2>7, NextKinds
<1> QED
  BY <1>1, PersistenceInvariant, PTL DEF Spec, DeletedMeansUnlisted

\* Every variable keeps its type, through crashes and half-written files.
THEOREM TypeCorrect == Spec => []TypeOK
<1>1. PersistenceInv => TypeOK
  BY DEF PersistenceInv
<1> QED
  BY <1>1, PersistenceInvariant, PTL
=============================================================================
