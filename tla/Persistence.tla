---------------------------- MODULE Persistence -----------------------------
(***************************************************************************)
(* What the server remembers of its devices: the state each device         *)
(* reported with POST /dp, the set of included devices and the set of      *)
(* registered ones, in memory and in the files                             *)
(*                                                                         *)
(*   included_devices.json   wakaama.json   devices/<endpoint>.json        *)
(*                                                                         *)
(* The server task handles one packet at a time.  A save is a blocking     *)
(* task that was given its data when it was spawned; an exclusion and the  *)
(* timer after a factory reset are tasks too.  The process may stop at any *)
(* moment; main then reads the files, cleans them up and starts again, and *)
(* may be stopped while it does.                                           *)
(*                                                                         *)
(* A registered device is known by its endpoint here: which address leads  *)
(* to which device is the subject of DeviceRegistry.                       *)
(***************************************************************************)
EXTENDS Integers, Sequences, HashMap

CONSTANTS
    Endpoint,
    Leaf,        \* the leaves of a state: object/instance/resource/kind of value
    Known,       \* those whose object is in the IPSO model
    Value,
    Task,        \* bound: tasks that run at the same time
    NoFile,      \* there is no such file
    Empty,       \* a file that was truncated and not yet written
    Torn,        \* a file with parts of two saves, or of one
    MaxError,    \* bound: system calls that fail
    MaxRestart   \* bound: crashes

\* The files whose saves are followed step by step: the included list, and
\* the state of each device.
File == {"included"} \cup Endpoint

State == UNION {[L -> Value] : L \in SUBSET Leaf}

ASSUME PersistenceAssumption ==
    /\ "included" \notin Endpoint
    /\ Known \subseteq Leaf
    /\ \A d \in SUBSET Endpoint : d \notin {NoFile, Empty, Torn}
    /\ \A d \in State : d \notin {NoFile, Empty, Torn}
    /\ NoFile # Empty /\ NoFile # Torn /\ Empty # Torn
    /\ MaxError \in Nat
    /\ MaxRestart \in Nat

VARIABLES
    state,      \* Device::state of each registered device
    included,   \* the included set of BootstrapRegistry
    rx,         \* where the server task is in handling a packet
    task,       \* the tasks
    main,       \* where main is: starting or running
    path,       \* what each file holds
    tmp,        \* what the temporary file of each file holds
    wakaama,    \* the devices in wakaama.json
    disturbed,  \* history: the files whose saves have met a disturbance
    errors,
    restarts

memory == <<state, included, rx>>
disk   == <<path, tmp, wakaama>>
vars   == <<state, included, rx, task, main, path, tmp, wakaama, disturbed,
            errors, restarts>>

-----------------------------------------------------------------------------
(* Types.                                                                  *)

Data(f) == IF f = "included" THEN SUBSET Endpoint ELSE State

Content(f) == {NoFile, Empty, Torn} \cup Data(f)

\* What a save does to one file: write it, or delete it.
Job == UNION {[file : {f}, data : {NoFile} \cup Data(f)] : f \in File}

NoTask == [pc |-> "none"]

\* The timer of 10 s after a factory reset.
Timer == [pc : {"armed"}, ep : Endpoint]

\* The end of a write phase: the endpoint is marked, the list is to be saved.
Marking == [pc : {"marked"}]

\* handle_exclusion; found: the device was registered when it was looked up.
Excluding == [pc : {"unmark", "remove", "list"}, ep : Endpoint, found : BOOLEAN]

\* A save: the jobs left, where it is in the first of them, and what the file
\* it has open is by now; files: all it was given data for.
Save == [pc : {"open", "write", "rename"}, jobs : Seq(Job), files : SUBSET File,
         fd : {"none", "tmp", "path", "gone"}]

Packet == [pc : {"idle"}]
          \cup [pc : {"check"}, ep : Endpoint]
          \cup [pc : {"merge"}, ep : Endpoint, report : State]

Idle == [pc |-> "idle"]

\* main between load and run: the registrations and the list it has read, the
\* endpoints whose files it has still to look at, and those whose orphaned states
\* it has failed to delete.
Starting == [pc : {"clean", "states"}, clients : SUBSET Endpoint, list : SUBSET Endpoint,
             todo : SUBSET Endpoint, kept : SUBSET Endpoint]
Running == [pc |-> "run"]

TypeOK ==
    /\ IsMap(state, Endpoint, State)
    /\ included \subseteq Endpoint
    /\ rx \in Packet
    /\ \A t \in Task : task[t] \in {NoTask} \cup Timer \cup Marking \cup Excluding \cup Save
    /\ DOMAIN task = Task
    /\ main \in [pc : {"run", "load"}] \cup Starting
    /\ DOMAIN path = File /\ \A f \in File : path[f] \in Content(f)
    /\ DOMAIN tmp = File /\ \A f \in File : tmp[f] \in Content(f)
    /\ wakaama \subseteq Endpoint
    /\ disturbed \subseteq File
    /\ errors \in 0 .. MaxError
    /\ restarts \in 0 .. MaxRestart

-----------------------------------------------------------------------------
(* Saves.                                                                  *)

IsSave(t) == task[t].pc \in {"open", "write", "rename"}

\* The files a task was given data for and may still write or delete.
Held(t) == IF IsSave(t) THEN task[t].files ELSE {}

\* Data for the files F is taken by task t.  A file is disturbed if another task
\* holds it at that moment; also if a write fails, and if an exclusion deletes
\* the state of a device that is registered or included again.
Contended(t, F) == {f \in F : \E u \in Task \ {t} : f \in Held(u)}

Take(t, F) == disturbed' = disturbed \cup Contended(t, F)

Saving(jobs, F) == [pc |-> "open", jobs |-> jobs, files |-> F, fd |-> "none"]

\* spawn_blocking of the save of one file.
spawn_save(t, f, data) ==
    /\ task[t] = NoTask
    /\ task' = [task EXCEPT ![t] = Saving(<<[file |-> f, data |-> data]>>, {f})]
    /\ Take(t, {f})

\* The job is done, or given up.
NextJob(s) == IF Len(s.jobs) = 1 THEN NoTask
              ELSE [s EXCEPT !.pc = "open", !.jobs = Tail(@), !.fd = "none"]

\* A rename, or the removal of a file: the saves that have it open go on with
\* what they opened, under its new name or none.
AfterRename == [none |-> "none", tmp |-> "path", path |-> "gone", gone |-> "gone"]
AfterRemove == [none |-> "none", tmp |-> "tmp", path |-> "gone", gone |-> "gone"]

Relink(f, after) ==
    [t \in Task |-> IF IsSave(t) /\ Head(task[t].jobs).file = f
                    THEN [task[t] EXCEPT !.fd = after[@]] ELSE task[t]]

\* Mutant of open: the file is written in place, without a temporary file.
open_in_place(t) ==
    /\ task[t].pc = "open"
    /\ LET job == Head(task[t].jobs)
       IN  /\ job.data # NoFile
           /\ path' = [path EXCEPT ![job.file] = Empty]
    /\ task' = [task EXCEPT ![t].pc = "write", ![t].fd = "path"]
    /\ UNCHANGED <<memory, main, wakaama, tmp, disturbed, errors, restarts>>

\* fs::write, first half: the temporary file is created or truncated.
open(t) ==
    /\ task[t].pc = "open"
    /\ LET job == Head(task[t].jobs)
       IN  /\ job.data # NoFile
           /\ tmp' = [tmp EXCEPT ![job.file] = Empty]
    /\ task' = [task EXCEPT ![t].pc = "write", ![t].fd = "tmp"]
    /\ UNCHANGED <<memory, main, wakaama, path, disturbed, errors, restarts>>

\* What writing data from the start leaves in a file.  The rest of a longer
\* text stays behind it.
Written(old, data) == IF old \in {Empty, data} THEN {data} ELSE {data, Torn}

\* fs::write, second half: into whatever the file opened has become.
write(t) ==
    /\ task[t].pc = "write"
    /\ LET job == Head(task[t].jobs)
       IN  /\ IF task[t].fd = "tmp"
              THEN \E c \in Written(tmp[job.file], job.data) : tmp' = [tmp EXCEPT ![job.file] = c]
              ELSE UNCHANGED tmp
           /\ IF task[t].fd = "path"
              THEN \E c \in Written(path[job.file], job.data) : path' = [path EXCEPT ![job.file] = c]
              ELSE UNCHANGED path
    /\ task' = [task EXCEPT ![t].pc = "rename", ![t].fd = "none"]
    /\ UNCHANGED <<memory, main, wakaama, disturbed, errors, restarts>>

\* fs::write fails half-way, on a full disk: there is no rename, only a warning.
write_fails(t) ==
    /\ task[t].pc = "write"
    /\ errors < MaxError
    /\ errors' = errors + 1
    /\ LET f == Head(task[t].jobs).file
       IN  /\ tmp' = [tmp EXCEPT ![f] = IF task[t].fd = "tmp" THEN Torn ELSE @]
           /\ path' = [path EXCEPT ![f] = IF task[t].fd = "path" THEN Torn ELSE @]
           /\ disturbed' = disturbed \cup {f}
    /\ task' = [task EXCEPT ![t] = NextJob(task[t])]
    /\ UNCHANGED <<memory, main, wakaama, restarts>>

\* rename; it fails if another save has moved the temporary file away.
rename(t) ==
    /\ task[t].pc = "rename"
    /\ LET f == Head(task[t].jobs).file
       IN  IF tmp[f] = NoFile
           THEN /\ task' = [task EXCEPT ![t] = NextJob(task[t])]
                /\ UNCHANGED <<path, tmp>>
           ELSE /\ path' = [path EXCEPT ![f] = tmp[f]]
                /\ tmp' = [tmp EXCEPT ![f] = NoFile]
                /\ task' = [Relink(f, AfterRename) EXCEPT ![t] = NextJob(task[t])]
    /\ UNCHANGED <<memory, main, wakaama, disturbed, errors, restarts>>

\* delete_device_state; a file that is missing already is no error.
delete_device_state(t) ==
    /\ task[t].pc = "open"
    /\ LET f == Head(task[t].jobs).file
       IN  /\ Head(task[t].jobs).data = NoFile
           /\ path' = [path EXCEPT ![f] = NoFile]
           /\ task' = [Relink(f, AfterRemove) EXCEPT ![t] = NextJob(task[t])]
    /\ UNCHANGED <<memory, main, wakaama, tmp, disturbed, errors, restarts>>

\* remove_file fails: a warning, and the file stays.
delete_fails(t) ==
    /\ task[t].pc = "open"
    /\ Head(task[t].jobs).data = NoFile
    /\ errors < MaxError
    /\ errors' = errors + 1
    /\ task' = [task EXCEPT ![t] = NextJob(task[t])]
    /\ UNCHANGED <<memory, main, disk, disturbed, restarts>>

-----------------------------------------------------------------------------
(* The server task.                                                        *)

\* json_merge: objects are merged to the leaves, where the new value counts.
\* A resource that is reported as another kind of value is another leaf.
json_merge(old, new) ==
    [l \in DOMAIN old \cup DOMAIN new |-> IF l \in DOMAIN new THEN new[l] ELSE old[l]]

\* build_device_payload: objects the IPSO model does not know are left out.
build_device_payload(r) == [l \in DOMAIN r \cap Known |-> r[l]]

\* handle_registration up to the reply; a known device keeps its state.
handle_registration(e) ==
    /\ main = Running
    /\ rx = Idle
    /\ state' = IF e \in DOMAIN state THEN state ELSE Insert(state, e, EmptyMap)
    /\ rx' = [pc |-> "check", ep |-> e]
    /\ UNCHANGED <<included, task, main, disk, disturbed, errors, restarts>>

\* The reply cannot be sent: the handler ends there.
reply_fails ==
    /\ rx.pc = "check"
    /\ errors < MaxError
    /\ errors' = errors + 1
    /\ rx' = Idle
    /\ UNCHANGED <<state, included, task, main, disk, disturbed, restarts>>

\* A device that is not included is sent a factory reset, and a timer is to
\* remove it.
check_included(t) ==
    /\ rx.pc = "check"
    /\ IF rx.ep \in included
       THEN UNCHANGED task
       ELSE /\ task[t] = NoTask
            /\ task' = [task EXCEPT ![t] = [pc |-> "armed", ep |-> rx.ep]]
    /\ rx' = Idle
    /\ UNCHANGED <<state, included, main, disk, disturbed, errors, restarts>>

\* handle_dp, up to build_device_payload: an unknown device, an empty payload
\* or one with unknown objects only is ignored.
handle_dp(e, report) ==
    /\ main = Running
    /\ rx = Idle
    /\ e \in DOMAIN state
    /\ DOMAIN build_device_payload(report) # {}
    /\ rx' = [pc |-> "merge", ep |-> e, report |-> build_device_payload(report)]
    /\ UNCHANGED <<state, included, task, main, disk, disturbed, errors, restarts>>

\* Mutant of merge_device_state: what was known before the report is saved.
merge_saves_old(t) ==
    /\ rx.pc = "merge"
    /\ LET e      == rx.ep
           merged == IF e \in DOMAIN state THEN json_merge(state[e], rx.report) ELSE rx.report
       IN  /\ state' = IF e \in DOMAIN state THEN Insert(state, e, merged) ELSE state
           /\ spawn_save(t, e, IF e \in DOMAIN state THEN state[e] ELSE rx.report)
    /\ rx' = Idle
    /\ UNCHANGED <<included, main, disk, errors, restarts>>

\* merge_device_state_by_addr, and the save of what it returns: the merged
\* state, or the report alone if the device has been removed in between.
merge_device_state(t) ==
    /\ rx.pc = "merge"
    /\ LET e      == rx.ep
           merged == IF e \in DOMAIN state THEN json_merge(state[e], rx.report) ELSE rx.report
       IN  /\ state' = IF e \in DOMAIN state THEN Insert(state, e, merged) ELSE state
           /\ spawn_save(t, e, merged)
    /\ rx' = Idle
    /\ UNCHANGED <<included, main, disk, errors, restarts>>

\* handle_delete: the device is removed; its file stays.
handle_delete(e) ==
    /\ main = Running
    /\ rx = Idle
    /\ e \in DOMAIN state
    /\ state' = Remove(state, e)
    /\ UNCHANGED <<included, rx, task, main, disk, disturbed, errors, restarts>>

\* "read devices" of the command socket: what a client is told of a device.
read_devices(e) == IF e \in DOMAIN state THEN state[e] ELSE EmptyMap

-----------------------------------------------------------------------------
(* The other tasks.                                                        *)

\* expire_stale: nothing is saved.
expire_stale(e) ==
    /\ main = Running
    /\ e \in DOMAIN state
    /\ state' = Remove(state, e)
    /\ UNCHANGED <<included, rx, task, main, disk, disturbed, errors, restarts>>

\* The timer of a factory reset: the device is removed, whatever it is by now.
timer_fires(t) ==
    /\ task[t].pc = "armed"
    /\ state' = Remove(state, task[t].ep)
    /\ task' = [task EXCEPT ![t] = NoTask]
    /\ UNCHANGED <<included, rx, main, disk, disturbed, errors, restarts>>

\* A registration, a deregistration, a timer and an exclusion each end with a
\* snapshot that a task saves.  It may be late, be overtaken or fail: wakaama
\* is what the next start will find, a snapshot taken at any moment.  Bound: it
\* is followed as long as there is a next start.
save_registry ==
    /\ main = Running
    /\ restarts < MaxRestart
    /\ wakaama' = DOMAIN state
    /\ UNCHANGED <<memory, task, main, path, tmp, disturbed, errors, restarts>>

\* The end of a write phase: mark_included, then the list is saved.
mark_included(t, e) ==
    /\ main = Running
    /\ task[t] = NoTask
    /\ included' = included \cup {e}
    /\ task' = [task EXCEPT ![t] = [pc |-> "marked"]]
    /\ UNCHANGED <<state, rx, main, disk, disturbed, errors, restarts>>

save_included(t) ==
    /\ task[t].pc = "marked"
    /\ task' = [task EXCEPT ![t] =
                  Saving(<<[file |-> "included", data |-> included]>>, {"included"})]
    /\ Take(t, {"included"})
    /\ UNCHANGED <<memory, main, disk, errors, restarts>>

\* handle_exclusion: the device is looked up; then it has up to 30 s to answer
\* the factory reset.
handle_exclusion(t, e) ==
    /\ main = Running
    /\ task[t] = NoTask
    /\ task' = [task EXCEPT ![t] = [pc |-> "unmark", ep |-> e, found |-> e \in DOMAIN state]]
    /\ UNCHANGED <<memory, main, disk, disturbed, errors, restarts>>

unmark_included(t) ==
    /\ task[t].pc = "unmark"
    /\ included' = included \ {task[t].ep}
    /\ task' = [task EXCEPT ![t].pc = "remove"]
    /\ UNCHANGED <<state, rx, main, disk, disturbed, errors, restarts>>

remove_excluded(t) ==
    /\ task[t].pc = "remove"
    /\ state' = IF task[t].found THEN Remove(state, task[t].ep) ELSE state
    /\ task' = [task EXCEPT ![t].pc = "list"]
    /\ UNCHANGED <<included, rx, main, disk, disturbed, errors, restarts>>

\* Mutant of save_excluded: the list is taken before the device is unmarked.
save_excluded_old_list(t) ==
    /\ task[t].pc = "list"
    /\ LET e == task[t].ep
       IN  /\ task' = [task EXCEPT ![t] =
                         Saving(<<[file |-> "included", data |-> included \cup {e}],
                                  [file |-> e, data |-> NoFile]>>, {"included", e})]
           /\ Take(t, {"included", e})
    /\ UNCHANGED <<memory, main, disk, errors, restarts>>

\* Mutant of save_excluded: the state is deleted first.
save_excluded_reversed(t) ==
    /\ task[t].pc = "list"
    /\ LET e == task[t].ep
       IN  /\ task' = [task EXCEPT ![t] =
                         Saving(<<[file |-> e, data |-> NoFile],
                                  [file |-> "included", data |-> included]>>, {"included", e})]
           /\ disturbed' = disturbed \cup Contended(t, {"included", e})
                                     \cup ({e} \cap (DOMAIN state \cup included))
    /\ UNCHANGED <<memory, main, disk, errors, restarts>>

\* One task saves the list, deletes the state and saves the registrations.
save_excluded(t) ==
    /\ task[t].pc = "list"
    /\ LET e == task[t].ep
       IN  /\ task' = [task EXCEPT ![t] =
                         Saving(<<[file |-> "included", data |-> included],
                                  [file |-> e, data |-> NoFile]>>, {"included", e})]
           /\ disturbed' = disturbed \cup Contended(t, {"included", e})
                                     \cup ({e} \cap (DOMAIN state \cup included))
    /\ UNCHANGED <<memory, main, disk, errors, restarts>>

-----------------------------------------------------------------------------
(* Crash and restart.                                                      *)

\* A file that is missing or cannot be parsed counts as an empty list.
load_included == IF path["included"] \in {NoFile, Empty, Torn} THEN {} ELSE path["included"]

Readable(e) == path[e] \notin {NoFile, Empty, Torn}

\* The process stops, in main too.  Temporary files that are left over count as
\* absent, since nobody reads them and open truncates them.
crash ==
    /\ restarts < MaxRestart
    /\ restarts' = restarts + 1
    /\ state' = EmptyMap
    /\ included' = {}
    /\ rx' = Idle
    /\ task' = [t \in Task |-> NoTask]
    /\ main' = [pc |-> "load"]
    /\ tmp' = [f \in File |-> NoFile]
    /\ UNCHANGED <<path, wakaama, disturbed, errors>>

\* load_registry skips what has reached its end of life: any set L is left.
load_files(L) ==
    /\ main.pc = "load"
    /\ L \subseteq wakaama
    /\ main' = [pc |-> "clean", clients |-> L, list |-> load_included,
                todo |-> L \ load_included, kept |-> {}]
    /\ UNCHANGED <<memory, task, disk, disturbed, errors, restarts>>

\* An orphaned state is deleted, or not: remove_file may fail, with a warning.
Deleted(e) ==
    /\ path' = [path EXCEPT ![e] = NoFile]
    /\ UNCHANGED errors

NotDeleted ==
    /\ errors < MaxError
    /\ errors' = errors + 1
    /\ UNCHANGED path

\* An orphaned registration: its state is deleted.
drop_orphan(e) ==
    /\ main.pc = "clean"
    /\ e \in main.todo
    /\ Deleted(e) \/ NotDeleted
    /\ main' = [main EXCEPT !.todo = @ \ {e}]
    /\ UNCHANGED <<memory, task, tmp, wakaama, disturbed, restarts>>

\* Mutant of restore: states are taken over without a look at the file.
restore_unread ==
    /\ main.pc = "clean"
    /\ main.todo = {}
    /\ LET valid == main.clients \cap main.list
       IN  /\ wakaama' = IF main.clients = valid THEN wakaama ELSE valid
           /\ state' = [e \in valid |-> path[e]]
    /\ included' = main.list
    /\ main' = [main EXCEPT !.pc = "states", !.todo = {e \in Endpoint : Readable(e)}]
    /\ UNCHANGED <<rx, task, path, tmp, disturbed, errors, restarts>>

\* The registrations that are left are saved if there were orphans (nobody
\* else writes now), and restored with the included list.
restore ==
    /\ main.pc = "clean"
    /\ main.todo = {}
    /\ LET valid == main.clients \cap main.list
       IN  /\ wakaama' = IF main.clients = valid THEN wakaama ELSE valid
           /\ state' = [e \in valid |-> EmptyMap]
    /\ included' = main.list
    /\ main' = [main EXCEPT !.pc = "states", !.todo = {e \in Endpoint : Readable(e)}]
    /\ UNCHANGED <<rx, task, path, tmp, disturbed, errors, restarts>>

\* Mutant of restore_device_state: orphaned states stay on disk.
restore_keeps_orphans(e) ==
    /\ main.pc = "states"
    /\ e \in main.todo
    /\ state' = IF e \in main.list /\ e \in DOMAIN state THEN Insert(state, e, path[e]) ELSE state
    /\ main' = [main EXCEPT !.todo = @ \ {e}]
    /\ UNCHANGED <<included, rx, task, path, tmp, wakaama, disturbed, errors, restarts>>

\* load_all_device_states: the state of an included device is restored if the
\* device is registered, that of any other is deleted.
restore_device_state(e) ==
    /\ main.pc = "states"
    /\ e \in main.todo
    /\ \/ /\ e \in main.list
          /\ state' = IF e \in DOMAIN state THEN Insert(state, e, path[e]) ELSE state
          /\ main' = [main EXCEPT !.todo = @ \ {e}]
          /\ UNCHANGED <<path, errors>>
       \/ /\ e \notin main.list
          /\ Deleted(e)
          /\ main' = [main EXCEPT !.todo = @ \ {e}]
          /\ UNCHANGED state
       \/ /\ e \notin main.list
          /\ NotDeleted
          /\ main' = [main EXCEPT !.todo = @ \ {e}, !.kept = @ \cup {e}]
          /\ UNCHANGED state
    /\ UNCHANGED <<included, rx, task, tmp, wakaama, disturbed, restarts>>

run ==
    /\ main.pc = "states"
    /\ main.todo = {}
    /\ main' = Running
    /\ UNCHANGED <<memory, task, disk, disturbed, errors, restarts>>

-----------------------------------------------------------------------------

Init ==
    /\ state = EmptyMap
    /\ included = {}
    /\ rx = Idle
    /\ task = [t \in Task |-> NoTask]
    /\ main = Running
    /\ path = [f \in File |-> NoFile]
    /\ tmp = [f \in File |-> NoFile]
    /\ wakaama = {}
    /\ disturbed = {}
    /\ errors = 0
    /\ restarts = 0

ServerStep ==
    \/ \E e \in Endpoint : \/ handle_registration(e)
                           \/ \E r \in State : handle_dp(e, r)
                           \/ handle_delete(e)
    \/ reply_fails
    \/ \E t \in Task : check_included(t) \/ merge_device_state(t)

TaskStep(t) ==
    \/ open(t) \/ write(t) \/ write_fails(t) \/ rename(t)
    \/ delete_device_state(t) \/ delete_fails(t)
    \/ timer_fires(t)
    \/ \E e \in Endpoint : mark_included(t, e) \/ handle_exclusion(t, e)
    \/ save_included(t)
    \/ unmark_included(t) \/ remove_excluded(t) \/ save_excluded(t)

MainStep ==
    \/ \E L \in SUBSET Endpoint : load_files(L)
    \/ \E e \in Endpoint : drop_orphan(e) \/ restore_device_state(e)
    \/ restore
    \/ run

Next ==
    \/ ServerStep
    \/ \E t \in Task : TaskStep(t)
    \/ \E e \in Endpoint : expire_stale(e)
    \/ save_registry
    \/ crash
    \/ MainStep

Spec == Init /\ [][Next]_vars

-----------------------------------------------------------------------------
(* Properties.                                                             *)

\* README.md:393, "All writes are atomic (write to `.tmp`, then `rename`)": a
\* crash finds every file whole, as long as no two saves of it overlapped and
\* none failed.  All saves of a file use one temporary file (persistence.rs:255).
WholeUnlessDisturbed == \A f \in File \ disturbed : path[f] \notin {Empty, Torn}

\* A change of the included list that is not yet with a save.
Unlisted(t) == task[t].pc \in {"marked", "remove", "list"}

\* When the list is at rest, a restart finds the devices that are included now.
ListSaved ==
    /\ main = Running
    /\ "included" \notin disturbed
    /\ \A t \in Task : ~Unlisted(t) /\ "included" \notin Held(t)
    => load_included = included

\* When the file of a registered device is at rest, it holds the state the
\* device has in memory, if it has reported any since it registered.
StateSaved ==
    \A e \in DOMAIN state :
       main = Running /\ e \notin disturbed /\ (\A t \in Task : e \notin Held(t))
       => state[e] = EmptyMap \/ path[e] = state[e]

\* SPECIFICATION.md:175: after every start, also one that was cut short, all
\* that was restored is of included devices, and so is every state on disk but
\* those this very start has tried to delete and could not, whatever saves were
\* under way and whatever deletions had failed when the process stopped.
StartupConsistent ==
    [][run => /\ DOMAIN state \subseteq included
              /\ \A e \in Endpoint : Readable(e) => e \in included \cup main.kept]_vars

\* The state of a device is deleted only when the included list on disk does not
\* name the device any more: a crash in an exclusion leaves a device that is
\* still included with its state, or one that the next start forgets.
DeletedMeansUnlisted ==
    [][\A e \in Endpoint :
         path[e] # NoFile /\ path'[e] = NoFile /\ disturbed \cap {"included", e} = {}
         => e \notin load_included]_vars

\* SPECIFICATION.md:122 says of a DELETE: "The device remains included and its
\* state is preserved for the next reconnect".  So when an included device
\* registers again, a client is told what is saved of it.
StatePreserved ==
    [][\A e \in included :
         main = Running /\ e \notin DOMAIN state /\ e \in DOMAIN state' /\ Readable(e)
         => DOMAIN path[e] \subseteq DOMAIN read_devices(e)']_vars

-----------------------------------------------------------------------------
(* The inductive invariant behind them.                                    *)

Writes(f, d)   == [file |-> f, data |-> d]
Deletes(e)     == [file |-> e, data |-> NoFile]
Current(t)     == Head(task[t].jobs)
Excludes(t, e) == IsSave(t) /\ task[t].files = {"included", e} /\ e # "included"

\* A save writes one file, or writes the list and then deletes a state.
SaveShape(t) ==
    IsSave(t) =>
      /\ \/ \E f \in File : \E d \in Data(f) :
              task[t].jobs = <<Writes(f, d)>> /\ task[t].files = {f}
         \/ \E e \in Endpoint : \E d \in SUBSET Endpoint :
              /\ task[t].jobs = <<Writes("included", d), Deletes(e)>>
              /\ task[t].files = {"included", e}
         \/ \E e \in Endpoint :
              /\ task[t].jobs = <<Deletes(e)>>
              /\ task[t].files = {"included", e}
              /\ task[t].pc = "open"
      /\ task[t].pc # "write" => task[t].fd = "none"

\* One save at a time has an undisturbed file, and finds in the temporary file
\* what it has put there.
DiskInv ==
    /\ \A t, u \in Task : \A f \in File \ disturbed : f \in Held(t) /\ f \in Held(u) => t = u
    /\ \A t \in Task :
         IsSave(t) /\ Current(t).file \notin disturbed =>
           /\ task[t].pc = "write" => task[t].fd = "tmp" /\ tmp[Current(t).file] = Empty
           /\ task[t].pc = "rename" => tmp[Current(t).file] = Current(t).data
    /\ WholeUnlessDisturbed

\* The list in memory is on disk, or with the save that has the file.
ListInv ==
    /\ main = Running
    /\ "included" \notin disturbed
    /\ \A t \in Task : ~Unlisted(t)
    => /\ \A t \in Task :
            "included" \in Held(t) =>
              IF Current(t).file = "included" THEN Current(t).data = included
                                              ELSE load_included = included
       /\ (\A t \in Task : "included" \notin Held(t)) => load_included = included

\* A save that will delete a state saves a list without the device, or has.
DeleteInv ==
    \A t \in Task, e \in Endpoint :
       Excludes(t, e) /\ disturbed \cap {"included", e} = {} =>
         IF Current(t).file = "included" THEN e \notin Current(t).data ELSE e \notin load_included

\* A state in memory that is not empty is on disk, or with the save that has
\* the file.
StateInv ==
    \A e \in DOMAIN state :
       e \notin disturbed =>
         \/ state[e] = EmptyMap
         \/ /\ \A t \in Task : e \in Held(t) => Current(t) = Writes(e, state[e])
            /\ (\A t \in Task : e \notin Held(t)) => path[e] = state[e]

\* What main has done so far; nothing else runs before it is done.
MainInv ==
    /\ main # Running => rx = Idle /\ \A t \in Task : task[t] = NoTask
    /\ main.pc \in {"load", "clean"} => DOMAIN state = {}
    /\ main.pc \in {"clean", "states"} => main.list = load_included
    /\ main.pc = "clean" => main.todo \cap main.list = {}
    /\ main.pc = "states" =>
         /\ included = main.list
         /\ DOMAIN state \subseteq main.list
         /\ \A e \in Endpoint : Readable(e) => e \in main.todo \cup main.list \cup main.kept
         /\ \A e \in main.todo : Readable(e)

PersistenceInv ==
    /\ TypeOK
    /\ \A t \in Task : SaveShape(t)
    /\ DiskInv /\ ListInv /\ DeleteInv /\ StateInv /\ MainInv

=============================================================================
