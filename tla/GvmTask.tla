------------------------------ MODULE GvmTask ------------------------------
(***************************************************************************)
(* The scan-task side of the daemon: the task store (memory, the task file *)
(* and one status file per task), the create and delete sequences it       *)
(* drives in gvmd, and the periodic checks that follow a scan to its end   *)
(* and save its results.                                                   *)
(*                                                                         *)
(* The daemon has one thread: a request or a check runs to its end before  *)
(* the next one.  What can come between the steps of one job is gvmd,      *)
(* which runs and ends scans by itself, and a crash.  job holds the job    *)
(* under way.  A gvm-cli call fails without effect ("fail"), is carried    *)
(* out without the daemon learning so ("lost": the 5 s limit of gvm-cli,   *)
(* or a read of its output cut short) or is carried out ("ok").            *)
(*                                                                         *)
(* Time is left out: every task in the run queue may be the one whose      *)
(* check is due.  A request that is refused, and a check that learns       *)
(* nothing new, change no state and are stuttering steps.                  *)
(***************************************************************************)
EXTENDS Gvmd

CONSTANTS
    Extras,         \* what tasks may be created with: some of schedule, config
    Faults,         \* what can go wrong: some of FaultKinds
    MaxCrashes      \* bound: crashes of the daemon

FaultKinds == {"fail", "lost", "write", "status", "link"}

ASSUME GvmTaskAssumption ==
    /\ Extras \subseteq {"schedule", "config"}
    /\ Faults \subseteq FaultKinds
    /\ MaxCrashes \in Nat

VARIABLES
    up,         \* the daemon runs
    link,       \* what the daemon believes of its connection to gvmd
    task,       \* the tasks in memory, by name; id = 0: no task
    runq,       \* names of the tasks in the run queue
    job,        \* the request or check being carried out
    taskFile,   \* the task file: id and created objects, by name
    stFile,     \* the status file of each task; rid = 0: no file
    saved,      \* reports of a task whose results were written to its file
    nextId,     \* next creation attempt
    crashes,    \* crashes so far
    why,        \* history: what may have left objects of k behind
    acked,      \* history: attempts whose creation was answered with success
    deleted     \* history: attempts whose deletion was answered with success

dvars == <<up, link, task, runq, job, taskFile, stFile, saved, nextId>>
hvars == <<crashes, why, acked, deleted>>
vars == <<gvars, dvars, hvars>>

Kinds == ObjKinds \cup {"task"}
Reasons == {"failed", "lost", "crash", "busy", "unsaved"}

\* WAITING and RUNNING are RUNNING here; DONE, STOP and INTERRUPT are ENDED.
Status == {"CREATE", "READY", "RUNNING", "ENDED"}
ChkType == {"TASK", "REPORT", "RESULT", "DELETED"}

TaskRec == [id : 0..MaxId, objs : SUBSET Kinds, status : Status,
            chk : ChkType, rid : Nat]
NewTask(k, objs) == [id |-> k, objs |-> objs, status |-> "CREATE", chk |-> "TASK", rid |-> 0]
NoTask == NewTask(0, {})

FileRec == [id : 0..MaxId, objs : SUBSET Kinds]
NoRec == [id |-> 0, objs |-> {}]

StRec == [status : Status, chk : ChkType, rid : Nat]
NoSt == [status |-> "CREATE", chk |-> "TASK", rid |-> 0]

JobOps == {"idle", "create", "write", "rollback", "delete", "files", "status"}
JobRec == [op : JobOps, name : Names \cup {Nobody}, id : 0..MaxId,
           todo : SUBSET Kinds, objs : SUBSET Kinds]
NoJob == [op |-> "idle", name |-> Nobody, id |-> 0, todo |-> {}, objs |-> {}]

\* One type invariant for the daemon and gvmd.
TypeOK ==
    /\ GvmdTypeOK
    /\ up \in BOOLEAN
    /\ link \in {"ok", "shaky", "down"}
    /\ task \in [Names -> TaskRec]
    /\ runq \in SUBSET Names
    /\ job \in JobRec
    /\ taskFile \in [Names -> FileRec]
    /\ stFile \in [Ids -> StRec]
    /\ saved \in [Ids -> SUBSET Nat]
    /\ nextId \in 1..MaxId + 1
    /\ crashes \in Nat
    /\ why \in [Ids -> SUBSET Reasons]
    /\ acked \in SUBSET Ids
    /\ deleted \in SUBSET Ids

Init ==
    /\ GvmdInit
    /\ up = TRUE
    /\ link = "down"
    /\ task = [n \in Names |-> NoTask]
    /\ runq = {}
    /\ job = NoJob
    /\ taskFile = [n \in Names |-> NoRec]
    /\ stFile = [k \in Ids |-> NoSt]
    /\ saved = [k \in Ids |-> {}]
    /\ nextId = 1
    /\ crashes = 0
    /\ why = [k \in Ids |-> {}]
    /\ acked = {}
    /\ deleted = {}

----------------------------------------------------------------------------
(* Helpers                                                                 *)

Idle == up /\ job.op = "idle"
Ready == Idle /\ link # "down"

ChkTaskRunning(t) == t.status = "RUNNING"
\* Variant: the check type is not looked at.
ChkTaskBusy_StatusOnly(t) == ChkTaskRunning(t)

ChkTaskBusy(t) == ChkTaskRunning(t) \/ t.chk # "TASK"

Outcomes == {"ok"} \cup (Faults \cap {"fail", "lost"})
WriteOutcomes == IF "write" \in Faults THEN {TRUE, FALSE} ELSE {TRUE}
StatusOutcomes == IF "status" \in Faults THEN {TRUE, FALSE} ELSE {TRUE}

\* The orders in which objects are made and removed.
CreateRank == [target |-> 1, schedule |-> 2, config |-> 3, task |-> 4]
\* Variant: the target is removed before the task that uses it.
DeleteRank_TargetFirst == [task |-> 2, target |-> 1, schedule |-> 3, config |-> 4]

DeleteRank == [task |-> 1, target |-> 2, schedule |-> 3, config |-> 4]
IsFirst(kind, S, rank) == kind \in S /\ \A j \in S : rank[kind] <= rank[j]

Blame(k, r) == why' = [why EXCEPT ![k] = @ \cup r]

\* The task file is rewritten from all of memory.
WriteTaskFile(mem) ==
    taskFile' = [n \in Names |-> [id |-> mem[n].id, objs |-> mem[n].objs]]

\* The status file of a task is rewritten from memory; a failure is ignored.
WriteTaskStatus(t) ==
    \E w \in StatusOutcomes :
        stFile' = IF w THEN [stFile EXCEPT ![t.id] =
                               [status |-> t.status, chk |-> t.chk, rid |-> t.rid]]
                  ELSE stFile

----------------------------------------------------------------------------
(* Creating a task: target, schedule, config, task, then the task file.    *)

\* A create request for an unused name; ex is what it is created with.
CreateTask(n, ex) ==
    /\ Ready
    /\ task[n].id = 0
    /\ nextId <= MaxId
    /\ job' = [op |-> "create", name |-> n, id |-> nextId,
               todo |-> {"target", "task"} \cup ex, objs |-> {}]
    /\ gName' = [gName EXCEPT ![nextId] = n]
    /\ nextId' = nextId + 1
    /\ UNCHANGED <<gTask, gReport, gObj, up, link, task, runq, taskFile, stFile,
                   saved, hvars>>

\* Variant: a failed creation goes on as if it had succeeded.
ToRollback_GoOn(objs) == [job EXCEPT !.op = "write", !.objs = objs]

\* Removing what was made, task first; nothing made: nothing to do.
ToRollback(objs) ==
    IF objs = {} THEN NoJob
    ELSE [job EXCEPT !.op = "rollback", !.todo = objs, !.objs = objs]

CreateObj(kind, out) ==
    /\ up
    /\ job.op = "create"
    /\ IsFirst(kind, job.todo, CreateRank)
    /\ LET done == out = "ok" /\ CanCreate(kind, job.id)
           made == job.objs \cup {kind}
           left == job.todo \ {kind}
       IN  job' = IF ~done THEN ToRollback(job.objs)
                  ELSE [job EXCEPT !.op = IF left = {} THEN "write" ELSE "create",
                                   !.todo = left, !.objs = made]
    /\ IF out # "fail" /\ CanCreate(kind, job.id)
         THEN GvmdCreate(kind, job.id)
         ELSE UNCHANGED gvars
    /\ IF out = "lost" THEN Blame(job.id, {"lost"}) ELSE UNCHANGED why
    /\ UNCHANGED <<up, link, task, runq, taskFile, stFile, saved, nextId,
                   crashes, acked, deleted>>

\* Variant: the outcome of writing the task file is ignored.
CreateWrite_Unchecked(ok) ==
    /\ up
    /\ job.op = "write"
    /\ task' = [task EXCEPT ![job.name] = NewTask(job.id, job.objs)]
    /\ IF ok THEN WriteTaskFile(task') ELSE UNCHANGED taskFile
    /\ runq' = runq \cup {job.name}
    /\ acked' = acked \cup {job.id}
    /\ job' = NoJob
    /\ UNCHANGED <<gvars, up, link, stFile, saved, nextId, crashes, why, deleted>>

\* The new task enters memory, the task file and the run queue together.
CreateWrite(ok) ==
    /\ up
    /\ job.op = "write"
    /\ IF ok
         THEN /\ task' = [task EXCEPT ![job.name] = NewTask(job.id, job.objs)]
              /\ WriteTaskFile(task')
              /\ runq' = runq \cup {job.name}
              /\ acked' = acked \cup {job.id}
              /\ job' = NoJob
         ELSE /\ job' = ToRollback(job.objs)
              /\ UNCHANGED <<task, taskFile, runq, acked>>
    /\ UNCHANGED <<gvars, up, link, stFile, saved, nextId, crashes, why, deleted>>

----------------------------------------------------------------------------
(* Removing objects from gvmd, in a rollback and in a delete request.      *)

\* gvmd carries out one removal, unless it still needs the object.
GvmdRemove(kind, k) ==
    IF kind = "task" THEN GvmdDeleteTask(k)
    ELSE IF CanDelete(k) THEN GvmdDeleteObj(kind, k)
    ELSE UNCHANGED gvars

\* Why an object may outlive its removal: the call had no effect, or gvmd keeps
\* a task it is scanning.
Kept(kind, k, out) ==
    IF out = "fail" THEN {"failed"}
    ELSE IF kind = "task" /\ gTask[k] = "Active" THEN {"busy"}
    ELSE {}

\* Every object made is tried once; a failure is ignored.
RollbackObj(kind, out) ==
    /\ up
    /\ job.op = "rollback"
    /\ IsFirst(kind, job.todo, DeleteRank)
    /\ IF out = "fail" THEN UNCHANGED gvars ELSE GvmdRemove(kind, job.id)
    /\ Blame(job.id, Kept(kind, job.id, out))
    /\ job' = IF job.todo = {kind} THEN NoJob
              ELSE [job EXCEPT !.todo = @ \ {kind}]
    /\ UNCHANGED <<up, link, task, runq, taskFile, stFile, saved, nextId,
                   crashes, acked, deleted>>

\* A delete request removes the gvmd task first.  When that is not known to
\* have worked the request fails and nothing else is touched.
DeleteTask(n, out) ==
    /\ Ready
    /\ task[n].id # 0
    /\ ~ ChkTaskBusy(task[n])
    /\ out # "fail"
    /\ GvmdDeleteTask(task[n].id)
    /\ Blame(task[n].id, Kept("task", task[n].id, out)
                         \cup (IF out = "lost" THEN {"lost"} ELSE {}))
    /\ job' = IF out = "lost" THEN job
              ELSE LET todo == task[n].objs \ {"task"}
                   IN  [op |-> IF todo = {} THEN "files" ELSE "delete",
                        name |-> n, id |-> task[n].id, todo |-> todo, objs |-> {}]
    /\ UNCHANGED <<up, link, task, runq, taskFile, stFile, saved, nextId,
                   crashes, acked, deleted>>

\* Then the target, schedule and config; a failure is ignored.  The daemon
\* forgets a schedule or a config gvmd says it removed.
DeleteObj(kind, out) ==
    /\ up
    /\ job.op = "delete"
    /\ IsFirst(kind, job.todo, DeleteRank)
    /\ IF out = "fail" THEN UNCHANGED gvars ELSE GvmdRemove(kind, job.id)
    /\ Blame(job.id, Kept(kind, job.id, out))
    /\ task' = IF out = "ok" /\ CanDelete(job.id) /\ kind # "target"
               THEN [task EXCEPT ![job.name].objs = @ \ {kind}]
               ELSE task
    /\ job' = [job EXCEPT !.op = IF job.todo = {kind} THEN "files" ELSE "delete",
                          !.todo = @ \ {kind}]
    /\ UNCHANGED <<up, link, runq, taskFile, stFile, saved, nextId,
                   crashes, acked, deleted>>

\* Variant: the task is freed while still in the run queue.
ForgetTask_KeepQueued(n) ==
    /\ task' = [task EXCEPT ![n] = NoTask]
    /\ WriteTaskFile(task')
    /\ runq' = runq
    /\ stFile' = [stFile EXCEPT ![task[n].id] = NoSt]

\* The task leaves memory, the task file, the run queue and its directory.
ForgetTask(n) ==
    /\ task' = [task EXCEPT ![n] = NoTask]
    /\ WriteTaskFile(task')
    /\ runq' = runq \ {n}
    /\ stFile' = [stFile EXCEPT ![task[n].id] = NoSt]

\* Variant: the mark is saved to the status file, as if that alone made it safe.
DeleteFiles_SaveMark(ok) ==
    /\ up
    /\ job.op = "files"
    /\ IF ok
         THEN ForgetTask(job.name) /\ UNCHANGED why
         ELSE LET t == [task[job.name] EXCEPT !.chk = "DELETED"]
              IN  /\ task' = [task EXCEPT ![job.name] = t]
                  /\ Blame(job.id, {"unsaved"})
                  /\ WriteTaskStatus(t)
                  /\ UNCHANGED <<taskFile, runq>>
    /\ deleted' = deleted \cup {job.id}
    /\ job' = NoJob
    /\ UNCHANGED <<gvars, up, link, saved, nextId, crashes, acked>>

\* When the task file cannot be written the task is only marked, and the
\* request still answers with success.
DeleteFiles(ok) ==
    /\ up
    /\ job.op = "files"
    /\ IF ok
         THEN ForgetTask(job.name) /\ UNCHANGED why
         ELSE /\ task' = [task EXCEPT ![job.name].chk = "DELETED"]
              /\ Blame(job.id, {"unsaved"})
              /\ UNCHANGED <<taskFile, runq, stFile>>
    /\ deleted' = deleted \cup {job.id}
    /\ job' = NoJob
    /\ UNCHANGED <<gvars, up, link, saved, nextId, crashes, acked>>

----------------------------------------------------------------------------
(* Starting and stopping: the daemon only asks gvmd and hurries its check. *)

StartTask(n) ==
    /\ Ready
    /\ task[n].id # 0
    /\ ~ ChkTaskBusy(task[n])
    /\ GvmdStart(task[n].id)
    /\ UNCHANGED <<dvars, hvars>>

StopTask(n) ==
    /\ Ready
    /\ task[n].id # 0
    /\ ChkTaskRunning(task[n])
    /\ GvmdStop(task[n].id)
    /\ UNCHANGED <<dvars, hvars>>

----------------------------------------------------------------------------
(* The periodic checks.  One that fails leaves the task as it is.          *)

CheckDue(n, type) == Ready /\ n \in runq /\ task[n].chk = type

\* The report the task is at: the current one, else the last one, else no news.
ReportOf(k, old) ==
    IF CurrentReport(k) # 0 THEN CurrentReport(k)
    ELSE IF LastReport(k) # 0 THEN LastReport(k)
    ELSE old

\* Variant: only the first report of a task is taken up.
QueryTask_Once(n) ==
    LET k == task[n].id
        t == [task[n] EXCEPT !.rid = ReportOf(k, task[n].rid),
                             !.status = "READY", !.chk = "REPORT"]
    IN  /\ CheckDue(n, "TASK")
        /\ Visible(k)
        /\ task[n].rid = 0
        /\ t.rid # 0
        /\ task' = [task EXCEPT ![n] = t]
        /\ WriteTaskStatus(t)
        /\ UNCHANGED <<gvars, up, link, runq, job, taskFile, saved, nextId, hvars>>

\* Variant: the status of the previous scan is not reset.
QueryTask_KeepStatus(n) ==
    LET k == task[n].id
        t == [task[n] EXCEPT !.rid = ReportOf(k, task[n].rid), !.chk = "REPORT"]
    IN  /\ CheckDue(n, "TASK")
        /\ Visible(k)
        /\ t.rid # task[n].rid
        /\ task' = [task EXCEPT ![n] = t]
        /\ WriteTaskStatus(t)
        /\ UNCHANGED <<gvars, up, link, runq, job, taskFile, saved, nextId, hvars>>

QueryTask(n) ==
    LET k == task[n].id
        t == [task[n] EXCEPT !.rid = ReportOf(k, task[n].rid),
                             !.status = "READY", !.chk = "REPORT"]
    IN  /\ CheckDue(n, "TASK")
        /\ Visible(k)
        /\ t.rid # task[n].rid
        /\ task' = [task EXCEPT ![n] = t]
        /\ WriteTaskStatus(t)
        /\ UNCHANGED <<gvars, up, link, runq, job, taskFile, saved, nextId, hvars>>

\* Variants: gvmd's own status is stored; only a done report counts as ended.
RunStatus_Raw(r) == r

RunStatus_DoneOnly(r) == IF r = "done" THEN "ENDED" ELSE "RUNNING"

\* A report told to stop is taken for a stopped one.
RunStatus(r) == IF r = "run" THEN "RUNNING" ELSE "ENDED"

\* Variant: the results of an ended report are not fetched.
QueryReport_NoResults(n) ==
    LET k == task[n].id
        s == RunStatus(gReport[k][task[n].rid])
        t == [task[n] EXCEPT !.status = s,
                             !.chk = IF s = "RUNNING" THEN "REPORT" ELSE "TASK"]
    IN  /\ CheckDue(n, "REPORT")
        /\ Visible(k)
        /\ s # task[n].status
        /\ task' = [task EXCEPT ![n] = t]
        /\ WriteTaskStatus(t)
        /\ UNCHANGED <<gvars, up, link, runq, job, taskFile, saved, nextId, hvars>>

QueryReport(n) ==
    LET k == task[n].id
        s == RunStatus(gReport[k][task[n].rid])
        t == [task[n] EXCEPT !.status = s,
                             !.chk = IF s = "RUNNING" THEN "REPORT" ELSE "RESULT"]
    IN  /\ CheckDue(n, "REPORT")
        /\ Visible(k)
        /\ s # task[n].status
        /\ task' = [task EXCEPT ![n] = t]
        /\ WriteTaskStatus(t)
        /\ UNCHANGED <<gvars, up, link, runq, job, taskFile, saved, nextId, hvars>>

\* The last page of the results is here: they go to the result file first.
QueryResult(n, ok) ==
    /\ CheckDue(n, "RESULT")
    /\ Visible(task[n].id)
    /\ IF ok
         THEN /\ saved' = [saved EXCEPT ![task[n].id] = @ \cup {task[n].rid}]
              /\ UNCHANGED why
         ELSE /\ Blame(task[n].id, {"unsaved"})
              /\ UNCHANGED saved
    /\ job' = [NoJob EXCEPT !.op = "status", !.name = n, !.id = task[n].id]
    /\ UNCHANGED <<gvars, up, link, task, runq, taskFile, stFile, nextId,
                   crashes, acked, deleted>>

\* Then the task goes back to waiting for its next scan, and its status file
\* says so.
SaveStatus ==
    LET t == [task[job.name] EXCEPT !.chk = "TASK"]
    IN  /\ up
        /\ job.op = "status"
        /\ task' = [task EXCEPT ![job.name] = t]
        /\ WriteTaskStatus(t)
        /\ job' = NoJob
        /\ UNCHANGED <<gvars, up, link, runq, taskFile, saved, nextId, hvars>>

\* Variant: a task marked as deleted is only queued again.
RetryDelete_Requeue(n) ==
    /\ CheckDue(n, "DELETED")
    /\ UNCHANGED vars

\* A task marked as deleted: its files are tried again.
RetryDelete(n) ==
    /\ CheckDue(n, "DELETED")
    /\ ForgetTask(n)
    /\ UNCHANGED <<gvars, up, link, job, saved, nextId, hvars>>

----------------------------------------------------------------------------
(* The connection test of every minute: two failures in a row and the      *)
(* daemon holds the connection to be down; one success and it is up.       *)

ValidateGvmConn(ok) ==
    /\ Idle
    /\ link' = IF ok THEN "ok" ELSE IF link = "ok" THEN "shaky" ELSE "down"
    /\ UNCHANGED <<gvars, up, task, runq, job, taskFile, stFile, saved, nextId, hvars>>

----------------------------------------------------------------------------
(* Crash and restart: memory is lost, the files stay.                      *)

Crash ==
    /\ up
    /\ crashes < MaxCrashes
    /\ crashes' = crashes + 1
    /\ up' = FALSE
    /\ link' = "down"
    /\ task' = [n \in Names |-> NoTask]
    /\ runq' = {}
    /\ job' = NoJob
    /\ IF job.op \in {"create", "write", "rollback", "delete", "files"}
         THEN Blame(job.id, {"crash"}) ELSE UNCHANGED why
    /\ UNCHANGED <<gvars, taskFile, stFile, saved, nextId, acked, deleted>>

Known == {n \in Names : taskFile[n].id # 0}

\* A status file whose report id is not a uuid makes the daemon refuse to start.
StatusLoadable(k) == stFile[k] = NoSt \/ stFile[k].rid # 0

Restart ==
    /\ ~ up
    /\ \A n \in Known : StatusLoadable(taskFile[n].id)
    /\ up' = TRUE
    /\ task' = [n \in Names |->
                  IF n \notin Known THEN NoTask
                  ELSE [id |-> taskFile[n].id, objs |-> taskFile[n].objs,
                        status |-> stFile[taskFile[n].id].status,
                        chk |-> stFile[taskFile[n].id].chk,
                        rid |-> stFile[taskFile[n].id].rid]]
    /\ runq' = Known
    /\ UNCHANGED <<gvars, link, job, taskFile, stFile, saved, nextId, hvars>>

----------------------------------------------------------------------------

CreateStep ==
    \/ \E kind \in Kinds : \E out \in Outcomes :
          \/ CreateObj(kind, out)
          \/ RollbackObj(kind, out)
    \/ \E ok \in WriteOutcomes : CreateWrite(ok)

DeleteStep ==
    \/ \E kind \in Kinds : \E out \in Outcomes : DeleteObj(kind, out)
    \/ \E ok \in WriteOutcomes : DeleteFiles(ok)

Request(n) ==
    \/ \E ex \in SUBSET Extras : CreateTask(n, ex)
    \/ \E out \in Outcomes : DeleteTask(n, out)
    \/ StartTask(n)
    \/ StopTask(n)

Check(n) ==
    \/ QueryTask(n)
    \/ QueryReport(n)
    \/ \E ok \in WriteOutcomes : QueryResult(n, ok)
    \/ RetryDelete(n)

Gvmd == GvmdStep /\ UNCHANGED <<dvars, hvars>>

Next ==
    \/ \E n \in Names : Request(n) \/ Check(n)
    \/ CreateStep
    \/ DeleteStep
    \/ SaveStatus
    \/ ValidateGvmConn(TRUE)
    \/ "link" \in Faults /\ ValidateGvmConn(FALSE)
    \/ Crash
    \/ Restart
    \/ Gvmd

Spec == Init /\ [][Next]_vars

----------------------------------------------------------------------------
(* Fairness.  The daemon's loop goes on while it runs, so a job ends and a *)
(* task's check comes round again and again; SF because a refused or       *)
(* failing call may disable it for a while.  A crashed daemon is started   *)
(* again, gvmd answers the connection test again and again, and each scan  *)
(* ends.  Clients and schedules are not fair.                              *)

Fairness ==
    /\ WF_vars(CreateStep \/ DeleteStep \/ SaveStatus)
    /\ WF_vars(Restart)
    /\ SF_vars(ValidateGvmConn(TRUE))
    /\ \A n \in Names :
          /\ SF_vars(QueryTask(n))
          /\ SF_vars(QueryReport(n))
          /\ SF_vars(\E ok \in WriteOutcomes : QueryResult(n, ok))
          /\ SF_vars(RetryDelete(n))
    /\ \A k \in Ids : \A i \in 1..MaxRuns :
          WF_vars((\E o \in {"done", "stop"} : Finish(k, i, o)) /\ UNCHANGED <<dvars, hvars>>)

FairSpec == Spec /\ Fairness

----------------------------------------------------------------------------
(* Properties                                                              *)

\* Memory, task file and run queue name the same tasks whenever the daemon
\* runs: every answer it gives about a task survives a crash, and no freed task
\* is left in the run queue (createTaskRelationFiles, delTaskRelationFiles).
StoreDurable ==
    up => /\ \A n \in Names : taskFile[n].id = task[n].id
          /\ runq = {n \in Names : task[n].id # 0}

\* A task whose creation was answered with success is in the task file, under
\* one name, until its deletion was answered with success; then it is in no
\* file, unless the write that drops it failed (daemon_create_task,
\* daemon_delete_task).
AckedDurable ==
    \A k \in Ids :
        LET in == {n \in Names : taskFile[n].id = k}
        IN  /\ k \in acked \ deleted => \E n \in in : in = {n}
            /\ k \in deleted /\ "unsaved" \notin why[k] => in = {}

\* What the daemon is at with a task agrees with the task's status: it follows
\* a report that is known and not ended, it fetches results only of one that
\* has ended, and a task that is not followed is not running.  The same holds
\* of the status file, from which a restarted daemon goes on
\* (backend_query_task, backend_query_report, backend_query_result).
Follows(t) ==
    /\ t.chk = "TASK" => t.status # "RUNNING" /\ t.status # "READY"
    /\ t.chk = "REPORT" => t.status \in {"READY", "RUNNING"} /\ t.rid # 0
    /\ t.chk = "RESULT" => t.status = "ENDED" /\ t.rid # 0
    /\ t.status # "CREATE" => t.rid # 0

StatusMatchesCheck ==
    /\ \A n \in Names : Follows(task[n])
    /\ \A k \in Ids : Follows(stFile[k])

\* Every status file of a known task can be read back: the daemon can always be
\* started again (parseTaskStatusRecord wants a report id).
RestartSafe == \A n \in Known : StatusLoadable(taskFile[n].id)

\* When memory or the status file says that a task is done with a report, the
\* report's results were written before, whatever crashed in between, unless
\* writing them failed (backend_query_result writes the result file first).
ResultBeforeStatus ==
    \A k \in Ids : "unsaved" \notin why[k] =>
        /\ stFile[k].chk = "TASK" /\ stFile[k].rid # 0 => stFile[k].rid \in saved[k]
        /\ \A n \in Names :
              task[n].id = k /\ task[n].chk = "TASK" /\ task[n].rid # 0
                => task[n].rid \in saved[k]

\* Whatever of an attempt still exists in gvmd belongs to a known task or to
\* the job under way: rollback and delete leave nothing behind, unless a call
\* failed, its answer was lost, the daemon crashed, or gvmd was scanning the
\* task (the rollback of daemon_create_task; daemon_delete_task).
Owned(k) ==
    \/ \E n \in Names : taskFile[n].id = k
    \/ job.id = k

NoLeak ==
    \A k \in Ids :
        Visible(k) \/ (\E kind \in ObjKinds : <<kind, k>> \in gObj)
            => Owned(k) \/ why[k] # {}

\* A task the daemon offers to its clients exists in gvmd with its target, but
\* for the traces of a lost answer, a crash or a failed write.
NoDangling ==
    \A n \in Names :
        LET k == task[n].id
        IN  /\ k # 0
            /\ task[n].chk # "DELETED"
            /\ job.op \notin {"delete", "files"}
            /\ why[k] \cap {"lost", "crash", "unsaved"} = {}
            => Visible(k) /\ <<"target", k>> \in gObj

\* A step of a running daemon that keeps every task whose report is followed.
Keeps ==
    \A n \in Names :
        up /\ up' /\ task[n].chk \in {"REPORT", "RESULT"}
            => /\ task'[n].id = task[n].id
               /\ task'[n].rid = task[n].rid
               /\ task'[n].chk = "TASK" => job.op = "status" /\ job.name = n

\* A report that is being followed is not let go: until its results were dealt
\* with, no request and no check of a running daemon removes the task or turns
\* it to another report (the busy test of daemon_delete_task; runGvmChecks).
FollowedToTheEnd == [][Keeps]_vars

\* A busy task does not stay busy: its scan ends and its results are fetched,
\* or its files are removed (runGvmChecks).
BusyEnds ==
    \A n \in Names : ChkTaskBusy(task[n]) ~> ~ ChkTaskBusy(task[n])

\* A task that was only marked as deleted, because its files could not be
\* removed, is removed in the end, as long as the daemon does not crash
\* (runGvmChecks on a task marked as deleted).
DeletionCompletes ==
    \A n \in Names : task[n].chk = "DELETED" ~> taskFile[n].id = 0 \/ ~ up

\* In the end the daemon has saved the results of the report gvmd shows for each
\* of its tasks, through crashes, failing calls and concurrent scans, unless a
\* write failed (backend_query_task, backend_query_report, backend_query_result).
Collected(k) ==
    Visible(k) /\ "unsaved" \notin why[k] => ReportOf(k, 0) \in saved[k] \cup {0}

Settles ==
    \A n \in Names :
        <>[] (task[n].id # 0 => Collected(task[n].id))

\* "can only start the not-running task": a task is never scanned twice at the
\* same time (openvas_business.c, daemon_start_task).
OneScanAtATime ==
    \A k \in Ids : \A i, j \in ReportsIn(k, Alive) : i = j

----------------------------------------------------------------------------
(* The inductive invariant behind StoreDurable, AckedDurable, RestartSafe, *)
(* StatusMatchesCheck, ResultBeforeStatus and FollowedToTheEnd, in parts.  *)

\* The job under way and the task it is about.
JobSound ==
    /\ job.op # "idle" => up /\ job.name \in Names /\ job.id \in 1..nextId - 1
    /\ job.op \in {"create", "write", "rollback"} =>
          task[job.name].id = 0 /\ job.id \notin acked \cup deleted
    /\ job.op \in {"delete", "files"} =>
          task[job.name].id = job.id /\ task[job.name].chk = "TASK"
    /\ job.op = "status" =>
          /\ task[job.name].id = job.id
          /\ task[job.name].chk = "RESULT"
          /\ task[job.name].rid \in saved[job.id] \/ "unsaved" \in why[job.id]

\* A daemon that is down has nothing in memory, an unused name is blank, and only
\* a task whose deletion was answered with success is marked.
MemorySound ==
    /\ ~ up => task = [n \in Names |-> NoTask]
    /\ \A n \in Names : task[n].id = 0 => task[n] = NoTask
    /\ \A n \in Names : task[n].chk = "DELETED" => task[n].id \in deleted

\* The mark of a deleted task is never in its status file.
MarkUnsaved == \A k \in Ids : stFile[k].chk # "DELETED"

\* An attempt is known under one name at most, and known attempts, answered
\* attempts and the attempt under way are told apart.
IdsSound ==
    /\ \A n, m \in Names : taskFile[n].id = taskFile[m].id /\ n # m => taskFile[n].id = 0
    /\ \A n \in Names : taskFile[n].id = 0 \/ taskFile[n].id \in acked
    /\ acked \cup deleted \subseteq 1..nextId - 1

IInv ==
    /\ TypeOK
    /\ JobSound
    /\ MemorySound
    /\ MarkUnsaved
    /\ IdsSound
    /\ StoreDurable
    /\ AckedDurable
    /\ StatusMatchesCheck
    /\ ResultBeforeStatus

----------------------------------------------------------------------------
(* What the daemon and gvmd know of the same objects: the inductive        *)
(* invariant behind NoLeak and NoDangling, in parts.                       *)

\* The kinds of objects that attempt k has in gvmd.
Existing(k) == {kind \in Kinds : IF kind = "task" THEN Visible(k) ELSE <<kind, k>> \in gObj}

\* A task that was never made has no scan whose end could bring it to life.
ScansOwned == \A k \in Ids : gTask[k] = "none" => gReport[k] = <<>>

\* Nothing exists of an attempt still to come.
FreshUnmade == \A k \in Ids : k >= nextId => Existing(k) = {}

\* A creation knows exactly what it has made; a rollback or a delete request that
\* met no trouble has still to do with all that is left.
JobKnows ==
    /\ job.op = "idle" => job.id = 0
    /\ job.op \in {"create", "write"} => Existing(job.id) = job.objs
    /\ job.op = "create" => {"target", "task"} \subseteq job.objs \cup job.todo
    /\ job.op = "write" => {"target", "task"} \subseteq job.objs
    /\ job.op \in {"rollback", "delete", "files"} /\ why[job.id] = {} =>
          Existing(job.id) \subseteq job.todo
    /\ job.op = "delete" => "task" \notin job.todo
    /\ job.op = "files" => job.todo = {}

\* Memory lists at least what exists of a task, and blames what a mark left.
MemoryKnows(n) ==
    LET k == task[n].id
    IN  k # 0 => /\ why[k] = {} => Existing(k) \subseteq task[n].objs
                 /\ task[n].chk = "DELETED" => "unsaved" \in why[k]

\* So does the task file, and a task that no request takes apart exists with its
\* target.
TakenApart(k) == job.op \in {"delete", "files"} /\ job.id = k
FileKnows(n) ==
    LET k == taskFile[n].id
    IN  k # 0 => /\ why[k] = {} => Existing(k) \subseteq taskFile[n].objs
                 /\ \/ why[k] \cap {"lost", "crash", "unsaved"} # {}
                    \/ TakenApart(k)
                    \/ {"target", "task"} \subseteq Existing(k)

KnowsInv ==
    /\ ScansOwned
    /\ FreshUnmade
    /\ JobKnows
    /\ \A n \in Names : MemoryKnows(n) /\ FileKnows(n)
    /\ NoLeak

=============================================================================
