--------------------------- MODULE GvmTask_proofs ---------------------------
(***************************************************************************)
(* Proofs about GvmTask for every set of names, every bound and every      *)
(* choice of faults: the inductive invariant IInv, and from it the         *)
(* properties of the task store and of the checks.                         *)
(***************************************************************************)
EXTENDS GvmTask, SequenceTheorems, TLAPS

(* Types.  Gvmd's variables change only by the commands and steps of Gvmd. *)

\* The largest of a set of report numbers is a natural number.
LEMMA NewestType ==
    ASSUME NEW S, S \subseteq Nat
    PROVE  Newest(S) \in Nat
  BY DEF Newest

\* So is the number of the report a task is at, if the old one was.
LEMMA ReportOfType ==
    ASSUME NEW k, NEW old \in Nat, GvmdTypeOK, k \in Ids
    PROVE  ReportOf(k, old) \in Nat
  <1>1. \A st : ReportsIn(k, st) \subseteq Nat
    BY DEF ReportsIn, GvmdTypeOK
  <1>2. CurrentReport(k) \in Nat /\ LastReport(k) \in Nat
    BY <1>1, NewestType DEF CurrentReport, LastReport
  <1> QED
    BY <1>2 DEF ReportOf

\* Setting the state of one report keeps the type.
LEMMA SetReportType ==
    ASSUME GvmdTypeOK, NEW k \in Ids, NEW i \in 1..Len(gReport[k]), NEW s \in RunStates
    PROVE  [gReport EXCEPT ![k][i] = s] \in [Ids -> Seq(RunStates)]
  <1>1. gReport[k] \in Seq(RunStates)
    BY DEF GvmdTypeOK
  <1>2. [gReport[k] EXCEPT ![i] = s] \in Seq(RunStates)
    BY <1>1, ExceptSeq
  <1> QED
    BY <1>2 DEF GvmdTypeOK

\* Every command gvmd carries out keeps the type of its variables.
LEMMA GvmdCommandType ==
    ASSUME GvmdTypeOK, NEW k \in Ids, NEW kind \in Kinds,
           \/ GvmdCreate(kind, k)
           \/ GvmdStart(k)
           \/ GvmdStop(k)
           \/ GvmdRemove(kind, k)
    PROVE  GvmdTypeOK'
  <1> USE DEF GvmdTypeOK
  <1>1. CASE GvmdCreate(kind, k)
    BY <1>1 DEF GvmdCreate, TaskStates, Kinds, ObjKinds
  <1>2. CASE GvmdStart(k)
    <2>1. Append(gReport[k], "run") \in Seq(RunStates)
      BY AppendProperties DEF RunStates
    <2> QED
      BY <1>2, <2>1 DEF GvmdStart, TaskStates
  <1>3. CASE GvmdStop(k)
    <2>1. gReport' \in [Ids -> Seq(RunStates)]
      <3>1. CASE gReport' = gReport
        BY <3>1
      <3>2. CASE \E i \in ReportsIn(k, {"run"}) : gReport' = [gReport EXCEPT ![k][i] = "stop"]
        BY <3>2, SetReportType DEF ReportsIn, RunStates
      <3> QED
        BY <1>3, <3>1, <3>2 DEF GvmdStop
    <2> QED
      BY <1>3, <2>1 DEF GvmdStop, TaskStates
  <1>4. CASE GvmdDeleteTask(k)
    <2> DEFINE r == Newest(ReportsIn(k, {"run"}))
    <2>1. r = 0 \/ r \in 1..Len(gReport[k])
      BY DEF Newest, ReportsIn
    <2>2. gReport' \in [Ids -> Seq(RunStates)]
      <3>1. gReport' = gReport \/ (r # 0 /\ gReport' = [gReport EXCEPT ![k][r] = "stopreq"])
        BY <1>4 DEF GvmdDeleteTask
      <3>2. r # 0 => [gReport EXCEPT ![k][r] = "stopreq"] \in [Ids -> Seq(RunStates)]
        BY <2>1, SetReportType DEF RunStates
      <3> QED
        BY <3>1, <3>2
    <2> QED
      BY <1>4, <2>2 DEF GvmdDeleteTask, TaskStates
  <1>5. CASE GvmdRemove(kind, k)
    BY <1>4, <1>5 DEF GvmdRemove, GvmdDeleteObj, gvars
  <1> QED
    BY <1>1, <1>2, <1>3, <1>5

\* And so does every step gvmd takes by itself.
LEMMA GvmdStepType ==
    ASSUME GvmdTypeOK, GvmdStep
    PROVE  GvmdTypeOK'
  <1> USE DEF GvmdTypeOK
  <1> PICK k \in Ids :
        \/ \E i \in 1..Len(gReport[k]) : \E o \in {"done", "stop"} : Finish(k, i, o)
        \/ ScanRuns(k)
        \/ ScheduledStart(k)
    BY DEF GvmdStep
  <1>1. ASSUME NEW i \in 1..Len(gReport[k]), NEW o \in {"done", "stop"}, Finish(k, i, o)
        PROVE  GvmdTypeOK'
    <2>1. [gReport EXCEPT ![k][i] = o] \in [Ids -> Seq(RunStates)]
      BY SetReportType DEF RunStates
    <2> QED
      BY <1>1, <2>1 DEF Finish, TaskStates
  <1>2. CASE ScanRuns(k)
    <2>1. gReport' \in [Ids -> Seq(RunStates)]
      BY <1>2, SetReportType DEF ScanRuns, ReportsIn, RunStates
    <2> QED
      BY <1>2, <2>1 DEF ScanRuns, TaskStates
  <1>3. CASE ScheduledStart(k)
    BY <1>3, GvmdCommandType DEF ScheduledStart, Kinds
  <1> QED
    BY <1>1, <1>2, <1>3

----------------------------------------------------------------------------
(* The inductive invariant: it holds at first, and every step keeps it.    *)

USE GvmdAssumption, GvmTaskAssumption DEF Ids

\* The invariant holds when the daemon starts for the first time (createData).
LEMMA InitIInv == Init => IInv
  <1> SUFFICES ASSUME Init PROVE IInv
    OBVIOUS
  <1> USE DEF Init
  <1>1. TypeOK
    BY DEF GvmdInit, TypeOK, GvmdTypeOK, TaskStates, TaskRec, NoTask, NewTask, FileRec, NoRec,
           StRec, NoSt, JobRec, NoJob, JobOps, Status, ChkType, RunStates
  <1>2. JobSound /\ MemorySound /\ MarkUnsaved /\ IdsSound /\ StoreDurable
    BY DEF JobSound, MemorySound, MarkUnsaved, IdsSound, StoreDurable, NoTask, NewTask, NoRec,
           NoSt, NoJob
  <1>3. AckedDurable /\ StatusMatchesCheck /\ ResultBeforeStatus
    BY DEF AckedDurable, StatusMatchesCheck, Follows, ResultBeforeStatus, NoTask, NewTask, NoSt
  <1> QED
    BY <1>1, <1>2, <1>3 DEF IInv

\* A create request only sets up the job and the name of the attempt.
LEMMA CreateTaskIInv ==
    ASSUME IInv, NEW n \in Names, NEW ex \in SUBSET Extras, CreateTask(n, ex)
    PROVE  IInv'
  <1> USE DEF IInv, CreateTask, Ready, Idle, hvars
  <1>1. TypeOK'
    BY DEF TypeOK, GvmdTypeOK, JobRec, JobOps, Kinds, ObjKinds
  <1>2. JobSound'
    BY DEF TypeOK, JobSound, IdsSound
  <1>3. MemorySound' /\ MarkUnsaved' /\ IdsSound' /\ StoreDurable'
    BY DEF TypeOK, MemorySound, MarkUnsaved, IdsSound, StoreDurable
  <1>4. AckedDurable' /\ StatusMatchesCheck' /\ ResultBeforeStatus'
    BY DEF AckedDurable, StatusMatchesCheck, Follows, ResultBeforeStatus
  <1> QED
    BY <1>1, <1>2, <1>3, <1>4

\* A step on gvmd, the connection or the job only: what is left to show is the
\* type of what changed and that the new job is sound.
LEMMA FrameIInv ==
    ASSUME IInv, TypeOK', JobSound',
           UNCHANGED <<up, task, runq, taskFile, stFile, saved, nextId, acked, deleted>>,
           \A k \in Ids : why[k] \subseteq why'[k]
    PROVE  IInv'
  <1> USE DEF IInv
  <1>1. MemorySound' /\ MarkUnsaved' /\ IdsSound' /\ StoreDurable'
    BY DEF MemorySound, MarkUnsaved, IdsSound, StoreDurable
  <1>2. AckedDurable' /\ StatusMatchesCheck' /\ ResultBeforeStatus'
    BY DEF AckedDurable, StatusMatchesCheck, Follows, ResultBeforeStatus
  <1> QED
    BY <1>1, <1>2

\* The blank values have their types.
LEMMA NoJobType == NoJob \in JobRec /\ NoJob.op = "idle"
  BY DEF NoJob, JobRec, JobOps

\* A task just created is well-typed and is not followed (newGvmTask).
LEMMA NewTaskType ==
    ASSUME NEW k \in 0..MaxId, NEW objs \in SUBSET Kinds
    PROVE  /\ NewTask(k, objs) \in TaskRec
           /\ NewTask(k, objs).id = k
           /\ NewTask(k, objs).status = "CREATE"
           /\ NewTask(k, objs).chk = "TASK"
           /\ NewTask(k, objs).rid = 0
  BY DEF NewTask, TaskRec, Status, ChkType

\* So is the blank one.
LEMMA NoTaskType == NoTask \in TaskRec /\ NoTask.id = 0 /\ NoTask.chk = "TASK"
  BY NewTaskType DEF NoTask

\* Blame only adds reasons.
LEMMA BlameType ==
    ASSUME TypeOK, NEW k \in Ids, NEW r \in SUBSET Reasons, Blame(k, r)
    PROVE  /\ why' \in [Ids -> SUBSET Reasons]
           /\ \A j \in Ids : why[j] \subseteq why'[j]
  BY DEF TypeOK, Blame

\* A creation call touches only gvmd and the job (gvm_create_target and the
\* calls after it).
LEMMA CreateObjIInv ==
    ASSUME IInv, NEW kind \in Kinds, NEW out \in Outcomes, CreateObj(kind, out)
    PROVE  IInv'
  <1> USE DEF IInv, CreateObj
  <1>1. job.id \in Ids /\ job.objs \in SUBSET Kinds /\ job.todo \in SUBSET Kinds
    BY DEF TypeOK, JobSound, JobRec
  <1>2. GvmdTypeOK'
    BY <1>1, GvmdCommandType DEF TypeOK, GvmdTypeOK, gvars
  <1>3. job' = NoJob \/ \E op \in {"create", "write", "rollback"}, todo, objs \in SUBSET Kinds :
                          job' = [job EXCEPT !.op = op, !.todo = todo, !.objs = objs]
    <2> DEFINE made == job.objs \cup {kind}
               left == job.todo \ {kind}
    <2>1. made \in SUBSET Kinds /\ left \in SUBSET Kinds
      BY <1>1
    <2>2. CASE job' = ToRollback(job.objs)
      BY <1>1, <2>2 DEF ToRollback, TypeOK, JobRec
    <2>3. CASE job' = [job EXCEPT !.op = IF left = {} THEN "write" ELSE "create",
                                  !.todo = left, !.objs = made]
      <3>1. (IF left = {} THEN "write" ELSE "create") \in {"create", "write", "rollback"}
        OBVIOUS
      <3> QED
        BY <2>1, <2>3, <3>1
    <2> QED
      BY <2>2, <2>3
  <1>4. /\ why' \in [Ids -> SUBSET Reasons]
        /\ \A j \in Ids : why[j] \subseteq why'[j]
    BY <1>1, BlameType DEF TypeOK, Reasons
  <1>5. job' \in JobRec /\ JobSound'
    <2>1. CASE job' = NoJob
      <3>1. job' \in JobRec /\ job'.op = "idle"
        BY <2>1, NoJobType
      <3> QED
        BY <3>1 DEF JobSound
    <2>2. ASSUME NEW op \in {"create", "write", "rollback"},
                 NEW todo \in SUBSET Kinds, NEW objs \in SUBSET Kinds,
                 job' = [job EXCEPT !.op = op, !.todo = todo, !.objs = objs]
          PROVE  job' \in JobRec /\ JobSound'
      <3>1. /\ job' \in JobRec
            /\ job'.op = op /\ job'.name = job.name /\ job'.id = job.id
        BY <2>2 DEF TypeOK, JobRec, JobOps
      <3> QED
        BY <3>1 DEF JobSound
    <2> QED
      BY <1>3, <2>1, <2>2
  <1>6. TypeOK'
    BY <1>2, <1>4, <1>5 DEF TypeOK
  <1> QED
    BY <1>4, <1>5, <1>6, FrameIInv

\* So does a call that takes a created object back.
LEMMA RollbackObjIInv ==
    ASSUME IInv, NEW kind \in Kinds, NEW out \in Outcomes, RollbackObj(kind, out)
    PROVE  IInv'
  <1> USE DEF IInv, RollbackObj
  <1>1. job.id \in Ids /\ job.todo \in SUBSET Kinds
    BY DEF TypeOK, JobSound, JobRec
  <1>2. GvmdTypeOK'
    BY <1>1, GvmdCommandType DEF TypeOK, GvmdTypeOK, gvars
  <1>3. /\ why' \in [Ids -> SUBSET Reasons]
        /\ \A j \in Ids : why[j] \subseteq why'[j]
    BY <1>1, BlameType DEF Kept, Reasons
  <1>4. job' \in JobRec
    <2>1. job' = NoJob \/ job' = [job EXCEPT !.todo = job.todo \ {kind}]
      OBVIOUS
    <2>2. [job EXCEPT !.todo = job.todo \ {kind}] \in JobRec
      BY <1>1 DEF TypeOK, JobRec
    <2> QED
      BY <2>1, <2>2, NoJobType
  <1>5. /\ job'.op \in {"idle", "rollback"}
        /\ job'.op = "rollback" => job'.name = job.name /\ job'.id = job.id
    BY DEF NoJob, TypeOK, JobRec
  <1>6. TypeOK'
    BY <1>2, <1>3, <1>4 DEF TypeOK
  <1>7. JobSound'
    BY <1>5 DEF JobSound
  <1> QED
    BY <1>3, <1>6, <1>7, FrameIInv

\* A delete request starts a job on a known task that is not busy
\* (daemon_delete_task).
LEMMA DeleteTaskIInv ==
    ASSUME IInv, NEW n \in Names, NEW out \in Outcomes, DeleteTask(n, out)
    PROVE  IInv'
  <1> USE DEF IInv, DeleteTask, Ready, Idle
  <1>1. task[n].id \in Ids /\ task[n].objs \in SUBSET Kinds
    BY DEF TypeOK, TaskRec
  <1>2. GvmdTypeOK'
    BY <1>1, GvmdCommandType DEF TypeOK, GvmdRemove, Kinds
  <1>3. /\ why' \in [Ids -> SUBSET Reasons]
        /\ \A j \in Ids : why[j] \subseteq why'[j]
    BY <1>1, BlameType DEF Kept, Reasons
  <1>4. TypeOK'
    BY <1>1, <1>2, <1>3 DEF TypeOK, JobRec, JobOps
  <1>5. task[n].id \in 1..nextId - 1 /\ task[n].chk = "TASK"
    BY <1>1 DEF ChkTaskBusy, IdsSound, StoreDurable
  <1>6. JobSound'
    BY <1>1, <1>5 DEF JobSound, TypeOK, JobRec
  <1> QED
    BY <1>3, <1>4, <1>6, FrameIInv

\* Starting, stopping, gvmd's own steps and the connection test leave the daemon's
\* tasks and files alone.
LEMMA StartStopIInv ==
    ASSUME IInv, NEW n \in Names, StartTask(n) \/ StopTask(n)
    PROVE  IInv'
  <1> USE DEF IInv, StartTask, StopTask, dvars, hvars
  <1>1. task[n].id \in Ids
    BY DEF TypeOK, TaskRec
  <1>2. GvmdTypeOK'
    BY <1>1, GvmdCommandType DEF TypeOK, Kinds
  <1>3. TypeOK' /\ JobSound'
    BY <1>2 DEF TypeOK, JobSound
  <1> QED
    BY <1>3, FrameIInv

\* What gvmd does by itself is not seen by the daemon.
LEMMA GvmdIInv ==
    ASSUME IInv, Gvmd
    PROVE  IInv'
  <1> USE DEF IInv, Gvmd, dvars, hvars
  <1>1. GvmdTypeOK'
    BY GvmdStepType DEF TypeOK
  <1>2. TypeOK' /\ JobSound'
    BY <1>1 DEF TypeOK, JobSound
  <1> QED
    BY <1>2, FrameIInv

\* The connection test changes only the belief about the connection.
LEMMA ValidateGvmConnIInv ==
    ASSUME IInv, NEW ok \in BOOLEAN, ValidateGvmConn(ok)
    PROVE  IInv'
  <1> USE DEF IInv, ValidateGvmConn, gvars, hvars
  <1>1. TypeOK' /\ JobSound'
    BY DEF TypeOK, GvmdTypeOK, JobSound
  <1> QED
    BY <1>1, FrameIInv

\* A crash clears memory and leaves the files.
LEMMA CrashIInv ==
    ASSUME IInv, Crash
    PROVE  IInv'
  <1> USE DEF IInv, Crash, gvars
  <1>1. /\ why' \in [Ids -> SUBSET Reasons]
        /\ \A j \in Ids : why[j] \subseteq why'[j]
    BY DEF TypeOK, Blame, Reasons
  <1>2. TypeOK'
    <2>1. task' \in [Names -> TaskRec]
      BY NoTaskType
    <2>2. GvmdTypeOK' /\ crashes' \in Nat
      BY DEF TypeOK, GvmdTypeOK
    <2> QED
      BY <1>1, <2>1, <2>2, NoJobType DEF TypeOK
  <1>3. JobSound' /\ MemorySound' /\ MarkUnsaved' /\ IdsSound' /\ StoreDurable'
    BY NoJobType DEF JobSound, MemorySound, MarkUnsaved, IdsSound, StoreDurable, NoTask, NewTask
  <1>4. AckedDurable' /\ StatusMatchesCheck' /\ ResultBeforeStatus'
    BY <1>1 DEF AckedDurable, StatusMatchesCheck, Follows, ResultBeforeStatus, NoTask, NewTask
  <1> QED
    BY <1>2, <1>3, <1>4

\* A restart reads back records that are sound because the files are
\* (readTaskFile, parseTaskStatusRecord).
LEMMA RestartIInv ==
    ASSUME IInv, Restart
    PROVE  IInv'
  <1> USE DEF IInv, Restart, gvars, hvars
  <1> DEFINE T(n) == [id |-> taskFile[n].id, objs |-> taskFile[n].objs,
                      status |-> stFile[taskFile[n].id].status,
                      chk |-> stFile[taskFile[n].id].chk,
                      rid |-> stFile[taskFile[n].id].rid]
  <1>1. \A n \in Names : task'[n] = IF n \in Known THEN T(n) ELSE NoTask
    OBVIOUS
  <1>2. \A n \in Known : n \in Names /\ taskFile[n].id \in Ids /\ T(n) \in TaskRec
    BY DEF Known, TypeOK, FileRec, StRec, TaskRec
  <1>4. task' \in [Names -> TaskRec]
    BY <1>1, <1>2, NoTaskType
  <1>5. TypeOK'
    BY <1>4 DEF TypeOK, GvmdTypeOK, Known
  <1>6. job.op = "idle"
    BY DEF JobSound
  <1>7. JobSound' /\ MarkUnsaved' /\ IdsSound'
    BY <1>6 DEF JobSound, MarkUnsaved, IdsSound
  <1>8. MemorySound' /\ StoreDurable'
    <2>1. \A n \in Names : task'[n].id = taskFile[n].id
      BY <1>1, NoTaskType DEF Known
    <2>2. \A n \in Names : task'[n].id = 0 => task'[n] = NoTask
      BY <1>1, <2>1 DEF Known
    <2>3. \A n \in Names : task'[n].chk # "DELETED"
      BY <1>1, <1>2, NoTaskType DEF MarkUnsaved
    <2> QED
      BY <2>1, <2>2, <2>3 DEF MemorySound, StoreDurable, Known
  <1>9. AckedDurable' /\ StatusMatchesCheck' /\ ResultBeforeStatus'
    <2>1. AckedDurable'
      BY DEF AckedDurable
    <2>2. StatusMatchesCheck'
      BY <1>1, <1>2 DEF StatusMatchesCheck, Follows, NoTask, NewTask
    <2>3. ResultBeforeStatus'
      BY <1>1, <1>2 DEF ResultBeforeStatus, NoTask, NewTask
    <2> QED
      BY <2>1, <2>2, <2>3
  <1> QED
    BY <1>5, <1>7, <1>8, <1>9

\* The task file, rewritten from memory, has its type and the ids of memory.
LEMMA TaskFileType ==
    ASSUME TypeOK, task' \in [Names -> TaskRec], WriteTaskFile(task')
    PROVE  /\ taskFile' \in [Names -> FileRec]
           /\ \A n \in Names : taskFile'[n].id = task'[n].id
  BY DEF WriteTaskFile, TaskRec, FileRec

\* The new task enters memory, file and run queue together
\* (createTaskRelationFiles).
LEMMA CreateWriteIInv ==
    ASSUME IInv, NEW ok \in WriteOutcomes, CreateWrite(ok)
    PROVE  IInv'
  <1> USE DEF IInv, CreateWrite
  <1>1. /\ up /\ job.id \in Ids /\ job.objs \in SUBSET Kinds /\ job.name \in Names
        /\ job.id \in 1..nextId - 1
        /\ task[job.name].id = 0 /\ job.id \notin acked \cup deleted
    BY DEF TypeOK, JobSound, JobRec
  <1>2. CASE ~ ok
    <2>1. /\ ToRollback(job.objs) \in JobRec
          /\ ToRollback(job.objs).op \in {"idle", "rollback"}
          /\ ToRollback(job.objs).op = "rollback" =>
                /\ ToRollback(job.objs).name = job.name
                /\ ToRollback(job.objs).id = job.id
      <3>1. [job EXCEPT !.op = "rollback", !.todo = job.objs, !.objs = job.objs] \in JobRec
        BY <1>1 DEF TypeOK, JobRec, JobOps
      <3> QED
        BY <3>1, NoJobType DEF ToRollback, TypeOK, JobRec
    <2>2. TypeOK'
      BY <1>2, <2>1 DEF TypeOK, GvmdTypeOK, gvars
    <2>3. JobSound'
      BY <1>1, <1>2, <2>1 DEF JobSound
    <2> QED
      BY <1>2, <2>2, <2>3, FrameIInv
  <1>3. CASE ok
    <2> DEFINE t == NewTask(job.id, job.objs)
    <2>1. /\ t \in TaskRec
          /\ t.id = job.id /\ t.status = "CREATE" /\ t.chk = "TASK" /\ t.rid = 0
      BY <1>1, NewTaskType
    <2>2. task' = [task EXCEPT ![job.name] = t] /\ task' \in [Names -> TaskRec]
      BY <1>3, <2>1 DEF TypeOK
    <2> HIDE DEF t
    <2>3. /\ taskFile' \in [Names -> FileRec]
          /\ \A n \in Names : taskFile'[n].id = IF n = job.name THEN job.id ELSE taskFile[n].id
      BY <1>1, <1>3, <2>1, <2>2, TaskFileType DEF StoreDurable, TypeOK
    <2>4. TypeOK'
      <3>1. acked' \in SUBSET Ids /\ runq' \in SUBSET Names
        BY <1>1, <1>3 DEF TypeOK
      <3> QED
        BY <1>3, <2>2, <2>3, <3>1, NoJobType DEF TypeOK, GvmdTypeOK, gvars
    <2>5. JobSound' /\ MarkUnsaved'
      BY <1>3, NoJobType DEF JobSound, MarkUnsaved
    <2>6. MemorySound' /\ StoreDurable'
      BY <1>1, <1>3, <2>1, <2>2, <2>3 DEF MemorySound, StoreDurable, TypeOK
    <2>7. IdsSound'
      <3>1. \A n \in Names : taskFile[n].id # job.id
        BY <1>1 DEF IdsSound, TypeOK
      <3> QED
        BY <1>1, <1>3, <2>3, <3>1 DEF IdsSound
    <2>8. AckedDurable'
      <3> SUFFICES ASSUME NEW k \in Ids
                   PROVE  LET in == {n \in Names : taskFile'[n].id = k}
                          IN  /\ k \in acked' \ deleted => \E n \in in : in = {n}
                              /\ k \in deleted /\ "unsaved" \notin why[k] => in = {}
        BY <1>3 DEF AckedDurable
      <3>1. taskFile[job.name].id = 0 /\ \A n \in Names : taskFile[n].id # job.id
        BY <1>1 DEF StoreDurable, IdsSound
      <3>2. CASE k = job.id
        BY <1>1, <1>3, <2>3, <3>1, <3>2
      <3>3. CASE k # job.id
        <4>1. {n \in Names : taskFile'[n].id = k} = {n \in Names : taskFile[n].id = k}
          BY <2>3, <3>1, <3>3
        <4> QED
          BY <1>3, <3>3, <4>1 DEF AckedDurable
      <3> QED
        BY <3>2, <3>3
    <2>9. StatusMatchesCheck' /\ ResultBeforeStatus'
      BY <2>1, <2>2 DEF StatusMatchesCheck, Follows, ResultBeforeStatus, TypeOK
    <2> QED
      BY <2>4, <2>5, <2>6, <2>7, <2>8, <2>9
  <1> QED
    BY <1>2, <1>3

\* A check that learns something writes the task's record and its status file
\* together.  When the new record is one the daemon can go on from, IInv is kept.
LEMMA CheckedIInv ==
    ASSUME IInv, NEW n \in Names, NEW t \in TaskRec,
           task[n].id # 0,
           t.id = task[n].id, t.chk # "DELETED", Follows(t),
           t.chk = "TASK" => t.rid \in saved[t.id] \/ "unsaved" \in why[t.id],
           task' = [task EXCEPT ![n] = t],
           WriteTaskStatus(t),
           job' \in JobRec, JobSound',
           UNCHANGED <<gvars, up, link, runq, taskFile, saved, nextId, hvars>>
    PROVE  IInv'
  <1> USE DEF IInv
  <1>1. t.id \in Ids
    BY DEF TypeOK, TaskRec
  <1> DEFINE st == [status |-> t.status, chk |-> t.chk, rid |-> t.rid]
  <1>2. /\ st \in StRec
        /\ st.status = t.status /\ st.chk = t.chk /\ st.rid = t.rid
    BY DEF TaskRec, StRec
  <1>3. stFile' = stFile \/ stFile' = [stFile EXCEPT ![t.id] = st]
    BY DEF WriteTaskStatus
  <1> HIDE DEF st
  <1>4. /\ stFile' \in [Ids -> StRec]
        /\ \A k \in Ids : stFile'[k] = stFile[k] \/ (k = t.id /\ stFile'[k] = st)
    BY <1>1, <1>2, <1>3 DEF TypeOK
  <1>5. /\ task' \in [Names -> TaskRec]
        /\ \A m \in Names : task'[m] = IF m = n THEN t ELSE task[m]
    BY DEF TypeOK
  <1>6. TypeOK'
    BY <1>4, <1>5 DEF TypeOK, GvmdTypeOK, gvars, hvars
  <1>7. IdsSound' /\ AckedDurable' /\ StoreDurable'
    BY <1>5 DEF IdsSound, AckedDurable, StoreDurable, hvars
  <1>8. MemorySound'
    <2>1. up
      BY DEF MemorySound, NoTask, NewTask
    <2> QED
      BY <1>5, <2>1 DEF MemorySound, hvars
  <1>9. MarkUnsaved' /\ StatusMatchesCheck'
    BY <1>2, <1>4, <1>5 DEF MarkUnsaved, StatusMatchesCheck, Follows
  <1>10. ResultBeforeStatus'
    BY <1>1, <1>2, <1>4, <1>5 DEF ResultBeforeStatus, hvars
  <1> QED
    BY <1>6, <1>7, <1>8, <1>9, <1>10

\* Taking up a new report leaves a record the daemon can go on from
\* (backend_query_task).
LEMMA QueryTaskIInv ==
    ASSUME IInv, NEW n \in Names, QueryTask(n)
    PROVE  IInv'
  <1> DEFINE rid == ReportOf(task[n].id, task[n].rid)
             t == [task[n] EXCEPT !.rid = rid, !.status = "READY", !.chk = "REPORT"]
  <1>1. task[n] \in TaskRec /\ task[n].id # 0 /\ task[n].id \in Ids
    BY DEF IInv, TypeOK, TaskRec, StoreDurable, QueryTask, CheckDue, Ready, Idle
  <1>2. rid \in Nat
    BY <1>1, ReportOfType DEF IInv, TypeOK, TaskRec
  <1>3. /\ t \in TaskRec
        /\ t.id = task[n].id /\ t.rid = rid /\ t.status = "READY" /\ t.chk = "REPORT"
    BY <1>1, <1>2 DEF TaskRec, Status, ChkType
  <1>4. rid # task[n].rid
    BY <1>3 DEF QueryTask
  <1>5. Follows(t)
    <2>1. rid # 0
      BY <1>4 DEF ReportOf
    <2> QED
      BY <1>3, <2>1 DEF Follows
  <1>6. /\ task' = [task EXCEPT ![n] = t]
        /\ WriteTaskStatus(t)
        /\ UNCHANGED <<gvars, up, link, runq, job, taskFile, saved, nextId, hvars>>
    BY DEF QueryTask
  <1>7. job' \in JobRec /\ JobSound'
    BY <1>6 DEF IInv, TypeOK, JobSound, QueryTask, CheckDue, Ready, Idle
  <1> HIDE DEF t
  <1> QED
    BY <1>1, <1>3, <1>5, <1>6, <1>7, CheckedIInv

\* So does noting a new status of the report (backend_query_report).
LEMMA QueryReportIInv ==
    ASSUME IInv, NEW n \in Names, QueryReport(n)
    PROVE  IInv'
  <1> DEFINE s == RunStatus(gReport[task[n].id][task[n].rid])
             t == [task[n] EXCEPT !.status = s,
                                  !.chk = IF s = "RUNNING" THEN "REPORT" ELSE "RESULT"]
  <1>1. task[n] \in TaskRec /\ task[n].id # 0 /\ task[n].chk = "REPORT"
    BY DEF IInv, TypeOK, StoreDurable, QueryReport, CheckDue, Ready, Idle
  <1>2. s \in {"RUNNING", "ENDED"}
    BY DEF RunStatus
  <1>3. /\ t \in TaskRec
        /\ t.id = task[n].id /\ t.rid = task[n].rid /\ t.status = s
        /\ t.chk = IF s = "RUNNING" THEN "REPORT" ELSE "RESULT"
    <2> HIDE DEF s
    <2> QED
      BY <1>1, <1>2 DEF TaskRec, Status, ChkType
  <1>4. Follows(t)
    BY <1>1, <1>2, <1>3 DEF IInv, StatusMatchesCheck, Follows
  <1>5. /\ task' = [task EXCEPT ![n] = t]
        /\ WriteTaskStatus(t)
        /\ UNCHANGED <<gvars, up, link, runq, job, taskFile, saved, nextId, hvars>>
    BY DEF QueryReport
  <1>6. job' \in JobRec /\ JobSound'
    BY <1>5 DEF IInv, TypeOK, JobSound, QueryReport, CheckDue, Ready, Idle
  <1>7. t.chk # "DELETED" /\ t.chk # "TASK"
    BY <1>2, <1>3
  <1> HIDE DEF t
  <1> QED
    BY <1>1, <1>3, <1>4, <1>5, <1>6, <1>7, CheckedIInv

\* Results are saved, or known not to be, when the task is let go
\* (backend_query_result).
LEMMA SaveStatusIInv ==
    ASSUME IInv, SaveStatus
    PROVE  IInv'
  <1> DEFINE n == job.name
             t == [task[n] EXCEPT !.chk = "TASK"]
  <1>1. /\ n \in Names /\ task[n] \in TaskRec /\ task[n].id # 0
        /\ task[n].id = job.id /\ task[n].chk = "RESULT"
        /\ task[n].rid \in saved[job.id] \/ "unsaved" \in why[job.id]
    BY DEF IInv, TypeOK, JobSound, SaveStatus
  <1>2. /\ t \in TaskRec
        /\ t.id = task[n].id /\ t.rid = task[n].rid /\ t.status = task[n].status
        /\ t.chk = "TASK"
    BY <1>1 DEF TaskRec, ChkType
  <1>3. Follows(t)
    BY <1>1, <1>2 DEF IInv, StatusMatchesCheck, Follows
  <1>4. /\ task' = [task EXCEPT ![n] = t]
        /\ WriteTaskStatus(t)
        /\ job' = NoJob
        /\ UNCHANGED <<gvars, up, link, runq, taskFile, saved, nextId, hvars>>
    BY DEF SaveStatus
  <1>5. job' \in JobRec /\ JobSound'
    BY <1>4, NoJobType DEF JobSound
  <1> HIDE DEF n, t
  <1> QED
    BY <1>1, <1>2, <1>3, <1>4, <1>5, CheckedIInv

\* The result file is written, or the failure noted, before the status.
LEMMA QueryResultIInv ==
    ASSUME IInv, NEW n \in Names, NEW ok \in WriteOutcomes, QueryResult(n, ok)
    PROVE  IInv'
  <1>1. /\ task[n] \in TaskRec /\ task[n].id \in Ids /\ task[n].rid \in Nat
        /\ task[n].chk = "RESULT" /\ up
        /\ task[n].id \in 1..nextId - 1
    BY DEF IInv, TypeOK, TaskRec, StoreDurable, IdsSound, QueryResult, CheckDue, Ready, Idle
  <1>2. /\ job' = [NoJob EXCEPT !.op = "status", !.name = n, !.id = task[n].id]
        /\ UNCHANGED <<gvars, up, link, task, runq, taskFile, stFile, nextId,
                       crashes, acked, deleted>>
    BY DEF QueryResult
  <1>3. /\ saved' \in [Ids -> SUBSET Nat]
        /\ \A k \in Ids : saved[k] \subseteq saved'[k]
        /\ why' \in [Ids -> SUBSET Reasons]
        /\ \A k \in Ids : why[k] \subseteq why'[k]
        /\ task[n].rid \in saved'[task[n].id] \/ "unsaved" \in why'[task[n].id]
    <2>1. CASE ok
      <3>1. /\ saved' = [saved EXCEPT ![task[n].id] = @ \cup {task[n].rid}]
            /\ why' = why
        BY <2>1 DEF QueryResult
      <3> QED
        BY <1>1, <3>1 DEF IInv, TypeOK
    <2>2. CASE ~ ok
      <3>1. saved' = saved /\ Blame(task[n].id, {"unsaved"})
        BY <2>2 DEF QueryResult
      <3> QED
        BY <1>1, <3>1 DEF IInv, TypeOK, Blame, Reasons
    <2> QED
      BY <2>1, <2>2
  <1>4. job' \in JobRec /\ job'.op = "status" /\ job'.name = n /\ job'.id = task[n].id
    <2>1. job' = [op |-> "status", name |-> n, id |-> task[n].id, todo |-> {}, objs |-> {}]
      BY <1>2 DEF NoJob
    <2>2. task[n].id \in 0..MaxId
      BY <1>1
    <2>3. [op |-> "status", name |-> n, id |-> task[n].id, todo |-> {}, objs |-> {}] \in JobRec
      BY <2>2 DEF JobRec, JobOps
    <2> QED
      BY <2>1, <2>3
  <1>5. TypeOK'
    BY <1>2, <1>3, <1>4 DEF IInv, TypeOK, GvmdTypeOK, gvars
  <1>6. JobSound'
    BY <1>1, <1>2, <1>3, <1>4 DEF JobSound
  <1>7. MemorySound' /\ MarkUnsaved' /\ IdsSound' /\ StoreDurable' /\ StatusMatchesCheck'
    BY <1>2 DEF IInv, MemorySound, MarkUnsaved, IdsSound, StoreDurable, StatusMatchesCheck,
                Follows
  <1>8. AckedDurable' /\ ResultBeforeStatus'
    BY <1>2, <1>3 DEF IInv, AckedDurable, ResultBeforeStatus
  <1> QED
    BY <1>5, <1>6, <1>7, <1>8 DEF IInv

\* Removing the objects of a task changes only which of them it has.
LEMMA DeleteObjIInv ==
    ASSUME IInv, NEW kind \in Kinds, NEW out \in Outcomes, DeleteObj(kind, out)
    PROVE  IInv'
  <1>1. /\ up /\ job.id \in Ids /\ job.id \in 1..nextId - 1 /\ job.name \in Names
        /\ task[job.name] \in TaskRec /\ job \in JobRec
        /\ task[job.name].id = job.id /\ task[job.name].chk = "TASK"
    BY DEF IInv, TypeOK, JobSound, JobRec, DeleteObj
  <1>2. GvmdTypeOK'
    BY <1>1, GvmdCommandType DEF IInv, TypeOK, GvmdTypeOK, gvars, DeleteObj
  <1>3. /\ why' \in [Ids -> SUBSET Reasons]
        /\ \A j \in Ids : why[j] \subseteq why'[j]
    BY <1>1, BlameType DEF IInv, Kept, Reasons, DeleteObj
  <1>4. /\ UNCHANGED <<up, link, runq, taskFile, stFile, saved, nextId, crashes,
                       acked, deleted>>
        /\ \/ task' = task
           \/ task' = [task EXCEPT ![job.name].objs = @ \ {kind}]
    BY DEF DeleteObj
  <1>5. /\ task' \in [Names -> TaskRec]
        /\ \A m \in Names :
              /\ task'[m].id = task[m].id /\ task'[m].chk = task[m].chk
              /\ task'[m].rid = task[m].rid /\ task'[m].status = task[m].status
              /\ m # job.name => task'[m] = task[m]
    <2>1. CASE task' = task
      BY <2>1 DEF IInv, TypeOK
    <2>2. CASE task' = [task EXCEPT ![job.name].objs = @ \ {kind}]
      <3> DEFINE t == [task[job.name] EXCEPT !.objs = @ \ {kind}]
      <3>1. /\ t \in TaskRec
            /\ t.id = task[job.name].id /\ t.chk = task[job.name].chk
            /\ t.rid = task[job.name].rid /\ t.status = task[job.name].status
        BY <1>1 DEF TaskRec
      <3>2. task' = [task EXCEPT ![job.name] = t]
        BY <2>2
      <3> HIDE DEF t
      <3> QED
        BY <1>1, <3>1, <3>2 DEF IInv, TypeOK
    <2> QED
      BY <1>4, <2>1, <2>2
  <1>6. /\ job' \in JobRec /\ job'.op \in {"delete", "files"}
        /\ job'.name = job.name /\ job'.id = job.id
    BY <1>1 DEF DeleteObj, JobRec, JobOps
  <1>7. TypeOK'
    BY <1>2, <1>3, <1>4, <1>5, <1>6 DEF IInv, TypeOK
  <1>8. JobSound'
    BY <1>1, <1>4, <1>5, <1>6 DEF JobSound
  <1>9. MemorySound'
    BY <1>1, <1>4, <1>5 DEF IInv, MemorySound
  <1>10. MarkUnsaved' /\ IdsSound' /\ StoreDurable'
    BY <1>4, <1>5 DEF IInv, MarkUnsaved, IdsSound, StoreDurable
  <1>11. AckedDurable' /\ StatusMatchesCheck' /\ ResultBeforeStatus'
    BY <1>3, <1>4, <1>5 DEF IInv, AckedDurable, StatusMatchesCheck, Follows,
                           ResultBeforeStatus
  <1> QED
    BY <1>7, <1>8, <1>9, <1>10, <1>11 DEF IInv

\* Forgetting a task whose deletion is answered with success, now or earlier.
LEMMA ForgetTaskIInv ==
    ASSUME IInv, NEW n \in Names, up, task[n].id # 0, ForgetTask(n),
           job.op \in {"idle", "files"}, job.op = "files" => job.name = n,
           job' \in JobRec, job'.op = "idle",
           deleted' = deleted \cup {task[n].id},
           UNCHANGED <<gvars, up, link, saved, nextId, crashes, why, acked>>
    PROVE  IInv'
  <1>1. task[n].id \in Ids /\ task[n].id \in 1..nextId - 1 /\ taskFile[n].id = task[n].id
    BY DEF IInv, TypeOK, TaskRec, StoreDurable, IdsSound
  <1>2. /\ task' \in [Names -> TaskRec]
        /\ \A m \in Names : task'[m] = IF m = n THEN NoTask ELSE task[m]
    BY NoTaskType DEF ForgetTask, IInv, TypeOK
  <1>3. /\ taskFile' \in [Names -> FileRec]
        /\ \A m \in Names : taskFile'[m].id = IF m = n THEN 0 ELSE taskFile[m].id
    BY <1>2, TaskFileType, NoTaskType DEF IInv, ForgetTask, StoreDurable
  <1>4. /\ stFile' \in [Ids -> StRec]
        /\ \A k \in Ids : stFile'[k] = stFile[k] \/ stFile'[k] = NoSt
    BY DEF IInv, TypeOK, ForgetTask, NoSt, StRec, Status, ChkType
  <1>5. runq' = runq \ {n}
    BY DEF ForgetTask
  <1>6. TypeOK'
    BY <1>1, <1>2, <1>3, <1>4, <1>5 DEF IInv, TypeOK, GvmdTypeOK, gvars
  <1>7. JobSound' /\ MarkUnsaved'
    BY <1>4 DEF IInv, JobSound, MarkUnsaved, NoSt
  <1>8. MemorySound' /\ StoreDurable'
    BY <1>2, <1>3, <1>5, NoTaskType DEF IInv, MemorySound, StoreDurable
  <1>9. IdsSound'
    BY <1>1, <1>3 DEF IInv, IdsSound
  <1>10. AckedDurable'
    <2> SUFFICES ASSUME NEW k \in Ids
                 PROVE  LET in == {m \in Names : taskFile'[m].id = k}
                        IN  /\ k \in acked \ deleted' => \E m \in in : in = {m}
                            /\ k \in deleted' /\ "unsaved" \notin why[k] => in = {}
      BY DEF AckedDurable
    <2>1. CASE k = task[n].id
      <3>1. {m \in Names : taskFile'[m].id = k} = {}
        BY <1>1, <1>3, <2>1 DEF IInv, IdsSound
      <3> QED
        BY <2>1, <3>1
    <2>2. CASE k # task[n].id
      <3>1. {m \in Names : taskFile'[m].id = k} = {m \in Names : taskFile[m].id = k}
        BY <1>1, <1>3, <2>2
      <3> QED
        BY <2>2, <3>1 DEF IInv, AckedDurable
    <2> QED
      BY <2>1, <2>2
  <1>11. StatusMatchesCheck' /\ ResultBeforeStatus'
    BY <1>2, <1>4 DEF IInv, StatusMatchesCheck, Follows, ResultBeforeStatus, NoTask, NewTask,
                      NoSt
  <1> QED
    BY <1>6, <1>7, <1>8, <1>9, <1>10, <1>11 DEF IInv

\* The end of a delete request: the task leaves all files, or it is marked
\* (delTaskRelationFiles).
LEMMA DeleteFilesIInv ==
    ASSUME IInv, NEW ok \in WriteOutcomes, DeleteFiles(ok)
    PROVE  IInv'
  <1>1. /\ up /\ job.op = "files" /\ job.name \in Names /\ job.id \in Ids
        /\ job.id \in 1..nextId - 1
        /\ task[job.name] \in TaskRec
        /\ task[job.name].id = job.id /\ task[job.name].id # 0
        /\ task[job.name].chk = "TASK"
    BY DEF IInv, TypeOK, JobSound, DeleteFiles
  <1>2. CASE ok
    BY <1>1, <1>2, NoJobType, ForgetTaskIInv DEF DeleteFiles
  <1>3. CASE ~ ok
    <2>1. /\ task' = [task EXCEPT ![job.name].chk = "DELETED"]
          /\ Blame(job.id, {"unsaved"})
          /\ deleted' = deleted \cup {job.id}
          /\ job' = NoJob
          /\ UNCHANGED <<gvars, up, link, runq, taskFile, stFile, saved, nextId,
                         crashes, acked>>
      BY <1>3 DEF DeleteFiles
    <2>2. /\ task' \in [Names -> TaskRec]
          /\ \A m \in Names :
                /\ task'[m].id = task[m].id
                /\ task'[m].rid = task[m].rid /\ task'[m].status = task[m].status
                /\ m = job.name => task'[m].chk = "DELETED"
                /\ m # job.name => task'[m] = task[m]
      BY <1>1, <2>1 DEF IInv, TypeOK, TaskRec, ChkType
    <2>3. /\ why' \in [Ids -> SUBSET Reasons]
          /\ \A k \in Ids : why[k] \subseteq why'[k]
          /\ "unsaved" \in why'[job.id]
      BY <1>1, <2>1 DEF IInv, TypeOK, Blame, Reasons
    <2>4. TypeOK'
      BY <1>1, <2>1, <2>2, <2>3, NoJobType DEF IInv, TypeOK, GvmdTypeOK, gvars
    <2>5. JobSound' /\ MarkUnsaved' /\ IdsSound'
      BY <1>1, <2>1, NoJobType DEF IInv, JobSound, MarkUnsaved, IdsSound
    <2>6. MemorySound' /\ StoreDurable'
      BY <1>1, <2>1, <2>2 DEF IInv, MemorySound, StoreDurable
    <2>7. AckedDurable'
      BY <1>1, <2>1, <2>3 DEF IInv, AckedDurable
    <2>8. StatusMatchesCheck' /\ ResultBeforeStatus'
      BY <2>1, <2>2, <2>3 DEF IInv, StatusMatchesCheck, Follows, ResultBeforeStatus
    <2> QED
      BY <2>4, <2>5, <2>6, <2>7, <2>8 DEF IInv
  <1> QED
    BY <1>2, <1>3

\* Trying the files of a marked task again ends the same way.
LEMMA RetryDeleteIInv ==
    ASSUME IInv, NEW n \in Names, RetryDelete(n)
    PROVE  IInv'
  <1>1. up /\ job.op = "idle" /\ task[n].id # 0 /\ task[n].id \in deleted
    BY DEF IInv, RetryDelete, CheckDue, Ready, Idle, StoreDurable, MemorySound
  <1>2. /\ ForgetTask(n)
        /\ UNCHANGED <<gvars, up, link, job, saved, nextId, crashes, why, acked, deleted>>
    BY DEF RetryDelete, hvars
  <1>3. deleted' = deleted \cup {task[n].id} /\ job' \in JobRec
    BY <1>1, <1>2 DEF IInv, TypeOK
  <1> QED
    BY <1>1, <1>2, <1>3, ForgetTaskIInv

----------------------------------------------------------------------------
(* Every step keeps the invariant, so it always holds.                     *)

\* Every step keeps the invariant.
LEMMA NextIInv == IInv /\ [Next]_vars => IInv'
  <1> SUFFICES ASSUME IInv, [Next]_vars PROVE IInv'
    OBVIOUS
  <1>1. CASE UNCHANGED vars
    <2>1. TypeOK' /\ JobSound'
      BY <1>1 DEF IInv, TypeOK, GvmdTypeOK, JobSound, vars, gvars, dvars, hvars
    <2> QED
      BY <1>1, <2>1, FrameIInv DEF vars, dvars, hvars
  <1>2. ASSUME NEW n \in Names, Request(n)
        PROVE  IInv'
    BY <1>2, CreateTaskIInv, DeleteTaskIInv, StartStopIInv DEF Request
  <1>3. ASSUME NEW n \in Names, Check(n)
        PROVE  IInv'
    BY <1>3, QueryTaskIInv, QueryReportIInv, QueryResultIInv, RetryDeleteIInv DEF Check
  <1>4. CASE CreateStep
    BY <1>4, CreateObjIInv, RollbackObjIInv, CreateWriteIInv DEF CreateStep
  <1>5. CASE DeleteStep
    BY <1>5, DeleteObjIInv, DeleteFilesIInv DEF DeleteStep
  <1>6. CASE ValidateGvmConn(TRUE) \/ ValidateGvmConn(FALSE)
    BY <1>6, ValidateGvmConnIInv
  <1> QED
    BY <1>1, <1>2, <1>3, <1>4, <1>5, <1>6, SaveStatusIInv, CrashIInv, RestartIInv, GvmdIInv
    DEF Next

\* So it holds in every reachable state.
LEMMA SpecIInv == Spec => []IInv
  <1> QED
    BY InitIInv, NextIInv, PTL DEF Spec

\* Every value the daemon and gvmd hold is one of its kind: no action leaves the
\* state space the code's types and checks allow.
THEOREM TypeCorrect == Spec => []TypeOK
  <1>1. IInv => TypeOK
    BY DEF IInv
  <1> QED
    BY <1>1, SpecIInv, PTL

\* Memory, task file and run queue name the same tasks in every state of a
\* running daemon (createTaskRelationFiles, delTaskRelationFiles, readTaskFile).
THEOREM StoreIsDurable == Spec => []StoreDurable
  <1>1. IInv => StoreDurable
    BY DEF IInv
  <1> QED
    BY <1>1, SpecIInv, PTL

\* What clients were told of a creation or a deletion is what the task file says,
\* through any crashes (daemon_create_task, daemon_delete_task).
THEOREM AnswersAreDurable == Spec => []AckedDurable
  <1>1. IInv => AckedDurable
    BY DEF IInv
  <1> QED
    BY <1>1, SpecIInv, PTL

\* The type of the next check and the status agree, in memory and in the status
\* files (backend_query_task, backend_query_report, backend_query_result).
THEOREM StatusIsConsistent == Spec => []StatusMatchesCheck
  <1>1. IInv => StatusMatchesCheck
    BY DEF IInv
  <1> QED
    BY <1>1, SpecIInv, PTL

\* Results are on disk before memory or the status file says so
\* (backend_query_result).
THEOREM ResultsComeFirst == Spec => []ResultBeforeStatus
  <1>1. IInv => ResultBeforeStatus
    BY DEF IInv
  <1> QED
    BY <1>1, SpecIInv, PTL

\* No status file of a known task ever keeps the daemon from starting
\* (parseTaskStatusRecord).
THEOREM RestartIsSafe == Spec => []RestartSafe
  <1>1. IInv => RestartSafe
    <2> SUFFICES ASSUME IInv, NEW n \in Known
                 PROVE  StatusLoadable(taskFile[n].id)
      BY DEF RestartSafe
    <2> DEFINE st == stFile[taskFile[n].id]
    <2>1. taskFile[n].id \in Ids
      BY DEF IInv, TypeOK, FileRec, Known
    <2>2. st \in StRec /\ Follows(st) /\ st.chk # "DELETED"
      BY <2>1 DEF IInv, TypeOK, StatusMatchesCheck, MarkUnsaved
    <2>3. CASE st.rid # 0
      BY <2>3 DEF StatusLoadable
    <2>4. CASE st.rid = 0
      <3>1. st.status = "CREATE" /\ st.chk = "TASK"
        BY <2>2, <2>4 DEF Follows, StRec, ChkType
      <3>2. st = NoSt
        BY <2>2, <2>4, <3>1 DEF StRec, NoSt
      <3> QED
        BY <3>2 DEF StatusLoadable
    <2> QED
      BY <2>3, <2>4
  <1> QED
    BY <1>1, SpecIInv, PTL

----------------------------------------------------------------------------
(* The step property: what is followed is followed to the end.             *)

\* A step that changes the record of one task only, which is not followed.
LEMMA OtherKept ==
    ASSUME IInv, NEW m \in Names, task[m].chk \notin {"REPORT", "RESULT"},
           \A n \in Names : n # m => task'[n] = task[n]
    PROVE  Keeps
  BY DEF Keeps

\* No step of a running daemon lets a followed report go too early.
LEMMA NextKeeps == IInv /\ [Next]_vars => Keeps
  <1> SUFFICES ASSUME IInv, [Next]_vars PROVE Keeps
    OBVIOUS
  <1>1. CASE UNCHANGED task
    BY <1>1 DEF Keeps
  <1>2. ASSUME NEW n \in Names, Request(n)
        PROVE  Keeps
    BY <1>1, <1>2 DEF Request, CreateTask, DeleteTask, StartTask, StopTask, dvars
  <1>3. ASSUME NEW n \in Names, Check(n)
        PROVE  Keeps
    <2>1. task \in [Names -> TaskRec]
      BY DEF IInv, TypeOK
    <2>2. CASE QueryTask(n)
      <3>1. task[n].chk = "TASK" /\ \A m \in Names : m # n => task'[m] = task[m]
        BY <2>1, <2>2 DEF QueryTask, CheckDue
      <3> QED
        BY <3>1, OtherKept
    <2>3. CASE QueryReport(n)
      <3> DEFINE s == RunStatus(gReport[task[n].id][task[n].rid])
      <3>1. task' = [task EXCEPT ![n] = [task[n] EXCEPT !.status = s,
                       !.chk = IF s = "RUNNING" THEN "REPORT" ELSE "RESULT"]]
        BY <2>3 DEF QueryReport
      <3> HIDE DEF s
      <3>2. /\ task'[n].id = task[n].id /\ task'[n].rid = task[n].rid
            /\ task'[n].chk # "TASK"
            /\ \A m \in Names : m # n => task'[m] = task[m]
        BY <2>1, <3>1 DEF TaskRec
      <3> QED
        BY <3>2 DEF Keeps
    <2>4. ASSUME NEW ok \in WriteOutcomes, QueryResult(n, ok)
          PROVE  Keeps
      BY <1>1, <2>4 DEF QueryResult
    <2>5. CASE RetryDelete(n)
      <3>1. task[n].chk = "DELETED" /\ \A m \in Names : m # n => task'[m] = task[m]
        BY <2>1, <2>5 DEF RetryDelete, CheckDue, ForgetTask
      <3> QED
        BY <3>1, OtherKept
    <2> QED
      BY <1>3, <2>2, <2>3, <2>4, <2>5 DEF Check
  <1>4. CASE CreateStep
    <2>1. ASSUME NEW ok \in WriteOutcomes, CreateWrite(ok)
          PROVE  Keeps
      <3>1. job.name \in Names /\ task[job.name].chk = "TASK"
        BY <2>1, NoTaskType DEF IInv, JobSound, MemorySound, CreateWrite
      <3>2. \A m \in Names : m # job.name => task'[m] = task[m]
        BY <2>1 DEF CreateWrite, IInv, TypeOK
      <3> QED
        BY <3>1, <3>2, OtherKept
    <2>2. ASSUME NEW kind \in Kinds, NEW out \in Outcomes,
                 CreateObj(kind, out) \/ RollbackObj(kind, out)
          PROVE  Keeps
      BY <1>1, <2>2 DEF CreateObj, RollbackObj
    <2> QED
      BY <1>4, <2>1, <2>2 DEF CreateStep
  <1>5. CASE DeleteStep
    <2>1. /\ job.name \in Names /\ task[job.name].chk = "TASK"
          /\ task \in [Names -> TaskRec]
      BY <1>5 DEF DeleteStep, DeleteObj, DeleteFiles, IInv, JobSound, TypeOK
    <2>2. \A m \in Names : m # job.name => task'[m] = task[m]
      BY <1>5, <2>1 DEF DeleteStep, DeleteObj, DeleteFiles, ForgetTask
    <2> QED
      BY <2>1, <2>2, OtherKept
  <1>6. CASE SaveStatus
    <2>1. job.op = "status" /\ job.name \in Names /\ task \in [Names -> TaskRec]
      BY <1>6 DEF SaveStatus, IInv, JobSound, TypeOK
    <2>2. task' = [task EXCEPT ![job.name] = [task[job.name] EXCEPT !.chk = "TASK"]]
      BY <1>6 DEF SaveStatus
    <2>3. /\ \A m \in Names : m # job.name => task'[m] = task[m]
          /\ task'[job.name].id = task[job.name].id
          /\ task'[job.name].rid = task[job.name].rid
      BY <2>1, <2>2 DEF TaskRec
    <2> QED
      BY <2>1, <2>3 DEF Keeps
  <1>7. CASE Crash \/ Restart
    BY <1>7 DEF Crash, Restart, Keeps
  <1>8. ASSUME NEW ok \in BOOLEAN, ValidateGvmConn(ok)
        PROVE  Keeps
    BY <1>1, <1>8 DEF ValidateGvmConn
  <1>9. CASE Gvmd \/ UNCHANGED vars
    BY <1>1, <1>9 DEF Gvmd, vars, dvars
  <1> QED
    BY <1>2, <1>3, <1>4, <1>5, <1>6, <1>7, <1>8, <1>9 DEF Next

\* A running daemon lets go of a report it follows only when its results were
\* dealt with (daemon_delete_task, runGvmChecks, backend_query_result).
THEOREM FollowedReportsAreKept == Spec => FollowedToTheEnd
  <1>1. IInv /\ [Next]_vars => [Keeps]_vars
    BY NextKeeps
  <1>2. Spec => [][Keeps]_vars
    BY <1>1, SpecIInv, PTL DEF Spec
  <1> QED
    BY <1>2 DEF FollowedToTheEnd

=============================================================================
