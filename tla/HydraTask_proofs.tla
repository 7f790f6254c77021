-------------------------- MODULE HydraTask_proofs --------------------------
(***************************************************************************)
(* Proofs about HydraTask for every set of names and every bound: the      *)
(* inductive invariant IInv, and from it the safety properties of the      *)
(* files of a task, of the runners and of their pid files.                 *)
(***************************************************************************)
EXTENDS HydraTask, TLAPS

USE HydraAssumption DEF Ids, Procs

\* The blank values have their types.
LEMMA Blanks ==
    /\ NoJob \in JobRec /\ NoJob.op = "idle" /\ NoJob.id = 0
    /\ NoTask \in MemRec /\ NoTask.id = 0 /\ NoTask.pid = 0
    /\ Free \in ProcRec /\ Free.pc = "free" /\ Free.id = 0 /\ Free.gen = 0 /\ ~ Free.sent
  BY DEF NoJob, JobRec, JobOps, NoTask, MemRec, Free, ProcRec, Pcs

\* The invariant holds when the daemon starts for the first time.
LEMMA InitIInv == Init => IInv
  <1> SUFFICES ASSUME Init PROVE IInv
    OBVIOUS
  <1> USE Blanks DEF Init
  <1>1. TypeOK
    <2>1. pidFile \in [Ids -> {NoFile, Stopped, Done} \cup Procs]
      OBVIOUS
    <2>2. 1 \in 1..MaxGen /\ 1 \in 0..MaxGen /\ 1 \in 1..MaxId + 1 /\ 1 \in 1..MaxProc + 1
      BY DEF HydraAssumption
    <2>3. /\ mem \in [HNames -> MemRec] /\ file \in [HNames -> 0..MaxId]
          /\ proc \in [Procs -> ProcRec]
      BY DEF HydraAssumption
    <2> QED
      BY <2>1, <2>2, <2>3 DEF TypeOK
  <1>2. JobSound /\ IdsSound /\ MemSound /\ ProcSound /\ PidFileInDir
    BY DEF JobSound, Creating, Deleting, IdsSound, MemSound, ProcSound, PidFileInDir
  <1>3. StoreComplete /\ CronOwned
    BY DEF StoreComplete, CronOwned
  <1>4. RunnerKnown /\ PidFileNeverStale
    BY DEF RunnerKnown, PidFileNeverStale, Alive, NoFile
  <1> QED
    BY <1>1, <1>2, <1>3, <1>4 DEF IInv

----------------------------------------------------------------------------
(* Creating and deleting: the runners go on as they were.                  *)

\* As long as the runners and the memory of their pids stay, so do the parts of
\* the invariant about runners.
LEMMA RunnersFrame ==
    ASSUME IInv, UNCHANGED <<gen, up, proc, nextProc>>, mem' \in [HNames -> MemRec],
           \A n \in HNames : mem'[n] = mem[n] \/ (mem[n].pid = 0 /\ mem'[n].pid = 0),
           pidFile' \in [Ids -> {NoFile, Stopped, Done} \cup Procs],
           \A k \in Ids : pidFile'[k] = pidFile[k] \/ pidFile'[k] = NoFile
    PROVE  ProcSound' /\ RunnerKnown' /\ PidFileNeverStale'
  <1> USE DEF IInv
  <1>1. ProcSound'
    BY DEF ProcSound
  <1>2. RunnerKnown'
    <2>1. \A n \in HNames : mem'[n].pid # 0 => mem'[n] = mem[n]
      OBVIOUS
    <2>2. ASSUME NEW p \in Procs, NEW n \in HNames, mem[n] = [id |-> proc[p].id, pid |-> p]
          PROVE  mem'[n] = mem[n]
      BY <2>2
    <2> QED
      BY <2>1, <2>2 DEF RunnerKnown, Alive, Child
  <1>3. PidFileNeverStale'
    BY DEF PidFileNeverStale, Alive, NoFile
  <1> QED
    BY <1>1, <1>2, <1>3

\* A new task has a new id, which no file, runner or pid file knows
\* (daemon_create_hydra).
LEMMA CreateHydraIInv ==
    ASSUME IInv, NEW n \in HNames, NEW sched \in BOOLEAN, CreateHydra(n, sched)
    PROVE  IInv'
  <1> USE DEF IInv, CreateHydra, Idle
  <1>1. nextId \in Ids /\ nextId' \in 1..MaxId + 1
    BY DEF TypeOK
  <1>2. job' \in JobRec /\ mem' \in [HNames -> MemRec]
    BY <1>1 DEF TypeOK, JobRec, JobOps, MemRec
  <1>3. TypeOK'
    BY <1>1, <1>2 DEF TypeOK
  <1>4. mem[n] = NoTask /\ NoTask.pid = 0
    BY Blanks DEF MemSound
  <1>5. ProcSound' /\ RunnerKnown' /\ PidFileNeverStale'
    BY <1>2, <1>4, RunnersFrame DEF TypeOK
  <1>6. JobSound'
    BY <1>1 DEF JobSound, Creating, Deleting, IdsSound, PidFileInDir, TypeOK
  <1>7. IdsSound' /\ MemSound' /\ PidFileInDir'
    <2>1. mem'[n].id = nextId /\ \A m \in HNames : m # n => mem'[m] = mem[m]
      BY DEF TypeOK
    <2>2. IdsSound'
      <3>1. \A m \in HNames : mem[m].id < nextId /\ file[m] < nextId /\ mem[m].id \in Nat /\ file[m] \in Nat
        BY DEF IdsSound, TypeOK, MemRec
      <3>2. \A m \in HNames : mem'[m].id < nextId' /\ file'[m] < nextId'
        BY <1>1, <2>1, <3>1
      <3>3. \A m, l \in HNames : m # l => /\ mem'[m].id # 0 => mem'[m].id # mem'[l].id
                                          /\ file'[m] # 0 => file'[m] # file'[l]
        BY <1>1, <2>1, <3>1 DEF IdsSound
      <3>4. \A k \in dir' \cup cron' \cup planned' : k < nextId'
        <4>1. \A k \in dir \cup cron \cup planned : k < nextId /\ k \in Nat
          BY DEF IdsSound, TypeOK
        <4>2. \A k \in dir' \cup cron' \cup planned' :
                 k = nextId \/ k \in dir \cup cron \cup planned
          OBVIOUS
        <4> QED
          BY <1>1, <4>1, <4>2
      <3>5. \A p \in Procs : proc[p].id < nextId /\ proc[p].id \in Nat
        BY DEF IdsSound, TypeOK, ProcRec
      <3>6. \A p \in Procs : proc'[p].id < nextId'
        BY <1>1, <3>5
      <3> QED
        BY <3>2, <3>3, <3>4, <3>6 DEF IdsSound
    <2>3. MemSound'
      BY <1>1, <2>1 DEF MemSound
    <2> QED
      BY <1>1, <2>2, <2>3 DEF PidFileInDir
  <1>8. StoreComplete'
    BY <1>1 DEF StoreComplete, TypeOK, IdsSound
  <1>9. CronOwned'
    BY <1>1, Blanks DEF CronOwned, JobSound, Creating, Deleting, TypeOK
  <1> QED
    BY <1>3, <1>5, <1>6, <1>7, <1>8, <1>9

\* What a failed creation takes back is known to nobody else
\* (daemon_create_hydra's error path).
LEMMA TakeBackIInv ==
    ASSUME IInv, up, job.op \in Creating, TakeBack,
           UNCHANGED <<gen, up, lock, childExit, file, nextId, pidFile, proc, nextProc,
                       planned, cut>>
    PROVE  IInv'
  <1> USE DEF IInv, TakeBack
  <1>1. /\ job.name \in HNames /\ job.id \in 1..nextId - 1 /\ job.id \in Ids
        /\ mem[job.name] = [id |-> job.id, pid |-> 0]
        /\ \A n \in HNames : file[n] # job.id
        /\ pidFile[job.id] = NoFile
    BY DEF JobSound, TypeOK
  <1>2. TypeOK'
    BY <1>1, Blanks DEF TypeOK
  <1>3. ProcSound' /\ RunnerKnown' /\ PidFileNeverStale'
    BY <1>1, <1>2, Blanks, RunnersFrame DEF TypeOK
  <1>4. JobSound'
    BY Blanks DEF JobSound, Creating, Deleting
  <1>5. IdsSound' /\ MemSound' /\ PidFileInDir'
    BY <1>1, Blanks DEF IdsSound, MemSound, PidFileInDir, TypeOK, MemRec
  <1>6. StoreComplete'
    BY <1>1, Blanks DEF StoreComplete, TypeOK, Creating
  <1>7. CronOwned'
    BY <1>1 DEF CronOwned
  <1> QED
    BY <1>2, <1>3, <1>4, <1>5, <1>6, <1>7

\* The cron file comes before the task file (createHydraSchedFile).
LEMMA WriteScheduleIInv ==
    ASSUME IInv, NEW ok \in BOOLEAN, WriteSchedule(ok)
    PROVE  IInv'
  <1> USE DEF IInv, WriteSchedule
  <1>1. CASE ~ ok
    BY <1>1, TakeBackIInv DEF Creating
  <1>2. CASE ok
    <2>1. job.id \in 1..nextId - 1 /\ job.id \in Ids
      BY DEF JobSound, Creating, TypeOK
    <2>2. job' \in JobRec /\ job'.op = "file" /\ job'.name = job.name /\ job'.id = job.id
      BY <1>2 DEF TypeOK, JobRec, JobOps
    <2>3. TypeOK'
      BY <1>2, <2>1, <2>2 DEF TypeOK
    <2>4. ProcSound' /\ RunnerKnown' /\ PidFileNeverStale'
      BY <1>2, RunnersFrame DEF TypeOK
    <2>5. JobSound'
      BY <1>2, <2>1, <2>2 DEF JobSound, Creating, Deleting
    <2>6. IdsSound' /\ MemSound' /\ PidFileInDir'
      BY <1>2, <2>1 DEF IdsSound, MemSound, PidFileInDir, TypeOK
    <2>7. StoreComplete'
      BY <1>2, <2>2 DEF StoreComplete
    <2>8. CronOwned'
      BY <1>2, <2>2 DEF CronOwned
    <2> QED
      BY <2>3, <2>4, <2>5, <2>6, <2>7, <2>8
  <1> QED
    BY <1>1, <1>2

\* With the task file the task is complete (writeHydraRelationFile).
LEMMA CreateFileIInv ==
    ASSUME IInv, NEW ok \in BOOLEAN, CreateFile(ok)
    PROVE  IInv'
  <1> USE DEF IInv, CreateFile
  <1>1. CASE ~ ok
    BY <1>1, TakeBackIInv DEF Creating
  <1>2. CASE ok
    <2>1. /\ job.name \in HNames /\ job.id \in 1..nextId - 1 /\ job.id \in dir
          /\ mem[job.name] = [id |-> job.id, pid |-> 0]
          /\ job.id \in planned => job.id \in cron
      BY DEF JobSound, Creating
    <2>2. \A n \in HNames : file'[n] = mem[n].id
      BY <1>2 DEF WriteTaskFile
    <2>3. TypeOK'
      BY <1>2, Blanks DEF TypeOK, WriteTaskFile, MemRec
    <2>4. ProcSound' /\ RunnerKnown' /\ PidFileNeverStale'
      BY <1>2, RunnersFrame DEF TypeOK
    <2>5. JobSound'
      BY <1>2, Blanks DEF JobSound, Creating, Deleting
    <2>6. IdsSound' /\ MemSound' /\ PidFileInDir'
      BY <1>2, <2>2 DEF IdsSound, MemSound, PidFileInDir
    <2>7. \A n \in HNames : n # job.name => file[n] = mem[n].id
      BY DEF StoreComplete
    <2>8. StoreComplete'
      BY <1>2, <2>1, <2>2, <2>7, Blanks DEF StoreComplete
    <2>9. CronOwned'
      <3> SUFFICES ASSUME NEW k \in cron
                   PROVE  (\E n \in HNames : mem[n].id = k) \/ k \in cut
        BY <1>2, <2>2 DEF CronOwned
      <3>1. CASE \E n \in HNames : file[n] = k
        <4> PICK n \in HNames : file[n] = k
          BY <3>1
        <4>1. n # job.name
          BY <2>1, k # 0 DEF JobSound, Creating, StoreComplete, TypeOK
        <4> QED
          BY <2>7, <4>1
      <3> QED
        BY <2>1, <3>1 DEF CronOwned
    <2> QED
      BY <2>3, <2>4, <2>5, <2>6, <2>8, <2>9
  <1> QED
    BY <1>1, <1>2

\* A deleted task leaves memory and task file at once (daemon_delete_hydra).
LEMMA DeleteHydraIInv ==
    ASSUME IInv, NEW n \in HNames, DeleteHydra(n)
    PROVE  IInv'
  <1> USE DEF IInv, DeleteHydra, Idle
  <1>1. mem[n].id \in 1..nextId - 1 /\ mem[n].id \in Ids /\ mem[n].pid = 0
    BY DEF IdsSound, TypeOK, MemRec
  <1>2. /\ mem'[n] = NoTask
        /\ \A m \in HNames : m # n => mem'[m] = mem[m]
        /\ \A m \in HNames : file'[m] = mem'[m].id
        /\ \A m \in HNames : file[m] = mem[m].id
    BY DEF TypeOK, StoreComplete
  <1>3. job' \in JobRec /\ job'.op = "uncron" /\ job'.name = n /\ job'.id = mem[n].id
    BY <1>1 DEF JobRec, JobOps
  <1>4. mem' \in [HNames -> MemRec] /\ file' \in [HNames -> 0..MaxId]
    <2>1. mem' \in [HNames -> MemRec]
      BY Blanks DEF TypeOK
    <2> QED
      BY <2>1 DEF MemRec
  <1>5. TypeOK'
    BY <1>3, <1>4 DEF TypeOK
  <1>6. ProcSound' /\ RunnerKnown' /\ PidFileNeverStale'
    BY <1>1, <1>2, <1>4, Blanks, RunnersFrame DEF TypeOK
  <1>7. JobSound'
    <2>1. \A m \in HNames : mem'[m].id # mem[n].id
      BY <1>1, <1>2, Blanks DEF IdsSound
    <2> QED
      BY <1>1, <1>2, <1>3, <2>1 DEF JobSound, Creating, Deleting
  <1>8. IdsSound' /\ MemSound' /\ PidFileInDir'
    <2>1. IdsSound'
      BY <1>1, <1>2, Blanks DEF IdsSound, TypeOK
    <2> QED
      BY <1>2, <2>1 DEF MemSound, PidFileInDir
  <1>9. StoreComplete'
    BY <1>2, <1>3, Blanks DEF StoreComplete
  <1>10. CronOwned'
    <2> SUFFICES ASSUME NEW k \in cron
                 PROVE  (\E m \in HNames : file'[m] = k) \/ mem[n].id = k \/ k \in cut
      BY <1>3 DEF CronOwned
    <2>1. k # 0 /\ job.id = 0
      BY DEF TypeOK, JobSound, Creating, Deleting
    <2> QED
      BY <1>2, <2>1 DEF CronOwned
  <1> QED
    BY <1>5, <1>6, <1>7, <1>8, <1>9, <1>10

\* Then go its cron file and its directory (delHydraRelationFiles).
LEMMA DeleteScheduleIInv ==
    ASSUME IInv, DeleteSchedule
    PROVE  IInv'
  <1> USE DEF IInv, DeleteSchedule
  <1>1. /\ job' \in JobRec /\ job'.op = "undir" /\ job'.name = job.name /\ job'.id = job.id
    BY DEF TypeOK, JobRec, JobOps
  <1>2. TypeOK'
    BY <1>1 DEF TypeOK
  <1>3. ProcSound' /\ RunnerKnown' /\ PidFileNeverStale'
    BY RunnersFrame DEF TypeOK
  <1>4. JobSound'
    BY <1>1 DEF JobSound, Creating, Deleting
  <1>5. IdsSound' /\ MemSound' /\ PidFileInDir'
    BY DEF IdsSound, MemSound, PidFileInDir
  <1>6. StoreComplete' /\ CronOwned'
    BY <1>1 DEF StoreComplete, CronOwned, JobSound, Deleting
  <1> QED
    BY <1>2, <1>3, <1>4, <1>5, <1>6

LEMMA DeleteDirIInv ==
    ASSUME IInv, DeleteDir
    PROVE  IInv'
  <1> USE DEF IInv, DeleteDir
  <1>1. job.id \in Ids
    BY DEF JobSound, Deleting, TypeOK
  <1>2. TypeOK'
    BY Blanks DEF TypeOK
  <1>3. ProcSound' /\ RunnerKnown' /\ PidFileNeverStale'
    BY <1>2, RunnersFrame DEF TypeOK
  <1>4. JobSound'
    BY Blanks DEF JobSound, Creating, Deleting
  <1>5. IdsSound' /\ MemSound' /\ PidFileInDir'
    BY <1>1 DEF IdsSound, MemSound, PidFileInDir, TypeOK
  <1>6. StoreComplete' /\ CronOwned'
    BY Blanks DEF StoreComplete, CronOwned, JobSound, Deleting
  <1> QED
    BY <1>2, <1>3, <1>4, <1>5, <1>6

----------------------------------------------------------------------------
(* Starting, stopping and reaping: the files stay.                         *)

\* A step that changes only runners, pids in memory and pid files, of tasks that
\* have a directory and are not being created, keeps the parts of the invariant
\* about the files.
LEMMA FilesFrame ==
    ASSUME IInv, UNCHANGED <<up, file, cron, dir, nextId, planned, cut>>,
           \/ UNCHANGED job
           \/ job.op \notin Creating \cup Deleting /\ job'.op \notin Creating \cup Deleting
              /\ job'.id = 0,
           job'.op # "idle" => up,
           \A n \in HNames : mem'[n] = mem[n] \/ (mem'[n].id = mem[n].id /\ mem[n].id # 0),
           \A n \in HNames : mem[n].pid = 0 /\ mem[n].id = job.id => mem'[n] = mem[n],
           \A p \in Procs : proc'[p].id = proc[p].id
                            \/ \E n \in HNames : proc'[p].id = mem[n].id
                                                /\ job.op \notin Creating,
           \A k \in Ids : pidFile'[k] = pidFile[k]
                          \/ (k \in dir /\ \E p \in Procs : proc[p].id = k)
    PROVE  JobSound' /\ IdsSound' /\ MemSound' /\ PidFileInDir' /\ StoreComplete' /\ CronOwned'
  <1> USE DEF IInv
  <1>1. \A n \in HNames : mem'[n].id = mem[n].id
    OBVIOUS
  <1>2. JobSound'
    <2>1. CASE UNCHANGED job
      <3>1. job.op \in Creating => pidFile'[job.id] = pidFile[job.id]
        BY DEF JobSound, TypeOK
      <3>2. job.op \in Creating => \A p \in Procs : proc'[p].id # job.id
        BY DEF JobSound
      <3>3. job.op \in Creating => mem'[job.name] = mem[job.name]
        BY DEF JobSound
      <3> QED
        BY <1>1, <2>1, <3>1, <3>2, <3>3 DEF JobSound, Creating, Deleting
    <2>2. CASE job'.op \notin Creating \cup Deleting /\ job'.id = 0
      BY <2>2 DEF JobSound, Creating, Deleting
    <2> QED
      BY <2>1, <2>2
  <1>3. IdsSound'
    <2>1. \A p \in Procs : proc'[p].id < nextId
      BY DEF IdsSound
    <2> QED
      BY <1>1, <2>1 DEF IdsSound
  <1>4. MemSound' /\ PidFileInDir'
    BY <1>1, Blanks DEF MemSound, PidFileInDir
  <1>5. StoreComplete' /\ CronOwned'
    <2>1. job' = job \/ (job.op \notin {"cron", "file"} /\ job'.op \notin {"cron", "file"})
      BY DEF Creating
    <2>2. StoreComplete'
      BY <1>1, <2>1 DEF StoreComplete
    <2>3. \A k \in cron : k # 0
      BY DEF TypeOK
    <2>4. job'.id = job.id \/ job.id = 0
      BY DEF JobSound
    <2> QED
      BY <2>2, <2>3, <2>4 DEF CronOwned
  <1> QED
    BY <1>2, <1>3, <1>4, <1>5

\* A new runner has a new number, which no pid file holds (daemon_start_hydra).
LEMMA StartHydraIInv ==
    ASSUME IInv, NEW n \in HNames, StartHydra(n)
    PROVE  IInv'
  <1> USE DEF IInv, StartHydra, Idle
  <1> DEFINE r == [Free EXCEPT !.pc = "boot", !.id = mem[n].id, !.gen = gen, !.left = Services]
  <1>1. nextProc \in Procs /\ nextProc' \in 1..MaxProc + 1 /\ proc[nextProc].pc = "free"
    BY DEF TypeOK, ProcSound
  <1>2. /\ r \in ProcRec /\ r.pc = "boot" /\ r.id = mem[n].id /\ r.gen = gen /\ ~ r.sent
    <2>1. gen \in 0..MaxGen /\ mem[n].id \in 0..MaxId /\ Services \in 0..Services
      BY DEF TypeOK, MemRec, HydraAssumption
    <2>2. Free \in ProcRec /\ ~ Free.sent
      BY Blanks
    <2> QED
      BY <2>1, <2>2 DEF ProcRec, Pcs
  <1>3. /\ proc'[nextProc] = r
        /\ \A p \in Procs : p # nextProc => proc'[p] = proc[p]
        /\ mem'[n] = [id |-> mem[n].id, pid |-> nextProc]
        /\ \A m \in HNames : m # n => mem'[m] = mem[m]
    BY <1>1 DEF TypeOK, MemRec
  <1>4. TypeOK'
    <2>1. proc' \in [Procs -> ProcRec]
      BY <1>1, <1>2 DEF TypeOK
    <2>2. mem' \in [HNames -> MemRec]
      <3>1. [mem[n] EXCEPT !.pid = nextProc] \in MemRec
        <4>1. mem[n] \in MemRec /\ nextProc \in 0..MaxProc
          BY <1>1 DEF TypeOK
        <4> QED
          BY <4>1 DEF MemRec
      <3> QED
        BY <3>1 DEF TypeOK
    <2> QED
      BY <1>1, <2>1, <2>2 DEF TypeOK
  <1>5. JobSound' /\ IdsSound' /\ MemSound' /\ PidFileInDir' /\ StoreComplete' /\ CronOwned'
    <2>1. job.op \notin Creating \cup Deleting /\ job.id = 0
      BY DEF JobSound, Creating, Deleting
    <2> QED
      BY <1>2, <1>3, <2>1, FilesFrame
  <1>6. ProcSound'
    BY <1>1, <1>2, <1>3 DEF ProcSound, TypeOK
  <1>7. RunnerKnown'
    <2>1. \A m \in HNames : mem[m].pid # nextProc
      BY <1>1 DEF RunnerKnown
    <2>2. \A m \in HNames : mem'[m].pid # 0 =>
             LET q == proc'[mem'[m].pid]
             IN  /\ up' /\ q.gen = gen' /\ q.pc \notin {"free", "gone"}
                 /\ q.id = mem'[m].id /\ ~ q.sent
      <3> TAKE m \in HNames
      <3>1. CASE m = n
        <4>1. mem'[m].pid = nextProc /\ mem'[m].id = mem[n].id
          BY <1>3, <3>1
        <4>2. proc'[mem'[m].pid] = r
          BY <1>3, <4>1
        <4>3. up' /\ gen' = gen
          OBVIOUS
        <4> QED
          BY <1>2, <4>1, <4>2, <4>3
      <3>2. CASE m # n
        <4>1. mem[m].pid # 0 => mem[m].pid \in Procs
          BY DEF TypeOK, MemRec
        <4> QED
          BY <1>3, <2>1, <3>2, <4>1 DEF RunnerKnown, Child
      <3> QED
        BY <3>1, <3>2
    <2>3. ASSUME NEW p \in Procs, Alive(p)', Child(p)', ~ proc'[p].sent
          PROVE  \E m \in HNames : mem'[m] = [id |-> proc'[p].id, pid |-> p]
      <3>1. CASE p = nextProc
        BY <1>2, <1>3, <3>1
      <3>2. CASE p # nextProc
        <4>1. PICK m \in HNames : mem[m] = [id |-> proc[p].id, pid |-> p]
          BY <1>3, <2>3, <3>2 DEF RunnerKnown, Alive, Child
        <4>2. m # n
          BY <4>1
        <4> QED
          BY <1>3, <3>2, <4>1, <4>2
      <3> QED
        BY <3>1, <3>2
    <2> QED
      BY <2>2, <2>3 DEF RunnerKnown, Child
  <1>8. PidFileNeverStale'
    <2>1. \A k \in Ids : pidFile[k] \in {-2, -1, 0} \cup Procs
      BY DEF TypeOK, NoFile, Stopped, Done
    <2>2. \A k \in Ids : pidFile[k] > 0 => pidFile[k] \in Procs /\ pidFile[k] # nextProc
      BY <1>1, <2>1 DEF PidFileNeverStale, Alive
    <2> QED
      BY <1>3, <2>2 DEF PidFileNeverStale, Alive
  <1> QED
    BY <1>4, <1>5, <1>6, <1>7, <1>8

\* A signal keeps a runner alive, and what it is.
LEMMA SignalledRunner ==
    ASSUME NEW r \in ProcRec,
           r.pc \in {"boot", "armed", "check", "gap", "wait", "end"}
    PROVE  /\ Signalled(r) \in ProcRec
           /\ Signalled(r).pc \in {"boot", "armed", "check", "gap", "wait", "end"}
           /\ Signalled(r).id = r.id /\ Signalled(r).gen = r.gen /\ Signalled(r).sent = r.sent
  BY DEF Signalled, ProcRec, Pcs

\* A stopped runner is forgotten in the same step (daemon_stop_hydra).
LEMMA StopHydraIInv ==
    ASSUME IInv, NEW n \in HNames, StopHydra(n)
    PROVE  IInv'
  <1> USE DEF IInv, StopHydra, Idle
  <1> DEFINE p == mem[n].pid
             r == [Signalled(proc[p]) EXCEPT !.sent = TRUE]
  <1>1. p \in Procs /\ mem[n] \in MemRec /\ mem[n].id # 0
    BY Blanks DEF TypeOK, MemRec, MemSound
  <1>2. /\ proc[p] \in ProcRec /\ proc[p].id = mem[n].id
        /\ proc[p].pc \in {"boot", "armed", "check", "gap", "wait", "end", "zombie"}
    BY <1>1 DEF TypeOK, RunnerKnown, ProcRec, Pcs
  <1>3. /\ r \in ProcRec /\ r.id = proc[p].id /\ r.gen = proc[p].gen /\ r.sent
        /\ r.pc = proc[p].pc \/ (proc[p].pc = "wait" /\ r.pc = "end")
    BY <1>2 DEF Signalled, ProcRec, Pcs
  <1>4. /\ proc'[p] = r
        /\ \A q \in Procs : q # p => proc'[q] = proc[q]
        /\ mem'[n] = [id |-> mem[n].id, pid |-> 0]
        /\ \A m \in HNames : m # n => mem'[m] = mem[m]
    BY <1>1 DEF TypeOK, MemRec
  <1>5. TypeOK'
    <2>1. proc' \in [Procs -> ProcRec]
      BY <1>1, <1>3 DEF TypeOK
    <2>2. mem' \in [HNames -> MemRec]
      <3>1. [mem[n] EXCEPT !.pid = 0] \in MemRec
        BY <1>1 DEF MemRec
      <3> QED
        BY <3>1 DEF TypeOK
    <2> QED
      BY <2>1, <2>2 DEF TypeOK
  <1>6. JobSound' /\ IdsSound' /\ MemSound' /\ PidFileInDir' /\ StoreComplete' /\ CronOwned'
    <2>1. \A q \in Procs : proc'[q].id = proc[q].id
      BY <1>3, <1>4
    <2>2. \A m \in HNames : mem'[m] = mem[m] \/ (mem'[m].id = mem[m].id /\ mem[m].id # 0)
      BY <1>1, <1>4
    <2> QED
      BY <1>1, <1>4, <2>1, <2>2, FilesFrame
  <1>7. ProcSound'
    BY <1>2, <1>3, <1>4 DEF ProcSound
  <1>8. RunnerKnown'
    <2>1. \A m \in HNames : m # n /\ mem[m].pid # 0 => mem[m].pid \in Procs /\ mem[m].pid # p
      <3>1. \A m \in HNames : mem[m].pid = p => mem[m].id = mem[n].id
        BY <1>1 DEF RunnerKnown
      <3> QED
        BY <1>1, <3>1 DEF IdsSound, TypeOK, MemRec
    <2>2. \A m \in HNames : mem'[m].pid # 0 => /\ m # n /\ mem'[m] = mem[m]
                                               /\ proc'[mem[m].pid] = proc[mem[m].pid]
      BY <1>4, <2>1
    <2>3. ASSUME NEW q \in Procs, Alive(q)', Child(q)', ~ proc'[q].sent
          PROVE  \E m \in HNames : mem'[m] = [id |-> proc'[q].id, pid |-> q]
      <3>1. q # p /\ proc'[q] = proc[q]
        BY <1>3, <1>4, <2>3
      <3>2. PICK m \in HNames : mem[m] = [id |-> proc[q].id, pid |-> q]
        BY <2>3, <3>1 DEF RunnerKnown, Alive, Child
      <3>3. m # n
        BY <3>1, <3>2
      <3> QED
        BY <1>4, <3>1, <3>2, <3>3
    <2>4. ASSUME NEW m \in HNames, mem'[m].pid # 0
          PROVE  LET q == proc'[mem'[m].pid]
                 IN  /\ up' /\ q.gen = gen' /\ q.pc \notin {"free", "gone"}
                     /\ q.id = mem'[m].id /\ ~ q.sent
      <3>1. /\ up /\ proc[mem[m].pid].gen = gen /\ proc[mem[m].pid].pc \notin {"free", "gone"}
            /\ proc[mem[m].pid].id = mem[m].id /\ ~ proc[mem[m].pid].sent
        BY <2>2, <2>4 DEF RunnerKnown, Child
      <3>2. mem'[m] = mem[m] /\ proc'[mem[m].pid] = proc[mem[m].pid] /\ up' = up /\ gen' = gen
        BY <2>2, <2>4
      <3> HIDE DEF StopHydra, IInv, p, r
      <3> QED
        BY <3>1, <3>2
    <2> QED
      BY <2>3, <2>4 DEF RunnerKnown, Child
  <1>9. PidFileNeverStale'
    BY <1>2, <1>3, <1>4 DEF PidFileNeverStale, Alive
  <1> QED
    BY <1>5, <1>6, <1>7, <1>8, <1>9

----------------------------------------------------------------------------
(* The runner and its pid file                                             *)

\* A step of runner p to r, and of its pid file, keeps the invariant if r is the
\* same runner, living on or at its end, and the pid file names no one who is
\* not alive after it.
LEMMA RunnerFrame ==
    ASSUME IInv, NEW p \in Procs, Alive(p),
           NEW r \in ProcRec, RunnerStep(p, r),
           r.id = proc[p].id, r.gen = proc[p].gen, r.sent = proc[p].sent,
           \/ r.pc \in {"boot", "armed", "check", "gap", "wait", "end"}
           \/ r.pc = IF Child(p) THEN "zombie" ELSE "gone",
           childExit' \in BOOLEAN,
           pidFile' \in [Ids -> {NoFile, Stopped, Done} \cup Procs],
           \A k \in Ids : pidFile'[k] = pidFile[k] \/ (k \in dir /\ k = proc[p].id),
           \A k \in Ids : /\ pidFile'[k] = p => Alive(p)' /\ proc[p].id = k
                          /\ pidFile'[k] > 0 => pidFile'[k] \in {p, pidFile[k]}
    PROVE  IInv'
  <1> USE DEF IInv, RunnerStep
  <1>1. proc'[p] = r /\ \A q \in Procs : q # p => proc'[q] = proc[q]
    BY DEF TypeOK
  <1>2. TypeOK'
    BY DEF TypeOK
  <1>3. JobSound' /\ IdsSound' /\ MemSound' /\ PidFileInDir' /\ StoreComplete' /\ CronOwned'
    <2>1. \A q \in Procs : proc'[q].id = proc[q].id
      BY <1>1
    <2>2. job'.op # "idle" => up
      BY DEF JobSound
    <2> QED
      BY <2>1, <2>2, FilesFrame
  <1>4. ProcSound'
    BY <1>1 DEF ProcSound, Alive
  <1>5. RunnerKnown'
    <2>1. ASSUME NEW n \in HNames, mem[n].pid # 0
          PROVE  LET q == proc'[mem[n].pid]
                 IN  up /\ q.gen = gen /\ q.pc \notin {"free", "gone"} /\ q.id = mem[n].id /\ ~ q.sent
      <3>1. mem[n].pid \in Procs
        BY <2>1 DEF TypeOK, MemRec
      <3>2. CASE mem[n].pid = p
        BY <1>1, <2>1, <3>2 DEF RunnerKnown, Child
      <3>3. CASE mem[n].pid # p
        BY <1>1, <2>1, <3>1, <3>3 DEF RunnerKnown, Child
      <3> QED
        BY <3>2, <3>3
    <2>2. ASSUME NEW q \in Procs, Alive(q)', Child(q)', ~ proc'[q].sent
          PROVE  \E n \in HNames : mem[n] = [id |-> proc'[q].id, pid |-> q]
      <3>1. Alive(q) /\ Child(q) /\ ~ proc[q].sent /\ proc'[q].id = proc[q].id
        BY <1>1, <2>2 DEF Alive, Child
      <3> QED
        BY <3>1 DEF RunnerKnown
    <2> QED
      BY <2>1, <2>2 DEF RunnerKnown, Child
  <1>6. PidFileNeverStale'
    <2> SUFFICES ASSUME NEW k \in Ids, pidFile'[k] > 0
                 PROVE  /\ proc'[pidFile'[k]].pc \in {"boot", "armed", "check", "gap", "wait", "end"}
                        /\ proc'[pidFile'[k]].id = k
      BY DEF PidFileNeverStale, Alive
    <2>1. CASE pidFile'[k] = p
      BY <1>1, <2>1 DEF Alive
    <2>2. CASE pidFile'[k] # p
      <3>1. pidFile'[k] = pidFile[k] /\ pidFile[k] \in {-2, -1, 0} \cup Procs
        BY <2>2 DEF TypeOK, NoFile, Stopped, Done
      <3>2. pidFile[k] \in Procs
        BY <3>1
      <3> QED
        BY <1>1, <2>2, <3>1, <3>2 DEF PidFileNeverStale, Alive
    <2> QED
      BY <2>1, <2>2
  <1> QED
    BY <1>2, <1>3, <1>4, <1>5, <1>6

\* The steps of a runner that leave the pid file alone (execHydraTask, runHydraTask).
LEMMA RunnerGoesOnIInv ==
    ASSUME IInv, NEW p \in Procs, NEW forked \in BOOLEAN,
           \/ Arm(p)
           \/ NextService(p, forked)
           \/ EnterWait(p)
           \/ ServiceEnds(p)
           \/ WaitReturns(p)
    PROVE  IInv'
  <1> USE DEF IInv
  <1>1. PICK r : /\ RunnerStep(p, r)
                 /\ r \in ProcRec
                 /\ r.id = proc[p].id /\ r.gen = proc[p].gen /\ r.sent = proc[p].sent
                 /\ r.pc \in {"boot", "armed", "check", "gap", "wait", "end"}
    <2>1. proc[p] \in ProcRec
      BY DEF TypeOK
    <2>2. CASE Arm(p)
      BY <2>1, <2>2 DEF Arm, ProcRec, Pcs
    <2>3. CASE NextService(p, forked)
      <3>1. proc[p].left # 0 => proc[p].left - 1 \in 0..Services
        BY <2>1 DEF ProcRec, HydraAssumption
      <3>2. CASE proc[p].stop \/ proc[p].left = 0 \/ ~ forked
        BY <2>1, <2>3, <3>2 DEF NextService, ProcRec, Pcs
      <3>3. CASE ~ (proc[p].stop \/ proc[p].left = 0 \/ ~ forked)
        <4> DEFINE r == [proc[p] EXCEPT !.pc = "gap", !.child = TRUE, !.left = @ - 1]
        <4>1. RunnerStep(p, r)
          BY <2>3, <3>3 DEF NextService
        <4>2. /\ r \in ProcRec /\ r.id = proc[p].id /\ r.gen = proc[p].gen
              /\ r.sent = proc[p].sent /\ r.pc = "gap"
          BY <2>1, <3>1, <3>3 DEF ProcRec, Pcs
        <4> QED
          BY <4>1, <4>2
      <3> QED
        BY <3>2, <3>3
    <2>4. CASE EnterWait(p) \/ WaitReturns(p)
      BY <2>1, <2>4 DEF EnterWait, WaitReturns, ProcRec, Pcs
    <2>5. CASE ServiceEnds(p)
      <3> DEFINE r == [proc[p] EXCEPT !.child = FALSE]
      <3>1. RunnerStep(p, r) /\ proc[p].pc \in {"gap", "wait"}
        BY <2>5 DEF ServiceEnds
      <3>2. /\ r \in ProcRec /\ r.id = proc[p].id /\ r.gen = proc[p].gen
            /\ r.sent = proc[p].sent /\ r.pc = proc[p].pc
        BY <2>1 DEF ProcRec
      <3> HIDE DEF r
      <3> QED
        BY <3>1, <3>2
    <2> QED
      BY <2>2, <2>3, <2>4, <2>5
  <1>2. UNCHANGED <<childExit, pidFile>> /\ Alive(p)
    BY DEF Arm, NextService, EnterWait, ServiceEnds, WaitReturns, Alive
  <1>3. \A k \in Ids : pidFile[k] = p => Alive(p)' /\ proc[p].id = k
    <2>1. Alive(p)'
      BY <1>1 DEF Alive, RunnerStep, TypeOK
    <2>2. p > 0
      BY DEF HydraAssumption
    <2> QED
      BY <2>1, <2>2 DEF PidFileNeverStale
  <1>4. childExit' \in BOOLEAN /\ pidFile' \in [Ids -> {NoFile, Stopped, Done} \cup Procs]
    BY <1>2 DEF TypeOK
  <1> QED
    BY <1>1, <1>2, <1>3, <1>4, RunnerFrame

\* Writing the pid file: the directory may be gone (createPidFile).
LEMMA WritePidIInv ==
    ASSUME IInv, NEW p \in Procs, WritePid(p)
    PROVE  IInv'
  <1> USE DEF IInv, WritePid, PutPid
  <1> DEFINE next == IF proc[p].id \in dir THEN "check" ELSE "end"
             r == [proc[p] EXCEPT !.pc = next]
  <1>1. /\ r \in ProcRec /\ r.id = proc[p].id /\ r.gen = proc[p].gen /\ r.sent = proc[p].sent
        /\ r.pc \in {"check", "end"}
    <2>1. next \in {"check", "end"} /\ next \in Pcs /\ proc[p] \in ProcRec
      BY DEF TypeOK, Pcs
    <2> HIDE DEF next
    <2> QED
      BY <2>1 DEF ProcRec
  <1>2. RunnerStep(p, r) /\ Alive(p)
    BY DEF Alive
  <1>3. Alive(p)' /\ p > 0
    BY <1>1, <1>2 DEF RunnerStep, Alive, TypeOK
  <1>4. childExit' \in BOOLEAN /\ pidFile' \in [Ids -> {NoFile, Stopped, Done} \cup Procs]
    <2>1. proc[p].id \in dir => pidFile' = [pidFile EXCEPT ![proc[p].id] = p]
      OBVIOUS
    <2> QED
      BY <2>1 DEF TypeOK
  <1>5. \A k \in Ids : \/ pidFile'[k] = pidFile[k]
                       \/ k \in dir /\ k = proc[p].id /\ pidFile'[k] = p
    <2>1. CASE proc[p].id \in dir
      BY <2>1 DEF TypeOK
    <2>2. CASE proc[p].id \notin dir
      BY <2>2
    <2> QED
      BY <2>1, <2>2
  <1>6. \A k \in Ids : /\ pidFile'[k] = p => Alive(p)' /\ proc[p].id = k
                       /\ pidFile'[k] > 0 => pidFile'[k] \in {p, pidFile[k]}
    BY <1>3, <1>5 DEF PidFileNeverStale
  <1>7. \A k \in Ids : pidFile'[k] = pidFile[k] \/ (k \in dir /\ k = proc[p].id)
    BY <1>5
  <1> HIDE DEF r, WritePid, PutPid, IInv
  <1> QED
    BY <1>1, <1>2, <1>4, <1>6, <1>7, RunnerFrame

\* At its end a runner takes its pid out of the pid file, unless the file went
\* with the directory (endHydraTask).
LEMMA EndTaskIInv ==
    ASSUME IInv, NEW p \in Procs, EndTask(p)
    PROVE  IInv'
  <1> USE DEF IInv, EndTask, PutPid
  <1> DEFINE end == IF Child(p) THEN "zombie" ELSE "gone"
             r == [proc[p] EXCEPT !.pc = end, !.child = FALSE]
             v == IF proc[p].stop THEN Stopped ELSE Done
  <1>1. /\ r \in ProcRec /\ r.id = proc[p].id /\ r.gen = proc[p].gen /\ r.sent = proc[p].sent
        /\ r.pc = end
    <2>1. end \in Pcs
      BY DEF Pcs
    <2> HIDE DEF end
    <2> QED
      BY <2>1 DEF TypeOK, ProcRec
  <1>2. RunnerStep(p, r) /\ Alive(p)
    BY DEF Alive
  <1>3. childExit' \in BOOLEAN
    BY DEF TypeOK, Child
  <1>4. v \in {-1, 0} /\ p > 0
    BY DEF Stopped, Done
  <1>5. pidFile' = IF proc[p].id \in dir THEN [pidFile EXCEPT ![proc[p].id] = v] ELSE pidFile
    OBVIOUS
  <1>6. \A k \in Ids : \/ pidFile'[k] = pidFile[k] /\ (k = proc[p].id => k \notin dir)
                       \/ k \in dir /\ k = proc[p].id /\ pidFile'[k] = v
    <2>1. pidFile \in [Ids -> {NoFile, Stopped, Done} \cup Procs]
      BY DEF TypeOK
    <2> HIDE DEF v, EndTask, IInv
    <2>2. CASE proc[p].id \in dir
      BY <1>5, <2>1, <2>2
    <2>3. CASE proc[p].id \notin dir
      BY <1>5, <2>3
    <2> QED
      BY <2>2, <2>3
  <1>7. pidFile' \in [Ids -> {NoFile, Stopped, Done} \cup Procs]
    <2>1. v \in {Stopped, Done}
      OBVIOUS
    <2> HIDE DEF v
    <2> QED
      BY <1>5, <2>1 DEF TypeOK
  <1>8. \A k \in Ids : pidFile[k] = p => k = proc[p].id /\ k \in dir
    BY <1>4 DEF PidFileNeverStale, PidFileInDir, NoFile
  <1>9. \A k \in Ids : /\ pidFile'[k] # p
                       /\ pidFile'[k] > 0 => pidFile'[k] = pidFile[k]
    <2> HIDE DEF v
    <2> QED
      BY <1>4, <1>6, <1>8
  <1>10. \A k \in Ids : pidFile'[k] = pidFile[k] \/ (k \in dir /\ k = proc[p].id)
    BY <1>6
  <1>11. r.pc = IF Child(p) THEN "zombie" ELSE "gone"
    BY <1>1
  <1>12. \A k \in Ids : /\ pidFile'[k] = p => Alive(p)' /\ proc[p].id = k
                        /\ pidFile'[k] > 0 => pidFile'[k] \in {p, pidFile[k]}
    BY <1>9
  <1> HIDE DEF r, EndTask, PutPid, IInv
  <1> QED
    BY <1>1, <1>2, <1>3, <1>7, <1>10, <1>11, <1>12, RunnerFrame

----------------------------------------------------------------------------
(* Noticing exits, the end of the daemon, and its next start               *)

\* A step on the flag and the job only, between requests.
LEMMA NoticeIInv ==
    ASSUME IInv, \/ MonitorBegin
                 \/ ReapedAll
                 \/ MonitorEnd
                 \/ GvmCliExits
    PROVE  IInv'
  <1> USE DEF IInv
  <1>1. /\ UNCHANGED <<gen, up, lock, mem, file, cron, dir, nextId, pidFile, proc, nextProc,
                       planned, cut>>
        /\ childExit' \in BOOLEAN
        /\ job' \in JobRec
        /\ UNCHANGED job \/ (/\ job.op \in {"idle", "reap", "clear"} /\ job'.id = 0
                             /\ job'.op \in {"idle", "reap", "clear"})
        /\ job'.op # "idle" => up
    BY Blanks DEF MonitorBegin, ReapedAll, MonitorEnd, GvmCliExits, Idle, JobSound, Creating,
                  Deleting, TypeOK, JobRec, JobOps
  <1>2. TypeOK'
    BY <1>1 DEF TypeOK
  <1>3. ProcSound' /\ RunnerKnown' /\ PidFileNeverStale'
    BY <1>1, RunnersFrame DEF TypeOK
  <1>4. JobSound' /\ IdsSound' /\ MemSound' /\ PidFileInDir' /\ StoreComplete' /\ CronOwned'
    BY <1>1, FilesFrame DEF Creating, Deleting
  <1> QED
    BY <1>2, <1>3, <1>4

\* The task of a reaped runner has none: the pid tells which task (chgChildTask).
LEMMA ReapIInv ==
    ASSUME IInv, NEW p \in Procs, Reap(p)
    PROVE  IInv'
  <1> USE DEF IInv, Reap
  <1>1. proc[p].pc = "zombie" /\ ~ Alive(p)
    BY DEF Zombies, Alive
  <1>2. /\ proc'[p] = [proc[p] EXCEPT !.pc = "gone"]
        /\ \A q \in Procs : q # p => proc'[q] = proc[q]
        /\ \A n \in HNames : mem'[n] = IF mem[n].pid = p THEN [mem[n] EXCEPT !.pid = 0]
                                                        ELSE mem[n]
    BY DEF TypeOK
  <1>3. \A q \in Procs : proc'[q].id = proc[q].id /\ proc'[q].gen = proc[q].gen
                         /\ proc'[q].sent = proc[q].sent
    BY <1>2 DEF TypeOK, ProcRec
  <1>4. \A n \in HNames : /\ mem'[n] \in MemRec
                          /\ mem'[n].id = mem[n].id
                          /\ mem'[n].pid = IF mem[n].pid = p THEN 0 ELSE mem[n].pid
    <2> TAKE n \in HNames
    <2>1. mem[n] \in MemRec
      BY DEF TypeOK
    <2>2. mem'[n] = IF mem[n].pid = p THEN [mem[n] EXCEPT !.pid = 0] ELSE mem[n]
      BY <1>2
    <2> HIDE DEF Reap, IInv
    <2>3. CASE mem[n].pid = p
      BY <2>1, <2>2, <2>3 DEF MemRec
    <2>4. CASE mem[n].pid # p
      BY <2>1, <2>2, <2>4
    <2> QED
      BY <2>3, <2>4
  <1>5. TypeOK'
    <2>1. proc' \in [Procs -> ProcRec]
      BY DEF TypeOK, ProcRec, Pcs
    <2>2. mem' \in [HNames -> MemRec]
      BY <1>4
    <2> QED
      BY <2>1, <2>2 DEF TypeOK
  <1>6. JobSound' /\ IdsSound' /\ MemSound' /\ PidFileInDir' /\ StoreComplete' /\ CronOwned'
    <2>1. \A n \in HNames : mem[n].pid = p => mem[n].id # 0
      BY Blanks DEF MemSound
    <2>2. job.op = "reap" /\ up
      BY DEF JobSound
    <2>3. \A n \in HNames : /\ mem'[n] = mem[n] \/ (mem'[n].id = mem[n].id /\ mem[n].id # 0)
                            /\ mem[n].pid = 0 => mem'[n] = mem[n]
      BY <1>2, <1>4, <2>1
    <2> QED
      BY <1>3, <2>2, <2>3, FilesFrame
  <1>7. ProcSound'
    BY <1>1, <1>2, <1>3 DEF ProcSound
  <1>8. RunnerKnown'
    <2>1. ASSUME NEW n \in HNames, mem'[n].pid # 0
          PROVE  LET q == proc'[mem'[n].pid]
                 IN  /\ up' /\ q.gen = gen' /\ q.pc \notin {"free", "gone"}
                     /\ q.id = mem'[n].id /\ ~ q.sent
      <3>1. mem[n].pid # p /\ mem'[n].pid = mem[n].pid /\ mem[n].pid \in Procs
        BY <1>4, <2>1 DEF TypeOK, MemRec
      <3>2. proc'[mem'[n].pid] = proc[mem[n].pid]
        BY <1>2, <3>1
      <3>3. /\ up /\ proc[mem[n].pid].gen = gen /\ proc[mem[n].pid].pc \notin {"free", "gone"}
            /\ proc[mem[n].pid].id = mem[n].id /\ ~ proc[mem[n].pid].sent
        BY <2>1, <3>1 DEF RunnerKnown, Child
      <3>4. up' = up /\ gen' = gen /\ mem'[n].id = mem[n].id
        BY <1>4
      <3> HIDE DEF Reap, IInv
      <3> QED
        BY <3>2, <3>3, <3>4
    <2>2. ASSUME NEW q \in Procs, Alive(q)', Child(q)', ~ proc'[q].sent
          PROVE  \E n \in HNames : mem'[n] = [id |-> proc'[q].id, pid |-> q]
      <3>1. q # p
        BY <1>2, <2>2 DEF Alive, TypeOK, ProcRec
      <3>2. PICK n \in HNames : mem[n] = [id |-> proc[q].id, pid |-> q]
        BY <1>2, <2>2, <3>1 DEF RunnerKnown, Alive, Child
      <3> QED
        BY <1>2, <3>1, <3>2
    <2> QED
      BY <2>1, <2>2 DEF RunnerKnown, Child
  <1>9. PidFileNeverStale'
    BY <1>1, <1>2 DEF PidFileNeverStale, Alive
  <1> QED
    BY <1>5, <1>6, <1>7, <1>8, <1>9

\* Its end leaves the files, and the runners alive (atexit, PR_SET_PDEATHSIG).
LEMMA GoneIInv ==
    ASSUME IInv, Crash \/ Quit
    PROVE  IInv'
  <1> USE DEF IInv, Gone
  <1>1. /\ UNCHANGED <<gen, file, cron, dir, nextId, pidFile, nextProc, planned>>
        /\ up' = FALSE /\ job' = NoJob /\ childExit' = FALSE
        /\ mem' = [n \in HNames |-> NoTask]
        /\ proc' = [p \in Procs |-> Orphaned(proc[p])]
    BY DEF Crash, Quit
  <1>2. \A p \in Procs :
           /\ proc'[p] \in ProcRec
           /\ proc'[p].id = proc[p].id /\ proc'[p].gen = proc[p].gen
           /\ (proc'[p].pc = "free") <=> (proc[p].pc = "free")
           /\ Alive(p) => proc'[p].pc \in {"boot", "armed", "check", "gap", "wait", "end"}
    <2> TAKE p \in Procs
    <2>1. proc'[p] = Orphaned(proc[p]) /\ proc[p] \in ProcRec
      BY <1>1 DEF TypeOK
    <2>2. CASE proc[p].gen # gen \/ proc[p].pc \in {"free", "gone"}
      BY <2>1, <2>2 DEF Orphaned, Alive
    <2>3. CASE proc[p].gen = gen /\ proc[p].pc = "zombie"
      BY <2>1, <2>3 DEF Orphaned, ProcRec, Pcs, Alive
    <2>4. CASE proc[p].gen = gen /\ proc[p].pc \notin {"free", "gone", "zombie"}
      <3>1. proc'[p] = Signalled(proc[p])
        BY <2>1, <2>4 DEF Orphaned
      <3>2. proc[p].pc \in {"boot", "armed", "check", "gap", "wait", "end"}
        BY <2>1, <2>4 DEF ProcRec, Pcs
      <3> QED
        BY <2>1, <3>1, <3>2, SignalledRunner
    <2> QED
      BY <2>2, <2>3, <2>4
  <1>3. cut' \in SUBSET Ids /\ cut \subseteq cut' /\ lock' \in 0..MaxGen
    <2>1. job.op \in Creating \cup Deleting => job.id \in Ids
      BY DEF JobSound, TypeOK
    <2>2. CASE Crash
      BY <2>1, <2>2 DEF Crash, TypeOK, Creating, Deleting
    <2>3. CASE Quit
      BY <2>3 DEF Quit, TypeOK
    <2> QED
      BY <2>2, <2>3
  <1>4. TypeOK'
    <2>1. proc' \in [Procs -> ProcRec] /\ mem' \in [HNames -> MemRec]
      BY <1>1, <1>2, Blanks
    <2> QED
      BY <1>1, <1>3, <2>1, Blanks DEF TypeOK
  <1>5. JobSound' /\ MemSound' /\ PidFileInDir' /\ ProcSound'
    BY <1>1, <1>2, Blanks DEF JobSound, Creating, Deleting, MemSound, PidFileInDir, ProcSound
  <1>6. IdsSound'
    BY <1>1, <1>2, Blanks DEF IdsSound, TypeOK
  <1>7. StoreComplete'
    BY <1>1 DEF StoreComplete
  <1>8. CronOwned'
    <2>1. job.op \notin Creating \cup Deleting => job.id = 0
      BY DEF JobSound
    <2>2. \A k \in cron : k # 0
      BY DEF TypeOK
    <2>3. \A k \in cron : job.id = k => k \in cut'
      BY <2>1, <2>2 DEF Crash, Quit, Creating, Deleting
    <2> QED
      BY <1>1, <1>3, <2>3 DEF CronOwned
  <1>9. RunnerKnown' /\ PidFileNeverStale'
    <2>1. RunnerKnown'
      BY <1>1, Blanks DEF RunnerKnown, Child
    <2>2. \A k \in Ids : pidFile[k] > 0 => pidFile[k] \in Procs
      BY DEF TypeOK, NoFile, Stopped, Done
    <2> QED
      BY <1>1, <1>2, <2>1, <2>2 DEF PidFileNeverStale, Alive
  <1> QED
    BY <1>4, <1>5, <1>6, <1>7, <1>8, <1>9

\* The next start reads the tasks back and knows none of the old runners
\* (readHydraTaskFile).
LEMMA RestartIInv ==
    ASSUME IInv, Restart
    PROVE  IInv'
  <1> USE DEF IInv, Restart
  <1>1. job.op = "idle" /\ job.id = 0 /\ gen' \in 1..MaxGen /\ gen' \in 0..MaxGen /\ gen' > gen
    BY DEF JobSound, TypeOK, Creating, Deleting
  <1>2. \A n \in HNames : mem'[n] = [id |-> file[n], pid |-> 0]
    OBVIOUS
  <1>3. TypeOK'
    <2>1. mem' \in [HNames -> MemRec]
      BY DEF TypeOK, MemRec
    <2> QED
      BY <1>1, <2>1 DEF TypeOK
  <1>4. JobSound' /\ IdsSound' /\ PidFileInDir'
    BY <1>1, <1>2 DEF JobSound, Creating, Deleting, IdsSound, PidFileInDir
  <1>5. MemSound'
    BY <1>2 DEF MemSound, NoTask
  <1>6. \A p \in Procs : proc[p].gen <= gen /\ proc[p].gen \in Nat
    BY DEF ProcSound, TypeOK, ProcRec
  <1>7. ProcSound'
    BY <1>1, <1>6 DEF ProcSound, TypeOK
  <1>8. StoreComplete' /\ CronOwned'
    BY <1>1, <1>2 DEF StoreComplete, CronOwned
  <1>9. RunnerKnown'
    <2>1. \A p \in Procs : proc[p].gen # gen'
      BY <1>1, <1>6 DEF TypeOK
    <2> QED
      BY <1>2, <2>1 DEF RunnerKnown, Child
  <1>10. PidFileNeverStale'
    BY DEF PidFileNeverStale, Alive
  <1> QED
    BY <1>3, <1>4, <1>5, <1>7, <1>8, <1>9, <1>10

----------------------------------------------------------------------------
(* Theorems                                                                *)

\* Every step keeps the invariant.
LEMMA NextIInv == IInv /\ [Next]_vars => IInv'
  <1> SUFFICES ASSUME IInv, [Next]_vars PROVE IInv'
    OBVIOUS
  <1>1. ASSUME NEW n \in HNames, Request(n)
        PROVE  IInv'
    BY <1>1, CreateHydraIInv, DeleteHydraIInv, StartHydraIInv, StopHydraIInv DEF Request
  <1>2. CASE FileStep
    BY <1>2, WriteScheduleIInv, CreateFileIInv, DeleteScheduleIInv, DeleteDirIInv DEF FileStep
  <1>3. ASSUME NEW p \in Procs, Runner(p) \/ ServiceEnds(p)
        PROVE  IInv'
    BY <1>3, RunnerGoesOnIInv, WritePidIInv, EndTaskIInv DEF Runner
  <1>4. CASE Monitor \/ GvmCliExits
    BY <1>4, NoticeIInv, ReapIInv DEF Monitor
  <1>5. CASE Crash \/ Quit
    BY <1>5, GoneIInv
  <1>6. CASE Restart
    BY <1>6, RestartIInv
  <1>7. CASE UNCHANGED vars
    BY <1>7 DEF vars, dvars, IInv, TypeOK, JobSound, IdsSound, MemSound, ProcSound, PidFileInDir,
                StoreComplete, CronOwned, RunnerKnown, PidFileNeverStale, Alive, Child
  <1> QED
    BY <1>1, <1>2, <1>3, <1>4, <1>5, <1>6, <1>7 DEF Next

\* The inductive invariant holds throughout.
THEOREM Inductive == Spec => []IInv
  BY InitIInv, NextIInv, PTL DEF Spec

\* Types hold throughout.
THEOREM TypeCorrect == Spec => []TypeOK
  <1>1. IInv => TypeOK
    BY DEF IInv
  <1> QED
    BY <1>1, Inductive, PTL

\* Memory, task file, directories and cron files agree, at every cut of a
\* creation, a deletion or a crash (writeHydraRelationFile, delHydraRelationFiles).
THEOREM StoreIsComplete == Spec => []StoreComplete
  <1>1. IInv => StoreComplete
    BY DEF IInv
  <1> QED
    BY <1>1, Inductive, PTL

\* cron starts no deleted task, unless a crash cut its creation or deletion short.
THEOREM CronIsOwned == Spec => []CronOwned
  <1>1. IInv => CronOwned
    BY DEF IInv
  <1> QED
    BY <1>1, Inductive, PTL

\* The daemon signals its own runners only, and knows each that was not told to
\* stop (daemon_start_hydra, daemon_stop_hydra, chgChildTask).
THEOREM RunnersAreKnown == Spec => []RunnerKnown
  <1>1. IInv => RunnerKnown
    BY DEF IInv
  <1> QED
    BY <1>1, Inductive, PTL

\* A pid in a pid file is that of a living runner of the task (onStartTask, onEndTask).
THEOREM PidFilesAreTrue == Spec => []PidFileNeverStale
  <1>1. IInv => PidFileNeverStale
    BY DEF IInv
  <1> QED
    BY <1>1, Inductive, PTL

\* A child that was not told to stop has its directory: the daemon remembers its
\* task, and a remembered task has one (daemon_delete_hydra).
THEOREM DirectoriesAreKept == Spec => []DirKept
  <1>1. IInv => DirKept
    <2> SUFFICES ASSUME IInv, NEW p \in Procs, Alive(p), Child(p), ~ proc[p].sent
                 PROVE  proc[p].id \in dir
      BY DEF DirKept
    <2> USE DEF IInv
    <2>1. PICK n \in HNames : mem[n] = [id |-> proc[p].id, pid |-> p]
      BY DEF RunnerKnown
    <2>2. mem[n].id # 0 /\ p # 0
      BY <2>1 DEF ProcSound, Alive, HydraAssumption
    <2>3. CASE job.op \in Creating /\ job.name = n
      BY <2>1, <2>2, <2>3 DEF JobSound
    <2>4. CASE ~ (job.op \in Creating /\ job.name = n)
      <3>1. file[n] = mem[n].id
        BY <2>4 DEF StoreComplete, Child, Creating
      <3> QED
        BY <2>1, <2>2, <3>1 DEF StoreComplete
    <2> QED
      BY <2>3, <2>4
  <1> QED
    BY <1>1, Inductive, PTL

=============================================================================
