----------------------------- MODULE HydraTask -----------------------------
(***************************************************************************)
(* The brute-force side of the daemon: hydra tasks, the runner process it  *)
(* forks for a started task, the pid file the runner keeps in the task's   *)
(* directory, and the signals between them.                                *)
(*                                                                         *)
(* Processes: the daemon; up to MaxProc runners, each its own process from *)
(* the fork on; and under a runner one hydra process at a time, one per    *)
(* service of the task.  They interleave freely.  A request of the daemon  *)
(* is one step, except where a crash or a child's exit in its middle       *)
(* matters: writing the files of a task and reaping children are jobs of   *)
(* several steps.                                                          *)
(*                                                                         *)
(* The pid file of a task holds the runner's pid, nothing (Done) or -1     *)
(* (Stopped); NoFile when it is not there.  Runners are numbered in the    *)
(* order they are forked; a number stands for a pid and is used once.      *)
(***************************************************************************)
EXTENDS Integers

CONSTANTS
    HNames,     \* task names
    NoName,     \* not a name
    MaxId,      \* bound: tasks created
    MaxProc,    \* bound: runners forked
    MaxWork,    \* bound: tasks created and runners forked together
    MaxGen,     \* bound: times the daemon is started
    Services    \* services of a task, run one after the other

ASSUME HydraAssumption ==
    /\ NoName \notin HNames
    /\ MaxId \in Nat \ {0}
    /\ MaxProc \in Nat \ {0}
    /\ MaxWork \in Nat
    /\ MaxGen \in Nat \ {0}
    /\ Services \in Nat \ {0}

VARIABLES
    gen,        \* how many times the daemon was started
    up,         \* it runs
    lock,       \* the daemon start whose lock on the program file is not undone
    mem,        \* tasks in memory, by name: id (0: none) and m_pid
    job,        \* the request or reaping being carried out
    childExit,  \* g_has_child_exit: a SIGCHLD came
    file,       \* the task file: id by name, 0: none
    cron,       \* tasks with a cron file
    dir,        \* tasks with a directory
    pidFile,    \* contents of a task's pid file
    proc,       \* the runners
    nextId,     \* next task id
    nextProc,   \* next runner
    planned,    \* tasks created with a schedule
    cut         \* history: tasks whose creation or deletion a crash cut short

dvars == <<gen, up, lock, mem, job, childExit, file, cron, nextId>>
vars == <<dvars, dir, pidFile, proc, nextProc, planned, cut>>

Ids == 1..MaxId
Procs == 1..MaxProc

NoFile == -2
Stopped == -1
Done == 0

(* A runner: boot (forked, signals as inherited), armed (handlers and death *)
(* signal set), check (loop head), gap (hydra started, not yet waiting),    *)
(* wait, end (left the loop), zombie, gone (reaped).                        *)
Pcs == {"free", "boot", "armed", "check", "gap", "wait", "end", "zombie", "gone"}
ProcRec == [pc : Pcs, id : 0..MaxId, gen : 0..MaxGen, stop : BOOLEAN,
            sent : BOOLEAN, left : 0..Services, child : BOOLEAN]
Free == [pc |-> "free", id |-> 0, gen |-> 0, stop |-> FALSE, sent |-> FALSE,
         left |-> 0, child |-> FALSE]

MemRec == [id : 0..MaxId, pid : 0..MaxProc]
NoTask == [id |-> 0, pid |-> 0]

JobOps == {"idle", "cron", "file", "uncron", "undir", "reap", "clear"}
JobRec == [op : JobOps, name : HNames \cup {NoName}, id : 0..MaxId]
NoJob == [op |-> "idle", name |-> NoName, id |-> 0]

TypeOK ==
    /\ gen \in 1..MaxGen
    /\ up \in BOOLEAN
    /\ lock \in 0..MaxGen
    /\ mem \in [HNames -> MemRec]
    /\ job \in JobRec
    /\ childExit \in BOOLEAN
    /\ file \in [HNames -> 0..MaxId]
    /\ cron \in SUBSET Ids
    /\ dir \in SUBSET Ids
    /\ pidFile \in [Ids -> {NoFile, Stopped, Done} \cup Procs]
    /\ proc \in [Procs -> ProcRec]
    /\ nextId \in 1..MaxId + 1
    /\ nextProc \in 1..MaxProc + 1
    /\ planned \in SUBSET Ids
    /\ cut \in SUBSET Ids

Init ==
    /\ gen = 1
    /\ up = TRUE
    /\ lock = 1
    /\ mem = [n \in HNames |-> NoTask]
    /\ job = NoJob
    /\ childExit = FALSE
    /\ file = [n \in HNames |-> 0]
    /\ cron = {}
    /\ dir = {}
    /\ pidFile = [k \in Ids |-> NoFile]
    /\ proc = [p \in Procs |-> Free]
    /\ nextId = 1
    /\ nextProc = 1
    /\ planned = {}
    /\ cut = {}

Idle == up /\ job.op = "idle"
WorkLeft == (nextId - 1) + (nextProc - 1) < MaxWork
Alive(p) == proc[p].pc \in {"boot", "armed", "check", "gap", "wait", "end"}
Child(p) == up /\ proc[p].gen = gen     \* p's parent is the running daemon

WriteTaskFile == file' = [n \in HNames |-> mem[n].id]

----------------------------------------------------------------------------
(* Creating a task: memory and directory, then the cron file of a schedule, *)
(* then the task file.  A failure takes everything back.                    *)

CreateHydra(n, sched) ==
    /\ Idle
    /\ mem[n].id = 0
    /\ nextId <= MaxId /\ WorkLeft
    /\ mem' = [mem EXCEPT ![n] = [id |-> nextId, pid |-> 0]]
    /\ dir' = dir \cup {nextId}
    /\ job' = [op |-> IF sched THEN "cron" ELSE "file",
               name |-> n, id |-> nextId]
    /\ planned' = IF sched THEN planned \cup {nextId} ELSE planned
    /\ nextId' = nextId + 1
    /\ UNCHANGED <<gen, up, lock, childExit, file, cron, pidFile, proc, nextProc, cut>>

\* Variant: the cron file stays.
TakeBack_KeepCron ==
    /\ mem' = [mem EXCEPT ![job.name] = NoTask]
    /\ cron' = cron
    /\ dir' = dir \ {job.id}
    /\ job' = NoJob

TakeBack ==
    /\ mem' = [mem EXCEPT ![job.name] = NoTask]
    /\ cron' = cron \ {job.id}
    /\ dir' = dir \ {job.id}
    /\ job' = NoJob

WriteSchedule(ok) ==
    /\ up
    /\ job.op = "cron"
    /\ IF ok
         THEN /\ cron' = cron \cup {job.id}
              /\ job' = [job EXCEPT !.op = "file"]
              /\ UNCHANGED <<mem, dir>>
         ELSE TakeBack
    /\ UNCHANGED <<gen, up, lock, childExit, file, nextId, pidFile, proc, nextProc, planned, cut>>

\* Variant: the outcome of writing the task file is ignored.
CreateFile_Unchecked(ok) ==
    /\ up
    /\ job.op = "file"
    /\ IF ok THEN WriteTaskFile ELSE UNCHANGED file
    /\ job' = NoJob
    /\ UNCHANGED <<gen, up, lock, mem, childExit, cron, dir, nextId, pidFile, proc,
                   nextProc, planned, cut>>

CreateFile(ok) ==
    /\ up
    /\ job.op = "file"
    /\ IF ok
         THEN /\ WriteTaskFile
              /\ job' = NoJob
              /\ UNCHANGED <<mem, cron, dir>>
         ELSE TakeBack /\ UNCHANGED file
    /\ UNCHANGED <<gen, up, lock, childExit, nextId, pidFile, proc, nextProc, planned, cut>>

----------------------------------------------------------------------------
(* Deleting a task the daemon believes is not running: the task file, then *)
(* the cron file, then the directory.  When the task file cannot be        *)
(* written the task stays.                                                 *)

\* Variant: a running task can be deleted.
DeleteHydra_NoIdleTest(n) ==
    /\ Idle
    /\ mem[n].id # 0
    /\ mem' = [mem EXCEPT ![n] = NoTask]
    /\ file' = [m \in HNames |-> mem'[m].id]
    /\ job' = [op |-> "uncron", name |-> n, id |-> mem[n].id]
    /\ UNCHANGED <<gen, up, lock, childExit, cron, dir, nextId, pidFile, proc, nextProc, planned, cut>>

DeleteHydra(n) ==
    /\ Idle
    /\ mem[n].id # 0
    /\ mem[n].pid = 0
    /\ mem' = [mem EXCEPT ![n] = NoTask]
    /\ file' = [m \in HNames |-> mem'[m].id]
    /\ job' = [op |-> "uncron", name |-> n, id |-> mem[n].id]
    /\ UNCHANGED <<gen, up, lock, childExit, cron, dir, nextId, pidFile, proc, nextProc, planned, cut>>

DeleteSchedule ==
    /\ up
    /\ job.op = "uncron"
    /\ cron' = cron \ {job.id}
    /\ job' = [job EXCEPT !.op = "undir"]
    /\ UNCHANGED <<gen, up, lock, mem, childExit, file, dir, nextId, pidFile, proc, nextProc, planned, cut>>

DeleteDir ==
    /\ up
    /\ job.op = "undir"
    /\ dir' = dir \ {job.id}
    /\ pidFile' = [pidFile EXCEPT ![job.id] = NoFile]
    /\ job' = NoJob
    /\ UNCHANGED <<gen, up, lock, mem, childExit, file, cron, nextId, proc, nextProc, planned, cut>>

----------------------------------------------------------------------------
(* Starting and stopping                                                   *)

\* The daemon forks a runner for a task it believes is not running.
StartHydra(n) ==
    /\ Idle
    /\ mem[n].id # 0
    /\ mem[n].pid = 0
    /\ nextProc <= MaxProc /\ WorkLeft
    /\ mem' = [mem EXCEPT ![n].pid = nextProc]
    /\ proc' = [proc EXCEPT ![nextProc] =
                  [Free EXCEPT !.pc = "boot", !.id = mem[n].id, !.gen = gen,
                               !.left = Services]]
    /\ nextProc' = nextProc + 1
    /\ UNCHANGED <<gen, up, lock, job, childExit, file, cron, dir, nextId, pidFile, planned, cut>>

\* A user signal reaches a runner.  Until the runner has set its handlers it
\* ignores user signals, as the daemon does; a waiting runner wakes up at once.
Signalled(r) ==
    IF r.pc = "boot" THEN r
    ELSE [r EXCEPT !.stop = TRUE, !.pc = IF @ = "wait" THEN "end" ELSE @]

\* Variant: the daemon keeps the runner's pid negated, as kill() takes a group.
StopHydra_Group(n) ==
    /\ Idle
    /\ mem[n].pid # 0
    /\ mem' = [mem EXCEPT ![n].pid = -@]
    /\ proc' = [proc EXCEPT ![mem[n].pid] = [Signalled(@) EXCEPT !.sent = TRUE]]
    /\ UNCHANGED <<gen, up, lock, job, childExit, file, cron, dir, nextId, pidFile,
                   nextProc, planned, cut>>

\* The daemon forgets the runner as soon as the signal is sent.
StopHydra(n) ==
    /\ Idle
    /\ mem[n].pid # 0
    /\ mem' = [mem EXCEPT ![n].pid = 0]
    /\ proc' = [proc EXCEPT ![mem[n].pid] = [Signalled(@) EXCEPT !.sent = TRUE]]
    /\ UNCHANGED <<gen, up, lock, job, childExit, file, cron, dir, nextId, pidFile,
                   nextProc, planned, cut>>

----------------------------------------------------------------------------
(* The runner                                                              *)

RunnerStep(p, r) ==
    /\ proc' = [proc EXCEPT ![p] = r]
    /\ UNCHANGED <<gen, up, lock, mem, job, file, cron, dir, nextId, nextProc, planned, cut>>

\* Its own signal handlers, and the signal it gets when its parent dies.
Arm(p) ==
    /\ proc[p].pc = "boot"
    /\ RunnerStep(p, [proc[p] EXCEPT !.pc = "armed"])
    /\ UNCHANGED <<childExit, pidFile>>

\* The pid file can only be written while the task's directory is there.
PutPid(k, v) == pidFile' = IF k \in dir THEN [pidFile EXCEPT ![k] = v] ELSE pidFile

WritePid(p) ==
    /\ proc[p].pc = "armed"
    /\ PutPid(proc[p].id, p)
    /\ RunnerStep(p, [proc[p] EXCEPT !.pc = IF proc[p].id \in dir THEN "check" ELSE "end"])
    /\ UNCHANGED childExit

\* Variant: the loop does not advance.
NextService_Same(p, forked) ==
    /\ proc[p].pc = "check"
    /\ RunnerStep(p, IF proc[p].stop \/ proc[p].left = 0 \/ ~ forked
                     THEN [proc[p] EXCEPT !.pc = "end"]
                     ELSE [proc[p] EXCEPT !.pc = "gap", !.child = TRUE])
    /\ UNCHANGED <<childExit, pidFile>>

\* The head of the loop: the next service, unless stopped, at the end or unable
\* to fork hydra.
NextService(p, forked) ==
    /\ proc[p].pc = "check"
    /\ RunnerStep(p, IF proc[p].stop \/ proc[p].left = 0 \/ ~ forked
                     THEN [proc[p] EXCEPT !.pc = "end"]
                     ELSE [proc[p] EXCEPT !.pc = "gap", !.child = TRUE, !.left = @ - 1])
    /\ UNCHANGED <<childExit, pidFile>>

EnterWait(p) ==
    /\ proc[p].pc = "gap"
    /\ RunnerStep(p, [proc[p] EXCEPT !.pc = "wait"])
    /\ UNCHANGED <<childExit, pidFile>>

\* The hydra process ends.
ServiceEnds(p) ==
    /\ proc[p].child
    /\ proc[p].pc \in {"gap", "wait"}
    /\ RunnerStep(p, [proc[p] EXCEPT !.child = FALSE])
    /\ UNCHANGED <<childExit, pidFile>>

WaitReturns(p) ==
    /\ proc[p].pc = "wait"
    /\ ~ proc[p].child
    /\ RunnerStep(p, [proc[p] EXCEPT !.pc = "check"])
    /\ UNCHANGED <<childExit, pidFile>>

\* Variant: only a stopped runner marks the pid file.
EndTask_StopOnly(p) ==
    /\ proc[p].pc = "end"
    /\ IF proc[p].stop THEN PutPid(proc[p].id, Stopped) ELSE UNCHANGED pidFile
    /\ RunnerStep(p, [proc[p] EXCEPT !.pc = IF Child(p) THEN "zombie" ELSE "gone",
                                     !.child = FALSE])
    /\ childExit' = (childExit \/ Child(p))

\* The runner ends hydra, marks the pid file and exits; a living parent gets
\* SIGCHLD.
EndTask(p) ==
    /\ proc[p].pc = "end"
    /\ PutPid(proc[p].id, IF proc[p].stop THEN Stopped ELSE Done)
    /\ RunnerStep(p, [proc[p] EXCEPT !.pc = IF Child(p) THEN "zombie" ELSE "gone",
                                     !.child = FALSE])
    /\ childExit' = (childExit \/ Child(p))

Runner(p) ==
    \/ Arm(p)
    \/ WritePid(p)
    \/ \E forked \in BOOLEAN : NextService(p, forked)
    \/ EnterWait(p)
    \/ WaitReturns(p)
    \/ EndTask(p)

----------------------------------------------------------------------------
(* Noticing that a runner has exited: after a SIGCHLD the daemon reaps all *)
(* children it finds, and then clears the flag.                            *)

Zombies == {p \in Procs : proc[p].pc = "zombie" /\ Child(p)}

MonitorBegin ==
    /\ Idle
    /\ childExit
    /\ job' = [NoJob EXCEPT !.op = "reap"]
    /\ UNCHANGED <<gen, up, lock, mem, childExit, file, cron, dir, nextId, pidFile,
                   proc, nextProc, planned, cut>>

\* Variant: the task keeps the pid of the reaped runner.
Reap_KeepPid(p) ==
    /\ job.op = "reap"
    /\ p \in Zombies
    /\ proc' = [proc EXCEPT ![p].pc = "gone"]
    /\ UNCHANGED <<gen, up, lock, mem, job, childExit, file, cron, dir, nextId, pidFile,
                   nextProc, planned, cut>>

Reap(p) ==
    /\ job.op = "reap"
    /\ p \in Zombies
    /\ proc' = [proc EXCEPT ![p].pc = "gone"]
    /\ mem' = [n \in HNames |-> IF mem[n].pid = p THEN [mem[n] EXCEPT !.pid = 0]
                                                  ELSE mem[n]]
    /\ UNCHANGED <<gen, up, lock, job, childExit, file, cron, dir, nextId, pidFile,
                   nextProc, planned, cut>>

ReapedAll ==
    /\ job.op = "reap"
    /\ Zombies = {}
    /\ job' = [job EXCEPT !.op = "clear"]
    /\ UNCHANGED <<gen, up, lock, mem, childExit, file, cron, dir, nextId, pidFile,
                   proc, nextProc, planned, cut>>

MonitorEnd ==
    /\ job.op = "clear"
    /\ childExit' = FALSE
    /\ job' = NoJob
    /\ UNCHANGED <<gen, up, lock, mem, file, cron, dir, nextId, pidFile, proc,
                   nextProc, planned, cut>>

\* Variant: only runners' ends are noticed.
GvmCliExits_Unnoticed ==
    /\ Idle
    /\ UNCHANGED vars

\* Every gvm-cli call is a child of the daemon too: its end is a SIGCHLD.  The
\* connection test makes one every minute.
GvmCliExits ==
    /\ Idle
    /\ childExit' = TRUE
    /\ UNCHANGED <<gen, up, lock, mem, job, file, cron, dir, nextId, pidFile, proc,
                   nextProc, planned, cut>>

----------------------------------------------------------------------------
(* The end of the daemon, and its next start                               *)

\* Armed runners get SIGUSR2; exited ones are reaped by init.
Orphaned(r) ==
    IF r.gen # gen \/ r.pc \in {"free", "gone"} THEN r
    ELSE IF r.pc = "zombie" THEN [r EXCEPT !.pc = "gone"]
    ELSE Signalled(r)

Gone ==
    /\ up
    /\ up' = FALSE
    /\ mem' = [n \in HNames |-> NoTask]
    /\ job' = NoJob
    /\ childExit' = FALSE
    /\ proc' = [p \in Procs |-> Orphaned(proc[p])]
    /\ UNCHANGED <<gen, file, cron, dir, nextId, pidFile, nextProc, planned>>

\* Killed at any point.  The lock on the program file stays with the runners,
\* which inherited the open file.
Crash ==
    /\ gen < MaxGen
    /\ Gone
    /\ lock' = lock
    /\ cut' = IF job.op \in {"cron", "file", "uncron", "undir"}
              THEN cut \cup {job.id} ELSE cut

\* Told to end: between two rounds of its loop, and it undoes the lock itself.
Quit ==
    /\ gen < MaxGen
    /\ job.op = "idle"
    /\ Gone
    /\ lock' = 0
    /\ UNCHANGED cut

LockHeld == \E p \in Procs : Alive(p) /\ proc[p].gen = lock

Restart ==
    /\ ~ up
    /\ gen < MaxGen
    /\ ~ LockHeld
    /\ up' = TRUE
    /\ gen' = gen + 1
    /\ lock' = gen + 1
    /\ mem' = [n \in HNames |-> [id |-> file[n], pid |-> 0]]
    /\ UNCHANGED <<job, childExit, file, cron, dir, nextId, pidFile, proc, nextProc, planned, cut>>

----------------------------------------------------------------------------

Request(n) ==
    \/ \E sched \in BOOLEAN : CreateHydra(n, sched)
    \/ DeleteHydra(n)
    \/ StartHydra(n)
    \/ StopHydra(n)

FileStep ==
    \/ \E ok \in BOOLEAN : WriteSchedule(ok) \/ CreateFile(ok)
    \/ DeleteSchedule
    \/ DeleteDir

Monitor ==
    \/ MonitorBegin
    \/ \E p \in Procs : Reap(p)
    \/ ReapedAll
    \/ MonitorEnd

Next ==
    \/ \E n \in HNames : Request(n)
    \/ FileStep
    \/ \E p \in Procs : Runner(p) \/ ServiceEnds(p)
    \/ Monitor
    \/ GvmCliExits
    \/ Crash
    \/ Quit
    \/ Restart

Spec == Init /\ [][Next]_vars

----------------------------------------------------------------------------
(* Fairness: every process that can go on does; a hydra process ends; the  *)
(* loop of the daemon looks for exited children in every round and calls   *)
(* gvm-cli every minute; a daemon that is down is started again.           *)

Fairness ==
    /\ \A p \in Procs : WF_vars(Runner(p)) /\ WF_vars(ServiceEnds(p))
    /\ WF_vars(FileStep)
    /\ SF_vars(MonitorBegin)
    /\ WF_vars(Monitor)
    /\ SF_vars(GvmCliExits)
    /\ WF_vars(Restart)

FairSpec == Spec /\ Fairness

----------------------------------------------------------------------------
(* Properties                                                              *)

\* The pid the daemon remembers for a task is one of its own children, running
\* this very task, not yet reaped: a stop request never signals a stranger.
\* And a running child that was not told to stop is remembered: there is never
\* a second runner of a task but one that was told to stop (daemon_start_hydra,
\* daemon_stop_hydra, chgChildTask).
RunnerKnown ==
    /\ \A n \in HNames : mem[n].pid # 0 =>
          LET r == proc[mem[n].pid]
          IN  Child(mem[n].pid) /\ r.pc \notin {"free", "gone"} /\ r.id = mem[n].id /\ ~ r.sent
    /\ \A p \in Procs : Alive(p) /\ Child(p) /\ ~ proc[p].sent =>
          \E n \in HNames : mem[n] = [id |-> proc[p].id, pid |-> p]

\* A pid in a pid file is the pid of a living runner of that task, so a client
\* that reads it as "running" is right about some runner (onStartTask, onEndTask).
PidFileNeverStale ==
    \A k \in Ids : pidFile[k] > 0 => Alive(pidFile[k]) /\ proc[pidFile[k]].id = k

\* Memory and task file agree but for the task being created; every task in the
\* file has its directory and, if it was created with a schedule, its cron file
\* (writeHydraRelationFile, delHydraRelationFiles).
StoreComplete ==
    /\ up => \A n \in HNames :
          file[n] = IF job.op \in {"cron", "file"} /\ job.name = n THEN 0 ELSE mem[n].id
    /\ \A n \in HNames : file[n] # 0 =>
          /\ file[n] \in dir
          /\ file[n] \in planned => file[n] \in cron

\* A cron file belongs to a task in the task file or to the task being created
\* or deleted, unless a crash cut that short: cron starts no deleted task.
CronOwned ==
    \A k \in cron :
        \/ \E n \in HNames : file[n] = k
        \/ job.id = k
        \/ k \in cut

\* A task loses its directory, where its runner keeps the pid file and hydra its
\* results, under a child of the daemon only if that child has been told to stop
\* (daemon_delete_hydra, whose idle test looks at m_pid alone).
DirKept ==
    \A p \in Procs :
        Alive(p) /\ Child(p) /\ proc[p].id \notin dir => proc[p].sent

\* The daemon notices the exit of every runner, even when a SIGCHLD is lost to
\* the clearing of the flag: the next gvm-cli call brings another one.  Another
\* runner of the task is started only afterwards (monitorHydraTask,
\* validateGvmConn).
Exited(n) == mem[n].pid # 0 /\ proc[mem[n].pid].pc = "zombie"
ExitNoticed == \A n \in HNames : []<> ~ Exited(n)

\* A daemon that went down can be started again: runners that hold the lock on
\* the program file come to their end (lockFile, runHydraTask).
RestartPossible == []<>up

----------------------------------------------------------------------------
(* The inductive invariant behind the invariants above, in parts.          *)

Creating == {"cron", "file"}
Deleting == {"uncron", "undir"}

\* The job under way, and the task it is about.
JobSound ==
    /\ job.op # "idle" => up
    /\ job.op \notin Creating \cup Deleting => job.id = 0
    /\ job.op \in Creating \cup Deleting => job.name \in HNames /\ job.id \in 1..nextId - 1
    /\ job.op \in Creating =>
          /\ mem[job.name] = [id |-> job.id, pid |-> 0]
          /\ job.id \in dir
          /\ pidFile[job.id] = NoFile
          /\ \A n \in HNames : file[n] # job.id
          /\ \A p \in Procs : proc[p].id # job.id
    /\ job.op = "file" /\ job.id \in planned => job.id \in cron
    /\ job.op \in Deleting => \A n \in HNames : mem[n].id # job.id /\ file[n] # job.id
    /\ job.op = "undir" => job.id \notin cron

\* Ids are used once, and belong to one name.
IdsSound ==
    /\ \A n \in HNames : mem[n].id < nextId /\ file[n] < nextId
    /\ \A n, m \in HNames : n # m => /\ mem[n].id # 0 => mem[n].id # mem[m].id
                                     /\ file[n] # 0 => file[n] # file[m]
    /\ \A k \in dir \cup cron \cup planned : k < nextId
    /\ \A p \in Procs : proc[p].id < nextId

\* A daemon that is down knows no task, and no task has no runner.
MemSound == \A n \in HNames : (mem[n].id = 0 \/ ~ up) => mem[n] = NoTask

\* Runners are numbered in the order of their starts, by daemons up to this one,
\* and have a task.
ProcSound ==
    \A p \in Procs :
        /\ (proc[p].pc = "free") <=> (p >= nextProc)
        /\ proc[p].pc # "free" => proc[p].id # 0
        /\ proc[p].gen <= gen

\* The pid file goes with its directory.
PidFileInDir == \A k \in Ids : k \notin dir => pidFile[k] = NoFile

IInv ==
    /\ TypeOK
    /\ JobSound
    /\ IdsSound
    /\ MemSound
    /\ ProcSound
    /\ PidFileInDir
    /\ StoreComplete
    /\ CronOwned
    /\ RunnerKnown
    /\ PidFileNeverStale

=============================================================================
