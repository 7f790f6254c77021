# openvas_tool: TLA+ models, checks and proofs

openvas_tool is a daemon (`util_openvas 1`) that creates, starts, stops and
deletes vulnerability scans in gvmd, fetches their results into files, and runs
hydra password tests as processes of its own. Clients (a PHP extension, the
command line, cron) send it requests through a Redis list.
This directory models that program in TLA+, model-checks the modules on small
instances, and proves theorems about them for every instance.

Most of what is modelled is in the top-level files of `src/`. `src/gvm_install/` holds the
vendored Greenbone packages; of these the models have gvmd, as far as the daemon
talks to it, and the process of openvas-scanner that scans one host.

## 1. The system

### Components

| component | state | operations | where |
|---|---|---|---|
| request channel | the request list and one answer key per call, in Redis | `sendKbMsg` (client), `startKbMsg`, `processMsg` (daemon), `redis_*` | base_openvas.c, task_openvas.c, openvas_business.c |
| scan tasks | task list and name set, run queue, task file, one status file and one result file per task | create, delete, start and stop requests; the check of the head of the run queue; load at start | openvas_business.c, openvas_opts.c |
| gvmd | targets, schedules, configs, tasks, reports, scans | gvm-cli commands; ends and starts scans by itself | vendored |
| hydra tasks | task list and name set, task file, task directory, `/etc/cron.d` file, pid of the runner | create, delete, start and stop requests; reaping; load at start | hydra_business.c |
| runners | stop flag, current service and its child, pid file | `runHydra` in a forked process, one hydra process per service | hydra_business.c, comm_misc.c |
| daemon lifecycle | run flag, lock on the program file | start, lock, signal, quit | main.c, openvas_business.c |
| scanner of one host | plugin states, table of plugin processes, phase of the scheduler | `attack_host`, `plugins_scheduler_*`, `pluginlaunch_*` | openvas-scanner: attack.c, pluginscheduler.c, pluginlaunch.c |
| lists and sets | lists kept sorted, array sets searched by bisection | llist.c | llist.c |
| pure functions | none | parsing, formatting, validation, the command line of hydra, the cron line | everywhere |
| PHP glue and pages | none | argument passing, display | php_openvas.c, \*.php |

### How they interact

* The daemon has **one thread**. In each round `startKbMsg` takes one request off the list, runs
  it to its end and pushes its answer to the key the request names; only when the list is empty
  it runs one gvmd check instead (`processIdle`), and sleeps a second when none was due. Every round ends with the
  monitor of hydra processes and, once a minute, the connection test (`doEveryLoop`). Requests
  and checks are therefore atomic towards each other, but
  not towards gvmd, hydra runners, clients and crashes; and requests that never stop coming keep the checks waiting.
* A **gvm-cli** call is a process with a time limit of 5 s. The daemon sees its output
  or a failure, and a failure does not mean that gvmd did nothing.
* The **run queue** orders tasks by the time of their next check. A check asks gvmd
  for the task (which report is it at?), then for the report (has its scan ended?),
  then page by page for the results, then goes back to the first question.
* A **runner** is forked by a start request, inherits the lock on the program file,
  installs its handlers, and starts one hydra process after another. The daemon
  sends SIGUSR1 to it to stop it and learns of its end from SIGCHLD.
* A **host scan** is a process of openvas-scanner with one thread: it picks a plugin, waits
  for a place in its table of processes, forks the plugin, looks whether the scan was stopped, and goes on.
* **Files**: the task files are written to a temporary file and renamed. They are all
  that a restarted daemon knows.

### What is hard, and what makes each component correct

| component | hard because | correct when |
|---|---|---|
| request channel | every command can break and is sent once more; the daemon backs off, and clears the list after an outage; answers expire; the client gives up after 15 s | a request runs at most as often as it was queued; a call returns; a positive answer means the request was run |
| create and delete | up to four calls to gvmd and a file write, each of which can fail or be lost, with a rollback in between | nothing is left in gvmd without a reason; no known task lacks its gvmd objects; what was answered survives crashes |
| checks | gvmd's state moves between two checks; a second scan may run; a check reads old status; a crash between result file and status file | results are saved before the status says so; a followed report is not lost; in the end results of the newest report are saved; no task stays busy |
| hydra tasks | runner, hydra, daemon, cron and signals interleave at every step | the daemon holds the pid of a living runner of that task, and every runner not told to stop has its pid there; a runner does not keep a dead daemon from being started again; exits are noticed; files and cron stay in step |
| files and commands of hydra | text is checked and rewritten at the client, checked again at the daemon, split into tokens, days and arguments by position | hydra gets every host, service, login and day of the request, each in its place |
| scanner of one host | plugins end, hang, or cannot be forked; a stop, a dead host or a dead parent at any point; plugins that need others of later categories; limits that change from category to category | the count, the table and the states agree; plugins start in the order of phases and dependencies, once, and apart when they must be; the scan ends |
| lists and sets | sorted insertion, bisection | as the sequence or the set they stand for |

The full list, line by line, is in PROJECT.json under `hazards`.

## 2. Modules

| module | models | code it stands for |
|---|---|---|
| `Gvmd` | gvmd behind gvm-cli: its objects, task and report status, scans that end, scheduled starts, two scans of one task | the functions of gvmd's manage.c and manage_sql.c behind the commands used |
| `GvmTask` (EXTENDS `Gvmd`) | scan tasks: requests as jobs of several steps, checks, files, crash and restart | openvas_business.c, openvas_opts.c |
| `GvmTask_proofs`, `GvmTaskLeak_proofs` | theorems about `GvmTask`; the second about what is left in gvmd | |
| `CheckQueue` | the run queue in time order and the results fetched page by page | openvas_opts.c, llist.c |
| `CheckQueue_proofs` | theorems about `CheckQueue` | |
| `HydraTask` | hydra tasks, runners, hydra processes, pid files, signals, the lock | hydra_business.c, comm_misc.c |
| `HydraTask_proofs` | theorems about `HydraTask` | |
| `HydraFiles` | what becomes of the text of a hydra request: checks, files, cron lines, command lines | task_openvas.c, hydra_business.c, comm_misc.c |
| `HydraFiles_proofs` | theorems about `HydraFiles` | |
| `ScanHost` | the scan of one host: scheduler, process table, attack_host | openvas-scanner |
| `ScanHost_proofs` | theorems about `ScanHost` | |
| `Rpc` | what the request channel promises, abstractly | |
| `KbRpc` | the request channel in detail; implements `Rpc` | base_openvas.c, task_openvas.c, openvas_business.c |
| `KbRpc_proofs` | theorems about `KbRpc`, and that it implements `Rpc` | |
| `MC...` | small instances for TLC: symmetry sets, texts, plugins | |

PROJECT.json's `map` gives the lines behind each definition. A definition whose
name ends in an underscore and a word (`RunStatus_Raw`, `Parsed_KeepFirst`) and
whose comment starts with "Variant" is not part of the model: it is a plausible slip
in the definition after it, used to see that a property notices.

### Gvmd and GvmTask

The daemon's memory is `task` (a record per name: id, the objects created for it, status,
check type, report) with `runq`; its files are `taskFile` (one record per
task), `stFile` (one status file per task) and `saved` (the reports whose results were
written). `job` is the request or check under way: creation takes one step per gvmd call
(`CreateObj`), then the file write (`CreateWrite`), or takes back what was made
(`RollbackObj`); deletion is `DeleteTask`, `DeleteObj`, `DeleteFiles`. Between
two steps of a job gvmd may move and the daemon may crash, nothing else may happen.
`Request(n)` and `Check(n)` start only when no job is under way, as in the code's one
thread. A start or stop is one call, so one step.

A gvm-cli call has three outcomes: done, "fail" (nothing happened), "lost" (it
happened, the daemon does not know). `Faults` chooses what may go wrong: "fail", "lost",
"write" (task file, result file, directories), "status" (status files), "link" (the connection test).
Reports are numbered; WAITING and RUNNING are one status, DONE, STOP and INTERRUPT one.
A task identity `k` is never used again, as uuids are not.

History: `why[k]` collects what may have left things of attempt `k` behind or
unsaved (a failed or lost call, a crash, a scan under way, a failed write), `acked` and `deleted` hold the
attempts whose creation or deletion was answered with success.

### CheckQueue

`runq` is the list the code keeps sorted by `cmpGvmRunChkTime`; `PushBack` is `push_back`,
which looks from the tail for the last item that is not later. Time is relative: `left[t]` is
the check time minus the clock, -1 for a check time of 0, and 0 for everything
overdue. That loses nothing: a task enters the queue with a time of 0 or in the future, so
overdue tasks are never compared with one another, they stay in the order they are in.
`info[t]` is `m_result_info`: the total of the first answer, the number of the next result,
what was read, `m_done`. `Parsed(t, k)` is `parseResult` when the first `k` results of
a page could be read. gvmd's list may get a result late, at any place (the request has
no sort order), because a report told to stop counts as ended.

### HydraTask

`mem`, `file`, `cron`, `dir` are the tasks in memory, the task file, the cron files and the
task directories; `proc[p]` is a runner from fork to reaping with its place in the
loop (`pc`), its stop flag and its hydra process; `pidFile` is the file in the task's
directory. Creating writes the directory, then the cron file, then the task file, deleting goes
the other way, each a step (`FileStep`) with failures and crashes between them. Reaping is a job too, so
that a SIGCHLD can come between the last `waitpid` and the clearing of
`g_has_child_exit`. `lock` is the daemon start whose runners or daemon still hold the lock on the program file.

### HydraFiles

One request goes through its stages: the client's check and rewriting (`SendCreate`), the daemon's check
(`CheckCreate`), the login file, the file of hosts and the cron file (`WriteFiles`), the argument vector (`RunHydra`), and one
hydra process per service (`NextService`). A list is the sequence of what stands between its commas, so that a last
comma leaves an empty last element; hosts keep their separators. The argument vector keeps its
places: `NoArgs` is all NULL, and hydra sees it up to the first NULL. `asked` is the request as written, against which
the results are compared; cron is external (`Readable`, `Fires`). What goes wrong between the steps is `HydraTask`'s.

### ScanHost

`state`, `slot`, `num`, `max`, `phase` are the variables of the scheduler and the table under their own names; `pc` is
the place in `attack_host` and the functions it calls, and every place where the process sleeps or looks at
the outside is a step of its own. `Pick` is one call of `plugins_scheduler_next` with all the phases it passes; the order within a
category is open. `UpdateProcesses` frees the slots of dead processes and kills the overdue ones. A killed process keeps its slot until
the next update sees it dead: `terminate_process` returns -1 for every process it could signal. A
plugin may end or become overdue at any moment, and may be passed over (gone from the cache, unsafe, keys missing) whenever the
code asks.

### Rpc and KbRpc

`KbRpc` has one action per Redis command, each of which may break (`Breaks`): it is sent once more, and a
broken command may have been carried out or not. `dpc` is the place in the daemon's
loop, `call[r]` that in a client's call. `Rpc` has three variables: requests sent, results of
their runs, verdicts. The refinement mapping reads `sent` off the history of
pushes; the other two are `KbRpc`'s own.

## 3. Checks

| run | question | instance | result |
|---|---|---|---|
| GvmTaskStore | do memory, files and gvmd stay in step through faults and crashes? | two names, two creations with schedule and config, two crashes | holds |
| GvmTaskTrack | is a scan followed to its end, are results saved first? | one task, two scans, every fault, one crash | holds |
| GvmTaskLive | does it all end? | one task, two scans, lost calls, failing writes, failing connection, one crash | holds |
| GvmTaskTwoScans | "can only start the not-running task" | two scans, no fault | violated |
| CheckQueue | is every due task checked, are pages put together right, does the fetching end? | one task with up to four results in pages of two, one with at most one, a buffer for three, a late result for each, one hurried check, one crash | holds |
| CheckQueueLate | "if get all result, set status to done" | one task, four results, one of them late | violated |
| HydraTask | do pids and files mean what they say, are exits noticed, can the daemon start again? | two tasks of one name in turn, two runners of two services, three creations or starts, two starts of the daemon | holds |
| HydraFiles | does hydra get what was asked for, and cron, of schedules without a Tuesday and without days behind "-1"? | lists of up to three hosts with any separators, one block, lists of services, four template files and a missing one, every type of schedule, each with lists of one and two of the seven days or of days of the month, ten days of every week day in two years | holds |
| HydraPort | "has port specified, seperate ip block from port" | the same with a block that names a port | violated |
| KbRpc | does the channel keep what `Rpc` promises, does every call return and every request run? | two calls, four faults, one of which may be a crash | holds |
| ScanHost | are plugins started in order, apart, within the table, and does the scan end? | eight plugins in five categories, two slots, a limit of three, one launch tried again | holds |
| ScanHostTwice | "Does not launch a plugin twice if !save_kb_replay." | the same | violated |

Why the bounds are enough for what the properties are about:

* Two task names are needed for the task file, which is rewritten from all of memory; two
  creations for a name used again while objects of the first are left in gvmd; two crashes for a crash
  of a daemon that came back from one. Two scans are the least for a second report and for two scans at
  once. GvmTaskStore needs no scans, GvmTaskTrack no second task.
* Four results with pages of two and a buffer for three have empty reports, one page and two, full last pages and
  others, pages that break off at each place, reports of each of these kinds that are read to the end and saved, and
  reports that do not fit, as they are or by a late result. The second task is there for the queue; its reports are
  small (`Small`), as two long fetches say no more of each other than a long and a short one.
* Two runners are the least for a new runner next to an old one that is ending. HydraTask has one name: tasks
  of different names share only the task file and the loop over all tasks that compares pids.
* Three creations or starts (`MaxWork`) let a task be created, run, deleted and created again, or run twice.
* Every broken command and every crash is a fault of `KbRpc`. A command that breaks, and breaks again when it is sent once more,
  takes two; four are three failed receives in a row and one more, which passes the limit at which the list is cleared
  and reaches the last of the pauses.
* The schedules of HydraFiles have lists of one and two week days, all seven of them, and of days of the month with "-1" nowhere, alone, at
  the end, and in front of others; `WholeDaysFire` says nothing of lists with a Tuesday and of those with a "-1" in front. The dates looked at are the ends of a
  long and of a short month, which is where days get lost.
* ScanHost has two port scanners, one of which needs a plugin of a later category; two attacks that share a port; one that needs
  another; one to be run alone; a wrap-up plugin. With two slots and a limit of three the table can fill; one launch
  tried again reaches every error path, the second gives up.

### What the violated runs show

* **GvmTaskTwoScans.** `daemon_start_task` refuses a running task by the status of the last check, which
  is up to five minutes old. A second start request before the next check starts a second scan. The same test
  lets a delete request through while gvmd scans the task (`daemon_delete_task`: "can only delete the not-busy task"); gvmd then only notes the deletion.
* **CheckQueueLate.** The number of results read is compared with the total of the first answer for equality. A
  result that comes later lets the number pass the total; the task fetches for ever and stays busy.
* **HydraPort.** For a block with a port, `genCmdParams` puts port and block behind "-s" but "-s" itself one place too far: the place before it
  stays NULL, and the service overwrites the block. hydra sees an argument vector that ends before "-s".
* **ScanHostTwice.** A launch that fails marks its plugin as unrun, `attack_host` then tries the launch again, and nothing marks the plugin as
  running when that succeeds. The next pick finds it unrun and starts it again next to itself. When the first copy ends
  the plugin is done, and what depends on it starts while the second is at work.

Seen in the models, without a run of their own:

* A stop request forgets its runner at once, so a
new runner can start next to the old one, the old one's end then overwrites the pid file of
the new one, and the task can be deleted under its runner; a runner whose daemon dies before it
asked for the death signal is stopped by nobody, although "if parent root dies, then all of tasks must stop", and ends by itself; a stop signal that arrives before the runner
has its handlers is lost, and the runner goes through all its services although the stop request was answered with success.
* Results larger than the buffer are never saved and keep the task busy.
* The mark of a deleted task whose files could not be rewritten is only in memory: after a crash the task is back, although its deletion was
  answered with success.
* An answer whose time to live is lost with a broken command or a crash keeps its key in Redis for good (`kept`).
* A crash between the writes of the cron file and of the task file leaves a cron file without its task (`cut`).
* After three failed receives in a row the daemon clears the list and drops the request it has just received as well, although its client has
  been waiting for at most 15 s.
* `EveryDayFires` is false: Tuesday is written to cron as "TUS" (hydra_business.c:958), which is no day, so that cron cannot read the line and every day of that
  schedule is lost; and in a monthly schedule days behind a "-1", which "must be in the end of list", are let through and then dropped. The run HydraFiles has
  such schedules among its inputs and checks `WholeDaysFire`, which says of which schedules no day is lost (`Whole`).
* A schedule of the type "once" fires every year again; a schedule type the
  check does not know passes it and fails later, when the cron line is made.
* ScanHost: after a stop the wrap-up plugins are started ("Stopped scan wrap-up: Launching"), but every further look at the stop
  flag kills all plugins, so each is killed at once by the process that started it.
* ScanHost: a plugin of a category to be run alone (denial of service, kill host, flood) does run next to an attack that was waiting for another
  when it was picked: the categories before allow parallel checks again. Only port scanners have a phase of their own (`KeptApart`).
* ScanHost: when a launch was tried again, a second copy of a plugin may be left for `pluginlaunch_wait`, which waits for a child without a time
  limit: a plugin that hangs keeps the scan from ending. `HostEnds` excludes these scans.

### Fairness

| module | assumed | because |
|---|---|---|
| GvmTask | a job goes on; checks of each task come round and succeed again and again (SF); the connection test succeeds again and again (SF); a scan ends; a dead daemon is started | the loop never blocks for long (gvm-cli is cut off after 5 s), and the request list is empty again and again, without which no check would run; CheckQueue shows that every due check is run; the rest are assumptions on gvmd and the operator. Clients and schedules are not fair |
| CheckQueue | the check at the head runs when due, time passes, a page is answered in full again and again (SF) | the loop, as long as the request list is empty again and again: it runs a check only then. Start and stop requests are bounded, as clients that never stop hurrying one task could keep others waiting |
| HydraTask | runners and hydra processes go on; the monitor runs in every round; gvm-cli exits every minute (it brings a SIGCHLD); a dead daemon is started | `doEveryLoop`; a hydra that never ends is not modelled |
| ScanHost | the host process goes on, time passes for a plugin that does not end | every wait but one looks at the time limits, which are positive by default. Plugins need not end |
| KbRpc | calls go on and their waits end; the loop goes on; a dead daemon is started | timeouts of the waits; faults are finitely many |

Where faults and starts are finitely many, liveness is stated as what holds from some time on (`<>[]`, `ComesToRest`, `Settles`), or again
and again (`[]<>`, `ExitNoticed`, `RestartPossible`), which says the same there as a leads-to for each call or task and can be
checked on larger instances.

GvmTaskLive leaves failed writes of status files out: after one, a crash lets the daemon go on from an old status.

## 4. Proofs

`GvmTask_proofs` proves, for every set of names, every bound and every set of
faults, that GvmTask's specification implies

* `TypeCorrect`: the type invariant;
* `StoreIsDurable`: memory, task file and run queue name the same tasks whenever the daemon runs;
* `AnswersAreDurable`: creations and deletions answered with success survive crashes;
* `StatusIsConsistent`: check type and status agree, in memory and in every status file;
* `ResultsComeFirst`: results are on disk before a status says so;
* `RestartIsSafe`: every status file can be read back;
* `FollowedReportsAreKept`: an action property; a report being followed is let go only when its results were dealt with.

Assumptions: `GvmdAssumption` and `GvmTaskAssumption`, that is the bounds are natural
numbers, `Nobody` is no name, and faults and extras are among those listed.

None of these properties is inductive. `IInv` adds what they lean on: `JobSound` ties the job
under way to the task it is about (a deletion works on a task that waits, a creation on an unused name, and the
last step of a fetch comes after its results were saved or the failure was noted); `MemorySound` (a dead
daemon has nothing in memory, a mark means that the deletion was answered); `MarkUnsaved` (marks never reach a status file, on which
the restart depends); `IdsSound` (an attempt is known under one name at most and only if it was
answered). There is one lemma per action. The actions that change only gvmd, the job or
the connection share `FrameIInv`; those that rewrite one task's record and its status
file share `CheckedIInv`; those that forget a task share `ForgetTaskIInv`. TLC checked `IInv` on the
instances of the runs before it was proved.

`GvmTaskLeak_proofs` goes on from there, under the same assumptions:

* `NothingLeaks`: whatever exists in gvmd of an attempt belongs to a known task or to the job under way, or a fault, a crash or a scan explains it;
* `NothingDangles`: a known task has its task and target in gvmd, or a lost call, a crash or a file that could not be written explains it.

Both speak of gvmd along a whole job, so `KnowsInv` says who knows what. `JobKnows`: a creation knows exactly what it has made, a
rollback or deletion that met no trouble has still to do with all that is left. `MemoryKnows` and `FileKnows`: a record lists at least
what exists of its task; the file's part is what a restart goes on from, the memory's part is what the next deletion works with.
`FreshUnmade`: nothing exists of attempts still to come. `ScansOwned`: a task that was never made has no scan, as the end of a scan
finishes a deletion that gvmd put off. TLC checked `KnowsInv` on GvmTaskStore's
instance, and on one name with two scans and every fault, before it was proved.

`HydraTask_proofs` proves, for every set of names and every bound, that HydraTask's specification implies

* `TypeCorrect`: the type invariant;
* `StoreIsComplete`: memory, task file, directories and cron files agree, wherever a creation or deletion is cut;
* `CronIsOwned`: cron starts no deleted task, unless a crash cut a creation or a deletion short;
* `RunnersAreKnown`: a remembered pid is that of a child running that task, and a child not told to stop is remembered;
* `PidFilesAreTrue`: a pid in a pid file is that of a living runner of the task;
* `DirectoriesAreKept`: a child that was not told to stop keeps its directory.

The only assumption is `HydraAssumption`: the bounds are numbers, `NoName` is no name. The argument rests on ids and pids that are
used once. `IdsSound` says that no two names share an id and that the next id is new everywhere; `JobSound` that
nobody but the creation under way knows the id it may have to take back, and that a deletion works on an id memory and task file
have already forgotten; `ProcSound` that runners are numbered in the order of their starts, so that a new one is in no pid file, and
that none is newer than the daemon, so that a restarted daemon has no children; `PidFileInDir` that a pid file goes with its
directory, so that a runner at its end either overwrites its pid or finds no file. Then `RunnerKnown` is kept by a stop
because the ids of two names differ, and by reaping because their pids do. `RunnersFrame` serves the steps
that leave the runners alone, `FilesFrame` those that leave the files alone, `RunnerFrame` all the steps of a runner.
`DirKept` follows from `RunnerKnown`, `StoreComplete` and `JobSound`. TLC checked `IInv` with one name and with two before it was proved.

`CheckQueue_proofs` proves, for every set of tasks, all waiting times, page sizes and bounds, that CheckQueue's specification implies

* `TypeCorrect`: the type invariant;
* `QueueStaysSorted`: the run queue holds each task once, in the order of the check times;
* `PagesDoFit`: what was read of a report is a beginning of the list of results, and the next page starts right behind it;
* `DoneIsReallyAll`: results are taken for complete only when all were read.

The last two hold while gvmd's list stays as it is; what a late result does is the run CheckQueueLate.

From `CheckQueueAssumption`: the waits are positive and none is longer than that for a task (openvas_opts.h), a page has a row, the rest are numbers.
The queue rests on lemmas about sequences: inserting behind the last item that is not later, and taking an item out, keep a sequence
in order and without repetition. `ReadSound` says that only a task whose results are being fetched has read any, and never more than gvmd
lists; `FetchSound` that as long as no late result came the total is the length of gvmd's list. Without `ReadSound` a page could be appended
to what an earlier report left behind.

`KbRpc_proofs` proves, for every set of requests and results and every bound on faults, that KbRpc's specification implies

* `TypeCorrect`: the type invariant;
* `AccountsBalance`: the copies of a request that were pushed are in the list, in the daemon's hands, run, or lost to a broken command, a crash or a clearing, and nothing is counted twice;
* `AnswersDoExpire`: an answer has a time to live, is about to get one, or was left behind by a broken command or a crash;
* `DropsOnlyAfterOutage`: an action property; a running daemon drops requests only after three failed receives in a row;
* `Refines`: `Rpc`, the abstract specification: initial states map to initial states, every step to a step of `Rpc` or a stutter.

From `KbRpcAssumption`: the bounds are numbers, `NoReq` is no request, and the verdicts "none", "timeout" and "error" are no results. The
balance needs the number of copies of a request in the list; it is defined without counting by `ListSound`, no request is in the list
three times, which in turn follows from the balance itself and `CallSound`, a call pushes at most once for each of its two attempts.
`HandSound` says when the daemon holds a request and that the answer it is about to give is the result of a run of it; with `RepliesSound`, that every
answer waiting in Redis is the result of a run of its request, it makes a client's verdict a step of `Rpc`.
`OutageSound` ties the count of failed receives to those that happened.

`ScanHost_proofs` proves, for every set of plugins with any categories, dependencies and ports, and tables of every size, that ScanHost's specification implies

* `TableIsSound`: count, table and states of the plugins agree;
* `OrderIsKept`: a plugin starts only after all it depends on and after all earlier phases;
* `KeptWellApart`: plugins of one port never run at the same time, and port scanners run alone.

From `PluginAssumption` (no cycle of dependencies, which `check_dependency_cycles` refuses; `None` is no plugin) and `LimitAssumption`: two
processes at least, one check and one retry at least. What the properties say of states and slots of one plugin holds as long as no launch was tried again; beyond that
the run ScanHostTwice shows what happens. `PhasesOver`: a phase that is over stays so, because plugins are not made ready again
except when their launch failed; `LaunchSound`: a plugin being launched has what it depends on behind it and belongs to no phase that is over, though it may be
taken before its own phase because another needs it; `SlotsSound`: no plugin has two processes; `WaitSound`: a port
scanner goes on only when the table is empty, an attack only when its ports are free. All steps that end processes share `EndsIInv`. That no plugin
depends on itself, and that what the search for the next plugin finds can be started, are lemmas.

`HydraFiles_proofs` proves, for texts of any length, any services, options, files and schedules, that HydraFiles's specification implies

* `NoneRejected`: hosts that the client lets through, rewritten, fit the daemon's narrower pattern;
* `CommandsAreRight`: without a block that names a port, every hydra process gets its hosts, service and options, each in its place, and in the end each service has had its process;
* `FilesAreRight`: every host of the request is in the file of hosts, and the login file has the words of all template files, in their order, each on a line of its own;
* `DaysDoFire`: `WholeDaysFire`, that is for schedules without a Tuesday and without a day behind a "-1", cron starts a created task on every day its schedule names.

From `HydraFilesAssumption`: the texts have their form, a line of a template file is one word or empty, and the last day of a month is the 28th to the 31st. The two conditions of the theorems are
where the code goes wrong and nowhere else: the run HydraPort has the port; on the inputs of HydraFiles, `EveryDayFires` fails for Tuesdays and for days behind "-1" only. `NoPort` and `Whole` are
functions of the request as asked, so they are true of whole behaviours or of none of their states.
`IInv` says what each stage was made from: `Rewritten` and `PassedClient` (the request beyond the client), `FilesMade` and `CronMade` (the files),
`RanInTurn` (one command line, the services before the runner's place run in turn, nothing left at the end). `Escaped` is a recursive
function over the text: `Recursion` shows that such a function exists, `EscapedIsCopied` unfolds it, `EscapedIsFair` is the induction over the length, that
no two separators are next to each other, none stands in front, all are commas, and a host next to a separator stays so. `Without` and the joining of files (`FlattenSeq`) are unfolded in the
same way; `EscapedKeepsHosts` is that the rewriting loses no host, `WithoutBoth` that filtering goes through two texts in a row. The library's induction theorems take operators;
`InductionOnSet` and `InductionOnSeq` state induction for a set of numbers and a set of sequences instead, from the well-foundedness of the order of numbers. TLC
checked `IInv` on the run's instance and with ports and Tuesdays among the texts.

### Only model-checked

* Liveness: `BusyEnds`, `Settles`, `DeletionCompletes`, `DueIsChecked`, `FetchEnds`, `ExitNoticed`, `RestartPossible`, `ComesToRest`,
  `HostEnds`. They need fairness, so ENABLED, which the prover does not handle.

Every safety property and every action property of a passing run is a theorem; two of them under the conditions above.

## 5. Not modelled, and why

* Parsing and formatting of gvmd's XML and of messages, and the checks of parameters other than those of hydra requests: text without state; the
  models take their outcomes.
* uuids, walks through directories: pure functions or plain I/O.
* PHP glue and pages, log files, the background switch: no state the properties speak of.
* The vendored packages, but for what `Gvmd` says of gvmd and `ScanHost` of the scanner: they are libraries and servers of others, most of it
  database queries, protocols and formats. They are most of the lines of the repository.
* The contents and sizes of the fixed buffers, except where a size decides a step (`Capacity`).

## 6. Plan

1. `NameSet`: the sorted array of llist.c (insertion, bisection, removal) against a bag, and the effect of names that compare equal.
2. `ScanNet`: the main scanner process with its hosts (`attack_network`, hosts.c): the limit of hosts, reaping, stop.
3. The id of a request in HydraTask, for cron lines that outlive their task.
