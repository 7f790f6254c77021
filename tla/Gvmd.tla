-------------------------------- MODULE Gvmd --------------------------------
(***************************************************************************)
(* The vulnerability manager (gvmd) as the daemon sees it through gvm-cli: *)
(* the targets, schedules, configs and tasks it stores, and the scans it   *)
(* runs.  One creation attempt of the daemon has one identity k: it makes  *)
(* at most the target k, the schedule k, the config k and the task k, all  *)
(* under the name of the daemon's task.                                    *)
(*                                                                         *)
(* A task runs zero or more scans; the i-th element of gReport[k] is the   *)
(* state of its i-th report: "run" while its scan is going on, "stopreq"   *)
(* when the scan is going on although the report was told to stop, "done"  *)
(* or "stop" (Stopped, Interrupted) once it has ended.  Nothing in gvmd    *)
(* prevents two scans of one task from running at once.                    *)
(***************************************************************************)
EXTENDS Naturals, Sequences

CONSTANTS
    Names,      \* task names clients use
    Nobody,     \* not a name
    MaxId,      \* bound: creation attempts
    MaxRuns     \* bound: scans per task

ASSUME GvmdAssumption ==
    /\ Nobody \notin Names
    /\ MaxId \in Nat \ {0}
    /\ MaxRuns \in Nat

VARIABLES
    gTask,      \* task k's run status, "none" before it exists
    gReport,    \* task k's reports, oldest first
    gObj,       \* the targets, schedules and configs that exist
    gName       \* the name the objects of attempt k carry

gvars == <<gTask, gReport, gObj, gName>>

Ids == 1..MaxId
ObjKinds == {"target", "schedule", "config"}
TaskStates == {"none", "New", "Active", "Done", "Stopped", "DelReq", "Trash"}
RunStates == {"run", "stopreq", "done", "stop"}
Alive == {"run", "stopreq"}

GvmdTypeOK ==
    /\ gTask \in [Ids -> TaskStates]
    /\ gReport \in [Ids -> Seq(RunStates)]
    /\ gObj \in SUBSET (ObjKinds \X Ids)
    /\ gName \in [Ids -> Names \cup {Nobody}]

GvmdInit ==
    /\ gTask = [k \in Ids |-> "none"]
    /\ gReport = [k \in Ids |-> <<>>]
    /\ gObj = {}
    /\ gName = [k \in Ids |-> Nobody]

----------------------------------------------------------------------------
(* What get_tasks and get_reports answer.                                  *)

\* The largest member of a set of report numbers, 0 if there is none.
Newest(S) ==
    IF \E i \in S : \A j \in S : j <= i
    THEN CHOOSE i \in S : \A j \in S : j <= i
    ELSE 0

ReportsIn(k, st) == {i \in 1..Len(gReport[k]) : gReport[k][i] \in st}

\* A task that get_tasks, get_reports and start_task can find.
Visible(k) == gTask[k] \notin {"none", "Trash"}

\* The newest report that is not done, of a task that is active or stopped.
CurrentReport(k) ==
    IF gTask[k] \in {"Active", "DelReq", "Stopped"}
    THEN Newest(ReportsIn(k, {"run", "stopreq", "stop"}))
    ELSE 0

LastReport(k) == Newest(ReportsIn(k, {"done"}))

----------------------------------------------------------------------------
(* Commands.  Each is one gvm-cli request carried out by gvmd.             *)

\* Targets and schedules have unique names; configs and tasks do not.
CanCreate(kind, k) ==
    kind \in {"target", "schedule"} =>
        \A j \in Ids : gName[j] = gName[k] => <<kind, j>> \notin gObj

GvmdCreate(kind, k) ==
    /\ IF kind = "task"
         THEN /\ gTask' = [gTask EXCEPT ![k] = "New"]
              /\ gObj' = gObj
         ELSE /\ gObj' = gObj \cup {<<kind, k>>}
              /\ gTask' = gTask
    /\ UNCHANGED <<gReport, gName>>

\* start_task makes a new report even when a scan of the task is running.
GvmdStart(k) ==
    /\ Visible(k)
    /\ Len(gReport[k]) < MaxRuns
    /\ gTask' = [gTask EXCEPT ![k] = "Active"]
    /\ gReport' = [gReport EXCEPT ![k] = Append(@, "run")]
    /\ UNCHANGED <<gObj, gName>>

\* stop_task ends the newest running report of an active task and marks the
\* task stopped.  With no such report, or one whose scan is only requested, it
\* answers with an error but marks the task stopped all the same.
GvmdStop(k) ==
    /\ Visible(k)
    /\ gTask' = [gTask EXCEPT ![k] = "Stopped"]
    /\ \/ gReport' = gReport
       \/ /\ gTask[k] = "Active"
          /\ \E i \in ReportsIn(k, {"run"}) :
                /\ i = Newest(ReportsIn(k, {"run"}))
                /\ gReport' = [gReport EXCEPT ![k][i] = "stop"]
    /\ UNCHANGED <<gObj, gName>>

\* delete_task of an active task is only noted (status 202) and the scan goes
\* on; any other task goes to the trashcan, where it stays.
GvmdDeleteTask(k) ==
    /\ gTask[k] # "none"
    /\ IF gTask[k] = "Active"
         THEN /\ gTask' = [gTask EXCEPT ![k] = "DelReq"]
              /\ LET r == Newest(ReportsIn(k, {"run"}))
                 IN  gReport' = IF r = 0 THEN gReport
                                ELSE [gReport EXCEPT ![k][r] = "stopreq"]
         ELSE /\ gTask' = [gTask EXCEPT ![k] = "Trash"]
              /\ gReport' = gReport
    /\ UNCHANGED <<gObj, gName>>

\* A target, schedule or config can go once no task outside the trashcan uses it.
CanDelete(k) == ~ Visible(k)

GvmdDeleteObj(kind, k) ==
    /\ gObj' = gObj \ {<<kind, k>>}
    /\ UNCHANGED <<gTask, gReport, gName>>

----------------------------------------------------------------------------
(* What gvmd does by itself.                                               *)

\* The scan behind report i of task k ends.  Its handler writes the outcome to
\* the report and to the task without looking at the task's current status.
Finish(k, i, outcome) ==
    /\ i \in ReportsIn(k, Alive)
    /\ gReport' = [gReport EXCEPT ![k][i] = outcome]
    /\ gTask' = [gTask EXCEPT ![k] =
                   IF @ = "Trash" THEN @
                   ELSE IF outcome = "done" THEN "Done" ELSE "Stopped"]
    /\ UNCHANGED <<gObj, gName>>

\* The scanner reports the scan as running: its handler marks the report and
\* the task running, even a task that is done (by another scan) or to be deleted.
ScanRuns(k) ==
    /\ gTask[k] \in {"Done", "DelReq"}
    /\ \E i \in ReportsIn(k, Alive) : gReport' = [gReport EXCEPT ![k][i] = "run"]
    /\ gTask' = [gTask EXCEPT ![k] = "Active"]
    /\ UNCHANGED <<gObj, gName>>

\* The task's schedule is due.
ScheduledStart(k) ==
    /\ <<"schedule", k>> \in gObj
    /\ gTask[k] \in {"New", "Done", "Stopped"}
    /\ GvmdStart(k)

GvmdStep ==
    \E k \in Ids :
        \/ \E i \in 1..Len(gReport[k]) : \E o \in {"done", "stop"} : Finish(k, i, o)
        \/ ScanRuns(k)
        \/ ScheduledStart(k)

=============================================================================
