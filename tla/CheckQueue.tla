----------------------------- MODULE CheckQueue -----------------------------
(***************************************************************************)
(* The run queue of scan tasks in the order of their check times, and the  *)
(* results of an ended report fetched page by page.  It is the side of     *)
(* the checks that GvmTask leaves out: which task is checked when, and how *)
(* many checks it takes until all results of a report are there.           *)
(*                                                                         *)
(* A check looks at the head of the queue only.  Every check gives its     *)
(* task a new check time and puts it in its place in the queue.            *)
(*                                                                         *)
(* left[t] is the time left until the check of t is due: its check time    *)
(* minus the clock, and AtOnce for a check time of 0.  Checks that are     *)
(* overdue have no time left, 0; the queue keeps the order they were in.   *)
(*                                                                         *)
(* gvmd lists the results of a report in an order of its own.  A report    *)
(* that was only told to stop is taken for ended, so results may still be  *)
(* added to it, anywhere in the list.                                      *)
(***************************************************************************)
EXTENDS Integers, SequencesExt

CONSTANTS
    Tasks,          \* scan tasks
    TaskWait,       \* seconds between two checks of the kinds TASK and DELETED,
    ReportWait,     \* REPORT
    ResultWait,     \* and RESULT
    Rows,           \* results on a page
    Capacity,       \* results that fit the buffer they are printed to
    MaxResults,     \* bound: results of a report
    Sizes,          \* bound: results a task's report has when it has ended
    MaxLate,        \* bound: results added to reports taken for ended
    MaxHurry,       \* bound: start and stop requests
    MaxCrashes      \* bound: crashes of the daemon

ASSUME CheckQueueAssumption ==
    /\ TaskWait \in Nat \ {0}
    /\ ReportWait \in 1..TaskWait
    /\ ResultWait \in 1..TaskWait
    /\ Rows \in Nat \ {0}
    /\ Capacity \in Nat
    /\ MaxResults \in Nat
    /\ \A t \in Tasks : Sizes[t] \subseteq 0..MaxResults
    /\ MaxLate \in Nat
    /\ MaxHurry \in Nat
    /\ MaxCrashes \in Nat

VARIABLES
    runq,       \* m_runque
    left,       \* time left until a task's check is due
    chk,        \* its check type
    info,       \* its results as far as read: m_result_info
    results,    \* gvmd's list of the results of its report, while they are fetched
    late,       \* results added late, by task
    hurried,    \* start and stop requests so far
    crashes     \* crashes so far

vars == <<runq, left, chk, info, results, late, hurried, crashes>>

AtOnce == -1
Unknown == -1
ChkType == {"TASK", "REPORT", "RESULT", "DELETED"}
Results == 1..MaxResults

InfoRec == [total : {Unknown} \cup Nat, first : Nat, read : Seq(Results), done : BOOLEAN]
NoInfo == [total |-> Unknown, first |-> 1, read |-> <<>>, done |-> FALSE]

Queued == Range(runq)

TypeOK ==
    /\ runq \in Seq(Tasks)
    /\ left \in [Tasks -> {AtOnce} \cup 0..TaskWait]
    /\ chk \in [Tasks -> ChkType]
    /\ info \in [Tasks -> InfoRec]
    /\ \A t \in Tasks : Len(info[t].read) <= MaxResults
    /\ results \in [Tasks -> Seq(Results)]
    /\ late \in [Tasks -> 0..MaxLate]
    /\ hurried \in 0..MaxHurry
    /\ crashes \in 0..MaxCrashes

Init ==
    /\ runq = <<>>
    /\ left = [t \in Tasks |-> 0]
    /\ chk = [t \in Tasks |-> "TASK"]
    /\ info = [t \in Tasks |-> NoInfo]
    /\ results = [t \in Tasks |-> <<>>]
    /\ late = [t \in Tasks |-> 0]
    /\ hurried = 0
    /\ crashes = 0

----------------------------------------------------------------------------
(* The queue                                                               *)

\* Before the first later task: behind the last one that is not later.
PushBack(q, t, time) ==
    LET before == {i \in DOMAIN q : time[q[i]] <= time[t]}
        place == IF before = {} THEN 0 ELSE CHOOSE i \in before : \A j \in before : j <= i
    IN  InsertAt(q, place + 1, t)

\* The queue without a task it holds, which is unlinked where it is.
Without(q, t) == RemoveAt(q, CHOOSE i \in DOMAIN q : q[i] = t)

NextChkTime(wait) == IF wait > 0 THEN wait ELSE AtOnce

\* Variant: the task keeps its place in the queue.
Requeue_InPlace(t, wait) ==
    /\ left' = [left EXCEPT ![t] = NextChkTime(wait)]
    /\ runq' = runq

\* A new check time, and the place in the queue that goes with it.
Requeue(t, wait) ==
    /\ left' = [left EXCEPT ![t] = NextChkTime(wait)]
    /\ runq' = PushBack(Without(runq, t), t, left')

\* A task just created is checked after the longest time.
AddTask(t) ==
    /\ t \notin Queued
    /\ left' = [left EXCEPT ![t] = NextChkTime(TaskWait)]
    /\ runq' = PushBack(runq, t, left')
    /\ chk' = [chk EXCEPT ![t] = "TASK"]
    /\ UNCHANGED <<info, results, late, hurried, crashes>>

\* The task leaves the queue, and its record and its directory are gone.
Forget(t) ==
    /\ runq' = Without(runq, t)
    /\ left' = [left EXCEPT ![t] = 0]
    /\ chk' = [chk EXCEPT ![t] = "TASK"]
    /\ info' = [info EXCEPT ![t] = NoInfo]
    /\ results' = [results EXCEPT ![t] = <<>>]
    /\ late' = [late EXCEPT ![t] = 0]

\* A delete request, for a task that is not followed.  If its files cannot be
\* removed it stays where it is in the queue.
DeleteTask(t, ok) ==
    /\ t \in Queued
    /\ chk[t] = "TASK"
    /\ IF ok THEN Forget(t)
       ELSE /\ chk' = [chk EXCEPT ![t] = "DELETED"]
            /\ UNCHANGED <<runq, left, info, results, late>>
    /\ UNCHANGED <<hurried, crashes>>

\* A start or a stop request has the task checked at once.
Hurry(t) ==
    /\ t \in Queued
    /\ chk[t] \in {"TASK", "REPORT"}
    /\ hurried < MaxHurry
    /\ hurried' = hurried + 1
    /\ Requeue(t, 0)
    /\ UNCHANGED <<chk, info, results, late, crashes>>

----------------------------------------------------------------------------
(* Checks                                                                  *)

Due(t) == runq # <<>> /\ Head(runq) = t /\ left[t] <= 0

\* Variant: a task without news is checked again at once.
CheckTask_AtOnce(t, new) ==
    /\ Due(t)
    /\ chk[t] = "TASK"
    /\ chk' = IF new THEN [chk EXCEPT ![t] = "REPORT"] ELSE chk
    /\ Requeue(t, 0)
    /\ UNCHANGED <<info, results, late, hurried, crashes>>

\* The task has a new report; or it has none, or gvmd could not be asked.
CheckTask(t, new) ==
    /\ Due(t)
    /\ chk[t] = "TASK"
    /\ IF new
         THEN chk' = [chk EXCEPT ![t] = "REPORT"] /\ Requeue(t, 0)
         ELSE chk' = chk /\ Requeue(t, TaskWait)
    /\ UNCHANGED <<info, results, late, hurried, crashes>>

\* The report is running (or gvmd could not be asked), has ended with a number
\* of results, or is in another state.
CheckReport(t) ==
    /\ Due(t)
    /\ chk[t] = "REPORT"
    /\ \/ /\ Requeue(t, ReportWait)
          /\ UNCHANGED <<chk, results>>
       \/ /\ chk' = [chk EXCEPT ![t] = "RESULT"]
          /\ \E n \in Sizes[t] : results' = [results EXCEPT ![t] = [i \in 1..n |-> i]]
          /\ Requeue(t, 0)
       \/ /\ chk' = [chk EXCEPT ![t] = "TASK"]
          /\ Requeue(t, TaskWait)
          /\ UNCHANGED results
    /\ UNCHANGED <<info, late, hurried, crashes>>

\* The results from number first on that gvmd answers with.
Page(t) == SubSeq(results[t], info[t].first,
                  IF info[t].first + Rows - 1 < Len(results[t])
                  THEN info[t].first + Rows - 1 ELSE Len(results[t]))

\* Variant: after a page that could not be read to its end, first stays.
Parsed_KeepFirst(t, k) ==
    LET page == Page(t)
        total == IF info[t].total = Unknown THEN Len(results[t]) ELSE info[t].total
        read == info[t].read \o SubSeq(page, 1, k)
        whole == page # <<>> /\ k = Len(page)
    IN  [total |-> total, read |-> read,
         first |-> IF whole THEN Len(read) + 1 ELSE info[t].first,
         done |-> total = 0 \/ (whole /\ Len(read) = total)]

\* Variant: done once as many pages were asked for as the total needs.
Parsed_DoneByFirst(t, k) ==
    LET page == Page(t)
        total == IF info[t].total = Unknown THEN Len(results[t]) ELSE info[t].total
        read == info[t].read \o SubSeq(page, 1, k)
    IN  [total |-> total, first |-> Len(read) + 1, read |-> read,
         done |-> info[t].first + Rows > total]

\* Variant: a report without results is treated like any other.
Parsed_EmptyIsError(t, k) ==
    LET page == Page(t)
        total == IF info[t].total = Unknown THEN Len(results[t]) ELSE info[t].total
        read == info[t].read \o SubSeq(page, 1, k)
        whole == page # <<>> /\ k = Len(page)
    IN  [total |-> total, first |-> Len(read) + 1, read |-> read,
         done |-> whole /\ Len(read) = total]

\* The first k results of a page were read.  The total is the one of the first
\* answer.  A page without results is an error unless the total is 0; what was
\* read before an error is kept.
Parsed(t, k) ==
    LET page == Page(t)
        total == IF info[t].total = Unknown THEN Len(results[t]) ELSE info[t].total
        read == info[t].read \o SubSeq(page, 1, k)
        whole == page # <<>> /\ k = Len(page)
    IN  [total |-> total, first |-> Len(read) + 1, read |-> read,
         done |-> total = 0 \/ (whole /\ Len(read) = total)]

\* Variant: what was read of a report is kept after its results were saved.
Finish_KeepInfo(t, rec) ==
    /\ info' = [info EXCEPT ![t] = rec]
    /\ IF rec.done /\ Len(rec.read) <= Capacity
         THEN /\ chk' = [chk EXCEPT ![t] = "TASK"]
              /\ results' = [results EXCEPT ![t] = <<>>]
              /\ late' = [late EXCEPT ![t] = 0]
              /\ Requeue(t, TaskWait)
         ELSE Requeue(t, ResultWait) /\ UNCHANGED <<chk, results, late>>

\* Results that were all read are printed to a buffer and from there to the
\* file; if they do not fit they are printed again at the next check.  The file
\* is in GvmTask, which ignores a failed write as this does.
Finish(t, rec) ==
    IF rec.done /\ Len(rec.read) <= Capacity
      THEN /\ chk' = [chk EXCEPT ![t] = "TASK"]
           /\ info' = [info EXCEPT ![t] = NoInfo]
           /\ results' = [results EXCEPT ![t] = <<>>]
           /\ late' = [late EXCEPT ![t] = 0]
           /\ Requeue(t, TaskWait)
      ELSE /\ info' = [info EXCEPT ![t] = rec]
           /\ Requeue(t, ResultWait)
           /\ UNCHANGED <<chk, results, late>>

\* A page was asked for and answered, unless all results are there already.
CheckResult(t, k) ==
    /\ Due(t)
    /\ chk[t] = "RESULT"
    /\ Finish(t, IF info[t].done THEN info[t] ELSE Parsed(t, k))
    /\ UNCHANGED <<hurried, crashes>>

\* gvmd could not be asked for the page, or its answer could not be read at all.
CheckResultFails(t) ==
    /\ Due(t)
    /\ chk[t] = "RESULT"
    /\ ~ info[t].done
    /\ Requeue(t, ResultWait)
    /\ UNCHANGED <<chk, info, results, late, hurried, crashes>>

\* The files of a task marked as deleted are tried again.
RetryDelete(t, ok) ==
    /\ Due(t)
    /\ chk[t] = "DELETED"
    /\ IF ok THEN Forget(t)
       ELSE Requeue(t, TaskWait) /\ UNCHANGED <<chk, info, results, late>>
    /\ UNCHANGED <<hurried, crashes>>

RunCheck(t) ==
    \/ \E new \in BOOLEAN : CheckTask(t, new)
    \/ CheckReport(t)
    \/ \E k \in 0..Len(Page(t)) : CheckResult(t, k)
    \/ CheckResultFails(t)
    \/ \E ok \in BOOLEAN : RetryDelete(t, ok)

----------------------------------------------------------------------------
(* Time, gvmd and crashes                                                  *)

\* A second passes.
Tick ==
    /\ \E t \in Queued : left[t] > 0
    /\ left' = [t \in Tasks |-> IF left[t] > 0 THEN left[t] - 1 ELSE left[t]]
    /\ UNCHANGED <<runq, chk, info, results, late, hurried, crashes>>

\* A scan that was told to stop finds one more result.
LateResult(t, i) ==
    /\ chk[t] = "RESULT"
    /\ late[t] < MaxLate
    /\ Len(results[t]) < MaxResults
    /\ results' = [results EXCEPT ![t] = InsertAt(@, i, Len(@) + 1)]
    /\ late' = [late EXCEPT ![t] = @ + 1]
    /\ UNCHANGED <<runq, left, chk, info, hurried, crashes>>

\* After a crash every known task is queued anew; what was read of a page and
\* the marks of deleted tasks were only in memory.
Crash ==
    /\ crashes < MaxCrashes
    /\ crashes' = crashes + 1
    /\ runq' \in {q \in [1..Len(runq) -> Queued] : Range(q) = Queued}
    /\ left' = [t \in Tasks |-> IF t \in Queued THEN NextChkTime(TaskWait) ELSE 0]
    /\ chk' = [t \in Tasks |-> IF chk[t] = "DELETED" THEN "TASK" ELSE chk[t]]
    /\ info' = [t \in Tasks |-> NoInfo]
    /\ UNCHANGED <<results, late, hurried>>

Next ==
    \/ \E t \in Tasks :
          \/ AddTask(t)
          \/ \E ok \in BOOLEAN : DeleteTask(t, ok)
          \/ Hurry(t)
          \/ RunCheck(t)
          \/ \E i \in 1..Len(results[t]) + 1 : LateResult(t, i)
    \/ Tick
    \/ Crash

Spec == Init /\ [][Next]_vars

(* Fairness: the loop of the daemon finds no request again and again and   *)
(* then runs the check at the head if it is due, time passes, and a page   *)
(* is answered in full again and again.                                    *)
Fairness ==
    /\ WF_vars(\E t \in Tasks : RunCheck(t))
    /\ WF_vars(Tick)
    /\ \A t \in Tasks : SF_vars(CheckResult(t, Len(Page(t))))

FairSpec == Spec /\ Fairness

----------------------------------------------------------------------------
(* Properties                                                              *)

\* The queue holds each task once and is in the order of the check times, so a
\* head that is not due means that no task is (runGvmChecks looks no further).
QueueSorted ==
    /\ Cardinality(Queued) = Len(runq)
    /\ \A i, j \in 1..Len(runq) : i < j => left[runq[i]] <= left[runq[j]]

\* What was read of a report is a beginning of gvmd's list, and the next page
\* starts right behind it: whatever pages failed half way, no result is read
\* twice or passed over, as long as gvmd's list stays as it is (parseResult).
PagesFit ==
    \A t \in Tasks : late[t] = 0 /\ chk[t] = "RESULT" =>
        /\ IsPrefix(info[t].read, results[t])
        /\ info[t].first = Len(info[t].read) + 1

\* However the next page is answered, and wherever it breaks off, the results go
\* to the file only when all of them are there (parseResult).
DoneIsAll ==
    \A t \in Tasks : late[t] = 0 /\ chk[t] = "RESULT" =>
        \A k \in 0..Len(Page(t)) :
            LET rec == IF info[t].done THEN info[t] ELSE Parsed(t, k)
            IN  rec.done => rec.read = results[t]

\* No task is passed over: one whose check is due gets it, however often
\* other checks fail (runGvmChecks, reque_list).  GvmTask relies on it.
DueIsChecked ==
    \A t \in Tasks : (t \in Queued /\ left[t] <= 0) ~> ~ (t \in Queued /\ left[t] <= 0)

\* The fetching of results ends, with pages that fail in between and a daemon
\* that crashes, for results that fit the buffer and do not grow in number
\* (backend_query_result).
FetchEnds ==
    \A t \in Tasks :
        chk[t] = "RESULT" ~>
            chk[t] # "RESULT" \/ late[t] > 0 \/ Len(results[t]) > Capacity

\* "if get all result, set status to done": a task that goes on fetching has
\* not read all results yet (openvas_opts.c, parseResult).
DoneWhenAllRead ==
    \A t \in Tasks : chk[t] = "RESULT" /\ info[t].total > 0 /\ ~ info[t].done
        => Len(info[t].read) < Len(results[t])

----------------------------------------------------------------------------
(* The inductive invariant behind the safety properties, in parts.         *)

\* The queue holds each task once, in the order of the check times.
NoTwice == \A i, j \in 1..Len(runq) : runq[i] = runq[j] => i = j

InTime == \A i, j \in 1..Len(runq) : i < j => left[runq[i]] <= left[runq[j]]

\* Only a task in the queue whose results are fetched has read any, never more
\* than gvmd lists.
ReadSound ==
    \A t \in Tasks :
        /\ chk[t] # "RESULT" => info[t] = NoInfo /\ late[t] = 0
        /\ t \notin Queued => chk[t] # "RESULT"
        /\ info[t].first = Len(info[t].read) + 1
        /\ Len(results[t]) <= MaxResults
        /\ chk[t] = "RESULT" => Len(info[t].read) <= Len(results[t])

\* As long as gvmd's list stays, the total is its length, what was read is a
\* beginning of it, and all of it once reading is done.
FetchSound ==
    \A t \in Tasks : late[t] = 0 /\ chk[t] = "RESULT" =>
        /\ IsPrefix(info[t].read, results[t])
        /\ info[t].total \in {Unknown, Len(results[t])}
        /\ info[t].done => info[t].read = results[t]

IInv == TypeOK /\ NoTwice /\ InTime /\ ReadSound /\ FetchSound

=============================================================================
