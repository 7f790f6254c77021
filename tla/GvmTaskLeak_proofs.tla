------------------------- MODULE GvmTaskLeak_proofs -------------------------
(***************************************************************************)
(* Proofs about what the daemon leaves in gvmd, for every set of names,    *)
(* every bound and every choice of faults: the inductive invariant         *)
(* KnowsInv, on top of IInv, and from it NoLeak and NoDangling.            *)
(***************************************************************************)
EXTENDS GvmTask_proofs

USE GvmdAssumption, GvmTaskAssumption DEF Ids

----------------------------------------------------------------------------
(* What gvmd's commands and steps do to the objects that exist.            *)

\* What exists of an attempt depends on its task being visible and on its objects.
LEMMA ExistingDepends ==
    ASSUME NEW k \in Ids, Visible(k)' <=> Visible(k),
           \A kind \in ObjKinds : <<kind, k>> \in gObj' <=> <<kind, k>> \in gObj
    PROVE  Existing(k)' = Existing(k)
  BY DEF Existing, Kinds

\* A creation adds one kind to what exists of its attempt (gvm_create_target and
\* the calls after it).
LEMMA CreateExists ==
    ASSUME GvmdTypeOK, ScansOwned, NEW k \in Ids, NEW kind \in Kinds, GvmdCreate(kind, k)
    PROVE  /\ ScansOwned'
           /\ Existing(k)' = Existing(k) \cup {kind}
           /\ \A j \in Ids \ {k} : Existing(j)' = Existing(j)
  <1> USE DEF GvmdTypeOK, GvmdCreate
  <1>1. CASE kind = "task"
    <2>1. /\ gTask' = [gTask EXCEPT ![k] = "New"]
          /\ gObj' = gObj /\ gReport' = gReport
      BY <1>1
    <2>2. Visible(k)' /\ \A j \in Ids \ {k} : Visible(j)' <=> Visible(j)
      BY <2>1 DEF Visible
    <2>3. Existing(k)' = Existing(k) \cup {kind}
      BY <1>1, <2>1, <2>2 DEF Existing
    <2>4. \A j \in Ids \ {k} : Existing(j)' = Existing(j)
      BY <2>1, <2>2, ExistingDepends
    <2> QED
      BY <2>1, <2>3, <2>4 DEF ScansOwned
  <1>2. CASE kind # "task"
    <2>1. gObj' = gObj \cup {<<kind, k>>} /\ gTask' = gTask /\ gReport' = gReport
      BY <1>2
    <2>2. \A j \in Ids : Visible(j)' <=> Visible(j)
      BY <2>1 DEF Visible
    <2>3. Existing(k)' = Existing(k) \cup {kind}
      BY <1>2, <2>1, <2>2 DEF Existing
    <2>4. \A j \in Ids \ {k} : Existing(j)' = Existing(j)
      BY <2>1, <2>2, ExistingDepends
    <2> QED
      BY <2>1, <2>3, <2>4 DEF ScansOwned
  <1> QED
    BY <1>1, <1>2

\* Starting and stopping makes and removes nothing (gvm_start_task, gvm_stop_task).
LEMMA StartStopExists ==
    ASSUME GvmdTypeOK, ScansOwned, NEW k \in Ids, GvmdStart(k) \/ GvmdStop(k)
    PROVE  ScansOwned' /\ \A j \in Ids : Existing(j)' = Existing(j)
  <1>1. /\ gTask[k] # "none" /\ Visible(k)
        /\ gObj' = gObj
        /\ gTask' = [gTask EXCEPT ![k] = "Active"] \/ gTask' = [gTask EXCEPT ![k] = "Stopped"]
        /\ \A j \in Ids \ {k} : gReport'[j] = gReport[j]
    BY DEF GvmdStart, GvmdStop, GvmdTypeOK, Visible
  <1>2. \A j \in Ids : Visible(j)' <=> Visible(j)
    BY <1>1 DEF Visible, GvmdTypeOK
  <1>3. \A j \in Ids : Existing(j)' = Existing(j)
    BY <1>1, <1>2, ExistingDepends
  <1>4. ScansOwned'
    BY <1>1 DEF ScansOwned, GvmdTypeOK
  <1> QED
    BY <1>3, <1>4

\* What gvmd does by itself makes and removes nothing: a scan that ends leaves a
\* task in the trashcan there.
LEMMA GvmdStepExists ==
    ASSUME GvmdTypeOK, ScansOwned, GvmdStep
    PROVE  ScansOwned' /\ \A j \in Ids : Existing(j)' = Existing(j)
  <1> PICK k \in Ids :
        \/ \E i \in 1..Len(gReport[k]) : \E o \in {"done", "stop"} : Finish(k, i, o)
        \/ ScanRuns(k)
        \/ ScheduledStart(k)
    BY DEF GvmdStep
  <1>1. CASE ScheduledStart(k)
    BY <1>1, StartStopExists DEF ScheduledStart
  <1>2. ASSUME \/ \E i \in 1..Len(gReport[k]) : \E o \in {"done", "stop"} : Finish(k, i, o)
               \/ ScanRuns(k)
        PROVE  ScansOwned' /\ \A j \in Ids : Existing(j)' = Existing(j)
    <2>1. gReport[k] # <<>>
      BY <1>2 DEF Finish, ScanRuns, ReportsIn
    <2>2. gTask[k] # "none"
      BY <2>1 DEF ScansOwned
    <2>3. /\ gObj' = gObj
          /\ \A j \in Ids \ {k} : gTask'[j] = gTask[j] /\ gReport'[j] = gReport[j]
          /\ gTask'[k] # "none"
          /\ gTask'[k] = "Trash" <=> gTask[k] = "Trash"
      BY <1>2, <2>2 DEF Finish, ScanRuns, GvmdTypeOK
    <2>4. \A j \in Ids : Visible(j)' <=> Visible(j)
      BY <2>2, <2>3 DEF Visible
    <2>5. \A j \in Ids : Existing(j)' = Existing(j)
      BY <2>3, <2>4, ExistingDepends
    <2>6. ScansOwned'
      BY <2>3 DEF ScansOwned
    <2> QED
      BY <2>5, <2>6
  <1> QED
    BY <1>1, <1>2

\* A removal makes nothing, and removes what it is meant to unless it is to blame:
\* the task goes first, and gvmd gives up an object no visible task uses
\* (gvm_delete_task, gvm_delete_target and the calls after them).
LEMMA RemoveExists ==
    ASSUME GvmdTypeOK, ScansOwned, NEW k \in Ids, NEW kind \in Kinds, NEW out \in Outcomes,
           IF out = "fail" THEN UNCHANGED gvars ELSE GvmdRemove(kind, k)
    PROVE  /\ ScansOwned'
           /\ Existing(k)' \subseteq Existing(k)
           /\ kind \in Existing(k)' /\ (kind = "task" \/ "task" \notin Existing(k))
                => Kept(kind, k, out) # {}
           /\ \A j \in Ids \ {k} : Existing(j)' = Existing(j)
  <1>1. CASE out = "fail"
    <2>1. UNCHANGED <<gTask, gReport, gObj>>
      BY <1>1 DEF gvars
    <2>2. \A j \in Ids : Existing(j)' = Existing(j)
      BY <2>1, ExistingDepends DEF Visible
    <2>3. Kept(kind, k, out) # {}
      BY <1>1 DEF Kept
    <2> QED
      BY <2>1, <2>2, <2>3 DEF ScansOwned
  <1>2. CASE out # "fail" /\ kind = "task"
    <2>1. /\ gTask[k] # "none" /\ gObj' = gObj
          /\ gTask' = [gTask EXCEPT ![k] = IF gTask[k] = "Active" THEN "DelReq" ELSE "Trash"]
          /\ \A j \in Ids \ {k} : gReport'[j] = gReport[j]
      BY <1>2 DEF GvmdRemove, GvmdDeleteTask, GvmdTypeOK
    <2>2. ScansOwned'
      BY <2>1 DEF ScansOwned, GvmdTypeOK
    <2>3. /\ \A j \in Ids \ {k} : Visible(j)' <=> Visible(j)
          /\ Visible(k)' => Visible(k) /\ gTask[k] = "Active"
      BY <2>1 DEF Visible, GvmdTypeOK
    <2>4. \A j \in Ids \ {k} : Existing(j)' = Existing(j)
      BY <2>1, <2>3, ExistingDepends
    <2>5. Existing(k)' \subseteq Existing(k) /\ (kind \in Existing(k)' => gTask[k] = "Active")
      BY <1>2, <2>1, <2>3 DEF Existing
    <2> QED
      BY <1>2, <2>2, <2>4, <2>5 DEF Kept
  <1>3. CASE out # "fail" /\ kind # "task" /\ CanDelete(k)
    <2>1. gObj' = gObj \ {<<kind, k>>} /\ UNCHANGED <<gTask, gReport>>
      BY <1>3 DEF GvmdRemove, GvmdDeleteObj
    <2>2. \A j \in Ids : Visible(j)' <=> Visible(j)
      BY <2>1 DEF Visible
    <2>3. \A j \in Ids \ {k} : Existing(j)' = Existing(j)
      BY <2>1, <2>2, ExistingDepends
    <2>4. Existing(k)' \subseteq Existing(k) /\ kind \notin Existing(k)'
      BY <1>3, <2>1, <2>2 DEF Existing
    <2> QED
      BY <2>1, <2>3, <2>4 DEF ScansOwned
  <1>4. CASE out # "fail" /\ kind # "task" /\ ~ CanDelete(k)
    <2>1. UNCHANGED <<gTask, gReport, gObj>>
      BY <1>4 DEF GvmdRemove, gvars
    <2>2. \A j \in Ids : Existing(j)' = Existing(j)
      BY <2>1, ExistingDepends DEF Visible
    <2>3. "task" \in Existing(k)
      BY <1>4 DEF CanDelete, Existing, Kinds
    <2> QED
      BY <1>4, <2>1, <2>2, <2>3 DEF ScansOwned
  <1> QED
    BY <1>1, <1>2, <1>3, <1>4

\* What NoLeak says of one attempt, by the kinds that exist.
LEMMA NoLeakByKind ==
    NoLeak <=> \A k \in Ids : Existing(k) # {} => Owned(k) \/ why[k] # {}
  <1>1. \A k \in Ids :
          Existing(k) # {} <=> Visible(k) \/ \E kind \in ObjKinds : <<kind, k>> \in gObj
    <2> TAKE k \in Ids
    <2>1. "task" \in Existing(k) <=> Visible(k)
      BY DEF Existing, Kinds
    <2>2. \A kind \in ObjKinds : kind \in Existing(k) <=> <<kind, k>> \in gObj
      BY DEF Existing, Kinds, ObjKinds
    <2>3. Existing(k) \subseteq ObjKinds \cup {"task"}
      BY DEF Existing, Kinds
    <2> QED
      BY <2>1, <2>2, <2>3
  <1> QED
    BY <1>1 DEF NoLeak

\* The same of the state after a step.
LEMMA NoLeakByKindNext ==
    (\A k \in Ids : Existing(k)' # {} => Owned(k)' \/ why'[k] # {}) => NoLeak'
  <1>1. (NoLeak <=> \A k \in Ids : Existing(k) # {} => Owned(k) \/ why[k] # {})'
    BY NoLeakByKind, PTL
  <1> QED
    BY <1>1

----------------------------------------------------------------------------
(* KnowsInv holds at first, and every step keeps it.                       *)

\* A known attempt has an identity, the same in memory and in the task file.
LEMMA Known_Ids ==
    ASSUME IInv
    PROVE  /\ \A n \in Names : task[n].id \in Ids \cup {0} /\ taskFile[n].id \in Ids \cup {0}
           /\ up => \A n \in Names : taskFile[n].id = task[n].id
           /\ \A n \in Names : taskFile[n].id \in 0..nextId - 1
           /\ \A n, m \in Names : taskFile[n].id = taskFile[m].id /\ n # m => taskFile[n].id = 0
           /\ nextId \in Nat
  <1>1. \A n \in Names : task[n] \in TaskRec /\ taskFile[n] \in FileRec
    BY DEF IInv, TypeOK
  <1>2. \A n \in Names : task[n].id \in Ids \cup {0} /\ taskFile[n].id \in Ids \cup {0}
    <2>1. 0..MaxId = Ids \cup {0}
      OBVIOUS
    <2> QED
      BY <1>1, <2>1 DEF TaskRec, FileRec
  <1>3. nextId \in Nat /\ \A n \in Names : taskFile[n].id \in 0..nextId - 1
    <2>1. nextId \in Nat /\ nextId >= 1
      BY DEF IInv, TypeOK
    <2>2. \A n \in Names : taskFile[n].id = 0 \/ taskFile[n].id \in 1..nextId - 1
      BY DEF IInv, IdsSound
    <2> QED
      BY <2>1, <2>2
  <1> QED
    BY <1>2, <1>3 DEF IInv, StoreDurable, IdsSound

\* Nothing exists and nothing is known at first.
LEMMA InitKnows == Init => KnowsInv
  <1> SUFFICES ASSUME Init PROVE KnowsInv
    OBVIOUS
  <1>1. \A k \in Ids : Existing(k) = {}
    BY DEF Init, GvmdInit, Existing, Visible
  <1>2. ScansOwned /\ FreshUnmade /\ JobKnows
    BY <1>1 DEF Init, GvmdInit, ScansOwned, FreshUnmade, JobKnows, NoJob
  <1>3. \A n \in Names : MemoryKnows(n) /\ FileKnows(n)
    BY DEF Init, MemoryKnows, FileKnows, NoTask, NewTask, NoRec
  <1>4. NoLeak
    BY <1>1, NoLeakByKind
  <1> QED
    BY <1>2, <1>3, <1>4 DEF KnowsInv

\* A step that makes and removes nothing, and changes of the store at most the
\* status of tasks: blame may grow and results may be saved.
LEMMA QuietKnows ==
    ASSUME IInv, KnowsInv, ScansOwned',
           \A j \in Ids : Existing(j)' = Existing(j) /\ why[j] \subseteq why'[j],
           UNCHANGED <<nextId, taskFile>>,
           \A n \in Names : /\ task'[n].id = task[n].id /\ task'[n].objs = task[n].objs
                            /\ task'[n].chk = "DELETED" => task[n].chk = "DELETED",
           \/ job' = job
           \/ job.op \in {"idle", "status"} /\ (job' = NoJob \/ job'.op = "status")
    PROVE  KnowsInv'
  <1>1. FreshUnmade'
    BY DEF KnowsInv, FreshUnmade
  <1>2. job.op \in {"create", "write", "rollback", "delete", "files"} => job.id \in Ids
    BY DEF IInv, JobSound, TypeOK
  <1>3. JobKnows'
    <2>1. CASE job' = job
      BY <1>2, <2>1 DEF KnowsInv, JobKnows
    <2>2. CASE job' = NoJob \/ job'.op = "status"
      BY <2>2 DEF JobKnows, NoJob
    <2> QED
      BY <2>1, <2>2
  <1>4. \A n \in Names : MemoryKnows(n)'
    <2> SUFFICES ASSUME NEW n \in Names PROVE MemoryKnows(n)'
      OBVIOUS
    <2>1. task[n].id \in Ids \cup {0} /\ MemoryKnows(n)
      BY Known_Ids DEF KnowsInv
    <2> QED
      BY <2>1 DEF MemoryKnows
  <1>5. \A n \in Names : FileKnows(n)'
    <2> SUFFICES ASSUME NEW n \in Names PROVE FileKnows(n)'
      OBVIOUS
    <2>1. taskFile[n].id \in Ids \cup {0} /\ FileKnows(n) /\ taskFile'[n] = taskFile[n]
      BY Known_Ids DEF KnowsInv
    <2>2. TakenApart(taskFile[n].id) => TakenApart(taskFile[n].id)'
      BY DEF TakenApart
    <2> QED
      BY <2>1, <2>2 DEF FileKnows
  <1>6. \A k \in Ids : Owned(k) => Owned(k)'
    <2> SUFFICES ASSUME NEW k \in Ids, Owned(k) PROVE Owned(k)'
      OBVIOUS
    <2>1. CASE \E n \in Names : taskFile[n].id = k
      BY <2>1 DEF Owned
    <2>2. CASE job' = job
      BY <2>2 DEF Owned
    <2>3. CASE job.op = "idle" /\ job.id = k
      BY <2>3 DEF KnowsInv, JobKnows
    <2>4. CASE job.op = "status" /\ job.id = k
      <3>1. up /\ job.name \in Names /\ task[job.name].id = k
        BY <2>4 DEF IInv, JobSound
      <3> QED
        BY <2>1, <3>1, Known_Ids
    <2> QED
      BY <2>1, <2>2, <2>3, <2>4 DEF Owned
  <1>7. NoLeak'
    <2>1. \A k \in Ids : Existing(k)' # {} => Owned(k)' \/ why'[k] # {}
      BY <1>6, NoLeakByKind DEF KnowsInv
    <2> QED
      BY <2>1, NoLeakByKindNext
  <1> QED
    BY <1>1, <1>3, <1>4, <1>5, <1>7 DEF KnowsInv

\* A step about one attempt: what is left to show is what is known of that one,
\* as long as the task file is rewritten from memory.
LEMMA LocalKnows ==
    ASSUME IInv, KnowsInv, up, NEW k \in Ids, k < nextId, nextId' = nextId,
           {job.id, job'.id} \subseteq {0, k},
           \A j \in Ids \ {k} : Existing(j)' = Existing(j) /\ why'[j] = why[j],
           \A n \in Names : task'[n] = task[n] \/ {task[n].id, task'[n].id} \subseteq {0, k},
           \A n \in Names :
              \/ taskFile'[n] = taskFile[n]
              \/ taskFile'[n].id = task'[n].id /\ taskFile'[n].objs = task'[n].objs,
           ScansOwned', JobKnows',
           \A n \in Names : task'[n].id = k => MemoryKnows(n)',
           \A n \in Names : taskFile'[n].id = k => FileKnows(n)',
           Existing(k)' # {} => Owned(k)' \/ why'[k] # {}
    PROVE  KnowsInv'
  <1>1. FreshUnmade'
    BY Known_Ids DEF KnowsInv, FreshUnmade
  <1>2. \A n \in Names : MemoryKnows(n)'
    <2> SUFFICES ASSUME NEW n \in Names, task'[n].id # k PROVE MemoryKnows(n)'
      OBVIOUS
    <2>1. CASE task'[n] = task[n]
      <3>1. MemoryKnows(n) /\ task[n].id \in Ids \cup {0}
        BY Known_Ids DEF KnowsInv
      <3> QED
        BY <2>1, <3>1 DEF MemoryKnows
    <2>2. CASE task'[n].id = 0
      BY <2>2 DEF MemoryKnows
    <2> QED
      BY <2>1, <2>2
  <1>3. \A n \in Names : taskFile'[n].id \notin {0, k} =>
          taskFile[n].id = taskFile'[n].id /\ FileKnows(n)'
    <2> SUFFICES ASSUME NEW n \in Names, taskFile'[n].id \notin {0, k}
                 PROVE  taskFile[n].id = taskFile'[n].id /\ FileKnows(n)'
      OBVIOUS
    <2>1. /\ MemoryKnows(n) /\ FileKnows(n)
          /\ taskFile[n].id = task[n].id /\ task[n].id \in Ids \cup {0}
      BY Known_Ids DEF KnowsInv
    <2>2. /\ taskFile'[n].id = taskFile[n].id
          /\ taskFile'[n].objs \in {taskFile[n].objs, task[n].objs}
      BY <2>1
    <2>3. ~ TakenApart(taskFile[n].id)
      BY <2>2 DEF TakenApart
    <2>4. taskFile[n].id \in Ids \ {k}
      BY <2>1, <2>2
    <2> QED
      BY <2>1, <2>2, <2>3, <2>4 DEF MemoryKnows, FileKnows
  <1>4. \A n \in Names : FileKnows(n)'
    BY <1>3 DEF FileKnows
  <1>5. \A j \in Ids : Existing(j)' # {} => Owned(j)' \/ why'[j] # {}
    <2> SUFFICES ASSUME NEW j \in Ids \ {k}, Existing(j)' # {}, why'[j] = {}
                 PROVE  Owned(j)'
      OBVIOUS
    <2>1. Owned(j)
      BY NoLeakByKind DEF KnowsInv
    <2> PICK n \in Names : taskFile[n].id = j
      BY <2>1 DEF Owned
    <2>2. task[n].id = j
      BY Known_Ids
    <2>3. taskFile'[n].id = j
      BY <2>2
    <2> QED
      BY <2>3 DEF Owned
  <1> QED
    BY <1>1, <1>2, <1>4, <1>5, NoLeakByKindNext DEF KnowsInv

\* Blame is laid on one attempt only.
LEMMA BlameLocal ==
    ASSUME TypeOK, NEW k \in Ids, NEW r, Blame(k, r)
    PROVE  why'[k] = why[k] \cup r /\ \A j \in Ids \ {k} : why'[j] = why[j]
  BY DEF TypeOK, Blame

\* Starting, stopping, gvmd by itself and the connection test make and remove
\* nothing.
LEMMA QuietStepsKnow ==
    ASSUME IInv, KnowsInv,
           \/ \E n \in Names : StartTask(n) \/ StopTask(n)
           \/ \E ok \in BOOLEAN : ValidateGvmConn(ok)
           \/ Gvmd
    PROVE  KnowsInv'
  <1>1. ScansOwned' /\ \A j \in Ids : Existing(j)' = Existing(j)
    <2>1. GvmdTypeOK /\ ScansOwned
      BY DEF IInv, TypeOK, KnowsInv
    <2>2. ASSUME NEW n \in Names, StartTask(n) \/ StopTask(n)
          PROVE  ScansOwned' /\ \A j \in Ids : Existing(j)' = Existing(j)
      <3>1. task[n].id \in Ids
        BY <2>2, Known_Ids DEF StartTask, StopTask
      <3> QED
        BY <2>1, <2>2, <3>1, StartStopExists DEF StartTask, StopTask
    <2>3. CASE Gvmd
      BY <2>1, <2>3, GvmdStepExists DEF Gvmd
    <2>4. ASSUME NEW ok \in BOOLEAN, ValidateGvmConn(ok)
          PROVE  ScansOwned' /\ \A j \in Ids : Existing(j)' = Existing(j)
      BY <2>1, <2>4, ExistingDepends DEF ValidateGvmConn, gvars, Visible, ScansOwned
    <2> QED
      BY <2>2, <2>3, <2>4
  <1>2. UNCHANGED <<task, taskFile, nextId, job, why>>
    BY DEF StartTask, StopTask, ValidateGvmConn, Gvmd, dvars, hvars
  <1> QED
    BY <1>1, <1>2, QuietKnows

\* The periodic checks change the status of a task at most (backend_query_task,
\* backend_query_report, backend_query_result).
LEMMA ChecksKnow ==
    ASSUME IInv, KnowsInv, NEW n \in Names,
           \/ QueryTask(n)
           \/ QueryReport(n)
           \/ \E ok \in WriteOutcomes : QueryResult(n, ok)
    PROVE  KnowsInv'
  <1>1. /\ job.op = "idle" /\ UNCHANGED <<gTask, gReport, gObj, nextId, taskFile>>
        /\ task[n].chk # "DELETED"
    BY DEF QueryTask, QueryReport, QueryResult, CheckDue, Ready, Idle, gvars
  <1>2. ScansOwned' /\ \A j \in Ids : Existing(j)' = Existing(j)
    BY <1>1, ExistingDepends DEF Visible, KnowsInv, ScansOwned
  <1>3. job' = job \/ job'.op = "status"
    BY DEF QueryTask, QueryReport, QueryResult, NoJob
  <1>4. \A j \in Ids : why[j] \subseteq why'[j]
    <2>1. CASE why' = why
      BY <2>1
    <2>2. ASSUME Blame(task[n].id, {"unsaved"}), Visible(task[n].id)
          PROVE  \A j \in Ids : why[j] \subseteq why'[j]
      BY <2>2 DEF Blame, IInv, TypeOK
    <2> QED
      BY <2>1, <2>2 DEF QueryTask, QueryReport, QueryResult, hvars
  <1>5. \A m \in Names : /\ task'[m].id = task[m].id /\ task'[m].objs = task[m].objs
                         /\ task'[m].chk = "DELETED" => task[m].chk = "DELETED"
    <2>1. task \in [Names -> TaskRec] /\ task[n] \in TaskRec
      BY DEF IInv, TypeOK
    <2>2. CASE task' = task
      BY <2>2
    <2>3. ASSUME NEW t, task' = [task EXCEPT ![n] = t],
                 t.id = task[n].id, t.objs = task[n].objs, t.chk # "DELETED"
          PROVE  \A m \in Names : /\ task'[m].id = task[m].id /\ task'[m].objs = task[m].objs
                                  /\ task'[m].chk = "DELETED" => task[m].chk = "DELETED"
      BY <2>1, <2>3
    <2>4. CASE QueryTask(n)
      <3> DEFINE r == ReportOf(task[n].id, task[n].rid)
                 t == [task[n] EXCEPT !.rid = r, !.status = "READY", !.chk = "REPORT"]
      <3>1. task' = [task EXCEPT ![n] = t]
        BY <2>4 DEF QueryTask
      <3> HIDE DEF r
      <3>2. t.id = task[n].id /\ t.objs = task[n].objs /\ t.chk # "DELETED"
        BY <2>1 DEF TaskRec
      <3> HIDE DEF t
      <3> QED
        BY <2>3, <3>1, <3>2
    <2>5. CASE QueryReport(n)
      <3> DEFINE s == RunStatus(gReport[task[n].id][task[n].rid])
                 c == IF s = "RUNNING" THEN "REPORT" ELSE "RESULT"
                 t == [task[n] EXCEPT !.status = s, !.chk = c]
      <3>1. task' = [task EXCEPT ![n] = t]
        BY <2>5 DEF QueryReport
      <3>2. c # "DELETED"
        OBVIOUS
      <3> HIDE DEF s, c
      <3>3. t.id = task[n].id /\ t.objs = task[n].objs /\ t.chk # "DELETED"
        BY <2>1, <3>2 DEF TaskRec
      <3> HIDE DEF t
      <3> QED
        BY <2>3, <3>1, <3>3
    <2>6. CASE \E ok \in WriteOutcomes : QueryResult(n, ok)
      BY <2>2, <2>6 DEF QueryResult
    <2> QED
      BY <2>4, <2>5, <2>6
  <1> QED
    BY <1>1, <1>2, <1>3, <1>4, <1>5, QuietKnows

\* A task whose results are in waits for its next scan (save_status).
LEMMA SaveStatusKnows ==
    ASSUME IInv, KnowsInv, SaveStatus
    PROVE  KnowsInv'
  <1>1. /\ job.op = "status" /\ job' = NoJob
        /\ UNCHANGED <<gTask, gReport, gObj, nextId, taskFile, why>>
    BY DEF SaveStatus, gvars, hvars
  <1>2. ScansOwned' /\ \A j \in Ids : Existing(j)' = Existing(j)
    BY <1>1, ExistingDepends DEF Visible, KnowsInv, ScansOwned
  <1>3. task \in [Names -> TaskRec] /\ job.name \in Names
    BY <1>1 DEF IInv, TypeOK, JobSound
  <1>4. task' = [task EXCEPT ![job.name] = [task[job.name] EXCEPT !.chk = "TASK"]]
    BY DEF SaveStatus
  <1>5. \A m \in Names : /\ task'[m].id = task[m].id /\ task'[m].objs = task[m].objs
                         /\ task'[m].chk = "DELETED" => task[m].chk = "DELETED"
    <2>1. task[job.name] \in TaskRec
      BY <1>3
    <2>2. /\ task'[job.name].id = task[job.name].id
          /\ task'[job.name].objs = task[job.name].objs
          /\ task'[job.name].chk = "TASK"
      BY <1>3, <1>4, <2>1 DEF TaskRec
    <2>3. \A m \in Names \ {job.name} : task'[m] = task[m]
      BY <1>3, <1>4
    <2> QED
      BY <2>2, <2>3
  <1> QED
    BY <1>1, <1>2, <1>5, QuietKnows

\* A create request begins with an attempt of which nothing exists
\* (daemon_create_task).
LEMMA CreateTaskKnows ==
    ASSUME IInv, KnowsInv, NEW n \in Names, NEW ex \in SUBSET Extras, CreateTask(n, ex)
    PROVE  KnowsInv'
  <1>1. /\ job.op = "idle" /\ job.id = 0 /\ nextId <= MaxId /\ nextId' = nextId + 1
        /\ UNCHANGED <<gTask, gReport, gObj, task, taskFile, why>>
        /\ job' = [op |-> "create", name |-> n, id |-> nextId,
                   todo |-> {"target", "task"} \cup ex, objs |-> {}]
    BY DEF CreateTask, Ready, Idle, hvars, KnowsInv, JobKnows
  <1>2. PICK k \in Ids : k = nextId
    BY <1>1 DEF IInv, TypeOK
  <1>3. \A j \in Ids : Existing(j)' = Existing(j)
    BY <1>1, ExistingDepends DEF Visible
  <1>4. Existing(k) = {}
    BY <1>2 DEF KnowsInv, FreshUnmade
  <1>5. ScansOwned' /\ FreshUnmade'
    BY <1>1, <1>2, <1>3 DEF KnowsInv, ScansOwned, FreshUnmade
  <1>6. JobKnows'
    <2>1. Existing(k)' = {} /\ job'.id = k
      BY <1>1, <1>2, <1>3, <1>4
    <2> QED
      BY <1>1, <2>1 DEF JobKnows
  <1>7. \A m \in Names : MemoryKnows(m)' /\ FileKnows(m)'
    <2> SUFFICES ASSUME NEW m \in Names PROVE MemoryKnows(m)' /\ FileKnows(m)'
      OBVIOUS
    <2>1. /\ task[m].id \in Ids \cup {0} /\ taskFile[m].id \in Ids \cup {0}
          /\ MemoryKnows(m) /\ FileKnows(m)
      BY Known_Ids DEF KnowsInv
    <2>2. ~ TakenApart(taskFile[m].id)
      BY <1>1 DEF TakenApart
    <2> QED
      BY <1>1, <1>3, <2>1, <2>2 DEF MemoryKnows, FileKnows
  <1>8. NoLeak'
    <2>1. \A j \in Ids : Owned(j) => Owned(j)'
      BY <1>1 DEF Owned
    <2> QED
      BY <1>1, <1>3, <2>1, NoLeakByKind, NoLeakByKindNext DEF KnowsInv
  <1> QED
    BY <1>5, <1>6, <1>7, <1>8 DEF KnowsInv

\* The attempt of a creation or a rollback is not known under any name.
LEMMA JobUnknown ==
    ASSUME IInv, job.op \in {"create", "write", "rollback"}
    PROVE  /\ up /\ job.name \in Names /\ job.id \in Ids /\ job.id < nextId
           /\ \A n \in Names : task[n].id # job.id /\ taskFile[n].id # job.id
           /\ job.objs \in SUBSET Kinds /\ job.todo \in SUBSET Kinds /\ job \in JobRec
  <1>1. up /\ job.name \in Names /\ job.id \in 1..nextId - 1 /\ job.id \notin acked
    BY DEF IInv, JobSound
  <1>2. \A n \in Names : taskFile[n].id # job.id /\ task[n].id # job.id
    <2>1. job.id # 0
      BY <1>1
    <2>2. \A n \in Names : taskFile[n].id = 0 \/ taskFile[n].id \in acked
      BY DEF IInv, IdsSound
    <2> QED
      BY <1>1, <2>1, <2>2, Known_Ids
  <1>3. job \in JobRec /\ nextId \in 1..MaxId + 1
    BY DEF IInv, TypeOK
  <1> QED
    BY <1>1, <1>2, <1>3 DEF JobRec

\* A failed creation takes back what it made, if it made anything.
LEMMA ToRollbackIs ==
    ASSUME job \in JobRec, NEW objs, job' = ToRollback(objs)
    PROVE  IF objs = {} THEN job' = NoJob
           ELSE /\ job'.op = "rollback" /\ job'.id = job.id
                /\ job'.todo = objs /\ job'.objs = objs
  BY DEF ToRollback, JobRec

\* A creation call makes one object, and a failed one is known to have made none
\* or is blamed (gvm_create_target and the calls after it).
LEMMA CreateObjKnows ==
    ASSUME IInv, KnowsInv, NEW kind \in Kinds, NEW out \in Outcomes, CreateObj(kind, out)
    PROVE  KnowsInv'
  <1> PICK k \in Ids : k = job.id
    BY JobUnknown DEF CreateObj
  <1> DEFINE made == job.objs \cup {kind}
             left == job.todo \ {kind}
             done == out = "ok" /\ CanCreate(kind, k)
  <1>1. /\ job.op = "create" /\ kind \in job.todo
        /\ UNCHANGED <<task, taskFile, nextId>>
    BY DEF CreateObj, IsFirst
  <1>2. /\ up /\ k < nextId /\ job \in JobRec
        /\ \A n \in Names : task[n].id # k /\ taskFile[n].id # k
    BY <1>1, JobUnknown
  <1>3. /\ Existing(k) = job.objs
        /\ {"target", "task"} \subseteq job.objs \cup job.todo
    BY <1>1 DEF KnowsInv, JobKnows
  <1>4. /\ ScansOwned'
        /\ \A j \in Ids \ {k} : Existing(j)' = Existing(j)
        /\ done => Existing(k)' = made
        /\ ~ done /\ out # "lost" => Existing(k)' = job.objs
    <2>1. GvmdTypeOK /\ ScansOwned
      BY DEF IInv, TypeOK, KnowsInv
    <2>2. CASE out # "fail" /\ CanCreate(kind, k)
      <3>1. GvmdCreate(kind, k)
        BY <2>2 DEF CreateObj
      <3> QED
        BY <1>3, <2>1, <2>2, <3>1, CreateExists DEF Outcomes
    <2>3. CASE ~ (out # "fail" /\ CanCreate(kind, k))
      <3>1. UNCHANGED <<gTask, gReport, gObj>>
        BY <2>3 DEF CreateObj, gvars
      <3>2. \A j \in Ids : Existing(j)' = Existing(j)
        BY <3>1, ExistingDepends DEF Visible
      <3> QED
        BY <1>3, <2>1, <2>3, <3>1, <3>2 DEF ScansOwned
    <2> QED
      BY <2>2, <2>3
  <1>5. /\ \A j \in Ids \ {k} : why'[j] = why[j]
        /\ out = "lost" => why'[k] # {}
    <2>1. CASE out = "lost"
      <3>1. TypeOK /\ Blame(k, {"lost"})
        BY <2>1 DEF CreateObj, IInv
      <3> QED
        BY <3>1, BlameLocal
    <2>2. CASE out # "lost"
      BY <2>2 DEF CreateObj
    <2> QED
      BY <2>1, <2>2
  <1>6. /\ job'.id \in {0, k} /\ JobKnows'
        /\ job'.id = 0 => ~ done /\ job.objs = {}
    <2>1. CASE done
      <3>1. job' = [job EXCEPT !.op = IF left = {} THEN "write" ELSE "create",
                               !.todo = left, !.objs = made]
        BY <2>1 DEF CreateObj
      <3>2. /\ job'.op = IF left = {} THEN "write" ELSE "create"
            /\ job'.id = k /\ job'.todo = left /\ job'.objs = made
        BY <1>2, <3>1 DEF JobRec
      <3>3. {"target", "task"} \subseteq made \cup left
        BY <1>3
      <3>4. Existing(k)' = made
        BY <1>4, <2>1
      <3> HIDE DEF made, left, done
      <3>5. JobKnows'
        BY <3>2, <3>3, <3>4 DEF JobKnows
      <3> QED
        BY <3>2, <3>5
    <2>2. CASE ~ done
      <3>1. job' = ToRollback(job.objs)
        BY <2>2 DEF CreateObj
      <3>2. why'[k] = {} => Existing(k)' = job.objs
        BY <1>4, <1>5, <2>2
      <3>3. CASE job.objs = {}
        <4>1. job' = NoJob
          BY <1>2, <3>1, <3>3, ToRollbackIs
        <4> QED
          BY <2>2, <3>3, <4>1 DEF JobKnows, NoJob
      <3>4. CASE job.objs # {}
        <4>1. job'.op = "rollback" /\ job'.id = k /\ job'.todo = job.objs
          BY <1>2, <3>1, <3>4, ToRollbackIs
        <4> QED
          BY <3>2, <4>1 DEF JobKnows
      <3> QED
        BY <3>3, <3>4
    <2> QED
      BY <2>1, <2>2
  <1>7. Existing(k)' # {} => Owned(k)' \/ why'[k] # {}
    BY <1>4, <1>5, <1>6 DEF Owned
  <1> QED
    BY <1>1, <1>2, <1>4, <1>5, <1>6, <1>7, LocalKnows

\* The new task is entered with all that was made for it; when it cannot be
\* written all of that is taken back (createTaskRelationFiles).
LEMMA CreateWriteKnows ==
    ASSUME IInv, KnowsInv, NEW ok \in WriteOutcomes, CreateWrite(ok)
    PROVE  KnowsInv'
  <1> PICK k \in Ids : k = job.id
    BY JobUnknown DEF CreateWrite
  <1>1. /\ job.op = "write" /\ UNCHANGED <<gTask, gReport, gObj, nextId, why>>
    BY DEF CreateWrite, gvars
  <1>2. /\ up /\ k < nextId /\ job \in JobRec /\ job.name \in Names
        /\ \A n \in Names : task[n].id # k /\ taskFile[n].id # k
    BY <1>1, JobUnknown
  <1>3. ScansOwned' /\ \A j \in Ids : Existing(j)' = Existing(j)
    BY <1>1, ExistingDepends DEF Visible, KnowsInv, ScansOwned
  <1>4. Existing(k) = job.objs /\ {"target", "task"} \subseteq job.objs
    BY <1>1 DEF KnowsInv, JobKnows
  <1>5. CASE ok
    <2> PICK m \in Names : m = job.name
      BY <1>2
    <2>1. /\ task \in [Names -> TaskRec] /\ task[job.name].id = 0
      BY <1>1 DEF IInv, TypeOK, JobSound
    <2>2. /\ task' = [task EXCEPT ![job.name] = NewTask(k, job.objs)]
          /\ taskFile' = [n \in Names |-> [id |-> task'[n].id, objs |-> task'[n].objs]]
          /\ job' = NoJob
      BY <1>5 DEF CreateWrite, WriteTaskFile
    <2>3. /\ task'[m].id = k /\ task'[m].objs = job.objs
          /\ task'[m].chk = "TASK"
      BY <1>2, <2>1, <2>2 DEF NewTask
    <2>4. \A n \in Names \ {m} : task'[n] = task[n]
      BY <2>1, <2>2
    <2>5. \A n \in Names : taskFile'[n].id = task'[n].id /\ taskFile'[n].objs = task'[n].objs
      BY <2>2
    <2>6. \A n \in Names : task'[n].id = k => n = m
      BY <1>2, <2>4
    <2>7. MemoryKnows(m)' /\ FileKnows(m)'
      BY <1>3, <1>4, <2>3, <2>5 DEF MemoryKnows, FileKnows
    <2>8. JobKnows' /\ job'.id = 0
      BY <2>2 DEF JobKnows, NoJob
    <2>9. Owned(k)'
      BY <1>2, <2>3, <2>5 DEF Owned
    <2> QED
      BY <1>1, <1>2, <1>3, <2>1, <2>3, <2>4, <2>5, <2>6, <2>7, <2>8, <2>9, LocalKnows
  <1>6. CASE ~ ok
    <2>1. job' = ToRollback(job.objs) /\ UNCHANGED <<task, taskFile>>
      BY <1>6 DEF CreateWrite
    <2>2. job'.op = "rollback" /\ job'.id = k /\ job'.todo = job.objs
      BY <1>2, <1>4, <2>1, ToRollbackIs
    <2>3. JobKnows'
      BY <1>3, <1>4, <2>2 DEF JobKnows
    <2>4. Owned(k)'
      BY <2>2 DEF Owned
    <2> QED
      BY <1>1, <1>2, <1>3, <2>1, <2>2, <2>3, <2>4, LocalKnows
  <1> QED
    BY <1>5, <1>6

\* A rollback that met no trouble has removed what it is done with
\* (the rollback of daemon_create_task).
LEMMA RollbackObjKnows ==
    ASSUME IInv, KnowsInv, NEW kind \in Kinds, NEW out \in Outcomes, RollbackObj(kind, out)
    PROVE  KnowsInv'
  <1> PICK k \in Ids : k = job.id
    BY JobUnknown DEF RollbackObj
  <1>1. /\ job.op = "rollback" /\ kind \in job.todo
        /\ UNCHANGED <<task, taskFile, nextId>>
        /\ "task" \in job.todo => kind = "task"
    BY DEF RollbackObj, IsFirst, DeleteRank, Kinds, ObjKinds
  <1>2. /\ up /\ k < nextId /\ job \in JobRec
        /\ \A n \in Names : task[n].id # k /\ taskFile[n].id # k
    BY <1>1, JobUnknown
  <1>3. why[k] = {} => Existing(k) \subseteq job.todo
    BY <1>1 DEF KnowsInv, JobKnows
  <1>4. /\ ScansOwned'
        /\ Existing(k)' \subseteq Existing(k)
        /\ kind \in Existing(k)' /\ (kind = "task" \/ "task" \notin Existing(k))
             => Kept(kind, k, out) # {}
        /\ \A j \in Ids \ {k} : Existing(j)' = Existing(j)
    BY RemoveExists DEF RollbackObj, IInv, TypeOK, KnowsInv
  <1>5. /\ \A j \in Ids \ {k} : why'[j] = why[j]
        /\ why'[k] = why[k] \cup Kept(kind, k, out)
    BY BlameLocal DEF RollbackObj, IInv
  <1>6. why'[k] = {} => Existing(k)' \subseteq job.todo \ {kind}
    BY <1>1, <1>3, <1>4, <1>5
  <1>7. CASE job.todo = {kind}
    <2>1. job' = NoJob
      BY <1>7 DEF RollbackObj
    <2>2. JobKnows' /\ job'.id = 0
      BY <2>1 DEF JobKnows, NoJob
    <2>3. Existing(k)' # {} => why'[k] # {}
      BY <1>6, <1>7
    <2> QED
      BY <1>1, <1>2, <1>4, <1>5, <2>2, <2>3, LocalKnows
  <1>8. CASE job.todo # {kind}
    <2>1. job' = [job EXCEPT !.todo = job.todo \ {kind}]
      BY <1>8 DEF RollbackObj
    <2>2. job'.op = "rollback" /\ job'.id = k /\ job'.todo = job.todo \ {kind}
      BY <1>1, <1>2, <2>1 DEF JobRec
    <2>3. JobKnows'
      BY <1>6, <2>2 DEF JobKnows
    <2>4. Owned(k)'
      BY <2>2 DEF Owned
    <2> QED
      BY <1>1, <1>2, <1>4, <1>5, <2>2, <2>3, <2>4, LocalKnows
  <1> QED
    BY <1>7, <1>8

\* A delete request has to do with all that is left of the task, or blames the scan
\* gvmd keeps the task for or the lost answer (daemon_delete_task).
LEMMA DeleteTaskKnows ==
    ASSUME IInv, KnowsInv, NEW n \in Names, NEW out \in Outcomes, DeleteTask(n, out)
    PROVE  KnowsInv'
  <1> PICK k \in Ids : k = task[n].id
    BY Known_Ids DEF DeleteTask
  <1> DEFINE left == task[n].objs \ {"task"}
             r == Kept("task", k, out) \cup (IF out = "lost" THEN {"lost"} ELSE {})
  <1>1. /\ up /\ job.op = "idle" /\ job.id = 0 /\ out # "fail"
        /\ UNCHANGED <<task, taskFile, nextId>>
    BY DEF DeleteTask, Ready, Idle, KnowsInv, JobKnows
  <1>2. k < nextId /\ taskFile[n].id = k
    BY <1>1, Known_Ids
  <1>3. /\ ScansOwned'
        /\ Existing(k)' \subseteq Existing(k)
        /\ "task" \in Existing(k)' => Kept("task", k, out) # {}
        /\ \A j \in Ids \ {k} : Existing(j)' = Existing(j)
    <2>1. GvmdTypeOK /\ ScansOwned /\ GvmdRemove("task", k) /\ "task" \in Kinds
      BY DEF DeleteTask, GvmdRemove, IInv, TypeOK, KnowsInv, Kinds
    <2> QED
      BY <1>1, <2>1, RemoveExists
  <1>4. \A j \in Ids \ {k} : why'[j] = why[j]
    <2>1. TypeOK /\ Blame(k, r)
      BY DEF DeleteTask, IInv
    <2> QED
      BY <2>1, BlameLocal
  <1>5. why'[k] = why[k] \cup r
    <2>1. TypeOK /\ Blame(k, r)
      BY DEF DeleteTask, IInv
    <2> QED
      BY <2>1, BlameLocal
  <1>6. CASE out = "lost"
    <2>1. job' = job
      BY <1>6 DEF DeleteTask
    <2>2. "lost" \in why'[k]
      BY <1>5, <1>6
    <2>3. JobKnows'
      BY <1>1, <2>1 DEF JobKnows
    <2>4. \A m \in Names : task'[m].id = k => MemoryKnows(m)'
      BY <1>1, <1>5, <2>2 DEF MemoryKnows, KnowsInv
    <2>5. \A m \in Names : taskFile'[m].id = k => FileKnows(m)'
      BY <2>2 DEF FileKnows
    <2> QED
      BY <1>1, <1>2, <1>3, <1>4, <2>1, <2>2, <2>3, <2>4, <2>5, LocalKnows
  <1>7. CASE out # "lost"
    <2>1. /\ job'.op = IF left = {} THEN "files" ELSE "delete"
          /\ job'.id = k /\ job'.todo = left
      BY <1>7 DEF DeleteTask
    <2>2. \A m \in Names : task'[m].id = k => MemoryKnows(m)'
      BY <1>1, <1>3, <1>5 DEF MemoryKnows, KnowsInv
    <2>3. why'[k] = {} => Existing(k)' \subseteq left
      <3>1. MemoryKnows(n)
        BY DEF KnowsInv
      <3>2. why[k] = {} => Existing(k) \subseteq task[n].objs
        BY <3>1 DEF MemoryKnows
      <3> QED
        BY <1>3, <1>5, <3>2
    <2>4. JobKnows'
      <3>1. "task" \notin left
        OBVIOUS
      <3> HIDE DEF left
      <3> QED
        BY <2>1, <2>3, <3>1 DEF JobKnows
    <2>5. TakenApart(k)'
      BY <2>1 DEF TakenApart
    <2>6. \A m \in Names : taskFile'[m].id = k => FileKnows(m)'
      BY <1>1, <1>3, <1>5, <2>5 DEF FileKnows, KnowsInv
    <2>7. Owned(k)'
      BY <2>1 DEF Owned
    <2> QED
      BY <1>1, <1>2, <1>3, <1>4, <2>1, <2>2, <2>4, <2>6, <2>7, LocalKnows
  <1> QED
    BY <1>6, <1>7

\* The task a delete request takes apart is known under its name.
LEMMA JobIsKnown ==
    ASSUME IInv, job.op \in {"delete", "files"}
    PROVE  /\ up /\ job.name \in Names /\ job.id \in Ids /\ job.id < nextId
           /\ task[job.name].id = job.id /\ taskFile[job.name].id = job.id
           /\ task[job.name].chk = "TASK"
           /\ \A n \in Names \ {job.name} : task[n].id # job.id /\ taskFile[n].id # job.id
           /\ job \in JobRec /\ task \in [Names -> TaskRec]
  <1>1. /\ up /\ job.name \in Names /\ job.id \in 1..nextId - 1
        /\ task[job.name].id = job.id /\ task[job.name].chk = "TASK"
    BY DEF IInv, JobSound
  <1>2. job \in JobRec /\ task \in [Names -> TaskRec] /\ nextId \in 1..MaxId + 1
    BY DEF IInv, TypeOK
  <1>3. job.id \in Ids /\ job.id < nextId /\ job.id # 0
    BY <1>1, <1>2
  <1>4. \A n \in Names : taskFile[n].id = task[n].id
    BY <1>1, Known_Ids
  <1>5. \A n \in Names \ {job.name} : taskFile[n].id # job.id
    BY <1>1, <1>3, <1>4, Known_Ids
  <1> QED
    BY <1>1, <1>2, <1>3, <1>4, <1>5

\* What a delete request forgets of a task is gone (gvm_delete_target and the calls
\* after it).
LEMMA DeleteObjKnows ==
    ASSUME IInv, KnowsInv, NEW kind \in Kinds, NEW out \in Outcomes, DeleteObj(kind, out)
    PROVE  KnowsInv'
  <1>1. /\ job.op = "delete" /\ kind \in job.todo /\ UNCHANGED <<taskFile, nextId>>
    BY DEF DeleteObj, IsFirst
  <1> PICK k \in Ids : k = job.id
    BY <1>1, JobIsKnown
  <1> PICK n \in Names : n = job.name
    BY <1>1, JobIsKnown
  <1>2. /\ up /\ k < nextId /\ job \in JobRec /\ task \in [Names -> TaskRec]
        /\ task[n].id = k /\ taskFile[n].id = k /\ task[n].chk = "TASK"
        /\ \A m \in Names \ {n} : task[m].id # k /\ taskFile[m].id # k
    BY <1>1, JobIsKnown
  <1>3. /\ kind # "task" /\ "task" \notin job.todo
        /\ why[k] = {} => Existing(k) \subseteq job.todo
    BY <1>1 DEF KnowsInv, JobKnows
  <1>4. /\ ScansOwned'
        /\ Existing(k)' \subseteq Existing(k)
        /\ kind \in Existing(k)' /\ "task" \notin Existing(k) => Kept(kind, k, out) # {}
        /\ \A j \in Ids \ {k} : Existing(j)' = Existing(j)
    BY RemoveExists DEF DeleteObj, IInv, TypeOK, KnowsInv
  <1>5. /\ \A j \in Ids \ {k} : why'[j] = why[j]
        /\ why'[k] = why[k] \cup Kept(kind, k, out)
    BY BlameLocal DEF DeleteObj, IInv
  <1>6. why'[k] = {} => Existing(k)' \subseteq job.todo \ {kind}
    BY <1>3, <1>4, <1>5
  <1>7. /\ task'[n].id = k /\ task'[n].chk = "TASK"
        /\ task'[n].objs \in {task[n].objs, task[n].objs \ {kind}}
        /\ \A m \in Names \ {n} : task'[m] = task[m]
    <2>1. CASE task' = task
      BY <1>2, <2>1
    <2>2. CASE task' = [task EXCEPT ![n].objs = @ \ {kind}]
      BY <1>2, <2>2 DEF TaskRec
    <2> QED
      BY <2>1, <2>2 DEF DeleteObj
  <1>8. \A m \in Names : task'[m].id = k => MemoryKnows(m)'
    <2>1. MemoryKnows(n)
      BY DEF KnowsInv
    <2>2. MemoryKnows(n)'
      BY <1>2, <1>4, <1>5, <1>6, <1>7, <2>1 DEF MemoryKnows
    <2> QED
      BY <1>2, <1>7, <2>2
  <1>9. /\ job'.op = IF job.todo = {kind} THEN "files" ELSE "delete"
        /\ job'.id = k /\ job'.todo = job.todo \ {kind}
    BY <1>2 DEF DeleteObj, JobRec
  <1>10. JobKnows'
    BY <1>3, <1>6, <1>9 DEF JobKnows
  <1>11. \A m \in Names : taskFile'[m].id = k => FileKnows(m)'
    <2>1. TakenApart(k)'
      BY <1>9 DEF TakenApart
    <2> QED
      BY <1>1, <1>4, <1>5, <2>1 DEF FileKnows, KnowsInv
  <1>12. Owned(k)'
    BY <1>9 DEF Owned
  <1> QED
    BY <1>1, <1>2, <1>4, <1>5, <1>7, <1>8, <1>9, <1>10, <1>11, <1>12, LocalKnows

\* A task is forgotten only when nothing is left of it or something is to blame.
LEMMA ForgetKnows ==
    ASSUME IInv, KnowsInv, up, NEW n \in Names, NEW k \in Ids, task[n].id = k,
           ForgetTask(n), UNCHANGED <<gvars, nextId, why>>,
           {job.id, job'.id} \subseteq {0, k}, JobKnows',
           why[k] = {} => Existing(k) = {}
    PROVE  KnowsInv'
  <1>1. task \in [Names -> TaskRec] /\ k < nextId
        /\ \A m \in Names \ {n} : task[m].id # k
    <2>1. \A m \in Names : taskFile[m].id = task[m].id
      BY Known_Ids
    <2> QED
      BY <2>1, Known_Ids DEF IInv, TypeOK
  <1>2. /\ task'[n].id = 0
        /\ \A m \in Names \ {n} : task'[m] = task[m]
        /\ \A m \in Names : taskFile'[m].id = task'[m].id /\ taskFile'[m].objs = task'[m].objs
    BY <1>1, NoTaskType DEF ForgetTask, WriteTaskFile
  <1>3. \A m \in Names : task'[m].id # k /\ taskFile'[m].id # k
    BY <1>1, <1>2
  <1>4. ScansOwned' /\ \A j \in Ids : Existing(j)' = Existing(j)
    BY ExistingDepends DEF Visible, KnowsInv, ScansOwned, gvars
  <1> QED
    BY <1>1, <1>2, <1>3, <1>4, LocalKnows

\* A delete request ends with the task forgotten, or marked and blamed
\* (delTaskRelationFiles).
LEMMA DeleteFilesKnows ==
    ASSUME IInv, KnowsInv, NEW ok \in WriteOutcomes, DeleteFiles(ok)
    PROVE  KnowsInv'
  <1>1. /\ job.op = "files" /\ job' = NoJob
        /\ UNCHANGED <<gTask, gReport, gObj, gName, nextId>>
    BY DEF DeleteFiles, gvars
  <1> PICK k \in Ids : k = job.id
    BY <1>1, JobIsKnown
  <1> PICK n \in Names : n = job.name
    BY <1>1, JobIsKnown
  <1>2. /\ up /\ k < nextId /\ task \in [Names -> TaskRec]
        /\ task[n].id = k /\ taskFile[n].id = k
        /\ \A m \in Names \ {n} : task[m].id # k /\ taskFile[m].id # k
    BY <1>1, JobIsKnown
  <1>3. JobKnows' /\ job'.id = 0
    BY <1>1 DEF JobKnows, NoJob
  <1>4. CASE ok
    <2>1. ForgetTask(n) /\ why' = why
      BY <1>4 DEF DeleteFiles
    <2>2. why[k] = {} => Existing(k) = {}
      BY <1>1 DEF KnowsInv, JobKnows
    <2> QED
      BY <1>1, <1>2, <1>3, <2>1, <2>2, ForgetKnows DEF gvars
  <1>5. CASE ~ ok
    <2>1. /\ Blame(k, {"unsaved"}) /\ TypeOK /\ taskFile' = taskFile
          /\ task' = [task EXCEPT ![n].chk = "DELETED"]
      BY <1>5 DEF DeleteFiles, IInv
    <2>2. "unsaved" \in why'[k] /\ \A j \in Ids \ {k} : why'[j] = why[j]
      BY <2>1, BlameLocal
    <2>3. task'[n].id = k /\ \A m \in Names \ {n} : task'[m] = task[m]
      BY <1>2, <2>1 DEF TaskRec
    <2>4. ScansOwned' /\ \A j \in Ids : Existing(j)' = Existing(j)
      BY <1>1, ExistingDepends DEF Visible, KnowsInv, ScansOwned
    <2>5. \A m \in Names : /\ task'[m].id = k => MemoryKnows(m)'
                           /\ taskFile'[m].id = k => FileKnows(m)'
      BY <2>2 DEF MemoryKnows, FileKnows
    <2> QED
      BY <1>1, <1>2, <1>3, <2>1, <2>2, <2>3, <2>4, <2>5, LocalKnows
  <1> QED
    BY <1>4, <1>5

\* A marked task is blamed already (runGvmChecks on a task marked as deleted).
LEMMA RetryDeleteKnows ==
    ASSUME IInv, KnowsInv, NEW n \in Names, RetryDelete(n)
    PROVE  KnowsInv'
  <1>1. /\ up /\ job.op = "idle" /\ job.id = 0 /\ job' = job
        /\ n \in runq /\ task[n].chk = "DELETED"
        /\ ForgetTask(n) /\ UNCHANGED <<gvars, nextId, why>>
    BY DEF RetryDelete, CheckDue, Ready, Idle, hvars, KnowsInv, JobKnows
  <1> PICK k \in Ids : k = task[n].id
    BY <1>1, Known_Ids DEF IInv, StoreDurable
  <1>2. why[k] # {}
    BY <1>1 DEF KnowsInv, MemoryKnows
  <1>3. JobKnows'
    BY <1>1 DEF JobKnows
  <1> QED
    BY <1>1, <1>2, <1>3, ForgetKnows

\* A crash blames what the job under way may have left.
LEMMA CrashKnows ==
    ASSUME IInv, KnowsInv, Crash
    PROVE  KnowsInv'
  <1> DEFINE busy == job.op \in {"create", "write", "rollback", "delete", "files"}
  <1>1. /\ up /\ job' = NoJob /\ task' = [n \in Names |-> NoTask]
        /\ UNCHANGED <<gTask, gReport, gObj, taskFile, nextId>>
    BY DEF Crash, gvars
  <1>2. /\ \A j \in Ids : why[j] \subseteq why'[j]
        /\ busy => job.id \in Ids /\ "crash" \in why'[job.id]
    <2>1. CASE busy
      <3>1. job.id \in Ids /\ TypeOK
        BY <2>1, JobUnknown, JobIsKnown DEF IInv
      <3>2. Blame(job.id, {"crash"})
        BY <2>1 DEF Crash
      <3> QED
        BY <3>1, <3>2 DEF Blame, TypeOK
    <2>2. CASE ~ busy
      BY <2>2 DEF Crash
    <2> QED
      BY <2>1, <2>2
  <1>3. ScansOwned' /\ FreshUnmade' /\ \A j \in Ids : Existing(j)' = Existing(j)
    <2>1. \A j \in Ids : Existing(j)' = Existing(j)
      BY <1>1, ExistingDepends DEF Visible
    <2> QED
      BY <1>1, <2>1 DEF KnowsInv, ScansOwned, FreshUnmade
  <1>4. JobKnows'
    BY <1>1 DEF JobKnows, NoJob
  <1>5. \A n \in Names : MemoryKnows(n)'
    BY <1>1, NoTaskType DEF MemoryKnows
  <1>6. \A n \in Names : FileKnows(n)'
    <2> SUFFICES ASSUME NEW n \in Names PROVE FileKnows(n)'
      OBVIOUS
    <2>1. FileKnows(n) /\ taskFile[n].id \in Ids \cup {0}
      BY Known_Ids DEF KnowsInv
    <2>2. TakenApart(taskFile[n].id) => "crash" \in why'[taskFile[n].id]
      BY <1>2 DEF TakenApart
    <2> QED
      BY <1>1, <1>2, <1>3, <2>1, <2>2 DEF FileKnows
  <1>7. \A k \in Ids : Existing(k)' # {} => Owned(k)' \/ why'[k] # {}
    <2> SUFFICES ASSUME NEW k \in Ids, Existing(k)' # {}, why'[k] = {}
                 PROVE  Owned(k)'
      OBVIOUS
    <2>1. Owned(k)
      BY <1>2, <1>3, NoLeakByKind DEF KnowsInv
    <2>2. CASE job.id = k
      <3>1. job.op = "status"
        BY <1>2, <2>2 DEF KnowsInv, JobKnows, IInv, TypeOK, JobRec, JobOps
      <3>2. job.name \in Names /\ taskFile[job.name].id = k
        BY <1>1, <2>2, <3>1, Known_Ids DEF IInv, JobSound
      <3> QED
        BY <1>1, <3>2 DEF Owned
    <2> QED
      BY <1>1, <2>1, <2>2 DEF Owned
  <1> QED
    BY <1>3, <1>4, <1>5, <1>6, <1>7, NoLeakByKindNext DEF KnowsInv

\* A restart knows what the task file knows (readTaskFile).
LEMMA RestartKnows ==
    ASSUME IInv, KnowsInv, Restart
    PROVE  KnowsInv'
  <1>1. UNCHANGED <<gTask, gReport, gObj, job, taskFile, nextId, why>>
    BY DEF Restart, gvars, hvars
  <1>2. ScansOwned' /\ \A j \in Ids : Existing(j)' = Existing(j)
    BY <1>1, ExistingDepends DEF Visible, KnowsInv, ScansOwned
  <1>3. FreshUnmade'
    BY <1>1, <1>2 DEF KnowsInv, FreshUnmade
  <1>4. JobKnows'
    <2>1. job.op = "idle"
      BY DEF Restart, IInv, JobSound
    <2> QED
      BY <1>1, <2>1 DEF KnowsInv, JobKnows
  <1>5. \A n \in Names : FileKnows(n)'
    <2> SUFFICES ASSUME NEW n \in Names PROVE FileKnows(n)'
      OBVIOUS
    <2>1. FileKnows(n) /\ taskFile[n].id \in Ids \cup {0}
      BY Known_Ids DEF KnowsInv
    <2> QED
      BY <1>1, <1>2, <2>1 DEF FileKnows, TakenApart
  <1>6. \A n \in Names : MemoryKnows(n)'
    <2> SUFFICES ASSUME NEW n \in Names, task'[n].id # 0 PROVE MemoryKnows(n)'
      BY DEF MemoryKnows
    <2>1. n \in Known
      BY NoTaskType DEF Restart
    <2>2. taskFile[n].id \in Ids
      BY <2>1, Known_Ids DEF Known
    <2>3. /\ task'[n].id = taskFile[n].id /\ task'[n].objs = taskFile[n].objs
          /\ task'[n].chk = stFile[taskFile[n].id].chk
      BY <2>1 DEF Restart
    <2>4. task'[n].chk # "DELETED"
      BY <2>2, <2>3 DEF IInv, MarkUnsaved
    <2>5. FileKnows(n)
      BY DEF KnowsInv
    <2> QED
      BY <1>1, <1>2, <2>2, <2>3, <2>4, <2>5 DEF MemoryKnows, FileKnows
  <1>7. NoLeak'
    BY <1>1, <1>2, NoLeakByKind, NoLeakByKindNext DEF KnowsInv, Owned
  <1> QED
    BY <1>2, <1>3, <1>4, <1>5, <1>6, <1>7 DEF KnowsInv

\* Every step keeps what is known.
LEMMA NextKnows == IInv /\ KnowsInv /\ [Next]_vars => KnowsInv'
  <1> SUFFICES ASSUME IInv, KnowsInv, [Next]_vars PROVE KnowsInv'
    OBVIOUS
  <1>1. ASSUME NEW n \in Names, Request(n)
        PROVE  KnowsInv'
    BY <1>1, CreateTaskKnows, DeleteTaskKnows, QuietStepsKnow DEF Request
  <1>2. ASSUME NEW n \in Names, Check(n)
        PROVE  KnowsInv'
    BY <1>2, ChecksKnow, RetryDeleteKnows DEF Check
  <1>3. CASE CreateStep
    BY <1>3, CreateObjKnows, RollbackObjKnows, CreateWriteKnows DEF CreateStep
  <1>4. CASE DeleteStep
    BY <1>4, DeleteObjKnows, DeleteFilesKnows DEF DeleteStep
  <1>5. CASE ValidateGvmConn(TRUE) \/ ValidateGvmConn(FALSE) \/ Gvmd
    BY <1>5, QuietStepsKnow
  <1>6. CASE UNCHANGED vars
    <2>1. /\ UNCHANGED <<gTask, gReport, gObj, nextId, taskFile, task, job, why>>
      BY <1>6 DEF vars, gvars, dvars, hvars
    <2>2. ScansOwned' /\ \A j \in Ids : Existing(j)' = Existing(j)
      BY <2>1, ExistingDepends DEF Visible, KnowsInv, ScansOwned
    <2> QED
      BY <2>1, <2>2, QuietKnows
  <1> QED
    BY <1>1, <1>2, <1>3, <1>4, <1>5, <1>6, SaveStatusKnows, CrashKnows, RestartKnows DEF Next

\* KnowsInv is an invariant, on top of IInv.
LEMMA SpecKnows == Spec => []KnowsInv
  <1>1. Spec => []IInv
    BY SpecIInv
  <1>2. Init => KnowsInv
    BY InitKnows
  <1>3. IInv /\ KnowsInv /\ [Next]_vars => KnowsInv'
    BY NextKnows
  <1> QED
    BY <1>1, <1>2, <1>3, PTL DEF Spec

----------------------------------------------------------------------------
(* The properties                                                          *)

\* Rollback and delete leave nothing behind in gvmd that belongs to no known task,
\* unless a call failed, its answer was lost, the daemon crashed, a write failed or
\* gvmd was scanning the task (daemon_create_task, daemon_delete_task).
THEOREM NothingLeaks == Spec => []NoLeak
  <1>1. KnowsInv => NoLeak
    BY DEF KnowsInv
  <1> QED
    BY <1>1, SpecKnows, PTL

\* A task the daemon offers to its clients exists in gvmd with its target, but for
\* the traces of a lost answer, a crash or a failed write (createData, readTaskFile).
THEOREM NothingDangles == Spec => []NoDangling
  <1>1. IInv /\ KnowsInv => NoDangling
    <2> SUFFICES ASSUME IInv, KnowsInv, NEW n \in Names, NEW k, k = task[n].id, k # 0,
                        job.op \notin {"delete", "files"},
                        why[k] \cap {"lost", "crash", "unsaved"} = {}
                 PROVE  Visible(k) /\ <<"target", k>> \in gObj
      BY DEF NoDangling
    <2>1. up
      BY NoTaskType DEF IInv, MemorySound
    <2>2. taskFile[n].id = k
      BY <2>1, Known_Ids
    <2>3. FileKnows(n)
      BY DEF KnowsInv
    <2>4. {"target", "task"} \subseteq Existing(k)
      BY <2>2, <2>3 DEF FileKnows, TakenApart
    <2> QED
      BY <2>4 DEF Existing
  <1> QED
    BY <1>1, SpecIInv, SpecKnows, PTL

=============================================================================
