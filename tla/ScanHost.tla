------------------------------ MODULE ScanHost ------------------------------
(***************************************************************************)
(* The process of openvas-scanner that scans one host (attack_host): the   *)
(* scheduler hands it plugins by category and dependency, it starts each   *)
(* one as a process of its own in a table of slots, kills those that       *)
(* exceed their time, and ends early when the scan is stopped, the host is *)
(* found dead, the parent is gone or fork fails too often.                 *)
(*                                                                         *)
(* The order of plugins within a category is left open, and so is the time *)
(* limit of each: an alive process may become overdue at any moment.  Time *)
(* limits are positive, and a status message is always sent.               *)
(***************************************************************************)
EXTENDS Integers, FiniteSets, FiniteSetsExt

CONSTANTS
    Plugins,            \* the plugins of the scan
    Category,           \* plugin -> ACT_INIT .. ACT_END
    Deps,               \* plugin -> the set of plugins it depends on
    Exclusive,          \* pairs {p, q} that need one port of non_simult_ports
    None,               \* an empty slot
    MaxProcesses,       \* MAX_PROCESSES
    MaxChecks,          \* preference max_checks
    MaxForkRetries      \* MAX_FORK_RETRIES

\* nvt_category
ACT_INIT == 0
ACT_SCANNER == 1
ACT_SETTINGS == 2
ACT_GATHER_INFO == 3
ACT_ATTACK == 4
ACT_MIXED_ATTACK == 5
ACT_DENIAL == 7
ACT_KILL_HOST == 8
ACT_FLOOD == 9
ACT_END == 10

Categories == ACT_INIT .. ACT_END
Slots == 1 .. MaxProcesses

\* The plugins of W are on ways down from q: each one but q is one that a plugin
\* of W depends on.
WaysDown(W, q) == q \in W /\ \A d \in W \ {q} : \E p \in W : d \in Deps[p]

\* The plugins each one needs, directly or through others, and itself.
Needs == [q \in Plugins |-> {p \in Plugins : \E W \in SUBSET Plugins : WaysDown(W, q) /\ p \in W}]

ASSUME PluginAssumption ==
    /\ Category \in [Plugins -> Categories]
    /\ Deps \in [Plugins -> SUBSET Plugins]
    \* check_dependency_cycles refuses a scan with a cycle.
    /\ \A p \in Plugins : \A d \in Deps[p] : p \notin Needs[d]
    /\ None \notin Plugins
ASSUME LimitAssumption ==
    /\ MaxProcesses \in Nat \ {0, 1}
    /\ MaxChecks \in Nat \ {0}
    /\ MaxForkRetries \in Nat \ {0}

VARIABLES
    state,      \* plugin -> running_state
    slot,       \* processes[]: slot -> the plugin of its process, or None
    num,        \* num_running_processes
    max,        \* max_running_processes
    phase,      \* scheduler_phase
    stopped,    \* sched->stopped
    pc,         \* where attack_host is
    cur,        \* the plugin it launches
    retries,    \* forks_retry
    alive,      \* slots whose process has not ended
    overdue,    \* slots whose process is alive beyond its time
    stop,       \* global_scan_stop: the stop signal has come
    dead,       \* Host/dead in the knowledge base of the host
    parent      \* the parent process is alive

svars == <<state, max, phase, stopped>>
pvars == <<slot, num, alive, overdue>>
evars == <<stop, dead, parent>>
vars == <<svars, pvars, evars, pc, cur, retries>>

Phases == 0 .. 5

\* Types; checked as a part of TableSound.
TypeOK ==
    /\ state \in [Plugins -> {"unrun", "running", "done"}]
    /\ slot \in [Slots -> Plugins \cup {None}]
    /\ num \in 0 .. MaxProcesses
    /\ max \in {1, MaxChecks, MaxProcesses - 1}
    /\ phase \in Phases
    /\ pc \in {"top", "pick", "launch", "keys", "slot", "port", "fork", "status", "free",
               "last", "reap", "end"}
    /\ cur \in Plugins \cup {None}
    /\ retries \in 0 .. MaxForkRetries
    /\ alive \subseteq Slots
    /\ overdue \subseteq alive
    /\ {stopped, stop, dead, parent} \subseteq BOOLEAN

-----------------------------------------------------------------------------
(* The table of processes (pluginlaunch.c).                                *)

\* A plugin has been handed to attack_host and has neither a process yet nor
\* been passed over.
Launching == pc \in {"launch", "keys", "slot", "port", "fork"}

Taken == {s \in Slots : slot[s] # None}

InSlots(S) == {slot[s] : s \in S}

\* state with the plugins of P done.
Done(P) == [p \in Plugins |-> IF p \in P THEN "done" ELSE state[p]]

Free(S) == [s \in Slots |-> IF s \in S THEN None ELSE slot[s]]

\* Processes seen dead: their slots are not free yet.
Gone == Taken \ alive

\* Variant: the count is not lowered with a freed slot.
UpdateProcesses_KeepNum ==
    /\ slot' = Free(Gone)
    /\ num' = num
    /\ state' = Done(InSlots(Gone))
    /\ alive' = alive \ overdue
    /\ overdue' = {}

\* Variant: a process that takes too long is left alone.
UpdateProcesses_NoKill ==
    /\ slot' = Free(Gone)
    /\ num' = num - Cardinality(Gone)
    /\ state' = Done(InSlots(Gone))
    /\ UNCHANGED <<alive, overdue>>

\* update_running_processes: slots of dead processes are freed, processes that
\* took too long are killed; their slots are freed when they are seen dead.
UpdateProcesses ==
    /\ slot' = Free(Gone)
    /\ num' = num - Cardinality(Gone)
    /\ state' = Done(InSlots(Gone))
    /\ alive' = alive \ overdue
    /\ overdue' = {}

\* pluginlaunch_stop: all processes are killed, their plugins done.
KillAll(st) ==
    /\ slot' = Free(Taken)
    /\ num' = num - Cardinality(Taken)
    /\ alive' = {}
    /\ overdue' = {}
    /\ state' = st

NoKill(st) == state' = st /\ UNCHANGED pvars

\* scan_is_stopped, with st the states it leaves for plugins without a process.
IfStopped(st) == IF stop THEN KillAll(st) ELSE NoKill(state)

-----------------------------------------------------------------------------
(* The scheduler (pluginscheduler.c).                                      *)

\* The categories of the phases 0, 1, ...
CategoriesOf(ph) ==
    CASE ph = 0 -> ACT_INIT .. ACT_INIT
      [] ph = 1 -> ACT_SCANNER .. ACT_SCANNER
      [] ph = 2 -> ACT_SETTINGS .. ACT_GATHER_INFO
      [] ph = 3 -> ACT_ATTACK .. ACT_FLOOD
      [] ph = 4 -> ACT_END .. ACT_END
      [] OTHER -> {}

Of(C) == {p \in Plugins : Category[p] \in C}

Unfinished(C) == {p \in Of(C) : state[p] # "done"}

\* Variant: running plugins do not hold a phase.
NextPhase_NoWait ==
    Min({ph \in phase .. 4 : \E p \in Of(CategoriesOf(ph)) : state[p] = "unrun"} \cup {5})

\* The first phase from the present one on that is not through.
NextPhase == Min({ph \in phase .. 4 : Unfinished(CategoriesOf(ph)) # {}} \cup {5})

\* plugins_next_unrun: what the search of a list can return, in any order of it.
\* A plugin that waits for others stands for what is to be started of those.
NextUnrun(P) ==
    {p \in Plugins :
        /\ \A d \in Deps[p] : state[d] = "done"
        /\ \E q \in P : \E W \in SUBSET Needs[q] :
              p \in W /\ WaysDown(W, q) /\ \A r \in W : state[r] = "unrun"}

\* Categories whose plugins are to run without others.
Alone == {ACT_SCANNER, ACT_KILL_HOST, ACT_FLOOD, ACT_DENIAL}

\* get_next_in_range: c is the first category of the phase that has a plugin to
\* start.
FirstCategory(ph, c) ==
    /\ NextUnrun(Of({c})) # {}
    /\ \A b \in CategoriesOf(ph) : b < c => NextUnrun(Of({b})) = {}

\* Variant: the limit is never lowered.
MaxFor_NeverAlone(ph, c) == IF c > Min(CategoriesOf(ph)) \/ ph > phase THEN MaxChecks ELSE max

\* A category without a plugin to start allows parallel checks again, so does
\* every phase that is through; a first category that is not to run alone
\* leaves the limit as it was.
MaxFor(ph, c) ==
    IF c \in Alone THEN 1 ELSE
    IF c > Min(CategoriesOf(ph)) \/ ph > phase THEN MaxChecks ELSE max

\* plugins_scheduler_stop: what it marks as done, the first time.
StoppedPlugins == IF stopped THEN {} ELSE Of(Categories \ {ACT_END})

-----------------------------------------------------------------------------
(* attack_host.                                                            *)

Init ==
    /\ state = [p \in Plugins |-> "unrun"]
    /\ slot = [s \in Slots |-> None]
    /\ num = 0
    \* pluginlaunch_init lowers the limit to the size of the table, but not
    \* the limit that pluginlaunch_enable_parallel_checks returns to.
    /\ max = IF MaxChecks >= MaxProcesses THEN MaxProcesses - 1 ELSE MaxChecks
    /\ phase = 0
    /\ stopped = FALSE
    /\ pc = "top"
    /\ cur = None
    /\ retries = 0
    /\ alive = {}
    /\ overdue = {}
    /\ stop = FALSE
    /\ dead = FALSE
    /\ parent = TRUE

Top ==
    /\ pc = "top"
    /\ IF ~ parent
         THEN /\ KillAll(Done(InSlots(Taken)))
              /\ pc' = "end"
              /\ UNCHANGED stopped
         ELSE /\ IfStopped(Done(InSlots(Taken) \cup StoppedPlugins))
              /\ stopped' = (stopped \/ stop)
              /\ pc' = "pick"
    /\ UNCHANGED <<max, phase, cur, retries, evars>>

Pick ==
    /\ pc = "pick"
    /\ phase' = NextPhase
    /\ \/ /\ phase' = 5
          /\ pc' = "last"
          /\ max' = MaxChecks
          /\ UNCHANGED <<state, cur>>
       \* PLUG_RUNNING
       \/ /\ phase' # 5
          /\ NextUnrun(Of(CategoriesOf(phase'))) = {}
          /\ pc' = "free"
          /\ max' = MaxChecks
          /\ UNCHANGED <<state, cur>>
       \/ \E c \in CategoriesOf(phase') :
             /\ FirstCategory(phase', c)
             /\ cur' \in NextUnrun(Of({c}))
             /\ state' = [state EXCEPT ![cur'] = "running"]
             /\ max' = MaxFor(phase', c)
             /\ pc' = "launch"
    /\ UNCHANGED <<stopped, retries, pvars, evars>>

\* launch_plugin ends without a process: the plugin is done.
PassOver ==
    /\ state' = Done({cur})
    /\ pc' = "status"
    /\ UNCHANGED pvars

\* launch_plugin: a plugin that is gone from the cache is passed over, and
\* after a stop every plugin but the wrap-up ones.
Launch ==
    /\ pc = "launch"
    /\ \/ PassOver
       \/ /\ ~ stop
          /\ pc' = "keys"
          /\ UNCHANGED <<state, pvars>>
       \/ /\ stop /\ Category[cur] # ACT_END
          /\ KillAll(Done(InSlots(Taken) \cup {cur}))
          /\ pc' = "status"
       \/ /\ stop /\ Category[cur] = ACT_END
          /\ KillAll(Done(InSlots(Taken)))
          /\ pc' = "keys"
    /\ UNCHANGED <<max, phase, stopped, cur, retries, evars>>

\* launch_plugin: safe_checks, mandatory and required keys, the host is dead.
Keys ==
    /\ pc = "keys"
    /\ \/ PassOver
       \/ /\ dead
          /\ KillAll(Done(InSlots(Taken) \cup {cur}))
          /\ pc' = "end"
       \/ /\ ~ dead
          /\ pc' = "slot"
          /\ UNCHANGED <<state, pvars>>
    /\ UNCHANGED <<max, phase, stopped, cur, retries, evars>>

\* pluginlaunch_wait_for_free_process, before a launch and at the end of
\* every round.  As long as a process runs it may go on waiting, for memory
\* or load.
WaitForFree(from, to) ==
    /\ pc = from
    /\ UpdateProcesses
    /\ \/ pc' = from /\ num' > 0
       \/ pc' = to /\ num' < max
    /\ UNCHANGED <<max, phase, stopped, cur, retries, evars>>

\* next_free_process: no other plugin may run on a port of this one.
PortTaken == {s \in alive : {slot[s], cur} \in Exclusive}

WaitForPort ==
    /\ pc = "port"
    /\ IF PortTaken # {}
         THEN UpdateProcesses /\ pc' = "port"
         ELSE NoKill(state) /\ pc' = "fork"
    /\ UNCHANGED <<max, phase, stopped, cur, retries, evars>>

\* plugin_launch: a process in the first free slot.
StartProcess ==
    LET s == Min(Slots \ Taken)
    IN  /\ pc = "fork"
        /\ Taken # Slots
        /\ slot' = [slot EXCEPT ![s] = cur]
        /\ num' = num + 1
        /\ alive' = alive \cup {s}
        /\ pc' = "status"
        /\ UNCHANGED <<svars, overdue, cur, retries, evars>>

\* The launch failed: it is tried again a few times, then the host is given up
\* when fork failed, and the plugin left to the next round when no slot is free.
LaunchFails ==
    /\ pc = "fork"
    /\ \/ /\ retries < MaxForkRetries
          /\ retries' = retries + 1
          /\ NoKill([state EXCEPT ![cur] = "unrun"])
          /\ pc' = "launch"
       \/ /\ retries = MaxForkRetries
          /\ Taken = Slots
          /\ NoKill([state EXCEPT ![cur] = "unrun"])
          /\ pc' = "status"
          /\ UNCHANGED retries
       \/ /\ retries = MaxForkRetries
          /\ Taken # Slots
          /\ KillAll(Done(InSlots(Taken)))
          /\ pc' = "end"
          /\ UNCHANGED retries
    /\ UNCHANGED <<max, phase, stopped, cur, evars>>

\* Whether the status is due depends on the progress made; then the stop is
\* looked at again.
SendStatus ==
    /\ pc = "status"
    /\ NoKill(state) \/ IfStopped(Done(InSlots(Taken)))
    /\ pc' = "free"
    /\ cur' = None
    /\ UNCHANGED <<max, phase, stopped, retries, evars>>

\* pluginlaunch_wait: between two updates it waits for a child to end, without
\* a time limit.
WaitForAll ==
    /\ pc = "last"
    /\ num > 0
    /\ UpdateProcesses
    /\ pc' = IF num' > 0 THEN "reap" ELSE "last"
    /\ UNCHANGED <<max, phase, stopped, cur, retries, evars>>

Reap ==
    /\ pc = "reap"
    /\ Gone # {}
    /\ pc' = "last"
    /\ UNCHANGED <<svars, pvars, evars, cur, retries>>

Finish ==
    /\ pc = "last"
    /\ num = 0
    /\ KillAll(Done(InSlots(Taken)))
    /\ pc' = "end"
    /\ UNCHANGED <<max, phase, stopped, cur, retries, evars>>

HostStep ==
    \/ Top \/ Pick \/ Launch \/ Keys \/ StartProcess \/ LaunchFails \/ SendStatus
    \/ WaitForFree("slot", "port") \/ WaitForPort \/ WaitForFree("free", "top")
    \/ WaitForAll \/ Reap \/ Finish

-----------------------------------------------------------------------------
(* The processes of plugins, and the signals.                              *)

PluginEnds(s) ==
    /\ s \in alive
    /\ alive' = alive \ {s}
    /\ overdue' = overdue \ {s}
    /\ UNCHANGED <<svars, slot, num, evars, pc, cur, retries>>

TakesTooLong(s) ==
    /\ s \in alive \ overdue
    /\ overdue' = overdue \cup {s}
    /\ UNCHANGED <<svars, slot, num, alive, evars, pc, cur, retries>>

\* A plugin finds that the host is dead.
HostDies ==
    /\ alive # {} /\ ~ dead
    /\ dead' = TRUE
    /\ UNCHANGED <<svars, pvars, stop, parent, pc, cur, retries>>

\* handle_scan_stop_signal
StopSignal ==
    /\ pc # "end" /\ ~ stop
    /\ stop' = TRUE
    /\ UNCHANGED <<svars, pvars, dead, parent, pc, cur, retries>>

ParentDies ==
    /\ pc # "end" /\ parent
    /\ parent' = FALSE
    /\ UNCHANGED <<svars, pvars, stop, dead, pc, cur, retries>>

Next ==
    \/ HostStep
    \/ \E s \in Slots : PluginEnds(s) \/ TakesTooLong(s)
    \/ HostDies \/ StopSignal \/ ParentDies

Spec == Init /\ [][Next]_vars

\* The host process goes on when it can, and time passes: a plugin that does
\* not end is overdue some day.
FairSpec ==
    /\ Spec
    /\ WF_vars(HostStep)
    /\ \A s \in Slots : WF_vars(TakesTooLong(s))

-----------------------------------------------------------------------------
(* Properties.                                                             *)

\* The state is well-typed, the table and the count agree, every process alive has a slot, and, as long
\* as no launch had to be tried again, a plugin is marked as running exactly
\* while it has a slot or is being launched (num_running_processes and
\* running_state are kept in several places).
TableSound ==
    /\ TypeOK
    /\ num = Cardinality(Taken)
    /\ alive \subseteq Taken
    /\ pc = "end" => Taken = {}
    /\ retries = 0 =>
         \A p \in Plugins :
            (state[p] = "running") <=>
                \/ p \in InSlots(Taken)
                \/ p = cur /\ Launching

\* The slots in which a step starts a process.
Started == {s \in Slots : slot[s] = None /\ slot'[s] # None}

\* A plugin is started only when the plugins it depends on are done, and, as
\* long as no launch had to be tried again, their processes are gone
\* (plugins_next_unrun, update_running_processes, pluginlaunch_stop).
StartsAfterDeps ==
    \A s \in Started : \A d \in Deps[slot'[s]] :
        /\ state[d] = "done"
        /\ retries = 0 => d \notin InSlots(alive)

\* A plugin is started in its phase, or earlier when a plugin of the phase
\* needs it; all plugins of earlier phases are done (plugins_scheduler_next).
StartsInPhase ==
    \A s \in Started :
        /\ \E q \in Of(CategoriesOf(phase)) : slot'[s] \in Needs[q]
        /\ \A ph \in 0 .. phase - 1 : Unfinished(CategoriesOf(ph)) = {}

\* Plugins are started in the order of their dependencies and phases.
OrderKept == [][StartsAfterDeps /\ StartsInPhase]_vars

\* Two plugins that need one port never run at the same time, and in the phase
\* of the port scanners nothing is started next to another process
\* (simult_ports, pluginlaunch_disable_parallel_checks).
StartsAlone ==
    \A s \in Started :
        /\ phase = 1 => Taken = {}
        /\ \A t \in alive : {slot[t], slot'[s]} \notin Exclusive

KeptApart == [][StartsAlone]_vars

\* The scan of the host ends, whatever its plugins do, unless a launch had to
\* be tried again (time limits, the wait for a slot, for a port and for all).
HostEnds == <>(pc = "end" \/ retries > 0)

\* No plugin runs twice at a time.
LaunchedOnce ==
    \A s, t \in Taken : slot[s] = slot[t] => s = t

-----------------------------------------------------------------------------
(* The inductive invariant behind the safety properties, in parts.         *)

\* As long as no launch had to be tried again, no plugin has two processes or
\* is launched while it has one.
SlotsSound ==
    retries = 0 =>
        /\ \A s, t \in Taken : slot[s] = slot[t] => s = t
        /\ Launching => cur \notin InSlots(Taken)

\* A plugin is launched after those it depends on, in its phase or earlier
\* because one of the phase needs it, but never once its own phase is over.
LaunchSound ==
    Launching =>
        /\ cur \in Plugins
        /\ \A d \in Deps[cur] : state[d] = "done"
        /\ \E q \in Of(CategoriesOf(phase)) : cur \in Needs[q]
        /\ \A ph \in 0 .. phase - 1 : cur \notin Of(CategoriesOf(ph))

\* A phase that is over stays so.
PhasesOver == \A ph \in 0 .. phase - 1 : Unfinished(CategoriesOf(ph)) = {}

\* A port scanner waits for all processes and those of its port.
WaitSound ==
    /\ phase = 1 /\ Launching => max = 1
    /\ phase = 1 /\ pc \in {"port", "fork"} => Taken = {}
    /\ pc = "fork" => PortTaken = {}

IInv == TableSound /\ SlotsSound /\ LaunchSound /\ PhasesOver /\ WaitSound

=============================================================================
