--------------------------- MODULE ScanHost_proofs ---------------------------
(***************************************************************************)
(* Proofs about ScanHost for every set of plugins with their categories,   *)
(* dependencies and ports, and for tables of every size: the inductive     *)
(* invariant IInv, and from it that the table of processes is sound and    *)
(* that plugins are started in their order and apart.                      *)
(***************************************************************************)
EXTENDS ScanHost, FiniteSetTheorems, TLAPS

----------------------------------------------------------------------------
(* Numbers and sets.                                                       *)

\* A set of natural numbers that is not empty has a least one.
LEMMA Least ==
    ASSUME NEW S \in SUBSET Nat, S # {}
    PROVE  Min(S) \in S /\ \A i \in S : Min(S) <= i
  <1> DEFINE R == OpToRel(<, Nat)
  <1>1. PICK x \in S : \A y \in S : ~ (<<y, x>> \in R)
    BY NatLessThanWellFounded, WFMin
  <1>2. \A a, b \in Nat : a < b => <<a, b>> \in R
    <2>1. R = {ss \in Nat \X Nat : ss[1] < ss[2]}
      BY DEF OpToRel
    <2> HIDE DEF R
    <2> QED
      BY <2>1
  <1> HIDE DEF R
  <1>3. ASSUME NEW y \in S PROVE x <= y
    <2>1. ~ (y < x)
      BY <1>1, <1>2
    <2> QED
      BY <2>1
  <1> QED
    BY <1>3 DEF Min

\* Sets of slots are counted as one expects.
LEMMA Counted ==
    ASSUME NEW S \in SUBSET Slots
    PROVE  /\ IsFiniteSet(S) /\ Cardinality(S) \in 0 .. MaxProcesses
           /\ Cardinality(S) = 0 <=> S = {}
           /\ \A T \in SUBSET S : /\ Cardinality(T) \in Nat
                                  /\ Cardinality(S \ T) = Cardinality(S) - Cardinality(T)
           /\ \A s \in Slots \ S : Cardinality(S \cup {s}) = Cardinality(S) + 1
  <1>1. IsFiniteSet(Slots) /\ Cardinality(Slots) = MaxProcesses
    <2>1. /\ IsFiniteSet(1 .. MaxProcesses)
          /\ Cardinality(1 .. MaxProcesses)
                 = IF 1 > MaxProcesses THEN 0 ELSE MaxProcesses - 1 + 1
      BY LimitAssumption, FS_Interval
    <2>2. ~ (1 > MaxProcesses) /\ MaxProcesses - 1 + 1 = MaxProcesses
      BY LimitAssumption
    <2> QED
      BY <2>1, <2>2 DEF Slots
  <1>2. IsFiniteSet(S) /\ Cardinality(S) \in Nat /\ Cardinality(S) <= Cardinality(Slots)
    BY <1>1, FS_Subset, FS_CardinalityType
  <1>3. Cardinality(S) \in 0 .. MaxProcesses
    BY <1>1, <1>2, LimitAssumption
  <1>4. Cardinality(S) = 0 <=> S = {}
    BY <1>2, FS_EmptySet
  <1>5. ASSUME NEW T \in SUBSET S
        PROVE  Cardinality(T) \in Nat /\ Cardinality(S \ T) = Cardinality(S) - Cardinality(T)
    <2>1. IsFiniteSet(T) /\ Cardinality(T) \in Nat
      BY <1>2, FS_Subset, FS_CardinalityType
    <2>2. Cardinality(S \ T) = Cardinality(S) - Cardinality(S \cap T)
      BY <1>2, FS_Difference
    <2>3. S \cap T = T
      OBVIOUS
    <2> QED
      BY <2>1, <2>2, <2>3
  <1>6. \A s \in Slots \ S : Cardinality(S \cup {s}) = Cardinality(S) + 1
    BY <1>2, FS_AddElement
  <1> QED
    BY <1>2, <1>3, <1>4, <1>5, <1>6

\* A plugin needs itself, so none depends on itself (check_dependency_cycles).
LEMMA NotOnItself ==
    ASSUME NEW p \in Plugins
    PROVE  Deps[p] \subseteq Plugins /\ p \notin Deps[p]
  <1>1. Deps[p] \subseteq Plugins
    BY PluginAssumption
  <1>2. ASSUME p \in Deps[p] PROVE FALSE
    <2>1. p \notin Needs[p]
      BY <1>2, PluginAssumption
    <2>2. WaysDown({p}, p)
      BY DEF WaysDown
    <2>3. p \in Needs[p]
      <3>1. {p} \in SUBSET Plugins /\ p \in {p}
        OBVIOUS
      <3> QED
        BY <2>2, <3>1 DEF Needs
    <2> QED
      BY <2>1, <2>3
  <1> QED
    BY <1>1, <1>2

\* What the search of a list returns can be started, and is needed by one of the
\* list (plugins_next_unrun).
LEMMA Startable ==
    ASSUME NEW P \in SUBSET Plugins, NEW p \in NextUnrun(P)
    PROVE  /\ p \in Plugins /\ state[p] = "unrun"
           /\ \A d \in Deps[p] : state[d] = "done"
           /\ \E q \in P : p \in Needs[q]
  <1>1. p \in Plugins /\ \A d \in Deps[p] : state[d] = "done"
    BY DEF NextUnrun
  <1>2. PICK q \in P : \E W \in SUBSET Needs[q] :
            p \in W /\ WaysDown(W, q) /\ \A r \in W : state[r] = "unrun"
    BY DEF NextUnrun
  <1> QED
    BY <1>1, <1>2

----------------------------------------------------------------------------
(* Steps that end processes and launches.                                  *)

PCs == {"top", "pick", "launch", "keys", "slot", "port", "fork", "status", "free",
        "last", "reap", "end"}

\* What a step needs to know of the state before it.
LEMMA Before ==
    ASSUME IInv
    PROVE  /\ state \in [Plugins -> {"unrun", "running", "done"}]
           /\ slot \in [Slots -> Plugins \cup {None}] /\ None \notin Plugins
           /\ num \in Nat /\ num = Cardinality(Taken)
           /\ max \in {1, MaxChecks, MaxProcesses - 1} /\ phase \in Phases /\ pc \in PCs
           /\ cur \in Plugins \cup {None} /\ retries \in 0 .. MaxForkRetries
           /\ alive \subseteq Taken /\ overdue \subseteq alive /\ Taken \subseteq Slots
           /\ {stopped, stop, dead, parent} \subseteq BOOLEAN
           /\ pc = "end" => Taken = {}
           /\ \A s \in Taken : slot[s] \in Plugins
  <1>1. TypeOK /\ num = Cardinality(Taken) /\ alive \subseteq Taken /\ (pc = "end" => Taken = {})
    BY DEF IInv, TableSound
  <1>2. None \notin Plugins
    BY PluginAssumption
  <1>3. slot \in [Slots -> Plugins \cup {None}] /\ Taken \subseteq Slots
    BY <1>1 DEF TypeOK, Taken
  <1>4. \A s \in Taken : slot[s] \in Plugins
    BY <1>3 DEF Taken
  <1>5. num \in Nat
    BY <1>1, <1>3, Counted
  <1> QED
    BY <1>1, <1>2, <1>3, <1>4, <1>5 DEF TypeOK, PCs

\* The table after a step that only frees slots.
Shrunk ==
    /\ slot' \in [Slots -> Plugins \cup {None}]
    /\ Taken' \subseteq Taken /\ \A s \in Taken' : slot'[s] = slot[s]
    /\ num' = Cardinality(Taken') /\ num' \in 0 .. MaxProcesses
    /\ alive' \subseteq Taken' /\ overdue' \subseteq alive'

\* Freeing slots leaves the others as they are.
LEMMA FreeShrinks ==
    ASSUME IInv, NEW S \in SUBSET Taken, slot' = Free(S),
           num' = num - Cardinality(S),
           alive' \subseteq Taken \ S, overdue' \subseteq alive'
    PROVE  Shrunk /\ Taken' = Taken \ S
  <1>1. /\ slot' \in [Slots -> Plugins \cup {None}]
        /\ \A s \in Slots : slot'[s] = IF s \in S THEN None ELSE slot[s]
    BY Before DEF Free
  <1>2. Taken' = Taken \ S
    BY <1>1 DEF Taken
  <1>3. \A s \in Taken' : slot'[s] = slot[s]
    BY <1>1, <1>2 DEF Taken
  <1>4. num' = Cardinality(Taken') /\ num' \in 0 .. MaxProcesses
    <2>1. Taken \in SUBSET Slots /\ Taken \ S \in SUBSET Slots
      BY Before
    <2>2. Cardinality(Taken \ S) = Cardinality(Taken) - Cardinality(S)
      BY <2>1, Counted
    <2>3. Cardinality(Taken \ S) \in 0 .. MaxProcesses
      BY <2>1, Counted
    <2> QED
      BY <1>2, <2>2, <2>3, Before
  <1> QED
    BY <1>1, <1>2, <1>3, <1>4 DEF Shrunk

\* pluginlaunch_stop empties the table.
LEMMA Killed ==
    ASSUME IInv, NEW st, KillAll(st)
    PROVE  Shrunk /\ Taken' = {} /\ num' = 0 /\ alive' = {} /\ state' = st
  <1>1. /\ slot' = Free(Taken) /\ num' = num - Cardinality(Taken)
        /\ alive' = {} /\ overdue' = {} /\ state' = st
    BY DEF KillAll
  <1>2. Shrunk /\ Taken' = Taken \ Taken
    BY <1>1, FreeShrinks
  <1>3. num' = 0
    BY <1>1, Before
  <1> QED
    BY <1>1, <1>2, <1>3

\* update_running_processes frees the slots of processes seen dead.
LEMMA Updated ==
    ASSUME IInv, UpdateProcesses
    PROVE  Shrunk /\ Taken' = Taken \ Gone /\ state' = Done(InSlots(Gone))
  <1>1. /\ slot' = Free(Gone) /\ num' = num - Cardinality(Gone)
        /\ state' = Done(InSlots(Gone)) /\ alive' = alive \ overdue /\ overdue' = {}
    BY DEF UpdateProcesses
  <1>2. Gone \in SUBSET Taken /\ alive' \subseteq Taken \ Gone /\ overdue' \subseteq alive'
    BY <1>1, Before DEF Gone
  <1> QED
    BY <1>1, <1>2, FreeShrinks

\* Nothing happens to the table.
LEMMA Kept ==
    ASSUME IInv, UNCHANGED <<slot, num>>, alive' \subseteq alive, overdue' \subseteq alive'
    PROVE  Shrunk /\ Taken' = Taken
  <1>1. Taken' = Taken
    BY DEF Taken
  <1>2. num \in 0 .. MaxProcesses
    BY Before, Counted
  <1> QED
    BY <1>1, <1>2, Before DEF Shrunk

\* A step that ends the processes and launches of the plugins of F and begins none.
Ends(F) ==
    /\ Shrunk /\ InSlots(Taken \ Taken') \subseteq F /\ state' = Done(F)
    /\ retries = 0 => \A s \in Taken' : slot[s] \notin F
    /\ UNCHANGED <<max, phase, retries>>
    /\ pc' \in PCs /\ (pc' = "end" => Taken' = {})
    /\ cur' \in Plugins \cup {None}
    /\ Launching' => Launching /\ cur' = cur
    /\ retries = 0 /\ Launching => (Launching' <=> cur \notin F)
    /\ {stopped', stop', dead', parent'} \subseteq BOOLEAN
    /\ phase = 1 /\ pc' \in {"port", "fork"} => Taken' = {}
    /\ pc' = "fork" => \A s \in alive' : {slot[s], cur} \notin Exclusive

LEMMA EndsIInv == ASSUME IInv, NEW F, Ends(F) PROVE IInv'
  <1>0. /\ slot' \in [Slots -> Plugins \cup {None}]
        /\ Taken' \subseteq Taken /\ \A s \in Taken' : slot'[s] = slot[s]
        /\ num' = Cardinality(Taken') /\ num' \in 0 .. MaxProcesses
        /\ alive' \subseteq Taken' /\ overdue' \subseteq alive'
    BY DEF Ends, Shrunk
  <1>1. /\ state' \in [Plugins -> {"unrun", "running", "done"}]
        /\ \A p \in Plugins : state'[p] = IF p \in F THEN "done" ELSE state[p]
    BY Before DEF Ends, Done
  <1>2. /\ max' = max /\ phase' = phase /\ retries' = retries /\ pc' \in PCs
        /\ Launching' => Launching /\ cur' = cur
    BY DEF Ends
  <1>3. TypeOK'
    <2>1. cur' \in Plugins \cup {None} /\ {stopped', stop', dead', parent'} \subseteq BOOLEAN
      BY DEF Ends
    <2>2. alive' \subseteq Slots
      BY <1>0, Before
    <2> QED
      BY <1>0, <1>1, <1>2, <2>1, <2>2, Before DEF TypeOK, PCs
  <1>4. ASSUME retries = 0, NEW p \in Plugins
        PROVE  (state'[p] = "running")
                   <=> p \in InSlots(Taken)' \/ (p = cur' /\ Launching')
    <2>1. (state[p] = "running") <=> p \in InSlots(Taken) \/ (p = cur /\ Launching)
      BY <1>4 DEF IInv, TableSound
    <2>2. ASSUME state'[p] = "running", p \in InSlots(Taken) PROVE p \in InSlots(Taken)'
      <3>1. PICK s \in Taken : p = slot[s]
        BY <2>2 DEF InSlots
      <3>2. p \notin F
        BY <1>1, <2>2
      <3>3. s \in Taken'
        BY <3>1, <3>2 DEF Ends, InSlots
      <3> QED
        BY <1>0, <3>1, <3>3 DEF InSlots
    <2>3. ASSUME state'[p] = "running", p = cur, Launching PROVE p = cur' /\ Launching'
      BY <1>1, <1>2, <1>4, <2>3 DEF Ends
    <2>4. ASSUME p \in InSlots(Taken)' PROVE state'[p] = "running"
      <3>1. PICK s \in Taken' : p = slot'[s]
        BY <2>4 DEF InSlots
      <3>2. p = slot[s] /\ s \in Taken /\ p \notin F
        BY <1>0, <1>4, <3>1 DEF Ends
      <3>3. p \in InSlots(Taken)
        BY <3>2 DEF InSlots
      <3> QED
        BY <1>1, <2>1, <3>2, <3>3
    <2>5. ASSUME p = cur', Launching' PROVE state'[p] = "running"
      BY <1>1, <1>2, <1>4, <2>1, <2>5 DEF Ends
    <2>6. state'[p] = "running" => state[p] = "running"
      BY <1>1
    <2> QED
      BY <2>1, <2>2, <2>3, <2>4, <2>5, <2>6
  <1>5. TableSound'
    <2>1. pc' = "end" => Taken' = {}
      BY DEF Ends
    <2> QED
      BY <1>0, <1>2, <1>3, <1>4, <2>1 DEF TableSound
  <1>6. SlotsSound'
    <2>1. ASSUME retries = 0, NEW s \in Taken', NEW t \in Taken', slot'[s] = slot'[t] PROVE s = t
      BY <1>0, <2>1 DEF IInv, SlotsSound
    <2>2. ASSUME retries = 0, Launching' PROVE cur' \notin InSlots(Taken)'
      <3>1. cur' = cur /\ cur \notin InSlots(Taken)
        BY <1>2, <2>2 DEF IInv, SlotsSound
      <3> QED
        BY <1>0, <3>1 DEF InSlots
    <2> QED
      BY <1>2, <2>1, <2>2 DEF SlotsSound
  <1>7. LaunchSound'
    <2> SUFFICES ASSUME Launching' PROVE LaunchSound'
      BY DEF LaunchSound
    <2>1. /\ cur' = cur /\ cur \in Plugins
          /\ \A d \in Deps[cur] : state[d] = "done"
          /\ \E q \in Of(CategoriesOf(phase)) : cur \in Needs[q]
          /\ \A ph \in 0 .. phase - 1 : cur \notin Of(CategoriesOf(ph))
      BY <1>2 DEF IInv, LaunchSound
    <2>2. \A d \in Deps[cur] : state'[d] = "done"
      BY <1>1, <2>1, NotOnItself
    <2> QED
      BY <1>2, <2>1, <2>2 DEF LaunchSound
  <1>8. PhasesOver'
    BY <1>1, <1>2 DEF IInv, PhasesOver, Unfinished, Of
  <1>9. WaitSound'
    <2>1. phase = 1 /\ Launching' => max = 1
      BY <1>2 DEF IInv, WaitSound
    <2>2. phase = 1 /\ pc' \in {"port", "fork"} => Taken' = {}
      BY DEF Ends
    <2>3. ASSUME pc' = "fork" PROVE PortTaken' = {}
      <3>1. cur' = cur /\ \A s \in alive' : {slot[s], cur} \notin Exclusive
        BY <1>2, <2>3 DEF Ends, Launching
      <3>2. \A s \in alive' : slot'[s] = slot[s]
        BY <1>0
      <3> QED
        BY <3>1, <3>2 DEF PortTaken
    <2> QED
      BY <1>2, <2>1, <2>2, <2>3 DEF WaitSound
  <1> QED
    BY <1>5, <1>6, <1>7, <1>8, <1>9 DEF IInv

\* The part of Ends that speaks of the table.
TableEnds(F) ==
    /\ Shrunk /\ InSlots(Taken \ Taken') \subseteq F /\ state' = Done(F)
    /\ retries = 0 => \A s \in Taken' : slot[s] \notin F

LEMMA KillEnds ==
    ASSUME IInv, NEW F, InSlots(Taken) \subseteq F, KillAll(Done(F))
    PROVE  TableEnds(F) /\ Taken' = {}
  <1>1. Shrunk /\ Taken' = {} /\ state' = Done(F)
    BY Killed
  <1>2. InSlots(Taken \ Taken') \subseteq F
    BY <1>1 DEF InSlots
  <1> QED
    BY <1>1, <1>2 DEF TableEnds

LEMMA UpdateEnds ==
    ASSUME IInv, UpdateProcesses
    PROVE  TableEnds(InSlots(Gone)) /\ (retries = 0 /\ Launching => cur \notin InSlots(Gone))
  <1>1. Shrunk /\ Taken' = Taken \ Gone /\ state' = Done(InSlots(Gone))
    BY Updated
  <1>2. Gone \subseteq Taken
    BY DEF Gone
  <1>3. InSlots(Taken \ Taken') \subseteq InSlots(Gone)
    BY <1>1, <1>2 DEF InSlots
  <1>4. ASSUME retries = 0, NEW s \in Taken' PROVE slot[s] \notin InSlots(Gone)
    <2>1. \A t \in Gone : slot[s] # slot[t]
      BY <1>1, <1>2, <1>4 DEF IInv, SlotsSound
    <2> QED
      BY <2>1 DEF InSlots
  <1>5. retries = 0 /\ Launching => cur \notin InSlots(Gone)
    BY <1>2 DEF IInv, SlotsSound, InSlots
  <1> QED
    BY <1>1, <1>3, <1>4, <1>5 DEF TableEnds

LEMMA KeepEnds ==
    ASSUME IInv, state' = state, UNCHANGED <<slot, num>>,
           alive' \subseteq alive, overdue' \subseteq alive'
    PROVE  TableEnds({}) /\ Taken' = Taken
  <1>1. Shrunk /\ Taken' = Taken
    BY Kept
  <1>2. state' = Done({})
    BY Before DEF Done
  <1>3. InSlots(Taken \ Taken') = {}
    BY <1>1 DEF InSlots
  <1> QED
    BY <1>1, <1>2, <1>3 DEF TableEnds

LEMMA PassEnds ==
    ASSUME IInv, Launching, PassOver
    PROVE  TableEnds({cur}) /\ Taken' = Taken /\ pc' = "status"
  <1>1. state' = Done({cur}) /\ UNCHANGED pvars /\ pc' = "status"
    BY DEF PassOver
  <1>2. Shrunk /\ Taken' = Taken
    BY <1>1, Before, Kept DEF pvars
  <1>3. InSlots(Taken \ Taken') = {}
    BY <1>2 DEF InSlots
  <1>4. ASSUME retries = 0, NEW s \in Taken PROVE slot[s] # cur
    BY <1>4 DEF IInv, SlotsSound, InSlots
  <1> QED
    BY <1>1, <1>2, <1>3, <1>4 DEF TableEnds

\* What attack_host does that neither picks a plugin nor waits for its port.
LEMMA HostEndsIInv ==
    ASSUME IInv, NEW F, TableEnds(F),
           UNCHANGED <<max, phase, retries, evars>>, stopped' \in BOOLEAN,
           pc' \in PCs \ {"port", "fork"}, pc' = "end" => Taken' = {},
           cur' \in Plugins \cup {None},
           Launching' => Launching /\ cur' = cur,
           retries = 0 /\ Launching => (Launching' <=> cur \notin F)
    PROVE  IInv'
  <1>1. {stopped', stop', dead', parent'} \subseteq BOOLEAN
    BY Before DEF evars
  <1>2. Ends(F)
    BY <1>1 DEF Ends, TableEnds
  <1> QED
    BY <1>2, EndsIInv

\* A step that begins and ends nothing: neither the scheduler nor attack_host goes on.
LEMMA QuietIInv ==
    ASSUME IInv, UNCHANGED <<state, slot, num, max, phase, stopped, pc, cur, retries>>,
           alive' \subseteq alive, overdue' \subseteq alive',
           {stop', dead', parent'} \subseteq BOOLEAN
    PROVE  IInv'
  <1>1. TableEnds({}) /\ Taken' = Taken
    BY KeepEnds
  <1>2. Launching' <=> Launching
    BY DEF Launching
  <1>3. {stopped', stop', dead', parent'} \subseteq BOOLEAN
    BY Before
  <1>4. phase = 1 /\ pc' \in {"port", "fork"} => Taken' = {}
    BY <1>1 DEF IInv, WaitSound
  <1>5. pc' = "fork" => \A s \in alive' : {slot[s], cur} \notin Exclusive
    BY DEF IInv, WaitSound, PortTaken
  <1>6. Ends({})
    BY <1>1, <1>2, <1>3, <1>4, <1>5, Before DEF Ends, TableEnds
  <1> QED
    BY <1>6, EndsIInv

----------------------------------------------------------------------------
(* The steps of attack_host.                                               *)

\* A round begins: the parent is gone, or the stop is looked at (attack_host).
LEMMA TopIInv == ASSUME IInv, Top PROVE IInv'
  <1>1. /\ pc = "top" /\ ~ Launching
        /\ UNCHANGED <<max, phase, cur, retries, evars>>
    BY DEF Top, Launching
  <1>2. cur' \in Plugins \cup {None} /\ stopped \in BOOLEAN /\ stop \in BOOLEAN
    BY <1>1, Before
  <1>3. CASE ~ parent
    <2>1. KillAll(Done(InSlots(Taken))) /\ pc' = "end" /\ stopped' = stopped
      BY <1>3 DEF Top
    <2>2. TableEnds(InSlots(Taken)) /\ Taken' = {}
      BY <2>1, KillEnds
    <2>3. pc' \in PCs \ {"port", "fork"} /\ ~ Launching'
      BY <2>1 DEF PCs, Launching
    <2> QED
      BY <1>1, <1>2, <2>1, <2>2, <2>3, HostEndsIInv
  <1>4. CASE parent
    <2>1. /\ IfStopped(Done(InSlots(Taken) \cup StoppedPlugins))
          /\ stopped' = (stopped \/ stop) /\ pc' = "pick"
      BY <1>4 DEF Top
    <2>2. \E F : TableEnds(F)
      <3>1. CASE stop
        <4>1. KillAll(Done(InSlots(Taken) \cup StoppedPlugins))
          BY <2>1, <3>1 DEF IfStopped
        <4> QED
          BY <4>1, KillEnds
      <3>2. CASE ~ stop
        <4>1. state' = state /\ UNCHANGED pvars
          BY <2>1, <3>2 DEF IfStopped, NoKill
        <4> QED
          BY <4>1, KeepEnds, Before DEF pvars
      <3> QED
        BY <3>1, <3>2
    <2>3. pc' \in PCs \ {"port", "fork"} /\ ~ Launching' /\ pc' # "end" /\ stopped' \in BOOLEAN
      BY <2>1 DEF PCs, Launching
    <2> QED
      BY <1>1, <1>2, <2>2, <2>3, HostEndsIInv
  <1> QED
    BY <1>3, <1>4

\* A launch begins: passed over, or the stop is looked at (launch_plugin).
LEMMA LaunchIInv == ASSUME IInv, Launch PROVE IInv'
  <1>1. /\ pc = "launch" /\ Launching /\ cur' = cur /\ cur \in Plugins \cup {None}
        /\ UNCHANGED <<max, phase, stopped, retries, evars>> /\ stopped' \in BOOLEAN
    BY Before DEF Launch, Launching
  <1>2. retries = 0 => cur \notin InSlots(Taken)
    BY <1>1 DEF IInv, SlotsSound
  <1>3. CASE PassOver
    <2>1. TableEnds({cur}) /\ pc' = "status"
      BY <1>1, <1>3, PassEnds
    <2>2. pc' \in PCs \ {"port", "fork", "end"} /\ ~ Launching'
      BY <2>1 DEF PCs, Launching
    <2> QED
      BY <1>1, <2>1, <2>2, HostEndsIInv
  <1>4. CASE pc' = "keys" /\ UNCHANGED <<state, pvars>>
    <2>1. TableEnds({})
      BY <1>4, KeepEnds, Before DEF pvars
    <2>2. pc' \in PCs \ {"port", "fork", "end"} /\ Launching'
      BY <1>4 DEF PCs, Launching
    <2> QED
      BY <1>1, <2>1, <2>2, HostEndsIInv
  <1>5. CASE KillAll(Done(InSlots(Taken) \cup {cur})) /\ pc' = "status"
    <2>1. TableEnds(InSlots(Taken) \cup {cur})
      BY <1>5, KillEnds
    <2>2. pc' \in PCs \ {"port", "fork", "end"} /\ ~ Launching'
      BY <1>5 DEF PCs, Launching
    <2> QED
      BY <1>1, <2>1, <2>2, HostEndsIInv
  <1>6. CASE KillAll(Done(InSlots(Taken))) /\ pc' = "keys"
    <2>1. TableEnds(InSlots(Taken))
      BY <1>6, KillEnds
    <2>2. pc' \in PCs \ {"port", "fork", "end"} /\ Launching'
      BY <1>6 DEF PCs, Launching
    <2> QED
      BY <1>1, <1>2, <2>1, <2>2, HostEndsIInv
  <1> QED
    BY <1>3, <1>4, <1>5, <1>6 DEF Launch

\* The keys of a plugin and whether its host is dead (launch_plugin).
LEMMA KeysIInv == ASSUME IInv, Keys PROVE IInv'
  <1>1. /\ pc = "keys" /\ Launching /\ cur' = cur /\ cur \in Plugins \cup {None}
        /\ UNCHANGED <<max, phase, stopped, retries, evars>> /\ stopped' \in BOOLEAN
    BY Before DEF Keys, Launching
  <1>2. CASE PassOver
    <2>1. TableEnds({cur}) /\ pc' = "status"
      BY <1>1, <1>2, PassEnds
    <2>2. pc' \in PCs \ {"port", "fork", "end"} /\ ~ Launching'
      BY <2>1 DEF PCs, Launching
    <2> QED
      BY <1>1, <2>1, <2>2, HostEndsIInv
  <1>3. CASE KillAll(Done(InSlots(Taken) \cup {cur})) /\ pc' = "end"
    <2>1. TableEnds(InSlots(Taken) \cup {cur}) /\ Taken' = {}
      BY <1>3, KillEnds
    <2>2. pc' \in PCs \ {"port", "fork"} /\ ~ Launching'
      BY <1>3 DEF PCs, Launching
    <2> QED
      BY <1>1, <2>1, <2>2, HostEndsIInv
  <1>4. CASE pc' = "slot" /\ UNCHANGED <<state, pvars>>
    <2>1. TableEnds({})
      BY <1>4, KeepEnds, Before DEF pvars
    <2>2. pc' \in PCs \ {"port", "fork", "end"} /\ Launching'
      BY <1>4 DEF PCs, Launching
    <2> QED
      BY <1>1, <2>1, <2>2, HostEndsIInv
  <1> QED
    BY <1>2, <1>3, <1>4 DEF Keys

\* The wait at the end of a round, and before a launch: in the phase of the port
\* scanners no process is left after it (pluginlaunch_wait_for_free_process).
LEMMA WaitForFreeIInv ==
    ASSUME IInv, WaitForFree("slot", "port") \/ WaitForFree("free", "top")
    PROVE  IInv'
  <1>1. /\ UpdateProcesses
        /\ UNCHANGED <<max, phase, stopped, cur, retries, evars>>
        /\ stopped' \in BOOLEAN /\ cur' \in Plugins \cup {None}
    BY Before DEF WaitForFree
  <1>2. /\ TableEnds(InSlots(Gone))
        /\ retries = 0 /\ Launching => cur \notin InSlots(Gone)
    BY <1>1, UpdateEnds
  <1>3. CASE pc = "free" /\ pc' \in {"free", "top"}
    <2>1. pc' \in PCs \ {"port", "fork"} /\ ~ Launching' /\ ~ Launching /\ pc' # "end"
      BY <1>3 DEF PCs, Launching
    <2> QED
      BY <1>1, <1>2, <2>1, HostEndsIInv
  <1>4. CASE pc = "slot" /\ pc' = "slot"
    <2>1. pc' \in PCs \ {"port", "fork"} /\ Launching' /\ Launching /\ pc' # "end"
      BY <1>4 DEF PCs, Launching
    <2> QED
      BY <1>1, <1>2, <2>1, HostEndsIInv
  <1>5. CASE pc = "slot" /\ pc' = "port" /\ num' < max
    <2>1. pc' \in PCs /\ Launching' /\ Launching /\ pc' # "end" /\ pc' # "fork"
      BY <1>5 DEF PCs, Launching
    <2>2. {stopped', stop', dead', parent'} \subseteq BOOLEAN
      BY <1>1, Before DEF evars
    <2>3. ASSUME phase = 1 PROVE Taken' = {}
      <3>1. max = 1
        BY <2>1, <2>3 DEF IInv, WaitSound
      <3>2. Taken' \in SUBSET Slots /\ num' = Cardinality(Taken')
        BY <1>2, Before DEF TableEnds, Shrunk
      <3>3. num' \in Nat
        BY <3>2, Counted
      <3>4. num' = 0
        BY <1>5, <3>1, <3>3
      <3> QED
        BY <3>2, <3>4, Counted
    <2>4. Ends(InSlots(Gone))
      BY <1>1, <1>2, <2>1, <2>2, <2>3 DEF Ends, TableEnds
    <2> QED
      BY <2>4, EndsIInv
  <1> QED
    BY <1>3, <1>4, <1>5 DEF WaitForFree

\* The wait for the plugins on a port of this one (next_free_process).
LEMMA WaitForPortIInv == ASSUME IInv, WaitForPort PROVE IInv'
  <1>1. /\ pc = "port" /\ Launching
        /\ UNCHANGED <<max, phase, stopped, cur, retries, evars>>
        /\ {stopped', stop', dead', parent'} \subseteq BOOLEAN
        /\ cur' \in Plugins \cup {None}
    BY Before DEF WaitForPort, Launching, evars
  <1>2. phase = 1 => Taken = {}
    BY <1>1 DEF IInv, WaitSound
  <1>3. CASE UpdateProcesses /\ pc' = "port"
    <2>1. /\ TableEnds(InSlots(Gone))
          /\ retries = 0 => cur \notin InSlots(Gone)
      BY <1>1, <1>3, UpdateEnds
    <2>2. Taken' \subseteq Taken
      BY <2>1 DEF TableEnds, Shrunk
    <2>3. pc' \in PCs /\ Launching' /\ pc' # "end" /\ pc' # "fork"
      BY <1>3 DEF PCs, Launching
    <2>4. Ends(InSlots(Gone))
      BY <1>1, <1>2, <2>1, <2>2, <2>3 DEF Ends, TableEnds
    <2> QED
      BY <2>4, EndsIInv
  <1>4. CASE PortTaken = {} /\ NoKill(state) /\ pc' = "fork"
    <2>1. TableEnds({}) /\ Taken' = Taken /\ alive' = alive
      BY <1>4, KeepEnds, Before DEF NoKill, pvars
    <2>2. \A s \in alive' : {slot[s], cur} \notin Exclusive
      BY <1>4, <2>1 DEF PortTaken
    <2>3. pc' \in PCs /\ Launching' /\ pc' # "end"
      BY <1>4 DEF PCs, Launching
    <2>4. Ends({})
      BY <1>1, <1>2, <2>1, <2>2, <2>3 DEF Ends, TableEnds
    <2> QED
      BY <2>4, EndsIInv
  <1> QED
    BY <1>3, <1>4 DEF WaitForPort

\* A plugin whose launch failed can be started again (PLUGIN_STATUS_UNRUN).
LEMMA UnrunIInv ==
    ASSUME IInv, pc = "fork", state' = [state EXCEPT ![cur] = "unrun"],
           UNCHANGED <<pvars, max, phase, stopped, cur, evars>>,
           retries' \in 0 .. MaxForkRetries, retries' # 0, pc' \in {"launch", "status"}
    PROVE  IInv'
  <1>1. /\ Taken' = Taken /\ Launching /\ cur \in Plugins
        /\ state' \in [Plugins -> {"unrun", "running", "done"}]
        /\ \A p \in Plugins : p # cur => state'[p] = state[p]
    <2>1. Launching /\ Taken' = Taken
      BY DEF Launching, Taken, pvars
    <2>2. cur \in Plugins
      BY <2>1 DEF IInv, LaunchSound
    <2> QED
      BY <2>1, <2>2, Before
  <1>2. TableSound'
    <2>1. TypeOK'
      BY <1>1 DEF IInv, TableSound, TypeOK, pvars, evars
    <2>2. num' = Cardinality(Taken') /\ alive' \subseteq Taken' /\ pc' # "end"
      BY <1>1, Before DEF pvars
    <2> QED
      BY <2>1, <2>2 DEF TableSound
  <1>3. SlotsSound'
    BY DEF SlotsSound
  <1>4. LaunchSound'
    <2>1. /\ \A d \in Deps[cur] : state[d] = "done"
          /\ \E q \in Of(CategoriesOf(phase)) : cur \in Needs[q]
          /\ \A ph \in 0 .. phase - 1 : cur \notin Of(CategoriesOf(ph))
      BY <1>1 DEF IInv, LaunchSound
    <2>2. \A d \in Deps[cur] : state'[d] = "done"
      BY <1>1, <2>1, NotOnItself
    <2> QED
      BY <1>1, <2>1, <2>2 DEF LaunchSound
  <1>5. PhasesOver'
    <2> SUFFICES ASSUME NEW ph \in 0 .. phase - 1 PROVE Unfinished(CategoriesOf(ph))' = {}
      BY DEF PhasesOver
    <2>1. cur \notin Of(CategoriesOf(ph)) /\ Unfinished(CategoriesOf(ph)) = {}
      BY <1>1 DEF IInv, LaunchSound, PhasesOver
    <2> QED
      BY <1>1, <2>1 DEF Unfinished, Of
  <1>6. WaitSound'
    BY <1>1 DEF IInv, WaitSound
  <1> QED
    BY <1>2, <1>3, <1>4, <1>5, <1>6 DEF IInv

LEMMA LaunchFailsIInv == ASSUME IInv, LaunchFails PROVE IInv'
  <1>1. /\ pc = "fork" /\ UNCHANGED <<max, phase, stopped, cur, evars>>
        /\ retries \in 0 .. MaxForkRetries /\ MaxForkRetries \in Nat \ {0}
    BY Before, LimitAssumption DEF LaunchFails
  <1>2. CASE retries < MaxForkRetries /\ retries' = retries + 1
             /\ NoKill([state EXCEPT ![cur] = "unrun"]) /\ pc' = "launch"
    <2>1. retries' \in 0 .. MaxForkRetries /\ retries' # 0
      BY <1>1, <1>2
    <2> QED
      BY <1>1, <1>2, <2>1, UnrunIInv DEF NoKill
  <1>3. CASE retries = MaxForkRetries /\ NoKill([state EXCEPT ![cur] = "unrun"])
             /\ pc' = "status" /\ UNCHANGED retries
    <2>1. retries' \in 0 .. MaxForkRetries /\ retries' # 0
      BY <1>1, <1>3
    <2> QED
      BY <1>1, <1>3, <2>1, UnrunIInv DEF NoKill
  <1>4. CASE retries = MaxForkRetries /\ KillAll(Done(InSlots(Taken)))
             /\ pc' = "end" /\ UNCHANGED retries
    <2>1. TableEnds(InSlots(Taken)) /\ Taken' = {} /\ retries # 0
      BY <1>1, <1>4, KillEnds
    <2>2. /\ pc' \in PCs \ {"port", "fork"} /\ ~ Launching'
          /\ stopped' \in BOOLEAN /\ cur' \in Plugins \cup {None}
      BY <1>1, <1>4, Before DEF PCs, Launching
    <2> QED
      BY <1>1, <1>4, <2>1, <2>2, HostEndsIInv
  <1> QED
    BY <1>2, <1>3, <1>4 DEF LaunchFails

\* The status is sent and the stop looked at (attack_host).
LEMMA SendStatusIInv == ASSUME IInv, SendStatus PROVE IInv'
  <1>1. /\ pc = "status" /\ ~ Launching /\ pc' = "free" /\ cur' = None
        /\ UNCHANGED <<max, phase, stopped, retries, evars>> /\ stopped' \in BOOLEAN
    BY Before DEF SendStatus, Launching
  <1>2. \E F : TableEnds(F)
    <2>1. CASE NoKill(state)
      BY <2>1, KeepEnds, Before DEF NoKill, pvars
    <2>2. CASE KillAll(Done(InSlots(Taken)))
      BY <2>2, KillEnds
    <2> QED
      BY <2>1, <2>2 DEF SendStatus, IfStopped
  <1>3. pc' \in PCs \ {"port", "fork"} /\ ~ Launching' /\ pc' # "end"
    BY <1>1 DEF PCs, Launching
  <1> QED
    BY <1>1, <1>2, <1>3, HostEndsIInv

\* The wait for all processes, and the end of the host (pluginlaunch_wait).
LEMMA WaitForAllIInv == ASSUME IInv, WaitForAll \/ Reap \/ Finish PROVE IInv'
  <1>1. /\ ~ Launching /\ UNCHANGED <<max, phase, stopped, cur, retries, evars>>
        /\ stopped' \in BOOLEAN /\ cur' \in Plugins \cup {None}
    BY Before DEF WaitForAll, Reap, Finish, Launching, svars
  <1>2. \E F : TableEnds(F) /\ (Finish => Taken' = {})
    <2>1. CASE WaitForAll
      <3>1. pc' # "end" /\ ~ Finish
        BY <2>1 DEF WaitForAll, Finish
      <3> QED
        BY <2>1, <3>1, UpdateEnds DEF WaitForAll
    <2>2. CASE Reap
      <3>1. pc' # "end" /\ ~ Finish
        BY <2>2 DEF Reap, Finish
      <3> QED
        BY <2>2, <3>1, KeepEnds, Before DEF Reap, svars, pvars
    <2>3. CASE Finish
      BY <2>3, KillEnds DEF Finish
    <2> QED
      BY <2>1, <2>2, <2>3
  <1>3. pc' \in PCs \ {"port", "fork"} /\ ~ Launching' /\ (pc' = "end" => Finish)
    BY DEF WaitForAll, Reap, Finish, PCs, Launching
  <1> QED
    BY <1>1, <1>2, <1>3, HostEndsIInv

\* The next phase is one from the present one on, and all before it are over
\* (plugins_scheduler_next).
LEMMA PhaseAhead ==
    ASSUME IInv
    PROVE  /\ NextPhase \in Phases
           /\ \A ph \in 0 .. NextPhase - 1 : Unfinished(CategoriesOf(ph)) = {}
  <1> DEFINE S == {ph \in phase .. 4 : Unfinished(CategoriesOf(ph)) # {}} \cup {5}
  <1>1. phase \in 0 .. 5
    BY Before DEF Phases
  <1>2. NextPhase = Min(S)
    BY DEF NextPhase
  <1>3. S \in SUBSET Nat /\ S # {} /\ 5 \in S
    BY <1>1
  <1>4. NextPhase \in S /\ \A ph \in S : NextPhase <= ph
    <2> HIDE DEF S
    <2> QED
      BY <1>2, <1>3, Least
  <1>5. NextPhase \in Phases
    BY <1>1, <1>4 DEF Phases
  <1>6. ASSUME NEW ph \in 0 .. NextPhase - 1 PROVE Unfinished(CategoriesOf(ph)) = {}
    <2>1. NextPhase \in 0 .. 5
      BY <1>5 DEF Phases
    <2>2. CASE ph < phase
      <3>1. ph \in 0 .. phase - 1
        BY <1>1, <2>1, <2>2
      <3> QED
        BY <3>1 DEF IInv, PhasesOver
    <2>3. CASE ~ (ph < phase)
      <3>1. ph \in phase .. 4 /\ ~ (NextPhase <= ph)
        BY <1>1, <2>1, <2>3
      <3> QED
        BY <1>4, <3>1
    <2> QED
      BY <2>2, <2>3
  <1> QED
    BY <1>5, <1>6

\* The scheduler hands over a plugin, has none yet, or is through
\* (plugins_scheduler_next, get_next_in_range).
LEMMA PickIInv == ASSUME IInv, Pick PROVE IInv'
  <1>1. /\ pc = "pick" /\ ~ Launching /\ phase' = NextPhase
        /\ UNCHANGED <<stopped, retries, pvars, evars>> /\ Taken' = Taken
    BY DEF Pick, Launching, Taken, pvars
  <1>2. phase' \in Phases /\ \A ph \in 0 .. phase' - 1 : Unfinished(CategoriesOf(ph)) = {}
    BY <1>1, PhaseAhead
  <1>3. /\ slot' = slot /\ num' = num /\ alive' = alive /\ overdue' = overdue
        /\ stop' = stop /\ dead' = dead /\ parent' = parent
        /\ num \in 0 .. MaxProcesses /\ alive \subseteq Slots
        /\ InSlots(Taken)' = InSlots(Taken)
    <2>1. num \in 0 .. MaxProcesses
      BY Before, Counted
    <2> QED
      BY <1>1, <2>1, Before DEF pvars, evars, InSlots
  <1>4. MaxChecks \in {1, MaxChecks, MaxProcesses - 1}
    OBVIOUS
  <1>5. CASE max' = MaxChecks /\ UNCHANGED <<state, cur>> /\ pc' \in {"last", "free"}
    <2>1. ~ Launching' /\ pc' \in PCs /\ pc' # "end" /\ pc' \notin {"port", "fork"}
      BY <1>5 DEF Launching, PCs
    <2>2. TableSound'
      <3>1. TypeOK'
        BY <1>1, <1>2, <1>3, <1>5, <2>1, Before DEF TypeOK, PCs
      <3>2. retries = 0 => \A p \in Plugins : state[p] = "running" <=> p \in InSlots(Taken)
        BY <1>1 DEF IInv, TableSound
      <3> QED
        BY <1>1, <1>3, <1>5, <2>1, <3>1, <3>2, Before DEF TableSound
    <2>3. SlotsSound' /\ LaunchSound' /\ WaitSound'
      BY <1>1, <1>3, <2>1 DEF IInv, SlotsSound, LaunchSound, WaitSound
    <2>4. PhasesOver'
      BY <1>2, <1>5 DEF PhasesOver, Unfinished
    <2> QED
      BY <2>2, <2>3, <2>4 DEF IInv
  <1>6. ASSUME NEW c \in CategoriesOf(phase'), cur' \in NextUnrun(Of({c})),
               state' = [state EXCEPT ![cur'] = "running"],
               max' = MaxFor(phase', c), pc' = "launch"
        PROVE  IInv'
    <2>1. /\ cur' \in Plugins /\ state[cur'] = "unrun"
          /\ \A d \in Deps[cur'] : state[d] = "done"
          /\ \E q \in Of({c}) : cur' \in Needs[q]
      <3>1. Of({c}) \in SUBSET Plugins
        BY DEF Of
      <3> QED
        BY <1>6, <3>1, Startable
    <2>2. Launching' /\ pc' \in PCs /\ pc' # "end" /\ pc' \notin {"port", "fork"}
      BY <1>6 DEF Launching, PCs
    <2>3. /\ state' \in [Plugins -> {"unrun", "running", "done"}] /\ state'[cur'] = "running"
          /\ \A p \in Plugins : p # cur' => state'[p] = state[p]
      BY <1>6, <2>1, Before
    <2>4. max' \in {1, MaxChecks, MaxProcesses - 1}
      BY <1>6, Before DEF MaxFor
    <2>5. TypeOK'
      BY <1>1, <1>2, <1>3, <2>1, <2>2, <2>3, <2>4, Before DEF TypeOK, PCs
    <2>6. retries = 0 => \A p \in Plugins : state[p] = "running" <=> p \in InSlots(Taken)
      BY <1>1 DEF IInv, TableSound
    <2>7. TableSound'
      BY <1>1, <1>3, <2>1, <2>2, <2>3, <2>5, <2>6, Before DEF TableSound
    <2>8. SlotsSound'
      BY <1>1, <1>3, <2>1, <2>6 DEF IInv, SlotsSound
    <2>9. LaunchSound'
      <3>1. \A d \in Deps[cur'] : state'[d] = "done"
        BY <2>1, <2>3, NotOnItself
      <3>2. \E q \in Of(CategoriesOf(phase')) : cur' \in Needs[q]
        BY <1>6, <2>1 DEF Of
      <3>3. \A ph \in 0 .. phase' - 1 : cur' \notin Of(CategoriesOf(ph))
        BY <1>2, <2>1 DEF Unfinished
      <3> QED
        BY <2>1, <3>1, <3>2, <3>3 DEF LaunchSound
    <2>10. PhasesOver'
      <3>1. \A p \in Plugins : state[p] = "done" => state'[p] = "done"
        BY <2>1, <2>3
      <3> QED
        BY <1>2, <3>1 DEF PhasesOver, Unfinished, Of
    <2>11. WaitSound'
      <3>1. ASSUME phase' = 1 PROVE max' = 1
        <4>1. c \in 1 .. 1
          BY <3>1 DEF CategoriesOf, ACT_SCANNER
        <4>2. c \in Alone
          BY <4>1 DEF Alone, ACT_SCANNER
        <4> QED
          BY <1>6, <4>2 DEF MaxFor
      <3> QED
        BY <2>2, <3>1 DEF WaitSound
    <2> QED
      BY <2>7, <2>8, <2>9, <2>10, <2>11 DEF IInv
  <1> QED
    BY <1>5, <1>6 DEF Pick

\* A process in the first free slot (plugin_launch).
LEMMA StartProcessIInv == ASSUME IInv, StartProcess PROVE IInv'
  <1> DEFINE s == Min(Slots \ Taken)
  <1>1. /\ pc = "fork" /\ Taken # Slots /\ slot' = [slot EXCEPT ![s] = cur]
        /\ num' = num + 1 /\ alive' = alive \cup {s} /\ pc' = "status"
        /\ UNCHANGED <<svars, overdue, cur, retries, evars>>
    BY DEF StartProcess
  <1>2. s \in Slots \ Taken
    <2>1. Slots \ Taken # {}
      BY <1>1, Before
    <2>2. Slots \ Taken \in SUBSET Nat
      BY LimitAssumption DEF Slots
    <2> QED
      BY <2>1, <2>2, Least
  <1> HIDE DEF s
  <1>3. Launching /\ cur \in Plugins /\ cur # None /\ ~ Launching' /\ pc' \in PCs
    BY <1>1, Before DEF IInv, LaunchSound, Launching, PCs
  <1>4. /\ slot' \in [Slots -> Plugins \cup {None}] /\ slot'[s] = cur
        /\ \A t \in Slots : t # s => slot'[t] = slot[t]
    BY <1>1, <1>2, <1>3, Before
  <1>5. Taken' = Taken \cup {s}
    BY <1>2, <1>3, <1>4 DEF Taken
  <1>6. num' = Cardinality(Taken') /\ num' \in 0 .. MaxProcesses
    <2>1. Taken \in SUBSET Slots /\ Taken \cup {s} \in SUBSET Slots
      BY <1>2, Before
    <2>2. /\ Cardinality(Taken \cup {s}) = Cardinality(Taken) + 1
          /\ Cardinality(Taken \cup {s}) \in 0 .. MaxProcesses
      BY <1>2, <2>1, Counted
    <2> QED
      BY <1>1, <1>5, <2>2, Before
  <1>7. /\ state' = state /\ max' = max /\ phase' = phase /\ stopped' = stopped
        /\ stop' = stop /\ dead' = dead /\ parent' = parent
        /\ overdue' = overdue /\ cur' = cur /\ retries' = retries
    BY <1>1 DEF svars, evars
  <1>8. InSlots(Taken)' = InSlots(Taken) \cup {cur}
    <2>1. \A t \in Taken : slot'[t] = slot[t]
      BY <1>2, <1>4, Before
    <2>2. InSlots(Taken)' = {slot'[t] : t \in Taken \cup {s}}
      BY <1>5 DEF InSlots
    <2> QED
      BY <1>4, <2>1, <2>2 DEF InSlots
  <1>9. TableSound'
    <2>1. TypeOK'
      <3>1. alive' \subseteq Slots /\ overdue' \subseteq alive'
        BY <1>1, <1>2, <1>7, Before
      <3> QED
        BY <1>3, <1>4, <1>6, <1>7, <3>1, Before DEF TypeOK, PCs
    <2>2. alive' \subseteq Taken' /\ pc' # "end"
      BY <1>1, <1>5, Before
    <2>3. retries = 0 => \A p \in Plugins : state[p] = "running" <=> p \in InSlots(Taken) \/ p = cur
      BY <1>3 DEF IInv, TableSound
    <2> QED
      BY <1>3, <1>6, <1>7, <1>8, <2>1, <2>2, <2>3 DEF TableSound
  <1>10. SlotsSound'
    <2> SUFFICES ASSUME retries = 0, NEW t \in Taken', NEW u \in Taken', slot'[t] = slot'[u]
                 PROVE  t = u
      BY <1>3, <1>7 DEF SlotsSound
    <2>1. \A v, w \in Taken : slot[v] = slot[w] => v = w
      BY DEF IInv, SlotsSound
    <2>2. \A v \in Taken : slot[v] # cur
      BY <1>3 DEF IInv, SlotsSound, InSlots
    <2>3. \A v \in Taken : slot'[v] = slot[v]
      BY <1>2, <1>4, Before
    <2> QED
      BY <1>4, <1>5, <2>1, <2>2, <2>3
  <1>11. LaunchSound' /\ PhasesOver' /\ WaitSound'
    <2>1. pc' \notin {"port", "fork"}
      BY <1>1
    <2> QED
      BY <1>3, <1>7, <2>1 DEF IInv, LaunchSound, PhasesOver, Unfinished, WaitSound
  <1> QED
    BY <1>9, <1>10, <1>11 DEF IInv

\* Plugins end or take too long, and signals come.
LEMMA OutsideIInv ==
    ASSUME IInv,
           \/ \E s \in Slots : PluginEnds(s) \/ TakesTooLong(s)
           \/ HostDies \/ StopSignal \/ ParentDies
    PROVE  IInv'
  <1>0. {stop, dead, parent} \subseteq BOOLEAN /\ overdue \subseteq alive
    BY Before
  <1>1. ASSUME NEW s \in Slots, PluginEnds(s) PROVE IInv'
    BY <1>0, <1>1, QuietIInv DEF PluginEnds, svars, evars
  <1>2. ASSUME NEW s \in Slots, TakesTooLong(s) PROVE IInv'
    BY <1>0, <1>2, QuietIInv DEF TakesTooLong, svars, evars
  <1>3. CASE HostDies
    BY <1>0, <1>3, QuietIInv DEF HostDies, svars, pvars
  <1>4. CASE StopSignal
    BY <1>0, <1>4, QuietIInv DEF StopSignal, svars, pvars
  <1>5. CASE ParentDies
    BY <1>0, <1>5, QuietIInv DEF ParentDies, svars, pvars
  <1> QED
    BY <1>1, <1>2, <1>3, <1>4, <1>5

----------------------------------------------------------------------------
(* The invariant and what follows from it.                                 *)

LEMMA NextIInv == IInv /\ [Next]_vars => IInv'
  <1> SUFFICES ASSUME IInv, [Next]_vars PROVE IInv'
    OBVIOUS
  <1>1. CASE HostStep
    BY <1>1, TopIInv, PickIInv, LaunchIInv, KeysIInv, StartProcessIInv, LaunchFailsIInv,
       SendStatusIInv, WaitForFreeIInv, WaitForPortIInv, WaitForAllIInv DEF HostStep
  <1>2. CASE \/ \E s \in Slots : PluginEnds(s) \/ TakesTooLong(s)
             \/ HostDies \/ StopSignal \/ ParentDies
    BY <1>2, OutsideIInv
  <1>3. CASE UNCHANGED vars
    BY <1>3, QuietIInv, Before DEF vars, svars, pvars, evars
  <1> QED
    BY <1>1, <1>2, <1>3 DEF Next

\* No plugin has been handed over at first.
LEMMA InitIInv == Init => IInv
  <1> SUFFICES ASSUME Init PROVE IInv
    OBVIOUS
  <1>1. /\ state = [p \in Plugins |-> "unrun"] /\ slot = [s \in Slots |-> None]
        /\ num = 0 /\ phase = 0 /\ stopped = FALSE /\ pc = "top" /\ cur = None
        /\ retries = 0 /\ alive = {} /\ overdue = {} /\ stop = FALSE /\ dead = FALSE
        /\ parent = TRUE /\ max \in {1, MaxChecks, MaxProcesses - 1}
    BY DEF Init
  <1>2. Taken = {} /\ InSlots(Taken) = {} /\ ~ Launching /\ Cardinality({}) = 0
    BY <1>1, FS_EmptySet DEF Taken, InSlots, Launching
  <1>3. TypeOK
    <2>1. num \in 0 .. MaxProcesses /\ retries \in 0 .. MaxForkRetries /\ phase \in Phases
      BY <1>1, LimitAssumption DEF Phases
    <2>2. /\ state \in [Plugins -> {"unrun", "running", "done"}]
          /\ slot \in [Slots -> Plugins \cup {None}] /\ cur \in Plugins \cup {None}
      BY <1>1
    <2>3. {stopped, stop, dead, parent} \subseteq BOOLEAN /\ alive \subseteq Slots
      BY <1>1
    <2> QED
      BY <1>1, <2>1, <2>2, <2>3 DEF TypeOK
  <1>4. TableSound
    BY <1>1, <1>2, <1>3 DEF TableSound
  <1>5. SlotsSound /\ LaunchSound /\ PhasesOver /\ WaitSound
    BY <1>1, <1>2 DEF SlotsSound, LaunchSound, PhasesOver, WaitSound
  <1> QED
    BY <1>4, <1>5 DEF IInv

\* The table of processes, the plugin that is launched and the phases are sound,
\* whatever the plugins do and whenever the scan is stopped.
THEOREM Inductive == Spec => []IInv
  <1> QED
    BY InitIInv, NextIInv, PTL DEF Spec

\* The count of processes is the count of taken slots, every process has a slot,
\* and, as long as no launch was tried again, a plugin is marked as running exactly
\* while it has a slot or is launched (num_running_processes, running_state).
THEOREM TableIsSound == Spec => []TableSound
  <1>1. IInv => TableSound
    BY DEF IInv
  <1> QED
    BY <1>1, Inductive, PTL

\* Only plugin_launch starts a process, and only of the plugin handed over.
LEMMA OnlyStart ==
    ASSUME IInv, Next, NEW s \in Started
    PROVE  StartProcess /\ slot'[s] = cur
  <1>1. s \in Slots /\ slot[s] = None /\ slot'[s] # None /\ slot \in [Slots -> Plugins \cup {None}]
    BY Before DEF Started
  <1>2. slot' # slot /\ \A S : slot' # Free(S)
    BY <1>1 DEF Free
  <1>3. \A st : ~ KillAll(st) /\ ~ NoKill(st)
    BY <1>2 DEF KillAll, NoKill, pvars
  <1>4. ~ UpdateProcesses /\ ~ PassOver /\ \A st : ~ IfStopped(st)
    BY <1>2, <1>3 DEF UpdateProcesses, PassOver, IfStopped, pvars
  <1>5. ~ Top /\ ~ Pick /\ ~ Launch /\ ~ Keys
    BY <1>2, <1>3, <1>4 DEF Top, Pick, Launch, Keys, pvars
  <1>6. ~ LaunchFails /\ ~ SendStatus /\ ~ WaitForPort
    BY <1>3, <1>4 DEF LaunchFails, SendStatus, WaitForPort
  <1>7. ~ WaitForFree("slot", "port") /\ ~ WaitForFree("free", "top")
    BY <1>4 DEF WaitForFree
  <1>8. ~ WaitForAll /\ ~ Reap /\ ~ Finish
    BY <1>2, <1>3, <1>4 DEF WaitForAll, Reap, Finish, pvars
  <1>9. ~ HostDies /\ ~ StopSignal /\ ~ ParentDies /\ \A t : ~ PluginEnds(t) /\ ~ TakesTooLong(t)
    BY <1>2 DEF HostDies, StopSignal, ParentDies, PluginEnds, TakesTooLong, pvars
  <1>10. StartProcess
    BY <1>5, <1>6, <1>7, <1>8, <1>9 DEF Next, HostStep
  <1>11. slot' = [slot EXCEPT ![Min(Slots \ Taken)] = cur]
    BY <1>10 DEF StartProcess
  <1> QED
    BY <1>1, <1>10, <1>11

\* A plugin is started only when those it depends on are done and gone, in its
\* phase or earlier for one of the phase, after all earlier phases
\* (plugins_next_unrun, plugins_scheduler_next).
THEOREM OrderIsKept == Spec => OrderKept
  <1>1. ASSUME IInv, Next PROVE StartsAfterDeps /\ StartsInPhase
    <2> SUFFICES ASSUME NEW s \in Started
                 PROVE  /\ \A d \in Deps[slot'[s]] :
                              /\ state[d] = "done"
                              /\ retries = 0 => d \notin InSlots(alive)
                        /\ \E q \in Of(CategoriesOf(phase)) : slot'[s] \in Needs[q]
                        /\ \A ph \in 0 .. phase - 1 : Unfinished(CategoriesOf(ph)) = {}
      BY DEF StartsAfterDeps, StartsInPhase
    <2>1. slot'[s] = cur /\ Launching
      BY <1>1, OnlyStart DEF StartProcess, Launching
    <2>2. /\ cur \in Plugins
          /\ \A d \in Deps[cur] : state[d] = "done"
          /\ \E q \in Of(CategoriesOf(phase)) : cur \in Needs[q]
          /\ \A ph \in 0 .. phase - 1 : Unfinished(CategoriesOf(ph)) = {}
      BY <1>1, <2>1 DEF IInv, LaunchSound, PhasesOver
    <2>3. ASSUME NEW d \in Deps[cur], retries = 0 PROVE d \notin InSlots(alive)
      <3>1. d \in Plugins /\ state[d] # "running"
        BY <2>2, NotOnItself
      <3>2. d \notin InSlots(Taken)
        BY <1>1, <2>3, <3>1 DEF IInv, TableSound
      <3> QED
        BY <1>1, <3>2, Before DEF InSlots
    <2> QED
      BY <2>1, <2>2, <2>3
  <1>2. IInv /\ [Next]_vars => [StartsAfterDeps /\ StartsInPhase]_vars
    BY <1>1
  <1> QED
    BY <1>2, Inductive, PTL DEF Spec, OrderKept

\* Plugins that need one port never run at the same time, and port scanners are
\* started next to no other process (simult_ports,
\* pluginlaunch_disable_parallel_checks).
THEOREM KeptWellApart == Spec => KeptApart
  <1>1. ASSUME IInv, Next PROVE StartsAlone
    <2> SUFFICES ASSUME NEW s \in Started
                 PROVE  /\ phase = 1 => Taken = {}
                        /\ \A t \in alive : {slot[t], slot'[s]} \notin Exclusive
      BY DEF StartsAlone
    <2>1. slot'[s] = cur /\ pc = "fork"
      BY <1>1, OnlyStart DEF StartProcess
    <2> QED
      BY <1>1, <2>1 DEF IInv, WaitSound, PortTaken
  <1>2. IInv /\ [Next]_vars => [StartsAlone]_vars
    BY <1>1
  <1> QED
    BY <1>2, Inductive, PTL DEF Spec, KeptApart

=============================================================================
