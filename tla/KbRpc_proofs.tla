---------------------------- MODULE KbRpc_proofs ----------------------------
(***************************************************************************)
(* Proofs about KbRpc for every set of requests, every bound and every     *)
(* place where a command breaks: the inductive invariant IInv, from it the *)
(* safety properties of the channel, and that KbRpc implements Rpc.        *)
(***************************************************************************)
EXTENDS KbRpc, SequenceTheorems, TLAPS

----------------------------------------------------------------------------
(* Counting the copies of a request in a list.                             *)

At(q, r) == {i \in 1..Len(q) : q[i] = r}

CopiesIn(q, r) == IF At(q, r) = {} THEN 0
                  ELSE IF \E i, j \in At(q, r) : i # j THEN 2 ELSE 1

NoTriple(q) ==
    \A i, j, k \in 1..Len(q) : q[i] = q[j] /\ q[j] = q[k] => i = j \/ j = k \/ i = k

\* The list of the daemon is counted that way, before and after a step.
LEMMA CopiesDef == /\ \A r : Copies(r) = CopiesIn(msgs, r)
                   /\ \A r : Copies(r)' = CopiesIn(msgs', r)
                   /\ ListSound <=> NoTriple(msgs)
                   /\ ListSound' <=> NoTriple(msgs')
  BY DEF Copies, CopiesIn, At, ListSound, NoTriple

\* There are none, one or two.
LEMMA CopiesType == \A q, r : CopiesIn(q, r) \in 0..2
  BY DEF CopiesIn

\* None are in an empty list.
LEMMA CopiesEmpty == NoTriple(<<>>) /\ \A r : CopiesIn(<<>>, r) = 0
  BY DEF CopiesIn, At, NoTriple

\* Appending a request of which there is at most one adds one.
LEMMA CopiesAppend ==
    ASSUME NEW S, NEW q \in Seq(S), NEW r \in S, NoTriple(q), CopiesIn(q, r) <= 1
    PROVE  /\ NoTriple(Append(q, r))
           /\ CopiesIn(Append(q, r), r) = CopiesIn(q, r) + 1
           /\ \A s \in S : s # r => CopiesIn(Append(q, r), s) = CopiesIn(q, s)
  <1> DEFINE p == Append(q, r)
             n == Len(q) + 1
  <1>1. /\ Len(q) \in Nat /\ Len(p) = n /\ p[n] = r
        /\ \A i \in 1..Len(q) : p[i] = q[i]
    BY AppendProperties, LenProperties
  <1>2. \A i \in 1..Len(p) : i = n \/ i \in 1..Len(q)
    BY <1>1
  <1>3. \A i \in 1..Len(q) : i \in 1..Len(p) /\ i # n
    BY <1>1
  <1>4. n \in 1..Len(p)
    BY <1>1
  <1>5. \A i, j \in 1..Len(q) : q[i] = r /\ q[j] = r => i = j
    BY DEF CopiesIn, At
  <1> HIDE DEF p, n
  <1>6. At(p, r) = At(q, r) \cup {n} /\ n \notin At(q, r)
    BY <1>1, <1>2, <1>3, <1>4 DEF At
  <1>7. \A s \in S : s # r => At(p, s) = At(q, s)
    BY <1>1, <1>2, <1>3 DEF At
  <1>8. NoTriple(p)
    <2> SUFFICES ASSUME NEW i \in 1..Len(p), NEW j \in 1..Len(p), NEW k \in 1..Len(p),
                        p[i] = p[j], p[j] = p[k], i # j, j # k, i # k
                 PROVE  FALSE
      BY DEF NoTriple
    <2>1. CASE i = n \/ j = n \/ k = n
      BY <1>1, <1>2, <1>5, <2>1
    <2>2. CASE i # n /\ j # n /\ k # n
      BY <1>1, <1>2, <2>2 DEF NoTriple
    <2> QED
      BY <2>1, <2>2
  <1>9. CopiesIn(p, r) = CopiesIn(q, r) + 1
    <2>1. CASE At(q, r) = {}
      BY <1>6, <2>1 DEF CopiesIn
    <2>2. CASE At(q, r) # {}
      <3>1. CopiesIn(q, r) = 1
        BY <2>2 DEF CopiesIn
      <3>2. CopiesIn(p, r) = 2
        BY <1>6, <2>2 DEF CopiesIn
      <3> QED
        BY <3>1, <3>2
    <2> QED
      BY <2>1, <2>2
  <1>10. \A s \in S : s # r => CopiesIn(p, s) = CopiesIn(q, s)
    BY <1>7 DEF CopiesIn
  <1> QED
    BY <1>8, <1>9, <1>10 DEF p

\* Taking the first request off takes one of its copies.
LEMMA CopiesTail ==
    ASSUME NEW S, NEW q \in Seq(S), q # <<>>, NoTriple(q)
    PROVE  /\ NoTriple(Tail(q))
           /\ CopiesIn(q, Head(q)) = CopiesIn(Tail(q), Head(q)) + 1
           /\ \A s \in S : s # Head(q) => CopiesIn(Tail(q), s) = CopiesIn(q, s)
  <1> DEFINE p == Tail(q)
             r == Head(q)
  <1>1. /\ Len(q) \in Nat /\ Len(q) > 0 /\ Len(p) = Len(q) - 1 /\ q[1] = r
        /\ \A i \in 1..Len(p) : p[i] = q[i + 1]
    BY HeadTailProperties, LenProperties, EmptySeq
  <1> HIDE DEF p, r
  <1>2. \A s : \A i \in At(p, s) : i + 1 \in At(q, s) /\ i + 1 # 1
    BY <1>1 DEF At
  <1>3. \A s : \A i \in At(q, s) : i # 1 => i - 1 \in At(p, s)
    <2> SUFFICES ASSUME NEW s, NEW i \in At(q, s), i # 1
                 PROVE  i - 1 \in At(p, s)
      OBVIOUS
    <2>1. i \in 1..Len(q) /\ i - 1 \in 1..Len(p) /\ (i - 1) + 1 = i
      BY <1>1 DEF At
    <2> QED
      BY <1>1, <2>1 DEF At
  <1>4. 1 \in At(q, r) /\ \A s : s # r => 1 \notin At(q, s)
    BY <1>1 DEF At
  <1>5. \A s : At(p, s) \subseteq Int /\ At(q, s) \subseteq Int
    BY <1>1 DEF At
  <1>6. NoTriple(p)
    <2> SUFFICES ASSUME NEW i \in 1..Len(p), NEW j \in 1..Len(p), NEW k \in 1..Len(p),
                        p[i] = p[j], p[j] = p[k]
                 PROVE  i = j \/ j = k \/ i = k
      BY DEF NoTriple
    <2>1. i + 1 \in 1..Len(q) /\ j + 1 \in 1..Len(q) /\ k + 1 \in 1..Len(q)
      BY <1>1
    <2>2. q[i + 1] = q[j + 1] /\ q[j + 1] = q[k + 1]
      BY <1>1
    <2>3. i + 1 = j + 1 \/ j + 1 = k + 1 \/ i + 1 = k + 1
      BY <2>1, <2>2 DEF NoTriple
    <2> QED
      BY <2>3
  <1>7. CopiesIn(q, r) = CopiesIn(p, r) + 1
    <2>1. CASE At(p, r) = {}
      <3>1. \A i \in At(q, r) : i = 1
        BY <1>3, <2>1
      <3> QED
        BY <1>4, <2>1, <3>1 DEF CopiesIn
    <2>2. ASSUME NEW i \in At(p, r)
          PROVE  CopiesIn(q, r) = 2 /\ CopiesIn(p, r) = 1
      <3>1. i + 1 \in At(q, r) /\ i + 1 # 1
        BY <1>2
      <3>2. CopiesIn(q, r) = 2
        BY <1>4, <3>1 DEF CopiesIn
      <3>3. ASSUME NEW j \in At(p, r), NEW k \in At(p, r), j # k
            PROVE  FALSE
        <4>1. /\ j + 1 \in At(q, r) /\ k + 1 \in At(q, r)
              /\ j + 1 # 1 /\ k + 1 # 1 /\ j + 1 # k + 1
          BY <1>2, <1>5, <3>3
        <4> QED
          BY <1>4, <4>1 DEF NoTriple, At
      <3> QED
        BY <3>2, <3>3 DEF CopiesIn
    <2> QED
      BY <2>1, <2>2
  <1>8. ASSUME NEW s, s # r
        PROVE  CopiesIn(p, s) = CopiesIn(q, s)
    <2>1. At(p, s) = {} <=> At(q, s) = {}
      BY <1>2, <1>3, <1>4, <1>8
    <2>2. ASSUME NEW i \in At(p, s), NEW j \in At(p, s), i # j
          PROVE  \E k, l \in At(q, s) : k # l
      <3>1. i + 1 \in At(q, s) /\ j + 1 \in At(q, s) /\ i + 1 # j + 1
        BY <1>2, <1>5, <2>2
      <3> QED
        BY <3>1
    <2>3. ASSUME NEW i \in At(q, s), NEW j \in At(q, s), i # j
          PROVE  \E k, l \in At(p, s) : k # l
      <3>1. i # 1 /\ j # 1
        BY <1>4, <1>8
      <3>2. i - 1 \in At(p, s) /\ j - 1 \in At(p, s) /\ i - 1 # j - 1
        BY <1>3, <1>5, <2>3, <3>1
      <3> QED
        BY <3>2
    <2> QED
      BY <2>1, <2>2, <2>3 DEF CopiesIn
  <1> QED
    BY <1>6, <1>7, <1>8 DEF p, r

----------------------------------------------------------------------------
(* Steps of the calls, and of Redis.                                       *)

USE KbRpcAssumption DEF Actors, Daemon, MaxGid, hvars, dvars, cvars, kvars

\* The invariant holds when the daemon and all clients are about to start.
LEMMA InitIInv == Init => IInv
  <1> SUFFICES ASSUME Init PROVE IInv
    OBVIOUS
  <1> USE DEF Init
  <1>1. TypeOK
    BY EmptySeq DEF TypeOK, Calls, Dpcs, KbRpcAssumption
  <1>2. CallSound /\ HandSound /\ OutageSound /\ RepliesSound /\ AnswersExpire
    BY EmptySeq DEF CallSound, HandSound, OutageSound, RepliesSound, AnswersExpire, KbRpcAssumption
  <1>3. ListSound /\ Accounted
    BY EmptySeq, CopiesDef, CopiesEmpty DEF Accounted, InHand
  <1> QED
    BY <1>1, <1>2, <1>3 DEF IInv

\* The counts in the balance of a request are numbers.
LEMMA Counts ==
    ASSUME TypeOK, NEW r \in Reqs
    PROVE  /\ Copies(r) \in 0..2 /\ InHand(r) \in 0..1
           /\ Len(outcome[r]) \in Nat /\ lost[r] \in 0..2 /\ pushes[r] \in 0..2
           /\ tries[r] \in 0..1
  <1>1. outcome[r] \in Seq(Results)
    BY DEF TypeOK
  <1> QED
    <2>1. Copies(r) \in 0..2 /\ InHand(r) \in 0..1
      BY CopiesDef, CopiesType DEF InHand
    <2>2. lost[r] \in 0..2 /\ pushes[r] \in 0..2 /\ tries[r] \in 0..1
      BY DEF TypeOK
    <2> QED
      BY <1>1, <2>1, <2>2, LenProperties

\* A call that still pushes puts at most a second copy into the list
\* (redis_push_str).
LEMMA PushKeepsBalance ==
    ASSUME IInv, NEW r \in Reqs, call[r] = "push",
           msgs' = Append(msgs, r), CountPush(r), UNCHANGED <<dpc, cur, outcome, lost>>
    PROVE  /\ msgs' \in Seq(Reqs)
           /\ pushes' \in [Reqs -> 0..2]
           /\ pushes'[r] = pushes[r] + 1
           /\ pushes[r] <= tries[r]
           /\ \A s \in Reqs : s # r => pushes'[s] = pushes[s]
           /\ ListSound'
           /\ Accounted'
  <1>0. TypeOK /\ CallSound /\ ListSound /\ Accounted
    BY DEF IInv
  <1>1. pushes[r] \in 0..1 /\ pushes[r] <= tries[r]
    BY <1>0, Counts DEF CallSound
  <1>2. /\ pushes' \in [Reqs -> 0..2]
        /\ pushes'[r] = pushes[r] + 1
        /\ \A s \in Reqs : s # r => pushes'[s] = pushes[s]
    BY <1>0, <1>1 DEF TypeOK, CountPush
  <1>3. msgs \in Seq(Reqs) /\ NoTriple(msgs) /\ CopiesIn(msgs, r) <= 1
    <2>1. pushes[r] = Copies(r) + InHand(r) + Len(outcome[r]) + lost[r]
      BY <1>0 DEF Accounted
    <2>2. Copies(r) <= 1
      BY <1>0, <1>1, <2>1, Counts
    <2> QED
      BY <1>0, <2>2, CopiesDef DEF TypeOK
  <1>4. /\ ListSound'
        /\ Copies(r)' = Copies(r) + 1
        /\ \A s \in Reqs : s # r => Copies(s)' = Copies(s)
    BY <1>3, CopiesAppend, CopiesDef
  <1>5. msgs' \in Seq(Reqs)
    BY <1>3, AppendProperties
  <1>6. Accounted'
    <2> SUFFICES ASSUME NEW s \in Reqs
                 PROVE  pushes'[s] = Copies(s)' + InHand(s)' + Len(outcome'[s]) + lost'[s]
      BY DEF Accounted
    <2>1. InHand(s)' = InHand(s)
      BY DEF InHand
    <2>2. pushes[s] = Copies(s) + InHand(s) + Len(outcome[s]) + lost[s]
      BY <1>0 DEF Accounted
    <2>3. /\ s = r => Copies(s)' = Copies(s) + 1 /\ pushes'[s] = pushes[s] + 1
          /\ s # r => Copies(s)' = Copies(s) /\ pushes'[s] = pushes[s]
      BY <1>2, <1>4
    <2>4. /\ Copies(s) \in 0..2 /\ InHand(s) \in 0..1
          /\ Len(outcome[s]) \in Nat /\ lost[s] \in 0..2 /\ pushes[s] \in 0..2
      BY <1>0, Counts
    <2> HIDE DEF Copies, InHand
    <2> QED
      BY <2>1, <2>2, <2>3, <2>4
  <1> QED
    BY <1>1, <1>2, <1>4, <1>5, <1>6

\* A step of a call or of Redis: what is left to show is what it does to the call,
\* and that answers only go, or go and their key with them.
LEMMA CallFrame ==
    ASSUME IInv, UNCHANGED <<dvars, crashes, outcome, lost, cleared, fails, kept>>,
           call' \in [Reqs -> Calls],
           verdict' \in [Reqs -> Results \cup {"none", "timeout", "error"}],
           tries' \in [Actors -> 0..1],
           broken' \in 0..MaxFaults, broken <= broken', broken' + crashes <= MaxFaults,
           CallSound',
           \/ UNCHANGED <<msgs, pushes>>
           \/ \E r \in Reqs : call[r] = "push" /\ msgs' = Append(msgs, r) /\ CountPush(r),
           reply' \in [Reqs -> Seq(Results)],
           ttl' \in SUBSET Reqs,
           \A r \in Reqs : \/ reply'[r] \in {reply[r], <<>>}
                           \/ reply[r] # <<>> /\ reply'[r] = Tail(reply[r]),
           \A r \in Reqs : r \in ttl => r \in ttl' \/ reply'[r] = <<>>
    PROVE  IInv'
  <1>0. /\ TypeOK /\ CallSound /\ ListSound /\ HandSound /\ OutageSound
        /\ RepliesSound /\ Accounted /\ AnswersExpire
    BY DEF IInv
  <1>1. /\ msgs' \in Seq(Reqs) /\ pushes' \in [Reqs -> 0..2]
        /\ ListSound' /\ Accounted'
    <2>1. CASE UNCHANGED <<msgs, pushes>>
      <3>1. msgs' \in Seq(Reqs) /\ pushes' \in [Reqs -> 0..2]
        BY <1>0, <2>1 DEF TypeOK
      <3>2. ListSound' /\ Accounted'
        <4>1. ListSound'
          BY <1>0, <2>1 DEF ListSound
        <4>2. ASSUME NEW r \in Reqs
              PROVE  Copies(r)' = Copies(r) /\ InHand(r)' = InHand(r)
          BY <2>1 DEF Copies, InHand
        <4> QED
          BY <1>0, <2>1, <4>1, <4>2 DEF Accounted
      <3> QED
        BY <3>1, <3>2
    <2>2. ASSUME NEW r \in Reqs, call[r] = "push", msgs' = Append(msgs, r), CountPush(r)
          PROVE  /\ msgs' \in Seq(Reqs) /\ pushes' \in [Reqs -> 0..2]
                 /\ ListSound' /\ Accounted'
      BY <2>2, PushKeepsBalance
    <2> QED
      BY <2>1, <2>2
  <1>2. TypeOK'
    BY <1>0, <1>1 DEF TypeOK
  <1>3. HandSound' /\ OutageSound'
    <2>1. HandSound'
      BY <1>0 DEF HandSound
    <2>2. fails <= broken /\ fails \in Nat /\ broken \in Nat /\ broken' \in Nat
      BY <1>0 DEF OutageSound, TypeOK
    <2> QED
      BY <1>0, <2>1, <2>2 DEF OutageSound
  <1>4. RepliesSound'
    <2> SUFFICES ASSUME NEW r \in Reqs, NEW i \in 1..Len(reply'[r])
                 PROVE  \E j \in 1..Len(outcome[r]) : reply'[r][i] = outcome[r][j]
      BY DEF RepliesSound
    <2>1. reply[r] \in Seq(Results)
      BY <1>0 DEF TypeOK
    <2>2. CASE reply'[r] = reply[r]
      BY <1>0, <2>2 DEF RepliesSound
    <2>3. CASE reply'[r] = <<>>
      BY <2>3, EmptySeq
    <2>4. CASE reply[r] # <<>> /\ reply'[r] = Tail(reply[r])
      <3>1. i + 1 \in 1..Len(reply[r]) /\ reply'[r][i] = reply[r][i + 1]
        BY <2>1, <2>4, HeadTailProperties, LenProperties
      <3> QED
        BY <1>0, <3>1 DEF RepliesSound
    <2> QED
      BY <2>2, <2>3, <2>4
  <1>5. AnswersExpire'
    <2>1. \A r \in Reqs : reply'[r] # <<>> => reply[r] # <<>>
      OBVIOUS
    <2> QED
      BY <1>0, <2>1 DEF AnswersExpire
  <1> QED
    BY <1>1, <1>2, <1>3, <1>4, <1>5 DEF IInv

\* What one actor's command does to the counts of attempts and of broken commands.
LEMMA WorksType ==
    ASSUME IInv, NEW a \in Actors, Works(a)
    PROVE  /\ tries' \in [Actors -> 0..1] /\ \A b \in Actors : b # a => tries'[b] = tries[b]
           /\ broken' = broken /\ broken' \in 0..MaxFaults /\ broken <= broken'
           /\ broken' + crashes <= MaxFaults
  BY DEF IInv, TypeOK, OutageSound, Works

LEMMA BreaksType ==
    ASSUME IInv, NEW a \in Actors, NEW retried \in BOOLEAN, Breaks(a, retried)
    PROVE  /\ tries' \in [Actors -> 0..1] /\ \A b \in Actors : b # a => tries'[b] = tries[b]
           /\ retried => tries[a] = 0 /\ tries'[a] = 1
           /\ broken' \in 0..MaxFaults /\ broken <= broken' /\ broken' = broken + 1
           /\ broken' + crashes <= MaxFaults
  BY DEF IInv, TypeOK, Breaks, FaultsLeft, KbRpcAssumption

\* A return ends a call with a verdict.
LEMMA ReturnType ==
    ASSUME IInv, NEW r \in Reqs, NEW v \in Results \cup {"timeout", "error"}, Return(r, v)
    PROVE  /\ call' \in [Reqs -> Calls]
           /\ verdict' \in [Reqs -> Results \cup {"none", "timeout", "error"}]
           /\ call'[r] = "done"
           /\ \A s \in Reqs : s # r => call'[s] = call[s] /\ verdict'[s] = verdict[s]
  BY DEF IInv, TypeOK, Return, Calls

\* Connecting sends nothing (sendKbMsg).
LEMMA ConnectIInv ==
    ASSUME IInv, NEW r \in Reqs, Connect(r) \/ ConnectFails(r)
    PROVE  IInv'
  <1>0. TypeOK /\ CallSound /\ OutageSound
    BY DEF IInv
  <1>1. CASE Connect(r)
    <2> USE <1>1 DEF Connect
    <2>1. call' \in [Reqs -> Calls] /\ broken' \in 0..MaxFaults /\ broken' + crashes <= MaxFaults
      BY <1>0 DEF TypeOK, Calls, OutageSound
    <2>2. CallSound'
      <3>1. ASSUME NEW s \in Reqs
            PROVE  call'[s] = call[s] \/ (call'[s] = "push" /\ call[s] = "new")
        BY <1>0 DEF TypeOK
      <3> QED
        BY <1>0, <3>1, Counts DEF CallSound
    <2> QED
      BY <1>0, <2>1, <2>2, CallFrame DEF TypeOK
  <1>2. CASE ConnectFails(r)
    <2> USE <1>2 DEF ConnectFails
    <2>1. /\ broken' \in 0..MaxFaults /\ broken <= broken' /\ broken' + crashes <= MaxFaults
      BY <1>0 DEF TypeOK, FaultsLeft, KbRpcAssumption
    <2>2. Return(r, "error")
      OBVIOUS
    <2>3. CallSound'
      BY <1>0, <2>2, ReturnType DEF CallSound
    <2> QED
      BY <1>0, <2>1, <2>2, <2>3, ReturnType, CallFrame DEF TypeOK
  <1> QED
    BY <1>1, <1>2

\* A call pushes its request once, or a second time when the first push broke
\* (redis_cmd).
LEMMA PushIInv ==
    ASSUME IInv, NEW r \in Reqs, NEW done \in BOOLEAN, NEW retried \in BOOLEAN,
           PushRequest(r) \/ PushBreaks(r, done, retried)
    PROVE  IInv'
  <1>0. TypeOK /\ CallSound /\ OutageSound
    BY DEF IInv
  <1>1. call[r] = "push" /\ r \in Actors
    BY <1>0 DEF PushRequest, PushBreaks
  <1>2. /\ UNCHANGED <<dvars, crashes, outcome, lost, cleared, fails, kept, reply, ttl>>
        /\ \/ UNCHANGED <<msgs, pushes>>
           \/ msgs' = Append(msgs, r) /\ CountPush(r)
    BY <1>0 DEF PushRequest, PushBreaks
  <1>3. /\ \A s \in Reqs : s # r => pushes'[s] = pushes[s]
        /\ pushes'[r] = pushes[r] \/ (pushes'[r] = pushes[r] + 1 /\ pushes[r] <= tries[r])
    BY <1>0, <1>1, <1>2, PushKeepsBalance
  <1>4. /\ call' \in [Reqs -> Calls]
        /\ verdict' \in [Reqs -> Results \cup {"none", "timeout", "error"}]
        /\ tries' \in [Actors -> 0..1]
        /\ broken' \in 0..MaxFaults /\ broken <= broken' /\ broken' + crashes <= MaxFaults
        /\ \A s \in Reqs : s # r => /\ call'[s] = call[s] /\ verdict'[s] = verdict[s]
                                    /\ tries'[s] = tries[s]
        /\ \/ call'[r] = "done"
           \/ call'[r] = "wait" /\ verdict' = verdict
           \/ call' = call /\ verdict' = verdict /\ tries[r] = 0 /\ tries'[r] = 1
    <2>1. CASE PushRequest(r)
      <3>1. Works(r) /\ call' = [call EXCEPT ![r] = "wait"] /\ verdict' = verdict
        BY <2>1 DEF PushRequest
      <3>2. /\ call' \in [Reqs -> Calls] /\ call'[r] = "wait"
            /\ \A s \in Reqs : s # r => call'[s] = call[s]
            /\ verdict' \in [Reqs -> Results \cup {"none", "timeout", "error"}]
        BY <1>0, <3>1 DEF TypeOK, Calls
      <3> QED
        BY <1>1, <3>1, <3>2, WorksType
    <2>2. CASE PushBreaks(r, done, retried) /\ retried
      BY <1>0, <1>1, <2>2, BreaksType DEF PushBreaks, TypeOK
    <2>3. CASE PushBreaks(r, done, retried) /\ ~ retried
      <3>1. Breaks(r, retried) /\ Return(r, "error")
        BY <2>3 DEF PushBreaks
      <3> QED
        BY <1>1, <3>1, BreaksType, ReturnType
    <2> QED
      BY <2>1, <2>2, <2>3
  <1>5. CallSound'
    <2>1. \A s \in Reqs : pushes[s] \in 0..2
      BY <1>0 DEF TypeOK
    <2> QED
      BY <1>0, <1>1, <1>3, <1>4, <2>1 DEF CallSound
  <1> QED
    BY <1>0, <1>1, <1>2, <1>4, <1>5, CallFrame DEF TypeOK

\* A waiting call takes one answer, or gives up (redis_pop_str, sendKbMsg).
LEMMA WaitIInv ==
    ASSUME IInv, NEW r \in Reqs, NEW done \in BOOLEAN, NEW retried \in BOOLEAN,
           TakeAnswer(r) \/ WaitEnds(r) \/ WaitBreaks(r, done, retried)
    PROVE  IInv'
  <1>0. TypeOK /\ CallSound /\ OutageSound
    BY DEF IInv
  <1>1. call[r] = "wait" /\ r \in Actors /\ reply[r] \in Seq(Results)
    BY <1>0 DEF TakeAnswer, WaitEnds, WaitBreaks, TypeOK
  <1>2. /\ UNCHANGED <<dvars, msgs, crashes, hvars>>
        /\ \/ UNCHANGED <<reply, ttl>>
           \/ /\ reply[r] # <<>>
              /\ reply' = [reply EXCEPT ![r] = Tail(@)]
              /\ ttl' = IF Tail(reply[r]) = <<>> THEN ttl \ {r} ELSE ttl
    BY <1>0 DEF TakeAnswer, WaitEnds, WaitBreaks
  <1>3. /\ call' \in [Reqs -> Calls]
        /\ verdict' \in [Reqs -> Results \cup {"none", "timeout", "error"}]
        /\ tries' \in [Actors -> 0..1]
        /\ broken' \in 0..MaxFaults /\ broken <= broken' /\ broken' + crashes <= MaxFaults
        /\ \A s \in Reqs : s # r => /\ call'[s] = call[s] /\ verdict'[s] = verdict[s]
                                    /\ tries'[s] = tries[s]
        /\ call'[r] = "done" \/ (call' = call /\ verdict' = verdict)
    <2>1. CASE TakeAnswer(r)
      <3>1. Works(r) /\ Return(r, Head(reply[r]))
        BY <2>1 DEF TakeAnswer
      <3>2. Head(reply[r]) \in Results
        BY <1>0, <1>1, <2>1, HeadTailProperties DEF TakeAnswer
      <3> QED
        BY <1>1, <3>1, <3>2, WorksType, ReturnType
    <2>2. CASE WaitEnds(r)
      <3>1. Works(r) /\ Return(r, "timeout")
        BY <2>2 DEF WaitEnds
      <3> QED
        BY <1>1, <3>1, WorksType, ReturnType
    <2>3. CASE WaitBreaks(r, done, retried) /\ retried
      BY <1>0, <1>1, <2>3, BreaksType DEF WaitBreaks, TypeOK
    <2>4. CASE WaitBreaks(r, done, retried) /\ ~ retried
      <3>1. Breaks(r, retried) /\ Return(r, "error")
        BY <2>4 DEF WaitBreaks
      <3> QED
        BY <1>1, <3>1, BreaksType, ReturnType
    <2> QED
      BY <1>0, <2>1, <2>2, <2>3, <2>4
  <1>4. CallSound'
    BY <1>0, <1>1, <1>2, <1>3 DEF CallSound
  <1>5. /\ reply' \in [Reqs -> Seq(Results)] /\ ttl' \in SUBSET Reqs
        /\ \A s \in Reqs : \/ reply'[s] \in {reply[s], <<>>}
                           \/ reply[s] # <<>> /\ reply'[s] = Tail(reply[s])
        /\ \A s \in Reqs : s \in ttl => s \in ttl' \/ reply'[s] = <<>>
    <2>1. CASE UNCHANGED <<reply, ttl>>
      BY <1>0, <2>1 DEF TypeOK
    <2>2. CASE /\ reply[r] # <<>>
               /\ reply' = [reply EXCEPT ![r] = Tail(@)]
               /\ ttl' = IF Tail(reply[r]) = <<>> THEN ttl \ {r} ELSE ttl
      <3>1. Tail(reply[r]) \in Seq(Results)
        BY <1>1, <2>2, HeadTailProperties
      <3> QED
        BY <1>0, <2>2, <3>1 DEF TypeOK
    <2> QED
      BY <1>2, <2>1, <2>2
  <1> QED
    BY <1>2, <1>3, <1>4, <1>5, CallFrame

\* A key goes with its answers (EXPIRE).
LEMMA KeyExpiresIInv ==
    ASSUME IInv, NEW r \in Reqs, KeyExpires(r)
    PROVE  IInv'
  <1>0. TypeOK /\ CallSound /\ OutageSound
    BY DEF IInv
  <1> USE DEF KeyExpires
  <1>1. /\ reply' \in [Reqs -> Seq(Results)]
        /\ \A s \in Reqs : reply'[s] \in {reply[s], <<>>}
        /\ reply'[r] = <<>>
    BY <1>0, EmptySeq DEF TypeOK
  <1>2. CallSound' /\ broken' + crashes <= MaxFaults /\ broken <= broken'
    BY <1>0 DEF CallSound, OutageSound, TypeOK
  <1> QED
    BY <1>0, <1>1, <1>2, CallFrame DEF TypeOK

----------------------------------------------------------------------------
(* Steps of the daemon, and its end.                                       *)

\* What every such step leaves alone, and what it does to the counts.
ServeStep ==
    /\ UNCHANGED <<cvars, pushes>>
    /\ tries' \in [Actors -> 0..1]
    /\ \A r \in Reqs : tries'[r] = tries[r]
    /\ broken' \in 0..MaxFaults /\ crashes' \in 0..MaxCrashes
    /\ broken' + crashes' <= MaxFaults

\* A command of the daemon, well or broken, is such a step.
LEMMA DaemonWorks ==
    ASSUME IInv, Works(Daemon), UNCHANGED <<cvars, pushes, crashes>>
    PROVE  ServeStep /\ broken' = broken
  <1>1. Daemon \in Actors /\ \A r \in Reqs : r # Daemon
    BY DEF KbRpcAssumption
  <1>2. crashes \in 0..MaxCrashes
    BY DEF IInv, TypeOK
  <1> QED
    BY <1>1, <1>2, WorksType DEF ServeStep

LEMMA DaemonBreaks ==
    ASSUME IInv, NEW retried \in BOOLEAN, Breaks(Daemon, retried), UNCHANGED <<cvars, pushes, crashes>>
    PROVE  ServeStep /\ broken' = broken + 1
  <1>1. Daemon \in Actors /\ \A r \in Reqs : r # Daemon
    BY DEF KbRpcAssumption
  <1>2. crashes \in 0..MaxCrashes
    BY DEF IInv, TypeOK
  <1> QED
    BY <1>1, <1>2, BreaksType DEF ServeStep

\* A step without a command, which no command of the daemon's outlives.
LEMMA NoCommand ==
    ASSUME IInv, UNCHANGED <<cvars, pushes, tries, broken, crashes>>
    PROVE  ServeStep
  BY DEF IInv, TypeOK, OutageSound, ServeStep

\* A step that moves the copies of requests from one place to another keeps the
\* balance, and with it the bound on what is lost.
LEMMA BalanceKept ==
    ASSUME IInv, ServeStep, lost' \in [Reqs -> Nat], outcome' \in [Reqs -> Seq(Results)],
           \A r \in Reqs : Copies(r)' + InHand(r)' + Len(outcome'[r]) + lost'[r]
                           = Copies(r) + InHand(r) + Len(outcome[r]) + lost[r]
    PROVE  CallSound' /\ Accounted' /\ lost' \in [Reqs -> 0..2] /\ pushes' \in [Reqs -> 0..2]
  <1>0. TypeOK /\ CallSound /\ Accounted
    BY DEF IInv
  <1>1. CallSound'
    BY <1>0 DEF CallSound, ServeStep
  <1>2. pushes' = pushes /\ pushes' \in [Reqs -> 0..2]
    BY <1>0 DEF ServeStep, TypeOK
  <1>3. ASSUME NEW r \in Reqs
        PROVE  /\ pushes'[r] = Copies(r)' + InHand(r)' + Len(outcome'[r]) + lost'[r]
               /\ lost'[r] \in 0..2
    <2>1. pushes[r] = Copies(r) + InHand(r) + Len(outcome[r]) + lost[r] /\ pushes'[r] = pushes[r]
      BY <1>0, <1>2 DEF Accounted
    <2>2. Copies(r)' \in 0..2 /\ InHand(r)' \in 0..1
      BY CopiesDef, CopiesType DEF InHand
    <2>3. Len(outcome'[r]) \in Nat /\ lost'[r] \in Nat /\ pushes'[r] \in 0..2
      BY <1>2, LenProperties
    <2> HIDE DEF Copies, InHand
    <2> QED
      BY <2>1, <2>2, <2>3
  <1>4. Accounted'
    BY <1>3 DEF Accounted
  <1> QED
    BY <1>1, <1>2, <1>3, <1>4

\* A step around the daemon's list: the answers stay, and those of a request it
\* was about to answer are known to stay.
LEMMA QueueFrame ==
    ASSUME IInv, ServeStep, UNCHANGED <<reply, ttl, outcome>>,
           dpc \in {"answer", "expire"} => cur \in kept',
           kept \subseteq kept', kept' \in SUBSET Reqs,
           dpc' \in Dpcs \ {"answer", "expire"}, cur' \in Actors,
           (cur' # NoReq) <=> (dpc' \in {"clear", "run"}),
           res' \in Results \cup {"none"},
           gid' \in 0..MaxGid, fails' \in Nat, gid' <= fails', fails' <= broken',
           dpc' = "clear" => gid' = MaxGid,
           cleared' \in SUBSET Reqs,
           msgs' \in Seq(Reqs), ListSound', lost' \in [Reqs -> Nat],
           \A r \in Reqs : Copies(r)' + InHand(r)' + Len(outcome'[r]) + lost'[r]
                           = Copies(r) + InHand(r) + Len(outcome[r]) + lost[r]
    PROVE  IInv'
  <1>0. TypeOK /\ RepliesSound /\ AnswersExpire
    BY DEF IInv
  <1>1. CallSound' /\ Accounted' /\ lost' \in [Reqs -> 0..2] /\ pushes' \in [Reqs -> 0..2]
    BY <1>0, BalanceKept DEF TypeOK
  <1>2. fails' \in 0..MaxFaults
    BY DEF ServeStep, KbRpcAssumption
  <1>3. TypeOK'
    BY <1>0, <1>1, <1>2 DEF TypeOK, ServeStep
  <1>4. HandSound' /\ OutageSound'
    BY DEF HandSound, OutageSound, ServeStep
  <1>5. RepliesSound' /\ AnswersExpire'
    BY <1>0 DEF RepliesSound, AnswersExpire
  <1> QED
    BY <1>1, <1>3, <1>4, <1>5 DEF IInv

\* Clearing empties list and hands, whatever was there (startKbMsg, clearOldMsgs).
LEMMA ClearListIInv ==
    ASSUME IInv, ServeStep, ClearList, broken <= broken',
           UNCHANGED <<res, reply, ttl, outcome, fails, kept>>
    PROVE  IInv'
  <1>0. TypeOK /\ OutageSound
    BY DEF IInv
  <1>1. /\ msgs' = <<>> /\ dpc' = "recv" /\ cur' = NoReq /\ gid' = 0
        /\ dpc \in {"start", "clear"} /\ cleared' \in SUBSET Reqs
    BY <1>0 DEF ClearList, TypeOK
  <1>2. msgs' \in Seq(Reqs) /\ ListSound'
    BY <1>1, EmptySeq, CopiesDef, CopiesEmpty
  <1>3. lost' \in [Reqs -> Nat]
    <2>1. \A r \in Reqs : lost[r] + Copies(r) + InHand(r) \in Nat
      BY <1>0, Counts
    <2> QED
      BY <2>1 DEF ClearList
  <1>4. ASSUME NEW r \in Reqs
        PROVE  Copies(r)' + InHand(r)' + Len(outcome'[r]) + lost'[r]
               = Copies(r) + InHand(r) + Len(outcome[r]) + lost[r]
    <2>1. Copies(r)' = 0 /\ InHand(r)' = 0
      BY <1>1, CopiesDef, CopiesEmpty DEF InHand
    <2>2. lost'[r] = lost[r] + Copies(r) + InHand(r) /\ outcome' = outcome
      BY DEF ClearList
    <2>3. Copies(r) \in 0..2 /\ InHand(r) \in 0..1 /\ Len(outcome[r]) \in Nat /\ lost[r] \in 0..2
      BY <1>0, Counts
    <2> HIDE DEF Copies, InHand
    <2> QED
      BY <2>1, <2>2, <2>3
  <1>5. /\ fails' \in Nat /\ fails' <= broken' /\ gid' <= fails' /\ gid' \in 0..MaxGid
        /\ res' \in Results \cup {"none"} /\ kept' = kept /\ kept' \in SUBSET Reqs
    BY <1>0, <1>1 DEF TypeOK, OutageSound, ServeStep
  <1>6. dpc' \in Dpcs \ {"answer", "expire"} /\ cur' \in Actors
    BY <1>1 DEF Dpcs
  <1> HIDE DEF ClearList
  <1> QED
    BY <1>1, <1>2, <1>3, <1>4, <1>5, <1>6, QueueFrame

\* The list is cleared before the first receive and after an outage; a clearing
\* that breaks may have emptied the list all the same (redis_cmd).
LEMMA ClearIInv ==
    ASSUME IInv, NEW done \in BOOLEAN, NEW retried \in BOOLEAN,
           Clear \/ ClearBreaks(done, retried)
    PROVE  IInv'
  <1>0. TypeOK /\ OutageSound /\ HandSound /\ ListSound
    BY DEF IInv
  <1>1. CASE Clear
    <2>1. ServeStep /\ broken' = broken
      BY <1>1, DaemonWorks DEF Clear
    <2>2. broken <= broken'
      BY <1>0, <2>1 DEF TypeOK
    <2> QED
      BY <1>1, <2>1, <2>2, ClearListIInv DEF Clear
  <1>2. CASE ClearBreaks(done, retried)
    <2>1. /\ ServeStep /\ broken' = broken + 1 /\ dpc \in {"start", "clear"}
          /\ UNCHANGED <<res, reply, ttl, outcome, fails, kept>>
      BY <1>2, DaemonBreaks DEF ClearBreaks
    <2>2. /\ broken \in Nat /\ fails \in Nat /\ fails <= broken /\ broken' \in Nat
          /\ gid \in 0..MaxGid /\ gid <= fails /\ broken <= broken' /\ fails <= broken'
          /\ res' \in Results \cup {"none"} /\ kept' \in SUBSET Reqs
          /\ cur \in Actors /\ cleared \in SUBSET Reqs
      BY <1>0, <2>1 DEF TypeOK, OutageSound
    <2>3. CASE done /\ ~ retried
      BY <1>2, <2>1, <2>2, <2>3, ClearListIInv DEF ClearBreaks
    <2>4. CASE done /\ retried
      <3>1. /\ msgs' = <<>> /\ UNCHANGED <<dpc, cur, gid>> /\ cleared' \in SUBSET Reqs
            /\ lost' = [r \in Reqs |-> lost[r] + Copies(r)]
        BY <1>2, <2>2, <2>4 DEF ClearBreaks
      <3>2. msgs' \in Seq(Reqs) /\ ListSound'
        BY <3>1, EmptySeq, CopiesDef, CopiesEmpty
      <3>3. lost' \in [Reqs -> Nat]
        <4>1. ASSUME NEW r \in Reqs PROVE lost[r] + Copies(r) \in Nat
          <5>1. lost[r] \in 0..2 /\ Copies(r) \in 0..2 /\ InHand(r) \in 0..1
            BY <1>0, Counts
          <5> HIDE DEF Copies, InHand
          <5> QED
            BY <5>1
        <4> QED
          BY <3>1, <4>1
      <3>4. ASSUME NEW r \in Reqs
            PROVE  Copies(r)' + InHand(r)' + Len(outcome'[r]) + lost'[r]
                   = Copies(r) + InHand(r) + Len(outcome[r]) + lost[r]
        <4>1. Copies(r)' = 0 /\ InHand(r)' = InHand(r)
          BY <3>1, CopiesDef, CopiesEmpty DEF InHand
        <4>2. lost'[r] = lost[r] + Copies(r) /\ outcome' = outcome
          BY <2>1, <3>1
        <4>3. Copies(r) \in 0..2 /\ InHand(r) \in 0..1 /\ Len(outcome[r]) \in Nat /\ lost[r] \in 0..2
          BY <1>0, Counts
        <4> HIDE DEF Copies, InHand
        <4> QED
          BY <4>1, <4>2, <4>3
      <3>5. /\ dpc' \in Dpcs \ {"answer", "expire"} /\ cur' \in Actors
            /\ (cur' # NoReq) <=> (dpc' \in {"clear", "run"})
            /\ dpc' = "clear" => gid' = MaxGid
        BY <1>0, <2>1, <2>2, <3>1 DEF HandSound, OutageSound, Dpcs
      <3> QED
        BY <2>1, <2>2, <3>1, <3>2, <3>3, <3>4, <3>5, QueueFrame
    <2>5. CASE ~ done /\ retried
      <3>1. UNCHANGED <<msgs, lost, cleared, dpc, cur, gid>>
        BY <1>2, <2>5 DEF ClearBreaks
      <3>2. msgs' \in Seq(Reqs) /\ ListSound' /\ lost' \in [Reqs -> Nat]
        <4>1. ListSound'
          BY <1>0, <3>1 DEF ListSound
        <4>2. msgs' \in Seq(Reqs) /\ lost \in [Reqs -> 0..2] /\ lost' = lost
          BY <1>0, <3>1 DEF TypeOK
        <4> QED
          BY <4>1, <4>2
      <3>3. ASSUME NEW r \in Reqs
            PROVE  Copies(r)' + InHand(r)' + Len(outcome'[r]) + lost'[r]
                   = Copies(r) + InHand(r) + Len(outcome[r]) + lost[r]
        BY <2>1, <3>1 DEF Copies, InHand
      <3>4. /\ dpc' \in Dpcs \ {"answer", "expire"} /\ cur' \in Actors
            /\ (cur' # NoReq) <=> (dpc' \in {"clear", "run"})
            /\ dpc' = "clear" => gid' = MaxGid
        BY <1>0, <2>1, <2>2, <3>1 DEF HandSound, OutageSound, Dpcs
      <3> QED
        BY <2>1, <2>2, <3>1, <3>2, <3>3, <3>4, QueueFrame
    <2>6. CASE ~ done /\ ~ retried
      <3>1. /\ UNCHANGED msgs /\ dpc' = "recv" /\ cur' = NoReq /\ gid' = 0
            /\ cleared' \in SUBSET Reqs
            /\ lost' = [r \in Reqs |-> lost[r] + InHand(r)]
        BY <1>2, <2>2, <2>6 DEF ClearBreaks
      <3>2. msgs' \in Seq(Reqs) /\ ListSound'
        BY <1>0, <3>1 DEF TypeOK, ListSound
      <3>3. lost' \in [Reqs -> Nat]
        <4>1. ASSUME NEW r \in Reqs PROVE lost[r] + InHand(r) \in Nat
          <5>1. lost[r] \in 0..2 /\ Copies(r) \in 0..2 /\ InHand(r) \in 0..1
            BY <1>0, Counts
          <5> HIDE DEF Copies, InHand
          <5> QED
            BY <5>1
        <4> QED
          BY <3>1, <4>1
      <3>4. ASSUME NEW r \in Reqs
            PROVE  Copies(r)' + InHand(r)' + Len(outcome'[r]) + lost'[r]
                   = Copies(r) + InHand(r) + Len(outcome[r]) + lost[r]
        <4>1. Copies(r)' = Copies(r) /\ InHand(r)' = 0
          BY <3>1, CopiesDef DEF InHand
        <4>2. lost'[r] = lost[r] + InHand(r) /\ outcome' = outcome
          BY <2>1, <3>1
        <4>3. Copies(r) \in 0..2 /\ InHand(r) \in 0..1 /\ Len(outcome[r]) \in Nat /\ lost[r] \in 0..2
          BY <1>0, Counts
        <4> HIDE DEF Copies, InHand
        <4> QED
          BY <4>1, <4>2, <4>3
      <3>5. dpc' \in Dpcs \ {"answer", "expire"} /\ cur' \in Actors
        BY <3>1 DEF Dpcs
      <3> QED
        BY <2>1, <2>2, <3>1, <3>2, <3>3, <3>4, <3>5, QueueFrame
    <2> QED
      BY <2>3, <2>4, <2>5, <2>6
  <1> QED
    BY <1>1, <1>2

\* Popping takes the oldest request off the list.
LEMMA HeadTaken ==
    ASSUME IInv, msgs # <<>>, msgs' = Tail(msgs)
    PROVE  /\ Head(msgs) \in Reqs /\ msgs' \in Seq(Reqs) /\ ListSound'
           /\ \A r \in Reqs : Copies(r) = Copies(r)' + (IF r = Head(msgs) THEN 1 ELSE 0)
  <1>1. msgs \in Seq(Reqs) /\ NoTriple(msgs)
    BY CopiesDef DEF IInv, TypeOK
  <1>2. /\ NoTriple(msgs')
        /\ CopiesIn(msgs, Head(msgs)) = CopiesIn(msgs', Head(msgs)) + 1
        /\ \A s \in Reqs : s # Head(msgs) => CopiesIn(msgs', s) = CopiesIn(msgs, s)
    BY <1>1, CopiesTail
  <1>3. Head(msgs) \in Reqs /\ msgs' \in Seq(Reqs)
    BY <1>1, HeadTailProperties
  <1>4. ASSUME NEW r \in Reqs
        PROVE  Copies(r) = Copies(r)' + (IF r = Head(msgs) THEN 1 ELSE 0)
    <2>1. Copies(r) = CopiesIn(msgs, r) /\ Copies(r)' = CopiesIn(msgs', r)
      BY CopiesDef
    <2>2. CopiesIn(msgs', r) \in 0..2
      BY CopiesType
    <2> HIDE DEF Copies, CopiesIn
    <2> QED
      BY <1>2, <2>1, <2>2
  <1> QED
    BY <1>2, <1>3, <1>4, CopiesDef

\* What the daemon receives moves from the list into its hands (redis_pop_str).
LEMMA ReceiveIInv == ASSUME IInv, Receive PROVE IInv'
  <1>0. TypeOK /\ OutageSound /\ HandSound
    BY DEF IInv
  <1>1. /\ dpc = "recv" /\ msgs # <<>> /\ msgs' = Tail(msgs) /\ cur' = Head(msgs)
        /\ UNCHANGED <<res, reply, ttl, outcome, lost, cleared, kept>>
        /\ \/ dpc' = "clear" /\ gid' = MaxGid /\ gid' = gid /\ fails' = fails
           \/ dpc' = "run" /\ gid' = 0 /\ fails' = 0
    BY DEF Receive
  <1>2. ServeStep /\ broken' = broken
    BY DaemonWorks DEF Receive
  <1>3. /\ cur' \in Reqs /\ msgs' \in Seq(Reqs) /\ ListSound'
        /\ \A r \in Reqs : Copies(r) = Copies(r)' + (IF r = cur' THEN 1 ELSE 0)
    BY <1>1, HeadTaken
  <1>4. lost' \in [Reqs -> Nat] /\ res' \in Results \cup {"none"}
        /\ cleared' \in SUBSET Reqs /\ kept' = kept /\ kept' \in SUBSET Reqs
    <2>1. lost' \in [Reqs -> 0..2]
      BY <1>0, <1>1 DEF TypeOK
    <2>2. lost' \in [Reqs -> Nat]
      BY <2>1
    <2> QED
      BY <1>0, <1>1, <2>2 DEF TypeOK
  <1>5. /\ gid' \in 0..MaxGid /\ fails' \in Nat /\ gid' <= fails' /\ fails' <= broken'
        /\ dpc' = "clear" => gid' = MaxGid
    BY <1>0, <1>1, <1>2 DEF TypeOK, OutageSound
  <1>6. /\ dpc' \in Dpcs \ {"answer", "expire"} /\ cur' \in Actors
        /\ (cur' # NoReq) <=> (dpc' \in {"clear", "run"})
    BY <1>1, <1>3 DEF Dpcs, KbRpcAssumption
  <1>7. ASSUME NEW r \in Reqs
        PROVE  Copies(r)' + InHand(r)' + Len(outcome'[r]) + lost'[r]
               = Copies(r) + InHand(r) + Len(outcome[r]) + lost[r]
    <2>1. Copies(r) \in 0..2 /\ Len(outcome[r]) \in Nat /\ lost[r] \in 0..2
      BY <1>0, Counts
    <2>2. Copies(r)' \in 0..2
      BY CopiesDef, CopiesType
    <2>3. InHand(r) = 0 /\ InHand(r)' = IF r = cur' THEN 1 ELSE 0
      BY <1>1 DEF InHand
    <2>4. Copies(r) = Copies(r)' + InHand(r)'
      BY <1>3, <2>3
    <2> HIDE DEF Copies, InHand
    <2> QED
      BY <1>1, <2>1, <2>2, <2>3, <2>4
  <1> QED
    BY <1>1, <1>2, <1>3, <1>4, <1>5, <1>6, <1>7, QueueFrame

\* With nothing received, or in the pause after a failure, no request moves.
LEMMA IdleIInv == ASSUME IInv, ReceiveNone \/ PauseEnds \/ Restart PROVE IInv'
  <1>0. TypeOK /\ OutageSound /\ HandSound /\ ListSound
    BY DEF IInv
  <1>1. /\ dpc \in {"recv", "pause", "down"} /\ dpc' \in {"recv", "start"}
        /\ UNCHANGED <<cur, res, msgs, reply, ttl, outcome, lost, cleared, kept>>
        /\ \/ gid' = 0 /\ fails' = 0
           \/ gid' = gid /\ fails' = fails
    BY DEF ReceiveNone, PauseEnds, Restart
  <1>2. ServeStep /\ broken' = broken
    BY DaemonWorks, NoCommand DEF ReceiveNone, PauseEnds, Restart
  <1>3. /\ lost' \in [Reqs -> Nat] /\ res' \in Results \cup {"none"} /\ cur' \in Actors
        /\ cleared' \in SUBSET Reqs /\ kept' \in SUBSET Reqs /\ msgs' \in Seq(Reqs)
    <2>1. lost' \in [Reqs -> 0..2]
      BY <1>0, <1>1 DEF TypeOK
    <2>2. lost' \in [Reqs -> Nat]
      BY <2>1
    <2> QED
      BY <1>0, <1>1, <2>2 DEF TypeOK
  <1>4. gid' \in 0..MaxGid /\ fails' \in Nat /\ gid' <= fails' /\ fails' <= broken'
    BY <1>0, <1>1, <1>2 DEF TypeOK, OutageSound
  <1>5. ListSound' /\ dpc' \in Dpcs \ {"answer", "expire"}
    BY <1>0, <1>1 DEF ListSound, Dpcs
  <1>6. (cur' # NoReq) <=> (dpc' \in {"clear", "run"})
    BY <1>0, <1>1 DEF HandSound
  <1>7. ASSUME NEW r \in Reqs
        PROVE  Copies(r)' + InHand(r)' + Len(outcome'[r]) + lost'[r]
               = Copies(r) + InHand(r) + Len(outcome[r]) + lost[r]
    <2>1. Copies(r)' = Copies(r) /\ InHand(r)' = InHand(r)
      BY <1>1 DEF Copies, InHand
    <2> QED
      BY <1>1, <2>1
  <1> QED
    BY <1>1, <1>2, <1>3, <1>4, <1>5, <1>6, <1>7, QueueFrame

\* A receive that breaks loses what it may have popped; failures add up to the
\* most the pause knows (startKbMsg).
LEMMA ReceiveBreaksIInv ==
    ASSUME IInv, NEW done \in BOOLEAN, NEW retried \in BOOLEAN, ReceiveBreaks(done, retried)
    PROVE  IInv'
  <1>0. TypeOK /\ OutageSound /\ HandSound /\ ListSound
    BY DEF IInv
  <1>1. /\ dpc = "recv" /\ UNCHANGED <<cur, res, reply, ttl, outcome, cleared, kept>>
        /\ \/ UNCHANGED <<msgs, lost>>
           \/ /\ msgs # <<>> /\ msgs' = Tail(msgs)
              /\ lost' = [lost EXCEPT ![Head(msgs)] = @ + 1]
        /\ \/ UNCHANGED <<dpc, gid, fails>>
           \/ /\ dpc' = "pause" /\ fails' = fails + 1
              /\ gid' = IF gid < MaxGid THEN gid + 1 ELSE gid
    BY DEF ReceiveBreaks, LoseHead
  <1>2. ServeStep /\ broken' = broken + 1
    BY DaemonBreaks DEF ReceiveBreaks
  <1>3. /\ res' \in Results \cup {"none"} /\ cur' \in Actors
        /\ cleared' \in SUBSET Reqs /\ kept' = kept /\ kept' \in SUBSET Reqs
    BY <1>0, <1>1 DEF TypeOK
  <1>4. gid' \in 0..MaxGid /\ fails' \in Nat /\ gid' <= fails' /\ fails' <= broken'
    <2>1. /\ gid \in 0..MaxGid /\ fails \in Nat /\ broken \in Nat
          /\ gid <= fails /\ fails <= broken
      BY <1>0 DEF TypeOK, OutageSound
    <2> QED
      BY <1>1, <1>2, <2>1
  <1>5. /\ dpc' \in Dpcs \ {"answer", "expire"} /\ dpc' # "clear"
        /\ (cur' # NoReq) <=> (dpc' \in {"clear", "run"})
    BY <1>0, <1>1 DEF Dpcs, HandSound
  <1>6. \A r \in Reqs : InHand(r) = 0 /\ InHand(r)' = 0
    BY <1>1 DEF InHand
  <1>7. CASE UNCHANGED <<msgs, lost>>
    <2>1. msgs' \in Seq(Reqs) /\ lost' \in [Reqs -> Nat]
      <3>1. msgs' \in Seq(Reqs) /\ lost' \in [Reqs -> 0..2]
        BY <1>0, <1>7 DEF TypeOK
      <3> QED
        BY <3>1
    <2>2. ListSound' /\ \A r \in Reqs : Copies(r)' = Copies(r)
      BY <1>0, <1>7 DEF ListSound, Copies
    <2>3. \A r \in Reqs : Copies(r)' + InHand(r)' + Len(outcome'[r]) + lost'[r]
                          = Copies(r) + InHand(r) + Len(outcome[r]) + lost[r]
      BY <1>1, <1>6, <1>7, <2>2
    <2> QED
      BY <1>1, <1>2, <1>3, <1>4, <1>5, <2>1, <2>2, <2>3, QueueFrame
  <1>8. CASE /\ msgs # <<>> /\ msgs' = Tail(msgs)
             /\ lost' = [lost EXCEPT ![Head(msgs)] = @ + 1]
    <2>1. /\ Head(msgs) \in Reqs /\ msgs' \in Seq(Reqs) /\ ListSound'
          /\ \A r \in Reqs : Copies(r) = Copies(r)' + (IF r = Head(msgs) THEN 1 ELSE 0)
      BY <1>8, HeadTaken
    <2>2. /\ lost' \in [Reqs -> Nat] /\ lost'[Head(msgs)] = lost[Head(msgs)] + 1
          /\ \A r \in Reqs : r # Head(msgs) => lost'[r] = lost[r]
      <3>1. lost \in [Reqs -> 0..2]
        BY <1>0 DEF TypeOK
      <3> QED
        BY <1>8, <2>1, <3>1
    <2>3. ASSUME NEW r \in Reqs
          PROVE  Copies(r)' + InHand(r)' + Len(outcome'[r]) + lost'[r]
                 = Copies(r) + InHand(r) + Len(outcome[r]) + lost[r]
      <3>1. Copies(r) \in 0..2 /\ Len(outcome[r]) \in Nat /\ lost[r] \in 0..2
        BY <1>0, Counts
      <3>2. Copies(r)' \in 0..2
        BY CopiesDef, CopiesType
      <3>3. Copies(r)' + lost'[r] = Copies(r) + lost[r]
        <4>1. CASE r = Head(msgs)
          <5>1. Copies(r) = Copies(r)' + 1 /\ lost'[r] = lost[r] + 1
            BY <2>1, <2>2, <4>1
          <5> HIDE DEF Copies
          <5> QED
            BY <3>1, <3>2, <5>1
        <4>2. CASE r # Head(msgs)
          <5>1. Copies(r) = Copies(r)' + 0 /\ lost'[r] = lost[r]
            BY <2>1, <2>2, <4>2
          <5> HIDE DEF Copies
          <5> QED
            BY <3>1, <3>2, <5>1
        <4> QED
          BY <4>1, <4>2
      <3>4. lost'[r] \in Nat /\ InHand(r) = 0 /\ InHand(r)' = 0 /\ outcome' = outcome
        BY <1>1, <1>6, <2>2
      <3>5. Len(outcome'[r]) = Len(outcome[r])
        BY <3>4
      <3> HIDE DEF Copies, InHand
      <3> QED
        BY <3>1, <3>2, <3>3, <3>4, <3>5
    <2> QED
      BY <1>1, <1>2, <1>3, <1>4, <1>5, <2>1, <2>2, <2>3, QueueFrame
  <1> QED
    BY <1>1, <1>7, <1>8

\* A crash loses what the daemon holds, and leaves an answer under way as it is.
LEMMA CrashIInv == ASSUME IInv, Crash PROVE IInv'
  <1>0. TypeOK /\ OutageSound /\ HandSound /\ ListSound
    BY DEF IInv
  <1>1. /\ dpc' = "down" /\ cur' = NoReq /\ res' = "none" /\ gid' = 0 /\ fails' = 0
        /\ UNCHANGED <<call, verdict, msgs, reply, ttl, broken, pushes, outcome, cleared>>
        /\ lost' = [r \in Reqs |-> lost[r] + InHand(r)]
        /\ kept' = IF dpc \in {"answer", "expire"} THEN kept \cup {cur} ELSE kept
        /\ crashes' = crashes + 1 /\ crashes < MaxCrashes /\ broken + crashes < MaxFaults
        /\ tries' = [tries EXCEPT ![Daemon] = 0]
    BY DEF Crash, FaultsLeft
  <1>2. ServeStep
    <2>1. tries' \in [Actors -> 0..1] /\ \A r \in Reqs : tries'[r] = tries[r]
      BY <1>0, <1>1 DEF TypeOK, KbRpcAssumption
    <2>2. /\ crashes' \in 0..MaxCrashes /\ broken' \in 0..MaxFaults
          /\ broken' + crashes' <= MaxFaults
      BY <1>0, <1>1 DEF TypeOK, KbRpcAssumption
    <2> QED
      BY <1>1, <2>1, <2>2 DEF ServeStep
  <1>3. /\ kept' \in SUBSET Reqs /\ kept \subseteq kept'
        /\ dpc \in {"answer", "expire"} => cur \in kept'
    <2>1. dpc \in {"answer", "expire"} => cur \in Reqs
      BY <1>0 DEF TypeOK, HandSound
    <2> QED
      BY <1>0, <1>1, <2>1 DEF TypeOK
  <1>4. /\ cleared' \in SUBSET Reqs /\ msgs' \in Seq(Reqs) /\ broken' \in Nat
        /\ dpc' \in Dpcs \ {"answer", "expire"} /\ cur' \in Actors
    BY <1>0, <1>1 DEF TypeOK, Dpcs
  <1>5. ListSound' /\ \A r \in Reqs : Copies(r)' = Copies(r) /\ InHand(r)' = 0
    <2>1. ListSound'
      BY <1>0, <1>1 DEF ListSound
    <2>2. \A r \in Reqs : Copies(r)' = Copies(r) /\ InHand(r)' = 0
      BY <1>1 DEF Copies, InHand
    <2> QED
      BY <2>1, <2>2
  <1>6. lost' \in [Reqs -> Nat]
    <2>1. ASSUME NEW r \in Reqs PROVE lost[r] + InHand(r) \in Nat
      <3>1. lost[r] \in 0..2 /\ InHand(r) \in 0..1
        BY <1>0, Counts
      <3> HIDE DEF InHand
      <3> QED
        BY <3>1
    <2> QED
      BY <1>1, <2>1
  <1>7. ASSUME NEW r \in Reqs
        PROVE  Copies(r)' + InHand(r)' + Len(outcome'[r]) + lost'[r]
               = Copies(r) + InHand(r) + Len(outcome[r]) + lost[r]
    <2>1. /\ Copies(r) \in 0..2 /\ InHand(r) \in 0..1
          /\ Len(outcome[r]) \in Nat /\ lost[r] \in 0..2
      BY <1>0, Counts
    <2>2. lost'[r] = lost[r] + InHand(r) /\ outcome' = outcome
      BY <1>1
    <2> HIDE DEF Copies, InHand
    <2> QED
      BY <1>5, <2>1, <2>2
  <1> QED
    BY <1>1, <1>2, <1>3, <1>4, <1>5, <1>6, <1>7, QueueFrame

\* From the handler to the time to live, the daemon has a request, and then the
\* result of one of its runs.
LEMMA InService ==
    ASSUME IInv, dpc \in {"run", "answer", "expire"}
    PROVE  /\ cur \in Reqs /\ cur # NoReq /\ outcome[cur] \in Seq(Results)
           /\ reply[cur] \in Seq(Results)
           /\ dpc # "run" => res \in Results
  <1>1. cur \in Reqs /\ cur # NoReq
    BY DEF IInv, TypeOK, HandSound, KbRpcAssumption
  <1>2. outcome[cur] \in Seq(Results) /\ reply[cur] \in Seq(Results)
    BY <1>1 DEF IInv, TypeOK
  <1>3. ASSUME dpc # "run" PROVE res \in Results
    <2>1. PICK i \in 1..Len(outcome[cur]) : outcome[cur][i] = res
      BY <1>3 DEF IInv, HandSound
    <2> QED
      BY <1>2, <2>1, ElementOfSeq
  <1> QED
    BY <1>1, <1>2, <1>3

\* A step around one answer: the list stays; runs are added, never undone.
LEMMA AnswerFrame ==
    ASSUME IInv, ServeStep, UNCHANGED <<msgs, lost, cleared, fails, gid>>, broken <= broken',
           dpc \in {"run", "answer", "expire"},
           \/ dpc' \in {"answer", "expire"} /\ cur' = cur
           \/ dpc' = "recv" /\ cur' = NoReq,
           res' \in Results \cup {"none"},
           outcome' \in [Reqs -> Seq(Results)],
           \A r \in Reqs : Len(outcome'[r]) + InHand(r)' = Len(outcome[r]) + InHand(r),
           reply' \in [Reqs -> Seq(Results)], ttl' \in SUBSET Reqs, kept' \in SUBSET Reqs,
           dpc' \in {"answer", "expire"} =>
               \E i \in 1..Len(outcome'[cur']) : outcome'[cur'][i] = res',
           RepliesSound', AnswersExpire'
    PROVE  IInv'
  <1>0. TypeOK /\ OutageSound /\ ListSound
    BY DEF IInv
  <1>1. cur \in Reqs /\ cur # NoReq
    BY InService
  <1>2. lost' \in [Reqs -> Nat]
    <2>1. lost' \in [Reqs -> 0..2]
      BY <1>0 DEF TypeOK
    <2> QED
      BY <2>1
  <1>3. ASSUME NEW r \in Reqs
        PROVE  Copies(r)' + InHand(r)' + Len(outcome'[r]) + lost'[r]
               = Copies(r) + InHand(r) + Len(outcome[r]) + lost[r]
    <2>1. /\ Copies(r) \in 0..2 /\ InHand(r) \in 0..1
          /\ Len(outcome[r]) \in Nat /\ lost[r] \in 0..2
      BY <1>0, Counts
    <2>2. Copies(r)' = Copies(r) /\ lost' = lost
      BY DEF Copies
    <2>3. InHand(r)' \in 0..1
      BY DEF InHand
    <2>4. Len(outcome'[r]) \in Nat
      BY LenProperties
    <2>5. Len(outcome'[r]) + InHand(r)' = Len(outcome[r]) + InHand(r)
      OBVIOUS
    <2> HIDE DEF Copies, InHand
    <2> QED
      BY <2>1, <2>2, <2>3, <2>4, <2>5
  <1>4. CallSound' /\ Accounted' /\ lost' \in [Reqs -> 0..2] /\ pushes' \in [Reqs -> 0..2]
    BY <1>2, <1>3, BalanceKept
  <1>5. dpc' \in Dpcs /\ cur' \in Actors
    BY <1>1 DEF Dpcs
  <1>6. TypeOK'
    BY <1>0, <1>4, <1>5 DEF TypeOK, ServeStep
  <1>7. ListSound' /\ HandSound'
    BY <1>0, <1>1 DEF ListSound, HandSound
  <1>8. OutageSound'
    <2>1. fails \in Nat /\ broken \in Nat /\ broken' \in Nat /\ fails <= broken /\ gid <= fails
      BY <1>0, <1>6 DEF TypeOK, OutageSound
    <2> QED
      BY <2>1 DEF OutageSound, ServeStep
  <1> QED
    BY <1>4, <1>6, <1>7, <1>8 DEF IInv

\* The handler runs once for what the daemon holds (processMsg).
LEMMA HandleIInv == ASSUME IInv, NEW v \in Results, Handle(v) PROVE IInv'
  <1>0. TypeOK /\ RepliesSound /\ AnswersExpire
    BY DEF IInv
  <1>1. /\ dpc = "run" /\ dpc' = "answer" /\ res' = v
        /\ outcome' = [outcome EXCEPT ![cur] = Append(@, v)]
        /\ UNCHANGED <<cvars, cur, gid, kvars, tries, broken, crashes, pushes, lost, cleared,
                       fails, kept>>
    BY DEF Handle
  <1>2. cur \in Reqs /\ cur # NoReq /\ outcome[cur] \in Seq(Results)
    BY <1>1, InService
  <1>3. /\ Len(outcome[cur]) \in Nat
        /\ Append(outcome[cur], v) \in Seq(Results)
        /\ Len(Append(outcome[cur], v)) = Len(outcome[cur]) + 1
        /\ Append(outcome[cur], v)[Len(outcome[cur]) + 1] = v
        /\ \A i \in 1..Len(outcome[cur]) : Append(outcome[cur], v)[i] = outcome[cur][i]
    BY <1>2, AppendProperties, LenProperties
  <1>4. /\ outcome' \in [Reqs -> Seq(Results)]
        /\ outcome'[cur] = Append(outcome[cur], v)
        /\ \A r \in Reqs : r # cur => outcome'[r] = outcome[r]
    BY <1>0, <1>1, <1>2, <1>3 DEF TypeOK
  <1>5. ASSUME NEW r \in Reqs
        PROVE  /\ Len(outcome'[r]) + InHand(r)' = Len(outcome[r]) + InHand(r)
               /\ \A i \in 1..Len(outcome[r]) : /\ i \in 1..Len(outcome'[r])
                                                /\ outcome'[r][i] = outcome[r][i]
    <2>1. CASE r = cur
      <3>1. InHand(r) = 1 /\ InHand(r)' = 0
        BY <1>1, <2>1 DEF InHand
      <3> QED
        BY <1>3, <1>4, <2>1, <3>1
    <2>2. CASE r # cur
      <3>1. InHand(r) = 0 /\ InHand(r)' = 0
        BY <1>1, <2>2 DEF InHand
      <3> QED
        BY <1>4, <2>2, <3>1
    <2> QED
      BY <2>1, <2>2
  <1>6. RepliesSound'
    BY <1>0, <1>1, <1>5 DEF RepliesSound
  <1>7. AnswersExpire'
    BY <1>0, <1>1 DEF AnswersExpire
  <1>8. \E i \in 1..Len(outcome'[cur']) : outcome'[cur'][i] = res'
    BY <1>1, <1>3, <1>4
  <1>9. /\ reply' \in [Reqs -> Seq(Results)] /\ ttl' \in SUBSET Reqs /\ kept' \in SUBSET Reqs
        /\ broken <= broken'
    BY <1>0, <1>1 DEF TypeOK
  <1>10. ServeStep
    BY <1>1, NoCommand
  <1> QED
    BY <1>1, <1>4, <1>5, <1>6, <1>7, <1>8, <1>9, <1>10, AnswerFrame

\* The result goes to the request's own uuid, once, or a second time when the
\* first push broke (redis_push_str).
LEMMA AnswerIInv ==
    ASSUME IInv, NEW done \in BOOLEAN, NEW retried \in BOOLEAN,
           PushAnswer \/ AnswerBreaks(done, retried)
    PROVE  IInv'
  <1>0. TypeOK /\ RepliesSound /\ AnswersExpire /\ HandSound
    BY DEF IInv
  <1>1. /\ dpc = "answer"
        /\ UNCHANGED <<gid, msgs, ttl, outcome, lost, cleared, fails>>
        /\ reply' = reply \/ reply' = [reply EXCEPT ![cur] = Append(@, res)]
        /\ \/ dpc' \in {"answer", "expire"} /\ cur' = cur /\ res' = res /\ kept' = kept
           \/ dpc' = "recv" /\ cur' = NoReq /\ res' = "none" /\ kept' = kept \cup {cur}
    BY DEF PushAnswer, AnswerBreaks, NextRound
  <1>2. cur \in Reqs /\ cur # NoReq /\ res \in Results /\ reply[cur] \in Seq(Results)
    BY <1>1, InService
  <1>3. ServeStep /\ broken <= broken'
    <2>1. ServeStep /\ (broken' = broken \/ broken' = broken + 1)
      BY DaemonWorks, DaemonBreaks DEF PushAnswer, AnswerBreaks
    <2> QED
      BY <1>0, <2>1 DEF TypeOK
  <1>4. /\ reply' \in [Reqs -> Seq(Results)]
        /\ \A r \in Reqs : r # cur => reply'[r] = reply[r]
        /\ reply'[cur] = reply[cur] \/ reply'[cur] = Append(reply[cur], res)
    <2>1. Append(reply[cur], res) \in Seq(Results)
      BY <1>2, AppendProperties
    <2>2. reply \in [Reqs -> Seq(Results)]
      BY <1>0 DEF TypeOK
    <2>3. CASE reply' = reply
      BY <2>2, <2>3
    <2>4. CASE reply' = [reply EXCEPT ![cur] = Append(@, res)]
      BY <1>2, <2>1, <2>2, <2>4
    <2> QED
      BY <1>1, <2>3, <2>4
  <1>5. RepliesSound'
    <2> SUFFICES ASSUME NEW r \in Reqs, NEW i \in 1..Len(reply'[r])
                 PROVE  \E j \in 1..Len(outcome[r]) : reply'[r][i] = outcome[r][j]
      BY <1>1 DEF RepliesSound
    <2>1. CASE reply'[r] = reply[r]
      BY <1>0, <2>1 DEF RepliesSound
    <2>2. CASE r = cur /\ reply'[cur] = Append(reply[cur], res)
      <3>1. \/ i \in 1..Len(reply[cur]) /\ reply'[cur][i] = reply[cur][i]
            \/ reply'[cur][i] = res
        BY <1>2, <2>2, AppendProperties, LenProperties
      <3>2. \E j \in 1..Len(outcome[cur]) : outcome[cur][j] = res
        BY <1>0, <1>1 DEF HandSound
      <3> QED
        BY <1>0, <2>2, <3>1, <3>2 DEF RepliesSound
    <2> QED
      BY <1>4, <2>1, <2>2
  <1>6. AnswersExpire'
    BY <1>0, <1>1, <1>4 DEF AnswersExpire
  <1>7. dpc' \in {"answer", "expire"} =>
            \E i \in 1..Len(outcome'[cur']) : outcome'[cur'][i] = res'
    BY <1>0, <1>1 DEF HandSound
  <1>8. /\ outcome' \in [Reqs -> Seq(Results)] /\ ttl' \in SUBSET Reqs
        /\ kept' \in SUBSET Reqs /\ res' \in Results \cup {"none"}
    BY <1>0, <1>1, <1>2 DEF TypeOK
  <1>9. \A r \in Reqs : Len(outcome'[r]) + InHand(r)' = Len(outcome[r]) + InHand(r)
    <2>1. \A r \in Reqs : InHand(r) = 0 /\ InHand(r)' = 0
      BY <1>1 DEF InHand
    <2> QED
      BY <1>1, <2>1
  <1> QED
    BY <1>1, <1>3, <1>4, <1>5, <1>6, <1>7, <1>8, <1>9, AnswerFrame

\* The answer gets its time to live, or is known to stay (redis_push_str_ttl).
LEMMA ExpireIInv ==
    ASSUME IInv, NEW done \in BOOLEAN, NEW retried \in BOOLEAN,
           SetExpire \/ ExpireBreaks(done, retried)
    PROVE  IInv'
  <1>0. TypeOK /\ RepliesSound /\ AnswersExpire /\ HandSound
    BY DEF IInv
  <1>1. /\ dpc = "expire"
        /\ UNCHANGED <<gid, msgs, reply, outcome, lost, cleared, fails>>
        /\ ttl \subseteq ttl' /\ ttl' \subseteq ttl \cup {cur} /\ kept \subseteq kept'
        /\ kept' \subseteq kept \cup {cur}
        /\ \/ dpc' = "expire" /\ cur' = cur /\ res' = res
           \/ /\ dpc' = "recv" /\ cur' = NoReq /\ res' = "none"
              /\ reply[cur] # <<>> => cur \in ttl' \cup kept'
    BY DEF SetExpire, ExpireBreaks, NextRound
  <1>2. cur \in Reqs /\ cur # NoReq /\ res \in Results
    BY <1>1, InService
  <1>3. ServeStep /\ broken <= broken'
    <2>1. ServeStep /\ (broken' = broken \/ broken' = broken + 1)
      BY DaemonWorks, DaemonBreaks DEF SetExpire, ExpireBreaks
    <2> QED
      BY <1>0, <2>1 DEF TypeOK
  <1>4. RepliesSound' /\ AnswersExpire'
    BY <1>0, <1>1 DEF RepliesSound, AnswersExpire
  <1>5. dpc' \in {"answer", "expire"} =>
            \E i \in 1..Len(outcome'[cur']) : outcome'[cur'][i] = res'
    BY <1>0, <1>1 DEF HandSound
  <1>6. /\ outcome' \in [Reqs -> Seq(Results)] /\ reply' \in [Reqs -> Seq(Results)]
        /\ ttl' \in SUBSET Reqs /\ kept' \in SUBSET Reqs /\ res' \in Results \cup {"none"}
    BY <1>0, <1>1, <1>2 DEF TypeOK
  <1>7. \A r \in Reqs : Len(outcome'[r]) + InHand(r)' = Len(outcome[r]) + InHand(r)
    <2>1. \A r \in Reqs : InHand(r) = 0 /\ InHand(r)' = 0
      BY <1>1 DEF InHand
    <2> QED
      BY <1>1, <2>1
  <1> QED
    BY <1>1, <1>3, <1>4, <1>5, <1>6, <1>7, AnswerFrame

----------------------------------------------------------------------------
(* The theorems.                                                           *)

\* Every step keeps the invariant.
LEMMA NextIInv == IInv /\ [Next]_vars => IInv'
  <1> SUFFICES ASSUME IInv, [Next]_vars PROVE IInv'
    OBVIOUS
  <1>1. ASSUME NEW r \in Reqs, Call(r) PROVE IInv'
    BY <1>1, ConnectIInv, PushIInv, WaitIInv DEF Call
  <1>2. ASSUME NEW r \in Reqs, KeyExpires(r) PROVE IInv'
    BY <1>2, KeyExpiresIInv
  <1>3. ASSUME Serve PROVE IInv'
    <2>1. CASE Clear \/ \E done, retried \in BOOLEAN : ClearBreaks(done, retried)
      BY <2>1, ClearIInv
    <2>2. CASE Receive \/ ReceiveNone \/ PauseEnds
      BY <2>2, ReceiveIInv, IdleIInv
    <2>3. CASE \E done, retried \in BOOLEAN : ReceiveBreaks(done, retried)
      BY <2>3, ReceiveBreaksIInv
    <2>4. CASE \E v \in Results : Handle(v)
      BY <2>4, HandleIInv
    <2>5. CASE PushAnswer \/ \E done, retried \in BOOLEAN : AnswerBreaks(done, retried)
      BY <2>5, AnswerIInv
    <2>6. CASE SetExpire \/ \E done, retried \in BOOLEAN : ExpireBreaks(done, retried)
      BY <2>6, ExpireIInv
    <2> QED
      BY <1>3, <2>1, <2>2, <2>3, <2>4, <2>5, <2>6 DEF Serve
  <1>4. ASSUME Crash \/ Restart PROVE IInv'
    BY <1>4, CrashIInv, IdleIInv
  <1>5. CASE UNCHANGED vars
    <2>1. TypeOK'
      BY <1>5 DEF vars, IInv, TypeOK
    <2>2. CallSound' /\ ListSound' /\ HandSound'
      BY <1>5 DEF vars, IInv, CallSound, ListSound, HandSound
    <2>3. OutageSound' /\ RepliesSound' /\ AnswersExpire'
      BY <1>5 DEF vars, IInv, OutageSound, RepliesSound, AnswersExpire
    <2>4. Accounted'
      <3>1. ASSUME NEW r \in Reqs
            PROVE  Copies(r)' = Copies(r) /\ InHand(r)' = InHand(r)
        BY <1>5 DEF vars, Copies, InHand
      <3> QED
        BY <1>5, <3>1 DEF vars, IInv, Accounted
    <2> QED
      BY <2>1, <2>2, <2>3, <2>4 DEF IInv
  <1> QED
    BY <1>1, <1>2, <1>3, <1>4, <1>5 DEF Next

\* The invariant holds in every reachable state, whatever breaks.
THEOREM Inductive == Spec => []IInv
  BY InitIInv, NextIInv, PTL DEF Spec

\* Every variable keeps its type: no request is pushed, or lost, three times,
\* and the count of failed receives stays within what the pause knows.
THEOREM TypeCorrect == Spec => []TypeOK
  <1>1. IInv => TypeOK
    BY DEF IInv
  <1> QED
    BY <1>1, Inductive, PTL

\* Every copy of a request that reached the list is still there, in the daemon's
\* hands, run, or known to be lost (redis_cmd, startKbMsg).
THEOREM AccountsBalance == Spec => []Accounted
  <1>1. IInv => Accounted
    BY DEF IInv
  <1> QED
    BY <1>1, Inductive, PTL

\* An answer without a time to live is about to get one, or a broken command or
\* a crash kept it from that (redis_push_str_ttl).
THEOREM AnswersDoExpire == Spec => []AnswersExpire
  <1>1. IInv => AnswersExpire
    BY DEF IInv
  <1> QED
    BY <1>1, Inductive, PTL

\* A running daemon drops requests only after MaxGid failed receives in a row.
THEOREM DropsOnlyAfterOutage == Spec => DropsAfterOutage
  <1>1. ASSUME IInv, [Next]_vars, cleared' # cleared
        PROVE  fails >= MaxGid
    <2>1. Clear \/ \E done, retried \in BOOLEAN : ClearBreaks(done, retried)
      <3>1. \A r \in Reqs : Call(r) => cleared' = cleared
        BY DEF Call, Connect, ConnectFails, PushRequest, TakeAnswer, WaitEnds, PushBreaks, WaitBreaks
      <3>2. \A r \in Reqs : KeyExpires(r) => cleared' = cleared
        BY DEF KeyExpires
      <3>3. Crash \/ Restart => cleared' = cleared
        BY DEF Crash, Restart
      <3>4. vars' = vars => cleared' = cleared
        BY DEF vars
      <3>5. Serve
        BY <1>1, <3>1, <3>2, <3>3, <3>4 DEF Next
      <3> QED
        BY <1>1, <3>5 DEF Serve, Receive, ReceiveNone, PauseEnds, Handle, PushAnswer, SetExpire,
           ReceiveBreaks, AnswerBreaks, ExpireBreaks
    <2>2. dpc = "clear"
      <3>1. dpc \in {"start", "clear"}
        BY <2>1 DEF Clear, ClearList, ClearBreaks
      <3>2. dpc = "start" => \A r \in Reqs : ~ (InHand(r) > 0)
        BY DEF InHand
      <3>3. dpc = "start" => cleared' = cleared
        BY <2>1, <3>2 DEF Clear, ClearList, ClearBreaks
      <3> QED
        BY <1>1, <3>1, <3>3
    <2> QED
      BY <1>1, <2>2 DEF IInv, OutageSound, TypeOK
  <1>2. IInv /\ [Next]_vars => [cleared' # cleared => fails >= MaxGid]_vars
    BY <1>1
  <1> QED
    BY <1>2, Inductive, PTL DEF Spec, DropsAfterOutage

----------------------------------------------------------------------------
(* KbRpc implements Rpc: what reached the list was sent.                   *)

Sent == {r \in Reqs : pushes[r] > 0}

\* A push by a call sends its request, whether or not the client hears of it.
LEMMA PushSends ==
    ASSUME IInv, NEW r \in Reqs, CountPush(r)
    PROVE  Sent' = Sent \cup {r}
  <1>1. pushes \in [Reqs -> 0..2]
    BY DEF IInv, TypeOK
  <1>2. /\ \A s \in Reqs : s # r => pushes'[s] = pushes[s]
        /\ pushes'[r] = pushes[r] + 1 /\ pushes'[r] > 0
    BY <1>1 DEF CountPush
  <1>3. ASSUME NEW s \in Reqs PROVE s \in Sent' <=> s \in Sent \/ s = r
    BY <1>2 DEF Sent
  <1> QED
    BY <1>3 DEF Sent

\* An answer that a client takes is the result of a run of its own request.
LEMMA TakesOwnAnswer ==
    ASSUME IInv, NEW r \in Reqs, TakeAnswer(r)
    PROVE  \E i \in 1..Len(outcome[r]) : Promise!Answer(r, i)
  <1>1. reply[r] \in Seq(Results) /\ reply[r] # <<>> /\ call[r] = "wait"
    BY DEF IInv, TypeOK, TakeAnswer
  <1>2. 1 \in 1..Len(reply[r]) /\ reply[r][1] = Head(reply[r])
    BY <1>1, HeadTailProperties, LenProperties, EmptySeq
  <1>3. PICK i \in 1..Len(outcome[r]) : reply[r][1] = outcome[r][i]
    BY <1>2 DEF IInv, RepliesSound
  <1>4. verdict[r] = "none"
    BY <1>1 DEF IInv, CallSound
  <1>5. verdict' = [verdict EXCEPT ![r] = outcome[r][i]]
    BY <1>2, <1>3 DEF TakeAnswer, Return
  <1> QED
    BY <1>4, <1>5 DEF Promise!Answer, TakeAnswer

\* A call that ends without an answer gives up.
LEMMA ReturnGivesUp ==
    ASSUME IInv, NEW r \in Reqs, call[r] # "done", NEW v \in {"timeout", "error"}, Return(r, v),
           UNCHANGED <<pushes, outcome>>
    PROVE  Promise!GiveUp(r, v) /\ v \in Promise!Failures
  BY DEF IInv, CallSound, Return, Promise!GiveUp, Promise!Failures

\* A run follows a push, and there is at most one run for each push.
LEMMA HandleRuns ==
    ASSUME IInv, NEW v \in Results, Handle(v)
    PROVE  cur \in Reqs /\ Promise!Run(cur, v)
  <1>1. /\ dpc = "run" /\ outcome' = [outcome EXCEPT ![cur] = Append(@, v)]
        /\ pushes' = pushes /\ verdict' = verdict
    BY DEF Handle
  <1>2. cur \in Reqs
    BY <1>1, InService
  <1>3. TypeOK /\ Accounted
    BY DEF IInv
  <1>4. pushes[cur] > 0 /\ Len(outcome[cur]) < 2
    <2>1. InHand(cur) = 1
      BY <1>1 DEF InHand
    <2>2. pushes[cur] = Copies(cur) + InHand(cur) + Len(outcome[cur]) + lost[cur]
      BY <1>2, <1>3 DEF Accounted
    <2>3. /\ Copies(cur) \in 0..2 /\ Len(outcome[cur]) \in Nat
          /\ lost[cur] \in 0..2 /\ pushes[cur] \in 0..2
      BY <1>2, <1>3, Counts
    <2> HIDE DEF Copies, InHand
    <2> QED
      BY <2>1, <2>2, <2>3
  <1> QED
    BY <1>1, <1>2, <1>4 DEF Promise!Run

\* Every step is one of Rpc's or changes nothing Rpc speaks of.
LEMMA StepKeepsPromise == IInv /\ [Next]_vars => [Promise!RpcNext]_(Promise!rvars)
  <1> SUFFICES ASSUME IInv, [Next]_vars
               PROVE  Promise!RpcNext \/ UNCHANGED <<Sent, outcome, verdict>>
    BY DEF Promise!rvars, Sent
  <1>1. ASSUME UNCHANGED <<pushes, outcome, verdict>>
        PROVE  UNCHANGED <<Sent, outcome, verdict>>
    BY <1>1 DEF Sent
  <1>2. ASSUME NEW r \in Reqs, Call(r)
        PROVE  Promise!RpcNext \/ UNCHANGED <<Sent, outcome, verdict>>
    <2>1. CASE Connect(r)
      BY <1>1, <2>1 DEF Connect
    <2>2. CASE ConnectFails(r) \/ WaitEnds(r)
      <3>1. /\ call[r] # "done" /\ UNCHANGED <<pushes, outcome>>
            /\ Return(r, "error") \/ Return(r, "timeout")
        BY <2>2 DEF ConnectFails, WaitEnds
      <3> QED
        BY <3>1, ReturnGivesUp DEF Promise!RpcNext
    <2>3. CASE PushRequest(r)
      <3>1. CountPush(r) /\ call[r] = "push" /\ UNCHANGED <<outcome, verdict>>
        BY <2>3 DEF PushRequest
      <3>2. verdict[r] = "none"
        BY <3>1 DEF IInv, CallSound
      <3>3. Promise!Send(r)
        BY <3>1, <3>2, PushSends DEF Promise!Send, Sent
      <3> QED
        BY <3>3 DEF Promise!RpcNext
    <2>4. CASE TakeAnswer(r)
      BY <2>4, TakesOwnAnswer DEF Promise!RpcNext
    <2>5. ASSUME NEW done \in BOOLEAN, NEW retried \in BOOLEAN, PushBreaks(r, done, retried)
          PROVE  Promise!RpcNext \/ UNCHANGED <<Sent, outcome, verdict>>
      <3>1. /\ call[r] = "push" /\ outcome' = outcome
            /\ IF done THEN CountPush(r) ELSE pushes' = pushes
            /\ IF retried THEN verdict' = verdict ELSE Return(r, "error")
        BY <2>5 DEF PushBreaks
      <3>2. verdict[r] = "none"
        BY <3>1 DEF IInv, CallSound
      <3>3. CASE done /\ retried
        <4>1. Promise!Send(r)
          BY <3>1, <3>2, <3>3, PushSends DEF Promise!Send, Sent
        <4> QED
          BY <4>1 DEF Promise!RpcNext
      <3>4. CASE done /\ ~ retried
        <4>1. Promise!SendGiveUp(r)
          BY <3>1, <3>2, <3>4, PushSends DEF Promise!SendGiveUp, Sent, Return
        <4> QED
          BY <4>1 DEF Promise!RpcNext
      <3>5. CASE ~ done /\ retried
        BY <1>1, <3>1, <3>5
      <3>6. CASE ~ done /\ ~ retried
        <4>1. /\ call[r] # "done" /\ UNCHANGED <<pushes, outcome>> /\ Return(r, "error")
          BY <3>1, <3>6
        <4> QED
          BY <4>1, ReturnGivesUp DEF Promise!RpcNext
      <3> QED
        BY <3>3, <3>4, <3>5, <3>6
    <2>6. ASSUME NEW done \in BOOLEAN, NEW retried \in BOOLEAN, WaitBreaks(r, done, retried)
          PROVE  Promise!RpcNext \/ UNCHANGED <<Sent, outcome, verdict>>
      <3>1. /\ call[r] # "done" /\ UNCHANGED <<pushes, outcome>>
            /\ verdict' = verdict \/ Return(r, "error")
        BY <2>6 DEF WaitBreaks
      <3>2. CASE verdict' = verdict
        BY <1>1, <3>1, <3>2
      <3>3. CASE Return(r, "error")
        BY <3>1, <3>3, ReturnGivesUp DEF Promise!RpcNext
      <3> QED
        BY <3>1, <3>2, <3>3
    <2> QED
      BY <1>2, <2>1, <2>2, <2>3, <2>4, <2>5, <2>6 DEF Call
  <1>3. ASSUME NEW r \in Reqs, KeyExpires(r)
        PROVE  UNCHANGED <<Sent, outcome, verdict>>
    BY <1>1, <1>3 DEF KeyExpires
  <1>4. ASSUME NEW v \in Results, Handle(v)
        PROVE  Promise!RpcNext
    BY <1>4, HandleRuns DEF Promise!RpcNext
  <1>5. ASSUME Serve, ~ \E v \in Results : Handle(v)
        PROVE  UNCHANGED <<pushes, outcome, verdict>>
    BY <1>5 DEF Serve, Clear, Receive, ReceiveNone, PauseEnds, PushAnswer, SetExpire,
       ClearBreaks, ReceiveBreaks, AnswerBreaks, ExpireBreaks
  <1>6. ASSUME Crash \/ Restart
        PROVE  UNCHANGED <<pushes, outcome, verdict>>
    BY <1>6 DEF Crash, Restart
  <1>7. CASE UNCHANGED vars
    BY <1>1, <1>7 DEF vars
  <1> QED
    BY <1>1, <1>2, <1>3, <1>4, <1>5, <1>6, <1>7 DEF Next

\* Whatever breaks, crashes or expires, the channel keeps what Rpc promises: no
\* more than two runs of a request, one verdict, and no answer but the
\* request's own (sendKbMsg, processMsg).
THEOREM Refines == Spec => Promised
  <1>1. Init => Promise!RpcInit
    BY DEF Init, Promise!RpcInit
  <1> QED
    BY <1>1, Inductive, StepKeepsPromise, PTL DEF Spec, Promised, Promise!RpcSpec

=============================================================================
