-------------------------------- MODULE KbRpc --------------------------------
(***************************************************************************)
(* Requests and answers between clients and the daemon, over Redis.  A     *)
(* client pushes its request on the daemon's list and waits for an answer  *)
(* under the request's uuid; the daemon pops a request, runs its handler   *)
(* and pushes the result with a time to live.                              *)
(*                                                                         *)
(* Every Redis command goes through redis_cmd: when the connection breaks  *)
(* it reconnects and sends the command once more, if it can reconnect.  A  *)
(* broken command may have been carried out, so a push may add twice and a *)
(* pop may lose what it took.  tries counts the broken attempts of the     *)
(* command under way.                                                      *)
(*                                                                         *)
(* Time is left out: a wait may time out whenever there is no answer, a    *)
(* key with a time to live may expire at any time, and the pauses of the   *)
(* daemon take any time.  A request stands for its call and its uuid.  The *)
(* messages are what clients send: well-formed and short enough.           *)
(***************************************************************************)
EXTENDS Naturals, Sequences

CONSTANTS
    Reqs,       \* requests, each sent by one call
    Results,    \* what a handler returns
    NoReq,      \* not a request
    MaxFaults,  \* bound: broken commands and crashes together
    MaxCrashes  \* bound: crashes of the daemon

ASSUME KbRpcAssumption ==
    /\ NoReq \notin Reqs
    /\ Results \cap {"none", "timeout", "error"} = {}
    /\ MaxFaults \in Nat
    /\ MaxCrashes \in Nat

VARIABLES
    msgs,       \* the daemon's list, oldest first
    reply,      \* the answers under each uuid, oldest first
    ttl,        \* uuids whose key has a time to live
    call,       \* what each call is doing
    tries,      \* broken attempts of each call's command, and of the daemon's
    verdict,    \* what a call returned
    dpc,        \* what the daemon is doing
    cur,        \* the request in its hands
    res,        \* the result of its handler
    gid,        \* g_id: failed receives in a row, at most 3
    broken,     \* commands broken so far
    crashes,    \* crashes so far
    pushes,     \* history: copies of each request that reached the list
    outcome,    \* history: results of the runs of each request
    lost,       \* history: copies of each request that a broken pop, a crash or
                \* a clearing of the list took away
    cleared,    \* history: requests dropped by a running daemon after an outage
    fails,      \* history: failed receives since one found something to run or nothing
    kept        \* history: uuids whose key got no time to live, for a broken
                \* command or a crash

cvars == <<call, verdict>>
dvars == <<dpc, cur, res, gid>>
kvars == <<msgs, reply, ttl>>
hvars == <<pushes, outcome, lost, cleared, fails, kept>>
vars == <<cvars, dvars, kvars, tries, broken, crashes, hvars>>

MaxGid == 3
Daemon == NoReq
Actors == Reqs \cup {Daemon}

Calls == {"new", "push", "wait", "done"}
Dpcs == {"start", "recv", "pause", "clear", "run", "answer", "expire", "down"}

TypeOK ==
    /\ msgs \in Seq(Reqs)
    /\ reply \in [Reqs -> Seq(Results)]
    /\ ttl \in SUBSET Reqs
    /\ call \in [Reqs -> Calls]
    /\ tries \in [Actors -> 0..1]
    /\ verdict \in [Reqs -> Results \cup {"none", "timeout", "error"}]
    /\ dpc \in Dpcs
    /\ cur \in Actors
    /\ res \in Results \cup {"none"}
    /\ gid \in 0..MaxGid
    /\ broken \in 0..MaxFaults
    /\ crashes \in 0..MaxCrashes
    /\ pushes \in [Reqs -> 0..2]
    /\ outcome \in [Reqs -> Seq(Results)]
    /\ lost \in [Reqs -> 0..2]
    /\ cleared \in SUBSET Reqs
    /\ fails \in 0..MaxFaults
    /\ kept \in SUBSET Reqs

Init ==
    /\ msgs = <<>>
    /\ reply = [r \in Reqs |-> <<>>]
    /\ ttl = {}
    /\ call = [r \in Reqs |-> "new"]
    /\ tries = [a \in Actors |-> 0]
    /\ verdict = [r \in Reqs |-> "none"]
    /\ dpc = "start"
    /\ cur = NoReq
    /\ res = "none"
    /\ gid = 0
    /\ broken = 0
    /\ crashes = 0
    /\ pushes = [r \in Reqs |-> 0]
    /\ outcome = [r \in Reqs |-> <<>>]
    /\ lost = [r \in Reqs |-> 0]
    /\ cleared = {}
    /\ fails = 0
    /\ kept = {}

----------------------------------------------------------------------------
(* A command of actor a                                                    *)

Works(a) ==
    /\ tries' = [tries EXCEPT ![a] = 0]
    /\ broken' = broken

FaultsLeft == broken + crashes < MaxFaults

\* The connection breaks; retried is whether there is another attempt: one at
\* most, and none when there is no new connection either.
Breaks(a, retried) ==
    /\ FaultsLeft
    /\ broken' = broken + 1
    /\ retried => tries[a] = 0
    /\ tries' = [tries EXCEPT ![a] = IF retried THEN 1 ELSE 0]

CountPush(r) == pushes' = [pushes EXCEPT ![r] = @ + 1]

\* The oldest request is taken off the list and gone.
LoseHead ==
    IF msgs = <<>> THEN UNCHANGED <<msgs, lost>>
    ELSE /\ msgs' = Tail(msgs)
         /\ lost' = [lost EXCEPT ![Head(msgs)] = @ + 1]

\* The whole list is gone, and with it the request in the daemon's hands.
Copies(r) ==
    LET at == {i \in 1..Len(msgs) : msgs[i] = r}
    IN  IF at = {} THEN 0 ELSE IF \E i, j \in at : i # j THEN 2 ELSE 1
InHand(r) == IF cur = r /\ dpc \in {"clear", "run"} THEN 1 ELSE 0

----------------------------------------------------------------------------
(* The call                                                                *)

Connect(r) ==
    /\ call[r] = "new"
    /\ call' = [call EXCEPT ![r] = "push"]
    /\ UNCHANGED <<verdict, dvars, kvars, tries, broken, crashes, hvars>>

Return(r, v) ==
    /\ call' = [call EXCEPT ![r] = "done"]
    /\ verdict' = [verdict EXCEPT ![r] = v]

\* No connection: nothing is sent.
ConnectFails(r) ==
    /\ call[r] = "new"
    /\ FaultsLeft
    /\ broken' = broken + 1
    /\ Return(r, "error")
    /\ UNCHANGED <<dvars, kvars, tries, crashes, hvars>>

PushRequest(r) ==
    /\ call[r] = "push"
    /\ Works(r)
    /\ msgs' = Append(msgs, r)
    /\ CountPush(r)
    /\ call' = [call EXCEPT ![r] = "wait"]
    /\ UNCHANGED <<verdict, dvars, reply, ttl, crashes, outcome, lost, cleared, fails, kept>>

PushBreaks(r, done, retried) ==
    /\ call[r] = "push"
    /\ Breaks(r, retried)
    /\ IF done THEN msgs' = Append(msgs, r) /\ CountPush(r)
               ELSE UNCHANGED <<msgs, pushes>>
    /\ IF retried THEN UNCHANGED cvars ELSE Return(r, "error")
    /\ UNCHANGED <<dvars, reply, ttl, crashes, outcome, lost, cleared, fails, kept>>

TakeAnswer(r) ==
    /\ call[r] = "wait"
    /\ reply[r] # <<>>
    /\ Works(r)
    /\ Return(r, Head(reply[r]))
    /\ reply' = [reply EXCEPT ![r] = Tail(@)]
    /\ ttl' = IF Tail(reply[r]) = <<>> THEN ttl \ {r} ELSE ttl
    /\ UNCHANGED <<dvars, msgs, crashes, hvars>>

\* Variants: a call whose wait ended returns what it had set at first; the wait
\* has no limit.
WaitEnds_Ok(r) ==
    /\ call[r] = "wait"
    /\ reply[r] = <<>>
    /\ Works(r)
    /\ Return(r, CHOOSE v \in Results : TRUE)
    /\ UNCHANGED <<dvars, kvars, crashes, hvars>>

WaitEnds_Never(r) ==
    /\ call[r] = "wait"
    /\ reply[r] = <<>>
    /\ UNCHANGED vars

WaitEnds(r) ==
    /\ call[r] = "wait"
    /\ reply[r] = <<>>
    /\ Works(r)
    /\ Return(r, "timeout")
    /\ UNCHANGED <<dvars, kvars, crashes, hvars>>

WaitBreaks(r, done, retried) ==
    /\ call[r] = "wait"
    /\ Breaks(r, retried)
    /\ IF done /\ reply[r] # <<>>
         THEN /\ reply' = [reply EXCEPT ![r] = Tail(@)]
              /\ ttl' = IF Tail(reply[r]) = <<>> THEN ttl \ {r} ELSE ttl
         ELSE UNCHANGED <<reply, ttl>>
    /\ IF retried THEN UNCHANGED cvars ELSE Return(r, "error")
    /\ UNCHANGED <<dvars, msgs, crashes, hvars>>

----------------------------------------------------------------------------
(* The daemon                                                              *)

\* Old requests are dropped before the first receive, and when the connection
\* was out for three receives in a row; then the request just received too.
ClearList ==
    /\ dpc \in {"start", "clear"}
    /\ msgs' = <<>>
    /\ lost' = [r \in Reqs |-> lost[r] + Copies(r) + InHand(r)]
    /\ cleared' = IF dpc = "start" THEN cleared
                  ELSE cleared \cup {r \in Reqs : Copies(r) + InHand(r) > 0}
    /\ dpc' = "recv"
    /\ cur' = NoReq
    /\ gid' = 0

Clear ==
    /\ Works(Daemon)
    /\ ClearList
    /\ UNCHANGED <<cvars, res, reply, ttl, crashes, pushes, outcome, fails, kept>>

\* The clearing fails: the loop goes on all the same, without the request.
ClearBreaks(done, retried) ==
    /\ dpc \in {"start", "clear"}
    /\ Breaks(Daemon, retried)
    /\ IF done /\ ~ retried THEN ClearList
       ELSE IF done
         THEN /\ msgs' = <<>>
              /\ lost' = [r \in Reqs |-> lost[r] + Copies(r)]
              /\ cleared' = IF dpc = "start" THEN cleared
                            ELSE cleared \cup {r \in Reqs : Copies(r) > 0}
              /\ UNCHANGED <<dpc, cur, gid>>
       ELSE IF retried THEN UNCHANGED <<msgs, lost, cleared, dpc, cur, gid>>
       ELSE /\ lost' = [r \in Reqs |-> lost[r] + InHand(r)]
            /\ cleared' = cleared \cup {r \in Reqs : InHand(r) > 0}
            /\ dpc' = "recv"
            /\ cur' = NoReq
            /\ gid' = 0
            /\ UNCHANGED msgs
    /\ UNCHANGED <<cvars, res, reply, ttl, crashes, pushes, outcome, fails, kept>>

\* Variants: the request is read, not taken; failures are counted over all
\* receives.
Receive_Peek ==
    /\ dpc = "recv"
    /\ msgs # <<>>
    /\ Works(Daemon)
    /\ cur' = Head(msgs)
    /\ IF gid = MaxGid THEN dpc' = "clear" /\ gid' = gid
                       ELSE dpc' = "run" /\ gid' = 0
    /\ fails' = IF gid = MaxGid THEN fails ELSE 0
    /\ UNCHANGED <<cvars, msgs, res, reply, ttl, crashes, pushes, outcome, lost, cleared, kept>>

Receive_KeepGid ==
    /\ dpc = "recv"
    /\ msgs # <<>>
    /\ Works(Daemon)
    /\ msgs' = Tail(msgs)
    /\ cur' = Head(msgs)
    /\ dpc' = IF gid = MaxGid THEN "clear" ELSE "run"
    /\ gid' = gid
    /\ fails' = IF gid = MaxGid THEN fails ELSE 0
    /\ UNCHANGED <<cvars, res, reply, ttl, crashes, pushes, outcome, lost, cleared, kept>>

Receive ==
    /\ dpc = "recv"
    /\ msgs # <<>>
    /\ Works(Daemon)
    /\ msgs' = Tail(msgs)
    /\ cur' = Head(msgs)
    /\ IF gid = MaxGid THEN dpc' = "clear" /\ gid' = gid
                       ELSE dpc' = "run" /\ gid' = 0
    /\ fails' = IF gid = MaxGid THEN fails ELSE 0
    /\ UNCHANGED <<cvars, res, reply, ttl, crashes, pushes, outcome, lost, cleared, kept>>

\* Nothing there: the daemon turns to its checks and comes back.
ReceiveNone ==
    /\ dpc = "recv"
    /\ msgs = <<>>
    /\ Works(Daemon)
    /\ gid' = 0
    /\ fails' = 0
    /\ UNCHANGED <<cvars, dpc, cur, res, kvars, crashes, pushes, outcome, lost, cleared, kept>>

\* Variant: the index of the pause is not bounded.
ReceiveBreaks_NoCap(done, retried) ==
    /\ dpc = "recv"
    /\ Breaks(Daemon, retried)
    /\ IF done THEN LoseHead ELSE UNCHANGED <<msgs, lost>>
    /\ IF retried THEN UNCHANGED <<dpc, gid, fails>>
                  ELSE /\ dpc' = "pause"
                       /\ gid' = gid + 1
                       /\ fails' = fails + 1
    /\ UNCHANGED <<cvars, cur, res, reply, ttl, crashes, pushes, outcome, cleared, kept>>

ReceiveBreaks(done, retried) ==
    /\ dpc = "recv"
    /\ Breaks(Daemon, retried)
    /\ IF done THEN LoseHead ELSE UNCHANGED <<msgs, lost>>
    /\ IF retried THEN UNCHANGED <<dpc, gid, fails>>
                  ELSE /\ dpc' = "pause"
                       /\ gid' = IF gid < MaxGid THEN gid + 1 ELSE gid
                       /\ fails' = fails + 1
    /\ UNCHANGED <<cvars, cur, res, reply, ttl, crashes, pushes, outcome, cleared, kept>>

PauseEnds ==
    /\ dpc = "pause"
    /\ dpc' = "recv"
    /\ UNCHANGED <<cvars, cur, res, gid, kvars, tries, broken, crashes, hvars>>

Handle(v) ==
    /\ dpc = "run"
    /\ outcome' = [outcome EXCEPT ![cur] = Append(@, v)]
    /\ res' = v
    /\ dpc' = "answer"
    /\ UNCHANGED <<cvars, cur, gid, kvars, tries, broken, crashes, pushes, lost, cleared, fails, kept>>

PushAnswer ==
    /\ dpc = "answer"
    /\ Works(Daemon)
    /\ reply' = [reply EXCEPT ![cur] = Append(@, res)]
    /\ dpc' = "expire"
    /\ UNCHANGED <<cvars, cur, res, gid, msgs, ttl, crashes, hvars>>

NextRound == dpc' = "recv" /\ cur' = NoReq /\ res' = "none"

AnswerBreaks(done, retried) ==
    /\ dpc = "answer"
    /\ Breaks(Daemon, retried)
    /\ reply' = IF done THEN [reply EXCEPT ![cur] = Append(@, res)] ELSE reply
    /\ IF retried THEN UNCHANGED <<dpc, cur, res, kept>>
                  ELSE NextRound /\ kept' = kept \cup {cur}
    /\ UNCHANGED <<cvars, gid, msgs, ttl, crashes, pushes, outcome, lost, cleared, fails>>

\* Variant: the answer is pushed without a time to live.
SetExpire_None ==
    /\ dpc = "expire"
    /\ Works(Daemon)
    /\ NextRound
    /\ UNCHANGED <<cvars, gid, kvars, crashes, hvars>>

SetExpire ==
    /\ dpc = "expire"
    /\ Works(Daemon)
    /\ ttl' = IF reply[cur] # <<>> THEN ttl \cup {cur} ELSE ttl
    /\ NextRound
    /\ UNCHANGED <<cvars, gid, msgs, reply, crashes, hvars>>

\* A failure to set the time to live is ignored.
ExpireBreaks(done, retried) ==
    /\ dpc = "expire"
    /\ Breaks(Daemon, retried)
    /\ ttl' = IF done /\ reply[cur] # <<>> THEN ttl \cup {cur} ELSE ttl
    /\ IF retried THEN UNCHANGED <<dpc, cur, res, kept>>
                  ELSE NextRound /\ kept' = kept \cup {cur}
    /\ UNCHANGED <<cvars, gid, msgs, reply, crashes, pushes, outcome, lost, cleared, fails>>

----------------------------------------------------------------------------
(* Redis, and the end of the daemon                                        *)

KeyExpires(r) ==
    /\ r \in ttl
    /\ ttl' = ttl \ {r}
    /\ reply' = [reply EXCEPT ![r] = <<>>]
    /\ UNCHANGED <<cvars, dvars, msgs, tries, broken, crashes, hvars>>

Crash ==
    /\ dpc # "down"
    /\ crashes < MaxCrashes /\ FaultsLeft
    /\ crashes' = crashes + 1
    /\ dpc' = "down"
    /\ lost' = [r \in Reqs |-> lost[r] + InHand(r)]
    /\ cur' = NoReq
    /\ res' = "none"
    /\ gid' = 0
    /\ tries' = [tries EXCEPT ![Daemon] = 0]
    /\ fails' = 0
    /\ kept' = IF dpc \in {"answer", "expire"} THEN kept \cup {cur} ELSE kept
    /\ UNCHANGED <<cvars, kvars, broken, pushes, outcome, cleared>>

Restart ==
    /\ dpc = "down"
    /\ dpc' = "start"
    /\ UNCHANGED <<cvars, cur, res, gid, kvars, tries, broken, crashes, hvars>>

----------------------------------------------------------------------------

Call(r) ==
    \/ Connect(r)
    \/ ConnectFails(r)
    \/ PushRequest(r)
    \/ TakeAnswer(r)
    \/ WaitEnds(r)
    \/ \E done, retried \in BOOLEAN : PushBreaks(r, done, retried) \/ WaitBreaks(r, done, retried)

Serve ==
    \/ Clear
    \/ Receive
    \/ ReceiveNone
    \/ PauseEnds
    \/ \E v \in Results : Handle(v)
    \/ PushAnswer
    \/ SetExpire
    \/ \E done, retried \in BOOLEAN :
          \/ ClearBreaks(done, retried)
          \/ ReceiveBreaks(done, retried)
          \/ AnswerBreaks(done, retried)
          \/ ExpireBreaks(done, retried)

Next ==
    \/ \E r \in Reqs : Call(r) \/ KeyExpires(r)
    \/ Serve
    \/ Crash
    \/ Restart

Spec == Init /\ [][Next]_vars

----------------------------------------------------------------------------
(* Fairness: a call goes on and its wait ends; the loop of the daemon goes *)
(* round; a daemon that is down is started again.                          *)

Fairness ==
    /\ \A r \in Reqs : WF_vars(call[r] # "new" /\ Call(r))
    /\ WF_vars(Serve)
    /\ WF_vars(Restart)

FairSpec == Spec /\ Fairness

----------------------------------------------------------------------------
(* Properties                                                              *)

\* What clients are promised, whatever breaks: see Rpc (sendKbMsg, processMsg).
Promise == INSTANCE Rpc WITH sent <- {r \in Reqs : pushes[r] > 0}

Promised == Promise!RpcSpec

\* Every copy of a request that reached the list is still there, is in the hands
\* of the daemon, was run, or was taken away by a broken pop, a crash or a
\* clearing: none is run twice and none vanishes (redis_cmd, startKbMsg).
Accounted ==
    \A r \in Reqs : pushes[r] = Copies(r) + InHand(r) + Len(outcome[r]) + lost[r]

\* An answer without a time to live is one the daemon is about to give one, or
\* one whose key a broken command or a crash left behind: answers that no call
\* waits for do not pile up in Redis (redis_push_str_ttl).
AnswersExpire ==
    \A r \in Reqs : reply[r] # <<>> /\ r \notin ttl \cup kept =>
        cur = r /\ dpc \in {"answer", "expire"}

\* A running daemon drops requests only after three failed receives in a row:
\* failures with a good receive between them do not add up (startKbMsg).
DropsAfterOutage == [][ cleared' # cleared => fails >= MaxGid ]_vars

\* In the end every call has returned, and every request that reached the list
\* has been run or was lost to a broken command, a crash or an outage.  Runs,
\* losses and returns are never undone, so that this is what a leads-to property
\* says of each call (sendKbMsg, which waits with a limit; startKbMsg).
ComesToRest ==
    <>[](\A r \in Reqs :
            /\ call[r] \in {"new", "done"}
            /\ pushes[r] > 0 => outcome[r] # <<>> \/ lost[r] > 0)

----------------------------------------------------------------------------
(* The inductive invariant behind the properties above, in parts.          *)

\* A call has pushed its request at most once for every attempt it made, and
\* has no verdict until it returns.
CallSound ==
    \A r \in Reqs :
        /\ call[r] = "new" => pushes[r] = 0
        /\ call[r] = "push" => pushes[r] <= tries[r]
        /\ call[r] # "done" => verdict[r] = "none"

\* No request is in the list three times.
ListSound ==
    \A i, j, k \in 1..Len(msgs) :
        msgs[i] = msgs[j] /\ msgs[j] = msgs[k] => i = j \/ j = k \/ i = k

\* The daemon has a request in its hands exactly from receive to answer; after
\* the handler, res is what a run of that request gave.
HandSound ==
    /\ (cur # NoReq) <=> (dpc \in {"clear", "run", "answer", "expire"})
    /\ dpc \in {"answer", "expire"} => \E i \in 1..Len(outcome[cur]) : outcome[cur][i] = res

\* The daemon counts no more failed receives in a row than there were, and
\* clears a running list only at the most it counts.
OutageSound ==
    /\ gid <= fails
    /\ dpc = "clear" => gid = MaxGid
    /\ fails <= broken
    /\ broken + crashes <= MaxFaults

\* Every answer is the result of a run of its request.
RepliesSound ==
    \A r \in Reqs : \A i \in 1..Len(reply[r]) :
        \E j \in 1..Len(outcome[r]) : reply[r][i] = outcome[r][j]

IInv ==
    /\ TypeOK
    /\ CallSound
    /\ ListSound
    /\ HandSound
    /\ OutageSound
    /\ RepliesSound
    /\ Accounted
    /\ AnswersExpire

=============================================================================
