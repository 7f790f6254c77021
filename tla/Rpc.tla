--------------------------------- MODULE Rpc ---------------------------------
(***************************************************************************)
(* What a client of the daemon is promised of a request: it is run at most *)
(* twice, and never if it was not sent; the client gets one verdict; and a *)
(* verdict that is a result is the result of a run of this very request.   *)
(* Nothing is promised of a request whose verdict is "timeout" or "error": *)
(* it may have run, may still run, or may never run.                       *)
(***************************************************************************)
EXTENDS Naturals, Sequences

CONSTANTS
    Reqs,       \* requests, each sent by one call
    Results     \* what a handler returns, none of it a failure or "none"

Failures == {"timeout", "error"}

VARIABLES
    sent,       \* requests that reached the queue
    outcome,    \* results of the runs of each request
    verdict     \* what the call returned, "none" until then

rvars == <<sent, outcome, verdict>>

RpcInit ==
    /\ sent = {}
    /\ outcome = [r \in Reqs |-> <<>>]
    /\ verdict = [r \in Reqs |-> "none"]

Send(r) ==
    /\ verdict[r] = "none"
    /\ sent' = sent \cup {r}
    /\ UNCHANGED <<outcome, verdict>>

Run(r, res) ==
    /\ r \in sent
    /\ Len(outcome[r]) < 2
    /\ outcome' = [outcome EXCEPT ![r] = Append(@, res)]
    /\ UNCHANGED <<sent, verdict>>

Answer(r, i) ==
    /\ verdict[r] = "none"
    /\ verdict' = [verdict EXCEPT ![r] = outcome[r][i]]
    /\ UNCHANGED <<sent, outcome>>

GiveUp(r, v) ==
    /\ verdict[r] = "none"
    /\ verdict' = [verdict EXCEPT ![r] = v]
    /\ UNCHANGED <<sent, outcome>>

\* The call's last attempt to send is cut off: it may have been carried out.
SendGiveUp(r) ==
    /\ verdict[r] = "none"
    /\ sent' = sent \cup {r}
    /\ verdict' = [verdict EXCEPT ![r] = "error"]
    /\ UNCHANGED outcome

RpcNext ==
    \E r \in Reqs :
        \/ Send(r)
        \/ \E res \in Results : Run(r, res)
        \/ \E i \in 1..Len(outcome[r]) : Answer(r, i)
        \/ \E v \in Failures : GiveUp(r, v)
        \/ SendGiveUp(r)

RpcSpec == RpcInit /\ [][RpcNext]_rvars

=============================================================================
