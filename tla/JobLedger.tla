------------------------------ MODULE JobLedger ------------------------------
(***************************************************************************)
(* What the durable job queue promises to whoever submits a job, with no    *)
(* workers, leases, heartbeats or transactions: a submitted job is          *)
(* attempted at most MaxAttempts times, one attempt at a time, and what is  *)
(* recorded as its outcome is the outcome of its latest attempt, for good.  *)
(* JobQueue is shown to implement it while no run outlives its lease.       *)
(***************************************************************************)
EXTENDS Naturals

CONSTANTS Jobs, MaxAttempts

VARIABLES
    state,      \* job -> what the ledger says of it
    attempt,    \* job -> the number of attempts begun
    outcome     \* job -> the attempt whose result is recorded, 0 for none

ledgerVars == <<state, attempt, outcome>>

Init ==
    /\ state = [j \in Jobs |-> "absent"]
    /\ attempt = [j \in Jobs |-> 0]
    /\ outcome = [j \in Jobs |-> 0]

Submit(j) ==
    /\ state[j] = "absent"
    /\ state' = [state EXCEPT ![j] = "waiting"]
    /\ UNCHANGED <<attempt, outcome>>

\* The first attempt, a retry, or the recovery of an attempt that was lost.
Begin(j) ==
    /\ state[j] \in {"waiting", "active"}
    /\ attempt[j] < MaxAttempts[j]
    /\ state' = [state EXCEPT ![j] = "active"]
    /\ attempt' = [attempt EXCEPT ![j] = @ + 1]
    /\ UNCHANGED outcome

Succeed(j) ==
    /\ state[j] = "active"
    /\ state' = [state EXCEPT ![j] = "done"]
    /\ outcome' = [outcome EXCEPT ![j] = attempt[j]]
    /\ UNCHANGED attempt

GiveBack(j) ==
    /\ state[j] = "active"
    /\ attempt[j] < MaxAttempts[j]
    /\ state' = [state EXCEPT ![j] = "waiting"]
    /\ UNCHANGED <<attempt, outcome>>

GiveUp(j) ==
    /\ state[j] = "active"
    /\ attempt[j] = MaxAttempts[j]
    /\ state' = [state EXCEPT ![j] = "dead"]
    /\ UNCHANGED <<attempt, outcome>>

Next ==
    \E j \in Jobs : Submit(j) \/ Begin(j) \/ Succeed(j) \/ GiveBack(j) \/ GiveUp(j)

Spec == Init /\ [][Next]_ledgerVars
=============================================================================
