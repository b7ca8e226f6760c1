------------------------------ MODULE JobLife ------------------------------
(***************************************************************************)
(* What the durable path promises for an accepted pull request, without    *)
(* rows, streams, leases or processes: a job waits, is run by one handler  *)
(* at a time, goes back to waiting when the handler gives it up, and ends  *)
(* once, completed or, after exactly MaxAttempts runs, escalated.          *)
(***************************************************************************)
EXTENDS Integers

CONSTANTS Jobs, MaxAttempts

VARIABLES phase, runs

life == <<phase, runs>>

Init ==
  /\ phase = [j \in Jobs |-> "unknown"]
  /\ runs = [j \in Jobs |-> 0]

Move(j, from, to) ==
  /\ phase[j] = from
  /\ phase' = [phase EXCEPT ![j] = to]

Accept(j) == Move(j, "unknown", "waiting") /\ UNCHANGED runs

Run(j) ==
  /\ runs[j] < MaxAttempts
  /\ Move(j, "waiting", "running")
  /\ runs' = [runs EXCEPT ![j] = @ + 1]

GiveBack(j) == Move(j, "running", "waiting") /\ UNCHANGED runs

Complete(j) == Move(j, "running", "done") /\ UNCHANGED runs

Escalate(j) ==
  /\ runs[j] = MaxAttempts
  /\ Move(j, "waiting", "dead")
  /\ UNCHANGED runs

Next == \E j \in Jobs :
          Accept(j) \/ Run(j) \/ GiveBack(j) \/ Complete(j) \/ Escalate(j)

Spec == Init /\ [][Next]_life
=============================================================================
