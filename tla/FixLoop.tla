------------------------------ MODULE FixLoop ------------------------------
(***************************************************************************)
(* What a run of the agent graph promises, without nodes, models, GitHub   *)
(* or sandbox: it makes patches one after another, at most Budget of them; *)
(* a patch is proven by a check that passed for it, which ends the trying; *)
(* and it comes to one decision, or raises and is started afresh.  Only a  *)
(* proven patch is proposed, and only a review may pass the human gate.    *)
(***************************************************************************)
EXTENDS Integers

CONSTANTS
  Budget,     \* patches a run may try
  Handoff     \* nothing may be posted without a human

VARIABLES
  stage,      \* "working", "proved", "decided" or "raised"
  tries,      \* patches made by this run
  proven,     \* those whose check passed
  decision    \* [action, gated, fix], "unset" until decided

loop == <<stage, tries, proven, decision>>

Unset == [action |-> "unset", gated |-> TRUE, fix |-> 0]

Init ==
  /\ stage = "working"
  /\ tries = 0
  /\ proven = {}
  /\ decision = Unset

Try ==
  /\ stage = "working"
  /\ tries < Budget
  /\ tries' = tries + 1
  /\ UNCHANGED <<stage, proven, decision>>

Prove ==
  /\ stage = "working"
  /\ tries > 0
  /\ stage' = "proved"
  /\ proven' = proven \cup {tries}
  /\ UNCHANGED <<tries, decision>>

Decide(action, gated, fix) ==
  /\ stage' = "decided"
  /\ decision' = [action |-> action, gated |-> gated, fix |-> fix]
  /\ UNCHANGED <<tries, proven>>

Propose ==
  /\ stage = "proved"
  /\ tries \in proven
  /\ Decide("propose_fix", TRUE, tries)

Review(gated) ==
  /\ stage = "working"
  /\ tries = 0
  /\ Handoff => gated
  /\ Decide("comment_review", gated, 0)

Ignore ==
  /\ stage = "working"
  /\ tries = 0
  /\ Decide("none", FALSE, 0)

Escalate ==
  /\ stage = "working"
  /\ Decide("escalate", TRUE, 0)

Raise ==
  /\ stage = "working"
  /\ stage' = "raised"
  /\ UNCHANGED <<tries, proven, decision>>

Again ==
  /\ stage = "raised"
  /\ stage' = "working"
  /\ tries' = 0
  /\ proven' = {}
  /\ UNCHANGED decision

Next ==
  \/ Try \/ Prove \/ Propose
  \/ \E gated \in BOOLEAN : Review(gated)
  \/ Ignore \/ Escalate
  \/ Raise \/ Again

Spec == Init /\ [][Next]_loop
=============================================================================
