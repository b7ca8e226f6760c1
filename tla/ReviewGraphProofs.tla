------------------------- MODULE ReviewGraphProofs -------------------------
(***************************************************************************)
(* Proofs about ReviewGraph, for every max_fix_attempts, every ceiling and *)
(* any number of deliveries.                                               *)
(***************************************************************************)
EXTENDS ReviewGraph, TLAPS

(***************************************************************************)
(* The inductive invariant of the fix loop.  A decision exists only at the *)
(* end and is what the policy makes of the state; "verified" is about the  *)
(* patch the state holds; the attempts are within the budget at every node *)
(* of the cycle, and used up where a retryable verdict leaves it.          *)
(***************************************************************************)
Undecided == pc # "end" => out = NoDecision

Track ==
  /\ ftype # "none" => ci
  /\ pc \in {"fix_agent", "fix_verifier"} => ci /\ ftype # "unknown"
  /\ pc \in {"code_reviewer", "test_generator"} => ~ci /\ tried = 0
  /\ pc \in {"fetch", "ci_monitor"} => tried = 0
  /\ pc = "ci_monitor" => ci
  /\ tried > 0 => ci /\ ftype # "unknown"

Verified ==
  /\ verified => fix # 0 /\ fix \in proven /\ pc \in {"router", "end"}
  /\ out.action = "propose_fix" => verified /\ out.fix = fix

Attempts ==
  /\ tried <= Budget
  /\ pc = "fix_agent" => tried < Budget
  /\ pc = "fix_verifier" => tried > 0
  /\ reason # "none" => tried > 0
  /\ pc \in {"fetch", "code_reviewer", "test_generator", "ci_monitor"} =>
       reason = "none"
  /\ pc \in {"router", "end"} /\ reason \in Retryable => tried = Budget

LoopInv == TypeOK /\ Undecided /\ Track /\ Verified /\ Attempts /\ CodeChangeGated

\* Every step preserves the types.
LEMMA TypeNext == TypeOK /\ [Next]_vars => TypeOK'
  <1> SUFFICES ASSUME TypeOK, [Next]_vars PROVE TypeOK'
    OBVIOUS
  <1> USE GraphAssumption DEF job, TypeOK, Nodes, Reasons, Retryable, FailureTypes, RiskNames, NoDecision
  <1>1. ASSUME FetchReview
        PROVE  TypeOK'
    BY <1>1 DEF FetchReview
  <1>2. ASSUME NEW b \in BOOLEAN, FetchCi(b)
        PROVE  TypeOK'
    BY <1>2 DEF FetchCi
  <1>3. ASSUME NEW r \in RiskNames, CodeReviewer(r)
        PROVE  TypeOK'
    BY <1>3 DEF CodeReviewer
  <1>4. ASSUME TestGenerator
        PROVE  TypeOK'
    BY <1>4 DEF TestGenerator
  <1>5. ASSUME NEW f \in FailureTypes, NEW d \in BOOLEAN, CiMonitor(f, d)
        PROVE  TypeOK'
    BY <1>5 DEF CiMonitor, AfterCiMonitor
  <1>6. ASSUME CiMonitorNoLogs
        PROVE  TypeOK'
    BY <1>6 DEF CiMonitorNoLogs, AfterCiMonitor
  <1>7. ASSUME NEW b \in BOOLEAN, FixAgent(b)
        PROVE  TypeOK'
    BY <1>7 DEF FixAgent
  <1>8. ASSUME NEW res \in SandboxRuns, FixVerifier(res)
        PROVE  TypeOK'
    BY <1>8 DEF FixVerifier, AfterFixVerifier, VerificationReason, Interpret, Checkable, SandboxRuns
  <1>9. ASSUME Router
        PROVE  TypeOK'
    BY <1>9 DEF Router, RouteCi, RoutePr, Decide, AutoComment
  <1>10. ASSUME Raise
        PROVE  TypeOK'
    BY <1>10 DEF Raise
  <1>11. ASSUME Redeliver
        PROVE  TypeOK'
    <2>1. runs' \in 1..MaxRuns
      BY <1>11 DEF Redeliver
    <2>2. out' \in [action : {"unset", "comment_review", "propose_fix", "escalate", "none"},
             gated : BOOLEAN, fix : Nat]
      BY <1>11 DEF Redeliver
    <2>3. proven' \subseteq Nat
      BY <1>11 DEF Redeliver
    <2>4. risk' \in RiskNames \cup {"none"} /\ reason' \in Reasons
      BY <1>11 DEF Redeliver
    <2> QED
      BY <2>1, <2>2, <2>3, <2>4, <1>11 DEF Redeliver
  <1>12. CASE UNCHANGED vars
    BY <1>12 DEF vars
  <1> QED
    BY <1>1, <1>2, <1>3, <1>4, <1>5, <1>6, <1>7, <1>8, <1>9, <1>10, <1>11, <1>12 DEF Next, Step

\* Every step of a run preserves the rest of the invariant.
LEMMA LoopNext == LoopInv /\ [Next]_vars => LoopInv'
  <1> SUFFICES ASSUME LoopInv, [Next]_vars PROVE LoopInv'
    OBVIOUS
  <1> USE GraphAssumption DEF job, TypeOK, Nodes, Reasons, Retryable, FailureTypes, RiskNames, NoDecision, LoopInv, Undecided, Track, Verified, Attempts, Budget, CodeChangeGated
  <1>1. ASSUME FetchReview
        PROVE  LoopInv'
    BY <1>1 DEF FetchReview
  <1>2. ASSUME NEW b \in BOOLEAN, FetchCi(b)
        PROVE  LoopInv'
    BY <1>2 DEF FetchCi
  <1>3. ASSUME NEW r \in RiskNames, CodeReviewer(r)
        PROVE  LoopInv'
    BY <1>3 DEF CodeReviewer
  <1>4. ASSUME TestGenerator
        PROVE  LoopInv'
    BY <1>4 DEF TestGenerator
  <1>5. ASSUME NEW f \in FailureTypes, NEW d \in BOOLEAN, CiMonitor(f, d)
        PROVE  LoopInv'
    BY <1>5 DEF CiMonitor, AfterCiMonitor
  <1>6. ASSUME CiMonitorNoLogs
        PROVE  LoopInv'
    BY <1>6 DEF CiMonitorNoLogs, AfterCiMonitor
  <1>7. ASSUME NEW b \in BOOLEAN, FixAgent(b)
        PROVE  LoopInv'
    BY <1>7 DEF FixAgent
  <1>8. ASSUME NEW res \in SandboxRuns, FixVerifier(res)
        PROVE  LoopInv'
    BY <1>8 DEF FixVerifier, AfterFixVerifier, VerificationReason, Interpret, Checkable, SandboxRuns
  <1>9. ASSUME Router
        PROVE  LoopInv'
    BY <1>9 DEF Router, RouteCi, RoutePr, Decide, AutoComment
  <1>10. ASSUME Raise
        PROVE  LoopInv'
    BY <1>10 DEF Raise
  <1>11. ASSUME Redeliver
        PROVE  LoopInv'
    <2>1. TypeOK'
      BY TypeNext
    <2>2. Undecided' /\ Track' /\ Verified' /\ Attempts' /\ CodeChangeGated'
      BY <1>11 DEF Redeliver
    <2> QED
      BY <2>1, <2>2
  <1>12. CASE UNCHANGED vars
    BY <1>12 DEF vars
  <1> QED
    BY <1>1, <1>2, <1>3, <1>4, <1>5, <1>6, <1>7, <1>8, <1>9, <1>10, <1>11, <1>12 DEF Next, Step

\* The start of a run satisfies the invariant.
LEMMA LoopInit == Init => LoopInv
  <1> SUFFICES ASSUME Init PROVE LoopInv
    OBVIOUS
  <1> USE GraphAssumption DEF Init, Fresh, NoDecision
  <1>1. runs \in 1..MaxRuns /\ proven \subseteq Nat
    OBVIOUS
  <1>2. risk \in RiskNames \cup {"none"} /\ reason \in Reasons /\ pc \in Nodes
    BY DEF Reasons, Nodes
  <1>3. out \in [action : {"unset", "comment_review", "propose_fix", "escalate", "none"},
             gated : BOOLEAN, fix : Nat]
    OBVIOUS
  <1>4. TypeOK
    BY <1>1, <1>2, <1>3 DEF TypeOK
  <1>5. Undecided /\ Track /\ Verified /\ Attempts /\ CodeChangeGated
    BY DEF Undecided, Track, Verified, Attempts, Budget, CodeChangeGated, Retryable
  <1> QED
    BY <1>4, <1>5 DEF LoopInv

\* The state of a run is well typed for every budget and every ceiling.
THEOREM RunTyped == Spec => []TypeOK
  <1>1. Init => TypeOK
    BY LoopInit DEF LoopInv
  <1> QED
    BY <1>1, TypeNext, PTL DEF Spec

\* What holds of every run of the graph: the invariant.
LEMMA LoopHolds == Spec => []LoopInv
  BY LoopInit, LoopNext, PTL DEF Spec

\* Whatever the models answer and the sandbox does, a proposed fix is exactly
\* a patch whose check passed.
THEOREM ProposalsProven == Spec => []ProposalProven
  <1>1. LoopInv => ProposalProven
    BY DEF LoopInv, Verified, ProposalProven
  <1> QED
    BY <1>1, LoopHolds, PTL

\* For every max_fix_attempts: never more patches than the budget, and never
\* fewer before a retryable verdict is given up.
THEOREM BudgetKept == Spec => []FixBudget
  <1>1. LoopInv => FixBudget
    BY DEF LoopInv, Attempts, FixBudget
  <1> QED
    BY <1>1, LoopHolds, PTL

\* For every ceiling, known or not: what changes code waits for a human.
THEOREM CodeChangesGated == Spec => []CodeChangeGated
  <1>1. LoopInv => CodeChangeGated
    BY DEF LoopInv
  <1> QED
    BY <1>1, LoopHolds, PTL

-----------------------------------------------------------------------------
(***************************************************************************)
(* The graph implements FixLoop.                                           *)
(***************************************************************************)
\* The patch in the state is the one of the latest attempt.
CurrentFix == fix # 0 => fix = tried

LEMMA CurrentFixNext == TypeOK /\ CurrentFix /\ [Next]_vars => CurrentFix'
  <1> SUFFICES ASSUME TypeOK, CurrentFix, [Next]_vars PROVE CurrentFix'
    OBVIOUS
  <1> USE DEF CurrentFix
  <1>1. ASSUME NEW b \in BOOLEAN, FixAgent(b)
        PROVE  CurrentFix'
    BY <1>1 DEF FixAgent
  <1>2. CASE Redeliver
    BY <1>2 DEF Redeliver
  <1>3. CASE UNCHANGED <<fix, tried>>
    BY <1>3
  <1>4. CASE Step
    BY <1>1, <1>3, <1>4 DEF Step, FetchReview, FetchCi, CodeReviewer, TestGenerator,
       CiMonitor, CiMonitorNoLogs, FixVerifier, Router
  <1>5. CASE Raise
    BY <1>3, <1>5 DEF Raise
  <1>6. CASE UNCHANGED vars
    BY <1>3, <1>6 DEF vars
  <1> QED
    BY <1>2, <1>4, <1>5, <1>6 DEF Next

\* A step of the graph is a step of the loop, or none that it can see.
LEMMA LoopStep ==
  LoopInv /\ CurrentFix /\ [Next]_vars => [Loop!Next]_(Loop!loop)
  <1> SUFFICES ASSUME LoopInv, CurrentFix, [Next]_vars
               PROVE  Loop!Next \/ UNCHANGED <<Stage, tried, proven, out>>
    BY DEF Loop!loop
  <1> USE DEF Stage
  <1>0. TypeOK /\ Undecided /\ Track /\ Verified /\ Attempts
    BY DEF LoopInv
  <1>1. CASE FetchReview \/ TestGenerator \/ CiMonitorNoLogs
    <2>1. pc \notin {"raised", "end", "router"} /\ ~verified
      BY <1>0, <1>1 DEF FetchReview, TestGenerator, CiMonitorNoLogs, Verified
    <2>2. pc' \notin {"raised", "end"} /\ UNCHANGED <<verified, tried, proven, out>>
      BY <1>1 DEF FetchReview, TestGenerator, CiMonitorNoLogs, AfterCiMonitor
    <2> QED
      BY <2>1, <2>2
  <1>2. ASSUME NEW b \in BOOLEAN, FetchCi(b)
        PROVE  UNCHANGED <<Stage, tried, proven, out>>
    BY <1>2 DEF FetchCi
  <1>3. ASSUME NEW r \in RiskNames, CodeReviewer(r)
        PROVE  UNCHANGED <<Stage, tried, proven, out>>
    BY <1>3 DEF CodeReviewer
  <1>4. ASSUME NEW f \in FailureTypes, NEW d \in BOOLEAN, CiMonitor(f, d)
        PROVE  UNCHANGED <<Stage, tried, proven, out>>
    BY <1>0, <1>4 DEF CiMonitor, AfterCiMonitor, Verified
  <1>5. ASSUME NEW b \in BOOLEAN, FixAgent(b)
        PROVE  Loop!Try
    BY <1>0, <1>5 DEF FixAgent, Loop!Try, Attempts
  <1>6. ASSUME NEW res \in SandboxRuns, FixVerifier(res)
        PROVE  Loop!Prove \/ UNCHANGED <<Stage, tried, proven, out>>
    <2>1. pc = "fix_verifier" /\ ~verified /\ UNCHANGED <<tried, out>>
      BY <1>0, <1>6 DEF FixVerifier, Verified
    <2>2. CASE Checkable /\ res = "zero"
      <3>1. VerificationReason(res) = "passed" /\ fix = tried
        BY <2>2 DEF VerificationReason, Checkable, Interpret, CurrentFix
      <3>2. verified' /\ proven' = proven \cup {tried} /\ pc' = "router"
        BY <1>6, <2>2, <3>1 DEF FixVerifier, AfterFixVerifier, Retryable
      <3> QED
        BY <1>0, <2>1, <3>2 DEF Loop!Prove, Attempts, TypeOK
    <2>3. CASE ~(Checkable /\ res = "zero")
      <3>1. VerificationReason(res) # "passed"
        BY <2>3 DEF VerificationReason, Checkable, Interpret, SandboxRuns
      <3>2. ~verified' /\ proven' = proven /\ pc' \in {"fix_agent", "router"}
        BY <1>6, <2>3, <3>1 DEF FixVerifier, AfterFixVerifier
      <3> QED
        BY <2>1, <3>2
    <2> QED
      BY <2>2, <2>3
  <1>7. ASSUME Router
        PROVE  Loop!Next
    <2>1. pc = "router" /\ pc' = "end" /\ UNCHANGED <<tried, proven>>
      BY <1>7 DEF Router
    <2>2. CASE verified
      <3>1. fix = tried /\ tried \in proven /\ ci
        BY <1>0, <2>2 DEF Verified, CurrentFix, Track, TypeOK
      <3>2. out' = Decide("propose_fix", TRUE, tried)
        BY <1>7, <2>2, <3>1 DEF Router, RouteCi
      <3>3. Loop!Propose
        BY <2>1, <2>2, <3>1, <3>2 DEF Loop!Propose, Loop!Decide, Decide
      <3> QED
        BY <3>3 DEF Loop!Next
    <2>3. CASE ~verified /\ (ftype # "none" \/ logs \/ ci)
      <3>1. out' = RouteCi
        BY <1>7, <2>3 DEF Router
      <3>2. CASE ftype = "unknown" /\ ~diag
        <4>1. tried = 0
          BY <1>0, <3>2 DEF Track, TypeOK
        <4>2. Loop!Ignore
          BY <2>1, <2>3, <3>1, <3>2, <4>1 DEF RouteCi, Decide, Loop!Ignore, Loop!Decide
        <4> QED
          BY <4>2 DEF Loop!Next
      <3>3. CASE ~(ftype = "unknown" /\ ~diag)
        <4>1. Loop!Escalate
          BY <2>1, <2>3, <3>1, <3>3 DEF RouteCi, Decide, Loop!Escalate, Loop!Decide
        <4> QED
          BY <4>1 DEF Loop!Next
      <3> QED
        BY <3>2, <3>3
    <2>4. CASE ~verified /\ ~(ftype # "none" \/ logs \/ ci)
      <3>1. out' = RoutePr
        BY <1>7, <2>4 DEF Router
      <3>2. tried = 0
        BY <1>0, <2>4 DEF Track, TypeOK
      <3>3. (~AutoComment) \in BOOLEAN /\ (Handoff => ~AutoComment)
        BY DEF AutoComment
      <3>4. Loop!Review(~AutoComment)
        BY <2>1, <2>4, <3>1, <3>2, <3>3 DEF RoutePr, Decide, Loop!Review, Loop!Decide
      <3> QED
        BY <3>3, <3>4 DEF Loop!Next
    <2> QED
      BY <2>2, <2>3, <2>4
  <1>8. ASSUME Raise
        PROVE  Loop!Raise
    BY <1>8 DEF Raise, Loop!Raise
  <1>9. ASSUME Redeliver
        PROVE  Loop!Again
    <2>1. out = NoDecision
      BY <1>0, <1>9 DEF Redeliver, Undecided
    <2> QED
      BY <1>9, <2>1 DEF Redeliver, Loop!Again
  <1>10. CASE UNCHANGED vars
    BY <1>10 DEF vars
  <1> QED
    BY <1>1, <1>2, <1>3, <1>4, <1>5, <1>6, <1>7, <1>8, <1>9, <1>10
       DEF Next, Step, Loop!Next

\* For every budget, ceiling and number of deliveries, a run of the graph is a
\* run of the bounded propose-and-check loop.
THEOREM GraphImplementsLoop == Spec => ImplementsFixLoop
  <1>1. Init => Loop!Init
    BY DEF Init, Fresh, NoDecision, Stage, Loop!Init, Loop!Unset
  <1>2. Init => CurrentFix
    BY DEF Init, Fresh, CurrentFix
  <1>3. LoopInv => TypeOK
    BY DEF LoopInv
  <1>4. Spec => []CurrentFix
    BY <1>2, <1>3, LoopHolds, CurrentFixNext, PTL DEF Spec
  <1> QED
    BY <1>1, <1>4, LoopHolds, LoopStep, PTL DEF Spec, ImplementsFixLoop, Loop!Spec


-----------------------------------------------------------------------------
(***************************************************************************)
(* How long a run can be.  RunEnds itself is about fairness and stays with *)
(* TLC; that the cycle of fix_agent and fix_verifier cannot go round for   *)
(* ever is a matter of safety.                                             *)
(***************************************************************************)
\* Nodes a run may still execute, the present one included.
StepsLeft ==
  CASE pc \in {"end", "raised"} -> 0
    [] pc = "router"            -> 1
    [] pc = "test_generator"    -> 2
    [] pc = "code_reviewer"     -> 3
    [] pc = "fix_agent"         -> 2 * (Budget - tried) + 1
    [] pc = "fix_verifier"      -> 2 * (Budget - tried) + 2
    [] pc = "ci_monitor"        -> 2 * Budget + 2
    [] pc = "fetch"             -> 2 * Budget + 3

\* A run of the graph executes 2 * Budget + 3 nodes at most, and is over when
\* none is left.
RunLength == StepsLeft \in 0..(2 * Budget + 3) /\ (StepsLeft = 0 <=> pc \in {"end", "raised"})

\* Every node brings the run nearer to its end; only a redelivery starts over.
RunShrinks == [][Step \/ Raise => StepsLeft' < StepsLeft]_vars

LEMMA RunLengthInv == LoopInv => RunLength
  <1> SUFFICES ASSUME LoopInv PROVE RunLength
    OBVIOUS
  <1>1. Budget \in Nat \ {0} /\ tried \in Nat /\ tried <= Budget /\ pc \in Nodes
    BY GraphAssumption DEF LoopInv, TypeOK, Attempts, Budget
  <1>2. pc = "fix_agent" => tried < Budget
    BY DEF LoopInv, Attempts
  <1> QED
    BY <1>1, <1>2 DEF RunLength, StepsLeft, Nodes

LEMMA RunStepShrinks ==
  ASSUME LoopInv, LoopInv', Step \/ Raise
  PROVE  StepsLeft' < StepsLeft
  <1>1. /\ Budget \in Nat \ {0} /\ tried \in Nat /\ tried <= Budget /\ pc \in Nodes
        /\ tried' \in Nat /\ tried' <= Budget /\ Budget' = Budget
        /\ pc = "fix_agent" => tried < Budget
        /\ pc \in {"fetch", "ci_monitor"} => tried = 0
    BY GraphAssumption DEF LoopInv, TypeOK, Attempts, Track, Budget
  <1> HIDE DEF Budget
  <1>2. CASE FetchReview \/ \E b \in BOOLEAN : FetchCi(b)
    BY <1>1, <1>2 DEF FetchReview, FetchCi, StepsLeft
  <1>3. CASE TestGenerator \/ \E r \in RiskNames : CodeReviewer(r)
    BY <1>1, <1>3 DEF TestGenerator, CodeReviewer, StepsLeft
  <1>4. CASE CiMonitorNoLogs \/ \E f \in FailureTypes, d \in BOOLEAN : CiMonitor(f, d)
    <2>1. pc = "ci_monitor" /\ tried' = tried /\ pc' \in {"router", "fix_agent"}
      BY <1>4 DEF CiMonitorNoLogs, CiMonitor, AfterCiMonitor
    <2> QED
      BY <1>1, <2>1 DEF StepsLeft
  <1>5. CASE \E b \in BOOLEAN : FixAgent(b)
    <2>1. pc = "fix_agent" /\ tried' = tried + 1 /\ pc' = "fix_verifier"
      BY <1>5 DEF FixAgent
    <2> QED
      BY <1>1, <2>1 DEF StepsLeft
  <1>6. CASE \E res \in SandboxRuns : FixVerifier(res)
    <2>1. pc = "fix_verifier" /\ tried' = tried /\ pc' \in {"router", "fix_agent"}
      BY <1>6 DEF FixVerifier, AfterFixVerifier
    <2> QED
      BY <1>1, <2>1 DEF StepsLeft
  <1>7. CASE Router
    BY <1>7 DEF Router, StepsLeft
  <1>8. CASE Raise
    <2>1. pc' = "raised" /\ pc \notin {"raised", "end"} /\ StepsLeft' = 0
      BY <1>8 DEF Raise, StepsLeft
    <2>2. StepsLeft \in Nat /\ StepsLeft # 0
      BY <1>1, <2>1, RunLengthInv DEF RunLength
    <2> QED
      BY <2>1, <2>2
  <1> QED
    BY <1>2, <1>3, <1>4, <1>5, <1>6, <1>7, <1>8 DEF Step

\* However the models answer and the sandbox behaves, one delivery of a job runs
\* at most 2 * Budget + 3 nodes: the conditional edge out of fix_verifier_node
\* never sends the run back without an attempt having been spent.
THEOREM RunsAreShort == Spec => []RunLength /\ RunShrinks
  <1>1. LoopInv /\ [Next]_vars => LoopInv'
    BY LoopNext
  <1>2. LoopInv /\ LoopInv' /\ [Next]_vars => [Step \/ Raise => StepsLeft' < StepsLeft]_vars
    BY RunStepShrinks
  <1> QED
    BY <1>1, <1>2, LoopInit, RunLengthInv, PTL DEF Spec, RunShrinks
=============================================================================
