---------------------------- MODULE ReviewGraph ----------------------------
(***************************************************************************)
(* One job in the hands of the agent graph: the handler reads the pull     *)
(* request, the graph picks the review track or the CI-fix track, the fix  *)
(* loop proposes and verifies patches, and the policy turns the final      *)
(* state into a disposition.  A node that raises fails the job, whose next *)
(* delivery runs the whole graph again from the start.                     *)
(*                                                                         *)
(*   app/worker.py           make_graph_handler.handler                    *)
(*   app/agents/*.py         the nodes and graph.py, their wiring          *)
(*   app/sandbox/*.py        fix_verifier_node, verification_command,      *)
(*                           interpret                                     *)
(*   app/routing/policy.py   route                                         *)
(*                                                                         *)
(* What a model answers, what the sandbox does and what GitHub returns are *)
(* nondeterministic.  A patch is the number of the attempt that made it.   *)
(***************************************************************************)
EXTENDS Integers

CONSTANTS
  MaxFix,     \* settings.max_fix_attempts
  Ceiling,    \* settings.auto_comment_max_risk, any string
  Handoff,    \* settings.handoff_mode
  MaxRuns     \* deliveries of the job that reach the handler

Risks        == <<"trivial", "low", "medium", "high">>
RiskNames    == {Risks[i] : i \in 1..4}
FailureTypes == {"lint", "type_error", "test", "import", "dependency", "unknown"}
Verifiable   == {"lint", "type_error", "test", "import"}
Retryable    == {"check_failed", "patch_apply_failed", "timeout"}

ASSUME GraphAssumption ==
  /\ MaxFix \in Nat
  /\ Ceiling \in STRING
  /\ Handoff \in BOOLEAN
  /\ MaxRuns \in Nat \ {0}

VARIABLES
  pc,         \* the node to run next; "raised", "end"
  ci,         \* the job's event is check_run or workflow_run
  logs,       \* event_context is not blank
  runs,       \* runs of the graph, this one included
  snap,       \* repo_snapshot is not empty
  risk,       \* risk_score, "none" before the reviewer
  ftype,      \* failure_type, "none" before the CI monitor
  diag,       \* failure_diagnosis is not empty
  fix,        \* proposed_fix: the attempt it comes from, 0 for no patch
  tried,      \* fix_attempts
  verified,   \* fix_verified
  reason,     \* verification_reason
  proven,     \* patches for which a check really passed in the sandbox
  out         \* the RoutingDecision: [action, gated, fix]

job  == <<ci, logs>>
vars == <<pc, ci, logs, runs, snap, risk, ftype, diag, fix, tried, verified,
          reason, proven, out>>

NoDecision == [action |-> "unset", gated |-> TRUE, fix |-> 0]

Fresh ==
  /\ snap = FALSE
  /\ risk = "none" /\ ftype = "none" /\ diag = FALSE
  /\ fix = 0 /\ tried = 0 /\ verified = FALSE /\ reason = "none"
  /\ proven = {}
  /\ out = NoDecision

\* Only a CI event carries failure evidence.
Init ==
  /\ pc = "fetch"
  /\ ci \in BOOLEAN
  /\ logs \in {b \in BOOLEAN : b => ci}
  /\ runs = 1
  /\ Fresh

-----------------------------------------------------------------------------
\* handler: the reads, the seed of the state and _entry_router.
FetchReview ==
  /\ pc = "fetch"
  /\ ~ci
  /\ pc' = "code_reviewer"
  /\ UNCHANGED <<job, runs, snap, risk, ftype, diag, fix, tried, verified,
                 reason, proven, out>>

FetchCi(nonempty) ==
  /\ pc = "fetch"
  /\ ci
  /\ snap' = nonempty
  /\ pc' = "ci_monitor"
  /\ UNCHANGED <<job, runs, risk, ftype, diag, fix, tried, verified, reason,
                 proven, out>>

\* An unknown risk label has been normalised to "medium".
CodeReviewer(r) ==
  /\ pc = "code_reviewer"
  /\ risk' = r
  /\ pc' = "test_generator"
  /\ UNCHANGED <<job, runs, snap, ftype, diag, fix, tried, verified, reason,
                 proven, out>>

TestGenerator ==
  /\ pc = "test_generator"
  /\ pc' = "router"
  /\ UNCHANGED <<job, runs, snap, risk, ftype, diag, fix, tried, verified,
                 reason, proven, out>>

AfterCiMonitor(f) == IF f = "unknown" THEN "router" ELSE "fix_agent"

\* An unknown label has been normalised to "unknown".
CiMonitor(f, d) ==
  /\ pc = "ci_monitor"
  /\ logs
  /\ ftype' = f
  /\ diag' = d
  /\ pc' = AfterCiMonitor(f)
  /\ UNCHANGED <<job, runs, snap, risk, fix, tried, verified, reason, proven, out>>

\* Without logs the model is not asked, and the diagnosis says so.
CiMonitorNoLogs ==
  /\ pc = "ci_monitor"
  /\ ~logs
  /\ ftype' = "unknown"
  /\ diag' = TRUE
  /\ pc' = AfterCiMonitor("unknown")
  /\ UNCHANGED <<job, runs, snap, risk, fix, tried, verified, reason, proven, out>>

\* Mutant of FixAgent: the attempt is not counted.
FixAgentUncounted(patch) ==
  /\ pc = "fix_agent"
  /\ fix' = IF patch THEN tried + 1 ELSE 0
  /\ pc' = "fix_verifier"
  /\ UNCHANGED <<job, runs, snap, risk, ftype, diag, tried, verified, reason,
                 proven, out>>

FixAgent(patch) ==
  /\ pc = "fix_agent"
  /\ tried' = tried + 1
  /\ fix' = IF patch THEN tried + 1 ELSE 0
  /\ pc' = "fix_verifier"
  /\ UNCHANGED <<job, runs, snap, risk, ftype, diag, verified, reason, proven, out>>

-----------------------------------------------------------------------------
(***************************************************************************)
(* fix_verifier_node.  A sandbox run errs ("error": no daemon, no image),  *)
(* is cut off ("timeout"), or exits with the patch sentinel ("apply"),     *)
(* with 0 ("zero") or with another code ("nonzero").                       *)
(***************************************************************************)
SandboxRuns == {"error", "timeout", "apply", "zero", "nonzero"}

\* Mutant of Interpret: a patch that applied is taken to be verified.
InterpretApplied(res) ==
  IF res = "error" THEN "sandbox_error"
  ELSE IF res = "timeout" THEN "timeout"
  ELSE IF res = "apply" THEN "patch_apply_failed" ELSE "passed"

Interpret(res) ==
  IF res = "error" THEN "sandbox_error"
  ELSE IF res = "timeout" THEN "timeout"
  ELSE IF res = "apply" THEN "patch_apply_failed"
  ELSE IF res = "zero" THEN "passed" ELSE "check_failed"

\* The sandbox is reached with a patch, a check for it and a tree.
Checkable == fix # 0 /\ ftype \in Verifiable /\ snap

VerificationReason(res) ==
  IF fix = 0 THEN "no_fix"
  ELSE IF ftype \notin Verifiable THEN "not_verifiable"
  ELSE IF ~snap THEN "no_snapshot" ELSE Interpret(res)

\* Mutant of AfterFixVerifier: one attempt more.
AfterFixVerifierMore(why) ==
  IF why \in Retryable /\ tried <= MaxFix THEN "fix_agent" ELSE "router"

AfterFixVerifier(why) ==
  IF why \in Retryable /\ tried < MaxFix THEN "fix_agent" ELSE "router"

FixVerifier(res) ==
  LET why == VerificationReason(res) IN
  /\ pc = "fix_verifier"
  /\ reason' = why
  /\ verified' = (why = "passed")
  /\ proven' = IF Checkable /\ res = "zero" THEN proven \cup {fix} ELSE proven
  /\ pc' = AfterFixVerifier(why)
  /\ UNCHANGED <<job, runs, snap, risk, ftype, diag, fix, tried, out>>

-----------------------------------------------------------------------------
(***************************************************************************)
(* policy.route: the track is inferred from what the run left behind.      *)
(***************************************************************************)
Rank(r) == IF r \in RiskNames THEN CHOOSE i \in 1..4 : Risks[i] = r ELSE 4

\* The risk of a state without a score.
RiskOf == IF risk = "none" THEN "medium" ELSE risk

AutoComment == Rank(RiskOf) <= Rank(Ceiling) /\ ~Handoff

Decide(action, gated, patch) == [action |-> action, gated |-> gated, fix |-> patch]

\* Mutant of RouteCi: a verified fix is gated by its risk like a review.
RouteCiByRisk ==
  IF verified THEN Decide("propose_fix", ~AutoComment, fix)
  ELSE IF ftype = "unknown" /\ ~diag THEN Decide("none", FALSE, 0)
  ELSE Decide("escalate", TRUE, 0)

RouteCi ==
  IF verified THEN Decide("propose_fix", TRUE, fix)
  ELSE IF ftype = "unknown" /\ ~diag THEN Decide("none", FALSE, 0)
  ELSE Decide("escalate", TRUE, 0)

RoutePr == Decide("comment_review", ~AutoComment, 0)

Router ==
  /\ pc = "router"
  /\ out' = IF ftype # "none" \/ logs \/ ci THEN RouteCi ELSE RoutePr
  /\ pc' = "end"
  /\ UNCHANGED <<job, runs, snap, risk, ftype, diag, fix, tried, verified,
                 reason, proven>>

-----------------------------------------------------------------------------
\* A read of GitHub, or a model call after its three tries, or the parsing of
\* its answer, raises; verifier and router never do.
Raise ==
  /\ \/ pc \in {"fetch", "code_reviewer", "test_generator", "fix_agent"}
     \/ pc = "ci_monitor" /\ logs
  /\ pc' = "raised"
  /\ UNCHANGED <<job, runs, snap, risk, ftype, diag, fix, tried, verified,
                 reason, proven, out>>

\* The job is delivered again and starts from a fresh state.
Redeliver ==
  /\ pc = "raised"
  /\ runs < MaxRuns
  /\ runs' = runs + 1
  /\ pc' = "fetch"
  /\ snap' = FALSE
  /\ risk' = "none" /\ ftype' = "none" /\ diag' = FALSE
  /\ fix' = 0 /\ tried' = 0 /\ verified' = FALSE /\ reason' = "none"
  /\ proven' = {}
  /\ out' = NoDecision
  /\ UNCHANGED job

Step ==
  \/ FetchReview
  \/ \E b \in BOOLEAN : FetchCi(b)
  \/ \E r \in RiskNames : CodeReviewer(r)
  \/ TestGenerator
  \/ \E f \in FailureTypes, d \in BOOLEAN : CiMonitor(f, d)
  \/ CiMonitorNoLogs
  \/ \E b \in BOOLEAN : FixAgent(b)
  \/ \E res \in SandboxRuns : FixVerifier(res)
  \/ Router

Next == Step \/ Raise \/ Redeliver

Spec == Init /\ [][Next]_vars

\* A run that has started goes on; nothing forces a redelivery.
FairSpec == Spec /\ WF_vars(Step \/ Raise)

-----------------------------------------------------------------------------
(***************************************************************************)
(* Properties.                                                             *)
(***************************************************************************)
Nodes == {"fetch", "code_reviewer", "test_generator", "ci_monitor", "fix_agent",
          "fix_verifier", "router", "raised", "end"}

Reasons == Retryable \cup {"none", "no_fix", "not_verifiable", "no_snapshot",
                           "sandbox_error", "passed"}

\* Types.
TypeOK ==
  /\ pc \in Nodes
  /\ ci \in BOOLEAN /\ logs \in BOOLEAN
  /\ runs \in 1..MaxRuns
  /\ snap \in BOOLEAN
  /\ risk \in RiskNames \cup {"none"}
  /\ ftype \in FailureTypes \cup {"none"}
  /\ diag \in BOOLEAN
  /\ fix \in Nat /\ tried \in Nat
  /\ verified \in BOOLEAN
  /\ reason \in Reasons
  /\ proven \subseteq Nat
  /\ out \in [action : {"unset", "comment_review", "propose_fix", "escalate", "none"},
             gated : BOOLEAN, fix : Nat]

\* The fix a maintainer is asked to promote is the very patch for which the
\* matching check passed in the sandbox, never an earlier or a later one and
\* never one that was not run.
ProposalProven ==
  out.action = "propose_fix" => out.fix # 0 /\ out.fix \in proven

\* A run that made a patch never ends in an action without a human gate,
\* however high the risk ceiling; only a review may be posted directly.
CodeChangeGated ==
  /\ tried > 0 /\ pc = "end" => out.gated
  /\ ~out.gated => out.action \in {"comment_review", "none"}
  /\ ~out.gated /\ out.action = "comment_review" => ~ci /\ ~Handoff

\* The first attempt is made whatever the bound.
Budget == IF MaxFix = 0 THEN 1 ELSE MaxFix

\* max_fix_attempts is the number of patches tried before a human is called:
\* never more, never fewer when the verdict was worth a retry.
FixBudget ==
  /\ tried <= Budget
  /\ pc = "end" /\ reason \in Retryable => tried = Budget

\* The verify-and-retry cycle ends: every run comes to a disposition or
\* raises.
RunEnds == pc = "fetch" ~> pc \in {"end", "raised"}

\* "1 => one fix + one retry": a retryable verdict is given up only after
\* max_fix_attempts retries.
RetriesPromised ==
  pc = "end" /\ reason \in Retryable => tried = MaxFix + 1

\* "unknown labels rank as high (most cautious)": a ceiling that is not a risk
\* label never lets a high-risk review out without a human.
UnknownIsCautious ==
  Ceiling \notin RiskNames /\ risk = "high" => out.gated

-----------------------------------------------------------------------------
\* How far the run has come, for a caller that does not see the nodes.
Stage ==
  IF pc = "raised" THEN "raised"
  ELSE IF pc = "end" THEN "decided"
  ELSE IF pc = "router" /\ verified THEN "proved" ELSE "working"

Loop == INSTANCE FixLoop WITH stage <- Stage, tries <- tried, decision <- out

\* The wired graph with its conditional edges, the verifier's verdicts and the
\* policy's inference of the track from what the nodes left in the state
\* together do what one bounded propose-and-check loop would do.
ImplementsFixLoop == Loop!Spec

=============================================================================
