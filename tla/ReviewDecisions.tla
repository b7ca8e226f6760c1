-------------------------- MODULE ReviewDecisions --------------------------
(***************************************************************************)
(* The human-in-the-loop ledger: one row of review_decisions per outward   *)
(* action (repo|pr|commit|action), written by the router at the end of     *)
(* every graph run and by people who approve or reject.                    *)
(*                                                                         *)
(*   app/routing/router.py  router_node, execute_decision                  *)
(*   app/routing/store.py   enqueue_tracked, requeue_failed,               *)
(*                          claim_approval, reject_pending, mark_executed, *)
(*                          mark_failed, sweep_interrupted                 *)
(*   app/main.py            lifespan, approve_review, reject_review        *)
(*   app/commands.py        handle_issue_comment, _approve, _reject        *)
(*                                                                         *)
(* One action is one committed SQL transaction or one GitHub call.  An     *)
(* actor is a graph run in a worker or an approve request in an API        *)
(* process.  `seen' is the status its ORM object of the row holds: an ORM  *)
(* assignment of the value the object already holds writes no column.      *)
(* handoff_mode, dry-run and public_mode are off: they only take steps     *)
(* away (no call reaches GitHub, or approve and reject answer 403).        *)
(***************************************************************************)
EXTENDS Integers, FiniteSets

CONSTANTS
  Decisions,      \* dedup keys of review_decisions
  AutoSafe,       \* those of action comment_review, which a low score auto-posts
  Runs,           \* graph runs in flight in the workers
  Requests,       \* approve requests in flight in the API processes
  Apis,           \* API processes
  ApiOf,          \* the process that serves a request
  Commenters,     \* those that came as a PR comment, not from the dashboard
  None,           \* no decision, no row loaded
  \* the environment
  Faults,         \* outcomes of a GitHub call, or of a mark's commit ("db"),
                  \* other than success
  CrashPoints,    \* control points at which an actor's process may die
  \* bounds
  MaxRuns,        \* graph runs
  MaxRequests,    \* approve and reject requests
  MaxFaults,      \* faults
  MaxCrashes      \* process deaths

ASSUME DecisionsAssumption ==
  /\ AutoSafe \subseteq Decisions
  /\ Runs \cap Requests = {}
  /\ ApiOf \in [Requests -> Apis]
  /\ Commenters \subseteq Requests
  /\ None \notin Decisions
  /\ Faults \subseteq {"fail", "lost", "raise", "db"}
  /\ {MaxRuns, MaxRequests, MaxFaults, MaxCrashes} \subseteq Nat
  /\ IsFiniteSet(Requests) /\ IsFiniteSet(Apis)

VARIABLES
  status,     \* review_decisions.status, "absent" before the INSERT
  origin,     \* which path of the router created the row
  claimed,    \* decisions a person's approval has ever claimed
  posts,      \* comments that landed on GitHub for a decision
  act,        \* an actor: [pc, dec, seen]
  api,        \* an API process: "up", "down" or "sweep" (starting)
  found,      \* the APPROVED rows its start-up sweep has selected
  used        \* budgets spent: runs, requests, faults, crashes

vars == <<status, origin, claimed, posts, act, api, found, used>>

Actors == Runs \cup Requests

DecisionStatus ==
  {"absent", "pending", "approved", "executed", "rejected", "failed"}

Idle == [pc |-> "idle", dec |-> None, seen |-> "absent"]

Doing(pc, d, seen) == [pc |-> pc, dec |-> d, seen |-> seen]

Goto(x, pc) == act' = [act EXCEPT ![x] = Doing(pc, @.dec, @.seen)]
End(x)      == act' = [act EXCEPT ![x] = Idle]

Spend(kind, max) == /\ used[kind] < max
                    /\ used' = [used EXCEPT ![kind] = @ + 1]

Fault(kind) == kind \in Faults /\ Spend("faults", MaxFaults)

Set(d, s)         == status' = [status EXCEPT ![d] = s]
SetIf(cond, d, s) == status' = [status EXCEPT ![d] = IF cond THEN s ELSE @]

Init ==
  /\ status = [d \in Decisions |-> "absent"]
  /\ origin = [d \in Decisions |-> "none"]
  /\ claimed = {}
  /\ posts = [d \in Decisions |-> 0]
  /\ act = [x \in Actors |-> Idle]
  /\ api = [a \in Apis |-> "up"]
  /\ found = [a \in Apis |-> {}]
  /\ used = [runs |-> 0, requests |-> 0, faults |-> 0, crashes |-> 0]

-----------------------------------------------------------------------------
(***************************************************************************)
(* router_node.  enqueue_tracked gets or creates the row, PENDING.         *)
(***************************************************************************)
Enqueue(d, path) ==
  /\ SetIf(status[d] = "absent", d, "pending")
  /\ origin' = [origin EXCEPT ![d] = IF status[d] = "absent" THEN path ELSE @]

\* requires_approval: only persist.  A row read FAILED is to be re-opened.
RouteGated(r, d) ==
  /\ act[r].pc = "idle"
  /\ Spend("runs", MaxRuns)
  /\ Enqueue(d, "gated")
  /\ act' = [act EXCEPT ![r] =
               IF status[d] = "failed" THEN Doing("requeue", d, "failed") ELSE @]
  /\ UNCHANGED <<claimed, posts, api, found>>

\* requeue_failed: compare-and-set FAILED -> PENDING.
Requeue(r) ==
  /\ act[r].pc = "requeue"
  /\ SetIf(status[act[r].dec] = "failed", act[r].dec, "pending")
  /\ End(r)
  /\ UNCHANGED <<origin, claimed, posts, api, found, used>>

\* Mutant of RouteAuto: any existing row that is not final is executed.
RouteAutoUngated(r, d) ==
  /\ act[r].pc = "idle"
  /\ d \in AutoSafe
  /\ Spend("runs", MaxRuns)
  /\ Enqueue(d, "auto")
  /\ act' = [act EXCEPT ![r] =
               IF status[d] \notin {"executed", "rejected"}
               THEN Doing("post", d, status'[d]) ELSE @]
  /\ UNCHANGED <<claimed, posts, api, found>>

\* The auto path executes a row it created, or one it reads FAILED.
RouteAuto(r, d) ==
  /\ act[r].pc = "idle"
  /\ d \in AutoSafe
  /\ Spend("runs", MaxRuns)
  /\ Enqueue(d, "auto")
  /\ act' = [act EXCEPT ![r] =
               IF status[d] \in {"absent", "failed"}
               THEN Doing("post", d, status'[d]) ELSE @]
  /\ UNCHANGED <<claimed, posts, api, found>>

-----------------------------------------------------------------------------
(***************************************************************************)
(* People.  Dashboard and comment commands share claim_approval, but a     *)
(* comment has loaded the row (_decision_for) before the claim, and the    *)
(* session hands that same object back afterwards.                         *)
(***************************************************************************)
Serving(h) == api[ApiOf[h]] = "up" /\ act[h].pc = "idle"

\* Mutant of Claim: read, then write (no compare-and-set).
ClaimBlind(h, d, seen) ==
  /\ Set(d, "approved")
  /\ claimed' = claimed \cup {d}
  /\ act' = [act EXCEPT ![h] = Doing("post", d, seen)]

\* The winning compare-and-set of claim_approval, PENDING (or, to retry a
\* failure, FAILED) -> APPROVED.
Claim(h, d, seen) ==
  /\ status[d] \in {"pending", "failed"}
  /\ Set(d, "approved")
  /\ claimed' = claimed \cup {d}
  /\ act' = [act EXCEPT ![h] = Doing("post", d, seen)]

\* approve_review: the row is loaded after the claim.
Approve(h, d) ==
  /\ h \notin Commenters
  /\ Serving(h)
  /\ status[d] # "absent"
  /\ Spend("requests", MaxRequests)
  /\ Claim(h, d, "approved")
  /\ UNCHANGED <<origin, posts, api, found>>

\* handle_issue_comment: permission is checked and the row loaded.
Look(h, d) ==
  /\ h \in Commenters
  /\ Serving(h)
  /\ status[d] # "absent"
  /\ Spend("requests", MaxRequests)
  /\ act' = [act EXCEPT ![h] = Doing("look", d, status[d])]
  /\ UNCHANGED <<status, origin, claimed, posts, api, found>>

(***************************************************************************)
(* _approve after the load.  The UPDATE moves the loaded object along only *)
(* when that object satisfies the WHERE clause itself; FAILED is retried   *)
(* only when the object, not the row, is FAILED.                           *)
(***************************************************************************)
ApproveComment(h) ==
  LET d == act[h].dec
      seen == act[h].seen IN
  /\ act[h].pc = "look"
  /\ \/ status[d] = "pending"
     \/ status[d] = "failed" /\ seen = "failed"
  /\ Claim(h, d, IF seen = status[d] THEN "approved" ELSE seen)
  /\ UNCHANGED <<origin, posts, api, found, used>>

\* already executed, rejected or in progress: a reply, and nothing else.
RefuseComment(h) ==
  /\ act[h].pc = "look"
  /\ status[act[h].dec] # "pending"
  /\ status[act[h].dec] = "failed" => act[h].seen # "failed"
  /\ End(h)
  /\ UNCHANGED <<status, origin, claimed, posts, api, found, used>>

\* Mutant of Reject: no compare-and-set.
RejectBlind(a, d) ==
  /\ api[a] = "up"
  /\ status[d] \notin {"absent", "executed"}
  /\ Spend("requests", MaxRequests)
  /\ Set(d, "rejected")
  /\ UNCHANGED <<origin, claimed, posts, act, api, found>>

\* reject_review, or a comment's _reject: compare-and-set PENDING -> REJECTED;
\* for any other status the request is answered 409.
Reject(a, d) ==
  /\ api[a] = "up"
  /\ status[d] # "absent"
  /\ Spend("requests", MaxRequests)
  /\ SetIf(status[d] = "pending", d, "rejected")
  /\ UNCHANGED <<origin, claimed, posts, act, api, found>>

-----------------------------------------------------------------------------
(***************************************************************************)
(* execute_decision, then mark_executed or mark_failed: the same code for  *)
(* a run of the auto path and for a claimed approval.                      *)
(***************************************************************************)
Landed(d) == posts' = [posts EXCEPT ![d] = @ + 1]

PostOk(x) ==
  /\ act[x].pc = "post"
  /\ Landed(act[x].dec)
  /\ Goto(x, "ok")
  /\ UNCHANGED <<status, origin, claimed, api, found, used>>

\* HTTP error or status >= 300: ok=False, nothing was posted.
PostRefused(x) ==
  /\ act[x].pc = "post"
  /\ Fault("fail")
  /\ Goto(x, "fail")
  /\ UNCHANGED <<status, origin, claimed, posts, api, found>>

\* A time-out after GitHub accepted the comment: ok=False as well.
PostReplyLost(x) ==
  /\ act[x].pc = "post"
  /\ Fault("lost")
  /\ Landed(act[x].dec)
  /\ Goto(x, "fail")
  /\ UNCHANGED <<status, origin, claimed, api, found>>

\* GitHubAppError from the token mint is not turned into ok=False: router_node
\* swallows it, approve_review answers 500.  The row is left as it is.  A
\* comment has its token before it claims.
PostRaises(x) ==
  /\ act[x].pc = "post"
  /\ x \notin Commenters
  /\ Fault("raise")
  /\ End(x)
  /\ UNCHANGED <<status, origin, claimed, posts, api, found>>

\* Both marks write the status column only if the object holds another value.
MarkExecuted(x) ==
  /\ act[x].pc = "ok"
  /\ SetIf(act[x].seen # "executed", act[x].dec, "executed")
  /\ End(x)
  /\ UNCHANGED <<origin, claimed, posts, api, found, used>>

\* Mutant of MarkFailed: the failure is only logged.
MarkFailedForgotten(x) ==
  /\ act[x].pc = "fail"
  /\ End(x)
  /\ UNCHANGED <<status, origin, claimed, posts, api, found, used>>

MarkFailed(x) ==
  /\ act[x].pc = "fail"
  /\ SetIf(act[x].seen # "failed", act[x].dec, "failed")
  /\ End(x)
  /\ UNCHANGED <<origin, claimed, posts, api, found, used>>

\* The commit of either mark fails: router_node swallows the error, approve
\* and comment answer 500, and the row stays as it is.
MarkRaises(x) ==
  /\ act[x].pc \in {"ok", "fail"}
  /\ Fault("db")
  /\ End(x)
  /\ UNCHANGED <<status, origin, claimed, posts, api, found>>

-----------------------------------------------------------------------------
(***************************************************************************)
(* Deaths and restarts.                                                    *)
(***************************************************************************)
MayDie(x) == act[x].pc = "idle" \/ act[x].pc \in CrashPoints

CrashRun(r) ==
  /\ act[r].pc # "idle"
  /\ MayDie(r)
  /\ Spend("crashes", MaxCrashes)
  /\ End(r)
  /\ UNCHANGED <<status, origin, claimed, posts, api, found>>

CrashApi(a) ==
  /\ api[a] # "down"
  /\ \A h \in Requests : ApiOf[h] = a => MayDie(h)
  /\ Spend("crashes", MaxCrashes)
  /\ api' = [api EXCEPT ![a] = "down"]
  /\ found' = [found EXCEPT ![a] = {}]
  /\ act' = [x \in Actors |->
               IF x \in Requests /\ ApiOf[x] = a THEN Idle ELSE act[x]]
  /\ UNCHANGED <<status, origin, claimed, posts>>

\* sweep_interrupted in the lifespan of a starting process: the SELECT ..
StartApi(a) ==
  /\ api[a] = "down"
  /\ api' = [api EXCEPT ![a] = "sweep"]
  /\ found' = [found EXCEPT ![a] = {d \in Decisions : status[d] = "approved"}]
  /\ UNCHANGED <<status, origin, claimed, posts, act, used>>

\* Mutant of SweepInterrupted: the start-up sweep is left out.
SweepNothing(a) ==
  /\ api[a] = "sweep"
  /\ api' = [api EXCEPT ![a] = "up"]
  /\ found' = [found EXCEPT ![a] = {}]
  /\ UNCHANGED <<status, origin, claimed, posts, act, used>>

\* .. and the commit that makes every row it selected FAILED.
SweepInterrupted(a) ==
  /\ api[a] = "sweep"
  /\ status' = [d \in Decisions |-> IF d \in found[a] THEN "failed" ELSE status[d]]
  /\ api' = [api EXCEPT ![a] = "up"]
  /\ found' = [found EXCEPT ![a] = {}]
  /\ UNCHANGED <<origin, claimed, posts, act, used>>

Execute(x) == PostOk(x) \/ MarkExecuted(x) \/ MarkFailed(x)

PostFault(x) ==
  PostRefused(x) \/ PostReplyLost(x) \/ PostRaises(x) \/ MarkRaises(x)

ApiStep(a) == StartApi(a) \/ SweepInterrupted(a)

RequestStep(h) == Execute(h) \/ ApproveComment(h) \/ RefuseComment(h)

RunStep(r) == Execute(r) \/ Requeue(r)

Next ==
  \/ \E r \in Runs :
       \/ RunStep(r) \/ PostFault(r) \/ CrashRun(r)
       \/ \E d \in Decisions : RouteGated(r, d) \/ RouteAuto(r, d)
  \/ \E h \in Requests :
       \/ RequestStep(h) \/ PostFault(h)
       \/ \E d \in Decisions : Approve(h, d) \/ Look(h, d)
  \/ \E a \in Apis :
       \/ ApiStep(a) \/ CrashApi(a)
       \/ \E d \in Decisions : Reject(a, d)

Spec == Init /\ [][Next]_vars

\* An actor goes on, and a dead API process is restarted.  Graph runs,
\* requests, faults and crashes are never forced.
Fairness ==
  /\ \A r \in Runs : WF_vars(RunStep(r))
  /\ \A h \in Requests : WF_vars(RequestStep(h))
  /\ \A a \in Apis : WF_vars(ApiStep(a))

FairSpec == Spec /\ Fairness

-----------------------------------------------------------------------------
(***************************************************************************)
(* Properties.                                                             *)
(***************************************************************************)
\* The types of all variables.
TypeOK ==
  /\ status \in [Decisions -> DecisionStatus]
  /\ origin \in [Decisions -> {"none", "gated", "auto"}]
  /\ claimed \subseteq Decisions
  /\ posts \in [Decisions -> Nat]
  /\ act \in [Actors -> [pc : {"idle", "look", "requeue", "post", "ok", "fail"},
                         dec : Decisions \cup {None}, seen : DecisionStatus]]
  /\ api \in [Apis -> {"up", "down", "sweep"}]
  /\ found \in [Apis -> SUBSET Decisions]
  /\ used \in [{"runs", "requests", "faults", "crashes"} -> Nat]

\* Approval is the only path by which an action the policy gated reaches
\* GitHub: no comment lands for a decision the gated path created unless a
\* person has approved it, in any environment.
HumanGate ==
  \A d \in Decisions : origin[d] = "gated" /\ posts[d] > 0 => d \in claimed

\* Two approvals, a retry, a redelivery: one comment at most.
PostedOnce == \A d \in Decisions : posts[d] <= 1

\* Rejected means no GitHub action, ever: the row stays REJECTED and nothing
\* lands for it from then on.
RejectedForGood ==
  [][\A d \in Decisions : status[d] = "rejected" =>
       status'[d] = "rejected" /\ posts'[d] = posts[d]]_vars

\* An executed decision is never reopened.
ExecutedForGood ==
  [][\A d \in Decisions : status[d] = "executed" => status'[d] = "executed"]_vars

\* A row is APPROVED only while a request that holds its claim is under way
\* or an API process is still to sweep it.
ClaimHasOwner ==
  \A d \in Decisions : status[d] = "approved" =>
    \/ \E h \in Requests : act[h].dec = d /\ act[h].pc \in {"post", "ok", "fail"}
    \/ \E a \in Apis : api[a] # "up"

\* No approval is in progress for ever.
ClaimsResolve ==
  \A d \in Decisions : status[d] = "approved" ~> status[d] # "approved"

\* The auto path never executes a row that the human gate created.
AutoLeavesTheGate ==
  \A r \in Runs : act[r].pc = "post" => origin[act[r].dec] = "auto"

\* After a failed execution the operator may re-approve or reject.
FailedCanBeRejected ==
  [][\A a \in Apis, d \in Decisions :
       Reject(a, d) /\ status[d] = "failed" => status'[d] = "rejected"]_vars

=============================================================================
