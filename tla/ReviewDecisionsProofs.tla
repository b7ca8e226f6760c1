---------------------- MODULE ReviewDecisionsProofs ----------------------
(***************************************************************************)
(* What holds of the decision ledger in every environment: any GitHub      *)
(* faults, any crash points, any number of decisions, runs, requests and   *)
(* API processes, comment commands on or off.                              *)
(***************************************************************************)
EXTENDS ReviewDecisions, FiniteSetTheorems, TLAPS

\* An actor between its authorisation to post and its mark.
Executing(x, d) == act[x].dec = d /\ act[x].pc \in {"post", "ok", "fail"}

\* Signs that the action of d was authorised: it was posted, is being
\* executed, or its row is in a state or a sweep that only follows a claim
\* when the gated path created the row.
Released(d) ==
  \/ posts[d] > 0
  \/ status[d] \in {"approved", "executed", "failed"}
  \/ \E a \in Apis : d \in found[a]
  \/ \E x \in Actors : Executing(x, d)

\* A row that is not there yet has left no trace, and a busy actor works on
\* a row that is there.
Fresh ==
  /\ \A d \in Decisions : status[d] = "absent" => ~Released(d)
  /\ \A x \in Actors : act[x].pc # "idle" =>
       act[x].dec \in Decisions /\ status[act[x].dec] # "absent"
  /\ \A x \in Actors : act[x].pc = "requeue" => x \in Runs

\* HumanGate, strengthened to everything that leads to a post.
Gate == \A d \in Decisions : origin[d] = "gated" /\ Released(d) => d \in claimed

GateInv == TypeOK /\ Fresh /\ Gate

USE DEF Actors, DecisionStatus, Doing, Idle

\* The type invariant is inductive together with the freshness of rows.
LEMMA TypeNext == TypeOK /\ Fresh /\ [Next]_vars => TypeOK'
  <1> SUFFICES ASSUME TypeOK, Fresh, [Next]_vars PROVE TypeOK'
    OBVIOUS
  <1> USE DecisionsAssumption DEF TypeOK, Fresh
  <1>1. ASSUME NEW r \in Runs, NEW d \in Decisions, RouteGated(r, d)
        PROVE  TypeOK'
    BY <1>1 DEF RouteGated, Enqueue, SetIf, Spend
  <1>2. ASSUME NEW r \in Runs, Requeue(r)
        PROVE  TypeOK'
    BY <1>2 DEF Requeue, SetIf, End
  <1>3. ASSUME NEW r \in Runs, NEW d \in Decisions, RouteAuto(r, d)
        PROVE  TypeOK'
    BY <1>3 DEF RouteAuto, Enqueue, SetIf, Spend
  <1>4. ASSUME NEW r \in Requests, NEW d \in Decisions, Approve(r, d)
        PROVE  TypeOK'
    BY <1>4 DEF Approve, Claim, Set, Spend
  <1>5. ASSUME NEW r \in Requests, NEW d \in Decisions, Look(r, d)
        PROVE  TypeOK'
    BY <1>5 DEF Look, Spend
  <1>6. ASSUME NEW r \in Requests, ApproveComment(r)
        PROVE  TypeOK'
    BY <1>6 DEF ApproveComment, Claim, Set
  <1>7. ASSUME NEW r \in Requests, RefuseComment(r)
        PROVE  TypeOK'
    BY <1>7 DEF RefuseComment, End
  <1>8. ASSUME NEW r \in Apis, NEW d \in Decisions, Reject(r, d)
        PROVE  TypeOK'
    BY <1>8 DEF Reject, SetIf, Spend
  <1>9. ASSUME NEW r \in Actors, PostOk(r)
        PROVE  TypeOK'
    BY <1>9 DEF PostOk, Landed, Goto
  <1>10. ASSUME NEW r \in Actors, PostRefused(r)
        PROVE  TypeOK'
    BY <1>10 DEF PostRefused, Fault, Spend, Goto
  <1>11. ASSUME NEW r \in Actors, PostReplyLost(r)
        PROVE  TypeOK'
    BY <1>11 DEF PostReplyLost, Landed, Fault, Spend, Goto
  <1>12. ASSUME NEW r \in Actors, PostRaises(r)
        PROVE  TypeOK'
    BY <1>12 DEF PostRaises, Fault, Spend, End
  <1>13. ASSUME NEW r \in Actors, MarkExecuted(r)
        PROVE  TypeOK'
    BY <1>13 DEF MarkExecuted, SetIf, End
  <1>14. ASSUME NEW r \in Actors, MarkFailed(r)
        PROVE  TypeOK'
    BY <1>14 DEF MarkFailed, SetIf, End
  <1>15. ASSUME NEW r \in Runs, CrashRun(r)
        PROVE  TypeOK'
    BY <1>15 DEF CrashRun, Spend, End
  <1>16. ASSUME NEW r \in Apis, CrashApi(r)
        PROVE  TypeOK'
    BY <1>16 DEF CrashApi, Spend
  <1>17. ASSUME NEW r \in Apis, StartApi(r)
        PROVE  TypeOK'
    BY <1>17 DEF StartApi
  <1>18. ASSUME NEW r \in Apis, SweepInterrupted(r)
        PROVE  TypeOK'
    BY <1>18 DEF SweepInterrupted
  <1>19. ASSUME NEW r \in Actors, MarkRaises(r)
        PROVE  TypeOK'
    BY <1>19 DEF MarkRaises, Fault, Spend, End
  <1>20. CASE UNCHANGED vars
    BY <1>20 DEF vars
  <1> QED
    BY <1>1, <1>2, <1>3, <1>4, <1>5, <1>6, <1>7, <1>8, <1>9, <1>10, <1>11, <1>12, <1>13, <1>14, <1>15, <1>16, <1>17, <1>18, <1>19, <1>20
       DEF Next, RunStep, RequestStep, ApiStep, Execute, PostFault

\* Every step keeps unborn rows without a trace and gated rows shut until a
\* person's claim opens them.
LEMMA GateNext == GateInv /\ [Next]_vars => GateInv'
  <1> SUFFICES ASSUME GateInv, [Next]_vars PROVE Fresh' /\ Gate'
    BY TypeNext DEF GateInv
  <1> USE DecisionsAssumption DEF GateInv, TypeOK, Fresh, Gate
  <1>1. ASSUME NEW r \in Runs, NEW d \in Decisions, RouteGated(r, d)
        PROVE  Fresh' /\ Gate'
    BY <1>1 DEF RouteGated, Released, Executing, Enqueue, SetIf, Spend
  <1>2. ASSUME NEW r \in Runs, Requeue(r)
        PROVE  Fresh' /\ Gate'
    BY <1>2 DEF Requeue, Released, Executing, SetIf, End
  <1>3. ASSUME NEW r \in Runs, NEW d \in Decisions, RouteAuto(r, d)
        PROVE  Fresh' /\ Gate'
    BY <1>3 DEF RouteAuto, Released, Executing, Enqueue, SetIf, Spend
  <1>4. ASSUME NEW r \in Requests, NEW d \in Decisions, Approve(r, d)
        PROVE  Fresh' /\ Gate'
    BY <1>4 DEF Approve, Released, Executing, Claim, Set, Spend
  <1>5. ASSUME NEW r \in Requests, NEW d \in Decisions, Look(r, d)
        PROVE  Fresh' /\ Gate'
    BY <1>5 DEF Look, Released, Executing, Spend
  <1>6. ASSUME NEW r \in Requests, ApproveComment(r)
        PROVE  Fresh' /\ Gate'
    BY <1>6 DEF ApproveComment, Released, Executing, Claim, Set
  <1>7. ASSUME NEW r \in Requests, RefuseComment(r)
        PROVE  Fresh' /\ Gate'
    BY <1>7 DEF RefuseComment, Released, Executing, End
  <1>8. ASSUME NEW r \in Apis, NEW d \in Decisions, Reject(r, d)
        PROVE  Fresh' /\ Gate'
    BY <1>8 DEF Reject, Released, Executing, SetIf, Spend
  <1>9. ASSUME NEW r \in Actors, PostOk(r)
        PROVE  Fresh' /\ Gate'
    BY <1>9 DEF PostOk, Released, Executing, Landed, Goto
  <1>10. ASSUME NEW r \in Actors, PostRefused(r)
        PROVE  Fresh' /\ Gate'
    BY <1>10 DEF PostRefused, Released, Executing, Fault, Spend, Goto
  <1>11. ASSUME NEW r \in Actors, PostReplyLost(r)
        PROVE  Fresh' /\ Gate'
    BY <1>11 DEF PostReplyLost, Released, Executing, Landed, Fault, Spend, Goto
  <1>12. ASSUME NEW r \in Actors, PostRaises(r)
        PROVE  Fresh' /\ Gate'
    BY <1>12 DEF PostRaises, Released, Executing, Fault, Spend, End
  <1>13. ASSUME NEW r \in Actors, MarkExecuted(r)
        PROVE  Fresh' /\ Gate'
    BY <1>13 DEF MarkExecuted, Released, Executing, SetIf, End
  <1>14. ASSUME NEW r \in Actors, MarkFailed(r)
        PROVE  Fresh' /\ Gate'
    BY <1>14 DEF MarkFailed, Released, Executing, SetIf, End
  <1>15. ASSUME NEW r \in Runs, CrashRun(r)
        PROVE  Fresh' /\ Gate'
    BY <1>15 DEF CrashRun, Released, Executing, Spend, End
  <1>16. ASSUME NEW r \in Apis, CrashApi(r)
        PROVE  Fresh' /\ Gate'
    BY <1>16 DEF CrashApi, Released, Executing, Spend
  <1>17. ASSUME NEW r \in Apis, StartApi(r)
        PROVE  Fresh' /\ Gate'
    BY <1>17 DEF StartApi, Released, Executing
  <1>18. ASSUME NEW r \in Apis, SweepInterrupted(r)
        PROVE  Fresh' /\ Gate'
    BY <1>18 DEF SweepInterrupted, Released, Executing
  <1>19. ASSUME NEW r \in Actors, MarkRaises(r)
        PROVE  Fresh' /\ Gate'
    BY <1>19 DEF MarkRaises, Released, Executing, Fault, Spend, End
  <1>20. CASE UNCHANGED vars
    BY <1>20 DEF vars, Released, Executing
  <1> QED
    BY <1>1, <1>2, <1>3, <1>4, <1>5, <1>6, <1>7, <1>8, <1>9, <1>10, <1>11, <1>12, <1>13, <1>14, <1>15, <1>16, <1>17, <1>18, <1>19, <1>20
       DEF Next, RunStep, RequestStep, ApiStep, Execute, PostFault

\* The invariant holds initially.
LEMMA GateInit == Init => GateInv
  BY DecisionsAssumption DEF Init, GateInv, TypeOK, Fresh, Gate, Released, Executing

\* Type correctness of the ledger.
THEOREM DecisionsTyped == Spec => []TypeOK
  <1>1. GateInv => TypeOK
    BY DEF GateInv
  <1> QED
    BY <1>1, GateInit, GateNext, PTL DEF Spec

\* The human gate: whatever fails, dies or is redelivered, and whatever later
\* runs score, a decision the gated path of router_node created has no
\* comment on GitHub that no person approved.
THEOREM GateHolds == Spec => []HumanGate
  <1>1. GateInv => HumanGate
    BY DEF GateInv, Gate, HumanGate, Released
  <1> QED
    BY <1>1, GateInit, GateNext, PTL DEF Spec

-----------------------------------------------------------------------------
(***************************************************************************)
(* The deployment in which the compare-and-set of claim_approval is enough *)
(* for exactly-once: every action is gated, one API process, GitHub's      *)
(* answer is never lost, and neither a death nor a database error comes    *)
(* between a comment that landed and the commit of mark_executed.          *)
(***************************************************************************)
Dependable ==
  /\ AutoSafe = {}
  /\ {"lost", "db"} \cap Faults = {}
  /\ "ok" \notin CrashPoints
  /\ \A a, b \in Apis : a = b

\* Only a request of a live process executes, its row is APPROVED, and it
\* does not hold a stale EXECUTED object.
HolderApproved ==
  \A x \in Actors :
    /\ x \in Requests /\ act[x].pc # "idle" => api[ApiOf[x]] = "up"
    /\ act[x].pc \in {"look", "post", "ok", "fail"} => x \in Requests
    /\ act[x].pc \in {"post", "ok", "fail"} => status[act[x].dec] = "approved"
    /\ act[x].pc # "idle" /\ act[x].seen = "executed" => status[act[x].dec] = "executed"

\* A claim has one holder.
OneHolder ==
  \A x, y \in Actors, d \in Decisions : Executing(x, d) /\ Executing(y, d) => x = y

\* A comment that landed is on record, or its request is about to record it.
LandedOnce ==
  \A d \in Decisions :
    /\ posts[d] <= 1
    /\ posts[d] = 1 => \/ status[d] = "executed"
                       \/ \E x \in Actors : act[x].dec = d /\ act[x].pc = "ok"

\* What a starting process has selected is still abandoned.
SweepExact ==
  \A a \in Apis, d \in Decisions :
    d \in found[a] => api[a] = "sweep" /\ status[d] = "approved"

ClaimInv == GateInv /\ HolderApproved /\ OneHolder /\ LandedOnce /\ SweepExact

\* The invariant holds initially.
LEMMA ClaimInit == Init => ClaimInv
  <1> SUFFICES ASSUME Init PROVE ClaimInv
    OBVIOUS
  <1>1. GateInv
    BY GateInit
  <1> QED
    BY <1>1, DecisionsAssumption
       DEF Init, ClaimInv, HolderApproved, OneHolder, LandedOnce, SweepExact, Executing

\* In a dependable deployment every step keeps claims exclusive, and REJECTED
\* and EXECUTED rows as they are.
LEMMA ClaimNext ==
  ASSUME Dependable, ClaimInv, [Next]_vars
  PROVE  /\ ClaimInv'
         /\ \A d \in Decisions : status[d] = "executed" => status'[d] = "executed"
         /\ \A d \in Decisions : status[d] = "rejected" =>
              status'[d] = "rejected" /\ posts'[d] = posts[d]
  <1> DEFINE Final ==
        /\ \A d \in Decisions : status[d] = "executed" => status'[d] = "executed"
        /\ \A d \in Decisions : status[d] = "rejected" =>
             status'[d] = "rejected" /\ posts'[d] = posts[d]
  <1> SUFFICES HolderApproved' /\ OneHolder' /\ LandedOnce' /\ SweepExact' /\ Final
    BY GateNext DEF ClaimInv
  <1> USE DecisionsAssumption
      DEF ClaimInv, GateInv, TypeOK, Fresh, HolderApproved, SweepExact
  <1>1. ASSUME NEW r \in Runs, NEW d \in Decisions, RouteGated(r, d)
        PROVE  HolderApproved' /\ OneHolder' /\ LandedOnce' /\ SweepExact' /\ Final
    <2>1. HolderApproved' /\ SweepExact'
      BY <1>1 DEF RouteGated, Enqueue, SetIf, Spend, Dependable, MayDie, Serving, OneHolder, Executing
    <2>2. OneHolder'
      BY <1>1 DEF RouteGated, Enqueue, SetIf, Spend, OneHolder, Executing
    <2>3. LandedOnce' /\ Final
      BY <1>1 DEF RouteGated, Enqueue, SetIf, Spend, Dependable, MayDie, OneHolder, LandedOnce, Executing
    <2> QED
      BY <2>1, <2>2, <2>3
  <1>2. ASSUME NEW r \in Runs, Requeue(r)
        PROVE  HolderApproved' /\ OneHolder' /\ LandedOnce' /\ SweepExact' /\ Final
    <2>1. HolderApproved' /\ SweepExact'
      BY <1>2 DEF Requeue, SetIf, End, Dependable, MayDie, Serving, OneHolder, Executing
    <2>2. OneHolder'
      BY <1>2 DEF Requeue, SetIf, End, OneHolder, Executing
    <2>3. LandedOnce' /\ Final
      BY <1>2 DEF Requeue, SetIf, End, Dependable, MayDie, OneHolder, LandedOnce, Executing
    <2> QED
      BY <2>1, <2>2, <2>3
  <1>3. ASSUME NEW r \in Runs, NEW d \in Decisions, RouteAuto(r, d)
        PROVE  HolderApproved' /\ OneHolder' /\ LandedOnce' /\ SweepExact' /\ Final
    BY <1>3 DEF Dependable, RouteAuto
  <1>4. ASSUME NEW r \in Requests, NEW d \in Decisions, Approve(r, d)
        PROVE  HolderApproved' /\ OneHolder' /\ LandedOnce' /\ SweepExact' /\ Final
    <2>1. HolderApproved' /\ SweepExact'
      BY <1>4 DEF Approve, Claim, Set, Spend, Dependable, Serving, OneHolder, Executing
    <2>2. OneHolder'
      BY <1>4 DEF Approve, Claim, Set, Spend, OneHolder, Executing
    <2>3. \A x \in Actors : act[x].pc = "ok" => act'[x] = act[x]
      BY <1>4 DEF Approve, Claim, Set, Spend, Serving
    <2>4. posts' = posts /\ \A e \in Decisions : status[e] = "executed" => status'[e] = "executed"
      BY <1>4 DEF Approve, Claim, Set, Spend
    <2>5. LandedOnce'
      <3> SUFFICES ASSUME NEW e \in Decisions
                   PROVE  /\ posts[e] <= 1
                          /\ posts[e] = 1 => \/ status'[e] = "executed"
                                             \/ \E x \in Actors : act'[x].dec = e /\ act'[x].pc = "ok"
        BY <2>4 DEF LandedOnce
      <3>1. posts[e] <= 1
        BY DEF LandedOnce
      <3>2. ASSUME posts[e] = 1, status[e] # "executed"
            PROVE  \E x \in Actors : act'[x].dec = e /\ act'[x].pc = "ok"
        <4>1. PICK x \in Actors : act[x].dec = e /\ act[x].pc = "ok"
          BY <3>2 DEF LandedOnce
        <4> QED
          BY <2>3, <4>1
      <3> QED
        BY <2>4, <3>1, <3>2
    <2>6. Final
      BY <1>4 DEF Approve, Claim, Set, Spend
    <2> QED
      BY <2>1, <2>2, <2>5, <2>6
  <1>5. ASSUME NEW r \in Requests, NEW d \in Decisions, Look(r, d)
        PROVE  HolderApproved' /\ OneHolder' /\ LandedOnce' /\ SweepExact' /\ Final
    <2>1. HolderApproved' /\ SweepExact'
      BY <1>5 DEF Look, Spend, Dependable, Serving, OneHolder, Executing
    <2>2. OneHolder'
      BY <1>5 DEF Look, Spend, OneHolder, Executing
    <2>3. \A x \in Actors : act[x].pc = "ok" => act'[x] = act[x]
      BY <1>5 DEF Look, Spend, Serving
    <2>4. posts' = posts /\ \A e \in Decisions : status[e] = "executed" => status'[e] = "executed"
      BY <1>5 DEF Look, Spend
    <2>5. LandedOnce'
      <3> SUFFICES ASSUME NEW e \in Decisions
                   PROVE  /\ posts[e] <= 1
                          /\ posts[e] = 1 => \/ status'[e] = "executed"
                                             \/ \E x \in Actors : act'[x].dec = e /\ act'[x].pc = "ok"
        BY <2>4 DEF LandedOnce
      <3>1. posts[e] <= 1
        BY DEF LandedOnce
      <3>2. ASSUME posts[e] = 1, status[e] # "executed"
            PROVE  \E x \in Actors : act'[x].dec = e /\ act'[x].pc = "ok"
        <4>1. PICK x \in Actors : act[x].dec = e /\ act[x].pc = "ok"
          BY <3>2 DEF LandedOnce
        <4> QED
          BY <2>3, <4>1
      <3> QED
        BY <2>4, <3>1, <3>2
    <2>6. Final
      BY <1>5 DEF Look, Spend
    <2> QED
      BY <2>1, <2>2, <2>5, <2>6
  <1>6. ASSUME NEW r \in Requests, ApproveComment(r)
        PROVE  HolderApproved' /\ OneHolder' /\ LandedOnce' /\ SweepExact' /\ Final
    <2>1. HolderApproved' /\ SweepExact'
      BY <1>6 DEF ApproveComment, Claim, Set, Dependable, MayDie, Serving, OneHolder, Executing
    <2>2. OneHolder'
      BY <1>6 DEF ApproveComment, Claim, Set, OneHolder, Executing
    <2>3. LandedOnce' /\ Final
      BY <1>6 DEF ApproveComment, Claim, Set, Dependable, MayDie, OneHolder, LandedOnce, Executing
    <2> QED
      BY <2>1, <2>2, <2>3
  <1>7. ASSUME NEW r \in Requests, RefuseComment(r)
        PROVE  HolderApproved' /\ OneHolder' /\ LandedOnce' /\ SweepExact' /\ Final
    <2>1. HolderApproved' /\ SweepExact'
      BY <1>7 DEF RefuseComment, End, Dependable, MayDie, Serving, OneHolder, Executing
    <2>2. OneHolder'
      BY <1>7 DEF RefuseComment, End, OneHolder, Executing
    <2>3. LandedOnce' /\ Final
      BY <1>7 DEF RefuseComment, End, Dependable, MayDie, OneHolder, LandedOnce, Executing
    <2> QED
      BY <2>1, <2>2, <2>3
  <1>8. ASSUME NEW r \in Apis, NEW d \in Decisions, Reject(r, d)
        PROVE  HolderApproved' /\ OneHolder' /\ LandedOnce' /\ SweepExact' /\ Final
    <2>1. HolderApproved' /\ SweepExact'
      BY <1>8 DEF Reject, SetIf, Spend, Dependable, MayDie, Serving, OneHolder, Executing
    <2>2. OneHolder'
      BY <1>8 DEF Reject, SetIf, Spend, OneHolder, Executing
    <2>3. LandedOnce' /\ Final
      BY <1>8 DEF Reject, SetIf, Spend, Dependable, MayDie, OneHolder, LandedOnce, Executing
    <2> QED
      BY <2>1, <2>2, <2>3
  <1>9. ASSUME NEW r \in Actors, PostOk(r)
        PROVE  HolderApproved' /\ OneHolder' /\ LandedOnce' /\ SweepExact' /\ Final
    <2>1. HolderApproved' /\ SweepExact'
      BY <1>9 DEF PostOk, Landed, Goto, Dependable, OneHolder, Executing
    <2>2. OneHolder'
      BY <1>9 DEF PostOk, Landed, Goto, OneHolder, Executing
    <2>3. act[r].dec \in Decisions /\ status[act[r].dec] = "approved"
      BY <1>9 DEF PostOk
    <2>4. posts[act[r].dec] = 0
      <3>1. posts[act[r].dec] \in Nat /\ posts[act[r].dec] <= 1
        BY <2>3 DEF LandedOnce
      <3>2. ASSUME posts[act[r].dec] = 1 PROVE FALSE
        <4>1. PICK x \in Actors : act[x].dec = act[r].dec /\ act[x].pc = "ok"
          BY <2>3, <3>2 DEF LandedOnce
        <4>2. Executing(x, act[r].dec) /\ Executing(r, act[r].dec)
          BY <1>9, <4>1 DEF PostOk, Executing
        <4> QED
          BY <1>9, <2>3, <4>1, <4>2 DEF PostOk, OneHolder
      <3>3. \A n \in Nat : n <= 1 => n = 0 \/ n = 1
        OBVIOUS
      <3> QED
        BY <3>1, <3>2, <3>3
    <2>5. act'[r].dec = act[r].dec /\ act'[r].pc = "ok"
      BY <1>9 DEF PostOk, Goto
    <2>6. \A x \in Actors : x # r => act'[x] = act[x]
      BY <1>9 DEF PostOk, Goto
    <2>7. \A e \in Decisions : posts'[e] = IF e = act[r].dec THEN posts[e] + 1 ELSE posts[e]
      BY <1>9 DEF PostOk, Landed
    <2>8. status' = status
      BY <1>9 DEF PostOk
    <2>9. LandedOnce'
      <3> SUFFICES ASSUME NEW e \in Decisions
                   PROVE  /\ posts'[e] <= 1
                          /\ posts'[e] = 1 => \/ status'[e] = "executed"
                                              \/ \E x \in Actors : act'[x].dec = e /\ act'[x].pc = "ok"
        BY DEF LandedOnce
      <3>1. CASE e = act[r].dec
        BY <2>4, <2>5, <2>7, <3>1
      <3>2. CASE e # act[r].dec
        <4>1. posts'[e] = posts[e] /\ posts[e] <= 1
          BY <2>7, <3>2 DEF LandedOnce
        <4>2. ASSUME posts[e] = 1, status[e] # "executed"
              PROVE  \E x \in Actors : act'[x].dec = e /\ act'[x].pc = "ok"
          <5>1. PICK x \in Actors : act[x].dec = e /\ act[x].pc = "ok"
            BY <4>2 DEF LandedOnce
          <5> QED
            BY <2>6, <3>2, <5>1
        <4> QED
          BY <2>8, <4>1, <4>2
      <3> QED
        BY <3>1, <3>2
    <2>10. Final
      BY <2>3, <2>7, <2>8
    <2> QED
      BY <2>1, <2>2, <2>9, <2>10
  <1>10. ASSUME NEW r \in Actors, PostRefused(r)
        PROVE  HolderApproved' /\ OneHolder' /\ LandedOnce' /\ SweepExact' /\ Final
    <2>1. HolderApproved' /\ SweepExact'
      BY <1>10 DEF PostRefused, Fault, Spend, Goto, Dependable, MayDie, Serving, OneHolder, Executing
    <2>2. OneHolder'
      BY <1>10 DEF PostRefused, Fault, Spend, Goto, OneHolder, Executing
    <2>3. LandedOnce' /\ Final
      BY <1>10 DEF PostRefused, Fault, Spend, Goto, Dependable, MayDie, OneHolder, LandedOnce, Executing
    <2> QED
      BY <2>1, <2>2, <2>3
  <1>11. ASSUME NEW r \in Actors, PostReplyLost(r)
        PROVE  HolderApproved' /\ OneHolder' /\ LandedOnce' /\ SweepExact' /\ Final
    BY <1>11 DEF Dependable, PostReplyLost, Fault
  <1>12. ASSUME NEW r \in Actors, PostRaises(r)
        PROVE  HolderApproved' /\ OneHolder' /\ LandedOnce' /\ SweepExact' /\ Final
    <2>1. HolderApproved' /\ SweepExact'
      BY <1>12 DEF PostRaises, Fault, Spend, End, Dependable, MayDie, Serving, OneHolder, Executing
    <2>2. OneHolder'
      BY <1>12 DEF PostRaises, Fault, Spend, End, OneHolder, Executing
    <2>3. LandedOnce' /\ Final
      BY <1>12 DEF PostRaises, Fault, Spend, End, Dependable, MayDie, OneHolder, LandedOnce, Executing
    <2> QED
      BY <2>1, <2>2, <2>3
  <1>13. ASSUME NEW r \in Actors, MarkExecuted(r)
        PROVE  HolderApproved' /\ OneHolder' /\ LandedOnce' /\ SweepExact' /\ Final
    <2>1. HolderApproved' /\ SweepExact'
      BY <1>13 DEF MarkExecuted, SetIf, End, Dependable, MayDie, Serving, OneHolder, Executing
    <2>2. OneHolder'
      BY <1>13 DEF MarkExecuted, SetIf, End, OneHolder, Executing
    <2>3. LandedOnce' /\ Final
      BY <1>13 DEF MarkExecuted, SetIf, End, Dependable, MayDie, OneHolder, LandedOnce, Executing
    <2> QED
      BY <2>1, <2>2, <2>3
  <1>14. ASSUME NEW r \in Actors, MarkFailed(r)
        PROVE  HolderApproved' /\ OneHolder' /\ LandedOnce' /\ SweepExact' /\ Final
    <2>1. HolderApproved' /\ SweepExact'
      BY <1>14 DEF MarkFailed, SetIf, End, Dependable, MayDie, Serving, OneHolder, Executing
    <2>2. OneHolder'
      BY <1>14 DEF MarkFailed, SetIf, End, OneHolder, Executing
    <2>3. LandedOnce' /\ Final
      BY <1>14 DEF MarkFailed, SetIf, End, Dependable, MayDie, OneHolder, LandedOnce, Executing
    <2> QED
      BY <2>1, <2>2, <2>3
  <1>15. ASSUME NEW r \in Runs, CrashRun(r)
        PROVE  HolderApproved' /\ OneHolder' /\ LandedOnce' /\ SweepExact' /\ Final
    <2>1. HolderApproved' /\ SweepExact'
      BY <1>15 DEF CrashRun, Spend, End, Dependable, MayDie, Serving, OneHolder, Executing
    <2>2. OneHolder'
      BY <1>15 DEF CrashRun, Spend, End, OneHolder, Executing
    <2>3. LandedOnce' /\ Final
      BY <1>15 DEF CrashRun, Spend, End, Dependable, MayDie, OneHolder, LandedOnce, Executing
    <2> QED
      BY <2>1, <2>2, <2>3
  <1>16. ASSUME NEW r \in Apis, CrashApi(r)
        PROVE  HolderApproved' /\ OneHolder' /\ LandedOnce' /\ SweepExact' /\ Final
    <2>1. HolderApproved' /\ SweepExact'
      BY <1>16 DEF CrashApi, Spend, Dependable, MayDie, Serving, OneHolder, Executing
    <2>2. OneHolder'
      BY <1>16 DEF CrashApi, Spend, OneHolder, Executing
    <2>3. LandedOnce' /\ Final
      BY <1>16 DEF CrashApi, Spend, Dependable, MayDie, OneHolder, LandedOnce, Executing
    <2> QED
      BY <2>1, <2>2, <2>3
  <1>17. ASSUME NEW r \in Apis, StartApi(r)
        PROVE  HolderApproved' /\ OneHolder' /\ LandedOnce' /\ SweepExact' /\ Final
    <2>1. HolderApproved' /\ SweepExact'
      BY <1>17 DEF StartApi, Dependable, MayDie, Serving, OneHolder, Executing
    <2>2. OneHolder'
      BY <1>17 DEF StartApi, OneHolder, Executing
    <2>3. LandedOnce' /\ Final
      BY <1>17 DEF StartApi, Dependable, MayDie, OneHolder, LandedOnce, Executing
    <2> QED
      BY <2>1, <2>2, <2>3
  <1>18. ASSUME NEW r \in Apis, SweepInterrupted(r)
        PROVE  HolderApproved' /\ OneHolder' /\ LandedOnce' /\ SweepExact' /\ Final
    <2>1. HolderApproved' /\ SweepExact'
      BY <1>18 DEF SweepInterrupted, Dependable, MayDie, Serving, OneHolder, Executing
    <2>2. OneHolder'
      BY <1>18 DEF SweepInterrupted, OneHolder, Executing
    <2>3. LandedOnce' /\ Final
      BY <1>18 DEF SweepInterrupted, Dependable, MayDie, OneHolder, LandedOnce, Executing
    <2> QED
      BY <2>1, <2>2, <2>3
  <1>19. ASSUME NEW r \in Actors, MarkRaises(r)
        PROVE  HolderApproved' /\ OneHolder' /\ LandedOnce' /\ SweepExact' /\ Final
    BY <1>19 DEF Dependable, MarkRaises, Fault
  <1>20. CASE UNCHANGED vars
    BY <1>20 DEF vars, OneHolder, LandedOnce, Executing
  <1> QED
    BY <1>1, <1>2, <1>3, <1>4, <1>5, <1>6, <1>7, <1>8, <1>9, <1>10, <1>11, <1>12, <1>13, <1>14, <1>15, <1>16, <1>17, <1>18, <1>19, <1>20
       DEF Next, RunStep, RequestStep, ApiStep, Execute, PostFault

\* Exactly once: in a dependable deployment no decision is ever posted twice,
\* however many approvals, retries and redeliveries compete for it.
THEOREM ExactlyOnce == ASSUME Dependable PROVE Spec => []PostedOnce
  <1>1. ClaimInv => PostedOnce
    BY DEF ClaimInv, LandedOnce, PostedOnce
  <1>2. ClaimInv /\ [Next]_vars => ClaimInv'
    BY ClaimNext
  <1> QED
    BY <1>1, <1>2, ClaimInit, PTL DEF Spec

\* In a dependable deployment a rejected decision stays rejected and no
\* comment lands for it, and an executed one is never reopened.
THEOREM VerdictsStand ==
  ASSUME Dependable PROVE Spec => RejectedForGood /\ ExecutedForGood
  <1>1. ClaimInv /\ [Next]_vars => ClaimInv'
    BY ClaimNext
  <1>2. ClaimInv /\ [Next]_vars =>
          [\A d \in Decisions : status[d] = "rejected" =>
             status'[d] = "rejected" /\ posts'[d] = posts[d]]_vars
    BY ClaimNext
  <1>3. ClaimInv /\ [Next]_vars =>
          [\A d \in Decisions : status[d] = "executed" => status'[d] = "executed"]_vars
    BY ClaimNext
  <1> QED
    BY <1>1, <1>2, <1>3, ClaimInit, PTL DEF Spec, RejectedForGood, ExecutedForGood

-----------------------------------------------------------------------------
(***************************************************************************)
(* Approvals that cannot be stranded: they come from the dashboard, which  *)
(* loads the row after its claim, the GitHub client answers instead of     *)
(* raising, and the commit of a mark succeeds.  The first two are needed:  *)
(* ReviewDecisionsStaleComment.cfg and ReviewDecisionsRaise.cfg; a mark    *)
(* that raises ends as a call that raises does.  Any number of API         *)
(* processes may come and go.                                              *)
(***************************************************************************)
Supervised == Commenters = {} /\ {"raise", "db"} \cap Faults = {}

\* An APPROVED row is being executed, or some process is down, or one that is
\* starting has selected it.  "Not up" alone is not inductive: the sweep of a
\* process that does not have the row on its list would leave it behind.
Owned ==
  \A d \in Decisions : status[d] = "approved" =>
    \/ \E h \in Requests : Executing(h, d)
    \/ \E a \in Apis : api[a] = "down"
    \/ \E a \in Apis : api[a] = "sweep" /\ d \in found[a]

\* A request holds the object it claimed, so that its mark is an UPDATE.
ClaimLoaded ==
  \A h \in Requests :
    /\ act[h].pc # "look"
    /\ act[h].pc \in {"post", "ok", "fail"} => act[h].seen = "approved"

OwnerInv == GateInv /\ Owned /\ ClaimLoaded

\* Every step leaves an APPROVED row with somebody who will deal with it.
LEMMA OwnerNext == ASSUME Supervised, OwnerInv, [Next]_vars PROVE OwnerInv'
  <1> SUFFICES Owned' /\ ClaimLoaded'
    BY GateNext DEF OwnerInv
  <1> USE DecisionsAssumption DEF OwnerInv, GateInv, TypeOK, Fresh, Owned, ClaimLoaded, Executing
  <1>1. ASSUME NEW r \in Runs, NEW d \in Decisions, RouteGated(r, d)
        PROVE  Owned' /\ ClaimLoaded'
    BY <1>1 DEF RouteGated, Enqueue, SetIf, Spend
  <1>2. ASSUME NEW r \in Runs, Requeue(r)
        PROVE  Owned' /\ ClaimLoaded'
    BY <1>2 DEF Requeue, SetIf, End
  <1>3. ASSUME NEW r \in Runs, NEW d \in Decisions, RouteAuto(r, d)
        PROVE  Owned' /\ ClaimLoaded'
    BY <1>3 DEF RouteAuto, Enqueue, SetIf, Spend
  <1>4. ASSUME NEW r \in Requests, NEW d \in Decisions, Approve(r, d)
        PROVE  Owned' /\ ClaimLoaded'
    BY <1>4 DEF Approve, Serving, Claim, Set, Spend
  <1>5. ASSUME NEW r \in Requests, NEW d \in Decisions, Look(r, d)
        PROVE  Owned' /\ ClaimLoaded'
    BY <1>5 DEF Look, Supervised
  <1>6. ASSUME NEW r \in Requests, ApproveComment(r)
        PROVE  Owned' /\ ClaimLoaded'
    BY <1>6 DEF ApproveComment
  <1>7. ASSUME NEW r \in Requests, RefuseComment(r)
        PROVE  Owned' /\ ClaimLoaded'
    BY <1>7 DEF RefuseComment
  <1>8. ASSUME NEW r \in Apis, NEW d \in Decisions, Reject(r, d)
        PROVE  Owned' /\ ClaimLoaded'
    BY <1>8 DEF Reject, SetIf, Spend
  <1>9. ASSUME NEW r \in Actors, PostOk(r)
        PROVE  Owned' /\ ClaimLoaded'
    BY <1>9 DEF PostOk, Goto
  <1>10. ASSUME NEW r \in Actors, PostRefused(r)
        PROVE  Owned' /\ ClaimLoaded'
    BY <1>10 DEF PostRefused, Goto
  <1>11. ASSUME NEW r \in Actors, PostReplyLost(r)
        PROVE  Owned' /\ ClaimLoaded'
    BY <1>11 DEF PostReplyLost, Goto
  <1>12. ASSUME NEW r \in Actors, PostRaises(r)
        PROVE  Owned' /\ ClaimLoaded'
    BY <1>12 DEF PostRaises, Fault, Supervised
  <1>13. ASSUME NEW r \in Actors, MarkExecuted(r)
        PROVE  Owned' /\ ClaimLoaded'
    BY <1>13 DEF MarkExecuted, SetIf, End
  <1>14. ASSUME NEW r \in Actors, MarkFailed(r)
        PROVE  Owned' /\ ClaimLoaded'
    BY <1>14 DEF MarkFailed, SetIf, End
  <1>15. ASSUME NEW r \in Runs, CrashRun(r)
        PROVE  Owned' /\ ClaimLoaded'
    BY <1>15 DEF CrashRun, End
  <1>16. ASSUME NEW r \in Apis, CrashApi(r)
        PROVE  Owned' /\ ClaimLoaded'
    BY <1>16 DEF CrashApi
  <1>17. ASSUME NEW r \in Apis, StartApi(r)
        PROVE  Owned' /\ ClaimLoaded'
    BY <1>17 DEF StartApi
  <1>18. ASSUME NEW r \in Apis, SweepInterrupted(r)
        PROVE  Owned' /\ ClaimLoaded'
    BY <1>18 DEF SweepInterrupted
  <1>19. ASSUME NEW r \in Actors, MarkRaises(r)
        PROVE  Owned' /\ ClaimLoaded'
    BY <1>19 DEF MarkRaises, Fault, Supervised
  <1>20. CASE UNCHANGED vars
    BY <1>20 DEF vars
  <1> QED
    BY <1>1, <1>2, <1>3, <1>4, <1>5, <1>6, <1>7, <1>8, <1>9, <1>10, <1>11, <1>12, <1>13, <1>14, <1>15, <1>16, <1>17, <1>18, <1>19, <1>20
       DEF Next, RunStep, RequestStep, ApiStep, Execute, PostFault

\* No approval is stranded: whenever a row is APPROVED a request is executing it
\* or a process that has not finished its start-up sweep is there to fail it.
THEOREM ClaimsOwned == ASSUME Supervised PROVE Spec => []ClaimHasOwner
  <1>1. Init => OwnerInv
    BY GateInit, DecisionsAssumption DEF Init, OwnerInv, Owned, ClaimLoaded
  <1>2. OwnerInv /\ [Next]_vars => OwnerInv'
    BY OwnerNext
  <1>3. OwnerInv => ClaimHasOwner
    BY DEF OwnerInv, Owned, ClaimHasOwner, Executing
  <1> QED
    BY <1>1, <1>2, <1>3, PTL DEF Spec

-----------------------------------------------------------------------------
(***************************************************************************)
(* How often an action that only people release can be repeated, in every  *)
(* environment: one comment, and one more at most for each call or commit  *)
(* that went wrong and each process that died.  No order of approvals,     *)
(* rejections, comment commands, re-runs and rolling restarts repeats it   *)
(* for free.  An auto-posted action has no such bound: its runs do not     *)
(* claim the row (ReviewDecisionsAutoRace.cfg).                            *)
(***************************************************************************)
RepeatsPaid ==
  \A d \in Decisions \ AutoSafe : posts[d] <= 1 + used.faults + used.crashes

\* Requests that may still post d, or will write FAILED into its row.
Owing(d) == {h \in Requests : act[h].dec = d /\ act[h].pc \in {"post", "fail"}}

\* API processes that may still sweep the row of d to FAILED.
Restarting == {a \in Apis : api[a] # "up"}

\* 1 while the row of d can be claimed, now or after a requeue.
Claimable(d) == IF status[d] \in {"absent", "pending", "failed"} THEN 1 ELSE 0

\* Graph runs post nothing else than what a low score may post.
RunsAutoSafe ==
  \A r \in Runs : act[r].pc \in {"post", "ok", "fail"} => act[r].dec \in AutoSafe

\* Every way to another comment is counted once: the claim turns a claimable row
\* into an owing request, the call turns that into a comment, and whatever makes
\* the row claimable again was paid for by a fault or a death.
PaidFor(d) ==
  posts[d] + Cardinality(Owing(d)) + Cardinality(Restarting) + Claimable(d)
    <= 1 + used.faults + used.crashes

PaidInv == RunsAutoSafe /\ \A d \in Decisions \ AutoSafe : PaidFor(d)

LEMMA Smaller ==
  ASSUME NEW S, NEW T, IsFiniteSet(T), S \subseteq T
  PROVE  Cardinality(S) \in Nat /\ Cardinality(T) \in Nat /\ Cardinality(S) <= Cardinality(T)
  BY FS_Subset, FS_CardinalityType

LEMMA LargerByOne ==
  ASSUME NEW S, NEW T, NEW x, IsFiniteSet(T), S \subseteq T \cup {x}
  PROVE  Cardinality(S) \in Nat /\ Cardinality(T) \in Nat /\ Cardinality(S) <= Cardinality(T) + 1
  <1>1. /\ IsFiniteSet(T \cup {x})
        /\ Cardinality(T \cup {x}) = IF x \in T THEN Cardinality(T) ELSE Cardinality(T) + 1
    BY FS_AddElement, Zenon
  <1>2. Cardinality(S) \in Nat /\ Cardinality(S) <= Cardinality(T \cup {x})
    BY <1>1, Smaller, Zenon
  <1>3. Cardinality(T) \in Nat
    BY FS_CardinalityType, Zenon
  <1> QED
    BY <1>1, <1>2, <1>3

LEMMA SmallerByOne ==
  ASSUME NEW S, NEW T, NEW x \in T, IsFiniteSet(T), S \subseteq T \ {x}
  PROVE  Cardinality(S) \in Nat /\ Cardinality(T) \in Nat /\ Cardinality(S) + 1 <= Cardinality(T)
  <1>1. IsFiniteSet(T \ {x}) /\ Cardinality(T \ {x}) = Cardinality(T) - 1
    BY FS_RemoveElement, Zenon
  <1>2. Cardinality(S) \in Nat /\ Cardinality(S) <= Cardinality(T \ {x})
    BY <1>1, Smaller, Zenon
  <1>3. Cardinality(T) \in Nat
    BY FS_CardinalityType, Zenon
  <1> QED
    BY <1>1, <1>2, <1>3

LEMMA OwingFinite ==
  ASSUME NEW d
  PROVE  IsFiniteSet(Owing(d)) /\ IsFiniteSet(Restarting)
  BY FS_Subset, DecisionsAssumption DEF Owing, Restarting

\* What leaves d alone, or only ends one of its ways to a comment.
PaidKept(d) ==
  /\ posts'[d] = posts[d] /\ Owing(d)' \subseteq Owing(d)
  /\ Restarting' \subseteq Restarting /\ Claimable(d)' <= Claimable(d)
  /\ used'.faults >= used.faults /\ used'.crashes >= used.crashes

LEMMA PaidIfKept ==
  ASSUME NEW d \in Decisions, TypeOK, TypeOK', PaidFor(d), PaidKept(d)
  PROVE  PaidFor(d)'
  <1>1. /\ Cardinality(Owing(d)') \in Nat /\ Cardinality(Owing(d)) \in Nat
        /\ Cardinality(Owing(d)') <= Cardinality(Owing(d))
    BY OwingFinite, Smaller DEF PaidKept
  <1>2. /\ Cardinality(Restarting') \in Nat /\ Cardinality(Restarting) \in Nat
        /\ Cardinality(Restarting') <= Cardinality(Restarting)
    BY OwingFinite, Smaller DEF PaidKept
  <1>3. /\ posts[d] \in Nat
        /\ {used.faults, used.crashes, used'.faults, used'.crashes} \subseteq Nat
        /\ {Claimable(d), Claimable(d)'} \subseteq {0, 1}
    BY DEF TypeOK, Claimable
  <1> QED
    BY <1>1, <1>2, <1>3 DEF PaidKept, PaidFor

\* Only RouteAuto sends a run to GitHub, and only for an auto-safe action.
LEMMA RunsAutoSafeNext == GateInv /\ RunsAutoSafe /\ [Next]_vars => RunsAutoSafe'
  <1> SUFFICES ASSUME GateInv, RunsAutoSafe, [Next]_vars PROVE RunsAutoSafe'
    OBVIOUS
  <1> USE DecisionsAssumption DEF GateInv, TypeOK, RunsAutoSafe
  <1>1. ASSUME NEW r \in Runs, NEW d \in Decisions, RouteGated(r, d)
        PROVE  RunsAutoSafe'
    BY <1>1 DEF RouteGated
  <1>2. ASSUME NEW r \in Runs, Requeue(r)
        PROVE  RunsAutoSafe'
    BY <1>2 DEF Requeue, End
  <1>3. ASSUME NEW r \in Runs, NEW d \in Decisions, RouteAuto(r, d)
        PROVE  RunsAutoSafe'
    BY <1>3 DEF RouteAuto
  <1>4. ASSUME NEW r \in Requests, NEW d \in Decisions, Approve(r, d)
        PROVE  RunsAutoSafe'
    BY <1>4 DEF Approve, Claim
  <1>5. ASSUME NEW r \in Requests, NEW d \in Decisions, Look(r, d)
        PROVE  RunsAutoSafe'
    BY <1>5 DEF Look
  <1>6. ASSUME NEW r \in Requests, ApproveComment(r)
        PROVE  RunsAutoSafe'
    BY <1>6 DEF ApproveComment, Claim
  <1>7. ASSUME NEW r \in Requests, RefuseComment(r)
        PROVE  RunsAutoSafe'
    BY <1>7 DEF RefuseComment, End
  <1>8. ASSUME NEW r \in Apis, NEW d \in Decisions, Reject(r, d)
        PROVE  RunsAutoSafe'
    BY <1>8 DEF Reject
  <1>9. ASSUME NEW r \in Actors, PostOk(r)
        PROVE  RunsAutoSafe'
    BY <1>9 DEF PostOk, Goto
  <1>10. ASSUME NEW r \in Actors, PostRefused(r)
        PROVE  RunsAutoSafe'
    BY <1>10 DEF PostRefused, Goto
  <1>11. ASSUME NEW r \in Actors, PostReplyLost(r)
        PROVE  RunsAutoSafe'
    BY <1>11 DEF PostReplyLost, Goto
  <1>12. ASSUME NEW r \in Actors, PostRaises(r)
        PROVE  RunsAutoSafe'
    BY <1>12 DEF PostRaises, End
  <1>13. ASSUME NEW r \in Actors, MarkExecuted(r)
        PROVE  RunsAutoSafe'
    BY <1>13 DEF MarkExecuted, End
  <1>14. ASSUME NEW r \in Actors, MarkFailed(r)
        PROVE  RunsAutoSafe'
    BY <1>14 DEF MarkFailed, End
  <1>15. ASSUME NEW r \in Runs, CrashRun(r)
        PROVE  RunsAutoSafe'
    BY <1>15 DEF CrashRun, End
  <1>16. ASSUME NEW r \in Apis, CrashApi(r)
        PROVE  RunsAutoSafe'
    BY <1>16 DEF CrashApi
  <1>17. ASSUME NEW r \in Apis, StartApi(r)
        PROVE  RunsAutoSafe'
    BY <1>17 DEF StartApi
  <1>18. ASSUME NEW r \in Apis, SweepInterrupted(r)
        PROVE  RunsAutoSafe'
    BY <1>18 DEF SweepInterrupted
  <1>19. ASSUME NEW r \in Actors, MarkRaises(r)
        PROVE  RunsAutoSafe'
    BY <1>19 DEF MarkRaises, End
  <1>20. CASE UNCHANGED vars
    BY <1>20 DEF vars
  <1> QED
    BY <1>1, <1>2, <1>3, <1>4, <1>5, <1>6, <1>7, <1>8, <1>9, <1>10, <1>11, <1>12, <1>13, <1>14, <1>15, <1>16, <1>17, <1>18, <1>19, <1>20
       DEF Next, RunStep, RequestStep, ApiStep, Execute, PostFault

\* A claim of d pays for its owing request with the claimable row.
LEMMA PaidClaim ==
  ASSUME NEW d \in Decisions, TypeOK, TypeOK', PaidFor(d),
         NEW h \in Requests, NEW e \in Decisions, NEW seen, Claim(h, e, seen),
         posts' = posts, api' = api, act[h].pc \notin {"post", "fail"},
         used'.faults = used.faults, used'.crashes = used.crashes
  PROVE  PaidFor(d)'
  <1>1. CASE e # d
    <2>1. PaidKept(d)
      BY <1>1 DEF PaidKept, Claim, Set, TypeOK, Owing, Restarting, Claimable
    <2> QED
      BY <2>1, PaidIfKept
  <1>2. CASE e = d
    <2>1. Owing(d)' \subseteq Owing(d) \cup {h} /\ Restarting' = Restarting
      BY <1>2 DEF Claim, TypeOK, Owing, Restarting
    <2>2. /\ Cardinality(Owing(d)') \in Nat /\ Cardinality(Owing(d)) \in Nat
          /\ Cardinality(Owing(d)') <= Cardinality(Owing(d)) + 1
      BY <2>1, OwingFinite, LargerByOne
    <2>3. Cardinality(Restarting) \in Nat
      BY OwingFinite, FS_CardinalityType
    <2>4. Claimable(d) = 1 /\ Claimable(d)' = 0
      BY <1>2 DEF Claim, Set, TypeOK, Claimable
    <2>5. posts[d] \in Nat /\ {used.faults, used.crashes} \subseteq Nat
      BY DEF TypeOK
    <2> QED
      BY <2>1, <2>2, <2>3, <2>4, <2>5 DEF PaidFor
  <1> QED
    BY <1>1, <1>2

\* A request that leaves the posting point of d, or the mark after a failure,
\* makes room for one comment or for a row that can be claimed again.
LEMMA PaidLeave ==
  ASSUME NEW d \in Decisions, TypeOK, TypeOK', PaidFor(d),
         NEW h \in Owing(d), Owing(d)' \subseteq Owing(d) \ {h}, api' = api, used' = used,
         posts'[d] + Claimable(d)' <= posts[d] + Claimable(d) + 1
  PROVE  PaidFor(d)'
  <1>1. /\ Cardinality(Owing(d)') \in Nat /\ Cardinality(Owing(d)) \in Nat
        /\ Cardinality(Owing(d)') + 1 <= Cardinality(Owing(d))
    BY OwingFinite, SmallerByOne
  <1>2. Restarting' = Restarting /\ Cardinality(Restarting) \in Nat
    BY OwingFinite, FS_CardinalityType DEF Restarting
  <1>3. /\ {posts[d], posts'[d], used.faults, used.crashes} \subseteq Nat
        /\ {Claimable(d), Claimable(d)'} \subseteq {0, 1}
    BY DEF TypeOK, Claimable
  <1> QED
    BY <1>1, <1>2, <1>3 DEF PaidFor

\* A call that fails, whether the comment landed or not, is a fault of its own.
LEMMA PaidFault ==
  ASSUME NEW d \in Decisions, TypeOK, TypeOK', PaidFor(d),
         Owing(d)' \subseteq Owing(d), api' = api, status' = status,
         posts'[d] <= posts[d] + 1,
         used'.faults = used.faults + 1, used'.crashes = used.crashes
  PROVE  PaidFor(d)'
  <1>1. /\ Cardinality(Owing(d)') \in Nat /\ Cardinality(Owing(d)) \in Nat
        /\ Cardinality(Owing(d)') <= Cardinality(Owing(d))
    BY OwingFinite, Smaller
  <1>2. Restarting' = Restarting /\ Cardinality(Restarting) \in Nat
    BY OwingFinite, FS_CardinalityType DEF Restarting
  <1>3. /\ {posts[d], posts'[d], used.faults, used.crashes} \subseteq Nat
        /\ Claimable(d)' = Claimable(d) /\ Claimable(d) \in {0, 1}
    BY DEF TypeOK, Claimable
  <1> QED
    BY <1>1, <1>2, <1>3 DEF PaidFor

\* A death pays for the sweep of the process that starts again.
LEMMA PaidCrashApi ==
  ASSUME NEW d \in Decisions, TypeOK, TypeOK', PaidFor(d), NEW a \in Apis, CrashApi(a)
  PROVE  PaidFor(d)'
  <1>1. Owing(d)' \subseteq Owing(d)
    BY DecisionsAssumption DEF CrashApi, TypeOK, Owing
  <1>2. Restarting' \subseteq Restarting \cup {a}
    BY DEF CrashApi, TypeOK, Restarting
  <1>3. /\ Cardinality(Owing(d)') \in Nat /\ Cardinality(Owing(d)) \in Nat
        /\ Cardinality(Owing(d)') <= Cardinality(Owing(d))
    BY <1>1, OwingFinite, Smaller
  <1>4. /\ Cardinality(Restarting') \in Nat /\ Cardinality(Restarting) \in Nat
        /\ Cardinality(Restarting') <= Cardinality(Restarting) + 1
    BY <1>2, OwingFinite, LargerByOne
  <1>5. /\ {posts[d], used.faults, used.crashes} \subseteq Nat /\ posts' = posts
        /\ Claimable(d)' = Claimable(d) /\ Claimable(d) \in {0, 1}
        /\ used'.faults = used.faults /\ used'.crashes = used.crashes + 1
    BY DEF CrashApi, Spend, TypeOK, Claimable
  <1> QED
    BY <1>3, <1>4, <1>5 DEF PaidFor

\* The sweep of a process uses up what its death paid for.
LEMMA PaidSweep ==
  ASSUME NEW d \in Decisions, TypeOK, TypeOK', PaidFor(d), NEW a \in Apis, SweepInterrupted(a)
  PROVE  PaidFor(d)'
  <1>1. Owing(d)' = Owing(d) /\ Cardinality(Owing(d)) \in Nat
    BY OwingFinite, FS_CardinalityType DEF SweepInterrupted, Owing
  <1>2. a \in Restarting /\ Restarting' \subseteq Restarting \ {a}
    BY DEF SweepInterrupted, TypeOK, Restarting
  <1>3. /\ Cardinality(Restarting') \in Nat /\ Cardinality(Restarting) \in Nat
        /\ Cardinality(Restarting') + 1 <= Cardinality(Restarting)
    BY <1>2, OwingFinite, SmallerByOne
  <1>4. /\ {posts[d], used.faults, used.crashes} \subseteq Nat /\ posts' = posts /\ used' = used
        /\ {Claimable(d), Claimable(d)'} \subseteq {0, 1}
    BY DEF SweepInterrupted, TypeOK, Claimable
  <1> QED
    BY <1>1, <1>3, <1>4 DEF PaidFor

LEMMA PaidNext ==
  ASSUME GateInv, RunsAutoSafe, [Next]_vars, NEW c \in Decisions \ AutoSafe, PaidFor(c)
  PROVE  PaidFor(c)'
  <1>0. TypeOK /\ TypeOK'
    BY GateNext DEF GateInv
  <1> USE DecisionsAssumption DEF TypeOK
  <1>1. ASSUME NEW r \in Runs, NEW d \in Decisions, RouteGated(r, d)
        PROVE  PaidFor(c)'
    <2>1. PaidKept(c)
      BY <1>0, <1>1 DEF PaidKept, RouteGated, Owing, Restarting, Claimable, Enqueue, SetIf, Spend
    <2> QED
      BY <1>0, <2>1, PaidIfKept
  <1>2. ASSUME NEW r \in Runs, Requeue(r)
        PROVE  PaidFor(c)'
    <2>1. PaidKept(c)
      BY <1>0, <1>2 DEF PaidKept, Requeue, Owing, Restarting, Claimable, SetIf, End
    <2> QED
      BY <1>0, <2>1, PaidIfKept
  <1>3. ASSUME NEW r \in Runs, NEW d \in Decisions, RouteAuto(r, d)
        PROVE  PaidFor(c)'
    <2>1. PaidKept(c)
      BY <1>0, <1>3 DEF PaidKept, RouteAuto, Owing, Restarting, Claimable, Enqueue, SetIf, Spend
    <2> QED
      BY <1>0, <2>1, PaidIfKept
  <1>4. ASSUME NEW r \in Requests, NEW d \in Decisions, Approve(r, d)
        PROVE  PaidFor(c)'
    BY <1>0, <1>4, PaidClaim DEF Approve, Serving, Spend
  <1>5. ASSUME NEW r \in Requests, NEW d \in Decisions, Look(r, d)
        PROVE  PaidFor(c)'
    <2>1. PaidKept(c)
      BY <1>0, <1>5 DEF PaidKept, Look, Owing, Restarting, Claimable, Spend
    <2> QED
      BY <1>0, <2>1, PaidIfKept
  <1>6. ASSUME NEW r \in Requests, ApproveComment(r)
        PROVE  PaidFor(c)'
    <2>1. PICK d \in Decisions : d = act[r].dec
      BY <1>6 DEF ApproveComment, GateInv, Fresh
    <2> QED
      BY <1>0, <1>6, <2>1, PaidClaim DEF ApproveComment
  <1>7. ASSUME NEW r \in Requests, RefuseComment(r)
        PROVE  PaidFor(c)'
    <2>1. PaidKept(c)
      BY <1>0, <1>7 DEF PaidKept, RefuseComment, Owing, Restarting, Claimable, End
    <2> QED
      BY <1>0, <2>1, PaidIfKept
  <1>8. ASSUME NEW r \in Apis, NEW d \in Decisions, Reject(r, d)
        PROVE  PaidFor(c)'
    <2>1. PaidKept(c)
      BY <1>0, <1>8 DEF PaidKept, Reject, Owing, Restarting, Claimable, SetIf, Spend
    <2> QED
      BY <1>0, <2>1, PaidIfKept
  <1>9. ASSUME NEW r \in Actors, PostOk(r)
        PROVE  PaidFor(c)'
    <2>1. CASE act[r].dec # c
      <3>1. PaidKept(c)
        BY <1>0, <1>9, <2>1 DEF PaidKept, PostOk, Owing, Restarting, Claimable, Landed, Goto
      <3> QED
        BY <1>0, <3>1, PaidIfKept
    <2>2. CASE act[r].dec = c
      <3>1. r \in Owing(c)
        BY <1>9, <2>2 DEF PostOk, Owing, RunsAutoSafe
      <3>2. Owing(c)' \subseteq Owing(c) \ {r} /\ api' = api /\ used' = used
        BY <1>0, <1>9, <2>2 DEF PostOk, Owing, Landed, Goto
      <3>3. posts'[c] + Claimable(c)' <= posts[c] + Claimable(c) + 1
        BY <1>0, <1>9, <2>2 DEF PostOk, Claimable, Landed, Goto
      <3> QED
        BY <1>0, <3>1, <3>2, <3>3, PaidLeave
    <2> QED
      BY <2>1, <2>2
  <1>10. ASSUME NEW r \in Actors, PostRefused(r)
        PROVE  PaidFor(c)'
    <2>1. Owing(c)' \subseteq Owing(c) /\ api' = api /\ status' = status
      BY <1>0, <1>10 DEF PostRefused, Owing, Goto
    <2>2. /\ posts'[c] <= posts[c] + 1
          /\ used'.faults = used.faults + 1 /\ used'.crashes = used.crashes
      BY <1>0, <1>10 DEF PostRefused, Fault, Spend
    <2> QED
      BY <1>0, <2>1, <2>2, PaidFault
  <1>11. ASSUME NEW r \in Actors, PostReplyLost(r)
        PROVE  PaidFor(c)'
    <2>1. Owing(c)' \subseteq Owing(c) /\ api' = api /\ status' = status
      BY <1>0, <1>11 DEF PostReplyLost, Owing, Goto
    <2>2. /\ posts'[c] <= posts[c] + 1
          /\ used'.faults = used.faults + 1 /\ used'.crashes = used.crashes
      BY <1>0, <1>11 DEF PostReplyLost, Landed, Fault, Spend
    <2> QED
      BY <1>0, <2>1, <2>2, PaidFault
  <1>12. ASSUME NEW r \in Actors, PostRaises(r)
        PROVE  PaidFor(c)'
    <2>1. PaidKept(c)
      BY <1>0, <1>12 DEF PaidKept, PostRaises, Owing, Restarting, Claimable, Fault, Spend, End
    <2> QED
      BY <1>0, <2>1, PaidIfKept
  <1>13. ASSUME NEW r \in Actors, MarkExecuted(r)
        PROVE  PaidFor(c)'
    <2>1. PaidKept(c)
      BY <1>0, <1>13 DEF PaidKept, MarkExecuted, Owing, Restarting, Claimable, SetIf, End
    <2> QED
      BY <1>0, <2>1, PaidIfKept
  <1>14. ASSUME NEW r \in Actors, MarkFailed(r)
        PROVE  PaidFor(c)'
    <2>1. CASE act[r].dec # c
      <3>1. PaidKept(c)
        BY <1>0, <1>14, <2>1 DEF PaidKept, MarkFailed, Owing, Restarting, Claimable, SetIf, End
      <3> QED
        BY <1>0, <3>1, PaidIfKept
    <2>2. CASE act[r].dec = c
      <3>1. r \in Owing(c)
        BY <1>14, <2>2 DEF MarkFailed, Owing, RunsAutoSafe
      <3>2. Owing(c)' \subseteq Owing(c) \ {r} /\ api' = api /\ used' = used
        BY <1>0, <1>14, <2>2 DEF MarkFailed, Owing, SetIf, End
      <3>3. posts'[c] + Claimable(c)' <= posts[c] + Claimable(c) + 1
        BY <1>0, <1>14, <2>2 DEF MarkFailed, Claimable, SetIf, End
      <3> QED
        BY <1>0, <3>1, <3>2, <3>3, PaidLeave
    <2> QED
      BY <2>1, <2>2
  <1>15. ASSUME NEW r \in Runs, CrashRun(r)
        PROVE  PaidFor(c)'
    <2>1. PaidKept(c)
      BY <1>0, <1>15 DEF PaidKept, CrashRun, Owing, Restarting, Claimable, Spend, End
    <2> QED
      BY <1>0, <2>1, PaidIfKept
  <1>16. ASSUME NEW r \in Apis, CrashApi(r)
        PROVE  PaidFor(c)'
    BY <1>0, <1>16, PaidCrashApi
  <1>17. ASSUME NEW r \in Apis, StartApi(r)
        PROVE  PaidFor(c)'
    <2>1. PaidKept(c)
      BY <1>0, <1>17 DEF PaidKept, StartApi, Owing, Restarting, Claimable
    <2> QED
      BY <1>0, <2>1, PaidIfKept
  <1>18. ASSUME NEW r \in Apis, SweepInterrupted(r)
        PROVE  PaidFor(c)'
    BY <1>0, <1>18, PaidSweep
  <1>19. ASSUME NEW r \in Actors, MarkRaises(r)
        PROVE  PaidFor(c)'
    <2>1. PaidKept(c)
      BY <1>0, <1>19 DEF PaidKept, MarkRaises, Owing, Restarting, Claimable, Fault, Spend, End
    <2> QED
      BY <1>0, <2>1, PaidIfKept
  <1>20. CASE UNCHANGED vars
    <2>1. PaidKept(c)
      BY <1>0, <1>20 DEF vars, PaidKept, Owing, Restarting, Claimable
    <2> QED
      BY <1>0, <2>1, PaidIfKept
  <1> QED
    BY <1>1, <1>2, <1>3, <1>4, <1>5, <1>6, <1>7, <1>8, <1>9, <1>10, <1>11, <1>12, <1>13, <1>14, <1>15, <1>16, <1>17, <1>18, <1>19, <1>20
       DEF Next, RunStep, RequestStep, ApiStep, Execute, PostFault

\* A comment that needs a person's approval is repeated at most once for every
\* call or commit that failed and every process that died, in every environment.
THEOREM RepeatsBounded == Spec => []RepeatsPaid
  <1>1. Init => PaidInv
    <2>1. Init => RunsAutoSafe
      BY DEF Init, RunsAutoSafe
    <2>2. ASSUME Init, NEW d \in Decisions PROVE PaidFor(d)
      <3>1. Owing(d) = {} /\ Restarting = {}
        BY <2>2, DecisionsAssumption DEF Init, Owing, Restarting
      <3>2. posts[d] = 0 /\ used.faults = 0 /\ used.crashes = 0 /\ Claimable(d) = 1
        BY <2>2 DEF Init, Claimable
      <3>3. Cardinality({}) = 0
        BY FS_EmptySet, Zenon
      <3> QED
        BY <3>1, <3>2, <3>3 DEF PaidFor
    <2> QED
      BY <2>1, <2>2 DEF PaidInv
  <1>2. GateInv /\ PaidInv /\ [Next]_vars => PaidInv'
    BY PaidNext, RunsAutoSafeNext DEF PaidInv
  <1>3. GateInv /\ PaidInv => RepeatsPaid
    <2> SUFFICES ASSUME GateInv, NEW d \in Decisions \ AutoSafe, PaidFor(d)
                 PROVE  posts[d] <= 1 + used.faults + used.crashes
      BY DEF PaidInv, RepeatsPaid
    <2>1. Cardinality(Owing(d)) \in Nat /\ Cardinality(Restarting) \in Nat
      BY OwingFinite, FS_CardinalityType
    <2>2. {posts[d], used.faults, used.crashes} \subseteq Nat /\ Claimable(d) \in {0, 1}
      BY DEF GateInv, TypeOK, Claimable
    <2> QED
      BY <2>1, <2>2 DEF PaidFor
  <1> QED
    BY <1>1, <1>2, <1>3, GateInit, GateNext, PTL DEF Spec

=============================================================================
