-------------------------- MODULE AdmissionProofs --------------------------
(***************************************************************************)
(* What holds of the admission of deliveries for every number of API       *)
(* processes, tenants, keys and for all quotas and windows.                *)
(***************************************************************************)
EXTENDS Admission, FiniteSetTheorems, TLAPS

WorkStages == {"decide", "dedup", "ingest"} \cup QuotaStages

\* What a busy handler knows about its delivery: work has a key and the
\* installation of that key, an event has an installation, the clock of a
\* quota check is not ahead, a held key exists and meets no quota, and a
\* delivery that came too late is still on its way to get_active, which will
\* find the deletion mark.
HandlerOK(r) ==
  /\ h[r].asof <= now
  /\ h[r].pc \in WorkStages => h[r].event = "work"
  /\ h[r].pc # "idle" /\ h[r].event = "work" =>
       h[r].key \in Keys /\ h[r].inst = KeyInst[h[r].key]
  /\ h[r].pc \in {"lookup", "insert", "apply"} => h[r].inst \in Installations
  /\ h[r].pc = "apply" => h[r].event \in Events
  /\ h[r].pc = "decide" /\ Tenanted(h[r].inst) => h[r].inst \in known
  /\ h[r].held => h[r].key \in Keys /\ Exists(h[r].key) /\ h[r].pc \notin QuotaStages
  /\ h[r].late => h[r].inst \in Installations /\ "deleted" \in marks[h[r].inst]
  /\ h[r].late /\ h[r].event = "work" =>
       Tenanted(h[r].inst) /\ h[r].pc \in {"lookup", "insert", "decide"}

Inv == TypeOK /\ (\A r \in Replicas : HandlerOK(r)) /\ stray = {}

USE DEF Idle, QuotaStages, WorkStages, Marks, Events, NotYet

\* Moving on and answering keep the handlers typed.
LEMMA HandlersTyped ==
  ASSUME TypeOK, NEW r \in Replicas, NEW p \in Stages, Goto(r, p) \/ Answer(r)
  PROVE  h' \in [Replicas -> Handlers]
  <1>1. CASE Goto(r, p)
    BY <1>1 DEF Goto, TypeOK, Handlers
  <1>2. CASE Answer(r)
    BY <1>2 DEF Answer, TypeOK, Handlers, Stages
  <1> QED BY <1>1, <1>2

\* Types are preserved by every step.
LEMMA TypeNext == Inv /\ [Next]_vars => TypeOK'
  <1> SUFFICES ASSUME Inv, [Next]_vars PROVE TypeOK'
    OBVIOUS
  <1> USE AdmissionAssumption DEF Inv, TypeOK, Handlers, Stages
  <1>1. ASSUME NEW r \in Replicas, NEW d \in Deliveries, Receive(r, d)
        PROVE  TypeOK'
    BY <1>1 DEF Receive, Deliveries, Exists
  <1>2. ASSUME NEW r \in Replicas, Lookup(r)
        PROVE  TypeOK'
    BY <1>2 DEF Lookup, Loaded, Goto, HandlerOK
  <1>3. ASSUME NEW r \in Replicas, InsertTenant(r)
        PROVE  TypeOK'
    BY <1>3 DEF InsertTenant, Loaded, HandlerOK
  <1>4. ASSUME NEW r \in Replicas, ApplyEvent(r)
        PROVE  TypeOK'
    <2>1. h' \in [Replicas -> Handlers]
      BY <1>4, HandlersTyped DEF ApplyEvent
    <2>2. marks' \in [Installations -> SUBSET Marks]
      BY <1>4 DEF ApplyEvent, HandlerOK
    <2> QED BY <1>4, <2>1, <2>2 DEF ApplyEvent
  <1>5. ASSUME NEW r \in Replicas, Decide(r)
        PROVE  TypeOK'
    <2>1. Goto(r, "dedup") \/ Answer(r)
      BY <1>5 DEF Decide
    <2>2. h' \in [Replicas -> Handlers]
      BY <2>1, HandlersTyped
    <2> QED BY <1>5, <2>2 DEF Decide
  <1>6. ASSUME NEW r \in Replicas, Dedup(r)
        PROVE  TypeOK'
    BY <1>6 DEF Dedup, Goto
  <1>7. ASSUME NEW r \in Replicas, RepoQuota(r)
        PROVE  TypeOK'
    <2>1. Goto(r, "tenant") \/ Answer(r)
      BY <1>7 DEF RepoQuota, Quota
    <2>2. h' \in [Replicas -> Handlers]
      BY <2>1, HandlersTyped
    <2> QED BY <1>7, <2>2 DEF RepoQuota, Quota
  <1>8. ASSUME NEW r \in Replicas, TenantQuota(r)
        PROVE  TypeOK'
    <2>1. Goto(r, "total") \/ Answer(r)
      BY <1>8 DEF TenantQuota, Quota
    <2>2. h' \in [Replicas -> Handlers]
      BY <2>1, HandlersTyped
    <2> QED BY <1>8, <2>2 DEF TenantQuota, Quota
  <1>9. ASSUME NEW r \in Replicas, TotalQuota(r)
        PROVE  TypeOK'
    <2>1. Goto(r, "ingest") \/ Answer(r)
      BY <1>9 DEF TotalQuota, Quota
    <2>2. h' \in [Replicas -> Handlers]
      BY <2>1, HandlersTyped
    <2> QED BY <1>9, <2>2 DEF TotalQuota, Quota
  <1>10. ASSUME NEW r \in Replicas, Ingest(r)
        PROVE  TypeOK'
    BY <1>10 DEF Ingest, Answer, HandlerOK
  <1>11. ASSUME NEW r \in Replicas, Crash(r)
        PROVE  TypeOK'
    BY <1>11 DEF Crash, Answer
  <1>12. ASSUME NEW k \in Keys, Start(k)
        PROVE  TypeOK'
    BY <1>12 DEF Start
  <1>13. CASE Tick
    BY <1>13 DEF Tick
  <1>14. CASE UNCHANGED vars
    BY <1>14 DEF vars
  <1> QED
    BY <1>1, <1>2, <1>3, <1>4, <1>5, <1>6, <1>7, <1>8, <1>9, <1>10, <1>11,
       <1>12, <1>13, <1>14 DEF Next, Handle

\* What no step ever takes back: a tenant's row, a deletion, a job, time.
Forward ==
  /\ known \subseteq known'
  /\ \A i \in Installations : "deleted" \in marks[i] => "deleted" \in marks'[i]
  /\ \A k \in Keys : Exists(k) => created'[k] = created[k]
  /\ now <= now'

\* Every step goes forward.
LEMMA StepsForward == Inv /\ [Next]_vars => Forward
  <1> SUFFICES ASSUME Inv, [Next]_vars PROVE Forward
    OBVIOUS
  <1> USE DEF Inv, TypeOK, Forward
  <1>1. ASSUME NEW r \in Replicas, Handle(r) PROVE Forward
    <2>1. CASE ApplyEvent(r)
      <3>1. h[r].inst \in Installations /\ h[r].event \in Events
        BY <2>1 DEF ApplyEvent, HandlerOK
      <3>2. \A i \in Installations : "deleted" \in marks[i] => "deleted" \in marks'[i]
        BY <2>1, <3>1 DEF ApplyEvent
      <3>3. UNCHANGED <<known, created, now>>
        BY <2>1 DEF ApplyEvent
      <3> QED BY <3>2, <3>3 DEF Exists
    <2>2. CASE Ingest(r)
      BY <2>2 DEF Ingest, Exists
    <2>3. CASE InsertTenant(r)
      BY <2>3 DEF InsertTenant, Exists
    <2>4. CASE UNCHANGED <<known, marks, created, now>>
      BY <2>4 DEF Exists
    <2> QED
      BY <1>1, <2>1, <2>2, <2>3, <2>4
      DEF Handle, Receive, Lookup, Decide, Dedup, RepoQuota, TenantQuota,
          TotalQuota, Quota, Crash
  <1>2. ASSUME NEW k \in Keys, Start(k) PROVE Forward
    BY <1>2 DEF Start, Exists
  <1>3. CASE Tick
    BY <1>3 DEF Tick, Exists
  <1>4. CASE UNCHANGED vars
    BY <1>4 DEF vars, Exists
  <1> QED BY <1>1, <1>2, <1>3, <1>4 DEF Next

\* A handler that does not move, and one that answers, stay well-formed.
LEMMA RestKeeps ==
  ASSUME Inv, Forward, TypeOK', NEW q \in Replicas, h'[q] = h[q] \/ h'[q] = Idle
  PROVE  HandlerOK(q)'
  <1>1. CASE h'[q] = h[q]
    <2>1. h[q] \in Handlers /\ HandlerOK(q) /\ now \in Nat /\ now' \in Nat
      BY DEF Inv, TypeOK
    <2>2. h[q].asof \in Nat
      BY <2>1 DEF Handlers
    <2>3. h'[q].asof <= now'
      BY <1>1, <2>1, <2>2 DEF HandlerOK, Forward
    <2>4. h'[q].held => h'[q].key \in Keys /\ Exists(h[q].key)' /\ h'[q].pc \notin QuotaStages
      BY <1>1, <2>1 DEF HandlerOK, Forward, Exists
    <2> QED BY <1>1, <2>1, <2>3, <2>4 DEF HandlerOK, Forward, Tenanted
  <1>2. CASE h'[q] = Idle
    BY <1>2 DEF HandlerOK, TypeOK
  <1> QED BY <1>1, <1>2

\* Every step keeps every handler well-formed.
LEMMA HandlerNext ==
  ASSUME Inv, [Next]_vars, TypeOK', Forward
  PROVE  \A q \in Replicas : HandlerOK(q)'
  <1> SUFFICES ASSUME NEW q \in Replicas PROVE HandlerOK(q)'
    OBVIOUS
  <1>0. h[q] \in Handlers /\ HandlerOK(q) /\ now \in Nat /\ h \in [Replicas -> Handlers]
    BY DEF Inv, TypeOK
  <1>1. ASSUME NEW d \in Deliveries, Receive(q, d) PROVE HandlerOK(q)'
    <2> DEFINE tenant == d.event # "work" \/ Tenanted(d.inst)
    <2>1. /\ h'[q].pc = IF tenant THEN "lookup" ELSE "decide"
          /\ h'[q].event = d.event /\ h'[q].key = d.key /\ h'[q].inst = d.inst
          /\ h'[q].asof = 0
          /\ h'[q].held => d.event = "work" /\ Exists(d.key)
          /\ h'[q].late => tenant /\ "deleted" \in marks[d.inst]
          /\ UNCHANGED <<known, marks, created, now>>
      BY <1>0, <1>1 DEF Receive
    <2>2. CASE d.event = "work"
      <3>1. d.key \in Keys /\ d.inst = KeyInst[d.key] /\ d.inst \in Installations \cup {Operator}
        BY <1>1, <2>2 DEF Receive, Deliveries
      <3> QED BY <1>0, <2>1, <2>2, <3>1 DEF HandlerOK, Tenanted, Exists
    <2>3. CASE d.event \in Events
      <3>1. d.inst \in Installations
        BY <2>3 DEF Deliveries
      <3> QED BY <1>0, <2>1, <2>3, <3>1 DEF HandlerOK, Tenanted, Exists
    <2> QED BY <2>2, <2>3 DEF Deliveries
  <1>2. CASE Lookup(q)
    BY <1>0, <1>2 DEF Lookup, Loaded, Goto, HandlerOK, Handlers, Tenanted, Exists
  <1>3. CASE InsertTenant(q)
    BY <1>0, <1>3 DEF InsertTenant, Loaded, HandlerOK, Handlers, Tenanted, Exists
  <1>4. CASE Decide(q) /\ Goto(q, "dedup")
    BY <1>0, <1>4 DEF Decide, Answer, Goto, HandlerOK, Handlers, Tenanted, Exists, IsActive
  <1>5. CASE Dedup(q)
    BY <1>0, <1>5 DEF Dedup, Goto, HandlerOK, Handlers, Tenanted, Exists
  <1>6. CASE /\ h[q].pc \in QuotaStages
             /\ \E p \in {"tenant", "total", "ingest"} : Goto(q, p)
             /\ UNCHANGED <<known, marks, created, now>>
    BY <1>0, <1>6 DEF Goto, HandlerOK, Handlers, Tenanted, Exists
  <1>7. CASE h'[q] = h[q] \/ h'[q] = Idle
    BY <1>7, RestKeeps
  <1> QED
    <2>1. ASSUME NEW r \in Replicas, Handle(r), r # q PROVE h'[q] = h[q]
      BY <1>0, <2>1
      DEF Handle, Receive, Lookup, InsertTenant, ApplyEvent, Decide, Dedup, RepoQuota,
          TenantQuota, TotalQuota, Quota, Ingest, Crash, Goto, Answer, Loaded
    <2>2. ASSUME Handle(q) PROVE HandlerOK(q)'
      <3>1. Answer(q) => h'[q] = Idle
        BY <1>0 DEF Answer
      <3>2. CASE Decide(q)
        BY <3>1, <3>2, <1>4, <1>7 DEF Decide
      <3>3. CASE RepoQuota(q) \/ TenantQuota(q) \/ TotalQuota(q)
        <4>1. /\ h[q].pc \in QuotaStages
              /\ UNCHANGED <<known, marks, created, now>>
              /\ Answer(q) \/ \E p \in {"tenant", "total", "ingest"} : Goto(q, p)
          BY <3>3 DEF RepoQuota, TenantQuota, TotalQuota, Quota
        <4> QED BY <4>1, <3>1, <1>6, <1>7
      <3>4. CASE ApplyEvent(q) \/ Ingest(q) \/ Crash(q)
        BY <3>1, <3>4, <1>7 DEF ApplyEvent, Ingest, Crash
      <3> QED BY <2>2, <3>2, <3>3, <3>4, <1>1, <1>2, <1>3, <1>5 DEF Handle
    <2>3. CASE h' = h
      BY <2>3, <1>7
    <2> QED BY <1>7, <2>1, <2>2, <2>3 DEF Next, Start, Tick, vars

\* A job is inserted only by a delivery that was not too late.
LEMMA StrayNext == Inv /\ [Next]_vars => stray' = {}
  <1> SUFFICES ASSUME Inv, [Next]_vars PROVE stray' = {}
    OBVIOUS
  <1>1. ASSUME NEW r \in Replicas, Ingest(r) PROVE stray' = {}
    BY <1>1 DEF Ingest, Inv, HandlerOK
  <1> QED
    BY <1>1
    DEF Inv, Next, Handle, Receive, Lookup, InsertTenant, ApplyEvent, Decide, Dedup,
        RepoQuota, TenantQuota, TotalQuota, Quota, Crash, Start, Tick, vars

\* The inductive invariant.
LEMMA InvHolds == Spec => []Inv
  <1>1. Init => Inv
    BY AdmissionAssumption DEF Init, Inv, TypeOK, HandlerOK, Handlers, Stages
  <1>2. Inv /\ [Next]_vars => Inv'
    BY TypeNext, StepsForward, HandlerNext, StrayNext DEF Inv
  <1> QED BY <1>1, <1>2, PTL DEF Spec

\* Every variable of the admission model keeps its type.
THEOREM AdmissionTyped == Spec => []TypeOK
  BY InvHolds, PTL DEF Inv

\* A delivery that begins after its installation was deleted admits no job.
THEOREM GoneStaysOut == Spec => []GoneAdmitsNothing
  <1>1. Inv => GoneAdmitsNothing
    BY DEF Inv, GoneAdmitsNothing
  <1> QED BY <1>1, InvHolds, PTL

\* A redelivery of work already held is never counted against a quota.
THEOREM RetriesExempt == Spec => []RetryExempt
  <1>1. Inv => RetryExempt
    BY DEF Inv, HandlerOK, RetryExempt
  <1> QED BY <1>1, InvHolds, PTL

\* Work is judged only once its tenant has a row.
THEOREM OnboardingHolds == Spec => []OnboardingNeverMissing
  <1>1. Inv => OnboardingNeverMissing
    BY DEF Inv, HandlerOK, OnboardingNeverMissing
  <1> QED BY <1>1, InvHolds, PTL

\* No step clears a deletion mark.
THEOREM DeletionFinal == Spec => DeletedForGood
  <1>1. Inv /\ [Next]_vars =>
          [\A i \in Installations : "deleted" \in marks[i] => "deleted" \in marks'[i]]_vars
    BY StepsForward DEF Forward
  <1> QED BY <1>1, InvHolds, PTL DEF Spec, DeletedForGood

-----------------------------------------------------------------------------
(* The ceilings.  A count alone is not inductive: a handler that has       *)
(* passed its check adds to it later.  The count plus the handlers that    *)
(* race to add to it is.                                                   *)

\* The rows a count finds.
Recent(S, cutoff) == {k \in S : Exists(k) /\ created[k] >= cutoff}

\* The handlers beyond the check of a scope whose key has no row yet.
Racing(S, stages) ==
  {r \in Replicas : h[r].pc \in stages /\ h[r].key \in S /\ ~Exists(h[r].key)}

Bounded(limit, S, span, stages) ==
  limit > 0 => CountSince(S, now - span) + Cardinality(Racing(S, stages)) <= Ceiling(limit)

\* The stages beyond the checks of quota_reason.
PastRepo   == {"tenant", "total", "ingest"}
PastTenant == {"total", "ingest"}
PastTotal  == {"ingest"}

CeilingInv ==
  /\ \A k \in Keys : Bounded(RepoLimit, OfRepo(KeyRepo[k]), Hour, PastRepo)
  /\ \A i \in Installations : Bounded(TenantLimit, OfTenant(i), Day, PastTenant)
  /\ Bounded(TotalLimit, Keys, Day, PastTotal)

\* How a step can bring a handler beyond a check.
Advance(r) ==
  \/ h'[r] = h[r]
  \/ h'[r].pc \notin PastRepo
  \/ /\ UNCHANGED <<created, now>>
     /\ h'[r].key = h[r].key /\ h[r].key \in Keys
     /\ h[r].inst = KeyInst[h[r].key]
     /\ \/ h[r].pc = "dedup" /\ h'[r].pc = "ingest" /\ Exists(h[r].key)
        \/ /\ h[r].pc = "repo" /\ h'[r].pc = "tenant"
           /\ ~Exceeded(RepoLimit, OfRepo(KeyRepo[h[r].key]), h[r].asof - Hour)
        \/ /\ h[r].pc = "tenant" /\ h'[r].pc = "total"
           /\ h[r].inst # Operator =>
                ~Exceeded(TenantLimit, OfTenant(h[r].inst), h[r].asof - Day)
        \/ /\ h[r].pc = "total" /\ h'[r].pc = "ingest"
           /\ ~Exceeded(TotalLimit, Keys, h[r].asof - Day)

\* How a step can change the jobs: not at all, or by the row of one handler
\* at the INSERT, which then answers.
Insert(r) ==
  /\ h[r].pc = "ingest" /\ h[r].key \in Keys /\ ~Exists(h[r].key)
  /\ created' = [created EXCEPT ![h[r].key] = now]
  /\ now' = now
  /\ h'[r].pc = "idle"

\* Every step advances handlers in one of those ways only.
LEMMA StepsAdvance ==
  ASSUME Inv, [Next]_vars
  PROVE  \A q \in Replicas : Advance(q)
  <1> SUFFICES ASSUME NEW q \in Replicas PROVE Advance(q)
    OBVIOUS
  <1>0. h[q] \in Handlers /\ HandlerOK(q) /\ h \in [Replicas -> Handlers]
    BY DEF Inv, TypeOK
  <1>1. ASSUME NEW r \in Replicas, Handle(r), r # q PROVE h'[q] = h[q]
    BY <1>0, <1>1
    DEF Handle, Receive, Lookup, InsertTenant, ApplyEvent, Decide, Dedup, RepoQuota,
        TenantQuota, TotalQuota, Quota, Ingest, Crash, Goto, Answer, Loaded
  <1>2. ASSUME Handle(q) PROVE Advance(q)
    <2>1. Answer(q) => h'[q].pc = "idle"
      BY <1>0 DEF Answer
    <2>2. \A p \in Stages : Goto(q, p) => h'[q].pc = p /\ h'[q].key = h[q].key
      BY <1>0 DEF Goto, Handlers
    <2>3. CASE \E d \in Deliveries : Receive(q, d)
      BY <1>0, <2>3 DEF Receive, Advance, PastRepo
    <2>4. CASE Lookup(q) \/ InsertTenant(q)
      <3>1. h'[q].pc \in {"insert", "decide", "apply"}
        BY <1>0, <2>4 DEF Lookup, InsertTenant, Loaded, Goto, Handlers
      <3> QED BY <3>1 DEF Advance, PastRepo
    <2>5. CASE ApplyEvent(q) \/ Ingest(q) \/ Crash(q)
      BY <2>1, <2>5 DEF ApplyEvent, Ingest, Crash, Advance, PastRepo
    <2>6. CASE Decide(q)
      BY <2>1, <2>2, <2>6 DEF Decide, Advance, PastRepo, Stages
    <2>7. CASE Dedup(q)
      <3>1. CASE Exists(h[q].key)
        <4>1. Goto(q, "ingest") /\ UNCHANGED <<created, now>>
          BY <2>7, <3>1 DEF Dedup
        <4> QED BY <1>0, <2>2, <2>7, <3>1, <4>1 DEF Dedup, Advance, HandlerOK, Stages
      <3>2. CASE ~Exists(h[q].key)
        <4>1. h'[q].pc = "repo"
          BY <1>0, <2>7, <3>2 DEF Dedup, Handlers
        <4> QED BY <4>1 DEF Advance, PastRepo
      <3> QED BY <3>1, <3>2
    <2>8. CASE RepoQuota(q)
      BY <1>0, <2>1, <2>2, <2>8 DEF RepoQuota, Quota, Advance, HandlerOK, PastRepo, Stages
    <2>9. CASE TenantQuota(q)
      BY <1>0, <2>1, <2>2, <2>9 DEF TenantQuota, Quota, Advance, HandlerOK, PastRepo, Stages
    <2>10. CASE TotalQuota(q)
      BY <1>0, <2>1, <2>2, <2>10 DEF TotalQuota, Quota, Advance, HandlerOK, PastRepo, Stages
    <2> QED BY <1>2, <2>3, <2>4, <2>5, <2>6, <2>7, <2>8, <2>9, <2>10 DEF Handle
  <1> QED BY <1>1, <1>2 DEF Next, Start, Tick, vars, Advance

\* Every step inserts at most one row.
LEMMA StepsInsert ==
  ASSUME Inv, [Next]_vars
  PROVE  created' = created \/ \E r \in Replicas : Insert(r)
  <1>1. ASSUME NEW r \in Replicas, Ingest(r) PROVE created' = created \/ Insert(r)
    <2>1. h[r] \in Handlers /\ HandlerOK(r) /\ h \in [Replicas -> Handlers]
      BY DEF Inv, TypeOK
    <2> QED BY <1>1, <2>1 DEF Ingest, Answer, Insert, HandlerOK
  <1> QED
    BY <1>1
    DEF Next, Handle, Receive, Lookup, InsertTenant, ApplyEvent, Decide, Dedup,
        RepoQuota, TenantQuota, TotalQuota, Quota, Crash, Start, Tick, vars

\* Counts and races are finite.
LEMMA FiniteParts ==
  ASSUME TypeOK, NEW S \in SUBSET Keys, NEW c, NEW stages
  PROVE  /\ IsFiniteSet(Recent(S, c)) /\ Cardinality(Recent(S, c)) \in Nat
         /\ IsFiniteSet(Racing(S, stages)) /\ Cardinality(Racing(S, stages)) \in Nat
         /\ Cardinality(Racing(S, stages)) <= Cardinality(Replicas)
         /\ Cardinality(Replicas) \in Nat
  <1>1. Recent(S, c) \in SUBSET Keys /\ Racing(S, stages) \in SUBSET Replicas
    BY DEF Recent, Racing
  <1>2. IsFiniteSet(Recent(S, c)) /\ IsFiniteSet(Racing(S, stages))
    BY <1>1, AdmissionAssumption, FS_Subset
  <1>3. Cardinality(Racing(S, stages)) <= Cardinality(Replicas)
    BY <1>1, AdmissionAssumption, FS_Subset
  <1> QED BY <1>2, <1>3, AdmissionAssumption, FS_CardinalityType

\* An older cutoff finds no fewer rows.
LEMMA OlderCountsMore ==
  ASSUME TypeOK, NEW S \in SUBSET Keys, NEW a \in Int, NEW b \in Int, a <= b
  PROVE  CountSince(S, b) <= CountSince(S, a)
  <1>1. Recent(S, b) \in SUBSET Recent(S, a)
    BY DEF Recent, TypeOK, Exists
  <1> QED BY <1>1, FiniteParts, FS_Subset DEF CountSince, Recent

\* The bound of one scope survives a step, provided that whoever enters the
\* race found the count below the limit.
LEMMA BoundNext ==
  ASSUME Inv, TypeOK', Forward, [Next]_vars,
         NEW limit \in Nat, NEW S \in SUBSET Keys, NEW span \in Nat, NEW stages,
         "ingest" \in stages, "idle" \notin stages,
         Bounded(limit, S, span, stages),
         \A r \in Racing(S, stages)' :
            \/ r \in Racing(S, stages)
            \/ /\ limit > 0 => CountSince(S, now - span) < limit
               /\ UNCHANGED <<created, now>>
  PROVE  Bounded(limit, S, span, stages)'
  <1> SUFFICES ASSUME limit > 0
               PROVE  CountSince(S, now - span)' + Cardinality(Racing(S, stages)')
                        <= Ceiling(limit)
    BY DEF Bounded, Ceiling
  <1> DEFINE C == Recent(S, now - span)
             R == Racing(S, stages)
  <1>0. /\ IsFiniteSet(C) /\ Cardinality(C) \in Nat
        /\ IsFiniteSet(R) /\ Cardinality(R) \in Nat
        /\ IsFiniteSet(C') /\ Cardinality(C') \in Nat
        /\ IsFiniteSet(R') /\ Cardinality(R') \in Nat
        /\ Cardinality(R') <= Cardinality(Replicas)
        /\ Cardinality(Replicas) \in Nat
    <2>1. C' \in SUBSET Keys /\ R' \in SUBSET Replicas
      BY DEF Recent, Racing
    <2>2. /\ IsFiniteSet(C') /\ IsFiniteSet(R')
          /\ Cardinality(R') <= Cardinality(Replicas)
      BY <2>1, AdmissionAssumption, FS_Subset
    <2>3. Cardinality(C') \in Nat /\ Cardinality(R') \in Nat
      BY <2>2, FS_CardinalityType
    <2> QED BY <2>2, <2>3, FiniteParts DEF Inv
  <1>1. CountSince(S, now - span) = Cardinality(C)
    BY DEF CountSince, Recent
  <1>2. CountSince(S, now - span)' = Cardinality(C')
    BY DEF CountSince, Recent
  <1>3. Cardinality(C) + Cardinality(R) <= Ceiling(limit)
    BY <1>1 DEF Bounded
  <1> SUFFICES Cardinality(C') + Cardinality(R') <= Ceiling(limit)
    BY <1>2
  <1>4. CASE \E r \in R' : r \notin R
    <2>1. Cardinality(C) < limit /\ UNCHANGED <<created, now>>
      BY <1>1, <1>4
    <2>2. C' = C
      BY <2>1 DEF Recent, Exists
    <2> HIDE DEF C, R
    <2> QED BY <1>0, <2>1, <2>2 DEF Ceiling
  <1>5. CASE R' \subseteq R /\ created' = created
    <2>1. C' \in SUBSET C
      BY <1>5 DEF Recent, Exists, Forward, Inv, TypeOK
    <2> HIDE DEF C, R
    <2>2. Cardinality(C') <= Cardinality(C) /\ Cardinality(R') <= Cardinality(R)
      BY <1>0, <1>5, <2>1, FS_Subset
    <2> QED BY <1>0, <1>3, <2>2 DEF Ceiling
  <1>6. ASSUME NEW r \in Replicas, Insert(r), R' \subseteq R
        PROVE  Cardinality(C') + Cardinality(R') <= Ceiling(limit)
    <2>1. CASE h[r].key \in S
      <3>1. C' \in SUBSET (C \cup {h[r].key})
        BY <1>6 DEF Insert, Recent, Exists, Inv, TypeOK
      <3>2. r \in R /\ R' \in SUBSET (R \ {r})
        BY <1>6, <2>1 DEF Insert, Racing
      <3> HIDE DEF C, R
      <3>3. /\ IsFiniteSet(C \cup {h[r].key})
            /\ Cardinality(C \cup {h[r].key}) <= Cardinality(C) + 1
        <4>1. /\ IsFiniteSet(C \cup {h[r].key})
              /\ Cardinality(C \cup {h[r].key}) =
                   IF h[r].key \in C THEN Cardinality(C) ELSE Cardinality(C) + 1
          BY <1>0, FS_AddElement, Zenon
        <4> QED BY <1>0, <4>1
      <3>4. IsFiniteSet(R \ {r}) /\ Cardinality(R \ {r}) = Cardinality(R) - 1
        BY <1>0, <3>2, FS_RemoveElement
      <3>5. /\ Cardinality(C') <= Cardinality(C \cup {h[r].key})
            /\ Cardinality(R') <= Cardinality(R \ {r})
        BY <3>1, <3>2, <3>3, <3>4, FS_Subset
      <3>6. Cardinality(C \cup {h[r].key}) \in Nat
        BY <3>3, FS_CardinalityType
      <3> QED BY <1>0, <1>3, <3>3, <3>4, <3>5, <3>6 DEF Ceiling
    <2>2. CASE h[r].key \notin S
      <3>1. C' = C
        BY <1>6, <2>2 DEF Insert, Recent, Exists, Inv, TypeOK
      <3> HIDE DEF C, R
      <3>2. Cardinality(R') <= Cardinality(R)
        BY <1>0, <1>6, FS_Subset
      <3> QED BY <1>0, <1>3, <3>1, <3>2 DEF Ceiling
    <2> QED BY <2>1, <2>2
  <1> HIDE DEF C
  <1> QED BY <1>4, <1>5, <1>6, StepsInsert

\* Whoever enters the race of a repository, of a tenant or of the instance
\* has just found its count below the limit.
LEMMA EntersBelow ==
  ASSUME Inv, [Next]_vars, Forward, NEW r \in Replicas
  PROVE  /\ \A p : r \in Racing(OfRepo(p), PastRepo)' =>
              \/ r \in Racing(OfRepo(p), PastRepo)
              \/ /\ RepoLimit > 0 => CountSince(OfRepo(p), now - Hour) < RepoLimit
                 /\ UNCHANGED <<created, now>>
         /\ \A i \in Installations : r \in Racing(OfTenant(i), PastTenant)' =>
              \/ r \in Racing(OfTenant(i), PastTenant)
              \/ /\ TenantLimit > 0 => CountSince(OfTenant(i), now - Day) < TenantLimit
                 /\ UNCHANGED <<created, now>>
         /\ r \in Racing(Keys, PastTotal)' =>
              \/ r \in Racing(Keys, PastTotal)
              \/ /\ TotalLimit > 0 => CountSince(Keys, now - Day) < TotalLimit
                 /\ UNCHANGED <<created, now>>
  <1>0. /\ Advance(r) /\ HandlerOK(r) /\ now \in Nat /\ h[r].asof \in Nat
        /\ h[r].asof <= now /\ TypeOK
    BY StepsAdvance DEF Inv, TypeOK, Handlers, HandlerOK
  <1>1. \A k \in Keys : ~Exists(k)' => ~Exists(k)
    BY DEF Forward, Exists
  <1>2. ASSUME NEW limit \in Nat, NEW S \in SUBSET Keys, NEW span \in Nat,
               ~Exceeded(limit, S, h[r].asof - span), limit > 0
        PROVE  CountSince(S, now - span) < limit
    <2>1. CountSince(S, now - span) <= CountSince(S, h[r].asof - span)
      BY <1>0, OlderCountsMore
    <2>2. CountSince(S, now - span) \in Nat /\ CountSince(S, h[r].asof - span) \in Nat
      BY <1>0, FiniteParts DEF CountSince, Recent
    <2> QED BY <1>2, <2>1, <2>2 DEF Exceeded
  <1>3. RepoLimit \in Nat /\ TenantLimit \in Nat /\ TotalLimit \in Nat
        /\ Hour \in Nat /\ Day \in Nat
    BY AdmissionAssumption
  <1>4. ASSUME NEW p, r \in Racing(OfRepo(p), PastRepo)', r \notin Racing(OfRepo(p), PastRepo)
        PROVE  /\ RepoLimit > 0 => CountSince(OfRepo(p), now - Hour) < RepoLimit
               /\ UNCHANGED <<created, now>>
    <2>1. OfRepo(p) \in SUBSET Keys
      BY DEF OfRepo
    <2>2. /\ UNCHANGED <<created, now>>
          /\ h[r].key \in Keys /\ KeyRepo[h[r].key] = p
          /\ ~Exceeded(RepoLimit, OfRepo(p), h[r].asof - Hour)
      BY <1>0, <1>1, <1>4, <2>1 DEF Racing, Advance, PastRepo, OfRepo, Exists
    <2> QED BY <1>2, <1>3, <2>1, <2>2
  <1>5. ASSUME NEW i \in Installations, r \in Racing(OfTenant(i), PastTenant)',
               r \notin Racing(OfTenant(i), PastTenant)
        PROVE  /\ TenantLimit > 0 => CountSince(OfTenant(i), now - Day) < TenantLimit
               /\ UNCHANGED <<created, now>>
    <2>1. OfTenant(i) \in SUBSET Keys
      BY DEF OfTenant
    <2>2. /\ UNCHANGED <<created, now>>
          /\ ~Exceeded(TenantLimit, OfTenant(i), h[r].asof - Day)
      <3>1. /\ h'[r].pc \in PastTenant /\ h'[r].key \in OfTenant(i)
            /\ h'[r].key \in Keys /\ KeyInst[h'[r].key] = i
            /\ created'[h'[r].key] = NotYet
        BY <1>5 DEF Racing, OfTenant, Exists
      <3>2. created[h'[r].key] = NotYet
        BY <1>1, <3>1 DEF Exists
      <3>3. ~(h[r].pc \in PastTenant /\ h[r].key = h'[r].key)
        BY <1>5, <3>1, <3>2 DEF Racing, Exists
      <3>4. i # Operator
        BY AdmissionAssumption
      <3> QED BY <1>0, <3>1, <3>2, <3>3, <3>4 DEF Advance, PastRepo, PastTenant, Exists
    <2> QED BY <1>2, <1>3, <2>1, <2>2
  <1>6. ASSUME r \in Racing(Keys, PastTotal)', r \notin Racing(Keys, PastTotal)
        PROVE  /\ TotalLimit > 0 => CountSince(Keys, now - Day) < TotalLimit
               /\ UNCHANGED <<created, now>>
    <2>1. /\ UNCHANGED <<created, now>>
          /\ ~Exceeded(TotalLimit, Keys, h[r].asof - Day)
      BY <1>0, <1>1, <1>6 DEF Racing, Advance, PastRepo, PastTotal, Exists
    <2> QED BY <1>2, <1>3, <2>1
  <1> QED BY <1>4, <1>5, <1>6

\* The strengthened ceilings are preserved by every step.
LEMMA CeilingNext ==
  ASSUME Inv, Inv', CeilingInv, [Next]_vars
  PROVE  CeilingInv'
  <1>0. Forward /\ TypeOK'
    BY StepsForward DEF Inv
  <1>1. /\ RepoLimit \in Nat /\ TenantLimit \in Nat /\ TotalLimit \in Nat
        /\ Hour \in Nat /\ Day \in Nat
    BY AdmissionAssumption
  <1>2. ASSUME NEW k \in Keys PROVE Bounded(RepoLimit, OfRepo(KeyRepo[k]), Hour, PastRepo)'
    <2>1. OfRepo(KeyRepo[k]) \in SUBSET Keys
      BY DEF OfRepo
    <2>2. Racing(OfRepo(KeyRepo[k]), PastRepo)' \subseteq Replicas
      BY DEF Racing
    <2>3. "ingest" \in PastRepo /\ "idle" \notin PastRepo
      BY DEF PastRepo
    <2> QED BY <1>0, <1>1, <2>1, <2>2, <2>3, EntersBelow, BoundNext DEF CeilingInv
  <1>3. ASSUME NEW i \in Installations
        PROVE  Bounded(TenantLimit, OfTenant(i), Day, PastTenant)'
    <2>1. OfTenant(i) \in SUBSET Keys
      BY DEF OfTenant
    <2>2. Racing(OfTenant(i), PastTenant)' \subseteq Replicas
      BY DEF Racing
    <2>3. "ingest" \in PastTenant /\ "idle" \notin PastTenant
      BY DEF PastTenant
    <2> QED BY <1>0, <1>1, <2>1, <2>2, <2>3, EntersBelow, BoundNext DEF CeilingInv
  <1>4. Bounded(TotalLimit, Keys, Day, PastTotal)'
    <2>1. Racing(Keys, PastTotal)' \subseteq Replicas
      BY DEF Racing
    <2>2. "ingest" \in PastTotal /\ "idle" \notin PastTotal
      BY DEF PastTotal
    <2> QED BY <1>0, <1>1, <2>1, <2>2, EntersBelow, BoundNext DEF CeilingInv
  <1> QED BY <1>2, <1>3, <1>4 DEF CeilingInv

\* In no window has a repository, a tenant or the instance more jobs than its
\* limit plus one for every further API process.
THEOREM CeilingHolds == Spec => []SoftCeiling
  <1>1. Init => CeilingInv
    <2> SUFFICES ASSUME Init PROVE CeilingInv
      OBVIOUS
    <2>1. ASSUME NEW limit \in Nat, NEW S \in SUBSET Keys, NEW span, NEW stages,
                 "idle" \notin stages
          PROVE  Bounded(limit, S, span, stages)
      <3>1. Recent(S, now - span) = {}
        BY DEF Init, Recent, Exists
      <3>2. Racing(S, stages) = {}
        BY <2>1 DEF Init, Racing
      <3>3. Cardinality(Recent(S, now - span)) = 0 /\ Cardinality(Racing(S, stages)) = 0
        BY <3>1, <3>2, FS_EmptySet
      <3>4. CountSince(S, now - span) = 0
        BY <3>3 DEF CountSince, Recent
      <3>5. Cardinality(Replicas) \in Nat
        BY AdmissionAssumption, FS_CardinalityType
      <3> QED BY <3>3, <3>4, <3>5 DEF Bounded, Ceiling
    <2> QED
      BY <2>1, AdmissionAssumption
      DEF CeilingInv, OfRepo, OfTenant, PastRepo, PastTenant, PastTotal
  <1>2. Inv /\ Inv' /\ CeilingInv /\ [Next]_vars => CeilingInv'
    BY CeilingNext
  <1>3. Inv /\ CeilingInv => SoftCeiling
    <2> SUFFICES ASSUME Inv, CeilingInv PROVE SoftCeiling
      OBVIOUS
    <2>1. ASSUME NEW limit \in Nat, NEW S \in SUBSET Keys, NEW span, NEW stages,
                 Bounded(limit, S, span, stages), limit > 0
          PROVE  CountSince(S, now - span) <= Ceiling(limit)
      <3>1. /\ CountSince(S, now - span) \in Nat
            /\ Cardinality(Racing(S, stages)) \in Nat
            /\ Cardinality(Replicas) \in Nat
        BY FiniteParts DEF CountSince, Recent, Inv
      <3> QED BY <2>1, <3>1 DEF Bounded, Ceiling
    <2>2. \A x : OfRepo(x) \in SUBSET Keys /\ OfTenant(x) \in SUBSET Keys
      BY DEF OfRepo, OfTenant
    <2> QED BY <2>1, <2>2, AdmissionAssumption DEF CeilingInv, SoftCeiling
  <1> QED BY <1>1, <1>2, <1>3, InvHolds, PTL DEF Spec

=============================================================================
