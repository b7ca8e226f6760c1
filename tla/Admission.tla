----------------------------- MODULE Admission -----------------------------
(***************************************************************************)
(* From a signed webhook delivery to an admitted job: the tenant is        *)
(* enrolled from the delivery itself, an inactive tenant and a repository  *)
(* outside the allowlist are refused, three quotas are counted, and the    *)
(* row is inserted.  Tenancy events maintain the tenant table meanwhile.   *)
(*                                                                         *)
(*   app/main.py      webhook                                              *)
(*   app/tenancy.py   upsert, get_active, apply_event                      *)
(*   app/quota.py     quota_reason, dedup_exists                           *)
(*   app/ingest.py    the INSERT of ingest                                 *)
(*   app/worker.py    process_job, as far as tenancy is concerned          *)
(*                                                                         *)
(* webhook is a coroutine that awaits nothing once the body is read, so an *)
(* API process handles one delivery at a time: handlers race only between  *)
(* processes, and one action is one statement against the shared database. *)
(* What happens to an admitted job is the subject of JobPipeline.          *)
(***************************************************************************)
EXTENDS Integers, FiniteSets

CONSTANTS
  Replicas,       \* API processes
  Installations,  \* tenants
  Operator,       \* "no installation": a classic webhook, NULL in pr_jobs
  Keys,           \* dedup_key: one per event, repository, PR and head SHA
  KeyRepo,        \* the repository of a key
  KeyInst,        \* the installation the delivery of a key names, or Operator
  AllowedRepos,   \* settings.allowed_repo_set; empty allows every repository
  MultiTenant,    \* settings.multi_tenant_enabled
  RepoLimit,      \* settings.quota_jobs_per_repo_per_hour, 0 = off
  TenantLimit,    \* settings.quota_jobs_per_installation_per_day, 0 = off
  TotalLimit,     \* settings.quota_jobs_total_per_day, 0 = off
  Hour, Day,      \* the two windows, in ticks
  MaxTime         \* bound of the clock

ASSUME AdmissionAssumption ==
  /\ IsFiniteSet(Replicas) /\ IsFiniteSet(Keys)
  /\ Operator \notin Installations /\ Operator \notin Keys
  /\ KeyInst \in [Keys -> Installations \cup {Operator}]
  /\ MultiTenant \in BOOLEAN
  /\ {RepoLimit, TenantLimit, TotalLimit, Hour, Day, MaxTime} \subseteq Nat

VARIABLES
  known,    \* installations that have a row
  marks,    \* of each installation: which of suspended_at, deleted_at are set
  created,  \* created_at of the job of a key, NotYet without a row
  started,  \* keys whose job a worker has claimed and handed to the handler
  now,      \* wall clock
  h,        \* of each API process: the delivery in its hands
  stray     \* jobs admitted by a delivery that began after the deletion

vars == <<known, marks, created, started, now, h, stray>>

NotYet == -1
Marks  == {"suspended", "deleted"}
\* The installation events; "created" stands for new_permissions_accepted too.
Events == {"created", "unsuspend", "suspend", "deleted", "repositories"}

\* A delivery: pull_request, check_run and workflow_run ones carry a key.
Deliveries ==
  [event : {"work"}, key : Keys, inst : Installations \cup {Operator}]
    \cup [event : Events, key : {Operator}, inst : Installations]

Idle == [pc |-> "idle", event |-> "work", key |-> Operator, inst |-> Operator,
         seen |-> {}, asof |-> 0, held |-> FALSE, late |-> FALSE]

QuotaStages == {"repo", "tenant", "total"}

Stages      == {"idle", "lookup", "insert", "apply", "decide", "dedup", "ingest"}
                 \cup QuotaStages

Handlers ==
  [pc    : Stages,                          \* the next statement
   event : Events \cup {"work"},
   key   : Keys \cup {Operator},
   inst  : Installations \cup {Operator},
   seen  : SUBSET Marks,                    \* the marks of the row upsert loaded
   asof  : Nat,                             \* the clock quota_reason read
   held  : BOOLEAN,                         \* history: the job existed at the start
   late  : BOOLEAN]                         \* history: deleted before the start

TypeOK ==
  /\ known \subseteq Installations
  /\ marks \in [Installations -> SUBSET Marks]
  /\ created \in [Keys -> Nat \cup {NotYet}]
  /\ started \subseteq Keys
  /\ now \in Nat
  /\ h \in [Replicas -> Handlers]
  /\ stray \subseteq Keys

Init ==
  /\ known = {}
  /\ marks = [i \in Installations |-> {}]
  /\ created = [k \in Keys |-> NotYet]
  /\ started = {}
  /\ now = 0
  /\ h = [r \in Replicas |-> Idle]
  /\ stray = {}

-----------------------------------------------------------------------------
(* State formulae.                                                         *)

Exists(k) == created[k] # NotYet

\* Mutant: a deleted tenant counts as active.
IsActiveForgetsDeleted(m) == "suspended" \notin m

\* row.is_active
IsActive(m) == m = {}

\* _count_since(cutoff), for the keys of one repository, one tenant or all.
CountSince(S, cutoff) == Cardinality({k \in S : Exists(k) /\ created[k] >= cutoff})

OfRepo(p)   == {k \in Keys : KeyRepo[k] = p}
OfTenant(i) == {k \in Keys : KeyInst[k] = i}

\* Mutant: off by one.
ExceededOffByOne(limit, S, cutoff) == limit > 0 /\ CountSince(S, cutoff) > limit

Exceeded(limit, S, cutoff) == limit > 0 /\ CountSince(S, cutoff) >= limit

RepoAllowed(p) == AllowedRepos = {} \/ p \in AllowedRepos

\* Work of a tenant goes through the tenant table.
Tenanted(inst) == inst # Operator /\ MultiTenant

\* The handler goes on, or answers and is free for the next delivery.
Goto(r, pc) == h' = [h EXCEPT ![r].pc = pc]
Answer(r)   == h' = [h EXCEPT ![r] = Idle]

\* An event handler keeps the row that upsert loaded and decides on it.
Loaded(r, m) ==
  h' = [h EXCEPT ![r].seen = IF h[r].event = "work" THEN {} ELSE m,
                 ![r].pc = IF h[r].event = "work" THEN "decide" ELSE "apply"]

-----------------------------------------------------------------------------
(* The webhook handler.                                                    *)

\* The body is read, verified and parsed.  Work without an installation, or
\* on an instance without App credentials, skips the tenant table.
Receive(r, d) ==
  /\ h[r].pc = "idle"
  /\ d.event = "work" => d.inst = KeyInst[d.key]
  /\ LET tenant == d.event # "work" \/ Tenanted(d.inst)
     IN h' = [h EXCEPT ![r] = [pc    |-> IF tenant THEN "lookup" ELSE "decide",
                               event |-> d.event,
                               key   |-> d.key,
                               inst  |-> d.inst,
                               seen  |-> {},
                               asof  |-> 0,
                               held  |-> d.event = "work" /\ Exists(d.key),
                               late  |-> tenant /\ "deleted" \in marks[d.inst]]]
  /\ UNCHANGED <<known, marks, created, started, now, stray>>

\* Mutant: only installation events enrol a tenant.
LookupWithoutInsert(r) ==
  /\ h[r].pc = "lookup"
  /\ IF h[r].inst \in known \/ h[r].event = "work"
     THEN Loaded(r, marks[h[r].inst]) ELSE Goto(r, "insert")
  /\ UNCHANGED <<known, marks, created, started, now, stray>>

\* upsert: SELECT the row of the installation.  A found row only has its
\* account metadata refreshed.
Lookup(r) ==
  /\ h[r].pc = "lookup"
  /\ IF h[r].inst \in known THEN Loaded(r, marks[h[r].inst]) ELSE Goto(r, "insert")
  /\ UNCHANGED <<known, marks, created, started, now, stray>>

\* upsert: INSERT the row; if another process was faster, roll back and read
\* its row.
InsertTenant(r) ==
  /\ h[r].pc = "insert"
  /\ known' = known \cup {h[r].inst}
  /\ Loaded(r, marks[h[r].inst])
  /\ UNCHANGED <<marks, created, started, now, stray>>

\* Mutant: an unsuspend also revives a deleted tenant.
ApplyEventRevives(r) ==
  /\ h[r].pc = "apply"
  /\ marks' = [marks EXCEPT ![h[r].inst] =
       CASE h[r].event \in {"created", "unsuspend"} -> {}
         [] h[r].event = "suspend"      -> @ \cup {"suspended"}
         [] h[r].event = "deleted"      -> @ \cup {"deleted"}
         [] h[r].event = "repositories" -> @]
  /\ Answer(r)
  /\ UNCHANGED <<known, created, started, now, stray>>

\* apply_event after its upsert, on the row it holds: a column that the row
\* shows as set is not written again.  apply_repositories_event only logs.
ApplyEvent(r) ==
  /\ h[r].pc = "apply"
  /\ LET i    == h[r].inst
         seen == h[r].seen
     IN marks' = [marks EXCEPT ![i] =
          CASE h[r].event \in {"created", "unsuspend"} ->
                 IF "deleted" \notin seen /\ "suspended" \in seen
                 THEN @ \ {"suspended"} ELSE @
            [] h[r].event = "suspend" ->
                 IF "suspended" \in seen THEN @ ELSE @ \cup {"suspended"}
            [] h[r].event = "deleted" ->
                 IF "deleted" \in seen THEN @ ELSE @ \cup {"deleted"}
            [] h[r].event = "repositories" -> @]
  /\ Answer(r)
  /\ UNCHANGED <<known, created, started, now, stray>>

\* get_active reads the row anew (nothing keeps the one upsert loaded), then
\* the allowlist.
Decide(r) ==
  /\ h[r].pc = "decide"
  /\ IF /\ Tenanted(h[r].inst) =>
             h[r].inst \in known /\ IsActive(marks[h[r].inst])
        /\ RepoAllowed(KeyRepo[h[r].key])
     THEN Goto(r, "dedup") ELSE Answer(r)
  /\ UNCHANGED <<known, marks, created, started, now, stray>>

\* Mutant of Dedup: every delivery is counted.
DedupAfterQuota(r) ==
  /\ h[r].pc = "dedup"
  /\ h' = [h EXCEPT ![r].pc = "repo", ![r].asof = now]
  /\ UNCHANGED <<known, marks, created, started, now, stray>>

\* dedup_exists; on a miss quota_reason reads the clock for all its windows.
Dedup(r) ==
  /\ h[r].pc = "dedup"
  /\ IF Exists(h[r].key)
     THEN Goto(r, "ingest")
     ELSE h' = [h EXCEPT ![r].pc = "repo", ![r].asof = now]
  /\ UNCHANGED <<known, marks, created, started, now, stray>>

\* One COUNT of quota_reason: 429, or on to the next one.
Quota(r, stage, next, exceeded) ==
  /\ h[r].pc = stage
  /\ IF exceeded THEN Answer(r) ELSE Goto(r, next)
  /\ UNCHANGED <<known, marks, created, started, now, stray>>

RepoQuota(r) ==
  Quota(r, "repo", "tenant",
        Exceeded(RepoLimit, OfRepo(KeyRepo[h[r].key]), h[r].asof - Hour))

TenantQuota(r) ==
  Quota(r, "tenant", "total",
        /\ h[r].inst # Operator
        /\ Exceeded(TenantLimit, OfTenant(h[r].inst), h[r].asof - Day))

TotalQuota(r) ==
  Quota(r, "total", "ingest", Exceeded(TotalLimit, Keys, h[r].asof - Day))

\* INSERT ... ON CONFLICT (dedup_key) DO NOTHING, stamped with the clock.
Ingest(r) ==
  /\ h[r].pc = "ingest"
  /\ LET k == h[r].key
     IN IF Exists(k)
        THEN UNCHANGED <<created, stray>>
        ELSE /\ created' = [created EXCEPT ![k] = now]
             /\ stray' = IF h[r].late THEN stray \cup {k} ELSE stray
  /\ Answer(r)
  /\ UNCHANGED <<known, marks, started, now>>

\* The process dies and starts again, or a statement raises: the delivery is
\* gone, what was committed stays.
Crash(r) ==
  /\ h[r].pc # "idle"
  /\ Answer(r)
  /\ UNCHANGED <<known, marks, created, started, now, stray>>

-----------------------------------------------------------------------------
(* The worker, and time.                                                   *)

\* process_job claims the row and runs the handler.  It looks at pr_jobs
\* only, never at installations.
Start(k) ==
  /\ Exists(k)
  /\ k \notin started
  /\ started' = started \cup {k}
  /\ UNCHANGED <<known, marks, created, now, h, stray>>

Tick ==
  /\ now < MaxTime
  /\ now' = now + 1
  /\ UNCHANGED <<known, marks, created, started, h, stray>>

Handle(r) ==
  \/ \E d \in Deliveries : Receive(r, d)
  \/ Lookup(r)
  \/ InsertTenant(r)
  \/ ApplyEvent(r)
  \/ Decide(r)
  \/ Dedup(r)
  \/ RepoQuota(r)
  \/ TenantQuota(r)
  \/ TotalQuota(r)
  \/ Ingest(r)
  \/ Crash(r)

Next ==
  \/ \E r \in Replicas : Handle(r)
  \/ \E k \in Keys : Start(k)
  \/ Tick

Spec == Init /\ [][Next]_vars

-----------------------------------------------------------------------------
(* Properties.                                                             *)

\* Slack of a soft ceiling: one delivery in the hands of every process but
\* the one that fills the quota.
Ceiling(limit) == limit - 1 + Cardinality(Replicas)

\* quota.py calls its ceilings soft: racing deliveries may overshoot, by at
\* most the number of handlers that run at once.  In no window that ends now
\* has a repository, a tenant or the instance had more jobs than the limit
\* plus one for every further API process; a single process keeps the limit
\* exactly.
SoftCeiling ==
  /\ RepoLimit > 0 => \A k \in Keys :
       CountSince(OfRepo(KeyRepo[k]), now - Hour) <= Ceiling(RepoLimit)
  /\ TenantLimit > 0 => \A i \in Installations :
       CountSince(OfTenant(i), now - Day) <= Ceiling(TenantLimit)
  /\ TotalLimit > 0 => CountSince(Keys, now - Day) <= Ceiling(TotalLimit)

\* "an uninstall followed by a stray delivery must not re-open the door"
\* (tenancy.py, upsert): a delivery that begins after the deletion of its
\* installation was committed admits no job, whatever else is in flight.
GoneAdmitsNothing == stray = {}

\* docs/api.md: a redelivery of work already held is exempt from quotas.  A
\* delivery whose job existed when it arrived never reaches a count.
RetryExempt == \A r \in Replicas : h[r].held => h[r].pc \notin QuotaStages

\* tenancy.py: "Onboarding never depends on webhook ordering".  When work is
\* about to be judged by get_active its tenant has a row, even if no
\* installation event ever came and several first deliveries raced to insert
\* it: a tenant is refused for its marks, never for a missing row.
OnboardingNeverMissing ==
  \A r \in Replicas :
    h[r].pc = "decide" /\ Tenanted(h[r].inst) => h[r].inst \in known

\* tenancy.py: an uninstall is terminal; no delivery, stale or late, clears
\* deleted_at.
DeletedForGood ==
  [][\A i \in Installations : "deleted" \in marks[i] => "deleted" \in marks'[i]]_vars

\* models.py: a deleted installation "must stop all work immediately", and
\* tenancy.py: "An inactive installation does no work".  A worker starts the
\* handler for a job only while its tenant is active.
InactiveDoesNoWork ==
  [][\A k \in started' \ started :
       KeyInst[k] # Operator => IsActive(marks[KeyInst[k]])]_vars

=============================================================================
