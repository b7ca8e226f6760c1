---------------------------- MODULE JobPipeline ----------------------------
(***************************************************************************)
(* The durable path of a pull-request job: webhook ingestion, the Redis    *)
(* stream with its consumer group, the worker pool and the reconciler.     *)
(*                                                                         *)
(*   app/ingest.py   ingest, claim_and_publish   (API and reconciler)      *)
(*   app/queue.py    XADD, XREADGROUP, XAUTOCLAIM, XACK                    *)
(*   app/worker.py   process_job, _handle_message, reconcile_pending,      *)
(*                   Worker.run_once, Worker.run_forever                   *)
(*                                                                         *)
(* One action is one committed SQL transaction or one Redis command.  The  *)
(* wall clock is kept as two saturating ages: `idle' of a delivered stream *)
(* entry (what XAUTOCLAIM compares with min_idle_time) and `lease' of a    *)
(* row, the time since its updated_at (what the claim compares with        *)
(* lease_cutoff).  `stamp' says whose claim wrote updated_at last, which   *)
(* is all that the test updated_at == claim_stamp can tell apart.          *)
(***************************************************************************)
EXTENDS Integers, FiniteSets

CONSTANTS
  Jobs,            \* dedup keys: one row of pr_jobs each
  Apis,            \* webhook requests in flight (one per API process)
  Workers,         \* worker processes
  Threads,         \* their handler threads
  WorkerOf,        \* the process a thread belongs to
  MaxAttempts,     \* settings.max_attempts
  Idle,            \* settings.reclaim_idle_ms, in ticks
  BatchCount,      \* count=10 of reclaim and consume
  None,            \* no job, no thread
  \* the environment
  Faults,          \* kinds of Redis and database errors that may happen
  CrashPoints,     \* control points at which a process may die
  Pacing,          \* how long handling may take (see Prompt)
  \* bounds
  MaxMsgs,         \* XADDs that land on the stream
  MaxDeliveries,   \* webhook deliveries
  MaxFaults,       \* errors
  MaxCrashes       \* process deaths

FaultKinds == {"xadd_fail", "xadd_lost", "xadd_dup", "ack_fail", "ack_lost", "db"}

ASSUME ConstantsAssumption ==
  /\ IsFiniteSet(Threads)
  /\ WorkerOf \in [Threads -> Workers]
  /\ Apis \cap Workers = {}
  /\ None \notin Threads \cup Jobs
  /\ MaxAttempts \in Nat \ {0}
  /\ Idle \in Nat \ {0}
  /\ BatchCount \in Nat \ {0}
  /\ Faults \subseteq FaultKinds
  /\ Pacing \in {"entry", "job", "any"}
  /\ {MaxMsgs, MaxDeliveries, MaxFaults, MaxCrashes} \subseteq Nat

VARIABLES
  status,      \* pr_jobs.status, "absent" before the INSERT
  attempts,    \* pr_jobs.attempts
  lease,       \* time since pr_jobs.updated_at, kept while PROCESSING
  stamp,       \* the thread whose claim wrote updated_at last, or None
  result,      \* the job ids in job_results
  entry,       \* the stream: entry id -> [job, state, idle]
  pub,         \* claim_and_publish of a request or of a worker's sweep
  loop,        \* where a worker's main loop stands
  sweep,       \* rows its reconcile pass has still to visit
  batch,       \* fetched entries no thread has started yet
  th,          \* a handler thread: [pc, msg, job]
  used         \* budgets spent: deliveries, faults, crashes

rowVars    == <<status, attempts, lease, stamp, result>>
workerVars == <<loop, sweep, batch>>
vars == <<status, attempts, lease, stamp, result, entry, pub, loop, sweep,
          batch, th, used>>

MsgIds     == 1..MaxMsgs
NoMsg      == 0
Publishers == Apis \cup Workers
JobStatus  == {"absent", "pending", "queued", "processing", "done", "dead"}
Terminal   == {"done", "dead"}

NoPub    == [pc |-> "idle", job |-> None]
NoThread == [pc |-> "idle", msg |-> NoMsg, job |-> None]
Unsent   == [job |-> None, state |-> "unsent", idle |-> 0]

ThreadsOf(w) == {t \in Threads : WorkerOf[t] = w}
Pending      == {j \in Jobs : status[j] = "pending"}
Sent         == {m \in MsgIds : entry[m].state # "unsent"}
Delivered    == {m \in MsgIds : entry[m].state = "pending"}

\* Entries a live worker has in hand: fetched, or being handled by a thread.
InHand == (UNION {batch[w] : w \in Workers})
            \cup {th[t].msg : t \in {u \in Threads : th[u].pc # "idle"}}

Running(t, j) == th[t].pc = "run" /\ th[t].job = j

\* An entry with a new state and idle time.
Marked(e, state, idle) == [job |-> e.job, state |-> state, idle |-> idle]

Spend(kind) == used' = [used EXCEPT ![kind] = @ + 1]
Fault(kind) == /\ kind \in Faults
               /\ used.faults < MaxFaults
               /\ Spend("faults")

\* An UPDATE of row j that is not a claim: onupdate moves updated_at.
Touch(j) == /\ lease' = [lease EXCEPT ![j] = 0]
            /\ stamp' = [stamp EXCEPT ![j] = None]

SetStatus(j, s) == /\ status' = [status EXCEPT ![j] = s]
                   /\ Touch(j)

\* UPDATE .. SET status = s WHERE cond; no row matches when cond is false.
SetStatusIf(cond, j, s) ==
  /\ status' = [status EXCEPT ![j] = IF cond THEN s ELSE @]
  /\ lease' = [lease EXCEPT ![j] = IF cond THEN 0 ELSE @]
  /\ stamp' = [stamp EXCEPT ![j] = IF cond THEN None ELSE @]

PubGoto(p, pc)    == pub' = [pub EXCEPT ![p] = [pc |-> pc, job |-> @.job]]
PubEnd(p)         == pub' = [pub EXCEPT ![p] = NoPub]
ThreadGoto(t, pc) == th' = [th EXCEPT ![t] = [pc |-> pc, msg |-> @.msg, job |-> @.job]]
ThreadEnd(t)      == th' = [th EXCEPT ![t] = NoThread]

Init ==
  /\ status = [j \in Jobs |-> "absent"]
  /\ attempts = [j \in Jobs |-> 0]
  /\ lease = [j \in Jobs |-> 0]
  /\ stamp = [j \in Jobs |-> None]
  /\ result = {}
  /\ entry = [m \in MsgIds |-> Unsent]
  /\ pub = [p \in Publishers |-> NoPub]
  /\ loop = [w \in Workers |-> "down"]
  /\ sweep = [w \in Workers |-> {}]
  /\ batch = [w \in Workers |-> {}]
  /\ th = [t \in Threads |-> NoThread]
  /\ used = [deliveries |-> 0, faults |-> 0, crashes |-> 0]

-----------------------------------------------------------------------------
(***************************************************************************)
(* Ingestion: INSERT .. ON CONFLICT DO NOTHING, then read the row back.    *)
(* The creator publishes; so does a duplicate that finds the row PENDING.  *)
(***************************************************************************)
Ingest(a, j) ==
  /\ pub[a].pc = "idle"
  /\ used.deliveries < MaxDeliveries
  /\ Spend("deliveries")
  /\ status' = [status EXCEPT ![j] = IF @ = "absent" THEN "pending" ELSE @]
  /\ pub' = IF status'[j] = "pending"
            THEN [pub EXCEPT ![a] = [pc |-> "claim", job |-> j]]
            ELSE pub
  /\ UNCHANGED <<attempts, lease, stamp, result, entry, workerVars, th>>

\* Mutant of ClaimPublish: a plain UPDATE instead of the compare-and-set.
ClaimPublishBlind(p) ==
  /\ pub[p].pc = "claim"
  /\ SetStatus(pub[p].job, "queued")
  /\ PubGoto(p, "xadd")
  /\ UNCHANGED <<attempts, result, entry, workerVars, th, used>>

\* claim_and_publish, first commit: compare-and-set PENDING -> QUEUED.
ClaimPublish(p) ==
  LET j == pub[p].job
      claimed == status[j] = "pending" IN
  /\ pub[p].pc = "claim"
  /\ SetStatusIf(claimed, j, "queued")
  /\ pub' = [pub EXCEPT ![p] = IF claimed THEN [pc |-> "xadd", job |-> j] ELSE NoPub]
  /\ UNCHANGED <<attempts, result, entry, workerVars, th, used>>

\* XADD: one more entry, for job j.
XAdd(j) ==
  LET m == Cardinality(Sent) + 1 IN
  /\ m <= MaxMsgs
  /\ entry' = [entry EXCEPT ![m] = [job |-> j, state |-> "new", idle |-> 0]]

\* queue.publish returns the entry id.
Publish(p) ==
  /\ pub[p].pc = "xadd"
  /\ XAdd(pub[p].job)
  /\ PubGoto(p, "confirm")
  /\ UNCHANGED <<rowVars, workerVars, th, used>>

\* The reply to an XADD that landed timed out and the client sends it again
\* (retry_on_timeout): the entry will be on the stream twice.
PublishRetried(p) ==
  /\ pub[p].pc = "xadd"
  /\ Fault("xadd_dup")
  /\ XAdd(pub[p].job)
  /\ UNCHANGED <<rowVars, pub, workerVars, th>>

\* RedisError, nothing was appended.
PublishFailed(p) ==
  /\ pub[p].pc = "xadd"
  /\ Fault("xadd_fail")
  /\ PubGoto(p, "release")
  /\ UNCHANGED <<rowVars, entry, workerVars, th>>

\* RedisError, but the entry is on the stream: only the reply was lost.
PublishReplyLost(p) ==
  /\ pub[p].pc = "xadd"
  /\ Fault("xadd_lost")
  /\ XAdd(pub[p].job)
  /\ PubGoto(p, "release")
  /\ UNCHANGED <<rowVars, workerVars, th>>

\* stream_msg_id and last_error are committed; the status is left alone.
ConfirmPublish(p) ==
  /\ pub[p].pc = "confirm"
  /\ Touch(pub[p].job)
  /\ PubEnd(p)
  /\ UNCHANGED <<status, attempts, result, entry, workerVars, th, used>>

\* Mutant of ReleasePublish: the claim is not released, the row stays QUEUED.
ReleasePublishForgotten(p) ==
  /\ pub[p].pc = "release"
  /\ PubEnd(p)
  /\ loop' = [w \in Workers |->
                IF w # p THEN loop[w]
                ELSE IF loop[w] = "boot" THEN "down" ELSE "poll"]
  /\ sweep' = [w \in Workers |-> IF w = p THEN {} ELSE sweep[w]]
  /\ UNCHANGED <<rowVars, entry, batch, th, used>>

(***************************************************************************)
(* The publish failed: the row goes back to PENDING whatever it is now,    *)
(* and the error is raised.  A request answers 503; a periodic sweep is    *)
(* abandoned until the next interval; the sweep at start-up ends the       *)
(* process.                                                                *)
(***************************************************************************)
ReleasePublish(p) ==
  /\ pub[p].pc = "release"
  /\ SetStatus(pub[p].job, "pending")
  /\ PubEnd(p)
  /\ loop' = [w \in Workers |->
                IF w # p THEN loop[w]
                ELSE IF loop[w] = "boot" THEN "down" ELSE "poll"]
  /\ sweep' = [w \in Workers |-> IF w = p THEN {} ELSE sweep[w]]
  /\ UNCHANGED <<attempts, result, entry, batch, th, used>>

-----------------------------------------------------------------------------
(***************************************************************************)
(* A worker's main loop: reconcile at start-up, then poll cycles with a    *)
(* reconcile pass between them.                                            *)
(***************************************************************************)
StartWorker(w) ==
  /\ loop[w] = "down"
  /\ loop' = [loop EXCEPT ![w] = "boot"]
  /\ sweep' = [sweep EXCEPT ![w] = Pending]
  /\ UNCHANGED <<rowVars, entry, pub, batch, th, used>>

\* An empty pass changes nothing and is left out.
StartSweep(w) ==
  /\ loop[w] = "poll"
  /\ Pending # {}
  /\ loop' = [loop EXCEPT ![w] = "sweep"]
  /\ sweep' = [sweep EXCEPT ![w] = Pending]
  /\ UNCHANGED <<rowVars, entry, pub, batch, th, used>>

SweepJob(w, j) ==
  /\ loop[w] \in {"boot", "sweep"}
  /\ pub[w].pc = "idle"
  /\ j \in sweep[w]
  /\ sweep' = [sweep EXCEPT ![w] = @ \ {j}]
  /\ pub' = [pub EXCEPT ![w] = [pc |-> "claim", job |-> j]]
  /\ UNCHANGED <<rowVars, entry, loop, batch, th, used>>

EndSweep(w) ==
  /\ loop[w] \in {"boot", "sweep"}
  /\ pub[w].pc = "idle"
  /\ sweep[w] = {}
  /\ loop' = [loop EXCEPT ![w] = "poll"]
  /\ UNCHANGED <<rowVars, entry, pub, sweep, batch, th, used>>

\* The oldest BatchCount entries of S.
Oldest(S) == {m \in S : Cardinality({k \in S : k < m}) < BatchCount}

\* XAUTOCLAIM: delivered entries idle for at least the reclaim window.
Reclaimable == {m \in Delivered : entry[m].idle >= Idle}
New         == {m \in MsgIds : entry[m].state = "new"}

\* run_once fetches: reclaim, then consume.  An empty poll changes nothing.
Fetch(w) ==
  LET got == Oldest(Reclaimable) \cup Oldest(New) IN
  /\ loop[w] = "poll"
  /\ got # {}
  /\ entry' = [m \in MsgIds |->
                 IF m \in got THEN Marked(entry[m], "pending", 0) ELSE entry[m]]
  /\ batch' = [batch EXCEPT ![w] = got]
  /\ loop' = [loop EXCEPT ![w] = "batch"]
  /\ UNCHANGED <<rowVars, pub, sweep, th, used>>

\* The cycle waits for every future of its batch.
EndBatch(w) ==
  /\ loop[w] = "batch"
  /\ batch[w] = {}
  /\ \A t \in ThreadsOf(w) : th[t].pc = "idle"
  /\ loop' = [loop EXCEPT ![w] = "poll"]
  /\ UNCHANGED <<rowVars, entry, pub, sweep, batch, th, used>>

-----------------------------------------------------------------------------
(***************************************************************************)
(* One message in a handler thread (_handle_message and process_job).      *)
(***************************************************************************)
\* Mutants of Verdict: escalation one execution late, and one early.
VerdictLate(j) == IF status[j] \in Terminal THEN "ack"
                  ELSE IF attempts[j] > MaxAttempts THEN "escalate" ELSE "claim"

VerdictEarly(j) == IF status[j] \in Terminal THEN "ack"
                   ELSE IF attempts[j] + 1 >= MaxAttempts THEN "escalate" ELSE "claim"

\* session.get: what the thread decides from the row as it is read here.
Verdict(j) == IF status[j] \in Terminal THEN "ack"
              ELSE IF attempts[j] >= MaxAttempts THEN "escalate" ELSE "claim"

Take(t, m) ==
  LET w == WorkerOf[t]
      j == entry[m].job IN
  /\ th[t].pc = "idle"
  /\ m \in batch[w]
  /\ batch' = [batch EXCEPT ![w] = @ \ {m}]
  /\ th' = [th EXCEPT ![t] = [pc |-> Verdict(j), msg |-> m, job |-> j]]
  /\ UNCHANGED <<rowVars, entry, pub, loop, sweep, used>>

\* attempts were exhausted when the row was read: DEAD, whatever it is now.
Escalate(t) ==
  /\ th[t].pc = "escalate"
  /\ SetStatus(th[t].job, "dead")
  /\ ThreadGoto(t, "ack")
  /\ UNCHANGED <<attempts, result, entry, pub, workerVars, used>>

\* The WHERE clause of the claim.
Claimable(j) == \/ status[j] \in {"queued", "pending"}
                \/ status[j] = "processing" /\ lease[j] > Idle

\* The claim.
Claim(t) ==
  LET j == th[t].job IN
  /\ th[t].pc = "claim"
  /\ Claimable(j)
  /\ status' = [status EXCEPT ![j] = "processing"]
  /\ attempts' = [attempts EXCEPT ![j] = @ + 1]
  /\ lease' = [lease EXCEPT ![j] = 0]
  /\ stamp' = [stamp EXCEPT ![j] = t]
  /\ ThreadGoto(t, "run")
  /\ UNCHANGED <<result, entry, pub, workerVars, used>>

\* A thread that loses the claim acknowledges the message.
LoseClaim(t) ==
  /\ th[t].pc = "claim"
  /\ ~Claimable(th[t].job)
  /\ ThreadGoto(t, "ack")
  /\ UNCHANGED <<rowVars, entry, pub, workerVars, used>>

\* Mutant of Finish: the result is recorded but DONE is not.
FinishNotMarked(t) ==
  /\ th[t].pc = "run"
  /\ result' = result \cup {th[t].job}
  /\ ThreadGoto(t, "ack")
  /\ UNCHANGED <<status, attempts, lease, stamp, entry, pub, workerVars, used>>

\* The handler returned: job_results row and DONE in one commit.
Finish(t) ==
  /\ th[t].pc = "run"
  /\ result' = result \cup {th[t].job}
  /\ SetStatus(th[t].job, "done")
  /\ ThreadGoto(t, "ack")
  /\ UNCHANGED <<attempts, entry, pub, workerVars, used>>

\* The handler raised: release the row if this thread's claim still stands.
Fail(t) ==
  LET j == th[t].job IN
  /\ th[t].pc = "run"
  /\ SetStatusIf(status[j] = "processing" /\ stamp[j] = t, j, "queued")
  /\ ThreadGoto(t, "record")
  /\ UNCHANGED <<attempts, result, entry, pub, workerVars, used>>

\* Mutant of RecordFailure: a failed job's message is acknowledged.
RecordFailureAcks(t) ==
  LET j == th[t].job IN
  /\ th[t].pc = "record"
  /\ SetStatusIf(status[j] # "queued", j, "queued")
  /\ entry' = [entry EXCEPT ![th[t].msg] = Marked(@, "acked", 0)]
  /\ ThreadEnd(t)
  /\ UNCHANGED <<attempts, result, pub, workerVars, used>>

\* The except branch of _handle_message: QUEUED, whatever the row is now (a
\* row that is QUEUED already is not written).  The message stays in the
\* pending list.
RecordFailure(t) ==
  LET j == th[t].job IN
  /\ th[t].pc = "record"
  /\ SetStatusIf(status[j] # "queued", j, "queued")
  /\ ThreadEnd(t)
  /\ UNCHANGED <<attempts, result, entry, pub, workerVars, used>>

Acked(m) == entry' = [entry EXCEPT ![m] = Marked(@, "acked", 0)]

\* XACK.
Ack(t) ==
  /\ th[t].pc = "ack"
  /\ Acked(th[t].msg)
  /\ ThreadEnd(t)
  /\ UNCHANGED <<rowVars, pub, workerVars, used>>

\* A RedisError from XACK ends in the same except branch as a failed job.
AckFailed(t) ==
  /\ th[t].pc = "ack"
  /\ Fault("ack_fail")
  /\ ThreadGoto(t, "record")
  /\ UNCHANGED <<rowVars, entry, pub, workerVars>>

\* So does the loss of the reply to an XACK that landed.
AckReplyLost(t) ==
  /\ th[t].pc = "ack"
  /\ Fault("ack_lost")
  /\ Acked(th[t].msg)
  /\ ThreadGoto(t, "record")
  /\ UNCHANGED <<rowVars, pub, workerVars>>

\* A database error rolls the transaction back and raises.  (On the release
\* of a failed handler it is swallowed, which leaves the same state.)
DbError(t) ==
  /\ th[t].pc \in {"claim", "escalate", "run"}
  /\ Fault("db")
  /\ ThreadGoto(t, "record")
  /\ UNCHANGED <<rowVars, entry, pub, workerVars>>

\* A database error in the except branch is swallowed.
RecordFails(t) ==
  /\ th[t].pc = "record"
  /\ Fault("db")
  /\ ThreadEnd(t)
  /\ UNCHANGED <<rowVars, entry, pub, workerVars>>

-----------------------------------------------------------------------------
(***************************************************************************)
(* Process deaths.  A request dies alone; a worker takes its threads, its  *)
(* batch and its sweep with it.  CrashPoints are the control points at     *)
(* which this environment lets it happen.                                  *)
(***************************************************************************)
Crash == used.crashes < MaxCrashes /\ Spend("crashes")

MayDie(pc) == pc = "idle" \/ pc \in CrashPoints

AbortRequest(a) ==
  /\ pub[a].pc # "idle"
  /\ MayDie(pub[a].pc)
  /\ Crash
  /\ PubEnd(a)
  /\ UNCHANGED <<rowVars, entry, workerVars, th>>

CrashWorker(w) ==
  /\ loop[w] # "down"
  /\ MayDie(pub[w].pc)
  /\ \A t \in ThreadsOf(w) : MayDie(th[t].pc)
  /\ Crash
  /\ PubEnd(w)
  /\ loop' = [loop EXCEPT ![w] = "down"]
  /\ sweep' = [sweep EXCEPT ![w] = {}]
  /\ batch' = [batch EXCEPT ![w] = {}]
  /\ th' = [t \in Threads |-> IF WorkerOf[t] = w THEN NoThread ELSE th[t]]
  /\ UNCHANGED <<rowVars, entry>>

Aging == {m \in Delivered : entry[m].idle < Idle}

Leased == {j \in Jobs : status[j] = "processing" /\ lease[j] <= Idle}

(***************************************************************************)
(* How fast the live processes are, as a condition for time to pass:       *)
(*   "entry"  every fetched entry is dealt with inside the reclaim window; *)
(*   "job"    what config.py asks of reclaim_idle_ms: one handler run is   *)
(*            shorter than the window and nothing else takes time, but an  *)
(*            entry may wait in the batch while the threads are busy;      *)
(*   "any"    nothing is assumed.                                          *)
(***************************************************************************)
Prompt ==
  CASE Pacing = "entry" ->
         \A m \in InHand \cap MsgIds : entry[m].idle + 1 < Idle
    [] Pacing = "job" ->
         /\ \A t \in Threads :
              \/ th[t].pc = "idle"
              \/ /\ Running(t, th[t].job)
                 /\ stamp[th[t].job] = t
                 /\ lease[th[t].job] + 1 < Idle
         /\ \A w \in Workers : batch[w] # {} =>
              \A t \in ThreadsOf(w) : th[t].pc # "idle"
    [] OTHER -> TRUE

Tick ==
  /\ Aging # {} \/ Leased # {}
  /\ Prompt
  /\ entry' = [m \in MsgIds |->
                 IF m \in Aging THEN Marked(entry[m], "pending", entry[m].idle + 1)
                 ELSE entry[m]]
  /\ lease' = [j \in Jobs |-> IF j \in Leased THEN lease[j] + 1 ELSE lease[j]]
  /\ UNCHANGED <<status, attempts, stamp, result, pub, workerVars, th, used>>

PublishStep(p) ==
  ClaimPublish(p) \/ Publish(p) \/ ConfirmPublish(p) \/ ReleasePublish(p)

PublishFault(p) == PublishRetried(p) \/ PublishFailed(p) \/ PublishReplyLost(p)

WorkerStep(w) == \/ StartWorker(w) \/ StartSweep(w) \/ EndSweep(w)
                 \/ Fetch(w) \/ EndBatch(w)
                 \/ \E j \in Jobs : SweepJob(w, j)

ThreadStep(t) == \/ \E m \in MsgIds : Take(t, m)
                 \/ Escalate(t) \/ Claim(t) \/ LoseClaim(t) \/ Finish(t) \/ Fail(t)
                 \/ RecordFailure(t) \/ Ack(t)

ThreadFault(t) == AckFailed(t) \/ AckReplyLost(t) \/ DbError(t) \/ RecordFails(t)

Next ==
  \/ \E a \in Apis, j \in Jobs : Ingest(a, j)
  \/ \E p \in Publishers : PublishStep(p) \/ PublishFault(p)
  \/ \E w \in Workers : WorkerStep(w) \/ CrashWorker(w)
  \/ \E t \in Threads : ThreadStep(t) \/ ThreadFault(t)
  \/ \E a \in Apis : AbortRequest(a)
  \/ Tick

Spec == Init /\ [][Next]_vars

\* A process that is up keeps taking its enabled steps, a crashed worker is
\* restarted by its supervisor, and time passes.  Deliveries, faults and
\* crashes are never forced.
Fairness ==
  /\ \A p \in Publishers : WF_vars(PublishStep(p))
  /\ \A w \in Workers : WF_vars(WorkerStep(w))
  /\ \A t \in Threads : WF_vars(ThreadStep(t))
  /\ WF_vars(Tick)

FairSpec == Spec /\ Fairness

-----------------------------------------------------------------------------
(***************************************************************************)
(* Properties.                                                             *)
(***************************************************************************)
\* The types of all variables.
TypeOK ==
  /\ status \in [Jobs -> JobStatus]
  /\ attempts \in [Jobs -> Nat]
  /\ lease \in [Jobs -> 0..(Idle + 1)]
  /\ stamp \in [Jobs -> Threads \cup {None}]
  /\ result \subseteq Jobs
  /\ entry \in [MsgIds -> [job : Jobs \cup {None},
                           state : {"unsent", "new", "pending", "acked"},
                           idle : 0..Idle]]
  /\ pub \in [Publishers -> [pc : {"idle", "claim", "xadd", "confirm", "release"},
                             job : Jobs \cup {None}]]
  /\ loop \in [Workers -> {"down", "boot", "sweep", "poll", "batch"}]
  /\ sweep \in [Workers -> SUBSET Jobs]
  /\ batch \in [Workers -> SUBSET MsgIds]
  /\ th \in [Threads -> [pc : {"idle", "claim", "escalate", "run", "record", "ack"},
                         msg : MsgIds \cup {NoMsg}, job : Jobs \cup {None}]]
  /\ used \in [{"deliveries", "faults", "crashes"} -> Nat]

\* max_attempts is checked on the row as it was read, before the claim that
\* increments attempts, so threads that read the same row can overshoot it,
\* but only by the number of threads, in any environment.
AttemptsBound ==
  \A j \in Jobs : attempts[j] <= MaxAttempts - 1 + Cardinality(Threads)

\* The row of job j is committed.
Known(j) == j \in Jobs /\ status[j] # "absent"

\* Work never refers to a row that is not there: every stream entry, every
\* publisher, every sweep and every thread names a committed row, so the
\* job_missing branches of process_job are dead code.
RowsExist ==
  /\ \A m \in Sent : Known(entry[m].job)
  /\ \A p \in Publishers : pub[p].pc # "idle" => Known(pub[p].job)
  /\ \A w \in Workers : \A j \in sweep[w] : Known(j)
  /\ \A t \in Threads : th[t].pc # "idle" => Known(th[t].job)

\* A job is escalated to the human queue only after max_attempts executions,
\* in any environment: the stale read in process_job can never be too high.
DeadIsExhausted ==
  \A j \in Jobs : status[j] = "dead" => attempts[j] >= MaxAttempts

\* "exactly one stream message per PR head SHA": whoever publishes, creator,
\* duplicate delivery or reconcile pass, the stream gets one entry for a job.
OneMessagePerJob ==
  \A j \in Jobs : Cardinality({m \in Sent : entry[m].job = j}) <= 1

\* At most one thread of all worker processes runs the handler of a job.
OneHandler ==
  \A t, u \in Threads, j \in Jobs : Running(t, j) /\ Running(u, j) => t = u

\* Nothing of the program will ever look at job j again: the row is neither
\* PENDING nor terminal, no entry of the stream or of the pending list names
\* it, no publisher is about to append one or to put the row back to PENDING,
\* and no thread is working on it.
Stranded(j) ==
  /\ status[j] \in {"queued", "processing"}
  /\ \A m \in MsgIds : entry[m].job = j => entry[m].state = "acked"
  /\ \A p \in Publishers : pub[p].job = j => pub[p].pc \notin {"xadd", "release"}
  /\ \A t \in Threads : th[t].job = j => th[t].pc \in {"idle", "ack"}

\* "A message is never silently lost": no accepted job is stranded.
NoLostJob == \A j \in Jobs : ~Stranded(j)

\* Exactly-once effect: once job_results has a row for the job, no thread
\* starts its handler again.
NoRunAfterResult ==
  [][\A t \in Threads, j \in result : Running(t, j)' => Running(t, j)]_vars

\* The release on failure hands the row back: a thread whose handler raised
\* leaves the row PROCESSING only if another thread has re-claimed it.
FailureHandsBack ==
  [][\A t \in Threads, j \in Jobs :
       Running(t, j) /\ Fail(t) /\ status'[j] = "processing"
         => stamp[j] \in Threads \ {t}]_vars

\* A failing thread loses to any thread that has since re-claimed the row:
\* what it writes never takes a row away from the claim that now holds it.
FailureLosesToReclaim ==
  [][\A t \in Threads, j \in Jobs :
       (Fail(t) \/ RecordFailure(t)) /\ status[j] = "processing"
         /\ stamp[j] \in Threads \ {t}
         => status'[j] = "processing"]_vars

\* max_attempts is a hard cap on executions of one job.
HardCap == \A j \in Jobs : attempts[j] <= MaxAttempts

\* Every accepted job is eventually completed or escalated.
JobsSettle ==
  \A j \in Jobs : status[j] # "absent" ~> status[j] \in Terminal

-----------------------------------------------------------------------------
(***************************************************************************)
(* The abstract life of a job.  A row that is PENDING, QUEUED or           *)
(* PROCESSING with no thread at work (between a failure and its            *)
(* redelivery, or under a claim whose owner has gone) is a job waiting.    *)
(***************************************************************************)
Phase(j) ==
  IF \E t \in Threads : Running(t, j) THEN "running"
  ELSE IF status[j] = "absent" THEN "unknown"
  ELSE IF status[j] \in Terminal THEN status[j] ELSE "waiting"

Life == INSTANCE JobLife WITH phase <- [j \in Jobs |-> Phase(j)], runs <- attempts

\* The rows, the stream, the publishers, the threads and the reconciler
\* together do what one queue with one handler per job would do, whatever
\* they interleave: a second delivery, a second publisher or a restarted
\* worker shows up neither as a second run nor as a second end of a job.
ImplementsJobLife == Life!Spec

=============================================================================
