------------------------- MODULE JobPipelineProofs -------------------------
(***************************************************************************)
(* What holds of the job pipeline for any number of jobs, processes,       *)
(* threads and entries: first in every environment (any faults, crash      *)
(* points and pacing), then under the assumptions OnceOnly and Kind about  *)
(* what goes wrong, which the theorems that need them name.                *)
(***************************************************************************)
EXTENDS JobPipeline, FiniteSetTheorems, TLAPS

\* Threads that have read job j below the cap and have still to claim it.
Readers(j) == {t \in Threads : th[t].pc = "claim" /\ th[t].job = j}

\* Each thread that is past the check of max_attempts may add one execution.
ReadersBound ==
  \A j \in Jobs : attempts[j] + Cardinality(Readers(j))
                    <= MaxAttempts - 1 + Cardinality(Threads)

\* The read that sent a thread to escalate is still true when it writes.
EscalateExhausted ==
  \A t \in Threads : th[t].pc = "escalate" => attempts[th[t].job] >= MaxAttempts

\* What a worker fetched, and what a thread handles, is on the stream.
HeldSent ==
  /\ \A w \in Workers : batch[w] \subseteq Sent
  /\ \A t \in Threads : th[t].pc # "idle" => th[t].msg \in Sent

\* References to rows and entries, strong enough to be inductive.
RefInv == TypeOK /\ RowsExist /\ HeldSent

USE DEF Publishers, JobStatus, Terminal, NoMsg, Marked

\* An XADD for job j writes one entry at most and nothing else.
LEMMA XAddWrites ==
  ASSUME TypeOK, NEW j \in Jobs, XAdd(j)
  PROVE  /\ entry' \in [MsgIds -> [job : Jobs \cup {None},
                                   state : {"unsent", "new", "pending", "acked"},
                                   idle : 0..Idle]]
         /\ Sent \subseteq Sent'
         /\ \A k \in Sent' : (k \in Sent /\ entry'[k].job = entry[k].job) \/ entry'[k].job = j
  <1> DEFINE m == Cardinality(Sent) + 1
             e == [job |-> j, state |-> "new", idle |-> 0]
  <1>1. entry' = [entry EXCEPT ![m] = e]
    BY DEF XAdd
  <1>2. e \in [job : Jobs \cup {None}, state : {"unsent", "new", "pending", "acked"},
               idle : 0..Idle]
    BY ConstantsAssumption
  <1> HIDE DEF m, e
  <1>3. entry' \in [MsgIds -> [job : Jobs \cup {None},
                               state : {"unsent", "new", "pending", "acked"}, idle : 0..Idle]]
    BY <1>1, <1>2 DEF TypeOK
  <1>4. \A k \in MsgIds : entry'[k] = entry[k] \/ entry'[k] = e
    BY <1>1 DEF TypeOK
  <1>5. Sent \subseteq Sent'
    BY <1>4 DEF e, Sent
  <1>6. \A k \in Sent' : (k \in Sent /\ entry'[k].job = entry[k].job) \/ entry'[k].job = j
    <2> TAKE k \in Sent'
    <2>1. k \in MsgIds /\ entry'[k].state # "unsent"
      BY DEF Sent
    <2>2. CASE entry'[k] = entry[k]
      BY <2>1, <2>2 DEF Sent
    <2>3. CASE entry'[k] = e
      BY <2>3 DEF e
    <2> QED
      BY <1>4, <2>1, <2>2, <2>3
  <1> QED
    BY <1>3, <1>5, <1>6

\* Nothing refers to anything at the start.
LEMMA RefInit == Init => RefInv
  BY ConstantsAssumption DEF Init, RefInv, TypeOK, RowsExist, HeldSent, Sent, Known,
     NoPub, NoThread, Unsent

\* Every step keeps the types and every reference to rows and entries.
LEMMA RefNext == RefInv /\ [Next]_vars => RefInv'
  <1> SUFFICES ASSUME RefInv, [Next]_vars PROVE RefInv'
    OBVIOUS
  <1> USE ConstantsAssumption DEF RefInv, TypeOK, RowsExist, HeldSent, Sent, Known
  <1>1. ASSUME NEW a \in Apis, NEW j \in Jobs, Ingest(a, j)
        PROVE  RefInv'
    BY <1>1 DEF Ingest, Spend, workerVars
  <1>2. ASSUME NEW p \in Publishers, ClaimPublish(p)
        PROVE  RefInv'
    BY <1>2 DEF ClaimPublish, SetStatusIf, NoPub, workerVars
  <1>3. ASSUME NEW p \in Publishers, Publish(p)
        PROVE  RefInv'
    <2>1. pub[p].job \in Jobs /\ XAdd(pub[p].job)
      BY <1>3 DEF Publish
    <2>2. /\ entry' \in [MsgIds -> [job : Jobs \cup {None},
                                  state : {"unsent", "new", "pending", "acked"},
                                  idle : 0..Idle]]
          /\ Sent \subseteq Sent'
          /\ \A k \in Sent' : 
               (k \in Sent /\ entry'[k].job = entry[k].job) \/ entry'[k].job = pub[p].job
      BY <2>1, XAddWrites
    <2> HIDE DEF Sent
    <2>3. TypeOK'
      BY <1>3, <2>2 DEF Publish, PubGoto, rowVars, workerVars
    <2>4. RowsExist'
      BY <1>3, <2>1, <2>2 DEF Publish, PubGoto, rowVars, workerVars
    <2>5. HeldSent'
      BY <1>3, <2>2 DEF Publish, PubGoto, rowVars, workerVars
    <2> QED
      BY <2>3, <2>4, <2>5
  <1>4. ASSUME NEW p \in Publishers, PublishRetried(p)
        PROVE  RefInv'
    <2>1. pub[p].job \in Jobs /\ XAdd(pub[p].job)
      BY <1>4 DEF PublishRetried
    <2>2. /\ entry' \in [MsgIds -> [job : Jobs \cup {None},
                                  state : {"unsent", "new", "pending", "acked"},
                                  idle : 0..Idle]]
          /\ Sent \subseteq Sent'
          /\ \A k \in Sent' : 
               (k \in Sent /\ entry'[k].job = entry[k].job) \/ entry'[k].job = pub[p].job
      BY <2>1, XAddWrites
    <2> HIDE DEF Sent
    <2>3. TypeOK'
      BY <1>4, <2>2 DEF PublishRetried, Fault, Spend, rowVars, workerVars
    <2>4. RowsExist'
      BY <1>4, <2>1, <2>2 DEF PublishRetried, Fault, Spend, rowVars, workerVars
    <2>5. HeldSent'
      BY <1>4, <2>2 DEF PublishRetried, Fault, Spend, rowVars, workerVars
    <2> QED
      BY <2>3, <2>4, <2>5
  <1>5. ASSUME NEW p \in Publishers, PublishFailed(p)
        PROVE  RefInv'
    BY <1>5 DEF PublishFailed, Fault, Spend, PubGoto, rowVars, workerVars
  <1>6. ASSUME NEW p \in Publishers, PublishReplyLost(p)
        PROVE  RefInv'
    <2>1. pub[p].job \in Jobs /\ XAdd(pub[p].job)
      BY <1>6 DEF PublishReplyLost
    <2>2. /\ entry' \in [MsgIds -> [job : Jobs \cup {None},
                                  state : {"unsent", "new", "pending", "acked"},
                                  idle : 0..Idle]]
          /\ Sent \subseteq Sent'
          /\ \A k \in Sent' : 
               (k \in Sent /\ entry'[k].job = entry[k].job) \/ entry'[k].job = pub[p].job
      BY <2>1, XAddWrites
    <2> HIDE DEF Sent
    <2>3. TypeOK'
      BY <1>6, <2>2 DEF PublishReplyLost, Fault, Spend, PubGoto, rowVars, workerVars
    <2>4. RowsExist'
      BY <1>6, <2>1, <2>2 DEF PublishReplyLost, Fault, Spend, PubGoto, rowVars, workerVars
    <2>5. HeldSent'
      BY <1>6, <2>2 DEF PublishReplyLost, Fault, Spend, PubGoto, rowVars, workerVars
    <2> QED
      BY <2>3, <2>4, <2>5
  <1>7. ASSUME NEW p \in Publishers, ConfirmPublish(p)
        PROVE  RefInv'
    BY <1>7 DEF ConfirmPublish, Touch, PubEnd, NoPub, workerVars
  <1>8. ASSUME NEW p \in Publishers, ReleasePublish(p)
        PROVE  RefInv'
    BY <1>8 DEF ReleasePublish, SetStatus, Touch, PubEnd, NoPub
  <1>9. ASSUME NEW w \in Workers, StartWorker(w)
        PROVE  RefInv'
    BY <1>9 DEF StartWorker, Pending, rowVars
  <1>10. ASSUME NEW w \in Workers, StartSweep(w)
        PROVE  RefInv'
    BY <1>10 DEF StartSweep, Pending, rowVars
  <1>11. ASSUME NEW w \in Workers, NEW j \in Jobs, SweepJob(w, j)
        PROVE  RefInv'
    BY <1>11 DEF SweepJob, rowVars
  <1>12. ASSUME NEW w \in Workers, EndSweep(w)
        PROVE  RefInv'
    BY <1>12 DEF EndSweep, rowVars
  <1>13. ASSUME NEW w \in Workers, Fetch(w)
        PROVE  RefInv'
    BY <1>13 DEF Fetch, Oldest, Reclaimable, Delivered, New, rowVars
  <1>14. ASSUME NEW w \in Workers, EndBatch(w)
        PROVE  RefInv'
    BY <1>14 DEF EndBatch, rowVars
  <1>15. ASSUME NEW t \in Threads, NEW m \in MsgIds, Take(t, m)
        PROVE  RefInv'
    BY <1>15 DEF Take, Verdict, rowVars
  <1>16. ASSUME NEW t \in Threads, Escalate(t)
        PROVE  RefInv'
    BY <1>16 DEF Escalate, SetStatus, Touch, ThreadGoto, workerVars
  <1>17. ASSUME NEW t \in Threads, Claim(t)
        PROVE  RefInv'
    BY <1>17 DEF Claim, ThreadGoto, workerVars
  <1>18. ASSUME NEW t \in Threads, LoseClaim(t)
        PROVE  RefInv'
    BY <1>18 DEF LoseClaim, ThreadGoto, rowVars, workerVars
  <1>19. ASSUME NEW t \in Threads, Finish(t)
        PROVE  RefInv'
    BY <1>19 DEF Finish, SetStatus, Touch, ThreadGoto, workerVars
  <1>20. ASSUME NEW t \in Threads, Fail(t)
        PROVE  RefInv'
    BY <1>20 DEF Fail, SetStatusIf, ThreadGoto, workerVars
  <1>21. ASSUME NEW t \in Threads, RecordFailure(t)
        PROVE  RefInv'
    BY <1>21 DEF RecordFailure, SetStatusIf, ThreadEnd, NoThread, workerVars
  <1>22. ASSUME NEW t \in Threads, Ack(t)
        PROVE  RefInv'
    BY <1>22 DEF Ack, Acked, ThreadEnd, NoThread, rowVars, workerVars
  <1>23. ASSUME NEW t \in Threads, AckFailed(t)
        PROVE  RefInv'
    BY <1>23 DEF AckFailed, Fault, Spend, ThreadGoto, rowVars, workerVars
  <1>24. ASSUME NEW t \in Threads, AckReplyLost(t)
        PROVE  RefInv'
    BY <1>24 DEF AckReplyLost, Acked, Fault, Spend, ThreadGoto, rowVars, workerVars
  <1>25. ASSUME NEW t \in Threads, DbError(t)
        PROVE  RefInv'
    BY <1>25 DEF DbError, Fault, Spend, ThreadGoto, rowVars, workerVars
  <1>26. ASSUME NEW t \in Threads, RecordFails(t)
        PROVE  RefInv'
    BY <1>26 DEF RecordFails, Fault, Spend, ThreadEnd, NoThread, rowVars, workerVars
  <1>27. ASSUME NEW a \in Apis, AbortRequest(a)
        PROVE  RefInv'
    BY <1>27 DEF AbortRequest, Crash, Spend, PubEnd, NoPub, rowVars, workerVars
  <1>28. ASSUME NEW w \in Workers, CrashWorker(w)
        PROVE  RefInv'
    BY <1>28 DEF CrashWorker, Crash, Spend, PubEnd, NoPub, NoThread, rowVars
  <1>29. CASE Tick
    BY <1>29 DEF Tick, Aging, Delivered, Leased, workerVars
  <1>30. CASE UNCHANGED vars
    BY <1>30 DEF vars
  <1> QED
    BY <1>1, <1>2, <1>3, <1>4, <1>5, <1>6, <1>7, <1>8, <1>9, <1>10, <1>11, <1>12, <1>13, <1>14,
       <1>15, <1>16, <1>17, <1>18, <1>19, <1>20, <1>21, <1>22, <1>23, <1>24, <1>25, <1>26,
       <1>27, <1>28, <1>29, <1>30 DEF Next, PublishStep, PublishFault,
       WorkerStep, ThreadStep, ThreadFault

\* Type correctness of the pipeline: every variable keeps its type.
THEOREM TypeCorrect == Spec => []TypeOK
  <1>1. RefInv => TypeOK
    BY DEF RefInv
  <1> QED
    BY <1>1, RefInit, RefNext, PTL DEF Spec

\* Stream entries, publishers, sweeps and threads only ever name committed
\* rows: the job_missing branches of process_job cannot be taken.
THEOREM ReferencesExist == Spec => []RowsExist
  <1>1. RefInv => RowsExist
    BY DEF RefInv
  <1> QED
    BY <1>1, RefInit, RefNext, PTL DEF Spec

-----------------------------------------------------------------------------
\* A step that executes nothing and brings no thread past the check.
Quiet ==
  /\ attempts' = attempts
  /\ \A t \in Threads : th'[t].pc \in {"claim", "escalate"} => th'[t] = th[t]

\* Only Take brings a thread past the check and only Claim counts.
LEMMA QuietStep ==
  ASSUME RefInv, [Next]_vars
  PROVE  \/ Quiet
         \/ \E t \in Threads, m \in MsgIds : Take(t, m)
         \/ \E t \in Threads : Claim(t)
  <1> USE DEF RefInv, TypeOK, Quiet
  <1>1. ASSUME NEW a \in Apis, NEW j \in Jobs, Ingest(a, j)
        PROVE  Quiet
    BY <1>1 DEF Ingest, workerVars
  <1>2. ASSUME NEW p \in Publishers, ClaimPublish(p)
        PROVE  Quiet
    BY <1>2 DEF ClaimPublish, workerVars
  <1>3. ASSUME NEW p \in Publishers, Publish(p)
        PROVE  Quiet
    BY <1>3 DEF Publish, rowVars, workerVars
  <1>4. ASSUME NEW p \in Publishers, PublishRetried(p)
        PROVE  Quiet
    BY <1>4 DEF PublishRetried, rowVars, workerVars
  <1>5. ASSUME NEW p \in Publishers, PublishFailed(p)
        PROVE  Quiet
    BY <1>5 DEF PublishFailed, rowVars, workerVars
  <1>6. ASSUME NEW p \in Publishers, PublishReplyLost(p)
        PROVE  Quiet
    BY <1>6 DEF PublishReplyLost, rowVars, workerVars
  <1>7. ASSUME NEW p \in Publishers, ConfirmPublish(p)
        PROVE  Quiet
    BY <1>7 DEF ConfirmPublish, workerVars
  <1>8. ASSUME NEW p \in Publishers, ReleasePublish(p)
        PROVE  Quiet
    BY <1>8 DEF ReleasePublish
  <1>9. ASSUME NEW w \in Workers, StartWorker(w)
        PROVE  Quiet
    BY <1>9 DEF StartWorker, rowVars
  <1>10. ASSUME NEW w \in Workers, StartSweep(w)
        PROVE  Quiet
    BY <1>10 DEF StartSweep, rowVars
  <1>11. ASSUME NEW w \in Workers, NEW j \in Jobs, SweepJob(w, j)
        PROVE  Quiet
    BY <1>11 DEF SweepJob, rowVars
  <1>12. ASSUME NEW w \in Workers, EndSweep(w)
        PROVE  Quiet
    BY <1>12 DEF EndSweep, rowVars
  <1>13. ASSUME NEW w \in Workers, Fetch(w)
        PROVE  Quiet
    BY <1>13 DEF Fetch, rowVars
  <1>14. ASSUME NEW w \in Workers, EndBatch(w)
        PROVE  Quiet
    BY <1>14 DEF EndBatch, rowVars
  <1>15. ASSUME NEW t \in Threads, Escalate(t)
        PROVE  Quiet
    BY <1>15 DEF Escalate, ThreadGoto, workerVars
  <1>16. ASSUME NEW t \in Threads, LoseClaim(t)
        PROVE  Quiet
    BY <1>16 DEF LoseClaim, ThreadGoto, rowVars, workerVars
  <1>17. ASSUME NEW t \in Threads, Finish(t)
        PROVE  Quiet
    BY <1>17 DEF Finish, ThreadGoto, workerVars
  <1>18. ASSUME NEW t \in Threads, Fail(t)
        PROVE  Quiet
    BY <1>18 DEF Fail, ThreadGoto, workerVars
  <1>19. ASSUME NEW t \in Threads, RecordFailure(t)
        PROVE  Quiet
    BY <1>19 DEF RecordFailure, ThreadEnd, NoThread, workerVars
  <1>20. ASSUME NEW t \in Threads, Ack(t)
        PROVE  Quiet
    BY <1>20 DEF Ack, ThreadEnd, NoThread, rowVars, workerVars
  <1>21. ASSUME NEW t \in Threads, AckFailed(t)
        PROVE  Quiet
    BY <1>21 DEF AckFailed, ThreadGoto, rowVars, workerVars
  <1>22. ASSUME NEW t \in Threads, AckReplyLost(t)
        PROVE  Quiet
    BY <1>22 DEF AckReplyLost, ThreadGoto, rowVars, workerVars
  <1>23. ASSUME NEW t \in Threads, DbError(t)
        PROVE  Quiet
    BY <1>23 DEF DbError, ThreadGoto, rowVars, workerVars
  <1>24. ASSUME NEW t \in Threads, RecordFails(t)
        PROVE  Quiet
    BY <1>24 DEF RecordFails, ThreadEnd, NoThread, rowVars, workerVars
  <1>25. ASSUME NEW a \in Apis, AbortRequest(a)
        PROVE  Quiet
    BY <1>25 DEF AbortRequest, rowVars, workerVars
  <1>26. ASSUME NEW w \in Workers, CrashWorker(w)
        PROVE  Quiet
    BY <1>26 DEF CrashWorker, NoThread, rowVars
  <1>27. CASE Tick
    BY <1>27 DEF Tick, workerVars
  <1>28. CASE UNCHANGED vars
    BY <1>28 DEF vars
  <1> HIDE DEF RefInv, TypeOK, Quiet
  <1> QED
    BY <1>1, <1>2, <1>3, <1>4, <1>5, <1>6, <1>7, <1>8, <1>9, <1>10, <1>11, <1>12, <1>13, <1>14,
       <1>15, <1>16, <1>17, <1>18, <1>19, <1>20, <1>21, <1>22, <1>23, <1>24, <1>25, <1>26,
       <1>27, <1>28 DEF Next, PublishStep, PublishFault,
       WorkerStep, ThreadStep, ThreadFault

\* The threads past the check are finitely many, so they can be counted.
LEMMA ReadersFinite ==
  ASSUME NEW j \in Jobs
  PROVE  /\ IsFiniteSet(Readers(j))
         /\ Cardinality(Readers(j)) \in Nat
         /\ Cardinality(Threads) \in Nat
         /\ Cardinality(Readers(j)) <= Cardinality(Threads)
  <1>1. Readers(j) \subseteq Threads
    BY DEF Readers
  <1> QED
    BY <1>1, ConstantsAssumption, FS_Subset, FS_CardinalityType

\* At the start nothing was executed and no thread is past the check.
LEMMA ReadersInit == Init => ReadersBound
  <1> SUFFICES ASSUME Init, NEW j \in Jobs
               PROVE  attempts[j] + Cardinality(Readers(j))
                        <= MaxAttempts - 1 + Cardinality(Threads)
    BY DEF ReadersBound
  <1>1. attempts[j] = 0
    BY DEF Init
  <1> QED
    BY <1>1, ReadersFinite, ConstantsAssumption

\* A claim turns a reader into an execution; a new reader has seen attempts
\* below the cap.
LEMMA ReadersNext == RefInv /\ ReadersBound /\ [Next]_vars => ReadersBound'
  <1> SUFFICES ASSUME RefInv, ReadersBound, [Next]_vars, NEW j \in Jobs
               PROVE  attempts'[j] + Cardinality(Readers(j)')
                        <= MaxAttempts - 1 + Cardinality(Threads)
    BY DEF ReadersBound
  <1> DEFINE R == Readers(j)
             S == Readers(j)'
             N == Cardinality(Threads)
  <1>0. S \subseteq Threads
    BY DEF Readers
  <1>1. /\ IsFiniteSet(R) /\ IsFiniteSet(S)
        /\ Cardinality(R) \in Nat /\ Cardinality(S) \in Nat /\ N \in Nat
        /\ Cardinality(S) <= N
    BY <1>0, ReadersFinite, ConstantsAssumption, FS_Subset, FS_CardinalityType
  <1>2. attempts[j] \in Nat /\ attempts[j] + Cardinality(R) <= MaxAttempts - 1 + N
    BY DEF RefInv, TypeOK, ReadersBound
  <1>3. ASSUME Quiet
        PROVE  attempts'[j] + Cardinality(S) <= MaxAttempts - 1 + N
    <2>1. S \subseteq R
      BY <1>3 DEF Quiet, Readers
    <2>2. Cardinality(S) <= Cardinality(R)
      BY <1>1, <2>1, FS_Subset
    <2>3. attempts'[j] = attempts[j]
      BY <1>3 DEF Quiet
    <2> HIDE DEF R, S, N
    <2> QED
      BY <1>1, <1>2, <2>2, <2>3, ConstantsAssumption
  <1>4. ASSUME NEW t \in Threads, NEW m \in MsgIds, Take(t, m)
        PROVE  attempts'[j] + Cardinality(S) <= MaxAttempts - 1 + N
    <2>1. attempts'[j] = attempts[j]
      BY <1>4 DEF Take, rowVars
    <2>2. CASE attempts[j] < MaxAttempts
      <3> HIDE DEF R, S, N
      <3> QED
        BY <1>1, <1>2, <2>1, <2>2, ConstantsAssumption
    <2>3. CASE ~(attempts[j] < MaxAttempts)
      <3>1. \A u \in Threads : th'[u].pc = "claim" /\ th'[u].job = j => th'[u] = th[u]
        BY <1>2, <1>4, <2>3, ConstantsAssumption DEF Take, Verdict, RefInv, TypeOK
      <3>2. S \subseteq R
        BY <3>1 DEF Readers
      <3>3. Cardinality(S) <= Cardinality(R)
        BY <1>1, <3>2, FS_Subset
      <3> HIDE DEF R, S, N
      <3> QED
        BY <1>1, <1>2, <2>1, <3>3, ConstantsAssumption
    <2> QED
      BY <2>2, <2>3
  <1>5. ASSUME NEW t \in Threads, Claim(t)
        PROVE  attempts'[j] + Cardinality(S) <= MaxAttempts - 1 + N
    <2>1. \A u \in Threads \ {t} : th'[u] = th[u]
      BY <1>5 DEF Claim, ThreadGoto, RefInv, TypeOK
    <2>2. th'[t].pc = "run"
      BY <1>5 DEF Claim, ThreadGoto, RefInv, TypeOK
    <2>3. CASE th[t].job = j
      <3>1. attempts'[j] = attempts[j] + 1
        BY <1>5, <2>3 DEF Claim, RefInv, TypeOK
      <3>2. t \in R
        BY <1>5, <2>3 DEF Claim, Readers
      <3>3. S \subseteq R \ {t}
        BY <2>1, <2>2 DEF Readers
      <3>4. IsFiniteSet(R \ {t}) /\ Cardinality(R \ {t}) = Cardinality(R) - 1
        BY <1>1, <3>2, FS_RemoveElement
      <3>5. Cardinality(S) <= Cardinality(R \ {t})
        BY <3>3, <3>4, FS_Subset
      <3> HIDE DEF R, S, N
      <3> QED
        BY <1>1, <1>2, <3>1, <3>4, <3>5, ConstantsAssumption
    <2>4. CASE th[t].job # j
      <3>1. attempts'[j] = attempts[j]
        BY <1>5, <2>4 DEF Claim, RefInv, TypeOK
      <3>2. S \subseteq R
        BY <2>1, <2>2 DEF Readers
      <3>3. Cardinality(S) <= Cardinality(R)
        BY <1>1, <3>2, FS_Subset
      <3> HIDE DEF R, S, N
      <3> QED
        BY <1>1, <1>2, <3>1, <3>3, ConstantsAssumption
    <2> QED
      BY <2>3, <2>4
  <1> QED
    BY <1>3, <1>4, <1>5, QuietStep

\* In every environment, executions of one job overshoot max_attempts by less
\* than the number of handler threads.
THEOREM AttemptsBounded == Spec => []AttemptsBound
  <1>1. RefInv /\ ReadersBound => AttemptsBound
    <2> SUFFICES ASSUME RefInv, ReadersBound, NEW j \in Jobs
                 PROVE  attempts[j] <= MaxAttempts - 1 + Cardinality(Threads)
      BY DEF AttemptsBound
    <2>1. attempts[j] + Cardinality(Readers(j)) <= MaxAttempts - 1 + Cardinality(Threads)
      BY DEF ReadersBound
    <2> QED
      BY <2>1, ReadersFinite, ConstantsAssumption DEF RefInv, TypeOK
  <1> QED
    BY <1>1, RefInit, RefNext, ReadersInit, ReadersNext, PTL DEF Spec

-----------------------------------------------------------------------------
\* Escalation is justified when it is decided and when it is written.
DeadInv == EscalateExhausted /\ DeadIsExhausted

\* No job is DEAD at the start.
LEMMA DeadInit == Init => DeadInv
  BY DEF Init, NoThread, DeadInv, EscalateExhausted, DeadIsExhausted

\* attempts never decrease.
LEMMA AttemptsGrow ==
  ASSUME RefInv, [Next]_vars
  PROVE  \A j \in Jobs : attempts'[j] \in Nat /\ attempts'[j] >= attempts[j]
  <1> USE DEF RefInv, TypeOK
  <1>1. CASE Quiet
    BY <1>1 DEF Quiet
  <1>2. CASE \E t \in Threads, m \in MsgIds : Take(t, m)
    BY <1>2 DEF Take, rowVars
  <1>3. CASE \E t \in Threads : Claim(t)
    BY <1>3 DEF Claim
  <1> QED
    BY <1>1, <1>2, <1>3, QuietStep

\* Only Escalate writes DEAD.
LEMMA DeadStep ==
  ASSUME RefInv, [Next]_vars
  PROVE  \A j \in Jobs : status'[j] = "dead" =>
           \/ status[j] = "dead"
           \/ \E t \in Threads : th[t].pc = "escalate" /\ th[t].job = j
  <1> DEFINE Goal == \A j \in Jobs : status'[j] = "dead" =>
                       \/ status[j] = "dead"
                       \/ \E t \in Threads : th[t].pc = "escalate" /\ th[t].job = j
  <1> USE DEF RefInv, TypeOK
  <1>1. ASSUME NEW a \in Apis, NEW j \in Jobs, Ingest(a, j)
        PROVE  Goal
    BY <1>1 DEF Ingest
  <1>2. ASSUME NEW p \in Publishers, ClaimPublish(p)
        PROVE  Goal
    BY <1>2 DEF ClaimPublish, SetStatusIf
  <1>3. ASSUME NEW p \in Publishers, Publish(p)
        PROVE  Goal
    BY <1>3 DEF Publish, rowVars
  <1>4. ASSUME NEW p \in Publishers, PublishRetried(p)
        PROVE  Goal
    BY <1>4 DEF PublishRetried, rowVars
  <1>5. ASSUME NEW p \in Publishers, PublishFailed(p)
        PROVE  Goal
    BY <1>5 DEF PublishFailed, rowVars
  <1>6. ASSUME NEW p \in Publishers, PublishReplyLost(p)
        PROVE  Goal
    BY <1>6 DEF PublishReplyLost, rowVars
  <1>7. ASSUME NEW p \in Publishers, ConfirmPublish(p)
        PROVE  Goal
    BY <1>7 DEF ConfirmPublish
  <1>8. ASSUME NEW p \in Publishers, ReleasePublish(p)
        PROVE  Goal
    BY <1>8 DEF ReleasePublish, SetStatus
  <1>9. ASSUME NEW w \in Workers, StartWorker(w)
        PROVE  Goal
    BY <1>9 DEF StartWorker, rowVars
  <1>10. ASSUME NEW w \in Workers, StartSweep(w)
        PROVE  Goal
    BY <1>10 DEF StartSweep, rowVars
  <1>11. ASSUME NEW w \in Workers, NEW j \in Jobs, SweepJob(w, j)
        PROVE  Goal
    BY <1>11 DEF SweepJob, rowVars
  <1>12. ASSUME NEW w \in Workers, EndSweep(w)
        PROVE  Goal
    BY <1>12 DEF EndSweep, rowVars
  <1>13. ASSUME NEW w \in Workers, Fetch(w)
        PROVE  Goal
    BY <1>13 DEF Fetch, rowVars
  <1>14. ASSUME NEW w \in Workers, EndBatch(w)
        PROVE  Goal
    BY <1>14 DEF EndBatch, rowVars
  <1>15. ASSUME NEW t \in Threads, NEW m \in MsgIds, Take(t, m)
        PROVE  Goal
    BY <1>15 DEF Take, rowVars
  <1>16. ASSUME NEW t \in Threads, Escalate(t)
        PROVE  Goal
    BY <1>16 DEF Escalate, SetStatus
  <1>17. ASSUME NEW t \in Threads, Claim(t)
        PROVE  Goal
    BY <1>17 DEF Claim
  <1>18. ASSUME NEW t \in Threads, LoseClaim(t)
        PROVE  Goal
    BY <1>18 DEF LoseClaim, rowVars
  <1>19. ASSUME NEW t \in Threads, Finish(t)
        PROVE  Goal
    BY <1>19 DEF Finish, SetStatus
  <1>20. ASSUME NEW t \in Threads, Fail(t)
        PROVE  Goal
    BY <1>20 DEF Fail, SetStatusIf
  <1>21. ASSUME NEW t \in Threads, RecordFailure(t)
        PROVE  Goal
    BY <1>21 DEF RecordFailure, SetStatusIf
  <1>22. ASSUME NEW t \in Threads, Ack(t)
        PROVE  Goal
    BY <1>22 DEF Ack, rowVars
  <1>23. ASSUME NEW t \in Threads, AckFailed(t)
        PROVE  Goal
    BY <1>23 DEF AckFailed, rowVars
  <1>24. ASSUME NEW t \in Threads, AckReplyLost(t)
        PROVE  Goal
    BY <1>24 DEF AckReplyLost, rowVars
  <1>25. ASSUME NEW t \in Threads, DbError(t)
        PROVE  Goal
    BY <1>25 DEF DbError, rowVars
  <1>26. ASSUME NEW t \in Threads, RecordFails(t)
        PROVE  Goal
    BY <1>26 DEF RecordFails, rowVars
  <1>27. ASSUME NEW a \in Apis, AbortRequest(a)
        PROVE  Goal
    BY <1>27 DEF AbortRequest, rowVars
  <1>28. ASSUME NEW w \in Workers, CrashWorker(w)
        PROVE  Goal
    BY <1>28 DEF CrashWorker, rowVars
  <1>29. CASE Tick
    BY <1>29 DEF Tick
  <1>30. CASE UNCHANGED vars
    BY <1>30 DEF vars
  <1> HIDE DEF RefInv, TypeOK
  <1> QED
    BY <1>1, <1>2, <1>3, <1>4, <1>5, <1>6, <1>7, <1>8, <1>9, <1>10, <1>11, <1>12, <1>13, <1>14,
       <1>15, <1>16, <1>17, <1>18, <1>19, <1>20, <1>21, <1>22, <1>23, <1>24, <1>25, <1>26,
       <1>27, <1>28, <1>29, <1>30 DEF Next, PublishStep, PublishFault,
       WorkerStep, ThreadStep, ThreadFault

\* Attempts never decrease, so an escalation decided on a read stays justified.
LEMMA DeadNext == RefInv /\ DeadInv /\ [Next]_vars => DeadInv'
  <1> SUFFICES ASSUME RefInv, DeadInv, [Next]_vars PROVE DeadInv'
    OBVIOUS
  <1> USE DEF DeadInv
  <1>1. \A j \in Jobs : attempts[j] \in Nat
    BY DEF RefInv, TypeOK
  <1>2. DeadIsExhausted'
    BY <1>1, AttemptsGrow, DeadStep, ConstantsAssumption
       DEF DeadIsExhausted, EscalateExhausted
  <1>3. EscalateExhausted'
    <2> SUFFICES ASSUME NEW t \in Threads, th'[t].pc = "escalate"
                 PROVE  attempts'[th'[t].job] >= MaxAttempts
      BY DEF EscalateExhausted
    <2>1. ASSUME th'[t] = th[t]
          PROVE  attempts'[th'[t].job] >= MaxAttempts
      <3>1. th[t].job \in Jobs /\ attempts[th[t].job] >= MaxAttempts
        BY <2>1 DEF EscalateExhausted, RefInv, RowsExist, Known
      <3> QED
        BY <1>1, <2>1, <3>1, AttemptsGrow, ConstantsAssumption
    <2>2. CASE Quiet
      BY <2>1, <2>2 DEF Quiet
    <2>3. ASSUME NEW u \in Threads, NEW m \in MsgIds, Take(u, m)
          PROVE  attempts'[th'[t].job] >= MaxAttempts
      <3>1. CASE u # t
        <4>1. th'[t] = th[t]
          BY <2>3, <3>1 DEF Take, RefInv, TypeOK
        <4> QED
          BY <2>1, <4>1
      <3>2. CASE u = t
        BY <2>3, <3>2 DEF Take, Verdict, rowVars, RefInv, TypeOK
      <3> QED
        BY <3>1, <3>2
    <2>4. ASSUME NEW u \in Threads, Claim(u)
          PROVE  attempts'[th'[t].job] >= MaxAttempts
      <3>1. th'[t] = th[t]
        BY <2>4 DEF Claim, ThreadGoto, RefInv, TypeOK
      <3> QED
        BY <2>1, <3>1
    <2> QED
      BY <2>2, <2>3, <2>4, QuietStep
  <1> QED
    BY <1>2, <1>3

\* In every environment, a job in the human queue has been executed at least
\* max_attempts times: a stale read can delay escalation but never hasten it.
THEOREM EscalationJustified == Spec => []DeadIsExhausted
  <1>1. DeadInv => DeadIsExhausted
    BY DEF DeadInv
  <1> QED
    BY <1>1, RefInit, RefNext, DeadInit, DeadNext, PTL DEF Spec

-----------------------------------------------------------------------------
(***************************************************************************)
(* One message per job.  XADD is answered for what it did: no reply is     *)
(* lost and the client's retry appends nothing (JobPipelineLostReply.cfg   *)
(* and JobPipelineRetriedXadd.cfg show what happens otherwise).  Deaths,   *)
(* other faults and pacing are arbitrary.                                  *)
(***************************************************************************)
OnceOnly == Faults \cap {"xadd_lost", "xadd_dup"} = {}

Msgs(j) == {m \in Sent : entry[m].job = j}

\* A publisher that has won the compare-and-set and not yet let go of it.
Holding(p, j) == pub[p].job = j /\ pub[p].pc \in {"xadd", "release"}

\* The row is off the shelf, and nothing on the stream, while a publisher holds
\* it; a row on the shelf is not on the stream; the claim excludes others.
MsgInv ==
  \A j \in Jobs :
    /\ status[j] \in {"absent", "pending"} => Msgs(j) = {}
    /\ \A p \in Publishers : Holding(p, j) =>
         status[j] \notin {"absent", "pending"} /\ Msgs(j) = {}
    /\ \A p, q \in Publishers : Holding(p, j) /\ Holding(q, j) => p = q
    /\ \A m, k \in Msgs(j) : m = k

\* Only an XADD changes which entries there are and what they name.
LEMMA EntriesKept ==
  ASSUME RefInv, [Next]_vars,
         \A p \in Publishers : ~Publish(p) /\ ~PublishRetried(p) /\ ~PublishReplyLost(p)
  PROVE  \A m \in MsgIds : /\ entry'[m].job = entry[m].job
                           /\ entry'[m].state = "unsent" <=> entry[m].state = "unsent"
  <1> DEFINE Same == \A m \in MsgIds : /\ entry'[m].job = entry[m].job
                                       /\ entry'[m].state = "unsent" <=> entry[m].state = "unsent"
  <1> SUFFICES Same
    OBVIOUS
  <1> USE DEF RefInv, TypeOK, HeldSent, Sent
  <1>1. ASSUME NEW w \in Workers, Fetch(w) PROVE Same
    BY <1>1 DEF Fetch, Oldest, Reclaimable, Delivered, New
  <1>2. ASSUME NEW t \in Threads, Ack(t) \/ AckReplyLost(t) PROVE Same
    <2> DEFINE m == th[t].msg
    <2>1. m \in MsgIds /\ entry[m].state # "unsent"
      BY <1>2 DEF Ack, AckReplyLost
    <2>2. entry' = [entry EXCEPT ![m] = Marked(entry[m], "acked", 0)]
      BY <1>2 DEF Ack, AckReplyLost, Acked
    <2> HIDE DEF m
    <2> QED
      BY <2>1, <2>2
  <1>3. CASE Tick
    BY <1>3 DEF Tick, Aging, Delivered
  <1>4. CASE entry' = entry
    BY <1>4
  <1>5. \/ entry' = entry
        \/ Tick
        \/ \E w \in Workers : Fetch(w)
        \/ \E t \in Threads : Ack(t) \/ AckReplyLost(t)
    BY DEF Next, PublishStep, PublishFault, WorkerStep, ThreadStep, ThreadFault, vars,
       Ingest, ClaimPublish, PublishFailed, ConfirmPublish, ReleasePublish, StartWorker,
       StartSweep, SweepJob, EndSweep, EndBatch, Take, Escalate, Claim, LoseClaim, Finish,
       Fail, RecordFailure, AckFailed, DbError, RecordFails, AbortRequest, CrashWorker
  <1> QED
    BY <1>1, <1>2, <1>3, <1>4, <1>5

\* An XADD adds one entry for its job and takes none from it.
LEMMA MsgsAdded ==
  ASSUME RefInv, NEW j \in Jobs, XAdd(j)
  PROVE  /\ \A k \in Jobs \ {j} : Msgs(k)' \subseteq Msgs(k)
         /\ \E m : Msgs(j)' \subseteq Msgs(j) \cup {m}
  <1> DEFINE m == Cardinality(Sent) + 1
             e == [job |-> j, state |-> "new", idle |-> 0]
  <1>1. entry' = [entry EXCEPT ![m] = e] /\ m <= MaxMsgs
    BY DEF XAdd
  <1> HIDE DEF m
  <1>2. \A k \in MsgIds : entry'[k] = entry[k] \/ (k = m /\ entry'[k] = e)
    BY <1>1 DEF RefInv, TypeOK
  <1>3. \A k \in Jobs \ {j} : Msgs(k)' \subseteq Msgs(k)
    BY <1>2 DEF Msgs, Sent
  <1>4. Msgs(j)' \subseteq Msgs(j) \cup {m}
    BY <1>2 DEF Msgs, Sent
  <1> QED
    BY <1>3, <1>4

\* A step that puts no row on the shelf and gives no publisher a claim.
ShelfKept ==
  \A j \in Jobs :
    /\ status'[j] \in {"absent", "pending"} => status[j] \in {"absent", "pending"}
    /\ \A p \in Publishers : Holding(p, j)' => Holding(p, j)

\* Only the two ends of claim_and_publish do more than that.
LEMMA ShelfStep ==
  ASSUME RefInv, [Next]_vars,
         \A p \in Publishers : ~ClaimPublish(p) /\ ~ReleasePublish(p)
  PROVE  ShelfKept
  <1> USE ConstantsAssumption DEF RefInv, TypeOK, ShelfKept, Holding
  <1>1. ASSUME NEW a \in Apis, NEW j \in Jobs, Ingest(a, j)
        PROVE  ShelfKept
    BY <1>1 DEF Ingest, Spend, workerVars
  <1>2. ASSUME NEW p \in Publishers, ClaimPublish(p)
        PROVE  ShelfKept
    BY <1>2
  <1>3. ASSUME NEW p \in Publishers, Publish(p)
        PROVE  ShelfKept
    BY <1>3 DEF Publish, PubGoto, Fault, rowVars
  <1>4. ASSUME NEW p \in Publishers, PublishRetried(p)
        PROVE  ShelfKept
    BY <1>4 DEF PublishRetried, PubGoto, Fault, rowVars
  <1>5. ASSUME NEW p \in Publishers, PublishFailed(p)
        PROVE  ShelfKept
    BY <1>5 DEF PublishFailed, Fault, Spend, PubGoto, rowVars, workerVars
  <1>6. ASSUME NEW p \in Publishers, PublishReplyLost(p)
        PROVE  ShelfKept
    BY <1>6 DEF PublishReplyLost, PubGoto, Fault, rowVars
  <1>7. ASSUME NEW p \in Publishers, ConfirmPublish(p)
        PROVE  ShelfKept
    BY <1>7 DEF ConfirmPublish, Touch, PubEnd, NoPub, workerVars
  <1>8. ASSUME NEW p \in Publishers, ReleasePublish(p)
        PROVE  ShelfKept
    BY <1>8
  <1>9. ASSUME NEW w \in Workers, StartWorker(w)
        PROVE  ShelfKept
    BY <1>9 DEF StartWorker, Pending, rowVars
  <1>10. ASSUME NEW w \in Workers, StartSweep(w)
        PROVE  ShelfKept
    BY <1>10 DEF StartSweep, Pending, rowVars
  <1>11. ASSUME NEW w \in Workers, NEW j \in Jobs, SweepJob(w, j)
        PROVE  ShelfKept
    BY <1>11 DEF SweepJob, rowVars
  <1>12. ASSUME NEW w \in Workers, EndSweep(w)
        PROVE  ShelfKept
    BY <1>12 DEF EndSweep, rowVars
  <1>13. ASSUME NEW w \in Workers, Fetch(w)
        PROVE  ShelfKept
    BY <1>13 DEF Fetch, rowVars
  <1>14. ASSUME NEW w \in Workers, EndBatch(w)
        PROVE  ShelfKept
    BY <1>14 DEF EndBatch, rowVars
  <1>15. ASSUME NEW t \in Threads, NEW m \in MsgIds, Take(t, m)
        PROVE  ShelfKept
    BY <1>15 DEF Take, rowVars
  <1>16. ASSUME NEW t \in Threads, Escalate(t)
        PROVE  ShelfKept
    BY <1>16 DEF Escalate, SetStatus, Touch, ThreadGoto, workerVars
  <1>17. ASSUME NEW t \in Threads, Claim(t)
        PROVE  ShelfKept
    BY <1>17 DEF Claim, ThreadGoto, workerVars
  <1>18. ASSUME NEW t \in Threads, LoseClaim(t)
        PROVE  ShelfKept
    BY <1>18 DEF LoseClaim, ThreadGoto, rowVars, workerVars
  <1>19. ASSUME NEW t \in Threads, Finish(t)
        PROVE  ShelfKept
    BY <1>19 DEF Finish, SetStatus, Touch, ThreadGoto, workerVars
  <1>20. ASSUME NEW t \in Threads, Fail(t)
        PROVE  ShelfKept
    BY <1>20 DEF Fail, SetStatusIf, ThreadGoto, workerVars
  <1>21. ASSUME NEW t \in Threads, RecordFailure(t)
        PROVE  ShelfKept
    BY <1>21 DEF RecordFailure, SetStatusIf, ThreadEnd, NoThread, workerVars
  <1>22. ASSUME NEW t \in Threads, Ack(t)
        PROVE  ShelfKept
    BY <1>22 DEF Ack, Acked, ThreadEnd, NoThread, rowVars, workerVars
  <1>23. ASSUME NEW t \in Threads, AckFailed(t)
        PROVE  ShelfKept
    BY <1>23 DEF AckFailed, Fault, Spend, ThreadGoto, rowVars, workerVars
  <1>24. ASSUME NEW t \in Threads, AckReplyLost(t)
        PROVE  ShelfKept
    BY <1>24 DEF AckReplyLost, Acked, Fault, Spend, ThreadGoto, rowVars, workerVars
  <1>25. ASSUME NEW t \in Threads, DbError(t)
        PROVE  ShelfKept
    BY <1>25 DEF DbError, Fault, Spend, ThreadGoto, rowVars, workerVars
  <1>26. ASSUME NEW t \in Threads, RecordFails(t)
        PROVE  ShelfKept
    BY <1>26 DEF RecordFails, Fault, Spend, ThreadEnd, NoThread, rowVars, workerVars
  <1>27. ASSUME NEW a \in Apis, AbortRequest(a)
        PROVE  ShelfKept
    BY <1>27 DEF AbortRequest, Crash, Spend, PubEnd, NoPub, rowVars, workerVars
  <1>28. ASSUME NEW w \in Workers, CrashWorker(w)
        PROVE  ShelfKept
    BY <1>28 DEF CrashWorker, Crash, Spend, PubEnd, NoPub, NoThread, rowVars
  <1>29. CASE Tick
    BY <1>29 DEF Tick, workerVars
  <1>30. CASE UNCHANGED vars
    BY <1>30 DEF vars
  <1> QED
    BY <1>1, <1>2, <1>3, <1>4, <1>5, <1>6, <1>7, <1>8, <1>9, <1>10, <1>11, <1>12, <1>13, <1>14,
       <1>15, <1>16, <1>17, <1>18, <1>19, <1>20, <1>21, <1>22, <1>23, <1>24, <1>25, <1>26,
       <1>27, <1>28, <1>29, <1>30
       DEF Next, PublishStep, PublishFault, WorkerStep, ThreadStep, ThreadFault

LEMMA MsgNext == ASSUME OnceOnly, RefInv, MsgInv, [Next]_vars PROVE MsgInv'
  <1>1. ASSUME NEW p \in Publishers, Publish(p)
        PROVE  MsgInv'
    <2>0. PICK j \in Jobs : j = pub[p].job
      BY <1>1 DEF Publish, RefInv, RowsExist, Known
    <2>1. XAdd(j) /\ Holding(p, j)
      BY <1>1, <2>0 DEF Publish, Holding
    <2>2. PICK m : Msgs(j)' \subseteq Msgs(j) \cup {m}
      BY <2>1, MsgsAdded
    <2>3. \A k \in Jobs \ {j} : Msgs(k)' \subseteq Msgs(k)
      BY <2>1, MsgsAdded
    <2>4. Msgs(j) = {} /\ status[j] \notin {"absent", "pending"}
      BY <2>1 DEF MsgInv
    <2>5. status' = status
      BY <1>1 DEF Publish, rowVars
    <2>6. \A q \in Publishers, k \in Jobs : Holding(q, k)' => q # p /\ Holding(q, k)
      BY <1>1 DEF Publish, PubGoto, Holding, RefInv, TypeOK
    <2>7. \A q \in Publishers : ~Holding(q, j)'
      BY <2>1, <2>6 DEF MsgInv
    <2> SUFFICES ASSUME NEW k \in Jobs
                 PROVE  /\ status'[k] \in {"absent", "pending"} => Msgs(k)' = {}
                        /\ \A q \in Publishers : Holding(q, k)' =>
                             status'[k] \notin {"absent", "pending"} /\ Msgs(k)' = {}
                        /\ \A q, r \in Publishers : Holding(q, k)' /\ Holding(r, k)' => q = r
                        /\ \A n, l \in Msgs(k)' : n = l
      BY DEF MsgInv
    <2>8. CASE k = j
      BY <2>2, <2>4, <2>5, <2>7, <2>8
    <2>9. CASE k # j
      BY <2>3, <2>5, <2>6, <2>9 DEF MsgInv
    <2> QED
      BY <2>8, <2>9
  <1>2. ASSUME NEW p \in Publishers, PublishRetried(p) \/ PublishReplyLost(p)
        PROVE  FALSE
    BY <1>2 DEF PublishRetried, PublishReplyLost, Fault, OnceOnly
  <1>3. ASSUME \A p \in Publishers : ~Publish(p)
        PROVE  \A j \in Jobs : Msgs(j)' = Msgs(j)
    BY <1>2, <1>3, EntriesKept DEF Msgs, Sent
  <1>4. ASSUME NEW p \in Publishers, ClaimPublish(p)
        PROVE  MsgInv'
    <2>1. \A q \in Publishers : ~Publish(q)
      BY <1>4 DEF ClaimPublish, Publish, XAdd, SetStatusIf, PubGoto, NoPub, rowVars, RefInv, TypeOK
    <2>2. \A j \in Jobs : Msgs(j)' = Msgs(j)
      BY <1>3, <2>1
    <2>3. /\ \A j \in Jobs : status'[j] \in {"absent", "pending"} =>
                               status[j] = status'[j] /\ (j = pub[p].job => status[j] # "pending")
          /\ \A j \in Jobs, q \in Publishers : Holding(q, j)' =>
               \/ Holding(q, j)
               \/ q = p /\ j = pub[p].job /\ status[j] = "pending" /\ status'[j] = "queued"
      BY <1>4 DEF ClaimPublish, SetStatusIf, NoPub, Holding, RefInv, TypeOK
    <2> QED
      BY <2>2, <2>3 DEF MsgInv
  <1>5. ASSUME NEW p \in Publishers, ReleasePublish(p)
        PROVE  MsgInv'
    <2>1. \A q \in Publishers : ~Publish(q)
      BY <1>5 DEF ReleasePublish, Publish, SetStatus, PubEnd, PubGoto, NoPub, rowVars, RefInv,
         TypeOK, RowsExist, Known
    <2>2. \A j \in Jobs : Msgs(j)' = Msgs(j)
      BY <1>3, <2>1
    <2>3. /\ \A j \in Jobs : status'[j] = IF j = pub[p].job THEN "pending" ELSE status[j]
          /\ \A j \in Jobs, q \in Publishers : Holding(q, j)' => q # p /\ Holding(q, j)
          /\ pub[p].job \in Jobs /\ Holding(p, pub[p].job)
      BY <1>5 DEF ReleasePublish, SetStatus, PubEnd, NoPub, Holding, RefInv, TypeOK, RowsExist, Known
    <2> QED
      BY <2>2, <2>3 DEF MsgInv
  <1>6. ASSUME \A p \in Publishers : ~Publish(p) /\ ~ClaimPublish(p) /\ ~ReleasePublish(p)
        PROVE  MsgInv'
    <2>1. \A j \in Jobs : Msgs(j)' = Msgs(j)
      BY <1>3, <1>6
    <2>2. ShelfKept
      BY <1>6, ShelfStep
    <2> QED
      BY <2>1, <2>2 DEF MsgInv, ShelfKept
  <1> QED
    BY <1>1, <1>4, <1>5, <1>6

LEMMA MsgInit == Init => MsgInv
  BY DEF Init, MsgInv, Holding, Msgs, Sent, NoPub, Unsent

\* Exactly one stream message per job, for any number of webhook deliveries,
\* reconcile passes, restarts and failed publishes that race for it.
THEOREM MessageUnique == ASSUME OnceOnly PROVE Spec => []OneMessagePerJob
  <1>1. MsgInv => OneMessagePerJob
    <2> SUFFICES ASSUME MsgInv, NEW j \in Jobs
                 PROVE  Cardinality(Msgs(j)) <= 1
      BY DEF OneMessagePerJob, Msgs
    <2>1. CASE Msgs(j) = {}
      BY <2>1, FS_EmptySet
    <2>2. ASSUME NEW m \in Msgs(j)
          PROVE  Cardinality(Msgs(j)) <= 1
      <3>1. Msgs(j) = {m}
        BY DEF MsgInv
      <3>2. Cardinality({m}) = 1
        BY FS_Singleton
      <3> QED
        BY <3>1, <3>2
    <2> QED
      BY <2>1, <2>2
  <1>2. RefInv /\ MsgInv /\ [Next]_vars => MsgInv'
    BY MsgNext
  <1> QED
    BY <1>1, <1>2, RefInit, RefNext, MsgInit, PTL DEF Spec

-----------------------------------------------------------------------------
(***************************************************************************)
(* How far one message per job degrades when XADD is not answered for what *)
(* it did: in every environment, by one entry for each fault.              *)
(***************************************************************************)
Holders(j) == {p \in Publishers : Holding(p, j)}

OnShelf(j) == IF status[j] \in {"absent", "pending"} THEN 1 ELSE 0

\* A job has one entry, and one more at most for each error that has happened:
\* the compare-and-set of claim_and_publish multiplies none of them.
EntriesPerFault == \A j \in Jobs : Cardinality(Msgs(j)) <= 1 + used.faults

\* What may still become an entry counts as well: a row that can be claimed and
\* a publisher that has claimed it.
EntriesInv ==
  \A j \in Jobs :
    /\ IsFiniteSet(Msgs(j)) /\ IsFiniteSet(Holders(j))
    /\ Cardinality(Msgs(j)) + Cardinality(Holders(j)) + OnShelf(j) <= 1 + used.faults

LEMMA Fewer ==
  ASSUME NEW S, NEW T, IsFiniteSet(T), S \subseteq T
  PROVE  /\ IsFiniteSet(S) /\ Cardinality(S) \in Nat /\ Cardinality(T) \in Nat
         /\ Cardinality(S) <= Cardinality(T)
  BY FS_Subset, FS_CardinalityType

LEMMA OneMore ==
  ASSUME NEW S, NEW T, NEW x, IsFiniteSet(T), S \subseteq T \cup {x}
  PROVE  /\ IsFiniteSet(S) /\ Cardinality(S) \in Nat /\ Cardinality(T) \in Nat
         /\ Cardinality(S) <= Cardinality(T) + 1
  <1>1. /\ IsFiniteSet(T \cup {x})
        /\ Cardinality(T \cup {x}) = IF x \in T THEN Cardinality(T) ELSE Cardinality(T) + 1
    BY FS_AddElement, Zenon
  <1>2. /\ IsFiniteSet(S) /\ Cardinality(S) \in Nat /\ Cardinality(T \cup {x}) \in Nat
        /\ Cardinality(S) <= Cardinality(T \cup {x})
    BY <1>1, Fewer, Zenon
  <1>3. Cardinality(T) \in Nat
    BY FS_CardinalityType, Zenon
  <1> QED
    BY <1>1, <1>2, <1>3

LEMMA OneFewer ==
  ASSUME NEW S, NEW T, NEW x \in T, IsFiniteSet(T), S \subseteq T \ {x}
  PROVE  /\ IsFiniteSet(S) /\ Cardinality(S) \in Nat /\ Cardinality(T) \in Nat
         /\ Cardinality(S) + 1 <= Cardinality(T)
  <1>1. IsFiniteSet(T \ {x}) /\ Cardinality(T \ {x}) = Cardinality(T) - 1
    BY FS_RemoveElement, Zenon
  <1>2. /\ IsFiniteSet(S) /\ Cardinality(S) \in Nat
        /\ Cardinality(S) <= Cardinality(T \ {x})
    BY <1>1, Fewer, Zenon
  <1>3. Cardinality(T) \in Nat
    BY FS_CardinalityType, Zenon
  <1> QED
    BY <1>1, <1>2, <1>3

LEMMA EntriesInit == Init => EntriesInv
  <1> SUFFICES ASSUME Init, NEW j \in Jobs
               PROVE  /\ IsFiniteSet(Msgs(j)) /\ IsFiniteSet(Holders(j))
                      /\ Cardinality(Msgs(j)) + Cardinality(Holders(j)) + OnShelf(j) <= 1 + used.faults
    BY DEF EntriesInv
  <1>1. Msgs(j) = {} /\ Holders(j) = {}
    BY DEF Init, Msgs, Sent, Holders, Holding, NoPub, Unsent
  <1>2. used.faults = 0 /\ OnShelf(j) = 1
    BY DEF Init, OnShelf
  <1>3. IsFiniteSet({}) /\ Cardinality({}) = 0
    BY FS_EmptySet, Zenon
  <1> QED
    BY <1>1, <1>2, <1>3

\* Errors are only ever added.
LEMMA FaultsGrow ==
  ASSUME RefInv, [Next]_vars
  PROVE  used.faults \in Nat /\ used'.faults \in Nat /\ used'.faults >= used.faults
  <1>1. \/ used' = used
        \/ \E k \in {"deliveries", "faults", "crashes"} : Spend(k)
    BY DEF Next, PublishStep, PublishFault, WorkerStep, ThreadStep, ThreadFault, vars,
       Ingest, ClaimPublish, Publish, PublishRetried, PublishFailed, PublishReplyLost,
       ConfirmPublish, ReleasePublish, StartWorker, StartSweep, SweepJob, EndSweep, Fetch,
       EndBatch, Take, Escalate, Claim, LoseClaim, Finish, Fail, RecordFailure, Ack,
       AckFailed, AckReplyLost, DbError, RecordFails, AbortRequest, CrashWorker, Tick,
       Fault, Crash
  <1> QED
    BY <1>1 DEF Spend, RefInv, TypeOK

\* A step leaves job k as far from its next entry as it was, or further.
LEMMA EntriesKeptFor ==
  ASSUME RefInv, EntriesInv, [Next]_vars, NEW k \in Jobs,
         Msgs(k)' \subseteq Msgs(k), Holders(k)' \subseteq Holders(k),
         OnShelf(k)' <= OnShelf(k)
  PROVE  /\ IsFiniteSet(Msgs(k)') /\ IsFiniteSet(Holders(k)')
         /\ Cardinality(Msgs(k)') + Cardinality(Holders(k)') + OnShelf(k)' <= 1 + used'.faults
  <1>1. /\ IsFiniteSet(Msgs(k)) /\ IsFiniteSet(Holders(k))
        /\ Cardinality(Msgs(k)) + Cardinality(Holders(k)) + OnShelf(k) <= 1 + used.faults
    BY DEF EntriesInv
  <1>2. /\ IsFiniteSet(Msgs(k)') /\ Cardinality(Msgs(k)') \in Nat /\ Cardinality(Msgs(k)) \in Nat
        /\ Cardinality(Msgs(k)') <= Cardinality(Msgs(k))
    BY <1>1, Fewer
  <1>3. /\ IsFiniteSet(Holders(k)') /\ Cardinality(Holders(k)') \in Nat
        /\ Cardinality(Holders(k)) \in Nat /\ Cardinality(Holders(k)') <= Cardinality(Holders(k))
    BY <1>1, Fewer
  <1>4. OnShelf(k) \in Nat /\ OnShelf(k)' \in Nat
    BY DEF OnShelf
  <1> QED
    BY <1>1, <1>2, <1>3, <1>4, FaultsGrow

\* An XADD: one entry more, for a publisher that lets go of its claim or for an
\* error.
LEMMA EntriesXAdd ==
  ASSUME RefInv, EntriesInv, [Next]_vars, NEW p \in Publishers, NEW j \in Jobs,
         j = pub[p].job, pub[p].pc = "xadd", XAdd(j), status' = status,
         \A q \in Publishers, k \in Jobs : Holding(q, k)' => Holding(q, k),
         Holding(p, j)' => used'.faults = used.faults + 1
  PROVE  EntriesInv'
  <1> SUFFICES ASSUME NEW k \in Jobs
               PROVE  /\ IsFiniteSet(Msgs(k)') /\ IsFiniteSet(Holders(k)')
                      /\ Cardinality(Msgs(k)') + Cardinality(Holders(k)') + OnShelf(k)' <= 1 + used'.faults
    BY DEF EntriesInv
  <1>1. Holders(k)' \subseteq Holders(k) /\ OnShelf(k)' = OnShelf(k) /\ OnShelf(k) \in Nat
    BY DEF Holders, OnShelf
  <1>2. CASE k # j
    BY <1>1, <1>2, MsgsAdded, EntriesKeptFor
  <1>3. CASE k = j
    <2>1. PICK m : Msgs(j)' \subseteq Msgs(j) \cup {m}
      BY MsgsAdded
    <2>2. /\ IsFiniteSet(Msgs(j)) /\ IsFiniteSet(Holders(j))
          /\ Cardinality(Msgs(j)) + Cardinality(Holders(j)) + OnShelf(j) <= 1 + used.faults
      BY DEF EntriesInv
    <2>3. /\ IsFiniteSet(Msgs(j)') /\ Cardinality(Msgs(j)') \in Nat
          /\ Cardinality(Msgs(j)) \in Nat /\ Cardinality(Msgs(j)') <= Cardinality(Msgs(j)) + 1
      BY <2>1, <2>2, OneMore, Zenon
    <2>4. p \in Holders(j)
      BY DEF Holders, Holding
    <2>5. used.faults \in Nat /\ used'.faults \in Nat /\ used'.faults >= used.faults
      BY FaultsGrow
    <2>6. CASE Holding(p, j)'
      <3>1. /\ IsFiniteSet(Holders(j)') /\ Cardinality(Holders(j)') \in Nat
            /\ Cardinality(Holders(j)) \in Nat /\ Cardinality(Holders(j)') <= Cardinality(Holders(j))
        BY <1>1, <1>3, <2>2, Fewer, Zenon
      <3> QED
        BY <1>1, <1>3, <2>2, <2>3, <2>5, <2>6, <3>1
    <2>7. CASE ~Holding(p, j)'
      <3>0. Holders(j)' \subseteq Holders(j) \ {p}
        BY <1>1, <1>3, <2>7 DEF Holders
      <3>1. /\ IsFiniteSet(Holders(j)') /\ Cardinality(Holders(j)') \in Nat
            /\ Cardinality(Holders(j)) \in Nat /\ Cardinality(Holders(j)') + 1 <= Cardinality(Holders(j))
        BY <2>2, <2>4, <3>0, OneFewer
      <3> QED
        BY <1>1, <1>3, <2>2, <2>3, <2>5, <3>1
    <2> QED
      BY <2>6, <2>7
  <1> QED
    BY <1>2, <1>3

LEMMA EntriesNext == RefInv /\ EntriesInv /\ [Next]_vars => EntriesInv'
  <1> SUFFICES ASSUME RefInv, EntriesInv, [Next]_vars PROVE EntriesInv'
    OBVIOUS
  <1>1. ASSUME NEW p \in Publishers, Publish(p) \/ PublishRetried(p) \/ PublishReplyLost(p)
        PROVE  EntriesInv'
    <2>0. PICK j \in Jobs : j = pub[p].job
      BY <1>1 DEF Publish, PublishRetried, PublishReplyLost, RefInv, RowsExist, Known
    <2>1. pub[p].pc = "xadd" /\ XAdd(j) /\ status' = status
      BY <1>1, <2>0 DEF Publish, PublishRetried, PublishReplyLost, rowVars
    <2>2. \A q \in Publishers, k \in Jobs : Holding(q, k)' => Holding(q, k)
      BY <1>1 DEF Publish, PublishRetried, PublishReplyLost, PubGoto, Holding, RefInv, TypeOK
    <2>3. Holding(p, j)' => used'.faults = used.faults + 1
      BY <1>1, <2>0 DEF Publish, PublishRetried, PublishReplyLost, PubGoto, Holding, Fault, Spend,
                        RefInv, TypeOK
    <2> QED
      BY <2>0, <2>1, <2>2, <2>3, EntriesXAdd
  <1>2. ASSUME \A p \in Publishers : ~Publish(p) /\ ~PublishRetried(p) /\ ~PublishReplyLost(p)
        PROVE  \A j \in Jobs : Msgs(j)' = Msgs(j)
    BY <1>2, EntriesKept DEF Msgs, Sent
  <1>3. ASSUME NEW p \in Publishers, ClaimPublish(p) \/ ReleasePublish(p)
        PROVE  EntriesInv'
    <2> SUFFICES ASSUME NEW k \in Jobs
                 PROVE  /\ IsFiniteSet(Msgs(k)') /\ IsFiniteSet(Holders(k)')
                        /\ Cardinality(Msgs(k)') + Cardinality(Holders(k)') + OnShelf(k)' <= 1 + used'.faults
      BY DEF EntriesInv
    <2>0. Msgs(k)' = Msgs(k)
      <3>1. entry' = entry
        BY <1>3 DEF ClaimPublish, ReleasePublish
      <3> QED
        BY <3>1 DEF Msgs, Sent
    <2>1. /\ IsFiniteSet(Msgs(k)) /\ IsFiniteSet(Holders(k))
          /\ Cardinality(Msgs(k)) \in Nat /\ Cardinality(Holders(k)) \in Nat
          /\ Cardinality(Msgs(k)) + Cardinality(Holders(k)) + OnShelf(k) <= 1 + used.faults
          /\ used'.faults \in Nat /\ used'.faults >= used.faults /\ used.faults \in Nat
      BY FS_CardinalityType, FaultsGrow DEF EntriesInv
    <2>2. PICK j \in Jobs : j = pub[p].job
      BY <1>3 DEF ClaimPublish, ReleasePublish, RefInv, RowsExist, Known
    <2>3. CASE ClaimPublish(p) /\ k = j /\ status[j] = "pending"
      <3>1. OnShelf(k) = 1 /\ OnShelf(k)' = 0
        BY <2>2, <2>3 DEF ClaimPublish, SetStatusIf, OnShelf, RefInv, TypeOK
      <3>2. Holders(k)' \subseteq Holders(k) \cup {p}
        BY <2>3 DEF ClaimPublish, Holders, Holding, RefInv, TypeOK
      <3>3. /\ IsFiniteSet(Holders(k)') /\ Cardinality(Holders(k)') \in Nat
            /\ Cardinality(Holders(k)') <= Cardinality(Holders(k)) + 1
        BY <2>1, <3>2, OneMore, Zenon
      <3> QED
        BY <2>0, <2>1, <3>1, <3>3
    <2>4. CASE ReleasePublish(p) /\ k = j
      <3>1. OnShelf(k) \in Nat /\ OnShelf(k)' = 1
        BY <2>2, <2>4 DEF ReleasePublish, SetStatus, OnShelf, RefInv, TypeOK
      <3>2. p \in Holders(k) /\ Holders(k)' \subseteq Holders(k) \ {p}
        BY <2>2, <2>4 DEF ReleasePublish, PubEnd, NoPub, Holders, Holding, RefInv, TypeOK,
                          ConstantsAssumption
      <3>3. /\ IsFiniteSet(Holders(k)') /\ Cardinality(Holders(k)') \in Nat
            /\ Cardinality(Holders(k)') + 1 <= Cardinality(Holders(k))
        BY <2>1, <3>2, OneFewer, Zenon
      <3> QED
        BY <2>0, <2>1, <3>1, <3>3
    <2>5. CASE ClaimPublish(p) /\ ~(k = j /\ status[j] = "pending")
      <3>1. Holders(k)' \subseteq Holders(k) /\ OnShelf(k)' <= OnShelf(k)
        BY <2>2, <2>5, ConstantsAssumption
           DEF ClaimPublish, SetStatusIf, NoPub, Holders, Holding, OnShelf, RefInv, TypeOK
      <3> QED
        BY <2>0, <3>1, EntriesKeptFor
    <2>6. CASE ReleasePublish(p) /\ k # j
      <3>1. Holders(k)' \subseteq Holders(k) /\ OnShelf(k)' <= OnShelf(k)
        BY <2>2, <2>6, ConstantsAssumption
           DEF ReleasePublish, SetStatus, PubEnd, NoPub, Holders, Holding, OnShelf, RefInv, TypeOK
      <3> QED
        BY <2>0, <3>1, EntriesKeptFor
    <2> QED
      BY <1>3, <2>3, <2>4, <2>5, <2>6
  <1>4. ASSUME \A p \in Publishers :
                 /\ ~Publish(p) /\ ~PublishRetried(p) /\ ~PublishReplyLost(p)
                 /\ ~ClaimPublish(p) /\ ~ReleasePublish(p)
        PROVE  EntriesInv'
    <2> SUFFICES ASSUME NEW k \in Jobs
                 PROVE  /\ IsFiniteSet(Msgs(k)') /\ IsFiniteSet(Holders(k)')
                        /\ Cardinality(Msgs(k)') + Cardinality(Holders(k)') + OnShelf(k)' <= 1 + used'.faults
      BY DEF EntriesInv
    <2>1. ShelfKept
      BY <1>4, ShelfStep
    <2>2. Holders(k)' \subseteq Holders(k) /\ OnShelf(k)' <= OnShelf(k)
      BY <2>1 DEF ShelfKept, Holders, OnShelf
    <2> QED
      BY <1>2, <1>4, <2>2, EntriesKeptFor
  <1> QED
    BY <1>1, <1>3, <1>4

\* However many deliveries, reconcile passes, deaths, lost replies and retried
\* XADDs compete, the stream holds at most one superfluous entry of a job for
\* each error, because only the winner of the compare-and-set appends.
THEOREM EntriesBounded == Spec => []EntriesPerFault
  <1>1. RefInv /\ EntriesInv => EntriesPerFault
    <2> SUFFICES ASSUME RefInv, EntriesInv, NEW j \in Jobs
                 PROVE  Cardinality(Msgs(j)) <= 1 + used.faults
      BY DEF EntriesPerFault
    <2>1. /\ Cardinality(Msgs(j)) \in Nat /\ Cardinality(Holders(j)) \in Nat
          /\ Cardinality(Msgs(j)) + Cardinality(Holders(j)) + OnShelf(j) <= 1 + used.faults
      BY FS_CardinalityType DEF EntriesInv
    <2>2. OnShelf(j) \in Nat /\ used.faults \in Nat
      BY DEF OnShelf, RefInv, TypeOK
    <2> QED
      BY <2>1, <2>2
  <1> QED
    BY <1>1, RefInit, RefNext, EntriesInit, EntriesNext, PTL DEF Spec

-----------------------------------------------------------------------------
(***************************************************************************)
(* One handler per job.  Entries are dealt with inside the reclaim window  *)
(* (Pacing = "entry"), which is what run_once relies on; deaths, acks and  *)
(* the database may go wrong in any way.                                   *)
(***************************************************************************)
Busy(t) == th[t].pc # "idle"

\* No XAUTOCLAIM will hand entry m out, now or by the next tick.
InWindow(m) == \/ entry[m].state = "acked"
               \/ entry[m].state = "pending" /\ entry[m].idle < Idle

\* An entry in hand is in one hand, is not handed out again while it is, and
\* names the job its thread works on.
HoldInv ==
  /\ \A w \in Workers : \A m \in batch[w] : InWindow(m)
  /\ \A t \in Threads : Busy(t) =>
       InWindow(th[t].msg) /\ entry[th[t].msg].job = th[t].job
  /\ \A w, v \in Workers : \A m \in batch[w] : m \in batch[v] => w = v
  /\ \A t \in Threads, w \in Workers : Busy(t) => th[t].msg \notin batch[w]
  /\ \A t, u \in Threads : Busy(t) /\ Busy(u) /\ th[t].msg = th[u].msg => t = u

\* Entry ids are given out in order.
Dense == \E n \in Nat : n <= MaxMsgs /\ Sent = 1..n

\* So an XADD writes no entry that was there before.
LEMMA XAddFresh ==
  ASSUME RefInv, Dense, NEW j \in Jobs, XAdd(j)
  PROVE  /\ Dense'
         /\ \A k \in Sent : entry'[k] = entry[k]
         /\ \E m \in MsgIds : /\ Sent' = Sent \cup {m}
                              /\ entry'[m] = [job |-> j, state |-> "new", idle |-> 0]
  <1>1. PICK n \in Nat : n <= MaxMsgs /\ Sent = 1..n
    BY DEF Dense
  <1>2. Cardinality(Sent) = n
    <2>1. Cardinality(1..n) = IF 1 > n THEN 0 ELSE n - 1 + 1
      BY FS_Interval
    <2> QED
      BY <1>1, <2>1
  <1>3. n + 1 <= MaxMsgs /\
        entry' = [entry EXCEPT ![n + 1] = [job |-> j, state |-> "new", idle |-> 0]]
    BY <1>2 DEF XAdd
  <1>4. MaxMsgs \in Nat
    BY ConstantsAssumption
  <1>5. n + 1 \in MsgIds /\ n + 1 \notin 1..n
    BY <1>3, <1>4 DEF MsgIds
  <1>6. \A k \in MsgIds : entry'[k] = IF k = n + 1 THEN [job |-> j, state |-> "new", idle |-> 0]
                                      ELSE entry[k]
    BY <1>3, <1>5 DEF RefInv, TypeOK
  <1>7. \A k \in Sent : k \in MsgIds /\ k # n + 1
    BY <1>1, <1>5 DEF Sent
  <1>8. Sent' = Sent \cup {n + 1}
    BY <1>5, <1>6 DEF Sent
  <1>9. Sent' = 1..(n + 1)
    BY <1>1, <1>8
  <1> QED
    BY <1>3, <1>5, <1>6, <1>7, <1>8, <1>9 DEF Dense

LEMMA DenseNext == RefInv /\ Dense /\ [Next]_vars => Dense'
  <1> SUFFICES ASSUME RefInv, Dense, [Next]_vars PROVE Dense'
    OBVIOUS
  <1>1. ASSUME NEW p \in Publishers, Publish(p) \/ PublishRetried(p) \/ PublishReplyLost(p)
        PROVE  Dense'
    <2>1. PICK j \in Jobs : XAdd(j)
      BY <1>1 DEF Publish, PublishRetried, PublishReplyLost, RefInv, RowsExist, Known
    <2> QED
      BY <2>1, XAddFresh
  <1>2. ASSUME \A p \in Publishers : ~Publish(p) /\ ~PublishRetried(p) /\ ~PublishReplyLost(p)
        PROVE  Dense'
    <2>1. Sent' = Sent
      BY <1>2, EntriesKept DEF Sent
    <2> QED
      BY <2>1 DEF Dense
  <1> QED
    BY <1>1, <1>2

\* A step that only lets go of entries and acknowledges some.
HoldKept ==
  /\ \A w \in Workers : batch'[w] \subseteq batch[w]
  /\ \A t \in Threads : Busy(t)' =>
       Busy(t) /\ th'[t].msg = th[t].msg /\ th'[t].job = th[t].job
  /\ \A k \in Sent : \/ entry'[k] = entry[k]
                     \/ entry'[k].job = entry[k].job /\ entry'[k].state = "acked"

LEMMA HoldStep ==
  ASSUME RefInv, Dense, [Next]_vars, ~Tick,
         \A w \in Workers : ~Fetch(w),
         \A t \in Threads, m \in MsgIds : ~Take(t, m)
  PROVE  HoldKept
  <1> USE ConstantsAssumption DEF RefInv, TypeOK, HoldKept, Busy
  <1>1. ASSUME NEW a \in Apis, NEW j \in Jobs, Ingest(a, j)
        PROVE  HoldKept
    BY <1>1 DEF Ingest, Spend, workerVars
  <1>2. ASSUME NEW p \in Publishers, ClaimPublish(p)
        PROVE  HoldKept
    BY <1>2 DEF ClaimPublish, SetStatusIf, NoPub, workerVars
  <1>3. ASSUME NEW p \in Publishers, Publish(p)
        PROVE  HoldKept
    <2>1. pub[p].job \in Jobs /\ XAdd(pub[p].job)
      BY <1>3 DEF Publish, RowsExist, Known
    <2>2. \A k \in Sent : entry'[k] = entry[k]
      BY <2>1, XAddFresh
    <2> QED
      BY <1>3, <2>2 DEF Publish, rowVars, workerVars
  <1>4. ASSUME NEW p \in Publishers, PublishRetried(p)
        PROVE  HoldKept
    <2>1. pub[p].job \in Jobs /\ XAdd(pub[p].job)
      BY <1>4 DEF PublishRetried, RowsExist, Known
    <2>2. \A k \in Sent : entry'[k] = entry[k]
      BY <2>1, XAddFresh
    <2> QED
      BY <1>4, <2>2 DEF PublishRetried, workerVars
  <1>5. ASSUME NEW p \in Publishers, PublishFailed(p)
        PROVE  HoldKept
    BY <1>5 DEF PublishFailed, Fault, Spend, PubGoto, rowVars, workerVars
  <1>6. ASSUME NEW p \in Publishers, PublishReplyLost(p)
        PROVE  HoldKept
    <2>1. pub[p].job \in Jobs /\ XAdd(pub[p].job)
      BY <1>6 DEF PublishReplyLost, RowsExist, Known
    <2>2. \A k \in Sent : entry'[k] = entry[k]
      BY <2>1, XAddFresh
    <2> QED
      BY <1>6, <2>2 DEF PublishReplyLost, workerVars
  <1>7. ASSUME NEW p \in Publishers, ConfirmPublish(p)
        PROVE  HoldKept
    BY <1>7 DEF ConfirmPublish, Touch, PubEnd, NoPub, workerVars
  <1>8. ASSUME NEW p \in Publishers, ReleasePublish(p)
        PROVE  HoldKept
    BY <1>8 DEF ReleasePublish, SetStatus, Touch, PubEnd, NoPub
  <1>9. ASSUME NEW w \in Workers, StartWorker(w)
        PROVE  HoldKept
    BY <1>9 DEF StartWorker, Pending, rowVars
  <1>10. ASSUME NEW w \in Workers, StartSweep(w)
        PROVE  HoldKept
    BY <1>10 DEF StartSweep, Pending, rowVars
  <1>11. ASSUME NEW w \in Workers, NEW j \in Jobs, SweepJob(w, j)
        PROVE  HoldKept
    BY <1>11 DEF SweepJob, rowVars
  <1>12. ASSUME NEW w \in Workers, EndSweep(w)
        PROVE  HoldKept
    BY <1>12 DEF EndSweep, rowVars
  <1>13. ASSUME NEW w \in Workers, Fetch(w)
        PROVE  HoldKept
    BY <1>13
  <1>14. ASSUME NEW w \in Workers, EndBatch(w)
        PROVE  HoldKept
    BY <1>14 DEF EndBatch, rowVars
  <1>15. ASSUME NEW t \in Threads, NEW m \in MsgIds, Take(t, m)
        PROVE  HoldKept
    BY <1>15
  <1>16. ASSUME NEW t \in Threads, Escalate(t)
        PROVE  HoldKept
    BY <1>16 DEF Escalate, SetStatus, Touch, ThreadGoto, workerVars
  <1>17. ASSUME NEW t \in Threads, Claim(t)
        PROVE  HoldKept
    BY <1>17 DEF Claim, ThreadGoto, workerVars
  <1>18. ASSUME NEW t \in Threads, LoseClaim(t)
        PROVE  HoldKept
    BY <1>18 DEF LoseClaim, ThreadGoto, rowVars, workerVars
  <1>19. ASSUME NEW t \in Threads, Finish(t)
        PROVE  HoldKept
    BY <1>19 DEF Finish, SetStatus, Touch, ThreadGoto, workerVars
  <1>20. ASSUME NEW t \in Threads, Fail(t)
        PROVE  HoldKept
    BY <1>20 DEF Fail, SetStatusIf, ThreadGoto, workerVars
  <1>21. ASSUME NEW t \in Threads, RecordFailure(t)
        PROVE  HoldKept
    BY <1>21 DEF RecordFailure, SetStatusIf, ThreadEnd, NoThread, workerVars
  <1>22. ASSUME NEW t \in Threads, Ack(t)
        PROVE  HoldKept
    <2>1. PICK m \in MsgIds : entry' = [entry EXCEPT ![m] = Marked(entry[m], "acked", 0)]
      BY <1>22 DEF Ack, Acked, HeldSent, Sent
    <2>2. \A k \in MsgIds \ {m} : entry'[k] = entry[k]
      BY <2>1
    <2>3. entry'[m].job = entry[m].job /\ entry'[m].state = "acked"
      BY <2>1
    <2> QED
      BY <1>22, <2>2, <2>3 DEF Ack, ThreadEnd, ThreadGoto, NoThread, workerVars, Sent
  <1>23. ASSUME NEW t \in Threads, AckFailed(t)
        PROVE  HoldKept
    BY <1>23 DEF AckFailed, Fault, Spend, ThreadGoto, rowVars, workerVars
  <1>24. ASSUME NEW t \in Threads, AckReplyLost(t)
        PROVE  HoldKept
    <2>1. PICK m \in MsgIds : entry' = [entry EXCEPT ![m] = Marked(entry[m], "acked", 0)]
      BY <1>24 DEF AckReplyLost, Acked, HeldSent, Sent
    <2>2. \A k \in MsgIds \ {m} : entry'[k] = entry[k]
      BY <2>1
    <2>3. entry'[m].job = entry[m].job /\ entry'[m].state = "acked"
      BY <2>1
    <2> QED
      BY <1>24, <2>2, <2>3 DEF AckReplyLost, ThreadEnd, ThreadGoto, NoThread, workerVars, Sent
  <1>25. ASSUME NEW t \in Threads, DbError(t)
        PROVE  HoldKept
    BY <1>25 DEF DbError, Fault, Spend, ThreadGoto, rowVars, workerVars
  <1>26. ASSUME NEW t \in Threads, RecordFails(t)
        PROVE  HoldKept
    BY <1>26 DEF RecordFails, Fault, Spend, ThreadEnd, NoThread, rowVars, workerVars
  <1>27. ASSUME NEW a \in Apis, AbortRequest(a)
        PROVE  HoldKept
    BY <1>27 DEF AbortRequest, Crash, Spend, PubEnd, NoPub, rowVars, workerVars
  <1>28. ASSUME NEW w \in Workers, CrashWorker(w)
        PROVE  HoldKept
    BY <1>28 DEF CrashWorker, Crash, Spend, PubEnd, NoPub, NoThread, rowVars
  <1>29. CASE Tick
    BY <1>29
  <1>30. CASE UNCHANGED vars
    BY <1>30 DEF vars
  <1> QED
    BY <1>1, <1>2, <1>3, <1>4, <1>5, <1>6, <1>7, <1>8, <1>9, <1>10, <1>11, <1>12, <1>13, <1>14,
       <1>15, <1>16, <1>17, <1>18, <1>19, <1>20, <1>21, <1>22, <1>23, <1>24, <1>25, <1>26,
       <1>27, <1>28, <1>29, <1>30
       DEF Next, PublishStep, PublishFault, WorkerStep, ThreadStep, ThreadFault

\* What a batch or a thread holds is in hand.
LEMMA HandsInHand ==
  /\ \A w \in Workers : batch[w] \subseteq InHand
  /\ \A t \in Threads : Busy(t) => th[t].msg \in InHand
  <1> DEFINE Fetched == UNION {batch[w] : w \in Workers}
             Started == {th[t].msg : t \in {u \in Threads : th[u].pc # "idle"}}
  <1>1. InHand = Fetched \cup Started
    BY DEF InHand
  <1>2. \A w \in Workers : batch[w] \subseteq Fetched
    OBVIOUS
  <1>3. \A t \in Threads : Busy(t) => th[t].msg \in Started
    BY DEF Busy
  <1> HIDE DEF Fetched, Started
  <1> QED
    BY <1>1, <1>2, <1>3

LEMMA HoldNext ==
  ASSUME Pacing = "entry", RefInv, Dense, HoldInv, [Next]_vars PROVE HoldInv'
  <1> USE ConstantsAssumption
  <1>0. /\ \A w \in Workers : batch[w] \subseteq Sent
        /\ \A t \in Threads : Busy(t) => th[t].msg \in Sent
    BY DEF RefInv, HeldSent, Busy
  <1>1. ASSUME NEW w \in Workers, Fetch(w)
        PROVE  HoldInv'
    <2> DEFINE got == Oldest(Reclaimable) \cup Oldest(New)
    <2>1. /\ got \subseteq MsgIds
          /\ \A m \in got : entry[m].state = "new" \/ (entry[m].state = "pending" /\ ~(entry[m].idle < Idle))
      BY DEF Oldest, Reclaimable, New, Delivered, RefInv, TypeOK
    <2>2. /\ \A v \in Workers : batch[v] \cap got = {}
          /\ \A t \in Threads : Busy(t) => th[t].msg \notin got
      BY <2>1 DEF HoldInv, InWindow
    <2>3. /\ batch' = [batch EXCEPT ![w] = got]
          /\ th' = th
          /\ \A m \in MsgIds : entry'[m] = IF m \in got THEN Marked(entry[m], "pending", 0)
                                                        ELSE entry[m]
      BY <1>1 DEF Fetch
    <2> HIDE DEF got
    <2>4. \A m \in got : InWindow(m)'
      <3> SUFFICES ASSUME NEW m \in got PROVE InWindow(m)'
        OBVIOUS
      <3>1. entry'[m] = [job |-> entry[m].job, state |-> "pending", idle |-> 0]
        BY <2>1, <2>3
      <3>2. 0 < Idle
        OBVIOUS
      <3> QED
        BY <3>1, <3>2 DEF InWindow
    <2>5. \A m \in Sent \ got : entry'[m] = entry[m]
      BY <2>3 DEF Sent
    <2>6. \A v \in Workers : batch'[v] = IF v = w THEN got ELSE batch[v]
      BY <2>3 DEF RefInv, TypeOK
    <2> QED
      BY <1>0, <2>2, <2>3, <2>4, <2>5, <2>6 DEF HoldInv, InWindow, Busy
  <1>2. ASSUME NEW t \in Threads, NEW m \in MsgIds, Take(t, m)
        PROVE  HoldInv'
    <2>1. /\ entry' = entry
          /\ WorkerOf[t] \in Workers /\ m \in batch[WorkerOf[t]] /\ ~Busy(t)
          /\ \A v \in Workers :
               batch'[v] = IF v = WorkerOf[t] THEN batch[v] \ {m} ELSE batch[v]
          /\ \A u \in Threads : u # t => th'[u] = th[u]
          /\ th'[t].msg = m /\ th'[t].job = entry[m].job
      BY <1>2 DEF Take, RefInv, TypeOK, Busy
    <2>2. \A u \in Threads : Busy(u)' => u = t \/ (Busy(u) /\ th'[u] = th[u])
      BY <2>1 DEF Busy
    <2>3. \A k \in MsgIds : InWindow(k)' = InWindow(k)
      BY <2>1 DEF InWindow
    <2>4. \A v \in Workers : batch'[v] \subseteq batch[v] /\ m \notin batch'[v]
      <3>1. \A v \in Workers : m \in batch[v] => v = WorkerOf[t]
        BY <2>1 DEF HoldInv
      <3> QED
        BY <2>1, <3>1
    <2>5. InWindow(m) /\ \A u \in Threads : Busy(u) => th[u].msg # m
      BY <2>1 DEF HoldInv
    <2>6. /\ \A v \in Workers : \A k \in batch'[v] : InWindow(k)'
          /\ \A v, x \in Workers : \A k \in batch'[v] : k \in batch'[x] => v = x
      BY <1>0, <2>3, <2>4 DEF HoldInv, Sent
    <2>7. \A u \in Threads : Busy(u)' =>
            InWindow(th[u].msg)' /\ entry'[th'[u].msg].job = th'[u].job
      <3> SUFFICES ASSUME NEW u \in Threads, Busy(u)'
                   PROVE  InWindow(th[u].msg)' /\ entry'[th'[u].msg].job = th'[u].job
        OBVIOUS
      <3>1. CASE u = t
        BY <2>1, <2>3, <2>5, <3>1
      <3>2. CASE Busy(u) /\ th'[u] = th[u]
        BY <1>0, <2>1, <2>3, <3>2 DEF HoldInv, Sent
      <3> QED
        BY <2>2, <3>1, <3>2
    <2>8. /\ \A u \in Threads, v \in Workers : Busy(u)' => th'[u].msg \notin batch'[v]
          /\ \A u, x \in Threads : Busy(u)' /\ Busy(x)' /\ th'[u].msg = th'[x].msg => u = x
      BY <2>1, <2>2, <2>4, <2>5 DEF HoldInv
    <2> QED
      BY <2>6, <2>7, <2>8 DEF HoldInv
  <1>3. CASE Tick
    <2>1. /\ \A w \in Workers : \A m \in batch[w] : m \in InHand \cap MsgIds
          /\ \A t \in Threads : Busy(t) => th[t].msg \in InHand \cap MsgIds
      <3>1. ASSUME NEW w \in Workers, NEW m \in batch[w] PROVE m \in InHand \cap MsgIds
        BY <1>0, <3>1, HandsInHand DEF Sent
      <3>2. ASSUME NEW t \in Threads, Busy(t) PROVE th[t].msg \in InHand \cap MsgIds
        BY <1>0, <3>2, HandsInHand DEF Sent
      <3> QED
        BY <3>1, <3>2
    <2>2. \A m \in InHand \cap MsgIds : entry[m].idle + 1 < Idle
      BY <1>3 DEF Tick, Prompt
    <2>3. \A m \in MsgIds : /\ entry'[m].job = entry[m].job
                            /\ entry'[m].state = entry[m].state
                            /\ entry'[m].idle \in {entry[m].idle, entry[m].idle + 1}
      BY <1>3 DEF Tick, Aging, Delivered, RefInv, TypeOK
    <2>4. \A m \in InHand \cap MsgIds : InWindow(m) => InWindow(m)'
      <3> SUFFICES ASSUME NEW m \in InHand \cap MsgIds, InWindow(m) PROVE InWindow(m)'
        OBVIOUS
      <3>1. entry[m].idle \in Int /\ Idle \in Int /\ entry[m].idle + 1 < Idle
        BY <2>2 DEF RefInv, TypeOK
      <3>2. entry'[m].idle < Idle
        BY <2>3, <3>1
      <3> QED
        BY <2>3, <3>2 DEF InWindow
    <2>5. batch' = batch /\ th' = th
      BY <1>3 DEF Tick, workerVars
    <2> QED
      BY <2>1, <2>3, <2>4, <2>5 DEF HoldInv, Busy
  <1>4. CASE /\ ~Tick /\ \A w \in Workers : ~Fetch(w)
             /\ \A t \in Threads, m \in MsgIds : ~Take(t, m)
    <2>1. HoldKept
      BY <1>4, HoldStep
    <2>2. \A k \in Sent : InWindow(k) => InWindow(k)'
      BY <2>1 DEF HoldKept, InWindow
    <2>3. \A k \in Sent : entry'[k].job = entry[k].job
      BY <2>1 DEF HoldKept
    <2> QED
      BY <1>0, <2>1, <2>2, <2>3 DEF HoldKept, HoldInv
  <1> QED
    BY <1>1, <1>2, <1>3, <1>4

LEMMA HoldInit == Init => Dense /\ HoldInv
  <1> SUFFICES ASSUME Init PROVE Dense /\ HoldInv
    OBVIOUS
  <1>1. Sent = 1..0
    BY DEF Init, Sent, Unsent
  <1>2. Dense
    BY <1>1, ConstantsAssumption DEF Dense
  <1>3. HoldInv
    BY DEF Init, HoldInv, Busy, NoThread
  <1> QED
    BY <1>2, <1>3

\* Two busy threads never work on the same job.
LEMMA Alone ==
  ASSUME RefInv, MsgInv, HoldInv, NEW t \in Threads, NEW u \in Threads,
         Busy(t), Busy(u), th[t].job = th[u].job
  PROVE  t = u
  <1>1. th[t].msg \in Msgs(th[t].job) /\ th[u].msg \in Msgs(th[t].job) /\ th[t].job \in Jobs
    BY DEF RefInv, HeldSent, HoldInv, Busy, Msgs, RowsExist, Known
  <1>2. th[t].msg = th[u].msg
    BY <1>1 DEF MsgInv
  <1> QED
    BY <1>2 DEF HoldInv

\* At most one thread of all workers runs the handler of a job, for any number
\* of workers, threads, jobs and deaths.
THEOREM HandlerAlone ==
  ASSUME OnceOnly, Pacing = "entry" PROVE Spec => []OneHandler
  <1>1. RefInv /\ MsgInv /\ HoldInv => OneHandler
    BY Alone DEF OneHandler, Running, Busy
  <1>2. RefInv /\ MsgInv /\ [Next]_vars => MsgInv'
    BY MsgNext
  <1>3. RefInv /\ Dense /\ HoldInv /\ [Next]_vars => HoldInv'
    BY HoldNext
  <1> QED
    BY <1>1, <1>2, <1>3, RefInit, RefNext, MsgInit, HoldInit, DenseNext, PTL DEF Spec

\* What a thread read of the attempts is still below the cap when it claims.
CapInv ==
  /\ HardCap
  /\ \A t \in Threads : th[t].pc = "claim" => attempts[th[t].job] < MaxAttempts

LEMMA CapNext ==
  ASSUME RefInv, MsgInv, HoldInv, CapInv, [Next]_vars
  PROVE  CapInv'
  <1>1. CASE Quiet
    BY <1>1 DEF Quiet, CapInv, HardCap
  <1>2. ASSUME NEW t \in Threads, NEW m \in MsgIds, Take(t, m)
        PROVE  CapInv'
    <2>1. attempts' = attempts
      BY <1>2 DEF Take, rowVars
    <2>2. \A u \in Threads \ {t} : th'[u] = th[u]
      BY <1>2 DEF Take, RefInv, TypeOK
    <2>3. th'[t].pc = Verdict(entry[m].job) /\ th'[t].job = entry[m].job
      BY <1>2 DEF Take, RefInv, TypeOK
    <2>4. entry[m].job \in Jobs /\ attempts[entry[m].job] \in Nat
      <3>1. WorkerOf[t] \in Workers /\ m \in batch[WorkerOf[t]]
        BY <1>2, ConstantsAssumption DEF Take
      <3>2. m \in Sent
        BY <3>1 DEF RefInv, HeldSent
      <3>3. entry[m].job \in Jobs
        BY <3>2 DEF RefInv, RowsExist, Known
      <3> QED
        BY <3>3 DEF RefInv, TypeOK
    <2>5. th'[t].pc = "claim" => attempts[entry[m].job] < MaxAttempts
      BY <2>3, <2>4, ConstantsAssumption DEF Verdict
    <2> QED
      BY <2>1, <2>2, <2>3, <2>5 DEF CapInv, HardCap
  <1>3. ASSUME NEW t \in Threads, Claim(t)
        PROVE  CapInv'
    <2>1. PICK j \in Jobs : j = th[t].job
      BY <1>3 DEF Claim, RefInv, RowsExist, Known
    <2>2. /\ attempts' = [attempts EXCEPT ![j] = @ + 1]
          /\ \A u \in Threads \ {t} : th'[u] = th[u]
          /\ th'[t].pc = "run" /\ th[t].pc = "claim"
      BY <1>3, <2>1 DEF Claim, ThreadGoto, RefInv, TypeOK
    <2>3. attempts[j] \in Nat /\ attempts[j] < MaxAttempts
      BY <2>1, <2>2 DEF CapInv, RefInv, TypeOK
    <2>4. HardCap'
      BY <2>2, <2>3, ConstantsAssumption DEF CapInv, HardCap, RefInv, TypeOK
    <2>5. ASSUME NEW u \in Threads, th'[u].pc = "claim"
          PROVE  attempts'[th'[u].job] < MaxAttempts
      <3>1. u # t /\ th'[u] = th[u] /\ th[u].pc = "claim"
        BY <2>2, <2>5
      <3>2. th[u].job # j
        BY <2>1, <2>2, <3>1, Alone DEF Busy
      <3>3. th[u].job \in Jobs /\ attempts'[th[u].job] = attempts[th[u].job]
        BY <2>2, <3>1, <3>2 DEF RefInv, TypeOK, RowsExist, Known
      <3> QED
        BY <3>1, <3>3 DEF CapInv
    <2> QED
      BY <2>4, <2>5 DEF CapInv
  <1> QED
    BY <1>1, <1>2, <1>3, QuietStep

\* max_attempts is a hard cap as long as XADD does what it says and entries are
\* dealt with inside the reclaim window, whatever dies and whatever else fails:
\* the overshoot of AttemptsBounded takes two threads on one job.
THEOREM CapIsHard ==
  ASSUME OnceOnly, Pacing = "entry" PROVE Spec => []HardCap
  <1>1. CapInv => HardCap
    BY DEF CapInv
  <1>2. RefInv /\ MsgInv /\ [Next]_vars => MsgInv'
    BY MsgNext
  <1>3. RefInv /\ Dense /\ HoldInv /\ [Next]_vars => HoldInv'
    BY HoldNext
  <1>4. Init => CapInv
    BY ConstantsAssumption DEF Init, CapInv, HardCap, NoThread
  <1>5. RefInv /\ MsgInv /\ HoldInv /\ CapInv /\ [Next]_vars => CapInv'
    BY CapNext
  <1> QED
    BY <1>1, <1>2, <1>3, <1>4, <1>5, RefInit, RefNext, MsgInit, HoldInit, DenseNext, PTL DEF Spec

\* A failed thread's claim of the row stands until something else is written.
StampInv ==
  \A t \in Threads : th[t].pc \in {"run", "record"} => stamp[th[t].job] \in {t, None}

\* A step that claims nothing and brings no thread to its handler.
StampKept ==
  /\ \A j \in Jobs : stamp'[j] \in {stamp[j], None}
  /\ \A t \in Threads : th'[t].pc \in {"run", "record"} =>
       th[t].pc \in {"run", "record"} /\ th'[t].job = th[t].job

\* Only a claim writes a thread's stamp.  Without errors of XACK and of the
\* database a thread comes to the except branch from its handler alone.
LEMMA StampStep ==
  ASSUME RefInv, Faults \subseteq {"xadd_fail"}, [Next]_vars
  PROVE  StampKept \/ \E t \in Threads : Claim(t)
  <1> USE DEF RefInv, TypeOK, StampKept
  <1>1. ASSUME NEW a \in Apis, NEW j \in Jobs, Ingest(a, j)
        PROVE  StampKept
    BY <1>1 DEF Ingest, workerVars
  <1>2. ASSUME NEW p \in Publishers, ClaimPublish(p)
        PROVE  StampKept
    BY <1>2 DEF ClaimPublish, SetStatusIf, workerVars
  <1>3. ASSUME NEW p \in Publishers, Publish(p)
        PROVE  StampKept
    BY <1>3 DEF Publish, rowVars, workerVars
  <1>4. ASSUME NEW p \in Publishers, PublishRetried(p)
        PROVE  StampKept
    BY <1>4 DEF PublishRetried, rowVars, workerVars
  <1>5. ASSUME NEW p \in Publishers, PublishFailed(p)
        PROVE  StampKept
    BY <1>5 DEF PublishFailed, rowVars, workerVars
  <1>6. ASSUME NEW p \in Publishers, PublishReplyLost(p)
        PROVE  StampKept
    BY <1>6 DEF PublishReplyLost, rowVars, workerVars
  <1>7. ASSUME NEW p \in Publishers, ConfirmPublish(p)
        PROVE  StampKept
    BY <1>7 DEF ConfirmPublish, workerVars, SetStatusIf, SetStatus, Touch
  <1>8. ASSUME NEW p \in Publishers, ReleasePublish(p)
        PROVE  StampKept
    BY <1>8 DEF ReleasePublish, SetStatus, Touch, workerVars
  <1>9. ASSUME NEW w \in Workers, StartWorker(w)
        PROVE  StampKept
    BY <1>9 DEF StartWorker, rowVars
  <1>10. ASSUME NEW w \in Workers, StartSweep(w)
        PROVE  StampKept
    BY <1>10 DEF StartSweep, rowVars
  <1>11. ASSUME NEW w \in Workers, NEW j \in Jobs, SweepJob(w, j)
        PROVE  StampKept
    BY <1>11 DEF SweepJob, rowVars
  <1>12. ASSUME NEW w \in Workers, EndSweep(w)
        PROVE  StampKept
    BY <1>12 DEF EndSweep, rowVars
  <1>13. ASSUME NEW w \in Workers, Fetch(w)
        PROVE  StampKept
    BY <1>13 DEF Fetch, rowVars
  <1>14. ASSUME NEW w \in Workers, EndBatch(w)
        PROVE  StampKept
    BY <1>14 DEF EndBatch, rowVars
  <1>15. ASSUME NEW t \in Threads, NEW m \in MsgIds, Take(t, m)
        PROVE  StampKept
    BY <1>15 DEF Take, Verdict, rowVars
  <1>16. ASSUME NEW t \in Threads, Escalate(t)
        PROVE  StampKept
    BY <1>16 DEF Escalate, ThreadGoto, workerVars, SetStatus, Touch
  <1>17. ASSUME NEW t \in Threads, LoseClaim(t)
        PROVE  StampKept
    BY <1>17 DEF LoseClaim, ThreadGoto, rowVars, workerVars
  <1>18. ASSUME NEW t \in Threads, Finish(t)
        PROVE  StampKept
    BY <1>18 DEF Finish, ThreadGoto, workerVars, SetStatus, Touch
  <1>19. ASSUME NEW t \in Threads, Fail(t)
        PROVE  StampKept
    BY <1>19 DEF Fail, ThreadGoto, workerVars, SetStatusIf
  <1>20. ASSUME NEW t \in Threads, RecordFailure(t)
        PROVE  StampKept
    BY <1>20 DEF RecordFailure, ThreadEnd, NoThread, workerVars, SetStatusIf
  <1>21. ASSUME NEW t \in Threads, Ack(t)
        PROVE  StampKept
    BY <1>21 DEF Ack, ThreadEnd, NoThread, rowVars, workerVars
  <1>22. ASSUME NEW t \in Threads, AckFailed(t)
        PROVE  StampKept
    BY <1>22 DEF AckFailed, Fault
  <1>23. ASSUME NEW t \in Threads, AckReplyLost(t)
        PROVE  StampKept
    BY <1>23 DEF AckReplyLost, Fault
  <1>24. ASSUME NEW t \in Threads, DbError(t)
        PROVE  StampKept
    BY <1>24 DEF DbError, Fault
  <1>25. ASSUME NEW t \in Threads, RecordFails(t)
        PROVE  StampKept
    BY <1>25 DEF RecordFails, ThreadEnd, NoThread, rowVars, workerVars
  <1>26. ASSUME NEW a \in Apis, AbortRequest(a)
        PROVE  StampKept
    BY <1>26 DEF AbortRequest, rowVars, workerVars
  <1>27. ASSUME NEW w \in Workers, CrashWorker(w)
        PROVE  StampKept
    BY <1>27 DEF CrashWorker, NoThread, rowVars
  <1>28. CASE Tick
    BY <1>28 DEF Tick, workerVars
  <1>29. CASE UNCHANGED vars
    BY <1>29 DEF vars
  <1> HIDE DEF RefInv, TypeOK, StampKept
  <1> QED
    BY <1>1, <1>2, <1>3, <1>4, <1>5, <1>6, <1>7, <1>8, <1>9, <1>10, <1>11, <1>12, <1>13, <1>14,
       <1>15, <1>16, <1>17, <1>18, <1>19, <1>20, <1>21, <1>22, <1>23, <1>24, <1>25, <1>26, <1>27, <1>28,
       <1>29
       DEF Next, PublishStep, PublishFault, WorkerStep, ThreadStep, ThreadFault

LEMMA StampNext ==
  ASSUME RefInv, MsgInv, HoldInv, StampInv, Faults \subseteq {"xadd_fail"}, [Next]_vars
  PROVE  StampInv'
  <1>1. CASE StampKept
    <2> SUFFICES ASSUME NEW t \in Threads, th'[t].pc \in {"run", "record"}
                 PROVE  stamp'[th'[t].job] \in {t, None}
      BY DEF StampInv
    <2>1. th[t].pc \in {"run", "record"} /\ th'[t].job = th[t].job
      BY <1>1 DEF StampKept
    <2>2. th[t].job \in Jobs
      BY <2>1 DEF RefInv, RowsExist, Known
    <2> QED
      BY <1>1, <2>1, <2>2 DEF StampKept, StampInv
  <1>2. ASSUME NEW t \in Threads, Claim(t)
        PROVE  StampInv'
    <2>1. PICK j \in Jobs : j = th[t].job
      BY <1>2 DEF Claim, RefInv, RowsExist, Known
    <2>2. /\ stamp' = [stamp EXCEPT ![j] = t] /\ th[t].pc = "claim"
          /\ \A u \in Threads \ {t} : th'[u] = th[u]
          /\ th'[t].job = j
      BY <1>2, <2>1 DEF Claim, ThreadGoto, RefInv, TypeOK
    <2>3. stamp'[j] = t /\ \A i \in Jobs \ {j} : stamp'[i] = stamp[i]
      BY <2>2 DEF RefInv, TypeOK
    <2>4. ASSUME NEW u \in Threads \ {t}, th'[u].pc \in {"run", "record"}
          PROVE  stamp'[th'[u].job] \in {u, None}
      <3>1. th[u].pc \in {"run", "record"} /\ th'[u].job = th[u].job /\ th[u].job \in Jobs
        BY <2>2, <2>4 DEF RefInv, RowsExist, Known
      <3>2. th[u].job # j
        BY <2>1, <2>2, <3>1, Alone DEF Busy
      <3> QED
        BY <2>3, <3>1, <3>2 DEF StampInv
    <2> QED
      BY <2>2, <2>3, <2>4 DEF StampInv
  <1> QED
    BY <1>1, <1>2, StampStep

\* A failing thread loses to whoever has re-claimed the row: under entry pacing,
\* with no error but refused XADDs, no failure takes a row from a newer claim,
\* wherever processes die.  Any other fault breaks it, for the except branch of
\* _handle_message does not compare the stamp that the release compares.
THEOREM FailuresYield ==
  ASSUME Faults \subseteq {"xadd_fail"}, Pacing = "entry"
  PROVE  Spec => FailureLosesToReclaim
  <1>0. OnceOnly
    BY DEF OnceOnly
  <1>1. Init => StampInv
    BY DEF Init, StampInv, NoThread
  <1>2. RefInv /\ MsgInv /\ [Next]_vars => MsgInv'
    BY <1>0, MsgNext
  <1>3. RefInv /\ Dense /\ HoldInv /\ [Next]_vars => HoldInv'
    BY <1>0, HoldNext
  <1>4. RefInv /\ MsgInv /\ HoldInv /\ StampInv /\ [Next]_vars => StampInv'
    BY StampNext
  <1>5. RefInv /\ StampInv =>
          \A t \in Threads, j \in Jobs :
            (Fail(t) \/ RecordFailure(t)) /\ status[j] = "processing" /\ stamp[j] \in Threads \ {t}
              => status'[j] = "processing"
    <2> SUFFICES ASSUME RefInv, StampInv, NEW t \in Threads, NEW j \in Jobs,
                        Fail(t) \/ RecordFailure(t), status[j] = "processing",
                        stamp[j] \in Threads \ {t}
                 PROVE  status'[j] = "processing"
      OBVIOUS
    <2>1. th[t].pc \in {"run", "record"}
      BY DEF Fail, RecordFailure
    <2>2. th[t].job \in Jobs /\ stamp[th[t].job] \in {t, None}
      BY <2>1 DEF StampInv, RefInv, RowsExist, Known
    <2>3. th[t].job # j
      BY <2>2, ConstantsAssumption
    <2> QED
      BY <2>2, <2>3 DEF Fail, RecordFailure, SetStatusIf, RefInv, TypeOK
  <1> QED
    BY <1>1, <1>2, <1>3, <1>4, <1>5, RefInit, RefNext, MsgInit, HoldInit, DenseNext, PTL
       DEF Spec, FailureLosesToReclaim

-----------------------------------------------------------------------------
(***************************************************************************)
(* The environment of pipeline_safe, for every number of jobs, processes,  *)
(* threads, entries and deaths: the only error is an XADD that is refused, *)
(* entries are dealt with inside the window, and a process dies neither    *)
(* between its claim of a row and the end of the publish nor between the   *)
(* claim of a job and what is recorded of it.  Each clause is needed: the  *)
(* violating configurations drop them one by one.                          *)
(***************************************************************************)
Kind ==
  /\ Faults \subseteq {"xadd_fail"}
  /\ CrashPoints \cap {"xadd", "release", "run", "record"} = {}
  /\ Pacing = "entry"

\* A thread is on its way to XACK if and only if the job is settled, and what it
\* read of the attempts before the claim is still true.
ThreadOK(t) ==
  Busy(t) =>
    /\ th[t].pc = "ack" <=> status[th[t].job] \in Terminal
    /\ th[t].pc = "claim" => attempts[th[t].job] < MaxAttempts
    /\ th[t].pc = "escalate" => attempts[th[t].job] = MaxAttempts
    /\ entry[th[t].msg].state = "pending"

\* An unsettled job is in somebody's hands or has an entry that is still to be
\* acknowledged; PROCESSING means a thread; a result means DONE.
JobOK(j) ==
  /\ attempts[j] <= MaxAttempts
  /\ \A p \in Publishers : Holding(p, j) => status[j] = "queued"
  /\ \A m \in Msgs(j) : entry[m].state = "acked" => status[j] \in Terminal
  /\ status[j] = "processing" =>
       \E t \in Threads : th[t].job = j /\ th[t].pc \in {"run", "record"}
  /\ status[j] \in {"queued", "processing"} =>
       Msgs(j) # {} \/ \E p \in Publishers : Holding(p, j)
  /\ j \in result => status[j] = "done"

BatchOK(w) == \A m \in batch[w] : entry[m].state = "pending"

KindInv ==
  /\ \A t \in Threads : ThreadOK(t)
  /\ \A j \in Jobs : JobOK(j)
  /\ \A w \in Workers : BatchOK(w)

Base == RefInv /\ MsgInv /\ Dense /\ HoldInv

\* The job of a busy thread has its entry in that thread's hand, and nobody
\* else, thread or publisher, has anything to do with it.
LEMMA Exclusive ==
  ASSUME Base, NEW t \in Threads, Busy(t)
  PROVE  /\ th[t].job \in Jobs /\ status[th[t].job] # "absent"
         /\ Msgs(th[t].job) = {th[t].msg}
         /\ \A p \in Publishers : ~Holding(p, th[t].job)
         /\ \A u \in Threads \ {t} : Busy(u) => th[u].job # th[t].job /\ th[u].msg # th[t].msg
         /\ \A w \in Workers : th[t].msg \notin batch[w]
  <1>1. th[t].job \in Jobs /\ status[th[t].job] # "absent"
    BY DEF Base, RefInv, RowsExist, Known, Busy
  <1>2. th[t].msg \in Msgs(th[t].job)
    BY DEF Base, RefInv, HeldSent, HoldInv, Busy, Msgs
  <1>3. Msgs(th[t].job) = {th[t].msg}
    BY <1>1, <1>2 DEF Base, MsgInv
  <1>4. \A p \in Publishers : ~Holding(p, th[t].job)
    BY <1>1, <1>2 DEF Base, MsgInv
  <1>5. \A u \in Threads \ {t} : Busy(u) => th[u].job # th[t].job
    BY Alone DEF Base
  <1>6. \A u \in Threads \ {t} : Busy(u) => th[u].msg # th[t].msg
    BY DEF Base, HoldInv
  <1>7. \A w \in Workers : th[t].msg \notin batch[w]
    BY DEF Base, HoldInv
  <1> QED
    BY <1>1, <1>3, <1>4, <1>5, <1>6, <1>7

\* A thread's own step disturbs its job and itself only.
LEMMA ThreadMoves ==
  ASSUME Base, KindInv, NEW t \in Threads, NEW j \in Jobs, Busy(t), j = th[t].job,
         entry' = entry, pub' = pub, batch' = batch,
         \A u \in Threads \ {t} : th'[u] = th[u],
         \A k \in Jobs \ {j} : /\ status'[k] = status[k] /\ attempts'[k] = attempts[k]
                               /\ k \in result' => k \in result,
         ThreadOK(t)',
         attempts'[j] <= MaxAttempts,
         status'[j] = "processing" => th'[t].job = j /\ th'[t].pc \in {"run", "record"},
         j \in result' => status'[j] = "done"
  PROVE  KindInv'
  <1>1. \A k \in Jobs : Msgs(k)' = Msgs(k) /\ \A p \in Publishers : Holding(p, k)' = Holding(p, k)
    BY DEF Msgs, Sent, Holding
  <1>2. \A u \in Threads : ThreadOK(u)'
    <2> SUFFICES ASSUME NEW u \in Threads, u # t, Busy(u)' PROVE ThreadOK(u)'
      BY DEF ThreadOK
    <2>1. Busy(u) /\ th'[u] = th[u]
      BY DEF Busy
    <2>2. th[u].job \in Jobs \ {j}
      BY <2>1, Exclusive
    <2>3. status'[th[u].job] = status[th[u].job] /\ attempts'[th[u].job] = attempts[th[u].job]
      BY <2>2
    <2>4. ThreadOK(u)
      BY DEF KindInv
    <2> QED
      BY <2>1, <2>3, <2>4 DEF ThreadOK
  <1>3. ASSUME NEW k \in Jobs \ {j} PROVE JobOK(k)'
    <2>1. JobOK(k)
      BY DEF KindInv
    <2>2. \A u \in Threads : th[u].job = k => th'[u] = th[u]
      OBVIOUS
    <2> QED
      BY <1>1, <2>1, <2>2 DEF JobOK
  <1>4. JobOK(j)'
    <2>1. /\ Msgs(j) = {th[t].msg}
          /\ \A p \in Publishers : ~Holding(p, j)
          /\ entry[th[t].msg].state = "pending"
      BY Exclusive DEF KindInv, ThreadOK
    <2> QED
      BY <1>1, <2>1 DEF JobOK
  <1>5. \A w \in Workers : BatchOK(w)'
    BY DEF KindInv, BatchOK
  <1> QED
    BY <1>2, <1>3, <1>4, <1>5 DEF KindInv

\* A step that writes no row and appends nothing, gives no publisher a claim and
\* takes none away, and at most ends threads that have nothing on record.
LEMMA KindQuiet ==
  ASSUME Base, KindInv, status' = status, attempts' = attempts, result' = result,
         \A m \in MsgIds : entry'[m].job = entry[m].job /\ entry'[m].state = entry[m].state,
         \A p \in Publishers, j \in Jobs : Holding(p, j)' <=> Holding(p, j),
         \A w \in Workers : batch'[w] \subseteq batch[w],
         \A t \in Threads : \/ th'[t] = th[t]
                            \/ ~Busy(t)' /\ th[t].pc \notin {"run", "record"}
  PROVE  KindInv'
  <1>1. \A j \in Jobs : Msgs(j)' = Msgs(j) /\ Msgs(j) \subseteq MsgIds
    BY DEF Msgs, Sent
  <1>2. \A t \in Threads : ThreadOK(t)'
    <2> SUFFICES ASSUME NEW t \in Threads, Busy(t)' PROVE ThreadOK(t)'
      BY DEF ThreadOK
    <2>1. th'[t] = th[t] /\ Busy(t)
      BY DEF Busy
    <2>2. th[t].msg \in MsgIds
      BY <2>1 DEF Base, RefInv, HeldSent, Sent, Busy
    <2>3. ThreadOK(t)
      BY DEF KindInv
    <2> QED
      BY <2>1, <2>2, <2>3 DEF ThreadOK
  <1>3. \A j \in Jobs : JobOK(j)'
    <2> SUFFICES ASSUME NEW j \in Jobs PROVE JobOK(j)'
      OBVIOUS
    <2>1. JobOK(j)
      BY DEF KindInv
    <2>2. \A t \in Threads : th[t].pc \in {"run", "record"} => th'[t] = th[t]
      OBVIOUS
    <2> QED
      BY <1>1, <2>1, <2>2 DEF JobOK
  <1>4. \A w \in Workers : BatchOK(w)'
    BY DEF KindInv, BatchOK, Base, RefInv, TypeOK
  <1> QED
    BY <1>2, <1>3, <1>4 DEF KindInv

\* A publisher's step on a job that has no entry yet.
LEMMA PubMoves ==
  ASSUME Base, KindInv, NEW j \in Jobs, Msgs(j) = {},
         th' = th, batch' = batch, attempts' = attempts, result' = result,
         \A m \in Sent : entry'[m] = entry[m],
         \A k \in Jobs \ {j} : /\ status'[k] = status[k] /\ Msgs(k)' = Msgs(k)
                               /\ \A p \in Publishers : Holding(p, k)' <=> Holding(p, k),
         JobOK(j)'
  PROVE  KindInv'
  <1>1. \A t \in Threads : ThreadOK(t)'
    <2> SUFFICES ASSUME NEW t \in Threads, Busy(t) PROVE ThreadOK(t)'
      BY DEF ThreadOK, Busy
    <2>1. th[t].job \in Jobs /\ Msgs(th[t].job) = {th[t].msg}
      BY Exclusive
    <2>2. th[t].job # j /\ th[t].msg \in Sent
      BY <2>1 DEF Msgs
    <2>3. ThreadOK(t)
      BY DEF KindInv
    <2> QED
      BY <2>1, <2>2, <2>3 DEF ThreadOK
  <1>2. ASSUME NEW k \in Jobs \ {j} PROVE JobOK(k)'
    <2>1. JobOK(k)
      BY DEF KindInv
    <2>2. \A m \in Msgs(k) : entry'[m] = entry[m]
      BY DEF Msgs
    <2> QED
      BY <2>1, <2>2 DEF JobOK
  <1>3. \A w \in Workers : BatchOK(w)'
    BY DEF KindInv, BatchOK, Base, RefInv, HeldSent
  <1> QED
    BY <1>1, <1>2, <1>3 DEF KindInv

LEMMA KindNext == ASSUME Kind, Base, KindInv, [Next]_vars PROVE KindInv'
  <1>1. ASSUME NEW a \in Apis, NEW j \in Jobs, Ingest(a, j)
        PROVE  KindInv'
    <2>1. CASE status[j] = "absent"
      <3>1. Msgs(j) = {} /\ j \notin result /\ \A p \in Publishers : ~Holding(p, j)
        BY <2>1 DEF Base, MsgInv, KindInv, JobOK
      <3>2. /\ \A k \in Jobs, p \in Publishers : Holding(p, k)' <=> Holding(p, k)
            /\ status' = [status EXCEPT ![j] = "pending"]
        BY <1>1, <2>1 DEF Ingest, Holding, Base, RefInv, TypeOK
      <3>3. \A k \in Jobs : Msgs(k)' = Msgs(k)
        BY <1>1 DEF Ingest, Msgs, Sent
      <3>4. status'[j] = "pending" /\ \A k \in Jobs \ {j} : status'[k] = status[k]
        BY <3>2 DEF Base, RefInv, TypeOK
      <3>5. JobOK(j)'
        BY <1>1, <3>1, <3>2, <3>3, <3>4 DEF KindInv, JobOK, Ingest
      <3> QED
        BY <1>1, <3>1, <3>2, <3>3, <3>4, <3>5, PubMoves DEF Ingest, workerVars
    <2>2. CASE status[j] # "absent"
      <3>1. status' = status /\ \A k \in Jobs, p \in Publishers : Holding(p, k)' <=> Holding(p, k)
        BY <1>1, <2>2 DEF Ingest, Holding, Base, RefInv, TypeOK
      <3> QED
        BY <1>1, <3>1, KindQuiet DEF Ingest, workerVars
    <2> QED
      BY <2>1, <2>2
  <1>2. ASSUME NEW p \in Publishers, ClaimPublish(p)
        PROVE  KindInv'
    <2>0. PICK j \in Jobs : j = pub[p].job
      BY <1>2 DEF ClaimPublish, Base, RefInv, RowsExist, Known
    <2>1. CASE status[j] = "pending"
      <3>1. Msgs(j) = {} /\ j \notin result /\ \A q \in Publishers : ~Holding(q, j)
        BY <2>1 DEF Base, MsgInv, KindInv, JobOK
      <3>2. /\ Holding(p, j)'
            /\ \A k \in Jobs \ {j}, q \in Publishers : Holding(q, k)' <=> Holding(q, k)
        BY <1>2, <2>0, <2>1 DEF ClaimPublish, Holding, Base, RefInv, TypeOK
      <3>3. status'[j] = "queued" /\ \A k \in Jobs \ {j} : status'[k] = status[k]
        BY <1>2, <2>0, <2>1 DEF ClaimPublish, SetStatusIf, Base, RefInv, TypeOK
      <3>4. \A k \in Jobs : Msgs(k)' = Msgs(k)
        BY <1>2 DEF ClaimPublish, Msgs, Sent
      <3>5. JobOK(j)'
        BY <1>2, <3>1, <3>2, <3>3, <3>4 DEF KindInv, JobOK, ClaimPublish
      <3> QED
        BY <1>2, <3>1, <3>2, <3>3, <3>4, <3>5, PubMoves DEF ClaimPublish, workerVars
    <2>2. CASE status[j] # "pending"
      <3>1. status' = status /\ \A k \in Jobs, q \in Publishers : Holding(q, k)' <=> Holding(q, k)
        BY <1>2, <2>0, <2>2 DEF ClaimPublish, SetStatusIf, Holding, NoPub, Base, RefInv, TypeOK
      <3> QED
        BY <1>2, <3>1, KindQuiet DEF ClaimPublish, workerVars
    <2> QED
      BY <2>1, <2>2
  <1>3. ASSUME NEW p \in Publishers, Publish(p)
        PROVE  KindInv'
    <2>0. PICK j \in Jobs : j = pub[p].job
      BY <1>3 DEF Publish, Base, RefInv, RowsExist, Known
    <2>1. XAdd(j) /\ Holding(p, j)
      BY <1>3, <2>0 DEF Publish, Holding
    <2>2. Msgs(j) = {} /\ status[j] = "queued"
      BY <2>1 DEF Base, MsgInv, KindInv, JobOK
    <2>3. PICK m \in MsgIds : /\ Sent' = Sent \cup {m}
                              /\ entry'[m] = [job |-> j, state |-> "new", idle |-> 0]
      BY <2>1, XAddFresh DEF Base
    <2>4. \A k \in Sent : entry'[k] = entry[k]
      BY <2>1, XAddFresh DEF Base
    <2>5. Msgs(j)' = {m} /\ \A k \in Jobs \ {j} : Msgs(k)' = Msgs(k)
      BY <2>2, <2>3, <2>4 DEF Msgs
    <2>6. status' = status /\ attempts' = attempts /\ result' = result /\ th' = th /\ batch' = batch
      BY <1>3 DEF Publish, rowVars, workerVars
    <2>7. \A q \in Publishers, k \in Jobs : Holding(q, k)' <=> Holding(q, k) /\ q # p
      BY <1>3 DEF Publish, PubGoto, Holding, Base, RefInv, TypeOK
    <2>8. \A k \in Jobs \ {j}, q \in Publishers : Holding(q, k)' <=> Holding(q, k)
      BY <2>0, <2>7 DEF Holding
    <2>9. JobOK(j)'
      BY <2>2, <2>3, <2>5, <2>6, <2>7 DEF KindInv, JobOK
    <2> QED
      BY <2>2, <2>4, <2>5, <2>6, <2>8, <2>9, PubMoves
  <1>4. ASSUME NEW p \in Publishers, PublishRetried(p)
        PROVE  KindInv'
    BY <1>4 DEF PublishRetried, Fault, Kind
  <1>5. ASSUME NEW p \in Publishers, PublishFailed(p)
        PROVE  KindInv'
    <2>1. \A q \in Publishers, k \in Jobs : Holding(q, k)' <=> Holding(q, k)
      BY <1>5 DEF PublishFailed, PubGoto, Holding, Base, RefInv, TypeOK
    <2> QED
      BY <1>5, <2>1, KindQuiet DEF PublishFailed, Fault, Spend, PubGoto, rowVars, workerVars
  <1>6. ASSUME NEW p \in Publishers, PublishReplyLost(p)
        PROVE  KindInv'
    BY <1>6 DEF PublishReplyLost, Fault, Kind
  <1>7. ASSUME NEW p \in Publishers, ConfirmPublish(p)
        PROVE  KindInv'
    <2>1. \A q \in Publishers, k \in Jobs : Holding(q, k)' <=> Holding(q, k)
      BY <1>7 DEF ConfirmPublish, PubEnd, NoPub, Holding, Base, RefInv, TypeOK
    <2> QED
      BY <1>7, <2>1, KindQuiet DEF ConfirmPublish, Touch, PubEnd, NoPub, workerVars
  <1>8. ASSUME NEW p \in Publishers, ReleasePublish(p)
        PROVE  KindInv'
    <2>0. PICK j \in Jobs : j = pub[p].job
      BY <1>8 DEF ReleasePublish, Base, RefInv, RowsExist, Known
    <2>1. Holding(p, j)
      BY <1>8, <2>0 DEF ReleasePublish, Holding
    <2>2. Msgs(j) = {} /\ status[j] = "queued" /\ j \notin result
      BY <2>1 DEF Base, MsgInv, KindInv, JobOK
    <2>3. status'[j] = "pending" /\ \A k \in Jobs \ {j} : status'[k] = status[k]
      BY <1>8, <2>0 DEF ReleasePublish, SetStatus, Base, RefInv, TypeOK
    <2>4. \A k \in Jobs : Msgs(k)' = Msgs(k)
      BY <1>8 DEF ReleasePublish, Msgs, Sent
    <2>5. \A q \in Publishers, k \in Jobs : Holding(q, k)' <=> Holding(q, k) /\ q # p
      BY <1>8, ConstantsAssumption DEF ReleasePublish, PubEnd, NoPub, Holding, Base, RefInv, TypeOK
    <2>6. \A q \in Publishers : ~Holding(q, j)'
      BY <2>1, <2>5 DEF Base, MsgInv
    <2>7. \A k \in Jobs \ {j}, q \in Publishers : Holding(q, k)' <=> Holding(q, k)
      BY <2>0, <2>5 DEF Holding
    <2>8. JobOK(j)'
      BY <1>8, <2>2, <2>3, <2>4, <2>6 DEF KindInv, JobOK, ReleasePublish
    <2> QED
      BY <1>8, <2>2, <2>3, <2>4, <2>7, <2>8, PubMoves DEF ReleasePublish
  <1>9. ASSUME NEW w \in Workers, StartWorker(w)
        PROVE  KindInv'
    BY <1>9, KindQuiet DEF StartWorker, Pending, rowVars, Holding
  <1>10. ASSUME NEW w \in Workers, StartSweep(w)
        PROVE  KindInv'
    BY <1>10, KindQuiet DEF StartSweep, Pending, rowVars, Holding
  <1>11. ASSUME NEW w \in Workers, NEW j \in Jobs, SweepJob(w, j)
        PROVE  KindInv'
    <2>1. \A q \in Publishers, k \in Jobs : Holding(q, k)' <=> Holding(q, k)
      BY <1>11 DEF SweepJob, Holding, Base, RefInv, TypeOK
    <2> QED
      BY <1>11, <2>1, KindQuiet DEF SweepJob, rowVars
  <1>12. ASSUME NEW w \in Workers, EndSweep(w)
        PROVE  KindInv'
    BY <1>12, KindQuiet DEF EndSweep, rowVars, Holding
  <1>13. ASSUME NEW w \in Workers, Fetch(w)
        PROVE  KindInv'
    <2> DEFINE got == Oldest(Reclaimable) \cup Oldest(New)
    <2>1. \A m \in got : m \in MsgIds /\ entry[m].state \in {"new", "pending"}
      BY DEF Oldest, Reclaimable, New, Delivered
    <2>2. \A m \in MsgIds : entry'[m] = IF m \in got THEN Marked(entry[m], "pending", 0)
                                                     ELSE entry[m]
      BY <1>13 DEF Fetch
    <2>3. \A v \in Workers : batch'[v] = IF v = w THEN got ELSE batch[v]
      BY <1>13 DEF Fetch, Base, RefInv, TypeOK
    <2>4. /\ status' = status /\ attempts' = attempts /\ result' = result
          /\ pub' = pub /\ th' = th
      BY <1>13 DEF Fetch, rowVars
    <2> HIDE DEF got
    <2>5. \A m \in MsgIds : /\ entry'[m].job = entry[m].job
                            /\ entry'[m].state = "unsent" <=> entry[m].state = "unsent"
                            /\ entry'[m].state = "acked" <=> entry[m].state = "acked"
                            /\ entry[m].state = "pending" \/ m \in got => entry'[m].state = "pending"
      <3> SUFFICES ASSUME NEW m \in MsgIds
                   PROVE  /\ entry'[m].job = entry[m].job
                          /\ entry'[m].state = "unsent" <=> entry[m].state = "unsent"
                          /\ entry'[m].state = "acked" <=> entry[m].state = "acked"
                          /\ entry[m].state = "pending" \/ m \in got => entry'[m].state = "pending"
        OBVIOUS
      <3>1. CASE m \in got
        <4>1. entry'[m] = [job |-> entry[m].job, state |-> "pending", idle |-> 0]
          BY <2>2, <3>1
        <4> QED
          BY <2>1, <3>1, <4>1
      <3>2. CASE m \notin got
        BY <2>2, <3>2
      <3> QED
        BY <3>1, <3>2
    <2>6. \A j \in Jobs : Msgs(j)' = Msgs(j) /\ Msgs(j) \subseteq MsgIds
      BY <2>5 DEF Msgs, Sent
    <2>7. \A t \in Threads : Busy(t) => th[t].msg \in MsgIds
      BY DEF Base, RefInv, HeldSent, Sent, Busy
    <2>8. \A t \in Threads : ThreadOK(t)'
      BY <2>4, <2>5, <2>7 DEF KindInv, ThreadOK, Busy
    <2>9. \A j \in Jobs : JobOK(j)'
      BY <2>4, <2>5, <2>6 DEF KindInv, JobOK, Holding
    <2>10. \A v \in Workers : BatchOK(v)'
      BY <2>1, <2>3, <2>5 DEF KindInv, BatchOK, Base, RefInv, TypeOK
    <2> QED
      BY <2>8, <2>9, <2>10 DEF KindInv
  <1>14. ASSUME NEW w \in Workers, EndBatch(w)
        PROVE  KindInv'
    BY <1>14, KindQuiet DEF EndBatch, rowVars, Holding
  <1>15. ASSUME NEW t \in Threads, NEW m \in MsgIds, Take(t, m)
        PROVE  KindInv'
    <2>1. WorkerOf[t] \in Workers /\ m \in batch[WorkerOf[t]] /\ ~Busy(t)
      BY <1>15, ConstantsAssumption DEF Take, Busy
    <2>2. PICK j \in Jobs : j = entry[m].job
      BY <2>1 DEF Base, RefInv, HeldSent, RowsExist, Known
    <2>3. entry[m].state = "pending"
      BY <2>1 DEF KindInv, BatchOK
    <2>4. /\ th'[t] = [pc |-> Verdict(j), msg |-> m, job |-> j]
          /\ \A u \in Threads \ {t} : th'[u] = th[u]
          /\ \A v \in Workers : batch'[v] \subseteq batch[v]
          /\ status' = status /\ attempts' = attempts /\ result' = result
          /\ entry' = entry /\ pub' = pub
      BY <1>15, <2>2 DEF Take, rowVars, Base, RefInv, TypeOK
    <2>5. ThreadOK(t)'
      <3>1. attempts[j] \in Nat /\ attempts[j] <= MaxAttempts /\ MaxAttempts \in Nat
        BY ConstantsAssumption DEF KindInv, JobOK, Base, RefInv, TypeOK
      <3>2. CASE status[j] \in Terminal
        BY <2>3, <2>4, <3>2 DEF ThreadOK, Verdict
      <3>3. CASE status[j] \notin Terminal
        BY <2>3, <2>4, <3>1, <3>3 DEF ThreadOK, Verdict
      <3> QED
        BY <3>2, <3>3
    <2>6. \A u \in Threads : ThreadOK(u)'
      BY <2>4, <2>5 DEF KindInv, ThreadOK, Busy
    <2>7. \A k \in Jobs : JobOK(k)'
      <3> SUFFICES ASSUME NEW k \in Jobs PROVE JobOK(k)'
        OBVIOUS
      <3>1. JobOK(k) /\ Msgs(k)' = Msgs(k) /\ \A p \in Publishers : Holding(p, k)' <=> Holding(p, k)
        BY <2>4 DEF KindInv, Msgs, Sent, Holding
      <3>2. \A u \in Threads : th[u].pc \in {"run", "record"} => th'[u] = th[u]
        BY <2>1, <2>4 DEF Busy
      <3> QED
        BY <2>4, <3>1, <3>2 DEF JobOK
    <2>8. \A v \in Workers : BatchOK(v)'
      BY <2>4 DEF KindInv, BatchOK
    <2> QED
      BY <2>6, <2>7, <2>8 DEF KindInv
  <1>16. ASSUME NEW t \in Threads, Escalate(t)
        PROVE  KindInv'
    <2>1. Busy(t)
      BY <1>16 DEF Escalate, Busy
    <2>2. PICK j \in Jobs : j = th[t].job
      BY <2>1, Exclusive
    <2>3. ThreadOK(t) /\ JobOK(j) /\ attempts[j] \in Nat /\ MaxAttempts \in Nat
      BY ConstantsAssumption DEF KindInv, Base, RefInv, TypeOK
    <2>4. /\ status'[j] = "dead"
          /\ th'[t] = [pc |-> "ack", msg |-> th[t].msg, job |-> j]
          /\ attempts' = attempts
          /\ result' = result
          /\ \A k \in Jobs \ {j} : status'[k] = status[k] /\ attempts'[k] = attempts[k]
      BY <1>16, <2>2 DEF Escalate, SetStatus, Touch, ThreadGoto, workerVars, Base, RefInv, TypeOK
    <2>5. entry' = entry /\ pub' = pub /\ batch' = batch /\ \A u \in Threads \ {t} : th'[u] = th[u]
      BY <1>16 DEF Escalate, SetStatus, Touch, ThreadGoto, workerVars, Base, RefInv, TypeOK
    <2>6. ThreadOK(t)'
      BY <1>16, <2>1, <2>2, <2>3, <2>4, <2>5 DEF ThreadOK, Busy, Escalate
    <2> QED
      BY <1>16, <2>1, <2>2, <2>3, <2>4, <2>5, <2>6, ThreadMoves DEF ThreadOK, JobOK, Escalate
  <1>17. ASSUME NEW t \in Threads, Claim(t)
        PROVE  KindInv'
    <2>1. Busy(t)
      BY <1>17 DEF Claim, Busy
    <2>2. PICK j \in Jobs : j = th[t].job
      BY <2>1, Exclusive
    <2>3. ThreadOK(t) /\ JobOK(j) /\ attempts[j] \in Nat /\ MaxAttempts \in Nat
      BY ConstantsAssumption DEF KindInv, Base, RefInv, TypeOK
    <2>4. /\ status'[j] = "processing"
          /\ th'[t] = [pc |-> "run", msg |-> th[t].msg, job |-> j]
          /\ attempts'[j] = attempts[j] + 1
          /\ result' = result
          /\ \A k \in Jobs \ {j} : status'[k] = status[k] /\ attempts'[k] = attempts[k]
      BY <1>17, <2>2 DEF Claim, ThreadGoto, workerVars, Base, RefInv, TypeOK
    <2>5. entry' = entry /\ pub' = pub /\ batch' = batch /\ \A u \in Threads \ {t} : th'[u] = th[u]
      BY <1>17 DEF Claim, ThreadGoto, workerVars, Base, RefInv, TypeOK
    <2>6. ThreadOK(t)'
      BY <1>17, <2>1, <2>2, <2>3, <2>4, <2>5 DEF ThreadOK, Busy, Claim
    <2> QED
      BY <1>17, <2>1, <2>2, <2>3, <2>4, <2>5, <2>6, ThreadMoves DEF ThreadOK, JobOK, Claim
  <1>18. ASSUME NEW t \in Threads, LoseClaim(t)
        PROVE  KindInv'
    <2>1. Busy(t) /\ th[t].pc = "claim" /\ ~Claimable(th[t].job)
      BY <1>18 DEF LoseClaim, Busy
    <2>2. PICK j \in Jobs : j = th[t].job /\ status[j] # "absent"
      BY <2>1, Exclusive
    <2>3. status[j] = "processing"
      BY <2>1, <2>2 DEF Claimable, KindInv, ThreadOK, Base, RefInv, TypeOK
    <2>4. PICK u \in Threads : th[u].job = j /\ th[u].pc \in {"run", "record"}
      BY <2>3 DEF KindInv, JobOK
    <2>5. u # t /\ Busy(u)
      BY <2>1, <2>4 DEF Busy
    <2> QED
      BY <2>1, <2>2, <2>4, <2>5, Exclusive
  <1>19. ASSUME NEW t \in Threads, Finish(t)
        PROVE  KindInv'
    <2>1. Busy(t)
      BY <1>19 DEF Finish, Busy
    <2>2. PICK j \in Jobs : j = th[t].job
      BY <2>1, Exclusive
    <2>3. ThreadOK(t) /\ JobOK(j) /\ attempts[j] \in Nat /\ MaxAttempts \in Nat
      BY ConstantsAssumption DEF KindInv, Base, RefInv, TypeOK
    <2>4. /\ status'[j] = "done"
          /\ th'[t] = [pc |-> "ack", msg |-> th[t].msg, job |-> j]
          /\ attempts' = attempts
          /\ result' = result \cup {j}
          /\ \A k \in Jobs \ {j} : status'[k] = status[k] /\ attempts'[k] = attempts[k]
      BY <1>19, <2>2 DEF Finish, SetStatus, Touch, ThreadGoto, workerVars, Base, RefInv, TypeOK
    <2>5. entry' = entry /\ pub' = pub /\ batch' = batch /\ \A u \in Threads \ {t} : th'[u] = th[u]
      BY <1>19 DEF Finish, SetStatus, Touch, ThreadGoto, workerVars, Base, RefInv, TypeOK
    <2>6. ThreadOK(t)'
      BY <1>19, <2>1, <2>2, <2>3, <2>4, <2>5 DEF ThreadOK, Busy, Finish
    <2> QED
      BY <1>19, <2>1, <2>2, <2>3, <2>4, <2>5, <2>6, ThreadMoves DEF ThreadOK, JobOK, Finish
  <1>20. ASSUME NEW t \in Threads, Fail(t)
        PROVE  KindInv'
    <2>1. Busy(t)
      BY <1>20 DEF Fail, Busy
    <2>2. PICK j \in Jobs : j = th[t].job
      BY <2>1, Exclusive
    <2>3. ThreadOK(t) /\ JobOK(j) /\ attempts[j] \in Nat /\ MaxAttempts \in Nat
      BY ConstantsAssumption DEF KindInv, Base, RefInv, TypeOK
    <2>4. /\ status'[j] \in {status[j], "queued"}
          /\ th'[t] = [pc |-> "record", msg |-> th[t].msg, job |-> j]
          /\ attempts' = attempts
          /\ result' = result
          /\ \A k \in Jobs \ {j} : status'[k] = status[k] /\ attempts'[k] = attempts[k]
      BY <1>20, <2>2 DEF Fail, SetStatusIf, ThreadGoto, workerVars, Base, RefInv, TypeOK
    <2>5. entry' = entry /\ pub' = pub /\ batch' = batch /\ \A u \in Threads \ {t} : th'[u] = th[u]
      BY <1>20 DEF Fail, SetStatusIf, ThreadGoto, workerVars, Base, RefInv, TypeOK
    <2>6. ThreadOK(t)'
      BY <1>20, <2>1, <2>2, <2>3, <2>4, <2>5 DEF ThreadOK, Busy, Fail
    <2> QED
      BY <1>20, <2>1, <2>2, <2>3, <2>4, <2>5, <2>6, ThreadMoves DEF ThreadOK, JobOK, Fail
  <1>21. ASSUME NEW t \in Threads, RecordFailure(t)
        PROVE  KindInv'
    <2>1. Busy(t)
      BY <1>21 DEF RecordFailure, Busy
    <2>2. PICK j \in Jobs : j = th[t].job
      BY <2>1, Exclusive
    <2>3. ThreadOK(t) /\ JobOK(j) /\ attempts[j] \in Nat /\ MaxAttempts \in Nat
      BY ConstantsAssumption DEF KindInv, Base, RefInv, TypeOK
    <2>4. /\ status'[j] = "queued"
          /\ th'[t].pc = "idle"
          /\ attempts' = attempts
          /\ result' = result
          /\ \A k \in Jobs \ {j} : status'[k] = status[k] /\ attempts'[k] = attempts[k]
      BY <1>21, <2>2 DEF RecordFailure, SetStatusIf, ThreadEnd, NoThread, workerVars, Base, RefInv, TypeOK
    <2>5. entry' = entry /\ pub' = pub /\ batch' = batch /\ \A u \in Threads \ {t} : th'[u] = th[u]
      BY <1>21 DEF RecordFailure, SetStatusIf, ThreadEnd, NoThread, workerVars, Base, RefInv, TypeOK
    <2>6. ThreadOK(t)'
      BY <1>21, <2>1, <2>2, <2>3, <2>4, <2>5 DEF ThreadOK, Busy, RecordFailure
    <2> QED
      BY <1>21, <2>1, <2>2, <2>3, <2>4, <2>5, <2>6, ThreadMoves DEF ThreadOK, JobOK, RecordFailure
  <1>22. ASSUME NEW t \in Threads, Ack(t)
        PROVE  KindInv'
    <2>1. Busy(t) /\ th[t].pc = "ack"
      BY <1>22 DEF Ack, Busy
    <2>2. PICK j \in Jobs : j = th[t].job /\ Msgs(j) = {th[t].msg}
      BY <2>1, Exclusive
    <2>3. PICK m \in MsgIds : m = th[t].msg
      BY <2>2 DEF Msgs, Sent
    <2>4. status[j] \in Terminal
      BY <2>1, <2>2 DEF KindInv, ThreadOK
    <2>5. /\ entry'[m].job = entry[m].job /\ entry'[m].state = "acked"
          /\ \A k \in MsgIds \ {m} : entry'[k] = entry[k]
      BY <1>22, <2>3 DEF Ack, Acked, Base, RefInv, TypeOK
    <2>6. /\ \A u \in Threads \ {t} : th'[u] = th[u]
          /\ ~Busy(t)'
          /\ status' = status /\ attempts' = attempts /\ result' = result
          /\ pub' = pub /\ batch' = batch
      BY <1>22 DEF Ack, ThreadEnd, NoThread, Busy, rowVars, workerVars, Base, RefInv, TypeOK
    <2>7. \A k \in Jobs : Msgs(k)' = Msgs(k) /\ Msgs(k) \subseteq MsgIds
      <3>1. entry[m].state # "unsent"
        BY <2>2, <2>3 DEF Msgs, Sent
      <3> QED
        BY <2>5, <3>1 DEF Msgs, Sent
    <2>8. \A u \in Threads : ThreadOK(u)'
      <3> SUFFICES ASSUME NEW u \in Threads, Busy(u)' PROVE ThreadOK(u)'
        BY DEF ThreadOK
      <3>1. u # t /\ Busy(u) /\ th'[u] = th[u]
        BY <2>6 DEF Busy
      <3>2. th[u].msg \in MsgIds \ {m}
        BY <2>1, <2>3, <3>1, Exclusive DEF Base, RefInv, HeldSent, Sent, Busy
      <3>3. ThreadOK(u)
        BY DEF KindInv
      <3> QED
        BY <2>5, <2>6, <3>1, <3>2, <3>3 DEF ThreadOK
    <2>9. \A k \in Jobs : JobOK(k)'
      <3> SUFFICES ASSUME NEW k \in Jobs PROVE JobOK(k)'
        OBVIOUS
      <3>1. JobOK(k) /\ \A p \in Publishers : Holding(p, k)' <=> Holding(p, k)
        BY <2>6 DEF KindInv, Holding
      <3>2. \A u \in Threads : th[u].pc \in {"run", "record"} => th'[u] = th[u]
        BY <2>1, <2>6
      <3>3. \A n \in Msgs(k)' : entry'[n].state = "acked" => status[k] \in Terminal
        <4> SUFFICES ASSUME NEW n \in Msgs(k), entry'[n].state = "acked" PROVE status[k] \in Terminal
          BY <2>7
        <4>1. CASE n = m
          BY <2>2, <2>3, <2>4, <4>1 DEF Msgs
        <4>2. CASE n # m
          BY <2>5, <2>7, <3>1, <4>2 DEF JobOK
        <4> QED
          BY <4>1, <4>2
      <3> QED
        BY <2>6, <2>7, <3>1, <3>2, <3>3 DEF JobOK
    <2>10. \A w \in Workers : BatchOK(w)'
      BY <2>1, <2>3, <2>5, <2>6, Exclusive DEF KindInv, BatchOK, Base, RefInv, TypeOK
    <2> QED
      BY <2>8, <2>9, <2>10 DEF KindInv
  <1>23. ASSUME NEW t \in Threads, AckFailed(t)
        PROVE  KindInv'
    BY <1>23 DEF AckFailed, Fault, Kind
  <1>24. ASSUME NEW t \in Threads, AckReplyLost(t)
        PROVE  KindInv'
    BY <1>24 DEF AckReplyLost, Fault, Kind
  <1>25. ASSUME NEW t \in Threads, DbError(t)
        PROVE  KindInv'
    BY <1>25 DEF DbError, Fault, Kind
  <1>26. ASSUME NEW t \in Threads, RecordFails(t)
        PROVE  KindInv'
    BY <1>26 DEF RecordFails, Fault, Kind
  <1>27. ASSUME NEW a \in Apis, AbortRequest(a)
        PROVE  KindInv'
    <2>1. \A q \in Publishers, k \in Jobs : Holding(q, k)' <=> Holding(q, k)
      BY <1>27 DEF AbortRequest, PubEnd, NoPub, Holding, Base, RefInv, TypeOK, MayDie, Kind
    <2> QED
      BY <1>27, <2>1, KindQuiet DEF AbortRequest, Crash, Spend, PubEnd, NoPub, rowVars, workerVars
  <1>28. ASSUME NEW w \in Workers, CrashWorker(w)
        PROVE  KindInv'
    <2>1. pub[w].pc \notin {"xadd", "release"} /\
          \A t \in Threads : WorkerOf[t] = w => th[t].pc \notin {"run", "record"}
      BY <1>28 DEF CrashWorker, MayDie, ThreadsOf, Kind
    <2>2. \A p \in Publishers, k \in Jobs : Holding(p, k)' <=> Holding(p, k)
      BY <1>28, <2>1 DEF CrashWorker, PubEnd, NoPub, Holding, Base, RefInv, TypeOK
    <2>3. \A t \in Threads : th'[t] = th[t] \/ (~Busy(t)' /\ th[t].pc \notin {"run", "record"})
      BY <1>28, <2>1 DEF CrashWorker, NoThread, Busy
    <2>4. \A v \in Workers : batch'[v] \subseteq batch[v]
      BY <1>28 DEF CrashWorker, Base, RefInv, TypeOK
    <2> QED
      BY <1>28, <2>2, <2>3, <2>4, KindQuiet DEF CrashWorker, rowVars
  <1>29. CASE Tick
    <2>1. \A m \in MsgIds : entry'[m].job = entry[m].job /\ entry'[m].state = entry[m].state
      BY <1>29 DEF Tick, Aging, Delivered, Base, RefInv, TypeOK
    <2>2. pub' = pub /\ th' = th /\ batch' = batch /\ status' = status /\ attempts' = attempts
          /\ result' = result
      BY <1>29 DEF Tick, workerVars
    <2> QED
      BY <2>1, <2>2, KindQuiet DEF Holding
  <1>30. CASE UNCHANGED vars
    BY <1>30, KindQuiet DEF vars, Holding
  <1> QED
    BY <1>1, <1>2, <1>3, <1>4, <1>5, <1>6, <1>7, <1>8, <1>9, <1>10, <1>11, <1>12, <1>13, <1>14,
       <1>15, <1>16, <1>17, <1>18, <1>19, <1>20, <1>21, <1>22, <1>23, <1>24, <1>25, <1>26,
       <1>27, <1>28, <1>29, <1>30
       DEF Next, PublishStep, PublishFault, WorkerStep, ThreadStep, ThreadFault

LEMMA KindInit == Init => KindInv
  <1> SUFFICES ASSUME Init PROVE KindInv
    OBVIOUS
  <1>1. \A t \in Threads : ThreadOK(t)
    BY DEF Init, ThreadOK, Busy, NoThread
  <1>2. \A j \in Jobs : JobOK(j)
    BY ConstantsAssumption DEF Init, JobOK, Holding, NoPub, Msgs, Sent, Unsent
  <1>3. \A w \in Workers : BatchOK(w)
    BY DEF Init, BatchOK
  <1> QED
    BY <1>1, <1>2, <1>3 DEF KindInv

\* All of it together is an invariant.
LEMMA KindAlways == ASSUME Kind PROVE Spec => [](Base /\ KindInv)
  <1>1. OnceOnly /\ Pacing = "entry"
    BY DEF Kind, OnceOnly
  <1>2. RefInv /\ MsgInv /\ [Next]_vars => MsgInv'
    BY <1>1, MsgNext
  <1>3. RefInv /\ Dense /\ HoldInv /\ [Next]_vars => HoldInv'
    BY <1>1, HoldNext
  <1>4. Base /\ KindInv /\ [Next]_vars => KindInv'
    BY KindNext
  <1> QED
    BY <1>2, <1>3, <1>4, RefInit, RefNext, MsgInit, HoldInit, DenseNext, KindInit, PTL
       DEF Spec, Base

\* A message is never silently lost: every accepted job that is not settled has
\* an entry to come back to, or a publisher that will append one or put the row
\* back on the shelf.
THEOREM NoJobLost == ASSUME Kind PROVE Spec => []NoLostJob
  <1>1. Base /\ KindInv => NoLostJob
    <2> SUFFICES ASSUME Base, KindInv, NEW j \in Jobs, Stranded(j) PROVE FALSE
      BY DEF NoLostJob
    <2>1. JobOK(j) /\ status[j] \in {"queued", "processing"}
      BY DEF KindInv, Stranded
    <2>2. \A p \in Publishers : ~Holding(p, j)
      BY DEF Stranded, Holding
    <2>3. PICK m \in Msgs(j) : TRUE
      BY <2>1, <2>2 DEF JobOK
    <2>4. entry[m].state = "acked"
      BY <2>3 DEF Stranded, Msgs, Sent
    <2> QED
      BY <2>1, <2>3, <2>4 DEF JobOK
  <1> QED
    BY <1>1, KindAlways, PTL

\* Only the claim starts a handler.
LEMMA RunStarts ==
  ASSUME RefInv, [Next]_vars, NEW t \in Threads, ~Claim(t)
  PROVE  \A j \in Jobs : Running(t, j)' => Running(t, j)
  <1> DEFINE Goal == \A j \in Jobs : Running(t, j)' => Running(t, j)
  <1> SUFFICES Goal
    OBVIOUS
  <1> USE DEF Running, RefInv, TypeOK
  <1>1. ASSUME NEW u \in Threads, NEW m \in MsgIds, Take(u, m) PROVE Goal
    BY <1>1 DEF Take, Verdict
  <1>2. ASSUME NEW u \in Threads,
               \/ Escalate(u) \/ Claim(u) \/ LoseClaim(u) \/ Finish(u) \/ Fail(u)
               \/ AckFailed(u) \/ AckReplyLost(u) \/ DbError(u)
        PROVE  Goal
    <2>1. PICK pc \in {"ack", "run", "record"} : ThreadGoto(u, pc) /\ (pc = "run" => Claim(u))
      BY <1>2 DEF Escalate, Claim, LoseClaim, Finish, Fail, AckFailed, AckReplyLost, DbError
    <2>2. u = t => pc # "run"
      BY <2>1
    <2>3. \A v \in Threads : th'[v] = IF v = u THEN [pc |-> pc, msg |-> th[v].msg, job |-> th[v].job]
                                               ELSE th[v]
      BY <2>1 DEF ThreadGoto
    <2>4. CASE u = t
      <3>1. th'[t] = [pc |-> pc, msg |-> th[t].msg, job |-> th[t].job]
        BY <2>3, <2>4
      <3>2. th'[t].pc = pc
        BY <3>1
      <3> QED
        BY <2>2, <2>4, <3>2
    <2>5. CASE u # t
      <3>1. th'[t] = th[t]
        BY <2>3, <2>5
      <3> QED
        BY <3>1
    <2> QED
      BY <2>4, <2>5
  <1>3. ASSUME NEW u \in Threads, RecordFailure(u) \/ Ack(u) \/ RecordFails(u) PROVE Goal
    <2>1. th' = [th EXCEPT ![u] = NoThread]
      BY <1>3 DEF RecordFailure, Ack, RecordFails, ThreadEnd
    <2>2. th'[t] = th[t] \/ th'[t] = NoThread
      BY <2>1
    <2> QED
      BY <2>2 DEF NoThread
  <1>4. ASSUME NEW w \in Workers, CrashWorker(w) PROVE Goal
    BY <1>4 DEF CrashWorker, NoThread
  <1>5. CASE th' = th
    BY <1>5
  <1> QED
    BY <1>1, <1>2, <1>3, <1>4, <1>5
       DEF Next, PublishStep, PublishFault, WorkerStep, ThreadStep, ThreadFault, vars, workerVars,
       Ingest, ClaimPublish, Publish, PublishRetried, PublishFailed, PublishReplyLost,
       ConfirmPublish, ReleasePublish, StartWorker, StartSweep, SweepJob, EndSweep, Fetch,
       EndBatch, AbortRequest, Tick

\* Exactly-once effect: once job_results has a row for the job, no thread starts
\* its handler again, whatever is redelivered.
THEOREM NoRerun == ASSUME Kind PROVE Spec => NoRunAfterResult
  <1>1. ASSUME Base, KindInv, [Next]_vars
        PROVE  [\A t \in Threads, j \in result : Running(t, j)' => Running(t, j)]_vars
    <2> SUFFICES ASSUME NEW t \in Threads, NEW j \in result, Running(t, j)', ~Running(t, j)
                 PROVE  FALSE
      OBVIOUS
    <2>0. j \in Jobs /\ RefInv
      BY <1>1 DEF Base, RefInv, TypeOK
    <2>1. Claim(t)
      BY <1>1, <2>0, RunStarts
    <2>2. th[t].pc = "claim" /\ th[t].job = j /\ Busy(t)
      BY <2>0, <2>1 DEF Claim, ThreadGoto, Running, Busy, RefInv, TypeOK
    <2>3. status[j] \notin Terminal
      BY <1>1, <2>2 DEF KindInv, ThreadOK
    <2>4. status[j] = "done"
      BY <1>1, <2>0 DEF KindInv, JobOK
    <2> QED
      BY <2>3, <2>4
  <1>2. Base /\ KindInv /\ [Next]_vars
          => [\A t \in Threads, j \in result : Running(t, j)' => Running(t, j)]_vars
    BY <1>1
  <1> QED
    BY <1>2, KindAlways, PTL DEF Spec, NoRunAfterResult

-----------------------------------------------------------------------------
(***************************************************************************)
(* The refinement.  A step is seen by JobLife only if it accepts a job,    *)
(* claims it, gives it back, completes it or escalates it.                 *)
(***************************************************************************)
SameLife(k) ==
  /\ \A t \in Threads : Running(t, k)' <=> Running(t, k)
  /\ status'[k] = "absent" <=> status[k] = "absent"
  /\ status[k] \in Terminal \/ status'[k] \in Terminal => status'[k] = status[k]
  /\ attempts'[k] = attempts[k]

LEMMA PhaseKept == ASSUME NEW k \in Jobs, SameLife(k) PROVE Phase(k)' = Phase(k)
  <1>1. (\E t \in Threads : Running(t, k))' <=> \E t \in Threads : Running(t, k)
    BY DEF SameLife
  <1>2. CASE \E t \in Threads : Running(t, k)
    BY <1>1, <1>2 DEF Phase
  <1>3. CASE ~\E t \in Threads : Running(t, k)
    BY <1>1, <1>3 DEF Phase, SameLife
  <1> QED
    BY <1>2, <1>3

\* What the phase of a job is.
LEMMA PhaseIs ==
  ASSUME NEW k \in Jobs
  PROVE  /\ \A t \in Threads : Running(t, k) => Phase(k) = "running"
         /\ (\A t \in Threads : ~Running(t, k)) =>
              /\ status[k] = "absent" => Phase(k) = "unknown"
              /\ status[k] \in Terminal => Phase(k) = status[k]
              /\ status[k] \notin Terminal \cup {"absent"} => Phase(k) = "waiting"
  BY DEF Phase

\* One job moves and the others stay as they are.
LEMMA OneMoves ==
  ASSUME NEW j \in Jobs, NEW to, Phase(j)' = to, \A k \in Jobs \ {j} : SameLife(k)
  PROVE  /\ [k \in Jobs |-> Phase(k)]' = [[k \in Jobs |-> Phase(k)] EXCEPT ![j] = to]
         /\ \A k \in Jobs \ {j} : attempts'[k] = attempts[k]
  <1>1. \A k \in Jobs \ {j} : Phase(k)' = Phase(k)
    BY PhaseKept
  <1>2. \A k \in Jobs : Phase(k)' = IF k = j THEN to ELSE Phase(k)
    BY <1>1
  <1> HIDE DEF Phase
  <1> QED
    BY <1>2 DEF SameLife

\* The steps that JobLife sees.
Moving ==
  \/ \E a \in Apis, j \in Jobs : Ingest(a, j) /\ status[j] = "absent"
  \/ \E t \in Threads : Escalate(t) \/ Claim(t) \/ Finish(t) \/ Fail(t)

LEMMA LifeQuiet ==
  ASSUME Kind, Base, KindInv, [Next]_vars, ~Moving
  PROVE  \A k \in Jobs : SameLife(k)
  <1> DEFINE Same == \A k \in Jobs : SameLife(k)
  <1> SUFFICES Same
    OBVIOUS
  <1> USE DEF SameLife, Running, Base, RefInv, TypeOK
  <1>1. ASSUME NEW a \in Apis, NEW j \in Jobs, Ingest(a, j)
        PROVE  Same
    <2>1. status[j] # "absent"
      BY <1>1 DEF Moving
    <2>2. status' = status /\ attempts' = attempts /\ th' = th
      BY <1>1, <2>1 DEF Ingest
    <2> QED
      BY <2>2
  <1>2. ASSUME NEW p \in Publishers, ClaimPublish(p)
        PROVE  Same
    BY <1>2 DEF ClaimPublish, SetStatusIf
  <1>3. ASSUME NEW p \in Publishers, Publish(p)
        PROVE  Same
    BY <1>3 DEF Publish, rowVars
  <1>4. ASSUME NEW p \in Publishers, PublishRetried(p)
        PROVE  Same
    BY <1>4 DEF PublishRetried, Fault, Kind
  <1>5. ASSUME NEW p \in Publishers, PublishFailed(p)
        PROVE  Same
    BY <1>5 DEF PublishFailed, Fault, Spend, PubGoto, rowVars, workerVars
  <1>6. ASSUME NEW p \in Publishers, PublishReplyLost(p)
        PROVE  Same
    BY <1>6 DEF PublishReplyLost, Fault, Kind
  <1>7. ASSUME NEW p \in Publishers, ConfirmPublish(p)
        PROVE  Same
    BY <1>7 DEF ConfirmPublish, Touch, PubEnd, NoPub, workerVars
  <1>8. ASSUME NEW p \in Publishers, ReleasePublish(p)
        PROVE  Same
    <2>1. PICK j \in Jobs : j = pub[p].job /\ Holding(p, j)
      BY <1>8 DEF ReleasePublish, RowsExist, Known, Holding
    <2>2. status[j] = "queued"
      BY <2>1 DEF KindInv, JobOK
    <2> QED
      BY <1>8, <2>1, <2>2 DEF ReleasePublish, SetStatus
  <1>9. ASSUME NEW w \in Workers, StartWorker(w)
        PROVE  Same
    BY <1>9 DEF StartWorker, Pending, rowVars
  <1>10. ASSUME NEW w \in Workers, StartSweep(w)
        PROVE  Same
    BY <1>10 DEF StartSweep, Pending, rowVars
  <1>11. ASSUME NEW w \in Workers, NEW j \in Jobs, SweepJob(w, j)
        PROVE  Same
    BY <1>11 DEF SweepJob, rowVars
  <1>12. ASSUME NEW w \in Workers, EndSweep(w)
        PROVE  Same
    BY <1>12 DEF EndSweep, rowVars
  <1>13. ASSUME NEW w \in Workers, Fetch(w)
        PROVE  Same
    BY <1>13 DEF Fetch, rowVars
  <1>14. ASSUME NEW w \in Workers, EndBatch(w)
        PROVE  Same
    BY <1>14 DEF EndBatch, rowVars
  <1>15. ASSUME NEW t \in Threads, NEW m \in MsgIds, Take(t, m)
        PROVE  Same
    <2>1. /\ th[t].pc = "idle" /\ th'[t].pc \in {"ack", "escalate", "claim"}
          /\ \A u \in Threads \ {t} : th'[u] = th[u]
      BY <1>15 DEF Take, Verdict
    <2>2. \A u \in Threads, k \in Jobs : Running(u, k)' <=> Running(u, k)
      BY <2>1
    <2> QED
      BY <1>15, <2>2 DEF Take, rowVars
  <1>16. ASSUME NEW t \in Threads, Escalate(t)
        PROVE  Same
    BY <1>16 DEF Moving
  <1>17. ASSUME NEW t \in Threads, Claim(t)
        PROVE  Same
    BY <1>17 DEF Moving
  <1>18. ASSUME NEW t \in Threads, LoseClaim(t)
        PROVE  Same
    <2>1. /\ th[t].pc = "claim" /\ th'[t].pc # "run"
          /\ \A u \in Threads \ {t} : th'[u] = th[u]
      BY <1>18 DEF LoseClaim, ThreadGoto
    <2>2. \A u \in Threads, k \in Jobs : Running(u, k)' <=> Running(u, k)
      BY <2>1
    <2> QED
      BY <1>18, <2>2 DEF LoseClaim, rowVars
  <1>19. ASSUME NEW t \in Threads, Finish(t)
        PROVE  Same
    BY <1>19 DEF Moving
  <1>20. ASSUME NEW t \in Threads, Fail(t)
        PROVE  Same
    BY <1>20 DEF Moving
  <1>21. ASSUME NEW t \in Threads, RecordFailure(t)
        PROVE  Same
    <2>1. /\ th[t].pc = "record" /\ th'[t].pc # "run"
          /\ \A u \in Threads \ {t} : th'[u] = th[u]
      BY <1>21 DEF RecordFailure, ThreadEnd, NoThread
    <2>2. \A u \in Threads, k \in Jobs : Running(u, k)' <=> Running(u, k)
      BY <2>1
    <2>3. PICK j \in Jobs : j = th[t].job /\ status[j] \notin Terminal \cup {"absent"}
      BY <2>1 DEF RowsExist, Known, KindInv, ThreadOK, Busy
    <2>4. status' = [status EXCEPT ![j] = "queued"] /\ attempts' = attempts
      BY <1>21, <2>3 DEF RecordFailure, SetStatusIf
    <2> QED
      BY <2>2, <2>3, <2>4
  <1>22. ASSUME NEW t \in Threads, Ack(t)
        PROVE  Same
    <2>1. /\ th[t].pc = "ack" /\ th'[t].pc # "run"
          /\ \A u \in Threads \ {t} : th'[u] = th[u]
      BY <1>22 DEF Ack, ThreadEnd, NoThread
    <2>2. \A u \in Threads, k \in Jobs : Running(u, k)' <=> Running(u, k)
      BY <2>1
    <2> QED
      BY <1>22, <2>2 DEF Ack, rowVars
  <1>23. ASSUME NEW t \in Threads, AckFailed(t)
        PROVE  Same
    BY <1>23 DEF AckFailed, Fault, Kind
  <1>24. ASSUME NEW t \in Threads, AckReplyLost(t)
        PROVE  Same
    BY <1>24 DEF AckReplyLost, Fault, Kind
  <1>25. ASSUME NEW t \in Threads, DbError(t)
        PROVE  Same
    BY <1>25 DEF DbError, Fault, Kind
  <1>26. ASSUME NEW t \in Threads, RecordFails(t)
        PROVE  Same
    BY <1>26 DEF RecordFails, Fault, Kind
  <1>27. ASSUME NEW a \in Apis, AbortRequest(a)
        PROVE  Same
    BY <1>27 DEF AbortRequest, Crash, Spend, PubEnd, NoPub, rowVars, workerVars
  <1>28. ASSUME NEW w \in Workers, CrashWorker(w)
        PROVE  Same
    <2>1. \A t \in Threads : th'[t] = th[t] \/ (th[t].pc # "run" /\ th'[t].pc # "run")
      BY <1>28 DEF CrashWorker, MayDie, ThreadsOf, Kind, NoThread
    <2> QED
      BY <1>28, <2>1 DEF CrashWorker, rowVars
  <1>29. CASE Tick
    BY <1>29 DEF Tick, workerVars
  <1>30. CASE UNCHANGED vars
    BY <1>30 DEF vars
  <1> QED
    BY <1>1, <1>2, <1>3, <1>4, <1>5, <1>6, <1>7, <1>8, <1>9, <1>10, <1>11, <1>12, <1>13, <1>14,
       <1>15, <1>16, <1>17, <1>18, <1>19, <1>20, <1>21, <1>22, <1>23, <1>24, <1>25, <1>26,
       <1>27, <1>28, <1>29, <1>30
       DEF Next, PublishStep, PublishFault, WorkerStep, ThreadStep, ThreadFault

LEMMA LifeStep ==
  ASSUME Kind, Base, KindInv, [Next]_vars
  PROVE  [Life!Next]_(Life!life)
  <1> USE DEF Base
  <1>1. ASSUME NEW a \in Apis, NEW j \in Jobs, Ingest(a, j), status[j] = "absent"
        PROVE  Life!Accept(j)
    <2>1. \A t \in Threads : ~Running(t, j)
      BY <1>1 DEF RefInv, RowsExist, Known, Running
    <2>2. status'[j] = "pending" /\ \A k \in Jobs \ {j} : status'[k] = status[k]
      BY <1>1 DEF Ingest, RefInv, TypeOK
    <2>3. th' = th /\ attempts' = attempts
      BY <1>1 DEF Ingest
    <2>4. Phase(j) = "unknown" /\ Phase(j)' = "waiting"
      BY <1>1, <2>1, <2>2, <2>3 DEF Phase, Running
    <2>5. \A k \in Jobs \ {j} : SameLife(k)
      BY <2>2, <2>3 DEF SameLife, Running
    <2>6. [k \in Jobs |-> Phase(k)]' = [[k \in Jobs |-> Phase(k)] EXCEPT ![j] = "waiting"]
      BY <2>4, <2>5, OneMoves
    <2> HIDE DEF Phase
    <2> QED
      BY <2>3, <2>4, <2>6 DEF Life!Accept, Life!Move
  <1>2. ASSUME NEW t \in Threads, Claim(t) PROVE Life!Run(th[t].job) /\ th[t].job \in Jobs
    <2>1. Busy(t) /\ th[t].pc = "claim"
      BY <1>2 DEF Claim, Busy
    <2>2. PICK j \in Jobs : j = th[t].job /\ status[j] # "absent"
      BY <2>1, Exclusive
    <2>3. \A u \in Threads \ {t} : ~Running(u, j) /\ th'[u] = th[u]
      BY <1>2, <2>1, <2>2, Exclusive DEF Claim, ThreadGoto, Running, Busy, Base, RefInv, TypeOK
    <2>4. th'[t] = [pc |-> "run", msg |-> th[t].msg, job |-> j]
      BY <1>2, <2>2 DEF Claim, ThreadGoto, Base, RefInv, TypeOK
    <2>5. status[j] \notin Terminal /\ status'[j] = "processing" /\ \A k \in Jobs \ {j} : status'[k] = status[k]
      BY <1>2, <2>1, <2>2 DEF Claim, ThreadGoto, workerVars, KindInv, ThreadOK, Base, RefInv, TypeOK
    <2>6. \A k \in Jobs \ {j} : SameLife(k)
      BY <1>2, <2>2, <2>3, <2>4, <2>5 DEF SameLife, Running, Claim, Base, RefInv, TypeOK
    <2>7. Phase(j) = "waiting"
      BY <2>1, <2>2, <2>3, <2>5, PhaseIs DEF Running
    <2>8. Phase(j)' = "running"
      BY <2>4 DEF Phase, Running
    <2>9. [k \in Jobs |-> Phase(k)]' = [[k \in Jobs |-> Phase(k)] EXCEPT ![j] = "running"]
      BY <2>6, <2>8, OneMoves
    <2> HIDE DEF Phase
    <2> QED
      BY <1>2, <2>1, <2>2, <2>7, <2>9 DEF Claim, Life!Run, Life!Move, KindInv, ThreadOK
  <1>3. ASSUME NEW t \in Threads, Fail(t) PROVE Life!GiveBack(th[t].job) /\ th[t].job \in Jobs
    <2>1. Busy(t) /\ th[t].pc = "run"
      BY <1>3 DEF Fail, Busy
    <2>2. PICK j \in Jobs : j = th[t].job /\ status[j] # "absent"
      BY <2>1, Exclusive
    <2>3. \A u \in Threads \ {t} : ~Running(u, j) /\ th'[u] = th[u]
      BY <1>3, <2>1, <2>2, Exclusive DEF Fail, ThreadGoto, Running, Busy, Base, RefInv, TypeOK
    <2>4. th'[t] = [pc |-> "record", msg |-> th[t].msg, job |-> j]
      BY <1>3, <2>2 DEF Fail, ThreadGoto, Base, RefInv, TypeOK
    <2>5. status[j] \notin Terminal /\ status'[j] \in {status[j], "queued"} /\ \A k \in Jobs \ {j} : status'[k] = status[k]
      BY <1>3, <2>1, <2>2 DEF Fail, SetStatusIf, ThreadGoto, workerVars, KindInv, ThreadOK, Base, RefInv, TypeOK
    <2>6. \A k \in Jobs \ {j} : SameLife(k)
      BY <1>3, <2>2, <2>3, <2>4, <2>5 DEF SameLife, Running, Fail, Base, RefInv, TypeOK
    <2>7. Phase(j) = "running"
      BY <2>1, <2>2, <2>3, <2>5, PhaseIs DEF Running
    <2>8. Phase(j)' = "waiting"
      <3>1. \A u \in Threads : ~Running(u, j)'
        BY <2>3, <2>4 DEF Running
      <3> QED
        BY <2>2, <2>5, <3>1 DEF Phase
    <2>9. [k \in Jobs |-> Phase(k)]' = [[k \in Jobs |-> Phase(k)] EXCEPT ![j] = "waiting"]
      BY <2>6, <2>8, OneMoves
    <2> HIDE DEF Phase
    <2> QED
      BY <1>3, <2>1, <2>2, <2>7, <2>9 DEF Fail, Life!GiveBack, Life!Move
  <1>4. ASSUME NEW t \in Threads, Finish(t) PROVE Life!Complete(th[t].job) /\ th[t].job \in Jobs
    <2>1. Busy(t) /\ th[t].pc = "run"
      BY <1>4 DEF Finish, Busy
    <2>2. PICK j \in Jobs : j = th[t].job /\ status[j] # "absent"
      BY <2>1, Exclusive
    <2>3. \A u \in Threads \ {t} : ~Running(u, j) /\ th'[u] = th[u]
      BY <1>4, <2>1, <2>2, Exclusive DEF Finish, ThreadGoto, Running, Busy, Base, RefInv, TypeOK
    <2>4. th'[t] = [pc |-> "ack", msg |-> th[t].msg, job |-> j]
      BY <1>4, <2>2 DEF Finish, ThreadGoto, Base, RefInv, TypeOK
    <2>5. status[j] \notin Terminal /\ status'[j] = "done" /\ \A k \in Jobs \ {j} : status'[k] = status[k]
      BY <1>4, <2>1, <2>2 DEF Finish, SetStatus, Touch, ThreadGoto, workerVars, KindInv, ThreadOK, Base, RefInv, TypeOK
    <2>6. \A k \in Jobs \ {j} : SameLife(k)
      BY <1>4, <2>2, <2>3, <2>4, <2>5 DEF SameLife, Running, Finish, Base, RefInv, TypeOK
    <2>7. Phase(j) = "running"
      BY <2>1, <2>2, <2>3, <2>5, PhaseIs DEF Running
    <2>8. Phase(j)' = "done"
      <3>1. \A u \in Threads : ~Running(u, j)'
        BY <2>3, <2>4 DEF Running
      <3> QED
        BY <2>2, <2>5, <3>1 DEF Phase
    <2>9. [k \in Jobs |-> Phase(k)]' = [[k \in Jobs |-> Phase(k)] EXCEPT ![j] = "done"]
      BY <2>6, <2>8, OneMoves
    <2> HIDE DEF Phase
    <2> QED
      BY <1>4, <2>1, <2>2, <2>7, <2>9 DEF Finish, Life!Complete, Life!Move
  <1>5. ASSUME NEW t \in Threads, Escalate(t) PROVE Life!Escalate(th[t].job) /\ th[t].job \in Jobs
    <2>1. Busy(t) /\ th[t].pc = "escalate"
      BY <1>5 DEF Escalate, Busy
    <2>2. PICK j \in Jobs : j = th[t].job /\ status[j] # "absent"
      BY <2>1, Exclusive
    <2>3. \A u \in Threads \ {t} : ~Running(u, j) /\ th'[u] = th[u]
      BY <1>5, <2>1, <2>2, Exclusive DEF Escalate, ThreadGoto, Running, Busy, Base, RefInv, TypeOK
    <2>4. th'[t] = [pc |-> "ack", msg |-> th[t].msg, job |-> j]
      BY <1>5, <2>2 DEF Escalate, ThreadGoto, Base, RefInv, TypeOK
    <2>5. status[j] \notin Terminal /\ status'[j] = "dead" /\ \A k \in Jobs \ {j} : status'[k] = status[k]
      BY <1>5, <2>1, <2>2 DEF Escalate, SetStatus, Touch, ThreadGoto, workerVars, KindInv, ThreadOK, Base, RefInv, TypeOK
    <2>6. \A k \in Jobs \ {j} : SameLife(k)
      BY <1>5, <2>2, <2>3, <2>4, <2>5 DEF SameLife, Running, Escalate, Base, RefInv, TypeOK
    <2>7. Phase(j) = "waiting"
      BY <2>1, <2>2, <2>3, <2>5, PhaseIs DEF Running
    <2>8. Phase(j)' = "dead"
      <3>1. \A u \in Threads : ~Running(u, j)'
        BY <2>3, <2>4 DEF Running
      <3> QED
        BY <2>2, <2>5, <3>1 DEF Phase
    <2>9. [k \in Jobs |-> Phase(k)]' = [[k \in Jobs |-> Phase(k)] EXCEPT ![j] = "dead"]
      BY <2>6, <2>8, OneMoves
    <2> HIDE DEF Phase
    <2> QED
      BY <1>5, <2>1, <2>2, <2>7, <2>9 DEF Escalate, Life!Escalate, Life!Move, KindInv, ThreadOK
  <1>6. CASE ~Moving
    <2>1. \A k \in Jobs : SameLife(k)
      BY <1>6, LifeQuiet
    <2>2. \A k \in Jobs : Phase(k)' = Phase(k) /\ attempts'[k] = attempts[k]
      BY <2>1, PhaseKept DEF SameLife
    <2>3. attempts \in [Jobs -> Nat] /\ attempts' \in [Jobs -> Nat]
      BY RefNext DEF RefInv, TypeOK
    <2>4. attempts' = attempts
      BY <2>2, <2>3
    <2>5. [k \in Jobs |-> Phase(k)]' = [k \in Jobs |-> Phase(k)]
      BY <2>2
    <2> QED
      BY <2>4, <2>5 DEF Life!life
  <1> QED
    BY <1>1, <1>2, <1>3, <1>4, <1>5, <1>6 DEF Moving, Life!Next

\* The rows, the stream, the publishers, the threads and the reconciler together
\* do what one queue with one handler per job would do, for any number of them.
THEOREM PipelineImplementsLife == ASSUME Kind PROVE Spec => ImplementsJobLife
  <1>1. Init => Life!Init
    BY DEF Init, NoThread, Phase, Running, Life!Init
  <1>2. Base /\ KindInv /\ [Next]_vars => [Life!Next]_(Life!life)
    BY LifeStep
  <1> QED
    BY <1>1, <1>2, KindAlways, PTL DEF Spec, ImplementsJobLife, Life!Spec

=============================================================================
