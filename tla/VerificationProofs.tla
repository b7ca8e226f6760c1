------------------------- MODULE VerificationProofs -------------------------
(***************************************************************************)
(* What a verdict stands on, for any number of workers, containers, kills  *)
(* and every tarball: contexts and containers are never shared, so the     *)
(* container that was judged had this job's tree and this job's patch.     *)
(***************************************************************************)
EXTENDS Verification, FiniteSetTheorems, TLAPS

USE DEF losses

\* The extraction loop, and a worker without a job.
JobInv ==
  \A w \in Workers :
    /\ walked[w] <= Len(tar[w])
    /\ pc[w] = "idle" => walked[w] = 0 /\ kept[w] = {}

\* A call has a context of its own, and what it wrote is still in it.
CtxInv ==
  /\ \A w \in Workers :
       /\ ctx[w] # None <=> pc[w] \in InCall
       /\ pc[w] \in InCall => disk[ctx[w]].there
       /\ pc[w] = "write" => disk[ctx[w]].files = {}
       /\ pc[w] \in {"docker", "wait"} =>
            disk[ctx[w]].files = Snapshot(w) /\ disk[ctx[w]].patch = patch[w]
  /\ \A v, w \in Workers : v # w /\ ctx[w] # None => ctx[v] # ctx[w]

\* Nothing is on the disk but for a reason.
Accounted ==
  \A d \in Dirs :
    disk[d].there => d \in leaked \cup stuck \/ \E w \in Workers : ctx[w] = d

\* The container a call waits for is its own, mounts its context and has done
\* with it what it says it has.
BoxInv ==
  /\ \A w \in Workers :
       LET r == run[box[w]] IN
       /\ box[w] # None <=> pc[w] = "wait"
       /\ pc[w] = "wait" =>
            /\ r.at # "none" /\ r.mount = ctx[w]
            /\ r.at \in {"apply", "check"} => r.tree = Snapshot(w)
            /\ r.at = "check" => r.patch = patch[w]
            /\ r.at = "exited" /\ r.code = 0 => r.tree = Snapshot(w) /\ r.patch = patch[w]
  /\ \A v, w \in Workers : v # w /\ box[w] # None => box[v] # box[w]
  /\ \A b \in Boxes : run[b].at # "none" => run[b].mount \in Dirs

\* There is a verdict from the end of the call to the end of the attempt.
VerdictInv ==
  \A w \in Workers : reason[w] # "" => pc[w] \in {"rmtree", "done"}

Inv ==
  /\ TypeOK /\ JobInv /\ SnapshotExact /\ CtxInv /\ Accounted
  /\ BoxInv /\ VerdictInv /\ PassedIsProved

-----------------------------------------------------------------------------
\* The initial state.
LEMMA InitInv == Init => Inv
<1> SUFFICES ASSUME Init PROVE Inv
  OBVIOUS
<1> USE VerificationAssumption
<1>1. NoProof \in Proofs /\ Absent \in Contexts /\ NoRun \in Containers
  BY DEF NoProof, Absent, NoRun, Proofs, Contexts, Containers
<1>2. TypeOK
  <2>1. <<>> \in Seq(Members) /\ 0 \in 0..MaxTotalBytes /\ "" \in Reasons
    BY DEF Reasons
  <2>2. /\ pc \in [Workers -> {"idle", "extract", "fix", "mkdtemp", "done"} \cup InCall]
        /\ tar \in [Workers -> Seq(Members)]
        /\ walked \in [Workers -> Nat] /\ kept \in [Workers -> SUBSET Nat]
        /\ total \in [Workers -> 0..MaxTotalBytes]
    BY <2>1 DEF Init
  <2>3. /\ patch \in [Workers -> Patches \cup {None}]
        /\ ctx \in [Workers -> Dirs \cup {None}] /\ box \in [Workers -> Boxes \cup {None}]
        /\ reason \in [Workers -> Reasons] /\ proof \in [Workers -> Proofs]
    BY <1>1, <2>1 DEF Init
  <2>4. disk \in [Dirs -> Contexts] /\ run \in [Boxes -> Containers]
    BY <1>1 DEF Init
  <2>5. leaked \subseteq Dirs /\ stuck \subseteq Dirs
    BY Zenon DEF Init
  <2>6. crashes \in Nat /\ failures \in Nat /\ crashes + failures <= MaxLosses
    <3>1. crashes = 0 /\ failures = 0 /\ MaxLosses \in Nat
      BY Zenon DEF Init
    <3> QED
      BY <3>1, SMT
  <2> QED
    BY <2>2, <2>3, <2>4, <2>5, <2>6 DEF TypeOK
<1>3. JobInv /\ SnapshotExact
  <2>1. ASSUME NEW w \in Workers
        PROVE  /\ walked[w] = 0 /\ kept[w] = {} /\ pc[w] = "idle" /\ tar[w] = <<>>
               /\ Len(tar[w]) = 0 /\ 1..walked[w] = {}
    <3>1. walked[w] = 0 /\ kept[w] = {} /\ pc[w] = "idle" /\ tar[w] = <<>>
      BY DEF Init
    <3>2. Len(<<>>) = 0 /\ 1..0 = {}
      OBVIOUS
    <3> QED
      BY <3>1, <3>2
  <2>2. JobInv
    BY <2>1 DEF JobInv
  <2>3. SnapshotExact
    BY <2>1 DEF SnapshotExact
  <2> QED
    BY <2>2, <2>3
<1>4. CtxInv /\ Accounted
  BY DEF Init, CtxInv, Accounted, InCall, Absent
<1>5. BoxInv
  BY DEF Init, BoxInv, NoRun
<1>6. VerdictInv /\ PassedIsProved
  BY DEF Init, VerdictInv, PassedIsProved
<1> QED
  BY <1>2, <1>3, <1>4, <1>5, <1>6 DEF Inv

\* The files of a snapshot are members.
LEMMA SnapshotMembers ==
  ASSUME Inv, NEW w \in Workers
  PROVE  Snapshot(w) \subseteq Members
<1>1. ASSUME NEW i \in kept[w] PROVE tar[w][i] \in Members
  <2>1. tar[w] \in Seq(Members) /\ walked[w] \in Nat /\ walked[w] <= Len(tar[w])
    BY DEF Inv, TypeOK, JobInv
  <2>2. i \in 1..walked[w]
    BY <1>1 DEF Inv, SnapshotExact
  <2>3. i \in 1..Len(tar[w])
    BY <2>1, <2>2
  <2> QED
    BY <2>1, <2>3
<1> QED
  BY <1>1 DEF Snapshot

\* A step that changes neither the job nor the verdict of anybody, nor the
\* disk, the containers and who owns them.
LEMMA LocalStep ==
  ASSUME Inv, NEW w \in Workers, NEW l,
         Goto(w, l), pc[w] \notin InCall, l \in {"idle", "extract", "fix", "mkdtemp", "done"},
         UNCHANGED <<ctx, box, disk, run, losses>>,
         TypeOK', JobInv', SnapshotExact',
         \A v \in Workers \ {w} :
           /\ tar'[v] = tar[v] /\ kept'[v] = kept[v] /\ patch'[v] = patch[v]
           /\ reason'[v] = reason[v] /\ proof'[v] = proof[v],
         reason'[w] # "" => l = "done",
         reason'[w] # "passed"
  PROVE  Inv'
<1>1. \A v \in Workers \ {w} : Snapshot(v)' = Snapshot(v) /\ pc'[v] = pc[v]
  <2> SUFFICES ASSUME NEW v \in Workers \ {w}
               PROVE  Snapshot(v)' = Snapshot(v) /\ pc'[v] = pc[v]
    OBVIOUS
  <2>1. Snapshot(v)' = Snapshot(v)
    BY Zenon DEF Snapshot
  <2>2. pc'[v] = pc[v]
    BY DEF Goto, Inv, TypeOK
  <2> QED
    BY <2>1, <2>2
<1>2. pc'[w] = l /\ l \notin InCall /\ ctx[w] = None /\ box[w] = None
  BY DEF Goto, Inv, TypeOK, InCall, CtxInv, BoxInv
<1>3. CtxInv' /\ Accounted'
  <2>1. CtxInv'
    BY <1>1, <1>2 DEF Inv, CtxInv, InCall
  <2> QED
    BY <2>1 DEF Inv, Accounted
<1>4. BoxInv'
  <2>1. ASSUME NEW v \in Workers
        PROVE  LET r == run'[box'[v]] IN
               /\ box'[v] # None <=> pc'[v] = "wait"
               /\ pc'[v] = "wait" =>
                    /\ r.at # "none" /\ r.mount = ctx'[v]
                    /\ r.at \in {"apply", "check"} => r.tree = Snapshot(v)'
                    /\ r.at = "check" => r.patch = patch'[v]
                    /\ r.at = "exited" /\ r.code = 0 =>
                         r.tree = Snapshot(v)' /\ r.patch = patch'[v]
    <3>1. CASE v = w
      BY <1>2, <3>1 DEF InCall
    <3>2. CASE v # w
      BY <1>1, <3>2 DEF Inv, BoxInv
    <3> QED
      BY <3>1, <3>2
  <2>2. /\ \A v, u \in Workers : v # u /\ box'[u] # None => box'[v] # box'[u]
        /\ \A b \in Boxes : run'[b].at # "none" => run'[b].mount \in Dirs
    BY DEF Inv, BoxInv
  <2> QED
    BY <2>1, <2>2 DEF BoxInv
<1>5. VerdictInv' /\ PassedIsProved'
  BY <1>1, <1>2 DEF Inv, VerdictInv, PassedIsProved
<1> QED
  BY <1>3, <1>4, <1>5 DEF Inv

-----------------------------------------------------------------------------
(* The snapshot.                                                             *)

LEMMA DownloadInv ==
  ASSUME Inv, NEW w \in Workers, Download(w)
  PROVE  Inv'
<1> USE VerificationAssumption
<1>1. PICK t \in Tars : tar' = [tar EXCEPT ![w] = t]
  BY DEF Download
<1>2. t \in Seq(Members) /\ Len(t) \in Nat
  OBVIOUS
<1>3. TypeOK'
  BY <1>1, <1>2 DEF Inv, TypeOK, Download, Goto
<1>4. walked[w] = 0 /\ kept[w] = {} /\ pc[w] = "idle" /\ 1..walked[w] = {}
  BY DEF Inv, JobInv, Download
<1>5. pc' = [pc EXCEPT ![w] = "extract"] /\ walked' = walked /\ kept' = kept /\ total' = total
  BY DEF Download, Goto
<1>6. JobInv'
  BY <1>1, <1>2, <1>4, <1>5 DEF Inv, TypeOK, JobInv
<1>7. SnapshotExact'
  BY <1>1, <1>4, <1>5 DEF Inv, TypeOK, SnapshotExact, At, Fits
<1>8. reason[w] = ""
  BY <1>4 DEF Inv, VerdictInv
<1> QED
  BY <1>1, <1>3, <1>4, <1>5, <1>6, <1>7, <1>8, LocalStep DEF Download, Inv, TypeOK, InCall

LEMMA SkipInv ==
  ASSUME Inv, NEW w \in Workers, Skip(w)
  PROVE  Inv'
<1> USE VerificationAssumption
<1> DEFINE n == walked[w]
           K(i) == Considered(tar[w][i]) /\ Usable(tar[w][i])
<1>1. n \in Nat /\ n < Len(tar[w]) /\ Len(tar[w]) \in Nat /\ pc[w] = "extract"
  BY DEF Inv, TypeOK, Skip, More
<1>2. walked' = [walked EXCEPT ![w] = n + 1] /\ UNCHANGED <<pc, tar, kept, total>>
  BY DEF Skip, Walk
<1>3. TypeOK'
  BY <1>1, <1>2 DEF Inv, TypeOK, Skip
<1>4. JobInv'
  BY <1>1, <1>2 DEF Inv, TypeOK, JobInv
<1>5. ~K(n + 1)
  BY DEF Skip, At
<1>6. kept[w] = {i \in 1..n : K(i)}
  BY DEF Inv, SnapshotExact
<1>7. {i \in 1..(n + 1) : K(i)} = {i \in 1..n : K(i)}
  <2> HIDE DEF K
  <2>1. \A i : i \in 1..(n + 1) <=> i \in 1..n \/ i = n + 1
    BY <1>1
  <2> QED
    BY <1>5, <2>1
<1>8. SnapshotExact'
  <2> SUFFICES ASSUME NEW v \in Workers
               PROVE  /\ kept'[v] = {i \in 1..walked'[v] : Considered(tar'[v][i]) /\ Usable(tar'[v][i])}
                      /\ pc'[v] \notin {"idle", "extract"} =>
                           \/ walked'[v] = Len(tar'[v])
                           \/ Cardinality(kept'[v]) >= MaxFiles
                           \/ Considered(At(v)') /\ ~Fits(v)'
    BY DEF SnapshotExact
  <2>1. CASE v = w
    BY <1>1, <1>2, <1>6, <1>7, <2>1 DEF Inv, TypeOK
  <2>2. CASE v # w
    BY <1>2, <2>2 DEF Inv, TypeOK, SnapshotExact, At, Fits
  <2> QED
    BY <2>1, <2>2
<1>9. Goto(w, "extract")
  BY <1>1, <1>2 DEF Inv, TypeOK, Goto
<1>10. reason[w] = ""
  BY <1>1 DEF Inv, VerdictInv
<1> QED
  BY <1>1, <1>3, <1>4, <1>8, <1>9, <1>10, LocalStep DEF Skip, InCall

LEMMA KeepInv ==
  ASSUME Inv, NEW w \in Workers, Keep(w)
  PROVE  Inv'
<1> USE VerificationAssumption
<1> DEFINE n == walked[w]
           K(i) == Considered(tar[w][i]) /\ Usable(tar[w][i])
           l == IF Cardinality(kept[w]) + 1 >= MaxFiles THEN "fix" ELSE "extract"
<1>1. n \in Nat /\ n < Len(tar[w]) /\ Len(tar[w]) \in Nat /\ pc[w] = "extract"
  BY DEF Inv, TypeOK, Keep, More
<1>2. /\ walked' = [walked EXCEPT ![w] = n + 1] /\ tar' = tar
      /\ kept' = [kept EXCEPT ![w] = @ \cup {n + 1}]
      /\ pc' = [pc EXCEPT ![w] = l]
  BY DEF Keep, Walk, Goto
<1>3. At(w) \in Members /\ Size[At(w)] \in Nat
  BY <1>1 DEF Inv, TypeOK, At
<1>4. total[w] + Size[At(w)] \in 0..MaxTotalBytes
  BY <1>3 DEF Keep, Fits, Inv, TypeOK
<1>5. TypeOK'
  <2>1. total' \in [Workers -> 0..MaxTotalBytes]
    BY <1>4 DEF Keep, Inv, TypeOK
  <2>2. walked' \in [Workers -> Nat] /\ kept' \in [Workers -> SUBSET Nat]
    BY <1>1, <1>2 DEF Inv, TypeOK
  <2> QED
    BY <1>2, <2>1, <2>2 DEF Keep, Inv, TypeOK
<1>6. JobInv'
  BY <1>1, <1>2 DEF Inv, TypeOK, JobInv
<1>7. K(n + 1)
  BY DEF Keep, At
<1>8. kept[w] = {i \in 1..n : K(i)}
  BY DEF Inv, SnapshotExact
<1>9. {i \in 1..(n + 1) : K(i)} = kept[w] \cup {n + 1}
  <2> HIDE DEF K
  <2>1. \A i : i \in 1..(n + 1) <=> i \in 1..n \/ i = n + 1
    BY <1>1
  <2> QED
    BY <1>7, <1>8, <2>1
<1>10. Cardinality(kept[w] \cup {n + 1}) = Cardinality(kept[w]) + 1
  <2> HIDE DEF K
  <2>1. kept[w] \subseteq 1..n
    BY <1>8
  <2>4. IsFiniteSet(1..n)
    <3>1. 1 \in Int /\ n \in Int
      BY <1>1
    <3> QED
      BY <3>1, FS_Interval, Zenon
  <2>2. IsFiniteSet(kept[w])
    BY <2>1, <2>4, FS_Subset
  <2>3. n + 1 \notin kept[w]
    BY <1>1, <2>1
  <2> QED
    BY <2>2, <2>3, FS_AddElement
<1>11. SnapshotExact'
  <2> SUFFICES ASSUME NEW v \in Workers
               PROVE  /\ kept'[v] = {i \in 1..walked'[v] : Considered(tar'[v][i]) /\ Usable(tar'[v][i])}
                      /\ pc'[v] \notin {"idle", "extract"} =>
                           \/ walked'[v] = Len(tar'[v])
                           \/ Cardinality(kept'[v]) >= MaxFiles
                           \/ Considered(At(v)') /\ ~Fits(v)'
    BY DEF SnapshotExact
  <2>1. CASE v = w
    <3>1. kept'[w] = kept[w] \cup {n + 1} /\ walked'[w] = n + 1 /\ pc'[w] = l
      BY <1>2 DEF Inv, TypeOK
    <3>2. pc'[w] # "extract" => Cardinality(kept'[w]) >= MaxFiles
      BY <1>10, <3>1
    <3> QED
      BY <1>2, <1>9, <2>1, <3>1, <3>2
  <2>2. CASE v # w
    <3>1. /\ kept'[v] = kept[v] /\ walked'[v] = walked[v] /\ pc'[v] = pc[v]
          /\ total'[v] = total[v]
      BY <1>2, <2>2 DEF Inv, TypeOK, Keep
    <3> QED
      BY <1>2, <3>1 DEF Inv, SnapshotExact, At, Fits
  <2> QED
    BY <2>1, <2>2
<1>12. Goto(w, l) /\ l \in {"fix", "extract"}
  BY <1>2 DEF Goto
<1>13. reason[w] = ""
  BY <1>1 DEF Inv, VerdictInv
<1> HIDE DEF l
<1>14. \A v \in Workers \ {w} : kept'[v] = kept[v]
  BY <1>2 DEF Inv, TypeOK
<1> QED
  BY <1>1, <1>2, <1>5, <1>6, <1>11, <1>12, <1>13, <1>14, LocalStep DEF Keep, InCall

LEMMA StopInv ==
  ASSUME Inv, NEW w \in Workers, Stop(w)
  PROVE  Inv'
<1> USE VerificationAssumption
<1>1. pc' = [pc EXCEPT ![w] = "fix"] /\ UNCHANGED <<tar, walked, kept, total>> /\ pc[w] = "extract"
  BY DEF Stop, Goto, job
<1>2. TypeOK'
  BY <1>1 DEF Inv, TypeOK, Stop
<1>3. JobInv'
  BY <1>1 DEF Inv, TypeOK, JobInv
<1>4. walked[w] = Len(tar[w]) \/ (Considered(At(w)) /\ ~Fits(w))
  <2>1. walked[w] \in Nat /\ Len(tar[w]) \in Nat /\ walked[w] <= Len(tar[w])
    BY DEF Inv, TypeOK, JobInv
  <2> QED
    BY <1>1, <2>1 DEF Stop, More
<1>5. SnapshotExact'
  BY <1>1, <1>4 DEF Inv, TypeOK, SnapshotExact, At, Fits
<1>6. reason[w] = ""
  BY <1>1 DEF Inv, VerdictInv
<1> QED
  BY <1>1, <1>2, <1>3, <1>5, <1>6, LocalStep DEF Stop, InCall

-----------------------------------------------------------------------------
(* Between two calls.                                                        *)

\* The job is untouched and stays behind the loop.
LEMMA SameJob ==
  ASSUME Inv, NEW w \in Workers, NEW l, Goto(w, l), UNCHANGED job,
         pc[w] \notin {"idle", "extract"}, l \notin {"idle", "extract"}
  PROVE  JobInv' /\ SnapshotExact'
<1>1. JobInv'
  BY DEF Inv, TypeOK, JobInv, Goto, job
<1>2. SnapshotExact'
  BY DEF Inv, TypeOK, SnapshotExact, At, Fits, Goto, job
<1> QED
  BY <1>1, <1>2

LEMMA ProposeInv ==
  ASSUME Inv, NEW w \in Workers, Propose(w)
  PROVE  Inv'
<1> USE VerificationAssumption
<1>1. PICK l \in {"done", "mkdtemp"} :
        Goto(w, l) /\ (l = "done" => reason' = [reason EXCEPT ![w] = "no_snapshot"])
                   /\ (l # "done" => reason' = reason)
  BY DEF Propose
<1>2. pc[w] = "fix" /\ UNCHANGED <<job, proof, ctx, box, disk, run, losses>>
  BY DEF Propose
<1>3. reason[w] = ""
  BY <1>2 DEF Inv, VerdictInv
<1>4. /\ reason' \in [Workers -> Reasons] /\ reason'[w] # "passed"
      /\ reason'[w] # "" => l = "done"
      /\ \A v \in Workers \ {w} : reason'[v] = reason[v]
  BY <1>1, <1>3 DEF Inv, TypeOK, Reasons
<1>5. /\ patch' \in [Workers -> Patches \cup {None}]
      /\ \A v \in Workers \ {w} : patch'[v] = patch[v]
  BY DEF Inv, TypeOK, Propose
<1>6. TypeOK'
  BY <1>1, <1>2, <1>4, <1>5 DEF Inv, TypeOK, Goto, job
<1>7. JobInv' /\ SnapshotExact'
  BY <1>1, <1>2, SameJob
<1> QED
  BY <1>1, <1>2, <1>4, <1>5, <1>6, <1>7, LocalStep DEF job, InCall

\* What Reset leaves.
LEMMA ResetOK ==
  ASSUME Inv, NEW w \in Workers, Reset(w)
  PROVE  /\ reason' \in [Workers -> Reasons] /\ reason'[w] = ""
         /\ patch' \in [Workers -> Patches \cup {None}]
         /\ proof' \in [Workers -> Proofs]
         /\ \A v \in Workers \ {w} :
              reason'[v] = reason[v] /\ patch'[v] = patch[v] /\ proof'[v] = proof[v]
<1>1. NoProof \in Proofs
  BY DEF NoProof, Proofs
<1> QED
  BY <1>1 DEF Reset, Inv, TypeOK, Reasons

LEMMA RetryInv ==
  ASSUME Inv, NEW w \in Workers, Retry(w)
  PROVE  Inv'
<1>1. /\ Goto(w, "fix") /\ Reset(w) /\ pc[w] = "done"
      /\ UNCHANGED <<job, ctx, box, disk, run, losses>>
  BY DEF Retry
<1>2. TypeOK'
  BY <1>1, ResetOK DEF Inv, TypeOK, Goto, job
<1>3. JobInv' /\ SnapshotExact'
  BY <1>1, SameJob
<1> QED
  BY <1>1, <1>2, <1>3, ResetOK, LocalStep DEF job, InCall

\* What the end of a job leaves: a thread without one.
LEMMA FinishOK ==
  ASSUME Inv, NEW w \in Workers, Finish(w)
  PROVE  /\ tar' \in [Workers -> Seq(Members)] /\ walked' \in [Workers -> Nat]
         /\ kept' \in [Workers -> SUBSET Nat] /\ total' \in [Workers -> 0..MaxTotalBytes]
         /\ \A v \in Workers \ {w} : tar'[v] = tar[v] /\ kept'[v] = kept[v]
         /\ JobInv' /\ SnapshotExact'
<1> USE VerificationAssumption
<1>1. /\ tar' = [tar EXCEPT ![w] = <<>>] /\ walked' = [walked EXCEPT ![w] = 0]
      /\ kept' = [kept EXCEPT ![w] = {}] /\ total' = [total EXCEPT ![w] = 0]
      /\ pc' = [pc EXCEPT ![w] = "idle"]
  BY DEF Finish, Goto
<1>2. /\ tar' \in [Workers -> Seq(Members)] /\ walked' \in [Workers -> Nat]
      /\ kept' \in [Workers -> SUBSET Nat]
  BY <1>1 DEF Inv, TypeOK
<1>3. total' \in [Workers -> 0..MaxTotalBytes]
  BY <1>1 DEF Inv, TypeOK
<1>4. /\ tar'[w] = <<>> /\ walked'[w] = 0 /\ kept'[w] = {} /\ pc'[w] = "idle"
      /\ Len(tar'[w]) = 0 /\ 1..walked'[w] = {}
  BY <1>1 DEF Inv, TypeOK
<1>5. \A v \in Workers \ {w} :
        /\ tar'[v] = tar[v] /\ walked'[v] = walked[v] /\ kept'[v] = kept[v]
        /\ total'[v] = total[v] /\ pc'[v] = pc[v]
  BY <1>1 DEF Inv, TypeOK
<1>6. JobInv'
  BY <1>4, <1>5 DEF Inv, JobInv
<1>7. SnapshotExact'
  BY <1>4, <1>5 DEF Inv, SnapshotExact, At, Fits
<1> QED
  BY <1>2, <1>3, <1>5, <1>6, <1>7

LEMMA FinishInv ==
  ASSUME Inv, NEW w \in Workers, Finish(w)
  PROVE  Inv'
<1>1. /\ Goto(w, "idle") /\ Reset(w) /\ pc[w] = "done"
      /\ UNCHANGED <<ctx, box, disk, run, losses>>
  BY DEF Finish
<1>2. TypeOK'
  BY <1>1, ResetOK, FinishOK DEF Inv, TypeOK, Goto
<1> QED
  BY <1>1, <1>2, ResetOK, FinishOK, LocalStep DEF InCall

\* No directory, no call: the verdict is there at once.
LEMMA MkdtempRaisesInv ==
  ASSUME Inv, NEW w \in Workers, MkdtempRaises(w)
  PROVE  Inv'
<1>1. /\ Goto(w, "done") /\ pc[w] = "mkdtemp"
      /\ reason' = [reason EXCEPT ![w] = "sandbox_error"]
      /\ UNCHANGED <<job, patch, ctx, box, proof, disk, run, losses>>
  BY DEF MkdtempRaises
<1>2. /\ reason' \in [Workers -> Reasons] /\ reason'[w] = "sandbox_error"
      /\ \A v \in Workers \ {w} : reason'[v] = reason[v]
  BY <1>1 DEF Inv, TypeOK, Reasons
<1>3. TypeOK'
  BY <1>1, <1>2 DEF Inv, TypeOK, Goto, job
<1>4. JobInv' /\ SnapshotExact'
  BY <1>1, SameJob
<1> QED
  BY <1>1, <1>2, <1>3, <1>4, LocalStep DEF job, InCall

-----------------------------------------------------------------------------
(* The call.  Its steps keep the job, so what is left to show is whose the   *)
(* context and the container are and what is in them.                        *)

\* The part of the invariant about disk, containers and their owners.
Owned == CtxInv /\ Accounted /\ BoxInv

LEMMA SnapshotKept ==
  ASSUME UNCHANGED job, NEW v
  PROVE  Snapshot(v)' = Snapshot(v)
BY Zenon DEF Snapshot, job

\* A step of a call that has no verdict yet leaves those there are.
LEMMA SameVerdict ==
  ASSUME Inv, NEW w \in Workers, NEW l, Goto(w, l), pc[w] \notin {"rmtree", "done"},
         UNCHANGED <<job, patch, reason, proof>>
  PROVE  VerdictInv' /\ PassedIsProved'
<1>1. reason[w] = ""
  BY DEF Inv, VerdictInv
<1>2. VerdictInv'
  BY <1>1 DEF Inv, TypeOK, VerdictInv, Goto
<1>3. \A v \in Workers : Snapshot(v)' = Snapshot(v)
  BY SnapshotKept
<1>4. PassedIsProved'
  BY <1>3 DEF Inv, PassedIsProved
<1> QED
  BY <1>2, <1>4

\* A name that is free belongs to nobody.
LEMMA FreshOK ==
  ASSUME Inv, NEW d \in FreshDirs
  PROVE  /\ d \in Dirs /\ d # None /\ ~disk[d].there
         /\ \A v \in Workers : ctx[v] # d
         /\ \A b \in Boxes : run[b].mount # d
<1>1. d \in Dirs /\ d # None /\ ~disk[d].there /\ \A b \in Boxes : run[b].mount # d
  BY VerificationAssumption DEF FreshDirs
<1>2. \A v \in Workers : ctx[v] # d
  BY <1>1 DEF Inv, CtxInv
<1> QED
  BY <1>1, <1>2

LEMMA MkdtempInv ==
  ASSUME Inv, NEW w \in Workers, Mkdtemp(w)
  PROVE  Inv'
<1> USE VerificationAssumption
<1> DEFINE d == CHOOSE e \in FreshDirs : TRUE
           c == [there |-> TRUE, files |-> {}, patch |-> None]
<1>1. d \in FreshDirs
  BY DEF Mkdtemp
<1>2. /\ pc[w] = "mkdtemp" /\ Goto(w, "write")
      /\ ctx' = [ctx EXCEPT ![w] = d] /\ disk' = [disk EXCEPT ![d] = c]
      /\ UNCHANGED <<job, patch, box, reason, proof, run, losses>>
  BY DEF Mkdtemp
<1> HIDE DEF d
<1>3. /\ d \in Dirs /\ d # None /\ ~disk[d].there
      /\ \A v \in Workers : ctx[v] # d
      /\ \A b \in Boxes : run[b].mount # d
  BY <1>1, FreshOK
<1>4. c \in Contexts /\ c.there /\ c.files = {}
  BY DEF Contexts
<1> HIDE DEF c
<1>5. TypeOK'
  BY <1>2, <1>3, <1>4 DEF Inv, TypeOK, Goto, job, InCall
<1>6. JobInv' /\ SnapshotExact'
  BY <1>2, SameJob
<1>7. \A v \in Workers : Snapshot(v)' = Snapshot(v)
  BY <1>2, SnapshotKept
<1>8. /\ pc'[w] = "write" /\ ctx'[w] = d /\ disk'[d] = c /\ ctx[w] = None
      /\ \A v \in Workers \ {w} :
           /\ pc'[v] = pc[v] /\ ctx'[v] = ctx[v]
           /\ ctx[v] \in Dirs => disk'[ctx[v]] = disk[ctx[v]]
      /\ \A e \in Dirs \ {d} : disk'[e] = disk[e]
  BY <1>2, <1>3 DEF Inv, TypeOK, Goto, CtxInv, InCall
<1>9. CtxInv'
  BY <1>2, <1>3, <1>4, <1>7, <1>8 DEF Inv, TypeOK, CtxInv, InCall
<1>10. Accounted'
  BY <1>2, <1>3, <1>8 DEF Inv, Accounted
<1>11. BoxInv'
  BY <1>2, <1>7, <1>8 DEF Inv, BoxInv
<1>12. VerdictInv' /\ PassedIsProved'
  BY <1>2, SameVerdict
<1> QED
  BY <1>5, <1>6, <1>9, <1>10, <1>11, <1>12 DEF Inv

LEMMA WriteContextInv ==
  ASSUME Inv, NEW w \in Workers, WriteContext(w)
  PROVE  Inv'
<1> USE VerificationAssumption
<1> DEFINE d == ctx[w]
           c == [there |-> TRUE, files |-> disk[d].files \cup Snapshot(w), patch |-> patch[w]]
<1>1. /\ pc[w] = "write" /\ Goto(w, "docker") /\ disk' = [disk EXCEPT ![d] = c]
      /\ UNCHANGED <<job, patch, ctx, box, reason, proof, run, losses>>
  BY DEF WriteContext
<1>2. d \in Dirs /\ d # None /\ disk[d].files = {} /\ disk[d].there
  BY <1>1 DEF Inv, TypeOK, CtxInv, InCall
<1>3. c \in Contexts /\ c.there /\ c.files = Snapshot(w) /\ c.patch = patch[w]
  BY <1>2, SnapshotMembers DEF Contexts, Inv, TypeOK
<1> HIDE DEF c
<1>4. TypeOK'
  BY <1>1, <1>2, <1>3 DEF Inv, TypeOK, Goto, job, InCall
<1>5. JobInv' /\ SnapshotExact'
  BY <1>1, SameJob
<1>6. \A v \in Workers : Snapshot(v)' = Snapshot(v)
  BY <1>1, SnapshotKept
<1>7. /\ pc'[w] = "docker" /\ disk'[d] = c
      /\ \A v \in Workers \ {w} :
           /\ pc'[v] = pc[v]
           /\ ctx[v] \in Dirs => disk'[ctx[v]] = disk[ctx[v]]
      /\ \A e \in Dirs \ {d} : disk'[e] = disk[e]
  BY <1>1, <1>2 DEF Inv, TypeOK, Goto, CtxInv
<1>8. CtxInv'
  BY <1>1, <1>2, <1>3, <1>6, <1>7 DEF Inv, TypeOK, CtxInv, InCall
<1>9. Accounted'
  BY <1>1, <1>2, <1>7 DEF Inv, Accounted
<1>10. BoxInv'
  BY <1>1, <1>6, <1>7 DEF Inv, BoxInv
<1>11. VerdictInv' /\ PassedIsProved'
  BY <1>1, SameVerdict
<1> QED
  BY <1>4, <1>5, <1>8, <1>9, <1>10, <1>11 DEF Inv

\* A call that ends without a verdict of a container's.
LEMMA EndsInv ==
  ASSUME Inv, NEW w \in Workers, NEW r \in Reasons \ {"passed"},
         pc[w] \in {"write", "docker"}, Goto(w, "rmtree"),
         reason' = [reason EXCEPT ![w] = r],
         UNCHANGED <<job, patch, ctx, box, proof, disk, run, losses>>
  PROVE  Inv'
<1>1. TypeOK'
  BY DEF Inv, TypeOK, Goto, job, InCall
<1>2. JobInv' /\ SnapshotExact'
  BY SameJob
<1>3. \A v \in Workers : Snapshot(v)' = Snapshot(v)
  BY SnapshotKept
<1>4. /\ pc'[w] = "rmtree" /\ reason'[w] = r
      /\ \A v \in Workers \ {w} : pc'[v] = pc[v] /\ reason'[v] = reason[v]
  BY DEF Inv, TypeOK, Goto
<1>5. CtxInv' /\ Accounted'
  <2>1. CtxInv'
    BY <1>3, <1>4 DEF Inv, CtxInv, InCall
  <2> QED
    BY <2>1 DEF Inv, Accounted
<1>6. BoxInv'
  BY <1>3, <1>4 DEF Inv, BoxInv
<1>7. VerdictInv'
  BY <1>4 DEF Inv, VerdictInv
<1>8. PassedIsProved'
  BY <1>3, <1>4 DEF Inv, PassedIsProved
<1> QED
  BY <1>1, <1>2, <1>5, <1>6, <1>7, <1>8 DEF Inv

LEMMA CallRaisesInv ==
  ASSUME Inv, NEW w \in Workers, CallRaises(w)
  PROVE  Inv'
BY EndsInv DEF CallRaises, Reasons

LEMMA DockerRefusesInv ==
  ASSUME Inv, NEW w \in Workers, DockerRefuses(w)
  PROVE  Inv'
BY EndsInv DEF DockerRefuses, Reasons

LEMMA DockerRunInv ==
  ASSUME Inv, NEW w \in Workers, DockerRun(w)
  PROVE  Inv'
<1> USE VerificationAssumption
<1> DEFINE b == CHOOSE e \in FreshBoxes : TRUE
           r == [at |-> "copy", mount |-> ctx[w], tree |-> {}, patch |-> None, code |-> 0]
<1>1. b \in FreshBoxes
  BY DEF DockerRun
<1>2. /\ pc[w] = "docker" /\ Goto(w, "wait")
      /\ run' = [run EXCEPT ![b] = r] /\ box' = [box EXCEPT ![w] = b]
      /\ UNCHANGED <<job, patch, ctx, reason, proof, disk, losses>>
  BY DEF DockerRun
<1> HIDE DEF b
<1>3. /\ b \in Boxes /\ b # None /\ \A v \in Workers : box[v] # b
  BY <1>1 DEF FreshBoxes, Inv, BoxInv
<1>4. ctx[w] \in Dirs
  BY <1>2 DEF Inv, TypeOK, CtxInv, InCall
<1>5. /\ r \in Containers /\ r.at = "copy" /\ r.mount = ctx[w]
  BY <1>4 DEF Containers
<1> HIDE DEF r
<1>6. TypeOK'
  BY <1>2, <1>3, <1>5 DEF Inv, TypeOK, Goto, job, InCall
<1>7. JobInv' /\ SnapshotExact'
  BY <1>2, SameJob
<1>8. \A v \in Workers : Snapshot(v)' = Snapshot(v)
  BY <1>2, SnapshotKept
<1>9. /\ pc'[w] = "wait" /\ box'[w] = b /\ run'[b] = r
      /\ \A v \in Workers \ {w} :
           /\ pc'[v] = pc[v] /\ box'[v] = box[v]
           /\ box[v] \in Boxes => run'[box[v]] = run[box[v]]
      /\ \A e \in Boxes \ {b} : run'[e] = run[e]
  BY <1>2, <1>3 DEF Inv, TypeOK, Goto
<1>10. CtxInv' /\ Accounted'
  <2>1. CtxInv'
    BY <1>2, <1>8, <1>9 DEF Inv, CtxInv, InCall
  <2> QED
    BY <1>2, <2>1 DEF Inv, Accounted
<1>11. BoxInv'
  BY <1>2, <1>3, <1>4, <1>5, <1>8, <1>9 DEF Inv, TypeOK, BoxInv
<1>12. VerdictInv' /\ PassedIsProved'
  BY <1>2, SameVerdict
<1> QED
  BY <1>6, <1>7, <1>10, <1>11, <1>12 DEF Inv

-----------------------------------------------------------------------------
(* The container.                                                            *)

\* r is right for whoever waits for container b.
Right(b, r) ==
  /\ r.at # "none" => r.mount = run[b].mount
  /\ \A w \in Workers : box[w] = b =>
       /\ r.at # "none"
       /\ r.at \in {"apply", "check"} => r.tree = Snapshot(w)
       /\ r.at = "check" => r.patch = patch[w]
       /\ r.at = "exited" /\ r.code = 0 => r.tree = Snapshot(w) /\ r.patch = patch[w]

\* A container that has become r keeps the invariant if r is right.
LEMMA BoxStep ==
  ASSUME Inv, NEW b \in Boxes, NEW r \in Containers,
         run[b].at # "none", run' = [run EXCEPT ![b] = r],
         UNCHANGED <<pc, job, patch, ctx, box, reason, proof, disk, losses>>,
         Right(b, r)
  PROVE  Inv'
<1>1. TypeOK'
  BY DEF Inv, TypeOK, job
<1>2. \A v \in Workers : Snapshot(v)' = Snapshot(v)
  BY SnapshotKept
<1>3. JobInv' /\ SnapshotExact'
  <2>1. JobInv'
    BY DEF Inv, JobInv, job
  <2> QED
    BY <2>1 DEF Inv, SnapshotExact, At, Fits, job
<1>4. CtxInv' /\ Accounted'
  <2>1. CtxInv'
    BY <1>2 DEF Inv, CtxInv
  <2> QED
    BY <2>1 DEF Inv, Accounted
<1>5. run'[b] = r /\ \A e \in Boxes \ {b} : run'[e] = run[e]
  BY DEF Inv, TypeOK
<1>6. BoxInv'
  <2>1. ASSUME NEW v \in Workers, pc[v] = "wait"
        PROVE  /\ run'[box[v]].at # "none" /\ run'[box[v]].mount = ctx[v]
               /\ run'[box[v]].at \in {"apply", "check"} => run'[box[v]].tree = Snapshot(v)
               /\ run'[box[v]].at = "check" => run'[box[v]].patch = patch[v]
               /\ run'[box[v]].at = "exited" /\ run'[box[v]].code = 0 =>
                    run'[box[v]].tree = Snapshot(v) /\ run'[box[v]].patch = patch[v]
    <3>1. box[v] \in Boxes
      BY <2>1 DEF Inv, TypeOK, BoxInv
    <3>2. CASE box[v] = b
      BY <1>5, <2>1, <3>2 DEF Inv, BoxInv, Right
    <3>3. CASE box[v] # b
      BY <1>5, <2>1, <3>1, <3>3 DEF Inv, BoxInv
    <3> QED
      BY <3>2, <3>3
  <2>2. \A e \in Boxes : run'[e].at # "none" => run'[e].mount \in Dirs
    BY <1>5 DEF Inv, BoxInv, Right
  <2> QED
    BY <1>2, <2>1, <2>2 DEF Inv, BoxInv
<1>7. VerdictInv' /\ PassedIsProved'
  BY <1>2 DEF Inv, VerdictInv, PassedIsProved
<1> QED
  BY <1>1, <1>3, <1>4, <1>6, <1>7 DEF Inv

\* An exit, with 0 only after a check of the right tree and patch.
LEMMA ExitInv ==
  ASSUME Inv, NEW b \in Boxes, NEW code \in Nat, Exit(b, code), run[b].at # "none",
         UNCHANGED <<pc, job, patch, ctx, box, reason, proof, disk, losses>>,
         code = 0 => run[b].at = "check"
  PROVE  Inv'
<1> DEFINE x == [at |-> "exited", mount |-> run[b].mount, tree |-> run[b].tree,
                 patch |-> run[b].patch, code |-> code]
<1>1. CASE \E w \in Workers : box[w] = b
  <2>1. run' = [run EXCEPT ![b] = x]
    BY <1>1 DEF Exit
  <2>2. run[b] \in Containers
    BY DEF Inv, TypeOK
  <2>3. x \in Containers
    BY <2>2 DEF Containers
  <2>4. \A w \in Workers : box[w] = b /\ code = 0 =>
          run[b].tree = Snapshot(w) /\ run[b].patch = patch[w]
    BY VerificationAssumption DEF Inv, BoxInv
  <2>5. /\ x.at = "exited" /\ x.mount = run[b].mount /\ x.tree = run[b].tree
        /\ x.patch = run[b].patch /\ x.code = code
    OBVIOUS
  <2> HIDE DEF x
  <2>6. Right(b, x)
    BY <2>4, <2>5 DEF Right
  <2> QED
    BY <2>1, <2>3, <2>6, BoxStep
<1>2. CASE ~\E w \in Workers : box[w] = b
  <2>1. run' = [run EXCEPT ![b] = NoRun]
    BY <1>2 DEF Exit
  <2>2. NoRun \in Containers /\ NoRun.at = "none"
    BY VerificationAssumption DEF NoRun, Containers
  <2> QED
    BY <1>2, <2>1, <2>2, BoxStep DEF Right
<1> QED
  BY <1>1, <1>2

LEMMA CopyInv ==
  ASSUME Inv, NEW b \in Boxes, Copy(b)
  PROVE  Inv'
<1> USE VerificationAssumption
<1> DEFINE m == disk[run[b].mount]
           x == [at |-> "apply", mount |-> run[b].mount, tree |-> m.files,
                 patch |-> None, code |-> 0]
<1>1. /\ run[b].at = "copy"
      /\ UNCHANGED <<pc, job, patch, ctx, box, reason, proof, disk, losses>>
  BY DEF Copy
<1>2. run[b].mount \in Dirs /\ m \in Contexts
  BY <1>1 DEF Inv, BoxInv, TypeOK
<1>3. CASE m.there
  <2>1. run' = [run EXCEPT ![b] = x]
    BY <1>3 DEF Copy
  <2>2. x \in Containers
    BY <1>2 DEF Containers, Contexts
  <2>3. \A w \in Workers : box[w] = b => m.files = Snapshot(w)
    BY DEF Inv, BoxInv, CtxInv
  <2>4. x.at = "apply" /\ x.mount = run[b].mount /\ x.tree = m.files
    OBVIOUS
  <2> HIDE DEF x
  <2>6. Right(b, x)
    BY <2>3, <2>4 DEF Right
  <2> QED
    BY <1>1, <2>1, <2>2, <2>6, BoxStep
<1>4. CASE ~m.there
  BY <1>1, <1>4, ExitInv DEF Copy
<1> QED
  BY <1>3, <1>4

LEMMA ApplyInv ==
  ASSUME Inv, NEW b \in Boxes, Apply(b)
  PROVE  Inv'
<1> USE VerificationAssumption
<1> DEFINE m == disk[run[b].mount]
           x == [at |-> "check", mount |-> run[b].mount, tree |-> run[b].tree,
                 patch |-> m.patch, code |-> 0]
<1>1. /\ run[b].at = "apply"
      /\ UNCHANGED <<pc, job, patch, ctx, box, reason, proof, disk, losses>>
  BY DEF Apply
<1>2. run[b].mount \in Dirs /\ m \in Contexts /\ run[b] \in Containers
  BY <1>1 DEF Inv, BoxInv, TypeOK
<1>3. CASE run' = [run EXCEPT ![b] = x]
  <2>2. x \in Containers
    BY <1>2 DEF Containers, Contexts
  <2>3. \A w \in Workers : box[w] = b => m.patch = patch[w] /\ run[b].tree = Snapshot(w)
    BY <1>1 DEF Inv, BoxInv, CtxInv
  <2>4. x.at = "check" /\ x.mount = run[b].mount /\ x.tree = run[b].tree /\ x.patch = m.patch
    OBVIOUS
  <2> HIDE DEF x
  <2>6. Right(b, x)
    BY <2>3, <2>4 DEF Right
  <2> QED
    BY <1>1, <1>3, <2>2, <2>6, BoxStep
<1>4. CASE Exit(b, PATCH_FAILED_EXIT)
  BY <1>1, <1>4, ExitInv DEF PATCH_FAILED_EXIT
<1> QED
  BY <1>3, <1>4 DEF Apply

LEMMA CheckInv ==
  ASSUME Inv, NEW b \in Boxes, Check(b)
  PROVE  Inv'
<1>1. PICK code \in {0, 1, 3} : Exit(b, code)
  BY DEF Check
<1> QED
  BY <1>1, ExitInv DEF Check

-----------------------------------------------------------------------------
(* The end of the call, and the end of the worker.                           *)

\* The container of w's call is gone or nobody's; the others keep theirs.
LEMMA ReleaseBox ==
  ASSUME Inv, NEW w \in Workers, NEW l, Goto(w, l), l # "wait",
         box' = [box EXCEPT ![w] = None],
         \A v \in Workers \ {w} :
           ctx'[v] = ctx[v] /\ patch'[v] = patch[v] /\ Snapshot(v)' = Snapshot(v),
         run' \in [Boxes -> Containers],
         \A b \in Boxes : run'[b] = run[b] \/ (run'[b].at = "none" /\ box[w] = b)
  PROVE  BoxInv'
<1>1. /\ pc'[w] = l /\ box'[w] = None
      /\ \A v \in Workers \ {w} : pc'[v] = pc[v] /\ box'[v] = box[v]
  BY DEF Inv, TypeOK, Goto
<1>3. ASSUME NEW v \in Workers \ {w}, pc[v] = "wait"
      PROVE  run'[box[v]] = run[box[v]]
  BY <1>3 DEF Inv, TypeOK, BoxInv
<1>4. ASSUME NEW v \in Workers
      PROVE  LET r == run'[box'[v]] IN
             /\ box'[v] # None <=> pc'[v] = "wait"
             /\ pc'[v] = "wait" =>
                  /\ r.at # "none" /\ r.mount = ctx'[v]
                  /\ r.at \in {"apply", "check"} => r.tree = Snapshot(v)'
                  /\ r.at = "check" => r.patch = patch'[v]
                  /\ r.at = "exited" /\ r.code = 0 =>
                       r.tree = Snapshot(v)' /\ r.patch = patch'[v]
  <2>1. CASE v = w
    BY <1>1, <2>1
  <2>2. CASE v # w
    BY <1>1, <1>3, <2>2 DEF Inv, BoxInv
  <2> QED
    BY <2>1, <2>2
<1>5. \A v, u \in Workers : v # u /\ box'[u] # None => box'[v] # box'[u]
  BY <1>1 DEF Inv, BoxInv
<1>6. \A b \in Boxes : run'[b].at # "none" => run'[b].mount \in Dirs
  BY DEF Inv, BoxInv
<1> QED
  BY <1>4, <1>5, <1>6 DEF BoxInv

\* The context stays with the call until it is removed.
LEMMA StillOwned ==
  ASSUME Inv, NEW w \in Workers, pc[w] = "wait", Goto(w, "rmtree"),
         UNCHANGED <<job, patch, ctx, disk, leaked, stuck>>
  PROVE  CtxInv' /\ Accounted'
<1>1. pc'[w] = "rmtree" /\ \A v \in Workers \ {w} : pc'[v] = pc[v]
  BY DEF Inv, TypeOK, Goto
<1>2. \A v \in Workers : Snapshot(v)' = Snapshot(v)
  BY SnapshotKept
<1>3. CtxInv'
  BY <1>1, <1>2 DEF Inv, CtxInv, InCall
<1> QED
  BY <1>3 DEF Inv, Accounted

LEMMA ReapInv ==
  ASSUME Inv, NEW w \in Workers, Reap(w)
  PROVE  Inv'
<1> USE VerificationAssumption
<1> DEFINE r == run[box[w]]
           p == [tree |-> r.tree, patch |-> r.patch, code |-> r.code]
<1>1. /\ pc[w] = "wait" /\ Goto(w, "rmtree") /\ r.at = "exited"
      /\ reason' = [reason EXCEPT ![w] = Interpret(r.code)]
      /\ proof' = [proof EXCEPT ![w] = p]
      /\ run' = [run EXCEPT ![box[w]] = NoRun] /\ box' = [box EXCEPT ![w] = None]
      /\ UNCHANGED <<job, patch, ctx, disk, losses>>
  BY DEF Reap
<1>2. box[w] \in Boxes /\ r \in Containers
  BY <1>1 DEF Inv, TypeOK, BoxInv
<1>3. p \in Proofs /\ NoRun \in Containers /\ NoRun.at = "none"
  BY <1>2 DEF Proofs, Containers, NoRun
<1>4. Interpret(r.code) \in Reasons /\ (Interpret(r.code) = "passed" => r.code = 0)
  BY DEF Interpret, Reasons
<1>5. r.code = 0 => p = [tree |-> Snapshot(w), patch |-> patch[w], code |-> 0]
  BY <1>1 DEF Inv, BoxInv
<1> HIDE DEF p
<1>6. TypeOK'
  <2>1. reason' \in [Workers -> Reasons] /\ proof' \in [Workers -> Proofs]
    BY <1>1, <1>3, <1>4 DEF Inv, TypeOK
  <2>2. run' \in [Boxes -> Containers] /\ box' \in [Workers -> Boxes \cup {None}]
    BY <1>1, <1>3 DEF Inv, TypeOK
  <2> QED
    BY <1>1, <2>1, <2>2 DEF Inv, TypeOK, Goto, job, InCall
<1>7. JobInv' /\ SnapshotExact'
  BY <1>1, SameJob
<1>8. CtxInv' /\ Accounted'
  BY <1>1, StillOwned
<1>9. BoxInv'
  <2>1. \A b \in Boxes : run'[b] = run[b] \/ (run'[b].at = "none" /\ box[w] = b)
    BY <1>1, <1>3 DEF Inv, TypeOK
  <2> QED
    BY <1>1, <1>6, <2>1, SnapshotKept, ReleaseBox DEF TypeOK
<1>10. /\ pc'[w] = "rmtree" /\ reason'[w] = Interpret(r.code) /\ proof'[w] = p
       /\ \A v \in Workers \ {w} :
            pc'[v] = pc[v] /\ reason'[v] = reason[v] /\ proof'[v] = proof[v]
  BY <1>1 DEF Inv, TypeOK, Goto
<1>11. \A v \in Workers : Snapshot(v)' = Snapshot(v)
  BY <1>1, SnapshotKept
<1>12. VerdictInv'
  BY <1>10 DEF Inv, VerdictInv
<1>13. PassedIsProved'
  <2> SUFFICES ASSUME NEW v \in Workers, reason'[v] = "passed"
               PROVE  proof'[v] = [tree |-> Snapshot(v)', patch |-> patch'[v], code |-> 0]
    BY DEF PassedIsProved
  <2>1. CASE v = w
    BY <1>1, <1>4, <1>5, <1>10, <1>11, <2>1
  <2>2. CASE v # w
    BY <1>1, <1>10, <1>11, <2>2 DEF Inv, PassedIsProved
  <2> QED
    BY <2>1, <2>2
<1> QED
  BY <1>6, <1>7, <1>8, <1>9, <1>12, <1>13 DEF Inv

\* What is left of a container whose CLI is gone.
LEMMA AbandonOK ==
  ASSUME Inv, NEW w \in Workers, Abandon(w)
  PROVE  /\ box' = [box EXCEPT ![w] = None]
         /\ run' \in [Boxes -> Containers]
         /\ \A b \in Boxes : run'[b] = run[b] \/ (run'[b].at = "none" /\ box[w] = b)
<1>1. NoRun \in Containers /\ NoRun.at = "none"
  BY VerificationAssumption DEF NoRun, Containers
<1>2. /\ box' = [box EXCEPT ![w] = None]
      /\ run' = [b \in Boxes |-> IF box[w] = b /\ run[b].at = "exited" THEN NoRun ELSE run[b]]
  BY DEF Abandon
<1>3. run' \in [Boxes -> Containers]
  BY <1>1, <1>2 DEF Inv, TypeOK
<1>4. \A b \in Boxes : run'[b] = run[b] \/ (run'[b].at = "none" /\ box[w] = b)
  BY <1>1, <1>2
<1> QED
  BY <1>2, <1>3, <1>4

LEMMA TimeoutInv ==
  ASSUME Inv, NEW w \in Workers, Timeout(w)
  PROVE  Inv'
<1> USE VerificationAssumption
<1>1. /\ pc[w] = "wait" /\ Goto(w, "rmtree") /\ Abandon(w)
      /\ reason' = [reason EXCEPT ![w] = "timeout"]
      /\ UNCHANGED <<job, patch, ctx, proof, disk, losses>>
  BY DEF Timeout
<1>2. TypeOK'
  <2>1. reason' \in [Workers -> Reasons]
    BY <1>1 DEF Inv, TypeOK, Reasons
  <2>2. run' \in [Boxes -> Containers] /\ box' \in [Workers -> Boxes \cup {None}]
    BY <1>1, AbandonOK DEF Inv, TypeOK
  <2> QED
    BY <1>1, <2>1, <2>2 DEF Inv, TypeOK, Goto, job, InCall
<1>3. JobInv' /\ SnapshotExact'
  BY <1>1, SameJob
<1>4. CtxInv' /\ Accounted'
  BY <1>1, StillOwned
<1>5. BoxInv'
  BY <1>1, AbandonOK, SnapshotKept, ReleaseBox
<1>6. /\ pc'[w] = "rmtree" /\ reason'[w] = "timeout"
      /\ \A v \in Workers \ {w} : pc'[v] = pc[v] /\ reason'[v] = reason[v]
  BY <1>1 DEF Inv, TypeOK, Goto
<1>7. \A v \in Workers : Snapshot(v)' = Snapshot(v)
  BY <1>1, SnapshotKept
<1>8. VerdictInv'
  BY <1>6 DEF Inv, VerdictInv
<1>9. PassedIsProved'
  BY <1>1, <1>6, <1>7 DEF Inv, PassedIsProved
<1> QED
  BY <1>2, <1>3, <1>4, <1>5, <1>8, <1>9 DEF Inv

LEMMA RmtreeInv ==
  ASSUME Inv, NEW w \in Workers, Rmtree(w)
  PROVE  Inv'
<1> USE VerificationAssumption
<1>1. /\ pc[w] = "rmtree" /\ Goto(w, "done")
      /\ disk' = [disk EXCEPT ![ctx[w]] = Absent] /\ ctx' = [ctx EXCEPT ![w] = None]
      /\ UNCHANGED <<job, patch, box, reason, proof, run, losses>>
  BY DEF Rmtree
<1>2. ctx[w] \in Dirs
  BY <1>1 DEF Inv, TypeOK, CtxInv, InCall
<1>3. Absent \in Contexts /\ ~Absent.there
  BY DEF Absent, Contexts
<1>4. TypeOK'
  BY <1>1, <1>2, <1>3 DEF Inv, TypeOK, Goto, job, InCall
<1>5. JobInv' /\ SnapshotExact'
  BY <1>1, SameJob
<1>6. \A v \in Workers : Snapshot(v)' = Snapshot(v)
  BY <1>1, SnapshotKept
<1>7. /\ pc'[w] = "done" /\ ctx'[w] = None /\ disk'[ctx[w]] = Absent
      /\ \A v \in Workers \ {w} :
           /\ pc'[v] = pc[v] /\ ctx'[v] = ctx[v]
           /\ ctx[v] \in Dirs => disk'[ctx[v]] = disk[ctx[v]]
      /\ \A e \in Dirs \ {ctx[w]} : disk'[e] = disk[e]
  BY <1>1, <1>2 DEF Inv, TypeOK, Goto, CtxInv
<1>8. CtxInv'
  BY <1>1, <1>6, <1>7 DEF Inv, TypeOK, CtxInv, InCall
<1>9. Accounted'
  BY <1>1, <1>3, <1>7 DEF Inv, Accounted
<1>10. BoxInv'
  BY <1>1, <1>6, <1>7 DEF Inv, BoxInv
<1>11. VerdictInv'
  BY <1>1, <1>7 DEF Inv, VerdictInv
<1>12. PassedIsProved'
  BY <1>1, <1>6 DEF Inv, PassedIsProved
<1> QED
  BY <1>4, <1>5, <1>8, <1>9, <1>10, <1>11, <1>12 DEF Inv

LEMMA RmtreeFailsInv ==
  ASSUME Inv, NEW w \in Workers, RmtreeFails(w)
  PROVE  Inv'
<1> USE VerificationAssumption
<1>1. /\ pc[w] = "rmtree" /\ Goto(w, "done")
      /\ crashes + failures < MaxLosses /\ failures' = failures + 1
      /\ stuck' = stuck \cup {ctx[w]} /\ ctx' = [ctx EXCEPT ![w] = None]
      /\ UNCHANGED <<job, patch, box, reason, proof, disk, run, leaked, crashes>>
  BY DEF RmtreeFails
<1>2. ctx[w] \in Dirs
  BY <1>1 DEF Inv, TypeOK, CtxInv, InCall
<1>3. /\ crashes' \in Nat /\ failures' \in Nat /\ crashes' + failures' <= MaxLosses
      /\ stuck' \subseteq Dirs
  BY <1>1, <1>2 DEF Inv, TypeOK
<1>4. TypeOK'
  BY <1>1, <1>3 DEF Inv, TypeOK, Goto, job, InCall
<1>5. JobInv' /\ SnapshotExact'
  BY <1>1, SameJob
<1>6. \A v \in Workers : Snapshot(v)' = Snapshot(v)
  BY <1>1, SnapshotKept
<1>7. /\ pc'[w] = "done" /\ ctx'[w] = None
      /\ \A v \in Workers \ {w} : pc'[v] = pc[v] /\ ctx'[v] = ctx[v]
  BY <1>1 DEF Inv, TypeOK, Goto
<1>8. CtxInv'
  BY <1>1, <1>6, <1>7 DEF Inv, CtxInv, InCall
<1>9. Accounted'
  BY <1>1, <1>7 DEF Inv, Accounted
<1>10. BoxInv'
  BY <1>1, <1>6, <1>7 DEF Inv, BoxInv
<1>11. VerdictInv'
  BY <1>1, <1>7 DEF Inv, VerdictInv
<1>12. PassedIsProved'
  BY <1>1, <1>6 DEF Inv, PassedIsProved
<1> QED
  BY <1>4, <1>5, <1>8, <1>9, <1>10, <1>11, <1>12 DEF Inv

\* A new process has no job, no call and no verdict; the disk and the containers
\* are what the old one left.
LEMMA CrashInv ==
  ASSUME Inv, Crash
  PROVE  Inv'
<1> USE VerificationAssumption
<1>1. /\ crashes + failures < MaxLosses /\ crashes' = crashes + 1
      /\ leaked' = leaked \cup ({ctx[w] : w \in Workers} \ {None})
      /\ run' = [b \in Boxes |-> IF run[b].at = "exited" THEN NoRun ELSE run[b]]
      /\ UNCHANGED <<disk, stuck, failures>>
  BY DEF Crash
<1>2. /\ pc' = [w \in Workers |-> "idle"] /\ tar' = [w \in Workers |-> <<>>]
      /\ walked' = [w \in Workers |-> 0] /\ kept' = [w \in Workers |-> {}]
      /\ total' = [w \in Workers |-> 0] /\ patch' = [w \in Workers |-> None]
      /\ ctx' = [w \in Workers |-> None] /\ box' = [w \in Workers |-> None]
      /\ reason' = [w \in Workers |-> ""] /\ proof' = [w \in Workers |-> NoProof]
  BY DEF Crash
<1>3. NoProof \in Proofs /\ NoRun \in Containers /\ NoRun.at = "none"
  BY DEF NoProof, NoRun, Proofs, Containers
<1>4. TypeOK'
  <2>1. crashes' \in Nat /\ failures' \in Nat /\ crashes' + failures' <= MaxLosses
    BY <1>1 DEF Inv, TypeOK
  <2>2. leaked' \subseteq Dirs /\ stuck' \subseteq Dirs /\ disk' \in [Dirs -> Contexts]
    BY <1>1 DEF Inv, TypeOK
  <2>3. run' \in [Boxes -> Containers]
    BY <1>1, <1>3 DEF Inv, TypeOK
  <2>4. /\ pc' \in [Workers -> {"idle", "extract", "fix", "mkdtemp", "done"} \cup InCall]
        /\ tar' \in [Workers -> Seq(Members)]
        /\ walked' \in [Workers -> Nat] /\ kept' \in [Workers -> SUBSET Nat]
        /\ total' \in [Workers -> 0..MaxTotalBytes]
    <3>1. <<>> \in Seq(Members) /\ 0 \in 0..MaxTotalBytes
      OBVIOUS
    <3> QED
      BY <1>2, <3>1
  <2>5. /\ patch' \in [Workers -> Patches \cup {None}]
        /\ ctx' \in [Workers -> Dirs \cup {None}] /\ box' \in [Workers -> Boxes \cup {None}]
        /\ reason' \in [Workers -> Reasons] /\ proof' \in [Workers -> Proofs]
    BY <1>2, <1>3 DEF Reasons
  <2> QED
    BY <2>1, <2>2, <2>3, <2>4, <2>5 DEF TypeOK
<1>5. ASSUME NEW w \in Workers
      PROVE  /\ walked'[w] = 0 /\ kept'[w] = {} /\ pc'[w] = "idle" /\ tar'[w] = <<>>
             /\ Len(tar'[w]) = 0 /\ 1..walked'[w] = {}
  <2>1. walked'[w] = 0 /\ kept'[w] = {} /\ pc'[w] = "idle" /\ tar'[w] = <<>>
    BY <1>2
  <2>2. Len(<<>>) = 0 /\ 1..0 = {}
    OBVIOUS
  <2> QED
    BY <2>1, <2>2
<1>6. JobInv'
  BY <1>5 DEF JobInv
<1>7. SnapshotExact'
  BY <1>5 DEF SnapshotExact
<1>8. CtxInv'
  BY <1>2 DEF CtxInv, InCall
<1>9. Accounted'
  <2> SUFFICES ASSUME NEW d \in Dirs, disk'[d].there
               PROVE  d \in leaked' \cup stuck'
    BY DEF Accounted
  <2>1. d \in leaked \cup stuck \/ \E w \in Workers : ctx[w] = d
    BY <1>1 DEF Inv, Accounted
  <2> QED
    BY <1>1, <2>1
<1>10. BoxInv'
  <2>1. \A b \in Boxes : run'[b].at # "none" => run'[b].mount \in Dirs
    BY <1>1, <1>3 DEF Inv, BoxInv
  <2> QED
    BY <1>2, <2>1 DEF BoxInv
<1>11. VerdictInv' /\ PassedIsProved'
  BY <1>2 DEF VerdictInv, PassedIsProved
<1> QED
  BY <1>4, <1>6, <1>7, <1>8, <1>9, <1>10, <1>11 DEF Inv

-----------------------------------------------------------------------------
\* Every step keeps the invariant.
LEMMA NextInv == Inv /\ [Next]_vars => Inv'
<1> SUFFICES ASSUME Inv, [Next]_vars PROVE Inv'
  OBVIOUS
<1>1. ASSUME NEW w \in Workers, Worker(w)
      PROVE  Inv'
  BY <1>1, DownloadInv, SkipInv, KeepInv, StopInv, ProposeInv, MkdtempInv, WriteContextInv,
     MkdtempRaisesInv, CallRaisesInv, DockerRunInv, DockerRefusesInv, ReapInv, TimeoutInv,
     RmtreeInv, RmtreeFailsInv, RetryInv, FinishInv DEF Worker, Attempt
<1>2. ASSUME NEW b \in Boxes, Container(b)
      PROVE  Inv'
  BY <1>2, CopyInv, ApplyInv, CheckInv DEF Container
<1>3. CASE UNCHANGED vars
  <2> USE <1>3
  <2>1. \A v \in Workers : Snapshot(v)' = Snapshot(v)
    BY SnapshotKept DEF vars
  <2>2. TypeOK' /\ JobInv' /\ VerdictInv' /\ Accounted'
    BY DEF vars, job, Inv, TypeOK, JobInv, VerdictInv, Accounted
  <2>3. SnapshotExact'
    BY DEF vars, job, Inv, SnapshotExact, At, Fits
  <2>4. CtxInv' /\ PassedIsProved'
    BY <2>1 DEF vars, Inv, CtxInv, PassedIsProved
  <2>5. BoxInv'
    BY <2>1 DEF vars, Inv, BoxInv
  <2> QED
    BY <2>2, <2>3, <2>4, <2>5 DEF Inv
<1> QED
  BY <1>1, <1>2, <1>3, CrashInv DEF Next

\* Types, and that the decoded text of one snapshot never exceeds its cap.
THEOREM VerificationTyped == Spec => []TypeOK
<1>1. Inv => TypeOK
  BY DEF Inv
<1> QED
  BY InitInv, NextInv, <1>1, PTL DEF Spec

\* _extract_repo_tarball drops nothing before the point where a cap ends it, for
\* every tarball.
THEOREM SnapshotsExact == Spec => []SnapshotExact
<1>1. Inv => SnapshotExact
  BY DEF Inv
<1> QED
  BY InitInv, NextInv, <1>1, PTL DEF Spec

\* A verdict "passed" stands on the right tree, the right patch and exit code 0,
\* for any number of calls, surviving containers and kills.
THEOREM VerdictsProved == Spec => []PassedIsProved
<1>1. Inv => PassedIsProved
  BY DEF Inv
<1> QED
  BY InitInv, NextInv, <1>1, PTL DEF Spec

\* Whatever ends a call, its context is removed unless the removal fails or the
\* process is killed; and a context is never removed under a call that works in it.
THEOREM ContextsAreAccountedFor == Spec => []ContextsAccountedFor
<1>1. Inv => ContextsAccountedFor
  BY DEF Inv, CtxInv, Accounted, ContextsAccountedFor
<1> QED
  BY InitInv, NextInv, <1>1, PTL DEF Spec

-----------------------------------------------------------------------------
(* The memory of the snapshots.                                              *)

\* total_bytes is what the loop kept, byte for byte.
TotalExact ==
  \A w \in Workers : IsFiniteSet(Text(w)) /\ Cardinality(Text(w)) = total[w]

LEMMA TextPair ==
  ASSUME NEW w, NEW x
  PROVE  x \in Text(w) <=> \E i \in kept[w] : \E b \in 1..Size[tar[w][i]] : x = <<i, b>>
BY DEF Text

LEMMA NoText ==
  ASSUME NEW w, kept[w] = {}
  PROVE  Text(w) = {} /\ IsFiniteSet(Text(w)) /\ Cardinality(Text(w)) = 0
<1>1. Text(w) = {}
  BY DEF Text
<1> QED
  BY <1>1, FS_EmptySet, Zenon

\* A file of n bytes.
LEMMA FileBytes ==
  ASSUME NEW i, NEW n \in Nat
  PROVE  IsFiniteSet({i} \X (1..n)) /\ Cardinality({i} \X (1..n)) = n
<1>1. IsFiniteSet({i}) /\ Cardinality({i}) = 1
  BY FS_Singleton, Zenon
<1>2. IsFiniteSet(1..n) /\ Cardinality(1..n) = IF 1 > n THEN 0 ELSE n - 1 + 1
  <2>1. 1 \in Int /\ n \in Int
    OBVIOUS
  <2> QED
    BY <2>1, FS_Interval, Zenon
<1>3. Cardinality(1..n) = n
  BY <1>2
<1>4. /\ IsFiniteSet({i} \X (1..n))
      /\ Cardinality({i} \X (1..n)) = Cardinality({i}) * Cardinality(1..n)
  BY <1>1, <1>2, FS_Product, Zenon
<1> QED
  BY <1>1, <1>3, <1>4

LEMMA TotalInit == Init => TotalExact
<1> SUFFICES ASSUME Init, NEW w \in Workers
             PROVE  IsFiniteSet(Text(w)) /\ Cardinality(Text(w)) = total[w]
  BY DEF TotalExact
<1>1. kept[w] = {} /\ total[w] = 0
  BY DEF Init
<1> QED
  BY <1>1, NoText

\* What a step does to the text of a worker whose job it leaves alone.
LEMMA TextKept ==
  ASSUME TotalExact, NEW v \in Workers,
         tar'[v] = tar[v], kept'[v] = kept[v], total'[v] = total[v]
  PROVE  IsFiniteSet(Text(v)') /\ Cardinality(Text(v)') = total'[v]
<1>1. Text(v)' = Text(v)
  BY Zenon DEF Text
<1> QED
  BY <1>1 DEF TotalExact

LEMMA KeepTotal ==
  ASSUME Inv, TotalExact, NEW w \in Workers, Keep(w)
  PROVE  TotalExact'
<1> USE VerificationAssumption
<1> SUFFICES ASSUME NEW v \in Workers
             PROVE  IsFiniteSet(Text(v)') /\ Cardinality(Text(v)') = total'[v]
  BY DEF TotalExact
<1> DEFINE n == walked[w]
           s == Size[At(w)]
<1>1. n \in Nat /\ n < Len(tar[w]) /\ Len(tar[w]) \in Nat
  BY DEF Inv, TypeOK, Keep, More
<1>2. /\ tar' = tar /\ kept' = [kept EXCEPT ![w] = @ \cup {n + 1}]
      /\ total' = [total EXCEPT ![w] = @ + s]
  BY DEF Keep
<1>3. s \in Nat
  BY <1>1 DEF Inv, TypeOK, At
<1>4. CASE v # w
  BY <1>2, <1>4, TextKept DEF Inv, TypeOK
<1>5. CASE v = w
  <2> DEFINE F == {n + 1} \X (1..s)
  <2>1. kept'[w] = kept[w] \cup {n + 1} /\ total'[w] = total[w] + s /\ tar'[w] = tar[w]
    BY <1>2 DEF Inv, TypeOK
  <2>2. n + 1 \notin kept[w]
    BY <1>1 DEF Inv, SnapshotExact
  <2>3. Text(w)' = Text(w) \cup F
    <3>1. Text(w)' = UNION {{i} \X (1..Size[tar[w][i]]) : i \in kept[w] \cup {n + 1}}
      BY <2>1 DEF Text
    <3>2. s = Size[tar[w][n + 1]]
      BY DEF At
    <3> QED
      BY <3>1, <3>2 DEF Text
  <2>4. Text(w) \cap F = {}
    <3> SUFFICES ASSUME NEW x \in Text(w), x \in F PROVE FALSE
      OBVIOUS
    <3>1. PICK i \in kept[w] : \E b \in 1..Size[tar[w][i]] : x = <<i, b>>
      BY TextPair
    <3>2. x[1] = i /\ x[1] = n + 1
      BY <3>1
    <3> QED
      BY <2>2, <3>2
  <2>5. IsFiniteSet(F) /\ Cardinality(F) = s
    <3> HIDE DEF s
    <3> QED
      BY <1>3, FileBytes
  <2>6. IsFiniteSet(Text(w)) /\ Cardinality(Text(w)) = total[w]
    BY DEF TotalExact
  <2>7. Cardinality({}) = 0
    BY FS_EmptySet, Zenon
  <2> HIDE DEF F
  <2>8. /\ IsFiniteSet(Text(w) \cup F)
        /\ Cardinality(Text(w) \cup F) =
             Cardinality(Text(w)) + Cardinality(F) - Cardinality(Text(w) \cap F)
    BY <2>5, <2>6, FS_Union, Zenon
  <2>9. total[w] \in Nat
    BY DEF Inv, TypeOK
  <2> HIDE DEF s
  <2>10. Cardinality(Text(w) \cup F) = total[w] + s
    <3> DEFINE C == Cardinality(Text(w) \cap F)
               D == Cardinality(Text(w) \cup F)
    <3>1. C = 0
      BY <2>4, <2>7, Zenon
    <3>2. D = total[w] + s - C
      BY <2>5, <2>6, <2>8, Zenon
    <3> HIDE DEF C, D
    <3>3. D = total[w] + s
      BY <1>3, <2>9, <3>1, <3>2
    <3> QED
      BY <3>3 DEF D
  <2> QED
    BY <1>5, <2>1, <2>3, <2>8, <2>10
<1> QED
  BY <1>4, <1>5

\* A new tarball, of which nothing is kept yet, or a job that is over.
LEMMA EmptyTotal ==
  ASSUME TotalExact, NEW w \in Workers, kept'[w] = {}, total'[w] = 0,
         \A v \in Workers \ {w} :
           tar'[v] = tar[v] /\ kept'[v] = kept[v] /\ total'[v] = total[v]
  PROVE  TotalExact'
<1> SUFFICES ASSUME NEW v \in Workers
             PROVE  IsFiniteSet(Text(v)') /\ Cardinality(Text(v)') = total'[v]
  BY DEF TotalExact
<1>1. CASE v # w
  BY <1>1, TextKept
<1>2. CASE v = w
  <2>1. Text(w)' = {}
    BY DEF Text
  <2> QED
    BY <1>2, <2>1, FS_EmptySet, Zenon
<1> QED
  BY <1>1, <1>2

LEMMA NextTotal == Inv /\ TotalExact /\ [Next]_vars => TotalExact'
<1> SUFFICES ASSUME Inv, TotalExact, [Next]_vars PROVE TotalExact'
  OBVIOUS
<1>1. CASE UNCHANGED <<tar, kept, total>>
  <2> SUFFICES ASSUME NEW v \in Workers
               PROVE  IsFiniteSet(Text(v)') /\ Cardinality(Text(v)') = total'[v]
    BY DEF TotalExact
  <2> QED
    BY <1>1, TextKept
<1>2. ASSUME NEW w \in Workers, Worker(w)
      PROVE  TotalExact'
  <2>1. CASE Download(w)
    <3>1. kept[w] = {} /\ total[w] = 0
      <4>1. kept[w] = {}
        BY <2>1 DEF Download, Inv, JobInv
      <4> QED
        BY <4>1, NoText DEF TotalExact
    <3> QED
      BY <2>1, <3>1, EmptyTotal DEF Download, Inv, TypeOK
  <2>2. CASE Keep(w)
    BY <2>2, KeepTotal
  <2>3. CASE Finish(w)
    <3>1. /\ tar' = [tar EXCEPT ![w] = <<>>] /\ kept' = [kept EXCEPT ![w] = {}]
          /\ total' = [total EXCEPT ![w] = 0]
      BY <2>3 DEF Finish
    <3> QED
      BY <3>1, EmptyTotal DEF Inv, TypeOK
  <2>4. CASE \/ Skip(w) \/ Stop(w) \/ Propose(w) \/ Mkdtemp(w) \/ MkdtempRaises(w)
             \/ WriteContext(w) \/ CallRaises(w) \/ DockerRun(w) \/ DockerRefuses(w)
             \/ Reap(w) \/ Timeout(w) \/ Rmtree(w) \/ RmtreeFails(w) \/ Retry(w)
    <3>1. UNCHANGED <<tar, kept, total>>
      BY <2>4 DEF Skip, Stop, Propose, Mkdtemp, MkdtempRaises, WriteContext, CallRaises,
                  DockerRun, DockerRefuses, Reap, Timeout, Rmtree, RmtreeFails, Retry, job
    <3> QED
      BY <1>1, <3>1
  <2> QED
    BY <1>2, <2>1, <2>2, <2>3, <2>4 DEF Worker, Attempt
<1>3. ASSUME NEW b \in Boxes, Container(b)
      PROVE  TotalExact'
  BY <1>1, <1>3 DEF Container, Copy, Apply, Check, job
<1>4. CASE Crash
  <2> SUFFICES ASSUME NEW v \in Workers
               PROVE  IsFiniteSet(Text(v)') /\ Cardinality(Text(v)') = total'[v]
    BY DEF TotalExact
  <2>1. Text(v)' = {} /\ total'[v] = 0
    BY <1>4 DEF Crash, Text
  <2> QED
    BY <2>1, FS_EmptySet, Zenon
<1> QED
  BY <1>1, <1>2, <1>3, <1>4 DEF Next, vars, job

\* One slot for each byte: a worker's text fits into its share.
LEMMA TotalIsBound ==
  ASSUME TypeOK, TotalExact
  PROVE  MemoryBounded
<1> USE VerificationAssumption
<1> DEFINE Held  == UNION {{w} \X Text(w) : w \in Workers}
           Slots == Workers \X (1..MaxTotalBytes)
           Fit   == [w \in Workers |-> CHOOSE f \in [Text(w) -> 1..MaxTotalBytes] :
                       \A x, y \in Text(w) : f[x] = f[y] => x = y]
           g     == [h \in Held |-> <<h[1], Fit[h[1]][h[2]]>>]
<1>1. ASSUME NEW w \in Workers
      PROVE  \E f \in [Text(w) -> 1..MaxTotalBytes] :
               \A x, y \in Text(w) : f[x] = f[y] => x = y
  <2>1. IsFiniteSet(Text(w)) /\ Cardinality(Text(w)) = total[w]
    BY DEF TotalExact
  <2>2. total[w] \in Nat /\ total[w] <= MaxTotalBytes
    BY DEF TypeOK
  <2>3. IsFiniteSet(1..total[w]) /\ Cardinality(1..total[w]) = total[w]
    <3>1. 1 \in Int /\ total[w] \in Int
      BY <2>2
    <3>2. /\ IsFiniteSet(1..total[w])
          /\ Cardinality(1..total[w]) = IF 1 > total[w] THEN 0 ELSE total[w] - 1 + 1
      BY <3>1, FS_Interval, Zenon
    <3> QED
      BY <2>2, <3>2
  <2>4. PICK f : f \in Bijection(Text(w), 1..total[w])
    BY <2>1, <2>3, FS_SameCardinalityBij DEF ExistsBijection
  <2>5. f \in [Text(w) -> 1..total[w]] /\ \A x, y \in Text(w) : f[x] = f[y] => x = y
    BY <2>4 DEF Bijection, Injection, IsInjective
  <2>6. f \in [Text(w) -> 1..MaxTotalBytes]
    BY <2>2, <2>5
  <2> QED
    BY <2>5, <2>6
<1>2. ASSUME NEW w \in Workers
      PROVE  /\ Fit[w] \in [Text(w) -> 1..MaxTotalBytes]
             /\ \A x, y \in Text(w) : Fit[w][x] = Fit[w][y] => x = y
  BY <1>1, Zenon
<1>3. ASSUME NEW h
      PROVE  h \in Held <=> \E w \in Workers : \E x \in Text(w) : h = <<w, x>>
  OBVIOUS
<1> HIDE DEF Fit, Held
<1>4. ASSUME NEW h \in Held
      PROVE  g[h] \in Slots
  <2>1. PICK w \in Workers : \E x \in Text(w) : h = <<w, x>>
    BY <1>3, <1>4
  <2>2. PICK x \in Text(w) : h = <<w, x>>
    BY <2>1
  <2>3. g[h] = <<w, Fit[w][x]>>
    BY <2>2
  <2>4. Fit[w][x] \in 1..MaxTotalBytes
    BY <1>2, <2>2
  <2> QED
    BY <2>3, <2>4
<1>5. ASSUME NEW h \in Held, NEW k \in Held, g[h] = g[k]
      PROVE  h = k
  <2>1. PICK w \in Workers : \E x \in Text(w) : h = <<w, x>>
    BY <1>3
  <2>2. PICK x \in Text(w) : h = <<w, x>>
    BY <2>1
  <2>3. PICK v \in Workers : \E y \in Text(v) : k = <<v, y>>
    BY <1>3
  <2>4. PICK y \in Text(v) : k = <<v, y>>
    BY <2>3
  <2>5. <<w, Fit[w][x]>> = <<v, Fit[v][y]>>
    BY <1>5, <2>2, <2>4
  <2>6. w = v /\ Fit[w][x] = Fit[w][y]
    BY <2>5
  <2> QED
    BY <1>2, <2>2, <2>4, <2>6
<1>6. g \in [Held -> Slots]
  BY <1>4
<1>7. g \in Injection(Held, Slots)
  <2> HIDE DEF g, Slots
  <2> QED
    BY <1>5, <1>6 DEF Injection, IsInjective
<1>8. IsFiniteSet(1..MaxTotalBytes) /\ Cardinality(1..MaxTotalBytes) = MaxTotalBytes
  <2>1. 1 \in Int /\ MaxTotalBytes \in Int
    OBVIOUS
  <2>2. /\ IsFiniteSet(1..MaxTotalBytes)
        /\ Cardinality(1..MaxTotalBytes) = IF 1 > MaxTotalBytes THEN 0 ELSE MaxTotalBytes - 1 + 1
    BY <2>1, FS_Interval, Zenon
  <2> QED
    BY <2>2
<1>9. /\ IsFiniteSet(Slots)
      /\ Cardinality(Slots) = Cardinality(Workers) * Cardinality(1..MaxTotalBytes)
  BY <1>8, FS_Product, Zenon
<1> HIDE DEF g, Slots
<1>10. Cardinality(Held) <= Cardinality(Slots)
  BY <1>7, <1>9, FS_Injection, Zenon
<1> QED
  BY <1>8, <1>9, <1>10 DEF MemoryBounded, Held

\* However many jobs a worker runs side by side, their snapshots together hold
\* no more than worker_concurrency times snapshot_max_total_bytes: total_bytes in
\* _extract_repo_tarball counts exactly what is kept.
THEOREM MemoryIsBounded == Spec => []MemoryBounded
<1>1. Inv => TypeOK
  BY DEF Inv
<1> QED
  BY InitInv, NextInv, TotalInit, NextTotal, TotalIsBound, <1>1, PTL DEF Spec

-----------------------------------------------------------------------------
(* The contexts on the disk.                                                 *)

\* Directories of run_verification on the disk at the same time: one for each
\* thread, as many again for each kill of the process, and one for each removal
\* that failed.
DiskBounded ==
  Cardinality({d \in Dirs : disk[d].there})
    <= Cardinality(Workers) * (1 + crashes) + failures

\* The contexts in use.
Open == {ctx[w] : w \in Workers} \ {None}

\* A kill leaks what is in use, a failed removal what it should have removed.
LeakInv ==
  /\ IsFiniteSet(leaked) /\ Cardinality(leaked) <= Cardinality(Workers) * crashes
  /\ IsFiniteSet(stuck) /\ Cardinality(stuck) <= failures

\* One for each thread at most.
LEMMA OpenBounded ==
  ASSUME TypeOK
  PROVE  /\ IsFiniteSet(Open) /\ Cardinality(Open) \in Nat
         /\ Cardinality(Open) <= Cardinality(Workers)
<1> DEFINE All == {ctx[w] : w \in Workers}
<1>1. ctx \in Surjection(Workers, All)
  BY DEF TypeOK, Surjection
<1>2. IsFiniteSet(Workers) /\ Cardinality(Workers) \in Nat
  BY VerificationAssumption, FS_CardinalityType
<1>3. IsFiniteSet(All) /\ Cardinality(All) <= Cardinality(Workers) /\ Cardinality(All) \in Nat
  BY <1>1, <1>2, FS_Surjection, FS_CardinalityType, Zenon
<1>4. Open \subseteq All
  BY DEF Open
<1> HIDE DEF All
<1>5. IsFiniteSet(Open) /\ Cardinality(Open) \in Nat /\ Cardinality(Open) <= Cardinality(All)
  BY <1>3, <1>4, FS_Subset, FS_CardinalityType
<1> QED
  BY <1>2, <1>3, <1>5

\* The size of a union.
LEMMA UnionBounded ==
  ASSUME NEW S, NEW T, NEW m \in Nat, NEW n \in Nat,
         IsFiniteSet(S), Cardinality(S) <= m, IsFiniteSet(T), Cardinality(T) <= n
  PROVE  /\ IsFiniteSet(S \cup T) /\ Cardinality(S \cup T) \in Nat
         /\ Cardinality(S \cup T) <= m + n
<1>1. IsFiniteSet(S \cap T)
  BY FS_Subset
<1>2. /\ Cardinality(S) \in Nat /\ Cardinality(T) \in Nat /\ Cardinality(S \cap T) \in Nat
  BY <1>1, FS_CardinalityType
<1>3. /\ IsFiniteSet(S \cup T)
      /\ Cardinality(S \cup T) = Cardinality(S) + Cardinality(T) - Cardinality(S \cap T)
  BY FS_Union
<1>4. Cardinality(S \cup T) \in Nat
  BY <1>3, FS_CardinalityType
<1> QED
  BY <1>2, <1>3, <1>4

LEMMA NextLeak == Inv /\ LeakInv /\ [Next]_vars => LeakInv'
<1> SUFFICES ASSUME Inv, LeakInv, [Next]_vars PROVE LeakInv'
  OBVIOUS
<1>1. CASE UNCHANGED losses
  BY <1>1 DEF LeakInv
<1> DEFINE N == Cardinality(Workers)
<1>2. N \in Nat /\ crashes \in Nat /\ failures \in Nat /\ N * crashes \in Nat
  BY VerificationAssumption, FS_CardinalityType DEF Inv, TypeOK
<1>3. CASE Crash
  <2>1. leaked' = leaked \cup Open /\ crashes' = crashes + 1 /\ UNCHANGED <<stuck, failures>>
    BY <1>3 DEF Crash, Open
  <2>2. IsFiniteSet(Open) /\ Cardinality(Open) <= N
    BY OpenBounded DEF Inv
  <2>3. IsFiniteSet(leaked) /\ Cardinality(leaked) <= N * crashes
    BY DEF LeakInv
  <2> HIDE DEF N
  <2>4. IsFiniteSet(leaked') /\ Cardinality(leaked') <= N * crashes + N
    BY <1>2, <2>1, <2>2, <2>3, UnionBounded
  <2>5. N * (crashes + 1) = N * crashes + N
    BY <1>2
  <2>6. Cardinality(leaked') <= N * crashes'
    BY <2>1, <2>4, <2>5
  <2> QED
    BY <2>1, <2>4, <2>6 DEF LeakInv, N
<1>4. ASSUME NEW w \in Workers, RmtreeFails(w)
      PROVE  LeakInv'
  <2>1. /\ stuck' = stuck \cup {ctx[w]} /\ failures' = failures + 1
        /\ UNCHANGED <<leaked, crashes>>
    BY <1>4 DEF RmtreeFails
  <2>2. IsFiniteSet({ctx[w]}) /\ Cardinality({ctx[w]}) <= 1
    <3>1. IsFiniteSet({ctx[w]}) /\ Cardinality({ctx[w]}) = 1
      BY FS_Singleton, Zenon
    <3> QED
      BY <3>1
  <2>3. IsFiniteSet(stuck) /\ Cardinality(stuck) <= failures
    BY DEF LeakInv
  <2>4. IsFiniteSet(stuck') /\ Cardinality(stuck') <= failures + 1
    BY <1>2, <2>1, <2>2, <2>3, UnionBounded
  <2> QED
    BY <2>1, <2>4 DEF LeakInv
<1>5. ASSUME NEW w \in Workers, Worker(w), ~RmtreeFails(w)
      PROVE  UNCHANGED losses
  BY <1>5 DEF Worker, Attempt, Download, Skip, Keep, Stop, Propose, Mkdtemp, MkdtempRaises,
     WriteContext, CallRaises, DockerRun, DockerRefuses, Reap, Timeout, Rmtree, Retry, Finish
<1>6. ASSUME NEW b \in Boxes, Container(b)
      PROVE  UNCHANGED losses
  BY <1>6 DEF Container, Copy, Apply, Check
<1> QED
  BY <1>1, <1>3, <1>4, <1>5, <1>6 DEF Next, vars

\* No sequence of jobs, time-outs, failed builds and retries fills the disk: the
\* contexts on it are bounded by the threads, the kills and the removals that
\* failed, not by the calls.
THEOREM DiskIsBounded == Spec => []DiskBounded
<1>1. Init => LeakInv
  <2>1. IsFiniteSet({}) /\ Cardinality({}) = 0
    BY FS_EmptySet, Zenon
  <2>2. Cardinality(Workers) * 0 = 0
    BY VerificationAssumption, FS_CardinalityType
  <2>3. ASSUME Init PROVE leaked = {} /\ stuck = {} /\ crashes = 0 /\ failures = 0
    BY <2>3 DEF Init
  <2> QED
    BY <2>1, <2>2, <2>3 DEF LeakInv
<1>2. ASSUME Inv, LeakInv PROVE DiskBounded
  <2> DEFINE There == {d \in Dirs : disk[d].there}
             N == Cardinality(Workers)
  <2>1. There \subseteq (leaked \cup stuck) \cup Open
    BY <1>2, VerificationAssumption DEF Inv, Accounted, Open
  <2>2. N \in Nat /\ crashes \in Nat /\ failures \in Nat /\ N * crashes \in Nat
    BY <1>2, VerificationAssumption, FS_CardinalityType DEF Inv, TypeOK
  <2>3. IsFiniteSet(Open) /\ Cardinality(Open) <= N
    BY <1>2, OpenBounded DEF Inv
  <2>4. /\ IsFiniteSet(leaked) /\ Cardinality(leaked) <= N * crashes
        /\ IsFiniteSet(stuck) /\ Cardinality(stuck) <= failures
    BY <1>2 DEF LeakInv
  <2> HIDE DEF There, N
  <2>5. IsFiniteSet(leaked \cup stuck) /\ Cardinality(leaked \cup stuck) <= N * crashes + failures
    BY <2>2, <2>4, UnionBounded
  <2>6. /\ IsFiniteSet((leaked \cup stuck) \cup Open)
        /\ Cardinality((leaked \cup stuck) \cup Open) \in Nat
        /\ Cardinality((leaked \cup stuck) \cup Open) <= (N * crashes + failures) + N
    <3>1. N * crashes + failures \in Nat
      BY <2>2
    <3> QED
      BY <2>2, <2>3, <2>5, <3>1, UnionBounded
  <2>7. /\ Cardinality(There) \in Nat
        /\ Cardinality(There) <= Cardinality((leaked \cup stuck) \cup Open)
    BY <2>1, <2>6, FS_Subset, FS_CardinalityType
  <2>8. N * (1 + crashes) = N * crashes + N
    BY <2>2
  <2>9. Cardinality(There) <= N * (1 + crashes) + failures
    BY <2>2, <2>6, <2>7, <2>8
  <2> QED
    BY <2>9 DEF DiskBounded, There, N
<1> QED
  BY InitInv, NextInv, NextLeak, <1>1, <1>2, PTL DEF Spec
=============================================================================
