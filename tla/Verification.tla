---------------------------- MODULE Verification ----------------------------
(***************************************************************************)
(* How a proposed patch is proved: the tree at the head commit, the        *)
(* throwaway context on the host, the container that applies and checks,   *)
(* and the verdict, for the jobs one worker process runs side by side.     *)
(*                                                                         *)
(*   app/routing/github.py   snapshot_repo, _extract_repo_tarball          *)
(*   app/sandbox/runner.py   _ENTRY, _write_context, run_verification      *)
(*   app/sandbox/policy.py   interpret                                     *)
(*   app/sandbox/verifier.py fix_verifier_node, from the sandbox call on   *)
(*                                                                         *)
(* The timeout of run_verification ends the docker CLI; the container is   *)
(* the daemon's and goes on.  The process may be killed at any step, with  *)
(* all of its threads: neither their contexts nor their containers are     *)
(* anybody's after that.  Nor is a context whose removal failed: rmtree is *)
(* told to ignore errors, and nobody tries it again.                       *)
(***************************************************************************)
EXTENDS Integers, Sequences, FiniteSets

CONSTANTS
  Workers,        \* the threads of the process: jobs in flight (worker_concurrency)
  Members,        \* entries of a repository tarball
  Kind,           \* "text", "binary", "escape" (a path out of the tree), "dir"
  Size,           \* in bytes
  Tars,           \* the tarballs GitHub may answer with: sequences of members
  Patches,        \* what the Fix Agent may propose
  Dirs,           \* names mkdtemp may draw; bounds the contexts on the disk
  Boxes,          \* bound of the containers at one time
  None,
  MaxFileBytes,   \* snapshot_max_file_bytes
  MaxFiles,       \* snapshot_max_files
  MaxTotalBytes,  \* snapshot_max_total_bytes
  MaxLosses       \* bound of the kills and the failed removals together

ASSUME VerificationAssumption ==
  /\ IsFiniteSet(Workers)
  /\ Kind \in [Members -> {"text", "binary", "escape", "dir"}]
  /\ Size \in [Members -> Nat]
  /\ Tars \subseteq Seq(Members)
  /\ None \notin Dirs \cup Boxes \cup Patches
  /\ MaxFileBytes \in Nat /\ MaxTotalBytes \in Nat
  /\ MaxFiles \in Nat \ {0}
  /\ MaxLosses \in Nat

VARIABLES
  pc,       \* of each worker
  tar,      \* the tarball of its job's commit
  walked,   \* how many of the members the loop is through with
  kept,     \* the positions of those it kept: repo_snapshot
  total,    \* total_bytes
  patch,    \* proposed_fix
  ctx,      \* the context of the call, or None
  box,      \* the container the CLI waits for, or None
  reason,   \* verification_reason, "" before there is one
  proof,    \* history: what the container that was judged had done
  disk,     \* what is in each context directory
  run,      \* what each container is doing
  leaked,   \* history: contexts of calls that were killed
  stuck,    \* history: contexts whose removal failed
  crashes,  \* history: kills of the process
  failures  \* history: failed removals

job    == <<tar, walked, kept, total>>
losses == <<leaked, stuck, crashes, failures>>
vars   == <<pc, job, patch, ctx, box, reason, proof, disk, run, losses>>

Absent == [there |-> FALSE, files |-> {}, patch |-> None]
NoRun  == [at |-> "none", mount |-> None, tree |-> {}, patch |-> None, code |-> 0]
NoProof == [tree |-> {}, patch |-> None, code |-> 1]

Init ==
  /\ pc = [w \in Workers |-> "idle"]
  /\ tar = [w \in Workers |-> <<>>]
  /\ walked = [w \in Workers |-> 0]
  /\ kept = [w \in Workers |-> {}]
  /\ total = [w \in Workers |-> 0]
  /\ patch = [w \in Workers |-> None]
  /\ ctx = [w \in Workers |-> None]
  /\ box = [w \in Workers |-> None]
  /\ reason = [w \in Workers |-> ""]
  /\ proof = [w \in Workers |-> NoProof]
  /\ disk = [d \in Dirs |-> Absent]
  /\ run = [b \in Boxes |-> NoRun]
  /\ leaked = {} /\ stuck = {}
  /\ crashes = 0 /\ failures = 0

Goto(w, l) == pc' = [pc EXCEPT ![w] = l]

-----------------------------------------------------------------------------
(* snapshot_repo.  A failed or outsized download raises; the job is          *)
(* redelivered and starts over.                                              *)
Download(w) ==
  /\ pc[w] = "idle"
  /\ \E t \in Tars : tar' = [tar EXCEPT ![w] = t]
  /\ Goto(w, "extract")
  /\ UNCHANGED <<walked, kept, total, patch, ctx, box, reason, proof, disk, run, losses>>

\* The member the loop is at, and the tests it makes in their order.
At(w)   == tar[w][walked[w] + 1]
More(w) == pc[w] = "extract" /\ walked[w] < Len(tar[w])

Considered(m) == Kind[m] # "dir" /\ Size[m] <= MaxFileBytes
Fits(w)       == total[w] + Size[At(w)] <= MaxTotalBytes
Usable(m)     == Kind[m] = "text"

Walk(w) == walked' = [walked EXCEPT ![w] = @ + 1]

\* continue: no file, too large, or, once it is known to fit, no safe path, no text.
Skip(w) ==
  /\ More(w)
  /\ ~Considered(At(w)) \/ (Fits(w) /\ ~Usable(At(w)))
  /\ Walk(w)
  /\ UNCHANGED <<pc, tar, kept, total, patch, ctx, box, reason, proof, disk, run, losses>>

\* Mutant of Keep: the file is not added to the total.
KeepUncounted(w) ==
  /\ More(w)
  /\ Considered(At(w)) /\ Fits(w) /\ Usable(At(w))
  /\ Walk(w)
  /\ kept' = [kept EXCEPT ![w] = @ \cup {walked[w] + 1}]
  /\ Goto(w, IF Cardinality(kept[w]) + 1 >= MaxFiles THEN "fix" ELSE "extract")
  /\ UNCHANGED <<tar, total, patch, ctx, box, reason, proof, disk, run, losses>>

\* Append; the loop ends at max_files.
Keep(w) ==
  /\ More(w)
  /\ Considered(At(w)) /\ Fits(w) /\ Usable(At(w))
  /\ Walk(w)
  /\ kept' = [kept EXCEPT ![w] = @ \cup {walked[w] + 1}]
  /\ total' = [total EXCEPT ![w] = @ + Size[At(w)]]
  /\ Goto(w, IF Cardinality(kept[w]) + 1 >= MaxFiles THEN "fix" ELSE "extract")
  /\ UNCHANGED <<tar, patch, ctx, box, reason, proof, disk, run, losses>>

\* Mutant of Stop: a file that cannot be used ends the loop.
StopAtUnusable(w) ==
  /\ pc[w] = "extract"
  /\ More(w) => Considered(At(w)) /\ ~(Fits(w) /\ Usable(At(w)))
  /\ Goto(w, "fix")
  /\ UNCHANGED <<job, patch, ctx, box, reason, proof, disk, run, losses>>

\* break at a file that does not fit, or the end of the tarball.
Stop(w) ==
  /\ pc[w] = "extract"
  /\ More(w) => Considered(At(w)) /\ ~Fits(w)
  /\ Goto(w, "fix")
  /\ UNCHANGED <<job, patch, ctx, box, reason, proof, disk, run, losses>>

Snapshot(w) == {tar[w][i] : i \in kept[w]}

-----------------------------------------------------------------------------
(* fix_verifier_node with a patch and a check for it.                        *)
Propose(w) ==
  /\ pc[w] = "fix"
  /\ \E p \in Patches : patch' = [patch EXCEPT ![w] = p]
  /\ IF kept[w] = {}
     THEN Goto(w, "done") /\ reason' = [reason EXCEPT ![w] = "no_snapshot"]
     ELSE Goto(w, "mkdtemp") /\ UNCHANGED reason
  /\ UNCHANGED <<job, proof, ctx, box, disk, run, losses>>

\* Mutant of Mkdtemp: one directory for everybody.
MkdtempShared(w) ==
  /\ pc[w] = "mkdtemp"
  /\ LET d == CHOOSE d \in Dirs : TRUE IN
     /\ ctx' = [ctx EXCEPT ![w] = d]
     /\ disk' = [disk EXCEPT ![d] = [@ EXCEPT !.there = TRUE]]
  /\ Goto(w, "write")
  /\ UNCHANGED <<job, patch, box, reason, proof, run, losses>>

\* A name that is not on the disk; nor does a container still mount it.  Which
\* one mkdtemp draws makes no difference, and neither does a container's.
FreshDirs  == {d \in Dirs : ~disk[d].there /\ \A b \in Boxes : run[b].mount # d}
FreshBoxes == {b \in Boxes : run[b].at = "none"}

Mkdtemp(w) ==
  /\ pc[w] = "mkdtemp"
  /\ FreshDirs # {}
  /\ LET d == CHOOSE d \in FreshDirs : TRUE IN
     /\ ctx' = [ctx EXCEPT ![w] = d]
     /\ disk' = [disk EXCEPT ![d] = [there |-> TRUE, files |-> {}, patch |-> None]]
  /\ Goto(w, "write")
  /\ UNCHANGED <<job, patch, box, reason, proof, run, losses>>

\* Not even the directory: mkdtemp stands before the try.
MkdtempRaises(w) ==
  /\ pc[w] = "mkdtemp"
  /\ reason' = [reason EXCEPT ![w] = "sandbox_error"]
  /\ Goto(w, "done")
  /\ UNCHANGED <<job, patch, ctx, box, proof, disk, run, losses>>

\* _write_context: the files and the patch.
WriteContext(w) ==
  /\ pc[w] = "write"
  /\ disk' = [disk EXCEPT ![ctx[w]] =
       [there |-> TRUE, files |-> @.files \cup Snapshot(w), patch |-> patch[w]]]
  /\ Goto(w, "docker")
  /\ UNCHANGED <<job, patch, ctx, box, reason, proof, run, losses>>

\* The disk is full, or there is no docker CLI: the exception ends the call.
CallRaises(w) ==
  /\ pc[w] \in {"write", "docker"}
  /\ reason' = [reason EXCEPT ![w] = "sandbox_error"]
  /\ Goto(w, "rmtree")
  /\ UNCHANGED <<job, patch, ctx, box, proof, disk, run, losses>>

DockerRun(w) ==
  /\ pc[w] = "docker"
  /\ FreshBoxes # {}
  /\ LET b == CHOOSE b \in FreshBoxes : TRUE IN
     /\ run' = [run EXCEPT ![b] =
          [at |-> "copy", mount |-> ctx[w], tree |-> {}, patch |-> None, code |-> 0]]
     /\ box' = [box EXCEPT ![w] = b]
  /\ Goto(w, "wait")
  /\ UNCHANGED <<job, patch, ctx, reason, proof, disk, losses>>

\* No daemon, no image: the CLI itself exits, with 125 and no container.
DockerRefuses(w) ==
  /\ pc[w] = "docker"
  /\ reason' = [reason EXCEPT ![w] = "check_failed"]
  /\ Goto(w, "rmtree")
  /\ UNCHANGED <<job, patch, ctx, box, proof, disk, run, losses>>

-----------------------------------------------------------------------------
(* _ENTRY, inside the container.                                             *)
PATCH_FAILED_EXIT == 3

\* The exit code waits for the CLI; --rm takes away what nobody waits for.
Exit(b, code) ==
  run' = [run EXCEPT ![b] =
    IF \E w \in Workers : box[w] = b
    THEN [at |-> "exited", mount |-> @.mount, tree |-> @.tree, patch |-> @.patch, code |-> code]
    ELSE NoRun]

\* The CLI is gone: the container stays as long as it runs.
Abandon(w) ==
  /\ box' = [box EXCEPT ![w] = None]
  /\ run' = [b \in Boxes |-> IF box[w] = b /\ run[b].at = "exited" THEN NoRun ELSE run[b]]

\* cp -r out of the mount; set -e ends the script if it is gone.
Copy(b) ==
  /\ run[b].at = "copy"
  /\ LET m == disk[run[b].mount] IN
     IF m.there
     THEN run' = [run EXCEPT ![b] = [at |-> "apply", mount |-> @.mount,
                    tree |-> m.files, patch |-> None, code |-> 0]]
     ELSE Exit(b, 1)
  /\ UNCHANGED <<pc, job, patch, ctx, box, reason, proof, disk, losses>>

\* git apply of what the mount holds by now, at -p1 and at -p0.
Apply(b) ==
  /\ run[b].at = "apply"
  /\ LET m == disk[run[b].mount] IN
     \/ /\ m.patch # None
        /\ run' = [run EXCEPT ![b] = [at |-> "check", mount |-> @.mount,
                     tree |-> @.tree, patch |-> m.patch, code |-> 0]]
     \/ Exit(b, PATCH_FAILED_EXIT)
  /\ UNCHANGED <<pc, job, patch, ctx, box, reason, proof, disk, losses>>

\* exec "$@": fixed, not fixed, or 3, an exit of pytest's own (internal error).
\* A check that hangs takes no step.
Check(b) ==
  /\ run[b].at = "check"
  /\ \E code \in {0, 1, 3} : Exit(b, code)
  /\ UNCHANGED <<pc, job, patch, ctx, box, reason, proof, disk, losses>>

-----------------------------------------------------------------------------
(* The rest of run_verification, and interpret.                              *)

Interpret(code) ==
  IF code = PATCH_FAILED_EXIT THEN "patch_apply_failed"
  ELSE IF code = 0 THEN "passed" ELSE "check_failed"

\* The CLI ends with its container.
Reap(w) ==
  /\ pc[w] = "wait"
  /\ LET r == run[box[w]] IN
     /\ r.at = "exited"
     /\ reason' = [reason EXCEPT ![w] = Interpret(r.code)]
     /\ proof' = [proof EXCEPT ![w] = [tree |-> r.tree, patch |-> r.patch, code |-> r.code]]
  /\ run' = [run EXCEPT ![box[w]] = NoRun]
  /\ box' = [box EXCEPT ![w] = None]
  /\ Goto(w, "rmtree")
  /\ UNCHANGED <<job, patch, ctx, disk, losses>>

\* Mutant of Timeout: the context is left behind on this path.
TimeoutNoCleanup(w) ==
  /\ pc[w] = "wait"
  /\ reason' = [reason EXCEPT ![w] = "timeout"]
  /\ Abandon(w)
  /\ ctx' = [ctx EXCEPT ![w] = None]
  /\ Goto(w, "done")
  /\ UNCHANGED <<job, patch, proof, disk, losses>>

\* Mutant of Timeout: a container that has got as far as the check is waited for.
TimeoutUnlessChecking(w) ==
  /\ pc[w] = "wait"
  /\ run[box[w]].at # "check"
  /\ reason' = [reason EXCEPT ![w] = "timeout"]
  /\ Abandon(w)
  /\ Goto(w, "rmtree")
  /\ UNCHANGED <<job, patch, ctx, proof, disk, losses>>

\* sandbox_timeout_s: subprocess.run kills the CLI, whatever the container does.
Timeout(w) ==
  /\ pc[w] = "wait"
  /\ reason' = [reason EXCEPT ![w] = "timeout"]
  /\ Abandon(w)
  /\ Goto(w, "rmtree")
  /\ UNCHANGED <<job, patch, ctx, proof, disk, losses>>

\* finally: shutil.rmtree.
Rmtree(w) ==
  /\ pc[w] = "rmtree"
  /\ disk' = [disk EXCEPT ![ctx[w]] = Absent]
  /\ ctx' = [ctx EXCEPT ![w] = None]
  /\ Goto(w, "done")
  /\ UNCHANGED <<job, patch, box, reason, proof, run, losses>>

\* ... with ignore_errors: the directory stays and the call returns.  Part of what is
\* in it may be gone, which only a container that nobody waits for could still see.
RmtreeFails(w) ==
  /\ pc[w] = "rmtree"
  /\ crashes + failures < MaxLosses
  /\ failures' = failures + 1
  /\ stuck' = stuck \cup {ctx[w]}
  /\ ctx' = [ctx EXCEPT ![w] = None]
  /\ Goto(w, "done")
  /\ UNCHANGED <<job, patch, box, reason, proof, disk, run, leaked, crashes>>

\* What the next verification writes anew.
Reset(w) ==
  /\ reason' = [reason EXCEPT ![w] = ""]
  /\ patch' = [patch EXCEPT ![w] = None]
  /\ proof' = [proof EXCEPT ![w] = NoProof]

\* The graph: another attempt on the same tree, or the end of the job.
Retry(w) ==
  /\ pc[w] = "done"
  /\ reason[w] \in {"check_failed", "patch_apply_failed", "timeout"}
  /\ Goto(w, "fix")
  /\ Reset(w)
  /\ UNCHANGED <<job, ctx, box, disk, run, losses>>

Finish(w) ==
  /\ pc[w] = "done"
  /\ Goto(w, "idle")
  /\ Reset(w)
  /\ tar' = [tar EXCEPT ![w] = <<>>]
  /\ walked' = [walked EXCEPT ![w] = 0]
  /\ kept' = [kept EXCEPT ![w] = {}]
  /\ total' = [total EXCEPT ![w] = 0]
  /\ UNCHANGED <<ctx, box, disk, run, losses>>

\* The process is killed, all its threads with it: no finally runs, and the jobs
\* will be delivered again.  The containers stay as long as they run.
Crash ==
  /\ crashes + failures < MaxLosses
  /\ \E w \in Workers : pc[w] # "idle"
  /\ crashes' = crashes + 1
  /\ leaked' = leaked \cup ({ctx[w] : w \in Workers} \ {None})
  /\ run' = [b \in Boxes |-> IF run[b].at = "exited" THEN NoRun ELSE run[b]]
  /\ pc' = [w \in Workers |-> "idle"]
  /\ tar' = [w \in Workers |-> <<>>]
  /\ walked' = [w \in Workers |-> 0]
  /\ kept' = [w \in Workers |-> {}]
  /\ total' = [w \in Workers |-> 0]
  /\ patch' = [w \in Workers |-> None]
  /\ ctx' = [w \in Workers |-> None]
  /\ box' = [w \in Workers |-> None]
  /\ reason' = [w \in Workers |-> ""]
  /\ proof' = [w \in Workers |-> NoProof]
  /\ UNCHANGED <<disk, stuck, failures>>

-----------------------------------------------------------------------------
\* Once it has its tarball, a thread goes on by itself to the end of the attempt.
Attempt(w) ==
  \/ Skip(w) \/ Keep(w) \/ Stop(w) \/ Propose(w)
  \/ Mkdtemp(w) \/ MkdtempRaises(w) \/ WriteContext(w) \/ CallRaises(w)
  \/ DockerRun(w) \/ DockerRefuses(w) \/ Reap(w) \/ Timeout(w)
  \/ Rmtree(w) \/ RmtreeFails(w)

Worker(w) == Download(w) \/ Attempt(w) \/ Retry(w) \/ Finish(w)

Container(b) == Copy(b) \/ Apply(b) \/ Check(b)

Next ==
  \/ \E w \in Workers : Worker(w)
  \/ \E b \in Boxes : Container(b)
  \/ Crash

Spec == Init /\ [][Next]_vars

\* A thread that can go on does, and the timer of subprocess.run is one of the
\* ways on; a container owes nobody anything, and no job is owed to a thread.
FairSpec == Spec /\ \A w \in Workers : WF_vars(Attempt(w))

-----------------------------------------------------------------------------
InCall == {"write", "docker", "wait", "rmtree"}
Reasons == {"", "no_snapshot", "sandbox_error", "timeout", "patch_apply_failed",
            "check_failed", "passed"}

Contexts   == [there : BOOLEAN, files : SUBSET Members, patch : Patches \cup {None}]
Containers == [at : {"none", "copy", "apply", "check", "exited"},
               mount : Dirs \cup {None}, tree : SUBSET Members,
               patch : Patches \cup {None}, code : Nat]
Proofs     == [tree : SUBSET Members, patch : Patches \cup {None}, code : Nat]

\* Types; the decoded text of a snapshot stays below its cap.
TypeOK ==
  /\ pc \in [Workers -> {"idle", "extract", "fix", "mkdtemp", "done"} \cup InCall]
  /\ tar \in [Workers -> Seq(Members)]
  /\ walked \in [Workers -> Nat]
  /\ kept \in [Workers -> SUBSET Nat]
  /\ total \in [Workers -> 0..MaxTotalBytes]
  /\ patch \in [Workers -> Patches \cup {None}]
  /\ ctx \in [Workers -> Dirs \cup {None}]
  /\ box \in [Workers -> Boxes \cup {None}]
  /\ reason \in [Workers -> Reasons]
  /\ proof \in [Workers -> Proofs]
  /\ disk \in [Dirs -> Contexts]
  /\ run \in [Boxes -> Containers]
  /\ leaked \subseteq Dirs /\ stuck \subseteq Dirs
  /\ crashes \in Nat /\ failures \in Nat /\ crashes + failures <= MaxLosses

\* A snapshot is what the tarball has of usable files up to where the loop
\* stopped, and it stops early for a cap only: nothing is dropped in between.
SnapshotExact ==
  \A w \in Workers :
    /\ kept[w] = {i \in 1..walked[w] : Considered(tar[w][i]) /\ Usable(tar[w][i])}
    /\ pc[w] \notin {"idle", "extract"} =>
         \/ walked[w] = Len(tar[w])
         \/ Cardinality(kept[w]) >= MaxFiles
         \/ Considered(At(w)) /\ ~Fits(w)

\* The text a job holds, byte by byte: the b-th of the file at position i.
Text(w) == UNION {{i} \X (1..Size[tar[w][i]]) : i \in kept[w]}

\* The text all jobs of a worker process hold together.
MemoryBounded ==
  Cardinality(UNION {{w} \X Text(w) : w \in Workers})
    <= Cardinality(Workers) * MaxTotalBytes

\* "passed" says that this job's patch was applied to this job's whole snapshot
\* and that the check then exited with 0, with other calls, timed-out ones and
\* their surviving containers at work beside it.
PassedIsProved ==
  \A w \in Workers :
    reason[w] = "passed" =>
      proof[w] = [tree |-> Snapshot(w), patch |-> patch[w], code |-> 0]

\* Every context on the disk is accounted for: a call in progress works in it, the
\* process was killed in that call, or its removal was tried and failed; so every
\* path out of run_verification reaches the removal.  And no removal takes away the
\* context of a call that still works in it.
ContextsAccountedFor ==
  /\ \A d \in Dirs :
       disk[d].there => d \in leaked \cup stuck \/ \E w \in Workers : ctx[w] = d
  /\ \A w \in Workers : ctx[w] # None => disk[ctx[w]].there

\* Every attempt of a thread comes to a verdict, unless the process is killed: the
\* loop over the tarball ends, and so does the sandbox call, whatever its container
\* does and whether or not its context can be removed.
AttemptEnds(w) ==
  pc[w] \in {"extract", "fix"} ~>
    (pc[w] = "done" /\ reason[w] # "") \/ pc[w] = "idle"

-----------------------------------------------------------------------------
\* runner.py, "a hang is killed": no container outlives the call that started it
\* (unless that worker was killed).
HangIsKilled ==
  \A b \in Boxes :
    run[b].at \in {"copy", "apply", "check"} =>
      \/ \E w \in Workers : box[w] = b
      \/ run[b].mount \in leaked

\* policy.py, PATCH_FAILED_EXIT is "distinct from any verifier tool's exit code".
RejectedIsUnapplied ==
  \A w \in Workers : reason[w] = "patch_apply_failed" => proof[w].patch = None
=============================================================================
