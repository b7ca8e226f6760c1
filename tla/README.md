# AUTOPR: verification project

AutoPR receives GitHub webhooks, turns them into durable jobs, lets a graph of
LLM agents review the pull request or repair a failing build, and decides what
may be posted to GitHub and what has to wait for a maintainer. This directory
holds TLA+ models of its core, the TLC configurations that check them, and
TLAPS proofs of the properties that hold for every size of the system.

## 1. Inventory

| Component | State | Operations | Talks to |
|---|---|---|---|
| Webhook ingestion (`app/ingest.py`, `webhook` in `app/main.py`) | rows of `pr_jobs` | `ingest`, `claim_and_publish` | database, stream |
| Job queue (`app/queue.py`) | the Redis stream, the group's pending list with idle times | XADD, XREADGROUP, XAUTOCLAIM, XACK | Redis |
| Worker (`app/worker.py`) | batch, thread pool, claims in `pr_jobs` (`status`, `attempts`, `updated_at`), `job_results` | `run_forever`, `run_once`, `_handle_message`, `process_job`, `reconcile_pending` | queue, database, graph |
| Agent graph (`app/agents/*`) | `PRState` of one run | the six nodes, the conditional edges, the fix loop | LLM, sandbox |
| Sandbox (`app/sandbox/*`, `snapshot_repo`) | context directories on the host, containers of the daemon | `_extract_repo_tarball`, `_write_context`, `run_verification`, `interpret`, `fix_verifier_node` | GitHub, Docker |
| Routing policy (`app/routing/policy.py`) | none | `route`, `risk_rank` | - |
| Router and ledger (`app/routing/router.py`, `store.py`) | rows of `review_decisions` | `router_node`, `enqueue_tracked`, `claim_approval`, `reject_pending`, `requeue_failed`, `mark_*`, `sweep_interrupted` | database, GitHub |
| Review API, comment commands (`app/main.py`, `app/commands.py`) | requests in flight, the ORM session of a request | approve, reject, start-up sweep | ledger, GitHub |
| GitHub clients (`app/routing/github.py`, `app/github_app.py`) | the App's JWT, a token per installation, the owner of each repository, shared by threads | post, list files, snapshot, mint, `repo_installation`, `collaborator_permission` | GitHub |
| Tenancy, quotas (`app/tenancy.py`, `quota.py`) | rows of `installations`, counts over `pr_jobs` | `upsert`, `get_active`, `apply_event`, `quota_reason`, `dedup_exists` | database |
| Rate limiter (`app/ratelimit.py`) | a window per client address | `allow`, `resolve_client_ip` | - |
| Configuration and gates (`app/config.py`, `lifespan` and the dependencies in `app/main.py`, `app/security.py`) | the settings object, the queue of the process | validators, start-up, readiness, token checks, the choice of clients | environment, Redis, database |
| Dashboard (`frontend/`), RAG, capacity planner, scripts, migrations | - | - | API |

Work flows in one direction: a webhook commits a row and appends a stream
entry; a worker thread claims the row, runs the graph, records the result and
acknowledges the entry; the last node of the graph writes the decision ledger
and perhaps posts; people approve or reject through the API or a PR comment.
Every hand-over is a pair of effects in two systems (database and Redis,
database and GitHub) with no common transaction, so every hand-over has a
window in which a crash, an error, a lost reply or another actor can intervene.
Those windows are what the models are about.

The hard behaviours, with their lines, are the hazards of `PROJECT.json`.

What makes each component correct:

* pipeline - an accepted job is not lost, is on the stream once, runs in one
  handler at a time, is not run again once its result is recorded, its final
  status stays, it ends DONE or DEAD, and DEAD only after `max_attempts` runs;
* ledger - nothing that was gated is posted without a person's approval, a
  decision is posted at most once, a verdict stands, a claim is never stranded;
* admission - a quota bounds the jobs of every window, up to the races the code
  accepts, a deleted tenant gets no more work, a tenant is never refused for a
  missing row, a redelivery costs no quota;
* graph - only a patch that passed its check is proposed, code changes always
  wait for a person, the fix loop is bounded and uses its budget;
* verification - "passed" is about this patch on this tree, the snapshot is what
  the caps allow and no more, a call removes its context on every way out, every
  attempt comes to a verdict;
* credentials - no request goes out with an expired token or a JWT GitHub would
  refuse, and a write goes out for an installation that owned the repository
  recently;
* deployment - an instance that started may do what its settings say: a public
  one never writes to GitHub, hand-off and dry-run override every credential, only the
  holder of the token decides;
* limiter - a request is counted under the address that sent it, a burst is
  bounded, a client that waits as long as it is told is let in.

## 2. Modules

| Module | Models |
|---|---|
| `JobPipeline` | ingestion, queue, worker pool, reconciler |
| `JobLife` | abstract: the life of a job, which `JobPipeline` implements |
| `MCJobPipeline` | its instances for TLC |
| `JobPipelineProofs` | its theorems |
| `ReviewDecisions` | router, ledger, approval from dashboard and comments, start-up sweep, GitHub posts |
| `MCReviewDecisions` | its instances |
| `ReviewDecisionsProofs` | its theorems |
| `ReviewGraph` | one job in the graph: handler, nodes, fix loop, policy (checked directly) |
| `FixLoop` | abstract: a bounded loop of tried and proven patches, which `ReviewGraph` implements |
| `ReviewGraphProofs` | its theorems |
| `Admission` | the webhook in front of the pipeline: tenancy, allowlist, quotas, INSERT |
| `MCAdmission` | its instance |
| `AdmissionProofs` | its theorems |
| `Verification`, `MCVerification`, `VerificationProofs` | the snapshot, the context, the container and the verdict, for the threads of one worker |
| `AppCredentials`, `MCAppCredentials`, `AppCredentialsProofs` | the three caches of `AppAuth` under threads and two clocks |
| `Deployment`, `MCDeployment`, `DeploymentProofs` | settings, start-up, client factories and the gates of every request |
| `ApiGuard`, `ApiGuardProofs` | the client address, the token and the fixed-window limiter (checked directly) |

The exact lines behind each definition are in `PROJECT.json` under `map`.

### JobPipeline

`status`, `attempts` are the columns of `pr_jobs`; `result` is `job_results`;
`entry` is the stream (an entry is new, pending or acked, with its idle time);
`pub` is a `claim_and_publish` in progress, in a webhook request or in a
worker's sweep; `loop`, `sweep`, `batch` are a worker's main thread and `th` its
handler threads. One action is one commit or one Redis command, so every gap
between them is visible: INSERT | PENDING->QUEUED | XADD | `stream_msg_id`; read |
claim | handler | result and DONE | XACK.

Two clocks matter and they start at different moments: an entry's idle time (from
its delivery) and the row's lease (from the claim). Both are kept as saturating
ages, advanced by `Tick`. `stamp` abstracts `updated_at` to what the test
`updated_at == claim_stamp` can see: whose claim wrote it last. `onupdate` makes
every other UPDATE clear it (`Touch`).

The environment is a parameter: `Faults` (XADD refused, landed but reply lost,
duplicated by the client's retry; XACK refused or reply lost; database error),
`CrashPoints` (where a process may die) and `Pacing` (how long things take
relative to the reclaim window).

`JobLife` is what the component promises without any of this: a job waits, runs
in one handler at a time, goes back to waiting, and ends once, completed or, after
exactly `MaxAttempts` runs, escalated. The refinement mapping (`Phase`) calls a job
running while a thread runs its handler and otherwise reads the row; PENDING,
QUEUED and a PROCESSING row nobody works on are all "waiting".

### ReviewDecisions

`status` is the column of `review_decisions`, `origin` the router path that
created the row, `claimed` the decisions a person ever claimed, `posts` the
comments on GitHub. An actor is a graph run in a worker or an approve request;
its `seen` is the status its ORM object holds, because an ORM assignment of an
equal value issues no UPDATE. `api` and `found` model a process that starts and
sweeps: the SELECT and the commit are two actions. Requests in `Commenters` come
from a PR comment: they load the row before the claim and hold their token
already; dashboard requests load it after the claim and mint inside the post.

Abstractions: the claim's UPDATE and the reload that follows it are one step for
the dashboard; `enqueue_tracked` is an atomic get-or-create (its unique key makes
it so). `handoff_mode`, dry-run and `public_mode` are off: they only remove steps.
A mark may fail at its commit (`MarkRaises`), which leaves the row as it was.

### ReviewGraph

The variables are the keys of `PRState` that control depends on; a patch is the
number of the attempt that made it; `proven` is a history variable with the
patches whose check really exited 0. What the models, GitHub and the sandbox
answer is nondeterministic over all outcomes the code distinguishes. Any node
that asks a model may raise; the next delivery starts with a fresh state.

`FixLoop` is the promise: patches are tried one after another within a budget, a
check that passed proves one and ends the trying, only a proven patch is proposed
and only a review may pass the human gate. The nodes, the retrieval, the risk
ranks and the answers of the models are not visible in it.

### Admission

`known` and `marks` are the rows of `installations` (`marks` says which of
`suspended_at` and `deleted_at` are set), `created` the `created_at` of the jobs,
`h` the delivery in the hands of each API process. `webhook` is a coroutine that
awaits nothing after the body, so one process handles one delivery at a time;
deliveries race between processes only, and one action is one statement. An
installation event decides on the row that `upsert` loaded (`seen`); work is
judged by `get_active`, which reads the row again, because nothing keeps the
object `upsert` returned alive in the session. `quota_reason` reads the clock once
(`asof`) and then counts three times. `held`, `late` and `stray` are history
variables. Publishing and running an admitted job are `JobPipeline`'s; here the
worker is `Start`, which shows what it does not look at.

Left out: signatures, body limits and the rate limit (they only refuse), account
metadata, the parsing of payloads beyond key and installation.

### Verification

A worker's `pc` goes through `snapshot_repo` (one action per tarball member, with
the tests in the order of the loop), `_write_context`, the docker CLI, and the
`finally` that removes the context. `disk` is what each context directory holds,
`run` what each container does: it copies its mount, applies, checks and exits
while the CLI waits, and it goes on after a timeout, because `subprocess.run`
kills the CLI and the container is the daemon's. `Workers` are the threads of one
process, and a kill (`Crash`) takes them all: each leaves its context (`leaked`) and
its container. The removal may fail as well (`RmtreeFails`): `rmtree` is told to
ignore errors, so the context stays (`stuck`) and nobody tries again. How much of
its content is gone then is left open, since no call reads it any more. `proof` is a history variable: what the judged container had really
done. The content of a file is its position in the tarball; a check either passes
or fails; the flags that harden the container are left out. Only the code the
container exits with reaches `interpret`, docker's own 125-127 included: an image
that cannot be started reads as `check_failed`.

### AppCredentials

`jwt`, `tokens` and `repos` are the caches, `owner` the truth at GitHub, `skew` the
error of the host's clock. A thread reads a clock, looks a cache up, asks GitHub
and stores the answer in separate steps, since no lock is held across a request;
`age` is how old its clock reading is. Times are distances, never dates: `left` is
what this process computed, `life` what GitHub will still accept. Tokens are
judged by the monotonic clock, JWTs by the wall clock, which may be stepped.
`MaxHold` bounds a request by the client's time-out. `expires_at` may be
unreadable, which `_parse_expiry` answers with a default. `invalidate` and
`installation_info` have no caller in `app/` and are left out.

### Deployment

`live` is the settings object of the process, a record of the settings that the
validators, the client factories and the gates look at; a string is `empty`,
`blank`, `padded` or `clean`, which is what stripping tells apart. Start-up is one
action (settings, schema, the sweep of abandoned claims, which may change the
ledger, and the queue: Redis may be down and the process starts without one). Each request is one action whose outcome is a status and an effect:
nothing, a job, a change of the ledger, a write with the App's or with the
operator's credential. `last` holds the last request with its outcome. Whether a
decision exists, or a caller is over its limit, is a nondeterministic answer of
`ReviewDecisions` and `ApiGuard`.

### ApiGuard

A request arrives through proxies that each append what they saw; the client may
have written anything into `X-Forwarded-For`. The proxies are assumed to continue
the line they received, as nginx (the example in `docs/operations.md`) does:
`_client_ip` reads the first line of that name only (`main.py:197`), so behind a
proxy that adds a line of its own `CountedUnderSender` is not claimed. The limiter
is on: with `rate_limit_enabled = false` (`main.py:230`) it is not consulted at all. `key` is what `resolve_client_ip`
makes of it. The token is checked before the limiter on the routes that ask for
it (`Gated`). `allow` reads the clock, then takes the lock: `read` is how old the
reading is when the window is compared, so windows may be judged by readings out
of order. `win` is the start (as an age) and count of each key's window;
`sender`, `bound` and `admitted` are history variables. The map of windows is
never shrunk by the code; an elapsed window and none are the same thing to it.

## 3. Runs

| Run | Result | What it shows |
|---|---|---|
| `pipeline_safe` | pass, 127,866 states | in the environment the code is written for (XADD refused; deaths at `claim`, `confirm`, `escalate`, `ack`; every entry handled inside the window): `NoLostJob`, `OneHandler`, `OneMessagePerJob`, `NoRunAfterResult`, the refinement `ImplementsJobLife`, and under fairness `JobsSettle` |
| `pipeline_hostile` | pass, 787,542 states | what survives every fault, death and delay: `AttemptsBound`, `DeadIsExhausted` |
| `decisions_safe` | pass, 15,349 states | one API process, gated actions, clean failures: `PostedOnce`, `RejectedForGood` with a dashboard and two comment requests racing |
| `decisions_hostile` | pass, 718,061 states | everything on, failed commits of a mark included: `HumanGate` |
| `decisions_live` | pass, 23,313 states | dashboard approvals, posts that fail or lose their reply, deaths anywhere: `ClaimHasOwner`, `ClaimsResolve` |
| `graph_loop` | pass, 816 states | both tracks, two attempts, two deliveries, the highest ceiling: `ProposalProven`, `CodeChangeGated`, `FixBudget`, `RunEnds` and the refinement `ImplementsFixLoop` |
| `admission` | pass, 2,667,512 states | two API processes, work and installation events interleaved: `SoftCeiling`, `GoneAdmitsNothing`, `RetryExempt`, `OnboardingNeverMissing`, `DeletedForGood` |
| `verification` | pass, 778,932 states | two threads, containers that outlive a timeout, a kill or a removal that fails: `SnapshotExact`, `MemoryBounded`, `PassedIsProved`, `ContextsAccountedFor`, and under fairness `VerdictReached` |
| `app_credentials` | pass, 3.3 million states | two threads on the caches while time passes, the clock is stepped and the App is uninstalled: `LiveAtUse`, `JwtAccepted`, `WriteRecent`, `RefusalRecent` |
| `deployment` | pass, 928,752 states | every combination of the settings that matter, Redis and the database coming and going: `PublicIsReadOnly`, `WritesAsConfigured`, `OnlyTheHolderDecides` |
| `api_guard` | pass, 286,205 states | two request threads, forged headers, stale clock readings: `CountedUnderSender`, `RetryHonoured`, `BurstBound`, `WindowsApart`, `SpentByHolders` |
| `crash_before_xadd` | violation | a death between the QUEUED commit and XADD strands the job (`NoLostJob`) |

Type invariants, `RowsExist` and `ExecutedForGood` are not listed with the runs:
they are proved (section 4).

The violation is a disagreement between the code and what its own comments and
docs say; `PROJECT.json` quotes the lines. A safe run excludes exactly the
ingredients of such violations, so the pair says where the guarantee ends.

Further disagreements of the same kind, each with a configuration of its own that
makes TLC print the trace:

| Configuration | Property | What happens |
|---|---|---|
| `JobPipelineLostReply` | `OneHandler` | a lost XADD reply puts a running job back to PENDING; two handlers run it (`ingest.py:378`) |
| `JobPipelineCrashInHandler` | `NoLostJob` | a dead worker's entry becomes reclaimable before the row's lease expires; the reclaimer loses the claim and acknowledges the last entry (`worker.py:315`) |
| `JobPipelineBatchWait` | `NoLostJob` | no crash: an entry ages while it waits in the batch, is reclaimed under a healthy handler and acknowledged; the handler then fails (`worker.py:486`, against `config.py:145`) |
| `JobPipelineRetriedXadd` | `FailureLosesToReclaim` | the except branch of `_handle_message` overwrites a newer claim (`worker.py:429`, against `worker.py:348`) |
| `JobPipelineCap` | `HardCap` | two threads read below the cap and both execute (`worker.py:271`, against `config.py:139`) |
| `JobPipelineConfirmRace` | `FailureHandsBack` | the `stream_msg_id` commit moves `updated_at` under a claim, so the release matches nothing (`ingest.py:386`, against `worker.py:337`) |
| `JobPipelineAckFails` | `NoRunAfterResult` | an XACK error reopens a DONE job (`worker.py:420`) |
| `ReviewDecisionsAutoRace` | `PostedOnce` | the auto path posts a row people can approve meanwhile (`router.py:201`) |
| `ReviewDecisionsGateBypass` | `AutoLeavesTheGate` | the auto path executes a row the gate created (`router.py:215`) |
| `ReviewDecisionsRaise` | `ClaimHasOwner` | an exception of the token mint strands an approval (`github_app.py:347`) |
| `ReviewDecisionsAutoReject` | `RejectedForGood` | a rejection during an auto post is overtaken and overwritten (`router.py:227`, against `main.py:623`) |
| `ReviewDecisionsRolling` | `PostedOnce` | one process's start-up sweep fails a claim another process is executing (`store.py:229`, against `store.py:225`) |
| `ReviewDecisionsLostReply` | `PostedOnce` | a post that landed but timed out is FAILED and retried (`github.py:131`, against `store.py:132`) |
| `ReviewDecisionsStaleComment` | `ClaimHasOwner` | a comment that loaded the row FAILED before the claim issues no UPDATE when it fails (`commands.py:237`) |
| `ReviewDecisionsRejectFailed` | `FailedCanBeRejected` | FAILED rows cannot be rejected (`store.py:263`, against `main.py:94`) |
| `ReviewGraphRetries` | `RetriesPromised` | `max_fix_attempts = 1` gives no retry (`graph.py:90`, against `config.py:210`; `tests/test_worker_graph.py:279` agrees with the code) |
| `ReviewGraphCeiling` | `UnknownIsCautious` | a ceiling that is no risk label ranks as the highest (`policy.py:250`, against `policy.py:52`) |
| `AdmissionInactive` | `InactiveDoesNoWork` | a worker starts a job of an installation that was deleted after the job was admitted (`worker.py:293`, against `models.py:209`) |
| `DeploymentAppReads` | `CommentsOnTheDiff` | an instance configured with the App alone, without an operator token, gets the fake reader, so its comments are about an empty change set (`routing/github.py:394`, against `docs/install.md:99`) |
| `DeploymentPublicQueue` | `PublicQueueClosed` | approve and reject answer 403 on a public instance, but a comment command of a collaborator still changes the ledger there: `commands.py:141` does not look at `public_mode` (against `main.py:627`, "nobody may mutate the queue, operator token included", and `tests/test_public_mode.py:1`, "read by anyone, write by nobody"). `PublicIsReadOnly` states what is left: no write to GitHub, and no other path to the ledger |
| `VerificationHang` | `HangIsKilled` | the timeout kills the docker CLI and the argv has no `--stop-timeout`, so a hanging container runs on (against `runner.py:16`) |
| `VerificationSentinel` | `RejectedIsUnapplied` | the exit code that stands for "the patch did not apply" is also one of pytest's (internal error), so an applied patch can be reported as unapplied (against `policy.py:25`) |

Smaller observations from the reading, without a configuration: the total-bytes
test of the snapshot precedes the tests of path and encoding, so a file that would
be skipped can end the loop; the raw tarball is in memory beside the extracted
files; a limit of 0 admits one request per window.

### Bounds

* `pipeline_safe`: one job (rows of different jobs share only the thread pool),
  two requests and two workers with a thread each, so every pair of publishers
  and every pair of handlers meets; `MaxAttempts = 2` gives a retry and an
  escalation; `Idle = 2` is the smallest window in which an age can be strictly
  between 0 and the window; three deliveries are a creator and two duplicates.
* `pipeline_hostile`: `MaxAttempts = 1` with two threads reaches the overshoot;
  three entries allow a retried XADD and a republication of one job.
* `decisions_*`: one decision (rows are independent); two runs and two or three
  requests; three graph runs allow create, fail, requeue or auto retry.
* `admission`: two processes are the smallest race; limits 1, 1 and 2 with three
  admissible keys let each of the three quotas refuse, but only the repository's can
  exceed its ceiling, so the tenant's and the instance's parts of `SoftCeiling` rest
  on the theorem `CeilingHolds`; a fourth key
  is outside the allowlist, one key has no installation; windows of one and two
  ticks and a clock of three let jobs leave the hour and the day. The processes
  are interchangeable (symmetry).
* `verification`: two workers and two containers, so that a container left by a
  timeout meets the next call's; three tarballs: nothing usable, ended by the total,
  ended by the count, each cap hit exactly and exceeded by one; one kill of the
  process or one failed removal (`MaxLosses` bounds them together). One patch: that a
  verdict is not about another call's patch rests on the theorem `VerdictsProved`.
  `VerdictReached` follows one of the threads, which are interchangeable.
* `app_credentials`: two threads are the smallest race for a cache; a skew and a
  hold of one tick with the durations at the limits `CredentialsAssumption` allows,
  so every margin is tight; one repository and one installation (`None` is the
  second owner). The threads are interchangeable (symmetry).
* `deployment`: all values of the settings that the properties tell apart; two
  hosts, a container and one whose probe is overridden.
* `api_guard`: limit two and a window of three ticks with a hold of one: a window
  can be opened by a stale reading, filled and outlived; two forged entries and two
  proxies let a forged suffix look like a chain.
* `graph_loop`: two attempts are a fix and a retry; two deliveries show that a
  redelivery starts fresh.

`CHECK_DEADLOCK FALSE` is set because the budgets run out and a run of the graph
ends: the system may then really be at rest.

### Fairness

`JobPipeline!FairSpec`: weak fairness for every publisher, worker loop and
handler thread (a live process continues; a dead worker is restarted by its
supervisor) and for time. Nothing forces deliveries, faults or crashes.
Handlers are fair as a whole: they return or raise, never hang, which the LLM,
HTTP and sandbox time-outs justify. `ReviewDecisions!FairSpec`: runs and requests
go on, a dead API process is restarted. `ReviewGraph!FairSpec`: a run that has
started goes on; a redelivery is not forced. `Verification!FairSpec`: weak
fairness of each thread's steps inside an attempt (`Attempt`: the tarball loop, the
call and its timeout, the removal, successful or not), as a live thread runs on. The
container is not fair: it may hang for ever, and `VerdictReached` holds all the same
because the timeout of `subprocess.run` is among the thread's own steps. Downloads,
retries and kills are never forced.

## 4. Proofs

All theorems hold for every value of the constants allowed by the modules' named
assumptions.

* `JobPipelineProofs`. `TypeCorrect` and `ReferencesExist` from `RefInv`: types,
  `RowsExist` and "what is held was sent" (a fetched entry's job is only known
  because the entry is on the stream). `AttemptsBounded`: `AttemptsBound` is not
  inductive; `ReadersBound` counts the threads that have passed the check and not
  yet claimed, so that attempts + readers is bounded. `EscalationJustified`:
  strengthened by what a thread on its way to escalate has read; attempts never
  decrease. `EntriesBounded`: a job has one entry and one more at most for each
  fault; inductive once what may still become an entry counts too, the row on the
  shelf and the publisher that has claimed it (`EntriesInv`). These hold in every
  environment, hostile ones included.
  The others name what they assume of it. `MessageUnique` (no XADD reply lost or
  retried) from `MsgInv`: a row on the shelf has no entry, a publisher that won the
  compare-and-set has a row off the shelf, no entry and no rival. `HandlerAlone`
  (moreover entries are dealt with inside the window) from `HoldInv`: an entry in
  hand is in one hand and XAUTOCLAIM will not give it out again; with one entry per
  job that is one thread per job. `CapIsHard` (the same assumptions): what a thread
  read of `attempts` is still true when it claims (`CapInv`), so the overshoot of
  `AttemptsBound` takes two threads on one job. `FailuresYield` (no error but
  refused XADDs, deaths anywhere): a thread that failed has its own stamp on the row
  or none (`StampInv`). Each other fault of the model refutes it, since the except
  branch of `_handle_message` does not compare the stamp. `NoJobLost`, `NoRerun` and the refinement
  `PipelineImplementsLife` (`Kind`: the environment of `pipeline_safe` without its
  bounds) from `KindInv`: a thread is on its way to XACK exactly when its job is
  settled, what it read of `attempts` is still true, an unsettled job has an entry
  that is not acknowledged or a publisher that holds it, PROCESSING means a thread,
  a result means DONE. Each clause of `Kind` is needed; the configurations of
  section 3 drop them one by one.
* `ReviewDecisionsProofs`. `DecisionsTyped`; `GateHolds`: `HumanGate` strengthened
  to everything that leads to a post (`Released`: a status, a sweep or an actor
  that authorises one), in every environment. `ExactlyOnce` and `VerdictsStand`
  assume `Dependable` (no auto path, one API process, no lost replies, neither a death
  nor a database error between a landed post and its mark) and rest on `ClaimInv`: an executing actor's
  row is APPROVED, a claim has one holder, a landed comment is recorded or about
  to be, a sweep finds only abandoned rows. Each exclusion of `Dependable` is
  necessary: `ReviewDecisionsAutoRace`, `ReviewDecisionsRolling`,
  `ReviewDecisionsLostReply`; a mark that fails to commit after a comment landed
  leaves an APPROVED row, which the next start-up sweep opens to a second approval.
  `ClaimsOwned` (dashboard approvals, a client that answers, marks that commit)
  from `OwnerInv`: an APPROVED row is being executed, or a process is down,
  or one that is starting has selected it. `RepeatsBounded` says how far
  `PostedOnce` degrades for an action that needs approval, in every environment: one
  more comment at most for each call or commit that failed and each process that
  died. `PaidInv` adds up every way to another comment: the comments, the requests about
  to post or to write FAILED, the processes still to sweep, and the row itself while
  it can be claimed; only a fault or a death raises the sum. Two faults do give three
  comments, so the bound is exact. Actions the auto path posts have no such bound.
* `ReviewGraphProofs`. `RunTyped`, `ProposalsProven`, `BudgetKept`,
  `CodeChangesGated` from `LoopInv`: nothing is decided before the end, "verified"
  speaks about the patch the state holds, and at each node of the cycle the
  attempts stand in a known relation to the budget. `GraphImplementsLoop`: the graph
  implements `FixLoop`; it needs in addition that the fix a run holds is the last one
  it made (`CurrentFix`). `RunsAreShort` is the part of `RunEnds` that is not about
  fairness: `StepsLeft` is at most `2 * Budget + 3` and every node lowers it.
* `AdmissionProofs`. `AdmissionTyped`, `GoneStaysOut`, `RetriesExempt`,
  `OnboardingHolds`, `DeletionFinal` from `Inv`: what a busy handler knows about
  its delivery, kept because rows, deletions, jobs and time only go forward
  (`Forward`). `CeilingHolds`: a count is not inductive, since a handler that
  passed its check adds to it later; the count plus the handlers racing to add to
  it (`Bounded`) is. It needs only that processes and keys are finite, and gives
  the exact slack that `quota.py` calls "limit + concurrency": limit - 1 plus the
  number of API processes, so one process keeps the limit.
* `VerificationProofs`. `VerificationTyped`, `SnapshotsExact`, `VerdictsProved`,
  `ContextsAreAccountedFor` from `Inv`: what a call owns (its context, its container) is owned
  by nobody else until the call is over, the container works on what the context
  held, and there is a verdict only once a container was judged. `MemoryIsBounded`
  from `TotalExact`: `total_bytes` is the size of what is kept, and each thread's text
  fits into a share of its own, by an injection into the slots. `DiskIsBounded` from
  `ContextsAreAccountedFor` and `LeakInv`: a kill leaks one context per thread at most,
  a failed removal one, and nothing else any. Both need finitely many threads.
* `AppCredentialsProofs`. `CredentialsTyped`, `TokensLive`, `JwtsAccepted`,
  `WritesRecent`, `RefusalsRecent` from `Inv`: each cache's computed deadline stands
  in a fixed relation to what GitHub will accept (`JwtInv`, `TokenInv`, `RepoInv`),
  and a thread's reading is at most `MaxHold` old (`ThreadInv`). The inequalities of
  `CredentialsAssumption` between margins, skew and time-outs are what the
  constants in `github_app.py` must satisfy.
* `DeploymentProofs`. `DeploymentTyped`, `PublicInstancesOnlyRead`,
  `WritesConfigured`, `HoldersDecide`: for every set of settings and hosts, since a
  serving instance's settings passed the checks and every effect follows from them.
* `ApiGuardProofs`. `GuardTyped`, `SendersCounted`, `RetryEnough`,
  `WindowsOpenApart`, `HoldersSpend` from `Inv`; the address part rests on a lemma
  about the last hop that is not a proxy of ours, for headers of any length.
  `BurstAtMostTwice` from `BurstInv`: what was let through since the current window
  opened is that window's count, and what was let through before it fits into one
  window. It rests on the distance between openings (`WindowsOpenApart`): when a
  window opens, what the one before the last let through is already too old.

`MemoryBounded` and `BurstBound` are about sums. A sum over a set is defined by
recursion and what it computes cannot be proved here, so each is stated as the
cardinality of a set with one element for each thing counted (a byte of a file, a
request of a tick), which TLC evaluates and the prover can reason about.

Only model-checked: the liveness properties `JobsSettle`, `ClaimsResolve`, `RunEnds`
and `VerdictReached`, since fairness is out of the prover's reach. Every invariant and
every action property of the runs is a theorem as well, under the assumptions named
above where it does not hold in every environment.

## 5. Not modelled

* What a listing returns: the pages and filters of the review API, and the
  pagination of `list_pull_files`. They change no state.
* The grammar of comment commands and the replies to them; rendering and prompts.
* RAG: best effort, its failures never change control.
* The HMAC of a webhook, body limits: they only refuse.
* The engine, its pragmas, the migrations; their unique keys are what `Ingest` and
  `Enqueue` rely on.
* The flags of the docker command line: they are about isolation, not control.
* The capacity planner (arithmetic for operators), scripts, observability.
* The dashboard: a client without durable state; races between its requests are
  races between requests in `ReviewDecisions`.

Worth adding next: pipeline and ledger composed, so that redelivery and ledger
together give exactly-once posts. One hazard has no property: a suspend that arrives
after the unsuspend that followed it (`tenancy.py:156`). The events carry no order
the code compares, so nothing in it could rule this out.
