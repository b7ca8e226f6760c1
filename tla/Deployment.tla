----------------------------- MODULE Deployment -----------------------------
(***************************************************************************)
(* One instance of AutoPR, from its settings to what a caller can make it  *)
(* do: the process refuses or accepts its environment, picks the clients   *)
(* it will talk to GitHub with, starts with or without Redis, and answers  *)
(* the ops API, the webhook, PR comments and the worker's own reviews.     *)
(*                                                                         *)
(*   app/config.py           Settings and its validators                   *)
(*   app/main.py             lifespan, the token dependencies, the gates   *)
(*                           of approve, reject, the webhook and readyz    *)
(*   app/security.py         verify_bearer_token                           *)
(*   app/routing/github.py   get_github_client, get_github_reader          *)
(*   app/github_app.py       get_app_auth, AppAuth.client                  *)
(*                                                                         *)
(* Settings are read once, when the process starts; an operator who edits  *)
(* them is an operator who starts the instance again.  The decision ledger *)
(* itself is ReviewDecisions, the limiter is ApiGuard: here a decision may *)
(* or may not be there, and a caller may or may not be over its limit.     *)
(***************************************************************************)
EXTENDS Integers

CONSTANTS
  Hosts,       \* where the process may run: [override, kubernetes, marker]
  Candidates   \* the settings an operator may try

VARIABLES
  host,    \* where it runs
  phase,   \* "down" or "serving"
  live,    \* the settings object of the process
  queue,   \* app.state.queue is not None
  redis,   \* Redis is reachable
  db,      \* the database is reachable
  last     \* the last thing the instance did, and for whom

vars == <<host, phase, live, queue, redis, db, last>>

-----------------------------------------------------------------------------
\* A string setting, by what matters of it.
Strings == {"empty", "blank", "padded", "clean"}
Strip   == [empty |-> "empty", blank |-> "empty", padded |-> "clean",
            clean |-> "clean"]

Quotas == {"repo_hour", "total_day", "installation_day"}

Settings ==
  [public_mode    : BOOLEAN,
   allow_insecure : BOOLEAN,
   handoff_mode   : BOOLEAN,
   github_dry_run : BOOLEAN,
   comments       : BOOLEAN,              \* github_comment_commands
   auth_for_reads : BOOLEAN,              \* require_auth_for_reads
   webhook_secret : {"placeholder", "real"},
   api_token      : Strings,
   github_token   : BOOLEAN,              \* not empty
   app_id         : {"blank", "id"},
   app_key        : {"blank", "pem"},     \* github_app_private_key
   allowed_repos  : BOOLEAN,              \* allowed_repo_set is not empty
   quotas         : SUBSET Quotas,        \* the ones above zero
   database       : {"sqlite", "postgres"}]

ASSUME CandidatesAssumption == Candidates \subseteq Settings

NoSettings == [started |-> FALSE]

\* running_in_container: the override, then the two signs.
RunningInContainer(h) ==
  \/ h.override = "yes"
  \/ h.override # "no" /\ (h.kubernetes \/ h.marker)

\* _blank_means_unset and the multi_tenant_enabled property.
MultiTenant(s) == s.app_id # "blank" /\ s.app_key # "blank"

EnforcePublicMode(s) ==
  /\ s.allowed_repos
  /\ s.github_dry_run
  /\ MultiTenant(s) => "installation_day" \in s.quotas
  /\ {"repo_hour", "total_day"} \subseteq s.quotas

\* Mutant of EnforceSecureConfig: the escape hatch comes first.
EnforceSecureConfigHatchFirst(s, h) ==
  \/ s.allow_insecure
  \/ /\ s.public_mode => EnforcePublicMode(s)
     /\ s.webhook_secret # "placeholder"
     /\ Strip[s.api_token] # "empty"
     /\ ~(s.database = "sqlite" /\ RunningInContainer(h))

\* Mutant of EnforceSecureConfig: no token is asked for.
EnforceSecureConfigNoToken(s, h) ==
  /\ s.public_mode => EnforcePublicMode(s)
  /\ \/ s.allow_insecure
     \/ /\ s.webhook_secret # "placeholder"
        /\ ~(s.database = "sqlite" /\ RunningInContainer(h))

\* _enforce_secure_config: the public posture is not part of the escape hatch.
EnforceSecureConfig(s, h) ==
  /\ s.public_mode => EnforcePublicMode(s)
  /\ \/ s.allow_insecure
     \/ /\ s.webhook_secret # "placeholder"
        /\ Strip[s.api_token] # "empty"
        /\ ~(s.database = "sqlite" /\ RunningInContainer(h))

-----------------------------------------------------------------------------
\* Authorization, by what matters of it: absent or not a bearer, a bearer of
\* blanks, of something else, or of the token its holder was given.
Headers == {"none", "blank", "wrong", "held"}

Provided(s, header) ==
  IF header = "held" THEN Strip[s.api_token]
  ELSE IF header = "wrong" THEN "other" ELSE "empty"

\* verify_bearer_token: what is sent is stripped, what is expected is not.
VerifyBearerToken(expected, provided) ==
  expected # "empty" /\ provided # "empty" /\ provided = expected

\* require_api_token: without a token configured, everybody may.
RequireApiToken(s, header) ==
  s.api_token = "empty" \/ VerifyBearerToken(s.api_token, Provided(s, header))

RequireApiTokenForReads(s, header) == s.auth_for_reads => RequireApiToken(s, header)

\* The client of the ops API and of the worker.
GetGithubClient(s) ==
  IF s.handoff_mode THEN "fake"
  ELSE IF MultiTenant(s) /\ ~s.github_dry_run THEN "app"
  ELSE IF s.github_token /\ ~s.github_dry_run THEN "pat" ELSE "fake"

\* Mutant of TenantClient: hand-off is forgotten here.
TenantClientNoHandoff(s) == IF s.github_dry_run THEN "fake" ELSE "app"

\* AppAuth.client, of a comment command, and TenantGitHubClient's own test.
TenantClient(s) == IF s.handoff_mode \/ s.github_dry_run THEN "fake" ELSE "app"

\* What the worker fetches a diff with: the App's credentials are not asked.
GetGithubReader(s) ==
  IF s.github_token THEN "http"
  ELSE IF s.handoff_mode THEN "anonymous" ELSE "fake"

-----------------------------------------------------------------------------
\* "effect" is what the request changed: nothing, the job table, the decision
\* ledger only, or GitHub with the App's or the operator's credential as well.
Answer(status)      == [status |-> status, effect |-> "nothing"]
Did(status, effect) == [status |-> status, effect |-> effect]

\* execute_decision on a claimed row; a failed post is recorded as failed.
Executed(client) ==
  IF client = "fake" THEN {Did(200, "ledger")}
  ELSE {Did(200, client), Did(502, "ledger")}

Respond(path, header, outcome) ==
  last' = [path |-> path, header |-> header, status |-> outcome.status,
           effect |-> outcome.effect, seen |-> "unread"]

Silence == [path |-> "none", header |-> "none", status |-> 0,
            effect |-> "nothing", seen |-> "unread"]

Init ==
  /\ host \in Hosts
  /\ phase = "down"
  /\ live = NoSettings
  /\ queue = FALSE
  /\ redis = TRUE /\ db = TRUE
  /\ last = Silence

\* Import and lifespan: a refused configuration or an unreachable or unmigrated
\* database ends the process; an unreachable Redis does not.  sweep_interrupted
\* fails the decisions that stand APPROVED, if there are any.
Start(s) ==
  /\ EnforceSecureConfig(s, host)
  /\ db
  /\ phase' = "serving"
  /\ live' = s
  /\ queue' = redis
  /\ \E swept \in {"nothing", "ledger"} :
       last' = [path |-> "start", header |-> "none", status |-> 0,
                effect |-> swept, seen |-> "unread"]
  /\ UNCHANGED <<host, redis, db>>

\* A stop or a crash; the settings are edited before the next start.
Stop ==
  /\ phase = "serving"
  /\ phase' = "down"
  /\ live' = NoSettings
  /\ queue' = FALSE
  /\ last' = Silence
  /\ UNCHANGED <<host, redis, db>>

RedisChanges ==
  redis' = ~redis /\ last' = Silence /\ UNCHANGED <<host, phase, live, queue, db>>

DbChanges ==
  db' = ~db /\ last' = Silence /\ UNCHANGED <<host, phase, live, queue, redis>>

Serving == phase = "serving" /\ UNCHANGED <<host, phase, live, queue, redis, db>>

\* readyz probes both services now, but Redis only through the start-up client.
Readyz ==
  /\ Serving
  /\ Respond("readyz", "none", Answer(IF db /\ queue /\ redis THEN 200 ELSE 503))

\* Token, then limiter, then the public gate, then the ledger.
MutationGate(header, outcomes) ==
  IF ~RequireApiToken(live, header) THEN {Answer(401)}
  ELSE {Answer(429)} \cup
       (IF live.public_mode THEN {Answer(403)}
        ELSE IF ~db THEN {Answer(500)}
        ELSE {Answer(200), Answer(404), Answer(409)} \cup outcomes)

\* approve_review; in hand-off mode the row is marked and nothing is sent.
Approve(header) ==
  /\ Serving
  /\ \E o \in MutationGate(header,
                IF live.handoff_mode THEN {Did(200, "ledger")}
                ELSE Executed(GetGithubClient(live))) :
       Respond("approve", header, o)

Reject(header) ==
  /\ Serving
  /\ \E o \in MutationGate(header, {Did(200, "ledger")}) : Respond("reject", header, o)

\* The listings.
Read(header) ==
  /\ Serving
  /\ Respond("read", header,
       Answer(IF ~RequireApiTokenForReads(live, header) THEN 401
              ELSE IF db THEN 200 ELSE 500))

\* A signed pull_request delivery: limiter, the queue dependency, admission
\* (see Admission), then the row and the message.
Webhook ==
  /\ Serving
  /\ \E o \in {Answer(429)} \cup
              (IF ~queue THEN {Answer(503)}
               ELSE IF ~db THEN {Answer(500)}
               ELSE IF redis THEN {Answer(200), Did(200, "job")}
               ELSE {Answer(200), Did(503, "job")}) :
       Respond("webhook", "none", o)

\* A signed `/autopr approve` or reject; the commenter's right to it is GitHub's
\* answer.  The public gate is not on this path.
Comment ==
  /\ Serving
  /\ \E o \in {Answer(429)} \cup
              (IF ~queue THEN {Answer(503)}
               ELSE IF ~live.comments \/ ~MultiTenant(live) THEN {Answer(200)}
               ELSE IF ~db THEN {Answer(500)}
               ELSE {Answer(200), Did(200, "ledger")}
                    \cup {Did(200, x.effect) : x \in Executed(TenantClient(live))}) :
       Respond("comment", "none", o)

\* The worker, under the same settings: it fetches the diff, reviews it, and
\* comments (never by itself in hand-off mode) or queues the decision.
Review ==
  /\ Serving /\ db
  /\ \E o \in {Did(0, "ledger")} \cup
              (IF live.handoff_mode THEN {} ELSE Executed(GetGithubClient(live))) :
       last' = [path |-> "review", header |-> "none", status |-> 0,
                effect |-> o.effect,
                seen |-> IF GetGithubReader(live) = "fake" THEN "nothing" ELSE "diff"]

Next ==
  \/ phase = "down" /\ \E s \in Candidates : Start(s)
  \/ Stop \/ RedisChanges \/ DbChanges
  \/ Readyz \/ Webhook \/ Comment \/ Review
  \/ \E h \in Headers : Approve(h) \/ Reject(h) \/ Read(h)

Spec == Init /\ [][Next]_vars

-----------------------------------------------------------------------------
Records ==
  [path : {"none", "start", "readyz", "approve", "reject", "read", "webhook", "comment", "review"},
   header : Headers,
   status : {0, 200, 401, 403, 404, 409, 429, 500, 502, 503},
   effect : {"nothing", "job", "ledger", "app", "pat"},
   seen : {"unread", "nothing", "diff"}]

\* Types; what runs has passed the checks of its settings.
TypeOK ==
  /\ host \in Hosts
  /\ phase \in {"down", "serving"}
  /\ phase = "serving" => live \in Candidates /\ EnforceSecureConfig(live, host)
  /\ phase = "down" => live = NoSettings /\ last = Silence
  /\ queue \in BOOLEAN /\ redis \in BOOLEAN /\ db \in BOOLEAN
  /\ last \in Records

WritesGitHub == last.effect \in {"app", "pat"}

\* Whatever the environment says, an instance in public mode that has started
\* never writes to GitHub, on no path and for nobody, and cannot be run without
\* its budgets.  Its ledger changes by its own work alone (a review, the sweep at
\* start-up) and, on an instance with an App, by a comment of somebody GitHub says
\* may: the ops API changes it for no header, the operator's included.
PublicIsReadOnly ==
  phase = "serving" /\ live.public_mode =>
    /\ ~WritesGitHub
    /\ last.effect = "ledger" =>
         \/ last.path \in {"review", "start"}
         \/ last.path = "comment" /\ MultiTenant(live) /\ live.comments
    /\ {"repo_hour", "total_day"} \subseteq live.quotas

\* Whichever of the three factories chose the client, what reached GitHub was
\* allowed by the settings: neither hand-off nor dry-run, the App's credential
\* only on an instance that has one, and the operator's token on no other.
WritesAsConfigured ==
  phase = "serving" /\ WritesGitHub =>
    /\ ~live.handoff_mode /\ ~live.github_dry_run
    /\ last.effect = "app" <=> MultiTenant(live)
    /\ last.effect = "pat" => live.github_token

\* Outside the documented escape hatch, a decision changes through the ops API
\* only for the holder of the configured token.
OnlyTheHolderDecides ==
  phase = "serving" /\ last.path \in {"approve", "reject"} /\ last.effect # "nothing" =>
    last.header = "held" \/ live.allow_insecure

\* A comment under a review is about the diff that was fetched, never about an
\* empty change set (docs/install.md: the App's "Pull requests: Read").
CommentsOnTheDiff == last.path = "review" /\ WritesGitHub => last.seen = "diff"

\* main.py, reject_review: "nobody may mutate the queue" of a public instance.
PublicQueueClosed ==
  phase = "serving" /\ live.public_mode /\ last.effect = "ledger" =>
    last.path \in {"review", "start"}
=============================================================================
