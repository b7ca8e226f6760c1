-------------------------- MODULE DeploymentProofs --------------------------
(***************************************************************************)
(* The posture of an instance holds for every host and every settings an   *)
(* operator may try: what the start-up checks refused is what the request  *)
(* paths would have needed.                                                *)
(***************************************************************************)
EXTENDS Deployment, TLAPS

Inv == TypeOK /\ PublicIsReadOnly /\ WritesAsConfigured /\ OnlyTheHolderDecides

Outcomes == [status : {0, 200, 401, 403, 404, 409, 429, 500, 502, 503},
             effect : {"nothing", "job", "ledger", "app", "pat"}]

\* A started instance's settings are a settings record that passed the checks.
LEMMA LiveChecked ==
  ASSUME TypeOK, phase = "serving"
  PROVE  live \in Settings /\ EnforceSecureConfig(live, host)
BY CandidatesAssumption DEF TypeOK

\* A client that is not the fake one needs dry-run and hand-off to be off.
LEMMA ClientsNeedPermission ==
  ASSUME NEW s \in Settings
  PROVE  /\ GetGithubClient(s) \in {"fake", "app", "pat"}
         /\ TenantClient(s) \in {"fake", "app"}
         /\ s.handoff_mode \/ s.github_dry_run =>
              GetGithubClient(s) = "fake" /\ TenantClient(s) = "fake"
         /\ GetGithubClient(s) = "app" => MultiTenant(s)
         /\ GetGithubClient(s) = "pat" => ~MultiTenant(s) /\ s.github_token
BY DEF GetGithubClient, TenantClient, Settings

\* What executing a claimed decision can come to.
LEMMA ExecutedOutcomes ==
  ASSUME NEW c \in {"fake", "app", "pat"}, NEW o \in Executed(c)
  PROVE  o \in Outcomes /\ o.effect \in {"ledger", c} /\ o.effect # "fake"
BY DEF Executed, Did, Outcomes

\* The gate of approve and reject lets through what follows it only for a holder
\* of the token, or when none is configured, and never in public mode.
LEMMA GateOutcomes ==
  ASSUME NEW header, NEW S, NEW o \in MutationGate(header, S),
         live \in Settings
  PROVE  \/ o \in Outcomes /\ o.effect = "nothing"
         \/ o \in S /\ ~live.public_mode /\ RequireApiToken(live, header)
BY DEF MutationGate, Answer, Outcomes, Settings

\* Without the escape hatch only the holder's header passes the token test.
LEMMA HolderOnly ==
  ASSUME TypeOK, phase = "serving", NEW header \in Headers,
         RequireApiToken(live, header)
  PROVE  header = "held" \/ live.allow_insecure
<1>1. live \in Settings /\ EnforceSecureConfig(live, host)
  BY LiveChecked
<1>2. live.api_token \in Strings
  BY <1>1 DEF Settings
<1>3. CASE live.api_token = "empty"
  BY <1>1, <1>3 DEF EnforceSecureConfig, Strip
<1>4. CASE live.api_token # "empty"
  BY <1>2, <1>4 DEF RequireApiToken, VerifyBearerToken, Provided, Headers, Strings
<1> QED
  BY <1>3, <1>4

\* An answered request keeps the invariant if its outcome respects the posture.
LEMMA AnswerKeeps ==
  ASSUME Inv, Serving,
         last' \in Records,
         last'.effect \in {"app", "pat"} => ~live.handoff_mode /\ ~live.github_dry_run,
         last'.effect = "app" => MultiTenant(live),
         last'.effect = "pat" => ~MultiTenant(live) /\ live.github_token,
         last'.path \in {"approve", "reject"} /\ last'.effect # "nothing" =>
           /\ ~live.public_mode
           /\ last'.header = "held" \/ live.allow_insecure,
         last'.effect = "ledger" =>
           \/ last'.path \in {"approve", "reject", "review"}
           \/ last'.path = "comment" /\ MultiTenant(live) /\ live.comments
  PROVE  Inv'
<1>1. TypeOK'
  BY DEF Inv, TypeOK, Serving
<1>2. live.public_mode => live.github_dry_run /\ {"repo_hour", "total_day"} \subseteq live.quotas
  BY LiveChecked DEF Inv, Serving, EnforceSecureConfig, EnforcePublicMode
<1>3. PublicIsReadOnly'
  BY <1>2 DEF PublicIsReadOnly, WritesGitHub, Serving, MultiTenant
<1>4. WritesAsConfigured' /\ OnlyTheHolderDecides'
  BY DEF WritesAsConfigured, OnlyTheHolderDecides, WritesGitHub, Serving, MultiTenant
<1> QED
  BY <1>1, <1>3, <1>4 DEF Inv

LEMMA SilenceTyped == Silence \in Records
BY DEF Silence, Records, Headers

\* Before anything has been done, and when only the sweep at start-up has, nothing
\* wrong has been done.
LEMMA QuietIsSafe ==
  ASSUME TypeOK, last.effect = "nothing" \/ (last.effect = "ledger" /\ last.path = "start"),
         last.path \notin {"approve", "reject"}
  PROVE  Inv
<1>1. phase = "serving" /\ live.public_mode =>
        {"repo_hour", "total_day"} \subseteq live.quotas
  BY LiveChecked DEF EnforceSecureConfig, EnforcePublicMode
<1> QED
  BY <1>1 DEF Inv, PublicIsReadOnly, WritesAsConfigured, OnlyTheHolderDecides, WritesGitHub

LEMMA SilenceIsSafe == last = Silence /\ TypeOK => Inv
BY QuietIsSafe DEF Silence

LEMMA Initial == Init => Inv
<1>1. Init => TypeOK
  BY SilenceTyped DEF Init, TypeOK
<1> QED
  BY <1>1, SilenceIsSafe DEF Init

LEMMA StartKeeps ==
  ASSUME Inv, NEW s \in Candidates, Start(s)
  PROVE  Inv'
<1>1. PICK swept \in {"nothing", "ledger"} :
        last' = [path |-> "start", header |-> "none", status |-> 0,
                 effect |-> swept, seen |-> "unread"]
  BY DEF Start
<1>2. last' \in Records /\ last'.path = "start" /\ last'.effect = swept
  BY <1>1 DEF Records, Headers
<1>3. TypeOK'
  BY <1>2 DEF Inv, TypeOK, Start
<1>4. (TypeOK /\ (last.effect = "nothing" \/ (last.effect = "ledger" /\ last.path = "start"))
         /\ last.path \notin {"approve", "reject"} => Inv)'
  BY QuietIsSafe, PTL
<1> QED
  BY <1>2, <1>3, <1>4

\* Stop and the services coming and going.
LEMMA LifecycleKeeps ==
  ASSUME Inv, Stop \/ RedisChanges \/ DbChanges
  PROVE  Inv'
<1>a. (last = Silence /\ TypeOK => Inv)'
  BY SilenceIsSafe, PTL
<1> SUFFICES TypeOK' /\ last' = Silence
  BY <1>a DEF Silence
<1>2. CASE Stop
  BY <1>2, SilenceTyped DEF Stop, Inv, TypeOK
<1>3. CASE RedisChanges
  <2>1. redis' \in BOOLEAN
    BY <1>3, Zenon DEF RedisChanges
  <2> QED
    BY <1>3, <2>1, SilenceTyped, Zenon DEF RedisChanges, Inv, TypeOK
<1>4. CASE DbChanges
  <2>1. db' \in BOOLEAN
    BY <1>4, Zenon DEF DbChanges
  <2> QED
    BY <1>4, <2>1, SilenceTyped, Zenon DEF DbChanges, Inv, TypeOK
<1> QED
  BY <1>2, <1>3, <1>4

LEMMA ApproveKeeps ==
  ASSUME Inv, NEW header \in Headers, Approve(header) PROVE Inv'
<1>1. live \in Settings /\ phase = "serving"
  BY LiveChecked DEF Inv, Approve, Serving
<1>2. PICK o \in MutationGate(header,
             IF live.handoff_mode THEN {Did(200, "ledger")}
             ELSE Executed(GetGithubClient(live))) : Respond("approve", header, o)
  BY DEF Approve
<1>3. /\ o \in Outcomes
      /\ o.effect # "nothing" => ~live.public_mode /\ RequireApiToken(live, header)
      /\ o.effect \in {"app", "pat"} => o.effect = GetGithubClient(live)
  <2>1. CASE o \in Outcomes /\ o.effect = "nothing"
    BY <2>1
  <2>2. CASE o = Did(200, "ledger") /\ ~live.public_mode /\ RequireApiToken(live, header)
    BY <2>2 DEF Did, Outcomes
  <2>3. CASE o \in Executed(GetGithubClient(live)) /\ ~live.public_mode
             /\ RequireApiToken(live, header)
    BY <1>1, <2>3, ExecutedOutcomes, ClientsNeedPermission
  <2> QED
    BY <1>1, <1>2, <2>1, <2>2, <2>3, GateOutcomes
<1>4. o.effect # "nothing" => header = "held" \/ live.allow_insecure
  BY <1>1, <1>3, HolderOnly DEF Inv
<1> QED
  BY <1>1, <1>2, <1>3, <1>4, AnswerKeeps, ClientsNeedPermission
     DEF Approve, Respond, Outcomes, Records

LEMMA RejectKeeps ==
  ASSUME Inv, NEW header \in Headers, Reject(header) PROVE Inv'
<1>1. live \in Settings /\ phase = "serving"
  BY LiveChecked DEF Inv, Reject, Serving
<1>2. PICK o \in MutationGate(header, {Did(200, "ledger")}) : Respond("reject", header, o)
  BY DEF Reject
<1>3. /\ o \in Outcomes /\ o.effect \in {"nothing", "ledger"}
      /\ o.effect # "nothing" => ~live.public_mode /\ RequireApiToken(live, header)
  BY <1>1, <1>2, GateOutcomes DEF Did, Outcomes
<1>4. o.effect # "nothing" => header = "held" \/ live.allow_insecure
  BY <1>1, <1>3, HolderOnly DEF Inv
<1> QED
  BY <1>1, <1>2, <1>3, <1>4, AnswerKeeps DEF Reject, Respond, Outcomes, Records

LEMMA ReadKeeps ==
  ASSUME Inv, NEW header \in Headers, Read(header) PROVE Inv'
BY AnswerKeeps DEF Read, Respond, Answer, Records

LEMMA ReadyzKeeps ==
  ASSUME Inv, Readyz PROVE Inv'
BY AnswerKeeps DEF Readyz, Respond, Answer, Headers, Records

LEMMA WebhookKeeps ==
  ASSUME Inv, Webhook PROVE Inv'
<1>1. PICK o \in Outcomes : o.effect \in {"nothing", "job"} /\ Respond("webhook", "none", o)
  BY DEF Webhook, Answer, Did, Outcomes
<1> QED
  BY <1>1, AnswerKeeps DEF Webhook, Respond, Headers, Outcomes,
     Records

LEMMA CommentKeeps ==
  ASSUME Inv, Comment PROVE Inv'
<1>1. live \in Settings /\ phase = "serving"
  BY LiveChecked DEF Inv, Comment, Serving
<1>2. ASSUME NEW x \in Executed(TenantClient(live))
      PROVE  /\ Did(200, x.effect) \in Outcomes
             /\ Did(200, x.effect).effect \in {"ledger", TenantClient(live)} \ {"fake"}
  BY <1>1, ExecutedOutcomes, ClientsNeedPermission DEF Outcomes, Did
<1>3. PICK o \in Outcomes :
        /\ o.effect \in {"nothing", "ledger"} \cup ({TenantClient(live)} \ {"fake"})
        /\ o.effect = "app" => MultiTenant(live)
        /\ o.effect = "ledger" => MultiTenant(live) /\ live.comments
        /\ Respond("comment", "none", o)
  BY <1>1, <1>2 DEF Comment, Answer, Did, Outcomes, Settings
<1> QED
  BY <1>1, <1>3, AnswerKeeps, ClientsNeedPermission DEF Comment, Respond, Headers, Outcomes,
     Records

LEMMA ReviewKeeps ==
  ASSUME Inv, Review PROVE Inv'
<1>1. live \in Settings /\ phase = "serving"
  BY LiveChecked DEF Inv, Review, Serving
<1>2. PICK o \in Outcomes :
        /\ o.effect \in {"ledger"} \cup ({GetGithubClient(live)} \ {"fake"})
        /\ last' = [path |-> "review", header |-> "none", status |-> 0,
                    effect |-> o.effect,
                    seen |-> IF GetGithubReader(live) = "fake" THEN "nothing" ELSE "diff"]
  BY <1>1, ExecutedOutcomes, ClientsNeedPermission DEF Review, Did, Outcomes
<1> QED
  BY <1>1, <1>2, AnswerKeeps, ClientsNeedPermission DEF Review, Headers, Outcomes,
     Records

LEMMA Preserved == Inv /\ [Next]_vars => Inv'
<1> SUFFICES ASSUME Inv, [Next]_vars PROVE Inv'
  OBVIOUS
<1>1. CASE UNCHANGED vars
  BY <1>1 DEF vars, Inv, TypeOK, PublicIsReadOnly, WritesAsConfigured,
     OnlyTheHolderDecides, WritesGitHub, MultiTenant
<1>2. CASE Next
  BY <1>2, StartKeeps, LifecycleKeeps, ApproveKeeps, RejectKeeps, ReadKeeps, ReadyzKeeps,
     WebhookKeeps, CommentKeeps, ReviewKeeps DEF Next
<1> QED
  BY <1>1, <1>2

LEMMA Invariance == Spec => []Inv
BY Initial, Preserved, PTL DEF Spec

\* What runs has passed the checks of its settings, and is typed.
THEOREM DeploymentTyped == Spec => []TypeOK
<1>1. Inv => TypeOK
  BY DEF Inv
<1> QED
  BY <1>1, Invariance, PTL

\* A public instance writes to GitHub on no path, has its budgets, and its ledger
\* changes for a person through a comment of an App's repository only:
\* _enforce_public_mode is not part of the escape hatch, dry-run reaches every
\* client, and the gates of approve and reject let no header through.
THEOREM PublicInstancesOnlyRead == Spec => []PublicIsReadOnly
<1>1. Inv => PublicIsReadOnly
  BY DEF Inv
<1> QED
  BY <1>1, Invariance, PTL

\* Hand-off and dry-run override every credential on every path, and the App
\* excludes the operator's token (get_github_client, AppAuth.client).
THEOREM WritesConfigured == Spec => []WritesAsConfigured
<1>1. Inv => WritesAsConfigured
  BY DEF Inv
<1> QED
  BY <1>1, Invariance, PTL

\* The ops API decides for the holder of the token only, because an instance
\* without one has not started (_enforce_secure_config, require_api_token).
THEOREM HoldersDecide == Spec => []OnlyTheHolderDecides
<1>1. Inv => OnlyTheHolderDecides
  BY DEF Inv
<1> QED
  BY <1>1, Invariance, PTL
=============================================================================
