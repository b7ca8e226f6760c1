--------------------------- MODULE AppCredentials ---------------------------
(***************************************************************************)
(* The GitHub App's credentials in one process: threads post comments and  *)
(* ask for permissions with installation tokens, and share three caches,   *)
(* the App JWT, a token per installation and the owning installation of a  *)
(* repository.                                                             *)
(*                                                                         *)
(*   app/github_app.py   AppAuth, InstallationToken, TenantGitHubClient,   *)
(*                       _parse_expiry, app_jwt                            *)
(*   app/http.py         the time-out behind MaxHold                       *)
(*                                                                         *)
(* No cache is locked across a request, so a thread acts on what it read   *)
(* before: a cached answer is checked, used, minted and stored in separate *)
(* steps, while time passes, the host's clock is stepped and owners change *)
(* at GitHub.  Times are remaining or elapsed ticks, never dates: "left"   *)
(* is the distance to the deadline this process computed, "life" what      *)
(* GitHub will still accept.                                               *)
(***************************************************************************)
EXTENDS Integers

CONSTANTS
  Threads,        \* handler threads of the worker, request threads of the API
  Repos,
  Installations,
  None,           \* no installation, no repository
  TokenLife,      \* GitHub: life of an installation token
  Margin,         \* _TOKEN_REFRESH_MARGIN_S
  ExpiryFloor,    \* _parse_expiry: the least it returns
  DefaultLife,    \* _parse_expiry: without a readable expires_at
  RepoTTL,        \* _REPO_CACHE_S
  JwtTTL,         \* _JWT_TTL_S
  Backdate,       \* _JWT_BACKDATE_S
  JwtMax,         \* GitHub: the longest exp it accepts in a JWT
  MaxSkew,        \* bound of the host clock's error
  MaxHold         \* bound of the time from a clock reading to its last use

JwtReuse == JwtTTL \div 2
LongAgo  == RepoTTL + 2 * MaxHold   \* where lost stops counting
Owners   == Installations \cup {None}

ASSUME CredentialsAssumption ==
  /\ None \notin Installations /\ None \notin Repos
  /\ {TokenLife, Margin, ExpiryFloor, DefaultLife, RepoTTL, JwtTTL, Backdate,
      JwtMax, MaxSkew, MaxHold} \subseteq Nat
  /\ RepoTTL > 0
  /\ MaxSkew + MaxHold <= Margin
  /\ ExpiryFloor <= Margin
  /\ DefaultLife + MaxHold <= TokenLife
  /\ Margin + MaxHold < TokenLife
  /\ MaxSkew <= Backdate
  /\ JwtTTL + MaxSkew <= JwtMax
  /\ JwtReuse > 0
  /\ JwtReuse + MaxSkew + MaxHold <= JwtTTL

VARIABLES
  owner,    \* GitHub: the installation that owns a repository
  skew,     \* host clock minus GitHub's
  jwt,      \* AppAuth._jwt
  tokens,   \* AppAuth._tokens
  repos,    \* AppAuth._repo_cache
  pc,       \* of each thread: what it does next
  repo,     \* the repository it posts to, None for a permission lookup
  inst,     \* the installation it acts for
  age,      \* time since it read the monotonic clock
  bearer,   \* the App JWT in its hands
  key,      \* what life is left to the token in its hands
  lost      \* history: how long ago a repository last had this owner, or none

hands == <<repo, inst, bearer, key>>
vars  == <<owner, skew, jwt, tokens, repos, pc, repo, inst, age, bearer,
           key, lost>>

\* "early" is how long GitHub will find the JWT issued in the future.
NoJwt   == [left |-> -(2 * MaxSkew), exp |-> 0, early |-> 0]
NoToken == [left |-> -MaxHold, life |-> 0]
NoRepo  == [left |-> -MaxHold, inst |-> None]

Larger(a, b)  == IF a >= b THEN a ELSE b
Smaller(a, b) == IF a >= b THEN b ELSE a

Init ==
  /\ owner \in [Repos -> Owners]
  /\ skew \in -MaxSkew..MaxSkew
  /\ jwt = NoJwt
  /\ tokens = [i \in Installations |-> NoToken]
  /\ repos = [r \in Repos |-> NoRepo]
  /\ pc = [t \in Threads |-> "idle"]
  /\ repo = [t \in Threads |-> None]
  /\ inst = [t \in Threads |-> None]
  /\ age = [t \in Threads |-> 0]
  /\ bearer = [t \in Threads |-> NoJwt]
  /\ key = [t \in Threads |-> 0]
  /\ lost = [r \in Repos |-> [o \in Owners |-> IF owner[r] = o THEN 0 ELSE LongAgo]]

-----------------------------------------------------------------------------
\* is_live, with the clock as the thread read it "age" ago.
Live(left, a) == left + a > 0

Goto(t, l) == pc' = [pc EXCEPT ![t] = l]

\* The call is over; what it held is forgotten.
Done(t) ==
  /\ Goto(t, "idle")
  /\ repo' = [repo EXCEPT ![t] = None]
  /\ inst' = [inst EXCEPT ![t] = None]
  /\ age' = [age EXCEPT ![t] = 0]
  /\ bearer' = [bearer EXCEPT ![t] = NoJwt]
  /\ key' = [key EXCEPT ![t] = 0]

\* post_issue_comment, up to the clock reading in repo_installation.
Post(t, r) ==
  /\ pc[t] = "idle"
  /\ Goto(t, "repo")
  /\ repo' = [repo EXCEPT ![t] = r]
  /\ UNCHANGED <<owner, skew, jwt, tokens, repos, inst, age, bearer, key, lost>>

\* collaborator_permission, or client() of a comment command: the webhook has
\* named the installation.
ActFor(t, i) ==
  /\ pc[t] = "idle"
  /\ Goto(t, "token")
  /\ inst' = [inst EXCEPT ![t] = i]
  /\ UNCHANGED <<owner, skew, jwt, tokens, repos, repo, age, bearer, key, lost>>

\* The installation is known: installation_token reads the clock again.
NeedToken(t) ==
  /\ Goto(t, "token")
  /\ age' = [age EXCEPT ![t] = 0]

\* Mutant of RepoHit: a hit extends the entry.
RepoHitSliding(t) ==
  LET c == repos[repo[t]] IN
  /\ pc[t] = "repo"
  /\ Live(c.left, age[t])
  /\ repos' = [repos EXCEPT ![repo[t]].left = RepoTTL]
  /\ c.inst # None
  /\ inst' = [inst EXCEPT ![t] = c.inst]
  /\ NeedToken(t)
  /\ UNCHANGED <<owner, skew, jwt, tokens, repo, bearer, key, lost>>

\* repo_installation answers from its cache.
RepoHit(t) ==
  LET c == repos[repo[t]] IN
  /\ pc[t] = "repo"
  /\ Live(c.left, age[t])
  /\ c.inst # None
  /\ inst' = [inst EXCEPT ![t] = c.inst]
  /\ NeedToken(t)
  /\ UNCHANGED <<owner, skew, jwt, tokens, repos, repo, bearer, key, lost>>

\* A cached "not installed" refuses the write.
RepoHitNone(t) ==
  LET c == repos[repo[t]] IN
  /\ pc[t] = "repo"
  /\ Live(c.left, age[t])
  /\ c.inst = None
  /\ Done(t)
  /\ UNCHANGED <<owner, skew, jwt, tokens, repos, lost>>

RepoMiss(t) ==
  /\ pc[t] = "repo"
  /\ ~Live(repos[repo[t]].left, age[t])
  /\ Goto(t, "jwt_lookup")
  /\ UNCHANGED <<owner, skew, jwt, tokens, repos, hands, age, lost>>

-----------------------------------------------------------------------------
\* jwt(): its reading of the wall clock and the test of the cache are one step;
\* a delay between them is a delay of the JWT's use.
JwtFor == [lookup |-> "jwt_lookup", mint |-> "jwt_mint"]
PutFor == [lookup |-> "put_lookup", mint |-> "put_mint"]
Purposes == {"lookup", "mint"}

JwtHit(t, p) ==
  /\ pc[t] = JwtFor[p]
  /\ jwt.left > 0
  /\ bearer' = [bearer EXCEPT ![t] = jwt]
  /\ Goto(t, p)
  /\ UNCHANGED <<owner, skew, jwt, tokens, repos, repo, inst, age, key, lost>>

\* Mutant of AppJwt: the issue time is not backdated.
AppJwtNotBackdated ==
  [left |-> JwtReuse, exp |-> JwtTTL + skew, early |-> Larger(0, skew)]

\* app_jwt, as GitHub's clock sees it.
AppJwt ==
  [left |-> JwtReuse, exp |-> JwtTTL + skew, early |-> Larger(0, skew - Backdate)]

JwtSign(t, p) ==
  /\ pc[t] = JwtFor[p]
  /\ jwt.left <= 0
  /\ bearer' = [bearer EXCEPT ![t] = AppJwt]
  /\ Goto(t, PutFor[p])
  /\ UNCHANGED <<owner, skew, jwt, tokens, repos, repo, inst, age, key, lost>>

JwtPut(t, p) ==
  /\ pc[t] = PutFor[p]
  /\ jwt' = bearer[t]
  /\ Goto(t, p)
  /\ UNCHANGED <<owner, skew, tokens, repos, hands, age, lost>>

-----------------------------------------------------------------------------
\* _repo_installation_uncached: GitHub answers 200 or 404.
Lookup(t) ==
  /\ pc[t] = "lookup"
  /\ inst' = [inst EXCEPT ![t] = owner[repo[t]]]
  /\ bearer' = [bearer EXCEPT ![t] = NoJwt]
  /\ Goto(t, "put_repo")
  /\ UNCHANGED <<owner, skew, jwt, tokens, repos, repo, age, key, lost>>

\* Transport error or any other status: post_issue_comment returns ok=False.
LookupFails(t) ==
  /\ pc[t] = "lookup"
  /\ Done(t)
  /\ UNCHANGED <<owner, skew, jwt, tokens, repos, lost>>

\* Mutant of RepoEntry: the clock is read after the lookup.
RepoEntryFromAnswer(t) ==
  [left |-> RepoTTL, inst |-> inst[t]]

\* The deadline counts from the reading before the lookup.
RepoEntry(t) ==
  [left |-> RepoTTL - age[t], inst |-> inst[t]]

RepoPut(t) ==
  /\ pc[t] = "put_repo"
  /\ repos' = [repos EXCEPT ![repo[t]] = RepoEntry(t)]
  /\ inst[t] # None
  /\ NeedToken(t)
  /\ UNCHANGED <<owner, skew, jwt, tokens, hands, lost>>

\* Not installed: the answer is cached and the write refused.
RepoPutNone(t) ==
  /\ pc[t] = "put_repo"
  /\ repos' = [repos EXCEPT ![repo[t]] = RepoEntry(t)]
  /\ inst[t] = None
  /\ Done(t)
  /\ UNCHANGED <<owner, skew, jwt, tokens, lost>>

-----------------------------------------------------------------------------
\* Mutant of TokenHit: a token is taken at its deadline too.
TokenHitInclusive(t) ==
  LET c == tokens[inst[t]] IN
  /\ pc[t] = "token"
  /\ c.left + age[t] >= 0
  /\ key' = [key EXCEPT ![t] = c.life]
  /\ Goto(t, "call")
  /\ UNCHANGED <<owner, skew, jwt, tokens, repos, repo, inst, age, bearer, lost>>

\* installation_token.
TokenHit(t) ==
  LET c == tokens[inst[t]] IN
  /\ pc[t] = "token"
  /\ Live(c.left, age[t])
  /\ key' = [key EXCEPT ![t] = c.life]
  /\ Goto(t, "call")
  /\ UNCHANGED <<owner, skew, jwt, tokens, repos, repo, inst, age, bearer, lost>>

TokenMiss(t) ==
  /\ pc[t] = "token"
  /\ ~Live(tokens[inst[t]].left, age[t])
  /\ Goto(t, "jwt_mint")
  /\ UNCHANGED <<owner, skew, jwt, tokens, repos, hands, age, lost>>

\* fetch_installation_token: GitHub mints, or (MintFails) refuses.
Mint(t) ==
  /\ pc[t] = "mint"
  /\ key' = [key EXCEPT ![t] = TokenLife]
  /\ bearer' = [bearer EXCEPT ![t] = NoJwt]
  /\ Goto(t, "put_token")
  /\ UNCHANGED <<owner, skew, jwt, tokens, repos, repo, inst, age, lost>>

\* GitHubAppError; post_issue_comment does not catch this one.
MintFails(t) ==
  /\ pc[t] = "mint"
  /\ Done(t)
  /\ UNCHANGED <<owner, skew, jwt, tokens, repos, lost>>

Deadline(expiry) == Larger(0, expiry - Margin)

\* _parse_expiry, on the host's clock; expires_at may be missing.
ParseExpiry(t) == {Larger(ExpiryFloor, key[t] - skew), DefaultLife}

TokenPut(t, expiry) ==
  /\ pc[t] = "put_token"
  /\ tokens' = [tokens EXCEPT ![inst[t]] =
       [left |-> Deadline(expiry), life |-> key[t]]]
  /\ Goto(t, "call")
  /\ UNCHANGED <<owner, skew, jwt, repos, hands, age, lost>>

\* The request that carries the token, whatever GitHub answers: _post turns an
\* error into ok=False, collaborator_permission into "none" or an exception, and
\* none of them touches the caches, a refused token's entry included.
Call(t) ==
  /\ pc[t] = "call"
  /\ Done(t)
  /\ UNCHANGED <<owner, skew, jwt, tokens, repos, lost>>

-----------------------------------------------------------------------------
\* GitHub and the clocks.

\* The App is installed, removed, or the repository is transferred.
Reassign(r, o) ==
  /\ owner[r] # o
  /\ owner' = [owner EXCEPT ![r] = o]
  /\ lost' = [lost EXCEPT ![r][o] = 0]
  /\ UNCHANGED <<skew, jwt, tokens, repos, pc, hands, age>>

\* What a tick leaves of an entry; one nobody can find live any more is dropped.
OlderJwt(j) ==
  IF j.left <= -(2 * MaxSkew) + 1 THEN NoJwt
  ELSE [left |-> j.left - 1, exp |-> Larger(0, j.exp - 1),
        early |-> Larger(0, j.early - 1)]

OlderToken(c) ==
  IF c.left <= 1 - MaxHold THEN NoToken
  ELSE [left |-> c.left - 1, life |-> Larger(0, c.life - 1)]

OlderRepo(c) ==
  IF c.left <= 1 - MaxHold THEN NoRepo
  ELSE [left |-> c.left - 1, inst |-> c.inst]

OlderBearer(j) ==
  IF j = NoJwt THEN NoJwt
  ELSE [left |-> j.left - 1, exp |-> Larger(0, j.exp - 1),
        early |-> Larger(0, j.early - 1)]

Busy(t) == pc[t] # "idle"

\* Time passes; no thread stands still for longer than MaxHold between reading
\* the clock and the last use of the reading.
Tick ==
  /\ \A t \in Threads : Busy(t) => age[t] < MaxHold
  /\ age' = [t \in Threads |-> IF Busy(t) THEN age[t] + 1 ELSE 0]
  /\ bearer' = [t \in Threads |-> OlderBearer(bearer[t])]
  /\ key' = [t \in Threads |-> Larger(0, key[t] - 1)]
  /\ jwt' = OlderJwt(jwt)
  /\ tokens' = [i \in Installations |-> OlderToken(tokens[i])]
  /\ repos' = [r \in Repos |-> OlderRepo(repos[r])]
  /\ lost' = [r \in Repos |-> [o \in Owners |->
       IF owner[r] = o THEN 0 ELSE Smaller(LongAgo, lost[r][o] + 1)]]
  /\ UNCHANGED <<owner, skew, pc, repo, inst>>

\* The host's clock is stepped: the JWT's reuse is measured on it, the other
\* deadlines are not.
ClockStep(s) ==
  /\ skew' = s
  /\ jwt' = IF jwt = NoJwt \/ jwt.left - (s - skew) <= -(2 * MaxSkew) THEN NoJwt
            ELSE [left |-> jwt.left - (s - skew), exp |-> jwt.exp,
                  early |-> jwt.early]
  /\ bearer' = [t \in Threads |-> IF bearer[t] = NoJwt THEN NoJwt
                 ELSE [left |-> bearer[t].left - (s - skew),
                       exp |-> bearer[t].exp, early |-> bearer[t].early]]
  /\ UNCHANGED <<owner, tokens, repos, pc, repo, inst, age, key, lost>>

-----------------------------------------------------------------------------
Thread(t) ==
  \/ RepoHit(t) \/ RepoHitNone(t) \/ RepoMiss(t)
  \/ \E p \in Purposes : JwtHit(t, p) \/ JwtSign(t, p) \/ JwtPut(t, p)
  \/ Lookup(t) \/ LookupFails(t) \/ RepoPut(t) \/ RepoPutNone(t)
  \/ TokenHit(t) \/ TokenMiss(t) \/ Mint(t) \/ MintFails(t)
  \/ \E e \in ParseExpiry(t) : TokenPut(t, e)
  \/ Call(t)

Environment ==
  \/ \E r \in Repos, o \in Owners : Reassign(r, o)
  \/ Tick
  \/ \E s \in -MaxSkew..MaxSkew : ClockStep(s)

Next ==
  \/ \E t \in Threads, r \in Repos : Post(t, r)
  \/ \E t \in Threads, i \in Installations : ActFor(t, i)
  \/ \E t \in Threads : Thread(t)
  \/ Environment

Spec == Init /\ [][Next]_vars

-----------------------------------------------------------------------------
Steps == {"idle", "repo", "jwt_lookup", "put_lookup", "lookup", "put_repo",
          "token", "jwt_mint", "put_mint", "mint", "put_token", "call"}

Jwts    == [left : Int, exp : Nat, early : Nat]
Tokens  == [left : -MaxHold..(TokenLife + MaxSkew - Margin), life : 0..TokenLife]
Entries == [left : -MaxHold..RepoTTL, inst : Owners]

CachesTyped ==
  /\ owner \in [Repos -> Owners]
  /\ skew \in -MaxSkew..MaxSkew
  /\ jwt \in Jwts
  /\ tokens \in [Installations -> Tokens]
  /\ repos \in [Repos -> Entries]
  /\ lost \in [Repos -> [Owners -> 0..LongAgo]]

ThreadsTyped ==
  /\ pc \in [Threads -> Steps]
  /\ repo \in [Threads -> Repos \cup {None}]
  /\ inst \in [Threads -> Owners]
  /\ age \in [Threads -> 0..MaxHold]
  /\ bearer \in [Threads -> Jwts]
  /\ key \in [Threads -> 0..TokenLife]

\* Types; a token is cached for its life less the margin, give or take the skew.
TypeOK == CachesTyped /\ ThreadsTyped

\* A request never carries an installation token that has run out, though it
\* was found in the cache by an old reading of the clock, minted and stored by
\* another thread, or dated by a clock that is off (_TOKEN_REFRESH_MARGIN_S).
LiveAtUse == \A t \in Threads : pc[t] = "call" => key[t] > 0

\* GitHub accepts every App JWT that is sent: issued in its past, not expired,
\* not too long, even if the clock was stepped since it was signed (app_jwt).
JwtAccepted ==
  \A t \in Threads : pc[t] \in Purposes =>
    /\ bearer[t].early = 0
    /\ bearer[t].exp \in 1..JwtMax

\* A comment is only ever sent with the credential of an installation that owned
\* the repository until RepoTTL and two delays ago at most (repo_installation).
WriteRecent ==
  \A t \in Threads : pc[t] = "call" /\ repo[t] # None =>
    lost[repo[t]][inst[t]] < LongAgo

\* A write is only refused as "not installed" if that was true RepoTTL and one
\* delay ago or later: a new installation is not kept out for longer.
RefusalRecent ==
  [][\A t \in Threads : pc[t] = "repo" /\ pc'[t] = "idle" =>
       lost[repo[t]][None] < RepoTTL + MaxHold]_vars
=============================================================================
