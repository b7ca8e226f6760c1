------------------------ MODULE AppCredentialsProofs ------------------------
(***************************************************************************)
(* The credential caches are safe for any number of threads, repositories  *)
(* and installations, and for every choice of the durations that           *)
(* CredentialsAssumption allows.                                           *)
(***************************************************************************)
EXTENDS AppCredentials, TLAPS

AtRepo  == {"repo", "jwt_lookup", "put_lookup", "lookup", "put_repo"}
AtToken == {"token", "jwt_mint", "put_mint", "mint", "put_token", "call"}

\* What a thread is doing and what it has in hand agree.
Placed(t) ==
  /\ pc[t] = "idle" => repo[t] = None
  /\ pc[t] \in AtRepo => repo[t] \in Repos
  /\ pc[t] \in AtToken => inst[t] \in Installations

\* A JWT lives as long at GitHub as its reuse here, the other half and the skew
\* allow.
JwtInv ==
  jwt # NoJwt =>
    /\ jwt.exp >= jwt.left + (JwtTTL - JwtReuse) + skew
    /\ jwt.exp <= JwtMax
    /\ jwt.early = 0

\* The JWT in hand is no older than the thread's reading of the clock.
BearerInv(t) ==
  /\ pc[t] \in Purposes \cup {"put_lookup", "put_mint"} =>
       /\ bearer[t].exp >= (JwtTTL - JwtReuse) - MaxSkew + 1 - age[t]
       /\ bearer[t].exp <= JwtMax
       /\ bearer[t].early = 0
  /\ pc[t] \in {"put_lookup", "put_mint"} =>
       bearer[t].exp >= bearer[t].left + (JwtTTL - JwtReuse) + skew

\* What is cached lives on for the margin, less the skew.
TokenInv ==
  \A i \in Installations : tokens[i].left > -MaxHold =>
    tokens[i].left + Margin - MaxSkew <= tokens[i].life

KeyInv(t) ==
  /\ pc[t] = "put_token" => key[t] >= TokenLife - age[t]
  /\ pc[t] = "call" => key[t] >= Margin - MaxSkew + 1 - age[t]

\* The longer an owner has not been the owner, the less its entry has left.
RepoInv ==
  /\ \A r \in Repos : lost[r][owner[r]] = 0
  /\ \A r \in Repos : repos[r].left > -MaxHold =>
       repos[r].left + lost[r][repos[r].inst] <= RepoTTL

OwnerInv(t) ==
  /\ pc[t] = "put_repo" => lost[repo[t]][inst[t]] <= age[t]
  /\ pc[t] \in AtToken /\ repo[t] # None =>
       lost[repo[t]][inst[t]] <= RepoTTL + MaxHold - 1 + age[t]

ThreadInv(t) == Placed(t) /\ BearerInv(t) /\ KeyInv(t) /\ OwnerInv(t)

Inv == TypeOK /\ JwtInv /\ TokenInv /\ RepoInv /\ \A t \in Threads : ThreadInv(t)
-----------------------------------------------------------------------------
LEMMA Durations ==
  /\ None \notin Installations /\ None \notin Repos
  /\ TokenLife \in Nat /\ Margin \in Nat /\ ExpiryFloor \in Nat
  /\ DefaultLife \in Nat /\ RepoTTL \in Nat /\ JwtTTL \in Nat
  /\ Backdate \in Nat /\ JwtMax \in Nat /\ MaxSkew \in Nat /\ MaxHold \in Nat
  /\ JwtReuse \in Nat /\ JwtReuse > 0
  /\ LongAgo \in Nat /\ LongAgo = RepoTTL + 2 * MaxHold
  /\ RepoTTL > 0
  /\ MaxSkew + MaxHold <= Margin
  /\ ExpiryFloor <= Margin
  /\ DefaultLife + MaxHold <= TokenLife
  /\ Margin + MaxHold < TokenLife
  /\ MaxSkew <= Backdate
  /\ JwtTTL + MaxSkew <= JwtMax
  /\ JwtReuse + MaxSkew + MaxHold <= JwtTTL
BY CredentialsAssumption DEF JwtReuse, LongAgo

\* Every state the initial predicate allows satisfies the invariant.
LEMMA Initial == Init => Inv
<1> SUFFICES ASSUME Init PROVE Inv
  OBVIOUS
<1> USE Durations DEF Init, NoJwt, NoToken, NoRepo
<1>1. TypeOK
  BY DEF TypeOK, CachesTyped, ThreadsTyped, Steps, Owners, Jwts, Tokens, Entries
<1>2. JwtInv /\ TokenInv
  BY DEF JwtInv, TokenInv
<1>3. RepoInv
  BY DEF RepoInv, Owners
<1>4. ASSUME NEW t \in Threads PROVE ThreadInv(t)
  BY <1>4 DEF ThreadInv, Placed, BearerInv, KeyInv, OwnerInv, AtRepo, AtToken, Purposes
<1> QED
  BY <1>1, <1>2, <1>3, <1>4 DEF Inv

\* A thread that an action leaves alone keeps its part of the invariant, if the
\* clocks and the owners stand still.
LEMMA OthersKept ==
  ASSUME NEW u \in Threads, ThreadInv(u), UNCHANGED <<skew, lost>>,
         pc'[u] = pc[u], repo'[u] = repo[u], inst'[u] = inst[u],
         age'[u] = age[u], bearer'[u] = bearer[u], key'[u] = key[u]
  PROVE  ThreadInv(u)'
BY DEF ThreadInv, Placed, BearerInv, KeyInv, OwnerInv

LEMMA DoneTyped ==
  ASSUME TypeOK, NEW t \in Threads, Done(t) PROVE ThreadsTyped'
<1>1. NoJwt \in Jwts
  BY Durations DEF NoJwt, Jwts
<1> QED
  BY <1>1, Durations DEF TypeOK, ThreadsTyped, Done, Goto, Steps, Owners

\* A step of one thread that leaves the caches and the clocks alone need only
\* keep what is said of that thread.
LEMMA ThreadStep ==
  ASSUME Inv, NEW t \in Threads,
         UNCHANGED <<owner, skew, jwt, tokens, repos, lost>>,
         \A u \in Threads \ {t} :
           /\ pc'[u] = pc[u] /\ repo'[u] = repo[u] /\ inst'[u] = inst[u]
           /\ age'[u] = age[u] /\ bearer'[u] = bearer[u] /\ key'[u] = key[u],
         ThreadsTyped', ThreadInv(t)'
  PROVE  Inv'
<1>1. TypeOK'
  BY DEF Inv, TypeOK, CachesTyped
<1>2. JwtInv' /\ TokenInv' /\ RepoInv'
  BY DEF Inv, JwtInv, TokenInv, RepoInv
<1>3. ASSUME NEW u \in Threads \ {t} PROVE ThreadInv(u)'
  BY <1>3, OthersKept DEF Inv
<1> QED
  BY <1>1, <1>2, <1>3 DEF Inv

LEMMA PostKeeps ==
  ASSUME Inv, NEW t \in Threads, NEW r \in Repos, Post(t, r) PROVE Inv'
<1> USE Durations DEF Post, Goto
<1>1. ThreadsTyped'
  BY DEF Inv, TypeOK, CachesTyped, ThreadsTyped, Steps, Owners, Jwts, NoJwt,
         ThreadInv, Placed, AtRepo, AtToken, Entries, Tokens
<1>2. ThreadInv(t)'
  BY DEF Inv, TypeOK, ThreadsTyped, ThreadInv, Placed, BearerInv, KeyInv, OwnerInv,
         AtRepo, AtToken, Purposes
<1> QED
  BY <1>1, <1>2, ThreadStep DEF Inv, TypeOK, ThreadsTyped

LEMMA ActForKeeps ==
  ASSUME Inv, NEW t \in Threads, NEW i \in Installations, ActFor(t, i) PROVE Inv'
<1> USE Durations DEF ActFor, Goto
<1>1. ThreadsTyped'
  BY DEF Inv, TypeOK, CachesTyped, ThreadsTyped, Steps, Owners, Jwts, NoJwt,
         ThreadInv, Placed, AtRepo, AtToken, Entries, Tokens
<1>2. ThreadInv(t)'
  BY DEF Inv, TypeOK, CachesTyped, ThreadsTyped, Entries, Owners, RepoInv, ThreadInv,
         Placed, BearerInv, KeyInv, OwnerInv, AtRepo, AtToken, Purposes
<1> QED
  BY <1>1, <1>2, ThreadStep DEF Inv, TypeOK, ThreadsTyped

LEMMA RepoHitKeeps ==
  ASSUME Inv, NEW t \in Threads, RepoHit(t) PROVE Inv'
<1> USE Durations DEF RepoHit, Live, NeedToken, Goto
<1>1. ThreadsTyped'
  BY DEF Inv, TypeOK, CachesTyped, ThreadsTyped, Steps, Owners, Jwts, NoJwt,
         ThreadInv, Placed, AtRepo, AtToken, Entries, Tokens
<1>2. ThreadInv(t)'
  BY DEF Inv, TypeOK, CachesTyped, ThreadsTyped, Entries, Owners, RepoInv, ThreadInv,
         Placed, BearerInv, KeyInv, OwnerInv, AtRepo, AtToken, Purposes
<1> QED
  BY <1>1, <1>2, ThreadStep DEF Inv, TypeOK, ThreadsTyped

LEMMA RepoHitNoneKeeps ==
  ASSUME Inv, NEW t \in Threads, RepoHitNone(t) PROVE Inv'
<1> USE Durations DEF RepoHitNone, Done, Goto
<1>1. ThreadsTyped'
  BY DoneTyped DEF Inv
<1>2. ThreadInv(t)'
  BY DEF Inv, TypeOK, ThreadsTyped, ThreadInv, Placed, BearerInv, KeyInv, OwnerInv,
         AtRepo, AtToken, Purposes
<1> QED
  BY <1>1, <1>2, ThreadStep DEF Inv, TypeOK, ThreadsTyped

LEMMA RepoMissKeeps ==
  ASSUME Inv, NEW t \in Threads, RepoMiss(t) PROVE Inv'
<1> USE Durations DEF RepoMiss, hands, Goto
<1>1. ThreadsTyped'
  BY DEF Inv, TypeOK, CachesTyped, ThreadsTyped, Steps, Owners, Jwts, NoJwt,
         ThreadInv, Placed, AtRepo, AtToken, Entries, Tokens
<1>2. ThreadInv(t)'
  BY DEF Inv, TypeOK, ThreadsTyped, ThreadInv, Placed, BearerInv, KeyInv, OwnerInv,
         AtRepo, AtToken, Purposes
<1> QED
  BY <1>1, <1>2, ThreadStep DEF Inv, TypeOK, ThreadsTyped

LEMMA JwtHitKeeps ==
  ASSUME Inv, NEW t \in Threads, NEW p \in Purposes, JwtHit(t, p) PROVE Inv'
<1> USE Durations DEF JwtHit, Goto, JwtFor, Purposes
<1>1. ThreadsTyped'
  BY DEF Inv, TypeOK, CachesTyped, ThreadsTyped, Steps, Owners, Jwts, NoJwt,
         ThreadInv, Placed, AtRepo, AtToken, Entries, Tokens
<1>2. ThreadInv(t)'
  <2>1. BearerInv(t)'
    BY DEF Inv, TypeOK, CachesTyped, ThreadsTyped, Jwts, NoJwt, JwtInv, BearerInv
  <2>2. Placed(t)' /\ KeyInv(t)' /\ OwnerInv(t)'
    BY DEF Inv, TypeOK, ThreadsTyped, ThreadInv, Placed, KeyInv, OwnerInv, AtRepo,
           AtToken
  <2> QED
    BY <2>1, <2>2 DEF ThreadInv
<1> QED
  BY <1>1, <1>2, ThreadStep DEF Inv, TypeOK, ThreadsTyped

LEMMA JwtSignKeeps ==
  ASSUME Inv, NEW t \in Threads, NEW p \in Purposes, JwtSign(t, p) PROVE Inv'
<1> USE Durations DEF JwtSign, Goto, JwtFor, PutFor, AppJwt, Larger, Purposes
<1>1. ThreadsTyped'
  BY DEF Inv, TypeOK, CachesTyped, ThreadsTyped, Steps, Owners, Jwts, NoJwt,
         ThreadInv, Placed, AtRepo, AtToken, Entries, Tokens
<1>2. ThreadInv(t)'
  <2>1. BearerInv(t)'
    BY DEF Inv, TypeOK, CachesTyped, ThreadsTyped, Jwts, NoJwt, JwtInv, BearerInv
  <2>2. Placed(t)' /\ KeyInv(t)' /\ OwnerInv(t)'
    BY DEF Inv, TypeOK, ThreadsTyped, ThreadInv, Placed, KeyInv, OwnerInv, AtRepo,
           AtToken
  <2> QED
    BY <2>1, <2>2 DEF ThreadInv
<1> QED
  BY <1>1, <1>2, ThreadStep DEF Inv, TypeOK, ThreadsTyped

LEMMA LookupKeeps ==
  ASSUME Inv, NEW t \in Threads, Lookup(t) PROVE Inv'
<1> USE Durations DEF Lookup, Goto
<1>1. ThreadsTyped'
  BY DEF Inv, TypeOK, CachesTyped, ThreadsTyped, Steps, Owners, Jwts, NoJwt,
         ThreadInv, Placed, AtRepo, AtToken, Entries, Tokens
<1>2. ThreadInv(t)'
  BY DEF Inv, TypeOK, CachesTyped, ThreadsTyped, Entries, Owners, RepoInv, ThreadInv,
         Placed, BearerInv, KeyInv, OwnerInv, AtRepo, AtToken, Purposes
<1> QED
  BY <1>1, <1>2, ThreadStep DEF Inv, TypeOK, ThreadsTyped

LEMMA LookupFailsKeeps ==
  ASSUME Inv, NEW t \in Threads, LookupFails(t) PROVE Inv'
<1> USE Durations DEF LookupFails, Done, Goto
<1>1. ThreadsTyped'
  BY DoneTyped DEF Inv
<1>2. ThreadInv(t)'
  BY DEF Inv, TypeOK, ThreadsTyped, ThreadInv, Placed, BearerInv, KeyInv, OwnerInv,
         AtRepo, AtToken, Purposes
<1> QED
  BY <1>1, <1>2, ThreadStep DEF Inv, TypeOK, ThreadsTyped

LEMMA TokenHitKeeps ==
  ASSUME Inv, NEW t \in Threads, TokenHit(t) PROVE Inv'
<1> USE Durations DEF TokenHit, Live, Goto
<1>1. ThreadsTyped'
  BY DEF Inv, TypeOK, CachesTyped, ThreadsTyped, Steps, Owners, Jwts, NoJwt,
         ThreadInv, Placed, AtRepo, AtToken, Entries, Tokens
<1>2. ThreadInv(t)'
  <2>1. tokens[inst[t]].left > -MaxHold /\ inst[t] \in Installations
    BY DEF Inv, TypeOK, CachesTyped, ThreadsTyped, Tokens, ThreadInv, Placed, AtToken
  <2>2. KeyInv(t)'
    BY <2>1 DEF Inv, TypeOK, CachesTyped, ThreadsTyped, Tokens, TokenInv, KeyInv
  <2>3. Placed(t)' /\ BearerInv(t)' /\ OwnerInv(t)'
    BY <2>1 DEF Inv, TypeOK, ThreadsTyped, ThreadInv, Placed, BearerInv, OwnerInv,
           AtRepo, AtToken, Purposes
  <2> QED
    BY <2>2, <2>3 DEF ThreadInv
<1> QED
  BY <1>1, <1>2, ThreadStep DEF Inv, TypeOK, ThreadsTyped

LEMMA TokenMissKeeps ==
  ASSUME Inv, NEW t \in Threads, TokenMiss(t) PROVE Inv'
<1> USE Durations DEF TokenMiss, hands, Goto
<1>1. ThreadsTyped'
  BY DEF Inv, TypeOK, CachesTyped, ThreadsTyped, Steps, Owners, Jwts, NoJwt,
         ThreadInv, Placed, AtRepo, AtToken, Entries, Tokens
<1>2. ThreadInv(t)'
  BY DEF Inv, TypeOK, ThreadsTyped, ThreadInv, Placed, BearerInv, KeyInv, OwnerInv,
         AtRepo, AtToken, Purposes
<1> QED
  BY <1>1, <1>2, ThreadStep DEF Inv, TypeOK, ThreadsTyped

LEMMA MintKeeps ==
  ASSUME Inv, NEW t \in Threads, Mint(t) PROVE Inv'
<1> USE Durations DEF Mint, Goto
<1>1. ThreadsTyped'
  BY DEF Inv, TypeOK, CachesTyped, ThreadsTyped, Steps, Owners, Jwts, NoJwt,
         ThreadInv, Placed, AtRepo, AtToken, Entries, Tokens
<1>2. ThreadInv(t)'
  BY DEF Inv, TypeOK, CachesTyped, ThreadsTyped, Entries, Owners, RepoInv, ThreadInv,
         Placed, BearerInv, KeyInv, OwnerInv, AtRepo, AtToken, Purposes
<1> QED
  BY <1>1, <1>2, ThreadStep DEF Inv, TypeOK, ThreadsTyped

LEMMA MintFailsKeeps ==
  ASSUME Inv, NEW t \in Threads, MintFails(t) PROVE Inv'
<1> USE Durations DEF MintFails, Done, Goto
<1>1. ThreadsTyped'
  BY DoneTyped DEF Inv
<1>2. ThreadInv(t)'
  BY DEF Inv, TypeOK, ThreadsTyped, ThreadInv, Placed, BearerInv, KeyInv, OwnerInv,
         AtRepo, AtToken, Purposes
<1> QED
  BY <1>1, <1>2, ThreadStep DEF Inv, TypeOK, ThreadsTyped

LEMMA CallKeeps ==
  ASSUME Inv, NEW t \in Threads, Call(t) PROVE Inv'
<1> USE Durations DEF Call, Done, Goto
<1>1. ThreadsTyped'
  BY DoneTyped DEF Inv
<1>2. ThreadInv(t)'
  BY DEF Inv, TypeOK, ThreadsTyped, ThreadInv, Placed, BearerInv, KeyInv, OwnerInv,
         AtRepo, AtToken, Purposes
<1> QED
  BY <1>1, <1>2, ThreadStep DEF Inv, TypeOK, ThreadsTyped

LEMMA RepoPutKeeps ==
  ASSUME Inv, NEW t \in Threads, RepoPut(t) PROVE Inv'
<1> USE Durations DEF RepoPut, RepoEntry, NeedToken, Goto, hands
<1>1. TypeOK'
  <2>1. CachesTyped'
    BY DEF Inv, TypeOK, CachesTyped, ThreadsTyped, ThreadInv, Placed, AtRepo, AtToken,
           Entries, Tokens
  <2>2. ThreadsTyped'
    BY DEF Inv, TypeOK, CachesTyped, ThreadsTyped, Steps, Owners, NoJwt, Jwts,
           ThreadInv, Placed, AtRepo, AtToken, Entries, Tokens
  <2> QED
    BY <2>1, <2>2 DEF TypeOK
<1>2. JwtInv' /\ TokenInv'
  BY DEF Inv, JwtInv, TokenInv
<1>3. RepoInv'
  BY DEF Inv, TypeOK, CachesTyped, ThreadsTyped, Entries, RepoInv, ThreadInv, Placed,
         AtRepo, OwnerInv
<1>4. ThreadInv(t)'
  BY DEF Inv, TypeOK, CachesTyped, ThreadsTyped, Entries, Owners, RepoInv, ThreadInv,
         Placed, BearerInv, KeyInv, OwnerInv, AtRepo, AtToken, Purposes
<1>5. ASSUME NEW u \in Threads, u # t PROVE ThreadInv(u)'
  BY <1>5, OthersKept DEF Inv, TypeOK, ThreadsTyped
<1> QED
  BY <1>1, <1>2, <1>3, <1>4, <1>5 DEF Inv

LEMMA RepoPutNoneKeeps ==
  ASSUME Inv, NEW t \in Threads, RepoPutNone(t) PROVE Inv'
<1> USE Durations DEF RepoPutNone, RepoEntry, Done, Goto
<1>1. TypeOK'
  <2>1. CachesTyped'
    BY DEF Inv, TypeOK, CachesTyped, ThreadsTyped, ThreadInv, Placed, AtRepo, AtToken,
           Entries, Tokens
  <2>2. ThreadsTyped'
    BY DoneTyped DEF Inv
  <2> QED
    BY <2>1, <2>2 DEF TypeOK
<1>2. JwtInv' /\ TokenInv'
  BY DEF Inv, JwtInv, TokenInv
<1>3. RepoInv'
  BY DEF Inv, TypeOK, CachesTyped, ThreadsTyped, Entries, RepoInv, ThreadInv, Placed,
         AtRepo, OwnerInv
<1>4. ThreadInv(t)'
  BY DEF Inv, TypeOK, CachesTyped, ThreadsTyped, Entries, Owners, RepoInv, ThreadInv,
         Placed, BearerInv, KeyInv, OwnerInv, AtRepo, AtToken, Purposes
<1>5. ASSUME NEW u \in Threads, u # t PROVE ThreadInv(u)'
  BY <1>5, OthersKept DEF Inv, TypeOK, ThreadsTyped
<1> QED
  BY <1>1, <1>2, <1>3, <1>4, <1>5 DEF Inv

LEMMA JwtPutKeeps ==
  ASSUME Inv, NEW t \in Threads, NEW p \in Purposes, JwtPut(t, p) PROVE Inv'
<1> USE Durations DEF JwtPut, Goto, PutFor, hands, Purposes
<1>1. TypeOK'
  <2>1. CachesTyped'
    BY DEF Inv, TypeOK, CachesTyped, ThreadsTyped, ThreadInv, Placed, AtRepo, AtToken,
           Entries, Tokens
  <2>2. ThreadsTyped'
    BY DEF Inv, TypeOK, CachesTyped, ThreadsTyped, Steps, Owners, NoJwt, Jwts,
           ThreadInv, Placed, AtRepo, AtToken, Entries, Tokens
  <2> QED
    BY <2>1, <2>2 DEF TypeOK
<1>2. JwtInv' /\ TokenInv'
  BY DEF Inv, TypeOK, CachesTyped, ThreadsTyped, Jwts, Tokens, JwtInv, TokenInv,
         ThreadInv, BearerInv, KeyInv
<1>3. RepoInv'
  BY DEF Inv, TypeOK, CachesTyped, ThreadsTyped, Entries, RepoInv, ThreadInv, Placed,
         AtRepo, OwnerInv
<1>4. ThreadInv(t)'
  BY DEF Inv, TypeOK, CachesTyped, ThreadsTyped, Entries, Owners, RepoInv, ThreadInv,
         Placed, BearerInv, KeyInv, OwnerInv, AtRepo, AtToken, Purposes
<1>5. ASSUME NEW u \in Threads, u # t PROVE ThreadInv(u)'
  BY <1>5, OthersKept DEF Inv, TypeOK, ThreadsTyped
<1> QED
  BY <1>1, <1>2, <1>3, <1>4, <1>5 DEF Inv

LEMMA TokenPutKeeps ==
  ASSUME Inv, NEW t \in Threads, NEW e \in ParseExpiry(t), TokenPut(t, e) PROVE Inv'
<1> USE Durations DEF TokenPut, ParseExpiry, Deadline, Goto, Larger, hands
<1>1. TypeOK'
  <2>1. CachesTyped'
    BY DEF Inv, TypeOK, CachesTyped, ThreadsTyped, ThreadInv, Placed, AtRepo, AtToken,
           Entries, Tokens
  <2>2. ThreadsTyped'
    BY DEF Inv, TypeOK, CachesTyped, ThreadsTyped, Steps, Owners, NoJwt, Jwts,
           ThreadInv, Placed, AtRepo, AtToken, Entries, Tokens
  <2> QED
    BY <2>1, <2>2 DEF TypeOK
<1>2. JwtInv' /\ TokenInv'
  BY DEF Inv, TypeOK, CachesTyped, ThreadsTyped, Jwts, Tokens, JwtInv, TokenInv,
         ThreadInv, BearerInv, KeyInv
<1>3. RepoInv'
  BY DEF Inv, TypeOK, CachesTyped, ThreadsTyped, Entries, RepoInv, ThreadInv, Placed,
         AtRepo, OwnerInv
<1>4. ThreadInv(t)'
  BY DEF Inv, TypeOK, CachesTyped, ThreadsTyped, Entries, Owners, RepoInv, ThreadInv,
         Placed, BearerInv, KeyInv, OwnerInv, AtRepo, AtToken, Purposes
<1>5. ASSUME NEW u \in Threads, u # t PROVE ThreadInv(u)'
  BY <1>5, OthersKept DEF Inv, TypeOK, ThreadsTyped
<1> QED
  BY <1>1, <1>2, <1>3, <1>4, <1>5 DEF Inv

LEMMA ReassignKeeps ==
  ASSUME Inv, NEW r \in Repos, NEW o \in Owners, Reassign(r, o) PROVE Inv'
<1> USE Durations DEF Reassign, hands
<1>1. TypeOK'
  BY DEF Inv, TypeOK, CachesTyped, ThreadsTyped
<1>2. JwtInv' /\ TokenInv'
  BY DEF Inv, JwtInv, TokenInv
<1>3. \A q \in Repos, w \in Owners : lost'[q][w] <= lost[q][w]
  BY DEF Inv, TypeOK, CachesTyped
<1>4. RepoInv'
  BY <1>1, <1>3 DEF Inv, TypeOK, CachesTyped, RepoInv, Entries
<1>5. ASSUME NEW u \in Threads PROVE ThreadInv(u)'
  BY <1>1, <1>3 DEF Inv, TypeOK, CachesTyped, ThreadsTyped, ThreadInv, Placed,
         BearerInv, KeyInv, OwnerInv, AtRepo, AtToken, Owners
<1> QED
  BY <1>1, <1>2, <1>4, <1>5 DEF Inv

LEMMA ClockStepKeeps ==
  ASSUME Inv, NEW s \in -MaxSkew..MaxSkew, ClockStep(s) PROVE Inv'
<1> USE Durations DEF ClockStep
<1>1. TypeOK'
  BY DEF Inv, TypeOK, CachesTyped, ThreadsTyped, Jwts, NoJwt
<1>2. JwtInv'
  BY DEF Inv, TypeOK, CachesTyped, Jwts, NoJwt, JwtInv
<1>3. TokenInv' /\ RepoInv'
  BY DEF Inv, TokenInv, RepoInv
<1>4. ASSUME NEW u \in Threads PROVE ThreadInv(u)'
  BY DEF Inv, TypeOK, CachesTyped, ThreadsTyped, Jwts, ThreadInv, Placed, BearerInv,
         KeyInv, OwnerInv, NoJwt, Purposes
<1> QED
  BY <1>1, <1>2, <1>3, <1>4 DEF Inv

LEMMA TickKeeps ==
  ASSUME Inv, Tick PROVE Inv'
<1> USE Durations DEF Tick, Larger, Smaller
<1>1. TypeOK'
  <2>1. CachesTyped'
    <3>1. jwt' \in Jwts
      BY DEF Inv, TypeOK, CachesTyped, Jwts, NoJwt, OlderJwt
    <3>2. tokens' \in [Installations -> Tokens]
      BY DEF Inv, TypeOK, CachesTyped, Tokens, NoToken, OlderToken
    <3>3. repos' \in [Repos -> Entries]
      BY DEF Inv, TypeOK, CachesTyped, Entries, NoRepo, OlderRepo, Owners
    <3>4. lost' \in [Repos -> [Owners -> 0..LongAgo]]
      BY DEF Inv, TypeOK, CachesTyped
    <3> QED
      BY <3>1, <3>2, <3>3, <3>4 DEF Inv, TypeOK, CachesTyped
  <2>2. ThreadsTyped'
    <3>1. bearer' \in [Threads -> Jwts]
      BY DEF Inv, TypeOK, ThreadsTyped, Jwts, NoJwt, OlderBearer
    <3>2. age' \in [Threads -> 0..MaxHold] /\ key' \in [Threads -> 0..TokenLife]
      BY DEF Inv, TypeOK, ThreadsTyped, Busy
    <3> QED
      BY <3>1, <3>2 DEF Inv, TypeOK, ThreadsTyped
  <2> QED
    BY <2>1, <2>2 DEF TypeOK
<1>2. JwtInv'
  BY DEF Inv, TypeOK, CachesTyped, Jwts, NoJwt, OlderJwt, JwtInv
<1>3. TokenInv'
  BY DEF Inv, TypeOK, CachesTyped, Tokens, NoToken, OlderToken, TokenInv
<1>4. \A q \in Repos, w \in Owners : lost'[q][w] <= lost[q][w] + 1
  BY DEF Inv, TypeOK, CachesTyped
<1>5. RepoInv'
  <2>1. \A r \in Repos : lost'[r][owner'[r]] = 0
    BY DEF Inv, TypeOK, CachesTyped
  <2>2. ASSUME NEW r \in Repos, repos'[r].left > -MaxHold
        PROVE  repos'[r].left + lost'[r][repos'[r].inst] <= RepoTTL
    <3>1. repos'[r] = OlderRepo(repos[r]) /\ repos[r] \in Entries
      BY DEF Inv, TypeOK, CachesTyped
    <3>2. repos[r].left > 1 - MaxHold
      BY <2>2, <3>1 DEF OlderRepo, NoRepo, Entries
    <3>3. repos'[r].left = repos[r].left - 1 /\ repos'[r].inst = repos[r].inst
      BY <3>1, <3>2 DEF OlderRepo, Entries
    <3>4. repos[r].inst \in Owners /\ repos[r].left \in Int
      BY <3>1 DEF Entries
    <3>5. repos[r].left + lost[r][repos[r].inst] <= RepoTTL
      BY <3>2, <3>4 DEF Inv, RepoInv
    <3>6. lost[r][repos[r].inst] \in Int /\ lost'[r][repos[r].inst] \in Int
      BY <1>1, <3>4 DEF Inv, TypeOK, CachesTyped
    <3> QED
      BY <1>4, <3>3, <3>4, <3>5, <3>6
  <2> QED
    BY <2>1, <2>2 DEF RepoInv
<1>6. ASSUME NEW u \in Threads PROVE ThreadInv(u)'
  <2>1. pc[u] # "idle" => age'[u] = age[u] + 1
    BY DEF Inv, TypeOK, ThreadsTyped, Busy
  <2>2. Placed(u)' /\ KeyInv(u)'
    BY <2>1 DEF Inv, TypeOK, ThreadsTyped, ThreadInv, Placed, KeyInv
  <2>3. BearerInv(u)'
    BY <2>1 DEF Inv, TypeOK, CachesTyped, ThreadsTyped, ThreadInv, BearerInv, Jwts,
                NoJwt, OlderBearer, Purposes
  <2>4. OwnerInv(u)'
    BY <2>1, <1>1, <1>4 DEF Inv, TypeOK, CachesTyped, ThreadsTyped, ThreadInv,
                Placed, OwnerInv, AtRepo, AtToken, Owners
  <2> QED
    BY <2>2, <2>3, <2>4 DEF ThreadInv
<1> QED
  BY <1>1, <1>2, <1>3, <1>5, <1>6 DEF Inv
-----------------------------------------------------------------------------
\* Every step of the credential code, of GitHub and of the clocks keeps it.
LEMMA Preserved == Inv /\ [Next]_vars => Inv'
<1> SUFFICES ASSUME Inv, [Next]_vars PROVE Inv'
  OBVIOUS
<1>1. CASE UNCHANGED vars
  BY <1>1 DEF vars, Inv, TypeOK, CachesTyped, ThreadsTyped, JwtInv, TokenInv, RepoInv,
              ThreadInv, Placed, BearerInv, KeyInv, OwnerInv
<1>2. ASSUME NEW t \in Threads, NEW r \in Repos, Post(t, r) PROVE Inv'
  BY <1>2, PostKeeps
<1>3. ASSUME NEW t \in Threads, NEW i \in Installations, ActFor(t, i) PROVE Inv'
  BY <1>3, ActForKeeps
<1>4. ASSUME NEW t \in Threads, Thread(t) PROVE Inv'
  <2>1. ASSUME NEW p \in Purposes, JwtHit(t, p) \/ JwtSign(t, p) \/ JwtPut(t, p)
        PROVE  Inv'
    BY <2>1, JwtHitKeeps, JwtSignKeeps, JwtPutKeeps
  <2>2. ASSUME NEW e \in ParseExpiry(t), TokenPut(t, e) PROVE Inv'
    BY <2>2, TokenPutKeeps
  <2> QED
    BY <1>4, <2>1, <2>2, RepoHitKeeps, RepoHitNoneKeeps, RepoMissKeeps, LookupKeeps,
       LookupFailsKeeps, RepoPutKeeps, RepoPutNoneKeeps, TokenHitKeeps, TokenMissKeeps,
       MintKeeps, MintFailsKeeps, CallKeeps DEF Thread
<1>5. ASSUME NEW r \in Repos, NEW o \in Owners, Reassign(r, o) PROVE Inv'
  BY <1>5, ReassignKeeps
<1>6. ASSUME NEW s \in -MaxSkew..MaxSkew, ClockStep(s) PROVE Inv'
  BY <1>6, ClockStepKeeps
<1> QED
  BY <1>1, <1>2, <1>3, <1>4, <1>5, <1>6, TickKeeps DEF Next, Environment

LEMMA Invariance == Spec => []Inv
BY Initial, Preserved, PTL DEF Spec

\* The variables keep their types, and no cached token outstays its life less
\* the refresh margin, whatever the clock does (installation_token).
THEOREM CredentialsTyped == Spec => []TypeOK
<1>1. Inv => TypeOK
  BY DEF Inv
<1> QED
  BY <1>1, Invariance, PTL

\* No request carries an installation token that has run out: a live reading
\* that is MaxHold old still has Margin - MaxSkew of its life (is_live).
THEOREM TokensLive == Spec => []LiveAtUse
<1>1. Inv => LiveAtUse
  BY Durations DEF Inv, TypeOK, ThreadsTyped, ThreadInv, KeyInv, LiveAtUse
<1> QED
  BY <1>1, Invariance, PTL

\* GitHub accepts every App JWT the process sends: backdating outweighs the
\* skew, and half of the life outweighs the skew and a delay (app_jwt, jwt).
THEOREM JwtsAccepted == Spec => []JwtAccepted
<1>1. Inv => JwtAccepted
  BY Durations DEF Inv, TypeOK, ThreadsTyped, Jwts, ThreadInv, BearerInv, JwtAccepted,
     Purposes
<1> QED
  BY <1>1, Invariance, PTL

\* A comment goes out with the credential of an installation that owned the
\* repository until RepoTTL + 2 * MaxHold ago (repo_installation's cache).
THEOREM WritesRecent == Spec => []WriteRecent
<1>1. Inv => WriteRecent
  BY Durations DEF Inv, TypeOK, CachesTyped, ThreadsTyped, Owners, ThreadInv, Placed,
     OwnerInv, WriteRecent, AtToken
<1> QED
  BY <1>1, Invariance, PTL

\* A cached "not installed" refuses a write no longer than RepoTTL and a delay
\* after it was last true.
THEOREM RefusalsRecent == Spec => RefusalRecent
<1>1. ASSUME Inv, [Next]_vars, NEW t \in Threads, pc[t] = "repo", pc'[t] = "idle"
      PROVE  lost[repo[t]][None] < RepoTTL + MaxHold
  <2>1. repo[t] \in Repos
    BY <1>1 DEF Inv, ThreadInv, Placed, AtRepo
  <2>2. RepoHitNone(t)
    <3>1. ASSUME NEW u \in Threads, u # t, Thread(u) PROVE pc'[t] = pc[t]
      BY <1>1, <3>1 DEF Inv, TypeOK, ThreadsTyped, Thread, RepoHit, RepoHitNone, RepoMiss,
         JwtHit, JwtSign, JwtPut, Lookup, LookupFails, RepoPut, RepoPutNone, TokenHit,
         TokenMiss, Mint, MintFails, TokenPut, Call, Done, NeedToken, Goto
    <3>2. ASSUME Thread(t) PROVE RepoHitNone(t)
      BY <1>1, <3>2 DEF Inv, TypeOK, ThreadsTyped, Thread, RepoHit, RepoMiss, JwtHit,
         JwtSign, JwtPut, Lookup, LookupFails, RepoPut, RepoPutNone, TokenHit, TokenMiss,
         Mint, MintFails, TokenPut, Call, NeedToken, Goto, JwtFor, PutFor, Purposes
    <3>3. ~\E u \in Threads, r \in Repos : Post(u, r)
      BY <1>1 DEF Inv, TypeOK, ThreadsTyped, Post, Goto
    <3>4. ~\E u \in Threads, i \in Installations : ActFor(u, i)
      BY <1>1 DEF Inv, TypeOK, ThreadsTyped, ActFor, Goto
    <3>5. ~(Environment \/ UNCHANGED vars)
      BY <1>1 DEF Environment, Reassign, Tick, ClockStep, vars
    <3> QED
      BY <1>1, <3>1, <3>2, <3>3, <3>4, <3>5 DEF Next
  <2>3. repos[repo[t]].inst = None /\ repos[repo[t]].left + age[t] > 0
    BY <2>2 DEF RepoHitNone, Live
  <2>4. age[t] \in 0..MaxHold /\ repos[repo[t]].left \in Int
        /\ lost[repo[t]][None] \in Int
    BY <1>1, <2>1 DEF Inv, TypeOK, CachesTyped, ThreadsTyped, Entries, Owners
  <2>5. repos[repo[t]].left + lost[repo[t]][None] <= RepoTTL
    BY <1>1, <2>1, <2>3, <2>4, Durations DEF Inv, RepoInv
  <2> QED
    BY <2>3, <2>4, <2>5, Durations
<1>2. Inv /\ [Next]_vars =>
        [\A t \in Threads : pc[t] = "repo" /\ pc'[t] = "idle" =>
           lost[repo[t]][None] < RepoTTL + MaxHold]_vars
  BY <1>1
<1> QED
  BY <1>2, Invariance, PTL DEF Spec, RefusalRecent
=============================================================================
