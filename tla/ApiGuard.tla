------------------------------ MODULE ApiGuard ------------------------------
(***************************************************************************)
(* Who is let through to the handlers of one API process, and how often:   *)
(* the caller's address behind proxies, the bearer token, and the          *)
(* fixed-window limiter that request threads share.  The webhook and the   *)
(* mutation limiter share nothing; a run is about one of them, with        *)
(* rate_limit_enabled: without it the limiter is not consulted at all.     *)
(*                                                                         *)
(*   app/ratelimit.py   FixedWindowRateLimiter, resolve_client_ip          *)
(*   app/main.py        _client_ip, _rate_limit, the dependency lists      *)
(*                                                                         *)
(* A thread reads the clock before it takes the limiter's lock, so what it *)
(* compares with the window is up to MaxHold old.  Windows carry their age *)
(* (now - start) instead of a date; one that is over for every reading     *)
(* still in flight is the same as none.                                    *)
(***************************************************************************)
EXTENDS Integers, Sequences, FiniteSetsExt

CONSTANTS
  Threads,    \* request threads
  Clients,    \* addresses that are not proxies
  Trusted,    \* the addresses AUTOPR_TRUSTED_PROXIES covers
  Garbage,    \* text that is no address
  NoPeer,     \* a connection without an address
  Local,      \* {NoPeer} if the server listens on a Unix socket as well, or {}
  Unknown,    \* the key of such a connection
  Gated,      \* the route asks for the token first: the mutating ones do
  Limit,      \* rate_limit_mutations_per_min or rate_limit_webhook_per_min
  Window,     \* window_s, in ticks
  Second,     \* ticks to a second, the unit of Retry-After
  MaxHold,    \* bound of the time from reading the clock to having the lock
  MaxForged,  \* bound of what a client writes into X-Forwarded-For
  MaxHops     \* bound of the proxies on the way

Addresses == Clients \cup Trusted
Keys      == Addresses \cup {Unknown}
Hops      == Addresses \cup {Garbage}

ASSUME GuardAssumption ==
  /\ Clients \cap Trusted = {}
  /\ {Garbage, NoPeer, Unknown} \cap Addresses = {}
  /\ NoPeer # Garbage /\ Unknown # Garbage
  /\ Local \subseteq {NoPeer}
  /\ Gated \in BOOLEAN
  /\ Limit \in Nat
  /\ Window \in Nat /\ Second \in Nat \ {0} /\ MaxHold \in Nat
  /\ MaxHold < Window
  /\ MaxForged \in Nat /\ MaxHops \in Nat

VARIABLES
  win,       \* of each key: its window, or NoWindow
  pc,        \* of each thread
  key,       \* what the limiter will count its request under
  held,      \* the caller has the bearer token
  read,      \* time since the thread read the clock
  wait,      \* what is left of the Retry-After its caller was given
  sender,    \* history: who really sent the request
  bound,     \* history: the window that refused it is still the current one
  admitted   \* history: how many of a key were let through, by how long ago

vars == <<win, pc, key, held, read, wait, sender, bound, admitted>>

\* start and count of a window, start as an age; lag is how old the reading was
\* that opened it.
NoWindow == [age |-> Window + MaxHold, count |-> 0, lag |-> 0]

Ages == 0..(Window - MaxHold - 1)

Init ==
  /\ win = [k \in Keys |-> NoWindow]
  /\ pc = [t \in Threads |-> "idle"]
  /\ key = [t \in Threads |-> Unknown]
  /\ held = [t \in Threads |-> FALSE]
  /\ read = [t \in Threads |-> 0]
  /\ wait = [t \in Threads |-> 0]
  /\ sender = [t \in Threads |-> Unknown]
  /\ bound = [t \in Threads |-> FALSE]
  /\ admitted = [k \in Keys |-> [a \in Ages |-> 0]]

-----------------------------------------------------------------------------
\* The hops that are not a proxy of ours.
Strangers(hops) == {i \in DOMAIN hops : hops[i] \notin Trusted}

\* Mutant of ResolveClientIp: the walk starts at the client's end.
ResolveClientIpFromLeft(peer, hops) ==
  IF peer = NoPeer THEN Unknown
  ELSE IF hops = <<>> \/ peer \notin Trusted THEN peer
  ELSE IF Strangers(hops) = {} THEN hops[1]
  ELSE IF hops[Min(Strangers(hops))] \notin Addresses THEN peer
  ELSE hops[Min(Strangers(hops))]

\* The last hop that is not one of ours, if a proxy of ours handed it over.
ResolveClientIp(peer, hops) ==
  IF peer = NoPeer THEN Unknown
  ELSE IF hops = <<>> \/ peer \notin Trusted THEN peer
  ELSE IF Strangers(hops) = {} THEN hops[1]
  ELSE IF hops[Max(Strangers(hops))] \notin Addresses THEN peer
  ELSE hops[Max(Strangers(hops))]

\* What reaches the process of a request that went through proxies: each adds
\* the address it was handed the request by, the first one perhaps masked.  A
\* proxy is taken to continue the line it received, as nginx does: _client_ip
\* reads one X-Forwarded-For line, the first, and would not see a further one.
Header(forged, shown, proxies) ==
  IF proxies = <<>> THEN forged
  ELSE forged \o <<shown>> \o SubSeq(proxies, 1, Len(proxies) - 1)

Peer(c, proxies) == IF proxies = <<>> THEN c ELSE proxies[Len(proxies)]

\* A request of c arrives, with whatever c wrote into the header itself; a proxy
\* that sends one on its own account writes nothing.
Arrive(t, c, forged, shown, proxies) ==
  /\ c \in Trusted => forged = <<>> /\ shown = c
  /\ c = NoPeer => proxies = <<>> /\ shown = c
  /\ pc[t] = "idle"
  /\ key' = [key EXCEPT ![t] =
       ResolveClientIp(Peer(c, proxies), Header(forged, shown, proxies))]
  /\ sender' = [sender EXCEPT ![t] =
       IF c = NoPeer THEN Unknown ELSE IF shown = c THEN c ELSE Peer(c, proxies)]
  /\ \E b \in BOOLEAN : held' = [held EXCEPT ![t] = b]
  /\ pc' = [pc EXCEPT ![t] = IF Gated THEN "token" ELSE "clock"]
  /\ UNCHANGED <<win, read, wait, bound, admitted>>

\* The request is answered.
Done(t) ==
  /\ pc' = [pc EXCEPT ![t] = "idle"]
  /\ key' = [key EXCEPT ![t] = Unknown]
  /\ sender' = [sender EXCEPT ![t] = Unknown]
  /\ held' = [held EXCEPT ![t] = FALSE]

\* require_api_token comes before the limiter in the dependency list: a 401
\* ends the request here, ...
Unauthorised(t) ==
  /\ pc[t] = "token"
  /\ ~held[t]
  /\ Done(t)
  /\ UNCHANGED <<win, read, wait, bound, admitted>>

\* Mutant of Token: the limiter is asked first, everybody reaches it.
TokenAfterLimiter(t) ==
  /\ pc[t] = "token"
  /\ pc' = [pc EXCEPT ![t] = "clock"]
  /\ UNCHANGED <<win, key, held, read, wait, sender, bound, admitted>>

\* ... the holder of the token goes on.
Token(t) ==
  /\ pc[t] = "token"
  /\ held[t]
  /\ pc' = [pc EXCEPT ![t] = "clock"]
  /\ UNCHANGED <<win, key, held, read, wait, sender, bound, admitted>>

\* allow() up to the lock.
Clock(t) ==
  /\ pc[t] = "clock"
  /\ pc' = [pc EXCEPT ![t] = "lock"]
  /\ UNCHANGED <<win, key, held, read, wait, sender, bound, admitted>>

\* t - w.start, under the lock.
Seen(t) == win[key[t]].age - read[t]

\* Mutant of Elapsed: the last second of a window counts as over.
ElapsedEarly(t) == Seen(t) >= Window - Second

\* True of NoWindow whatever the reading.
Elapsed(t) == Seen(t) >= Window

Admit(t, w) ==
  /\ win' = [win EXCEPT ![key[t]] = w]
  /\ admitted' = [admitted EXCEPT ![key[t]][0] = @ + 1]
  /\ read' = [read EXCEPT ![t] = 0]
  /\ Done(t)
  /\ UNCHANGED wait

\* A new window; whoever the old one refused is no longer bound to it.
Open(t) ==
  /\ pc[t] = "lock"
  /\ Elapsed(t)
  /\ Admit(t, [age |-> read[t], count |-> 1, lag |-> read[t]])
  /\ bound' = [u \in Threads |-> bound[u] /\ u # t /\ key[u] # key[t]]

\* Mutant of Count: one more than the limit.
CountInclusive(t) ==
  LET w == win[key[t]] IN
  /\ pc[t] = "lock"
  /\ ~Elapsed(t)
  /\ w.count <= Limit
  /\ Admit(t, [age |-> w.age, count |-> w.count + 1, lag |-> w.lag])
  /\ bound' = [bound EXCEPT ![t] = FALSE]

Count(t) ==
  LET w == win[key[t]] IN
  /\ pc[t] = "lock"
  /\ ~Elapsed(t)
  /\ w.count < Limit
  /\ Admit(t, [age |-> w.age, count |-> w.count + 1, lag |-> w.lag])
  /\ bound' = [bound EXCEPT ![t] = FALSE]

\* Mutant of RetryAfter: the seconds are cut off, not rounded up.
RetryAfterCut(t) == (Window - Seen(t)) \div Second

\* In whole seconds; the window has not elapsed, so the difference is positive.
RetryAfter(t) == (Window - Seen(t)) \div Second + 1

\* 429; the caller is told when to come back.
Refuse(t) ==
  /\ pc[t] = "lock"
  /\ ~Elapsed(t)
  /\ win[key[t]].count >= Limit
  /\ wait' = [wait EXCEPT ![t] = Second * RetryAfter(t)]
  /\ bound' = [bound EXCEPT ![t] = TRUE]
  /\ pc' = [pc EXCEPT ![t] = "told"]
  /\ read' = [read EXCEPT ![t] = 0]
  /\ UNCHANGED <<win, key, held, sender, admitted>>

\* A caller that honours Retry-After sends its request again when it is over.
Return(t) ==
  /\ pc[t] = "told"
  /\ wait[t] = 0
  /\ pc' = [pc EXCEPT ![t] = "clock"]
  /\ UNCHANGED <<win, key, held, read, wait, sender, bound, admitted>>

\* One that does not wait: its next request is another one.
GiveUp(t) ==
  /\ pc[t] = "told"
  /\ Done(t)
  /\ wait' = [wait EXCEPT ![t] = 0]
  /\ bound' = [bound EXCEPT ![t] = FALSE]
  /\ UNCHANGED <<win, read, admitted>>

-----------------------------------------------------------------------------
Older(w) ==
  IF w.age >= Window + MaxHold - 1 THEN NoWindow
  ELSE [age |-> w.age + 1, count |-> w.count, lag |-> w.lag]

\* Time passes; a thread that has read the clock gets the lock within MaxHold.
Tick ==
  /\ \A t \in Threads : pc[t] = "lock" => read[t] < MaxHold
  /\ read' = [t \in Threads |-> IF pc[t] = "lock" THEN read[t] + 1 ELSE 0]
  /\ wait' = [t \in Threads |-> IF wait[t] > 0 THEN wait[t] - 1 ELSE 0]
  /\ win' = [k \in Keys |-> Older(win[k])]
  /\ admitted' = [k \in Keys |-> [a \in Ages |-> IF a = 0 THEN 0 ELSE admitted[k][a - 1]]]
  /\ UNCHANGED <<pc, key, held, sender, bound>>

Forged  == UNION {[1..n -> Hops] : n \in 0..MaxForged}
Proxies == UNION {[1..n -> Trusted] : n \in 0..MaxHops}

Request(t) ==
  \E c \in Addresses \cup Local, f \in Forged, p \in Proxies :
    \E s \in {c, Garbage} : Arrive(t, c, f, s, p)

Thread(t) ==
  \/ Request(t) \/ Unauthorised(t) \/ Token(t) \/ Clock(t)
  \/ Open(t) \/ Count(t) \/ Refuse(t) \/ Return(t) \/ GiveUp(t)

Next == Tick \/ \E t \in Threads : Thread(t)

Spec == Init /\ [][Next]_vars

-----------------------------------------------------------------------------
\* What one window lets through: the first request is not compared with the limit.
PerWindow == IF Limit = 0 THEN 1 ELSE Limit

Windows == [age : 0..(Window + MaxHold), count : 0..PerWindow, lag : 0..MaxHold]

\* Types; no window lets more through than its limit, or one.
TypeOK ==
  /\ win \in [Keys -> Windows]
  /\ pc \in [Threads -> {"idle", "token", "clock", "lock", "told"}]
  /\ key \in [Threads -> Keys]
  /\ held \in [Threads -> BOOLEAN]
  /\ read \in [Threads -> 0..MaxHold]
  /\ wait \in [Threads -> Nat]
  /\ sender \in [Threads -> Keys]
  /\ bound \in [Threads -> BOOLEAN]
  /\ admitted \in [Keys -> [Ages -> Nat]]

\* The limiter counts a request under the address that really sent it (or the
\* proxy that hides it), whatever the sender wrote into X-Forwarded-For.
CountedUnderSender == \A t \in Threads : key[t] = sender[t]

\* A caller that waits as long as Retry-After says is not refused again by the
\* window that refused it, though both readings of the clock were old.
RetryHonoured == \A t \in Threads : pc[t] = "lock" /\ bound[t] => Elapsed(t)

\* The requests of a key let through in the last Window - MaxHold ticks: the
\* n-th of those a ticks ago.
Recent(k) == UNION {{a} \X (1..admitted[k][a]) : a \in Ages}

\* In any Window - MaxHold ticks a key gets twice the limit at most, the burst
\* at a window's edge: the documented factor, for a slightly shorter interval.
BurstBound == \A k \in Keys : Cardinality(Recent(k)) <= 2 * PerWindow

\* Two windows of a key open at least Window - MaxHold apart, which is why an
\* interval of that length meets two of them and never three.
WindowsApart ==
  [][\A k \in Keys :
       win'[k].age < win[k].age /\ win[k] # NoWindow =>
         win[k].age - win[k].lag >= Window - MaxHold]_vars

\* The mutation budget of an address is spent by holders of the token only: a
\* caller without it cannot lock the holder out.
SpentByHolders ==
  [][\A k \in Keys :
       Gated /\ admitted'[k][0] > admitted[k][0] =>
         \E t \in Threads : pc[t] = "lock" /\ key[t] = k /\ held[t]]_vars
=============================================================================
