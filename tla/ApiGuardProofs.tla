--------------------------- MODULE ApiGuardProofs ---------------------------
(***************************************************************************)
(* The limiter's guarantees for any number of threads, addresses, hops and *)
(* for every limit and window: who a request is counted under, how far     *)
(* apart windows open, and that Retry-After is enough.                     *)
(***************************************************************************)
EXTENDS ApiGuard, SequenceTheorems, FiniteSetTheorems, TLAPS

\* A thread whose caller was refused finds that window over when it is back.
RetryInv ==
  \A t \in Threads :
    LET age == win[key[t]].age IN
    bound[t] =>
      /\ pc[t] \in {"told", "clock", "lock"}
      /\ pc[t] = "told" => age + wait[t] >= Window
      /\ pc[t] = "clock" => age >= Window
      /\ pc[t] = "lock" => age >= Window + read[t]

\* Behind the token check there are holders only.
HolderInv ==
  \A t \in Threads : Gated /\ pc[t] \in {"clock", "lock", "told"} => held[t]

\* A thread that is not between the clock and the lock has no reading.
ReadInv == \A t \in Threads : pc[t] # "lock" => read[t] = 0

Inv == TypeOK /\ ReadInv /\ RetryInv /\ HolderInv /\ CountedUnderSender

-----------------------------------------------------------------------------
\* The walk from the right ends at what our own first proxy was handed.
LEMMA LastStranger ==
  ASSUME NEW forged \in Seq(Hops), NEW shown \in Hops \ Trusted,
         NEW front \in Seq(Trusted)
  PROVE  /\ Strangers(forged \o <<shown>> \o front) # {}
         /\ (forged \o <<shown>> \o front)[Max(Strangers(forged \o <<shown>> \o front))] = shown
         /\ forged \o <<shown>> \o front # <<>>
<1> DEFINE hops == forged \o <<shown>> \o front
           strangers == Strangers(hops)
           n == Len(forged) + 1
<1>1. Len(forged) \in Nat /\ Len(front) \in Nat
  BY LenProperties
<1>2. /\ Len(hops) = n + Len(front)
      /\ hops[n] = shown
      /\ \A i \in (n + 1)..(n + Len(front)) : hops[i] = front[i - n]
      /\ DOMAIN hops = 1..(n + Len(front))
  <2>1. DOMAIN forged = 1..Len(forged) /\ DOMAIN front = 1..Len(front)
    BY LenProperties
  <2> QED
    BY <1>1, <2>1
<1>3. \A i \in 1..Len(front) : front[i] \in Trusted
  BY ElementOfSeq
<1>4. n \in strangers /\ \A i \in strangers : n >= i /\ i \in Nat
  <2>1. n \in strangers
    BY <1>1, <1>2 DEF Strangers
  <2>2. ASSUME NEW i \in strangers, ~(n >= i)
        PROVE  FALSE
    <3>1. i \in (n + 1)..(n + Len(front)) /\ hops[i] \notin Trusted
      BY <1>1, <1>2, <2>2 DEF Strangers
    <3>2. i - n \in 1..Len(front)
      BY <1>1, <3>1
    <3> QED
      BY <1>2, <1>3, <3>1, <3>2
  <2> QED
    BY <1>1, <1>2, <2>1, <2>2 DEF Strangers
<1>5. Max(strangers) = n
  <2>1. ASSUME NEW x \in strangers, \A y \in strangers : x >= y
        PROVE  x = n
    <3>1. x >= n /\ n >= x /\ x \in Nat /\ n \in Nat
      BY <1>1, <1>4, <2>1
    <3> QED
      BY <3>1
  <2> QED
    BY <1>4, <2>1 DEF Max
<1> HIDE DEF hops, strangers, n
<1>6. strangers # {} /\ hops[Max(strangers)] = shown
  BY <1>2, <1>4, <1>5
<1>7. hops # <<>>
  BY <1>1, <1>2 DEF n
<1> QED
  BY <1>6, <1>7 DEF hops, strangers

\* An address of ours, or the client's, whatever the client forged.
LEMMA Resolved ==
  ASSUME NEW c \in Addresses \cup Local, NEW forged \in Forged,
         NEW shown \in {c, Garbage}, NEW proxies \in Proxies,
         c \in Trusted => forged = <<>> /\ shown = c,
         c = NoPeer => proxies = <<>> /\ shown = c
  PROVE  ResolveClientIp(Peer(c, proxies), Header(forged, shown, proxies)) =
           IF c = NoPeer THEN Unknown ELSE IF shown = c THEN c ELSE Peer(c, proxies)
<1> DEFINE front == SubSeq(proxies, 1, Len(proxies) - 1)
           hops == Header(forged, shown, proxies)
<1>1. /\ \A a \in Addresses : a # NoPeer /\ a # Garbage
      /\ Garbage # NoPeer /\ Local \subseteq {NoPeer}
      /\ \A a \in Clients : a \notin Trusted
      /\ Garbage \notin Trusted
  BY GuardAssumption DEF Addresses
<1>2. CASE proxies = <<>>
  BY <1>1, <1>2 DEF ResolveClientIp, Peer, Header, Addresses
<1>3. CASE proxies # <<>>
  <2>1. c \in Addresses
    BY <1>1, <1>3
  <2>2. /\ proxies \in Seq(Trusted) /\ Len(proxies) \in Nat \ {0}
        /\ Peer(c, proxies) \in Trusted
    <3>1. PICK n \in 0..MaxHops : proxies \in [1..n -> Trusted]
      BY DEF Proxies
    <3>2. n # 0
      BY <1>3, <3>1, SMT
    <3>3. n \in Nat \ {0} /\ proxies \in Seq(Trusted) /\ Len(proxies) = n
      BY <3>1, <3>2, GuardAssumption
    <3> QED
      BY <1>3, <3>1, <3>3 DEF Peer
  <2>3. front \in Seq(Trusted)
    BY <2>2
  <2>4. forged \in Seq(Hops)
    <3>1. PICK n \in 0..MaxForged : forged \in [1..n -> Hops]
      BY DEF Forged
    <3> QED
      BY <3>1, GuardAssumption
  <2>5. hops = forged \o <<shown>> \o front
    BY <1>3 DEF Header
  <2> DEFINE strangers == Strangers(hops)
  <2>8. ResolveClientIp(Peer(c, proxies), hops) =
          IF hops = <<>> THEN Peer(c, proxies)
          ELSE IF strangers = {} THEN hops[1]
          ELSE IF hops[Max(strangers)] \notin Addresses THEN Peer(c, proxies)
          ELSE hops[Max(strangers)]
    <3>1. Peer(c, proxies) # NoPeer
      BY <1>1, <2>2 DEF Addresses
    <3> HIDE DEF hops
    <3> QED
      BY <2>2, <3>1, Zenon DEF ResolveClientIp
  <2> HIDE DEF hops, front
  <2>6. CASE shown \in Trusted
    <3>1. shown = c /\ forged = <<>>
      BY <1>1, <2>6
    <3>2. hops = <<shown>> \o front
      BY <2>3, <2>5, <3>1
    <3>3. /\ hops[1] = c /\ hops # <<>>
          /\ \A i \in DOMAIN hops : hops[i] \in Trusted
      <4>1. <<shown>> \o front \in Seq(Trusted) /\ (<<shown>> \o front)[1] = shown
        BY <2>3, <2>6
      <4> QED
        BY <3>1, <3>2, <4>1
    <3>4. strangers = {}
      BY <3>3 DEF Strangers
    <3> QED
      BY <1>1, <2>1, <2>8, <3>1, <3>3, <3>4 DEF hops
  <2>7. CASE shown \notin Trusted
    <3>1. shown \in Hops \ Trusted
      BY <2>1, <2>7 DEF Hops
    <3>2. strangers # {} /\ hops[Max(strangers)] = shown /\ hops # <<>>
      BY <2>3, <2>4, <2>5, <3>1, LastStranger, Zenon
    <3> QED
      BY <1>1, <2>1, <2>8, <3>2 DEF hops
  <2> QED
    BY <2>6, <2>7
<1> QED
  BY <1>2, <1>3

\* A request in progress has a key the limiter knows.
LEMMA ResolvedKey ==
  ASSUME NEW c \in Addresses \cup Local, NEW shown, NEW proxies \in Proxies
  PROVE  (IF c = NoPeer THEN Unknown ELSE IF shown = c THEN c ELSE Peer(c, proxies)) \in Keys
<1>1. CASE proxies = <<>>
  BY <1>1, GuardAssumption DEF Keys, Peer
<1>2. CASE proxies # <<>>
  <2>1. PICK n \in 0..MaxHops : proxies \in [1..n -> Trusted]
    BY DEF Proxies
  <2>2. n # 0
    BY <1>2, <2>1, SMT
  <2>3. n \in Nat \ {0} /\ Len(proxies) = n
    BY <2>1, <2>2, GuardAssumption
  <2> QED
    BY <1>2, <2>1, <2>3, GuardAssumption DEF Keys, Peer, Addresses
<1> QED
  BY <1>1, <1>2

-----------------------------------------------------------------------------
\* The initial state.
LEMMA InitInv == Init => Inv
<1> SUFFICES ASSUME Init PROVE Inv
  OBVIOUS
<1> USE GuardAssumption
<1>1. NoWindow \in Windows
  BY DEF NoWindow, Windows, PerWindow
<1>2. TypeOK
  BY <1>1 DEF Init, TypeOK, Keys, Ages
<1>3. ReadInv /\ RetryInv /\ HolderInv /\ CountedUnderSender
  BY DEF Init, ReadInv, RetryInv, HolderInv, CountedUnderSender
<1> QED
  BY <1>2, <1>3 DEF Inv

\* A request arrives.
LEMMA ArriveInv ==
  ASSUME Inv, NEW t \in Threads, Request(t)
  PROVE  Inv'
<1> USE GuardAssumption
<1>1. PICK c \in Addresses \cup Local, f \in Forged, p \in Proxies :
        \E s \in {c, Garbage} : Arrive(t, c, f, s, p)
  BY DEF Request
<1>2. PICK s \in {c, Garbage} : Arrive(t, c, f, s, p)
  BY <1>1
<1> DEFINE k == IF c = NoPeer THEN Unknown ELSE IF s = c THEN c ELSE Peer(c, p)
<1>3. k \in Keys
  BY ResolvedKey
<1>4. ResolveClientIp(Peer(c, p), Header(f, s, p)) = k
  BY <1>2, Resolved DEF Arrive
<1> HIDE DEF k
<1>5. /\ pc[t] = "idle"
      /\ key' = [key EXCEPT ![t] = k] /\ sender' = [sender EXCEPT ![t] = k]
      /\ \E b \in BOOLEAN : held' = [held EXCEPT ![t] = b]
      /\ pc' = [pc EXCEPT ![t] = IF Gated THEN "token" ELSE "clock"]
      /\ UNCHANGED <<win, read, wait, bound, admitted>>
  BY <1>2, <1>4 DEF Arrive, k
<1>6. TypeOK'
  BY <1>3, <1>5 DEF Inv, TypeOK
<1>7. ~bound[t]
  BY <1>5 DEF Inv, RetryInv
<1>8. ReadInv' /\ RetryInv'
  BY <1>5, <1>7 DEF Inv, TypeOK, ReadInv, RetryInv
<1>9. HolderInv' /\ CountedUnderSender'
  BY <1>5 DEF Inv, TypeOK, HolderInv, CountedUnderSender
<1> QED
  BY <1>6, <1>8, <1>9 DEF Inv

\* The steps of a thread that leave the windows and the waits alone.
LEMMA PassInv ==
  ASSUME Inv, NEW t \in Threads, Unauthorised(t) \/ Token(t) \/ Clock(t) \/ Return(t)
  PROVE  Inv'
<1> USE GuardAssumption
<1>1. TypeOK'
  BY DEF Inv, TypeOK, Unauthorised, Token, Clock, Return, Done, Keys
<1>2. ReadInv' /\ HolderInv' /\ CountedUnderSender'
  BY DEF Inv, TypeOK, ReadInv, HolderInv, CountedUnderSender,
         Unauthorised, Token, Clock, Return, Done
<1>3. RetryInv'
  <2>1. CASE Unauthorised(t) \/ Token(t)
    BY <2>1 DEF Inv, TypeOK, RetryInv, Unauthorised, Token, Done
  <2>2. CASE Clock(t)
    BY <2>2 DEF Inv, TypeOK, Windows, ReadInv, RetryInv, Clock
  <2>3. CASE Return(t)
    BY <2>3 DEF Inv, TypeOK, Windows, RetryInv, Return
  <2> QED
    BY <2>1, <2>2, <2>3
<1> QED
  BY <1>1, <1>2, <1>3 DEF Inv

\* What Admit leaves of the invariant, given the window it writes.
LEMMA AdmitInv ==
  ASSUME Inv, NEW t \in Threads, pc[t] = "lock", NEW w \in Windows, Admit(t, w),
         bound' \in [Threads -> BOOLEAN], ~bound'[t],
         \A u \in Threads : bound'[u] => bound[u],
         \A u \in Threads : bound'[u] /\ key[u] = key[t] => w.age = win[key[t]].age
  PROVE  Inv'
<1> USE GuardAssumption
<1>1. TypeOK'
  <2>1. 0 \in Ages
    BY DEF Ages
  <2>2. admitted' \in [Keys -> [Ages -> Nat]]
    BY <2>1 DEF Inv, TypeOK, Admit
  <2>3. win' \in [Keys -> Windows]
    BY DEF Inv, TypeOK, Admit
  <2>4. /\ pc' \in [Threads -> {"idle", "token", "clock", "lock", "told"}]
        /\ key' \in [Threads -> Keys] /\ sender' \in [Threads -> Keys]
        /\ held' \in [Threads -> BOOLEAN]
    BY DEF Inv, TypeOK, Admit, Done, Keys
  <2>5. read' \in [Threads -> 0..MaxHold] /\ wait' \in [Threads -> Nat]
    BY DEF Inv, TypeOK, Admit
  <2> QED
    BY <2>2, <2>3, <2>4, <2>5 DEF TypeOK
<1>2. ReadInv' /\ HolderInv' /\ CountedUnderSender'
  BY DEF Inv, TypeOK, ReadInv, HolderInv, CountedUnderSender, Admit, Done
<1>3. ASSUME NEW u \in Threads, bound'[u]
      PROVE  /\ u # t /\ bound[u] /\ pc'[u] = pc[u] /\ key'[u] = key[u]
             /\ read'[u] = read[u] /\ wait'[u] = wait[u]
             /\ win'[key'[u]].age = win[key[u]].age
  BY <1>3 DEF Inv, TypeOK, Admit, Done
<1>4. RetryInv'
  BY <1>3 DEF Inv, RetryInv
<1> QED
  BY <1>1, <1>2, <1>4 DEF Inv

LEMMA OpenInv ==
  ASSUME Inv, NEW t \in Threads, Open(t)
  PROVE  Inv'
<1> DEFINE w == [age |-> read[t], count |-> 1, lag |-> read[t]]
<1>1. w \in Windows
  BY GuardAssumption DEF Inv, TypeOK, Windows, PerWindow
<1> HIDE DEF w
<1>2. pc[t] = "lock" /\ Admit(t, w)
  BY DEF Open, w
<1>3. /\ bound' \in [Threads -> BOOLEAN] /\ ~bound'[t]
      /\ \A u \in Threads : bound'[u] => bound[u] /\ key[u] # key[t]
  BY DEF Open, Inv, TypeOK
<1> QED
  BY <1>1, <1>2, <1>3, AdmitInv

LEMMA CountInv ==
  ASSUME Inv, NEW t \in Threads, Count(t)
  PROVE  Inv'
<1> DEFINE v == win[key[t]]
           w == [age |-> v.age, count |-> v.count + 1, lag |-> v.lag]
<1>1. v \in Windows /\ v.count < Limit
  BY DEF Inv, TypeOK, Count
<1>2. w \in Windows
  BY <1>1, GuardAssumption DEF Windows, PerWindow
<1>3. w.age = v.age
  OBVIOUS
<1>4. pc[t] = "lock" /\ Admit(t, w)
  BY DEF Count
<1>5. /\ bound' \in [Threads -> BOOLEAN] /\ ~bound'[t]
      /\ \A u \in Threads : bound'[u] => bound[u]
  BY DEF Count, Inv, TypeOK
<1> HIDE DEF w
<1> QED
  BY <1>2, <1>3, <1>4, <1>5, AdmitInv

\* The wait that Retry-After asks for outlasts the window.
LEMMA RetryOutlasts ==
  ASSUME NEW d \in Int, d > 0
  PROVE  Second * (d \div Second + 1) \in Nat /\ Second * (d \div Second + 1) >= d
BY GuardAssumption

LEMMA RefuseInv ==
  ASSUME Inv, NEW t \in Threads, Refuse(t)
  PROVE  Inv'
<1> USE GuardAssumption
<1>1. win[key[t]].age \in Nat /\ read[t] \in Nat /\ read[t] <= MaxHold
  BY DEF Inv, TypeOK, Windows
<1> DEFINE d == Window - Seen(t)
<1>2. d \in Int /\ d > 0 /\ win[key[t]].age + d >= Window
  BY <1>1 DEF Refuse, Elapsed, Seen
<1>3. wait'[t] \in Nat /\ wait'[t] >= d /\ wait' \in [Threads -> Nat]
  <2>1. wait' = [wait EXCEPT ![t] = Second * (d \div Second + 1)]
    BY DEF Refuse, RetryAfter
  <2>2. Second * (d \div Second + 1) \in Nat /\ Second * (d \div Second + 1) >= d
    BY <1>2, RetryOutlasts
  <2> HIDE DEF d
  <2> QED
    BY <2>1, <2>2 DEF Inv, TypeOK
<1>4. TypeOK'
  BY <1>3 DEF Inv, TypeOK, Refuse
<1>5. ReadInv' /\ HolderInv' /\ CountedUnderSender'
  BY DEF Inv, TypeOK, ReadInv, HolderInv, CountedUnderSender, Refuse
<1>6. win[key[t]].age + wait'[t] >= Window
  BY <1>1, <1>2, <1>3
<1>7. RetryInv'
  BY <1>6 DEF Inv, TypeOK, RetryInv, Refuse
<1> QED
  BY <1>4, <1>5, <1>7 DEF Inv

LEMMA GiveUpInv ==
  ASSUME Inv, NEW t \in Threads, GiveUp(t)
  PROVE  Inv'
<1> USE GuardAssumption
<1>1. TypeOK'
  BY DEF Inv, TypeOK, GiveUp, Done, Keys
<1>2. ReadInv' /\ HolderInv' /\ CountedUnderSender' /\ RetryInv'
  BY DEF Inv, TypeOK, ReadInv, HolderInv, CountedUnderSender, RetryInv, GiveUp, Done
<1> QED
  BY <1>1, <1>2 DEF Inv

\* A window a tick older, and still the limiter's.
LEMMA OlderWindow ==
  ASSUME NEW w \in Windows
  PROVE  /\ Older(w) \in Windows
         /\ Older(w).age = IF w.age >= Window + MaxHold - 1 THEN Window + MaxHold
                           ELSE w.age + 1
BY GuardAssumption DEF Older, NoWindow, Windows, PerWindow

LEMMA TickInv ==
  ASSUME Inv, Tick
  PROVE  Inv'
<1> USE GuardAssumption
<1>1. TypeOK'
  <2>1. win' \in [Keys -> Windows]
    BY OlderWindow DEF Inv, TypeOK, Tick
  <2>2. admitted' \in [Keys -> [Ages -> Nat]]
    <3>1. ASSUME NEW k \in Keys, NEW a \in Ages
          PROVE  (IF a = 0 THEN 0 ELSE admitted[k][a - 1]) \in Nat
      BY DEF Inv, TypeOK, Ages
    <3> QED
      BY <3>1 DEF Tick
  <2>3. read' \in [Threads -> 0..MaxHold] /\ wait' \in [Threads -> Nat]
    BY DEF Inv, TypeOK, Tick
  <2> QED
    BY <2>1, <2>2, <2>3 DEF Inv, TypeOK, Tick
<1>2. ReadInv' /\ HolderInv' /\ CountedUnderSender'
  BY DEF Inv, ReadInv, HolderInv, CountedUnderSender, Tick
<1>3. RetryInv'
  <2> SUFFICES ASSUME NEW t \in Threads, bound[t]
               PROVE  LET age == win'[key[t]].age IN
                      /\ pc[t] \in {"told", "clock", "lock"}
                      /\ pc[t] = "told" => age + wait'[t] >= Window
                      /\ pc[t] = "clock" => age >= Window
                      /\ pc[t] = "lock" => age >= Window + read'[t]
    BY DEF Tick, RetryInv
  <2> DEFINE a == win[key[t]].age
             b == win'[key[t]].age
  <2>1. a \in 0..(Window + MaxHold)
    BY DEF Inv, TypeOK, Windows
  <2>2. b = IF a >= Window + MaxHold - 1 THEN Window + MaxHold ELSE a + 1
    BY OlderWindow DEF Inv, TypeOK, Tick
  <2>3. /\ wait[t] \in Nat /\ read[t] \in 0..MaxHold
        /\ wait'[t] = IF wait[t] > 0 THEN wait[t] - 1 ELSE 0
        /\ pc[t] = "lock" => read[t] < MaxHold /\ read'[t] = read[t] + 1
    BY DEF Inv, TypeOK, Tick
  <2>4. /\ pc[t] \in {"told", "clock", "lock"}
        /\ pc[t] = "told" => a + wait[t] >= Window
        /\ pc[t] = "clock" => a >= Window
        /\ pc[t] = "lock" => a >= Window + read[t]
    BY DEF Inv, RetryInv
  <2> HIDE DEF a, b
  <2>5. pc[t] = "told" => b + wait'[t] >= Window
    BY <2>1, <2>2, <2>3, <2>4
  <2>6. pc[t] = "clock" => b >= Window
    BY <2>1, <2>2, <2>4
  <2>7. pc[t] = "lock" => b >= Window + read'[t]
    BY <2>1, <2>2, <2>3, <2>4
  <2> QED
    BY <2>4, <2>5, <2>6, <2>7 DEF b
<1> QED
  BY <1>1, <1>2, <1>3 DEF Inv

LEMMA NextInv == Inv /\ [Next]_vars => Inv'
<1> SUFFICES ASSUME Inv, [Next]_vars PROVE Inv'
  OBVIOUS
<1>1. CASE Tick
  BY <1>1, TickInv
<1>2. ASSUME NEW t \in Threads, Thread(t)
      PROVE  Inv'
  BY <1>2, ArriveInv, PassInv, OpenInv, CountInv, RefuseInv, GiveUpInv DEF Thread
<1>3. CASE UNCHANGED vars
  BY <1>3 DEF vars, Inv, TypeOK, ReadInv, RetryInv, HolderInv, CountedUnderSender
<1> QED
  BY <1>1, <1>2, <1>3 DEF Next

-----------------------------------------------------------------------------
\* Types, and the count of a window: no key gets more than the limit out of one
\* window of FixedWindowRateLimiter.allow (one request if the limit is zero).
THEOREM GuardTyped == Spec => []TypeOK
<1>1. Inv => TypeOK
  BY DEF Inv
<1> QED
  BY InitInv, NextInv, <1>1, PTL DEF Spec

\* resolve_client_ip finds the sender for every forged header and every chain of
\* trusted proxies.
THEOREM SendersCounted == Spec => []CountedUnderSender
<1>1. Inv => CountedUnderSender
  BY DEF Inv
<1> QED
  BY InitInv, NextInv, <1>1, PTL DEF Spec

\* A caller that honours the Retry-After of a 429 finds that window over.
THEOREM RetryEnough == Spec => []RetryHonoured
<1>1. Inv => RetryHonoured
  <2> SUFFICES ASSUME Inv, NEW t \in Threads, pc[t] = "lock", bound[t]
               PROVE  Elapsed(t)
    BY DEF RetryHonoured
  <2>1. win[key[t]].age \in Nat /\ read[t] \in Nat
    BY GuardAssumption DEF Inv, TypeOK, Windows
  <2>2. win[key[t]].age >= Window + read[t]
    BY DEF Inv, RetryInv
  <2> QED
    BY <2>1, <2>2, GuardAssumption DEF Elapsed, Seen
<1> QED
  BY InitInv, NextInv, <1>1, PTL DEF Spec

\* A step that restarts a window is Open, by a thread that saw it elapsed.
LEMMA ApartStep ==
  ASSUME Inv, [Next]_vars, NEW k \in Keys,
         win'[k].age < win[k].age, win[k] # NoWindow
  PROVE  win[k].age - win[k].lag >= Window - MaxHold
<1> USE GuardAssumption
<1>1. win[k].age \in 0..(Window + MaxHold) /\ win[k].lag \in 0..MaxHold
  BY DEF Inv, TypeOK, Windows
<1>2. CASE Tick
  <2>1. win'[k].age = IF win[k].age >= Window + MaxHold - 1 THEN Window + MaxHold
                      ELSE win[k].age + 1
    BY <1>2, OlderWindow DEF Inv, TypeOK, Tick
  <2> QED
    BY <1>1, <2>1
<1>3. ASSUME NEW t \in Threads, Thread(t), win'[k] # win[k]
      PROVE  win[k].age - win[k].lag >= Window - MaxHold
  <2>1. Open(t) \/ Count(t)
    BY <1>3 DEF Thread, Request, Arrive, Unauthorised, Token, Clock, Refuse, Return, GiveUp
  <2>2. CASE Open(t)
    <3>1. k = key[t]
      BY <1>3, <2>2 DEF Open, Admit, Inv, TypeOK
    <3>2. read[t] \in 0..MaxHold /\ win[k].age - read[t] >= Window
      BY <2>2, <3>1 DEF Open, Elapsed, Seen, Inv, TypeOK
    <3> QED
      BY <1>1, <3>2
  <2>3. CASE Count(t)
    <3>1. k = key[t] /\ win'[k].age = win[k].age
      BY <1>3, <2>3 DEF Count, Admit, Inv, TypeOK
    <3> QED
      BY <1>1, <3>1
  <2> QED
    BY <2>1, <2>2, <2>3
<1>4. win'[k] # win[k]
  BY <1>1
<1> QED
  BY <1>2, <1>3, <1>4 DEF Next, vars

\* Windows of a key open at least Window - MaxHold apart: the reading that was
\* taken before the lock costs at most MaxHold.
THEOREM WindowsOpenApart == Spec => WindowsApart
<1>1. Inv /\ [Next]_vars =>
        [\A k \in Keys :
           win'[k].age < win[k].age /\ win[k] # NoWindow =>
             win[k].age - win[k].lag >= Window - MaxHold]_vars
  BY ApartStep
<1> QED
  BY InitInv, NextInv, <1>1, PTL DEF Spec, WindowsApart

\* Only a thread that holds the lock lets a request through, and behind
\* require_api_token there are holders only.
THEOREM HoldersSpend == Spec => SpentByHolders
<1>1. Inv /\ [Next]_vars =>
        [\A k \in Keys :
           Gated /\ admitted'[k][0] > admitted[k][0] =>
             \E t \in Threads : pc[t] = "lock" /\ key[t] = k /\ held[t]]_vars
  <2> SUFFICES ASSUME Inv, [Next]_vars, NEW k \in Keys, Gated,
                      admitted'[k][0] > admitted[k][0]
               PROVE  \E t \in Threads : pc[t] = "lock" /\ key[t] = k /\ held[t]
    OBVIOUS
  <2>1. 0 \in Ages /\ admitted[k][0] \in Nat
    BY GuardAssumption DEF Ages, Inv, TypeOK
  <2>2. CASE Tick
    BY <2>1, <2>2 DEF Tick
  <2>3. ASSUME NEW t \in Threads, Thread(t), admitted'[k] # admitted[k]
        PROVE  pc[t] = "lock" /\ key[t] = k /\ held[t]
    <3>1. Open(t) \/ Count(t)
      BY <2>3 DEF Thread, Request, Arrive, Unauthorised, Token, Clock, Refuse, Return, GiveUp
    <3>2. pc[t] = "lock" /\ key[t] = k
      BY <2>3, <3>1 DEF Open, Count, Admit, Inv, TypeOK
    <3> QED
      BY <3>2 DEF Inv, HolderInv
  <2>4. admitted'[k] # admitted[k]
    BY <2>1
  <2> QED
    BY <2>2, <2>3, <2>4 DEF Next, vars
<1> QED
  BY InitInv, NextInv, <1>1, PTL DEF Spec, SpentByHolders

-----------------------------------------------------------------------------
(* The burst at a window's edge.                                             *)

\* Those of them less than o ticks old.
Younger(k, o) == {x \in Recent(k) : x[1] < o}

\* What was let through since the current window opened is its count, what was
\* before it fits into one window; of a key without a window there is only that.
BurstInv ==
  \A k \in Keys :
    LET w == win[k] IN
    /\ IsFiniteSet(Recent(k))
    /\ w.age = Window + MaxHold => Cardinality(Recent(k)) <= PerWindow
    /\ w.age # Window + MaxHold =>
         /\ Cardinality(Recent(k)) <= w.count + PerWindow
         /\ Cardinality(Younger(k, w.age - w.lag)) <= w.count

LEMMA RecentPair ==
  ASSUME NEW k \in Keys, NEW x
  PROVE  x \in Recent(k) <=> \E a \in Ages : \E n \in 1..admitted[k][a] : x = <<a, n>>
BY DEF Recent

\* No more in a set than in the one it was shifted out of.
LEMMA Shifted ==
  ASSUME NEW S, NEW T, IsFiniteSet(T),
         \A x \in S : \E a \in Nat, n \in Nat : x = <<a, n>> /\ <<a - 1, n>> \in T
  PROVE  IsFiniteSet(S) /\ Cardinality(S) <= Cardinality(T)
<1> DEFINE f == [x \in S |-> <<x[1] - 1, x[2]>>]
<1>1. \A x \in S : f[x] \in T
  <2> SUFFICES ASSUME NEW x \in S PROVE f[x] \in T
    OBVIOUS
  <2>1. PICK a \in Nat, n \in Nat : x = <<a, n>> /\ <<a - 1, n>> \in T
    OBVIOUS
  <2>2. f[x] = <<a - 1, n>>
    BY <2>1
  <2> QED
    BY <2>1, <2>2
<1>2. ASSUME NEW x \in S, NEW y \in S, f[x] = f[y]
      PROVE  x = y
  <2>1. PICK a \in Nat, n \in Nat : x = <<a, n>>
    OBVIOUS
  <2>2. PICK b \in Nat, m \in Nat : y = <<b, m>>
    OBVIOUS
  <2>3. <<a - 1, n>> = <<b - 1, m>>
    BY <1>2, <2>1, <2>2
  <2>4. a - 1 = b - 1 /\ n = m
    BY <2>3
  <2> QED
    BY <2>1, <2>2, <2>4
<1>3. f \in [S -> T]
  BY <1>1
<1> HIDE DEF f
<1>4. f \in Injection(S, T)
  BY <1>2, <1>3 DEF Injection, IsInjective
<1> QED
  BY <1>4, FS_Injection

LEMMA BurstInit == Init => BurstInv
<1> SUFFICES ASSUME Init, NEW k \in Keys
             PROVE  /\ IsFiniteSet(Recent(k)) /\ Cardinality(Recent(k)) = 0
                    /\ win[k].age = Window + MaxHold
  BY GuardAssumption DEF BurstInv, PerWindow
<1>1. \A x : x \notin Recent(k)
  <2>1. \A a \in Ages : admitted[k][a] = 0
    BY DEF Init
  <2>2. 1..0 = {}
    OBVIOUS
  <2> QED
    BY <2>1, <2>2, RecentPair
<1>2. Recent(k) = {}
  BY <1>1, Zenon
<1> QED
  BY <1>2, FS_EmptySet DEF Init, NoWindow

\* One request more, of this tick.
LEMMA AdmitRecent ==
  ASSUME Inv, BurstInv, NEW t \in Threads, NEW k \in Keys, k = key[t],
         NEW w, Admit(t, w)
  PROVE  /\ IsFiniteSet(Recent(k)')
         /\ Cardinality(Recent(k)') = Cardinality(Recent(k)) + 1
         /\ \E x : Recent(k)' = Recent(k) \cup {x} /\ x[1] = 0
         /\ win'[k] = w
         /\ \A l \in Keys \ {k} : Recent(l)' = Recent(l) /\ win'[l] = win[l]
<1> DEFINE m == admitted[k][0]
           x == <<0, m + 1>>
<1>1. 0 \in Ages /\ m \in Nat
  BY GuardAssumption DEF Inv, TypeOK, Ages
<1>2. /\ admitted'[k][0] = m + 1
      /\ \A a \in Ages \ {0} : admitted'[k][a] = admitted[k][a]
      /\ \A l \in Keys \ {k} : admitted'[l] = admitted[l] /\ win'[l] = win[l]
      /\ win'[k] = w
  BY <1>1 DEF Admit, Inv, TypeOK
<1>3. \A y : y \in Recent(k)' <=> \E a \in Ages : \E n \in 1..admitted'[k][a] : y = <<a, n>>
  BY <1>1 DEF Recent
<1>4. x \notin Recent(k)
  <2> SUFFICES ASSUME x \in Recent(k) PROVE FALSE
    OBVIOUS
  <2>1. PICK a \in Ages : \E n \in 1..admitted[k][a] : x = <<a, n>>
    BY <1>1, RecentPair
  <2>2. PICK n \in 1..admitted[k][a] : x = <<a, n>>
    BY <2>1
  <2>3. a = 0 /\ n = m + 1
    BY <2>2
  <2> QED
    BY <1>1, <2>2, <2>3
<1>5. Recent(k)' = Recent(k) \cup {x}
  <2>1. 1..(m + 1) = (1..m) \cup {m + 1}
    BY <1>1
  <2>2. ASSUME NEW y
        PROVE  y \in Recent(k)' <=> y \in Recent(k) \/ y = x
    <3>1. y \in Recent(k) <=> \E a \in Ages : \E n \in 1..admitted[k][a] : y = <<a, n>>
      BY <1>1, RecentPair
    <3> QED
      BY <1>1, <1>2, <1>3, <2>1, <3>1
  <2> QED
    BY <2>2
<1>6. IsFiniteSet(Recent(k))
  BY <1>1 DEF BurstInv
<1>7. \A l \in Keys \ {k} : Recent(l)' = Recent(l) /\ win'[l] = win[l]
  BY <1>2 DEF Recent
<1>8. x[1] = 0
  OBVIOUS
<1> HIDE DEF x
<1>9. /\ IsFiniteSet(Recent(k)')
      /\ Cardinality(Recent(k)') = Cardinality(Recent(k)) + 1
  BY <1>4, <1>5, <1>6, FS_AddElement
<1> QED
  BY <1>1, <1>2, <1>5, <1>7, <1>8, <1>9

\* A step that lets a request of k through leaves the other keys alone.
LEMMA OthersBurst ==
  ASSUME BurstInv, NEW k \in Keys,
         \A l \in Keys \ {k} : Recent(l)' = Recent(l) /\ win'[l] = win[l],
         IsFiniteSet(Recent(k)'), win'[k].age # Window + MaxHold,
         Cardinality(Younger(k, win[k].age - win[k].lag)') <= win'[k].count,
         Cardinality(Recent(k)') <= win'[k].count + PerWindow
  PROVE  BurstInv'
<1>1. \A l \in Keys \ {k} :
        Younger(l, win[l].age - win[l].lag)' = Younger(l, win[l].age - win[l].lag)
  BY DEF Younger
<1> QED
  BY <1>1 DEF BurstInv

LEMMA OpenBurst ==
  ASSUME Inv, BurstInv, NEW t \in Threads, Open(t)
  PROVE  BurstInv'
<1> USE GuardAssumption
<1>1. PICK k \in Keys : k = key[t]
  BY DEF Inv, TypeOK
<1> DEFINE w == [age |-> read[t], count |-> 1, lag |-> read[t]]
<1>2. Admit(t, w) /\ win[k].age - read[t] >= Window
  BY <1>1 DEF Open, Elapsed, Seen
<1>3. win[k] \in Windows /\ read[t] \in 0..MaxHold /\ PerWindow \in Nat
  BY DEF Inv, TypeOK, PerWindow
<1>4. Cardinality(Recent(k)) <= PerWindow
  <2>1. CASE win[k].age = Window + MaxHold
    BY <2>1 DEF BurstInv
  <2>2. CASE win[k].age # Window + MaxHold
    <3>1. win[k].age - win[k].lag >= Window - MaxHold
      BY <1>2, <1>3 DEF Windows
    <3>2. \A x \in Recent(k) : x[1] < win[k].age - win[k].lag
      <4> SUFFICES ASSUME NEW x \in Recent(k) PROVE x[1] < win[k].age - win[k].lag
        OBVIOUS
      <4>1. PICK a \in Ages : \E n \in 1..admitted[k][a] : x = <<a, n>>
        BY RecentPair
      <4>2. x[1] = a
        BY <4>1
      <4>3. a \in Int /\ a <= Window - MaxHold - 1
        BY DEF Ages
      <4> QED
        BY <1>3, <3>1, <4>2, <4>3 DEF Windows
    <3>3. Younger(k, win[k].age - win[k].lag) = Recent(k)
      BY <3>2 DEF Younger
    <3>4. Cardinality(Recent(k)) <= win[k].count
      BY <2>2, <3>3 DEF BurstInv
    <3>5. Cardinality(Recent(k)) \in Nat
      BY FS_CardinalityType DEF BurstInv
    <3> QED
      BY <1>3, <3>4, <3>5 DEF Windows
  <2> QED
    BY <2>1, <2>2
<1>5. Cardinality(Recent(k)) \in Nat
  BY FS_CardinalityType DEF BurstInv
<1> HIDE DEF w
<1>6. /\ IsFiniteSet(Recent(k)')
      /\ Cardinality(Recent(k)') = Cardinality(Recent(k)) + 1
      /\ win'[k] = w
      /\ \A l \in Keys \ {k} : Recent(l)' = Recent(l) /\ win'[l] = win[l]
  BY <1>1, <1>2, AdmitRecent
<1>7. w.age = read[t] /\ w.lag = read[t] /\ w.count = 1
  BY DEF w
<1>8. Younger(k, win[k].age - win[k].lag)' = {}
  <2>1. win'[k].age - win'[k].lag = 0
    BY <1>3, <1>6, <1>7
  <2>2. ASSUME NEW x \in Recent(k)' PROVE ~(x[1] < 0)
    <3>1. PICK a \in Ages : \E n \in 1..admitted'[k][a] : x = <<a, n>>
      BY <2>2 DEF Recent
    <3>2. x[1] = a /\ a \in Nat
      BY <3>1 DEF Ages
    <3> QED
      BY <3>2
  <2> QED
    BY <2>1, <2>2 DEF Younger
<1>9. /\ Cardinality(Younger(k, win[k].age - win[k].lag)') <= win'[k].count
      /\ Cardinality(Recent(k)') <= win'[k].count + PerWindow
      /\ win'[k].age # Window + MaxHold
  <2>1. Cardinality({}) = 0
    BY FS_EmptySet, Zenon
  <2>2. Cardinality(Younger(k, win[k].age - win[k].lag)') = 0
    BY <1>8, <2>1
  <2> QED
    BY <1>3, <1>4, <1>5, <1>6, <1>7, <2>2
<1> QED
  BY <1>6, <1>9, OthersBurst

LEMMA CountBurst ==
  ASSUME Inv, BurstInv, NEW t \in Threads, Count(t)
  PROVE  BurstInv'
<1> USE GuardAssumption
<1>1. PICK k \in Keys : k = key[t]
  BY DEF Inv, TypeOK
<1> DEFINE v == win[k]
           w == [age |-> v.age, count |-> v.count + 1, lag |-> v.lag]
           o == v.age - v.lag
<1>2. Admit(t, w) /\ v.age - read[t] < Window
  BY <1>1 DEF Count, Elapsed, Seen, Inv, TypeOK, Windows
<1>3. v \in Windows /\ read[t] \in 0..MaxHold /\ PerWindow \in Nat
  BY DEF Inv, TypeOK, PerWindow
<1>4. v.age # Window + MaxHold
  BY <1>2, <1>3 DEF Windows
<1>5. /\ IsFiniteSet(Recent(k)) /\ Cardinality(Recent(k)) <= v.count + PerWindow
      /\ Cardinality(Younger(k, o)) <= v.count
  BY <1>4 DEF BurstInv
<1> HIDE DEF w
<1>6. /\ IsFiniteSet(Recent(k)')
      /\ Cardinality(Recent(k)') = Cardinality(Recent(k)) + 1
      /\ \E x : Recent(k)' = Recent(k) \cup {x} /\ x[1] = 0
      /\ win'[k] = w
      /\ \A l \in Keys \ {k} : Recent(l)' = Recent(l) /\ win'[l] = win[l]
  BY <1>1, <1>2, AdmitRecent
<1>7. w.age = v.age /\ w.lag = v.lag /\ w.count = v.count + 1
  BY DEF w
<1>8. PICK x : Recent(k)' = Recent(k) \cup {x}
  BY <1>6
<1>9. IsFiniteSet(Younger(k, o)) /\ Younger(k, win[k].age - win[k].lag)' \subseteq Younger(k, o) \cup {x}
  <2>1. win'[k].age - win'[k].lag = o
    BY <1>6, <1>7
  <2>2. Younger(k, o) \subseteq Recent(k)
    BY DEF Younger
  <2>3. IsFiniteSet(Younger(k, o))
    BY <1>5, <2>2, FS_Subset
  <2>4. \A y : y \in Younger(k, win[k].age - win[k].lag)' <=> y \in Recent(k)' /\ y[1] < o
    BY <2>1 DEF Younger
  <2>5. \A y : y \in Younger(k, o) <=> y \in Recent(k) /\ y[1] < o
    BY DEF Younger
  <2> QED
    BY <1>8, <2>3, <2>4, <2>5
<1>10. Cardinality(Younger(k, win[k].age - win[k].lag)') <= Cardinality(Younger(k, o)) + 1
  <2>1. /\ IsFiniteSet(Younger(k, o) \cup {x})
        /\ Cardinality(Younger(k, o) \cup {x}) <= Cardinality(Younger(k, o)) + 1
    <3>1. /\ IsFiniteSet(Younger(k, o) \cup {x})
          /\ Cardinality(Younger(k, o) \cup {x}) =
               IF x \in Younger(k, o) THEN Cardinality(Younger(k, o))
               ELSE Cardinality(Younger(k, o)) + 1
      BY <1>9, FS_AddElement, Zenon
    <3>2. Cardinality(Younger(k, o)) \in Nat
      BY <1>9, FS_CardinalityType, Zenon
    <3> QED
      BY <3>1, <3>2
  <2>2. /\ IsFiniteSet(Younger(k, win[k].age - win[k].lag)')
        /\ Cardinality(Younger(k, win[k].age - win[k].lag)') <= Cardinality(Younger(k, o) \cup {x})
    BY <1>9, <2>1, FS_Subset
  <2> QED
    BY <1>9, <2>1, <2>2, FS_CardinalityType
<1>11. /\ Cardinality(Younger(k, win[k].age - win[k].lag)') \in Nat
       /\ Cardinality(Younger(k, o)) \in Nat /\ Cardinality(Recent(k)) \in Nat
  <2>1. IsFiniteSet(Younger(k, win[k].age - win[k].lag)')
    BY <1>6, FS_Subset DEF Younger
  <2> QED
    BY <1>5, <1>9, <2>1, FS_CardinalityType
<1> HIDE DEF o
<1>12. /\ Cardinality(Younger(k, win[k].age - win[k].lag)') <= win'[k].count
       /\ Cardinality(Recent(k)') <= win'[k].count + PerWindow
       /\ win'[k].age # Window + MaxHold
  <2>1. v.count \in Nat
    BY <1>3 DEF Windows
  <2> QED
    BY <1>3, <1>4, <1>5, <1>6, <1>7, <1>10, <1>11, <2>1
<1> QED
  BY <1>6, <1>12, OthersBurst

\* Time passes: every request of the interval was in it a tick ago, and none of
\* them is of this tick.
LEMMA TickBurst ==
  ASSUME Inv, BurstInv, Tick
  PROVE  BurstInv'
<1> USE GuardAssumption
<1> SUFFICES ASSUME NEW k \in Keys
             PROVE  LET w == win'[k] IN
                    /\ IsFiniteSet(Recent(k)')
                    /\ w.age = Window + MaxHold => Cardinality(Recent(k)') <= PerWindow
                    /\ w.age # Window + MaxHold =>
                         /\ Cardinality(Recent(k)') <= w.count + PerWindow
                         /\ Cardinality(Younger(k, win[k].age - win[k].lag)') <= w.count
  BY DEF BurstInv
<1> DEFINE v == win[k]
           o == v.age - v.lag
<1>1. v \in Windows /\ PerWindow \in Nat
  BY DEF Inv, TypeOK, PerWindow
<1>2. win'[k] = IF v.age >= Window + MaxHold - 1 THEN NoWindow
                ELSE [age |-> v.age + 1, count |-> v.count, lag |-> v.lag]
  BY DEF Tick, Older
<1>3. ASSUME NEW x \in Recent(k)'
      PROVE  \E a \in Nat, n \in Nat :
               x = <<a, n>> /\ <<a - 1, n>> \in Recent(k) /\ a < Window - MaxHold
  <2>1. PICK a \in Ages : \E n \in 1..admitted'[k][a] : x = <<a, n>>
    BY <1>3 DEF Recent
  <2>2. admitted'[k][a] = IF a = 0 THEN 0 ELSE admitted[k][a - 1]
    BY DEF Tick
  <2>3. PICK n \in 1..admitted'[k][a] : x = <<a, n>>
    BY <2>1
  <2>4. a # 0 /\ n \in 1..admitted[k][a - 1] /\ a - 1 \in Ages
    BY <2>2, <2>3 DEF Ages
  <2>5. <<a - 1, n>> \in Recent(k)
    BY <2>4, RecentPair
  <2>6. a \in Nat /\ n \in Nat /\ a < Window - MaxHold
    BY <2>4 DEF Ages
  <2> QED
    BY <2>3, <2>5, <2>6
<1>4. /\ IsFiniteSet(Recent(k))
      /\ v.age = Window + MaxHold => Cardinality(Recent(k)) <= PerWindow
      /\ v.age # Window + MaxHold =>
           Cardinality(Recent(k)) <= v.count + PerWindow /\ Cardinality(Younger(k, o)) <= v.count
  BY DEF BurstInv
<1>5. IsFiniteSet(Recent(k)') /\ Cardinality(Recent(k)') <= Cardinality(Recent(k))
  BY <1>3, <1>4, Shifted
<1>6. IsFiniteSet(Younger(k, o))
  BY <1>4, FS_Subset DEF Younger
<1>7. /\ Cardinality(Recent(k)') \in Nat /\ Cardinality(Recent(k)) \in Nat
      /\ Cardinality(Younger(k, o)) \in Nat
  BY <1>4, <1>5, <1>6, FS_CardinalityType
<1>8. CASE v.age = Window + MaxHold
  BY <1>2, <1>4, <1>5, <1>7, <1>8, <1>1 DEF NoWindow
<1>9. CASE v.age = Window + MaxHold - 1
  <2>1. win'[k].age = Window + MaxHold
    BY <1>2, <1>9 DEF NoWindow
  <2>2. o >= Window - 1 /\ o \in Int
    BY <1>1, <1>9 DEF Windows
  <2>3. ASSUME NEW x \in Recent(k)'
        PROVE  \E a \in Nat, n \in Nat : x = <<a, n>> /\ <<a - 1, n>> \in Younger(k, o)
    <3>1. PICK a \in Nat, n \in Nat :
            x = <<a, n>> /\ <<a - 1, n>> \in Recent(k) /\ a < Window - MaxHold
      BY <1>3, <2>3
    <3>2. <<a - 1, n>>[1] < o
      BY <2>2, <3>1
    <3> QED
      BY <3>1, <3>2 DEF Younger
  <2>4. Cardinality(Recent(k)') <= Cardinality(Younger(k, o))
    BY <1>6, <2>3, Shifted
  <2>5. Cardinality(Younger(k, o)) <= v.count /\ v.count \in 0..PerWindow
    BY <1>1, <1>4, <1>9 DEF Windows
  <2>6. Cardinality(Recent(k)') <= PerWindow
    BY <1>1, <1>7, <2>4, <2>5
  <2> QED
    BY <1>5, <2>1, <2>6
<1>10. CASE v.age < Window + MaxHold - 1
  <2>1. /\ win'[k].age = v.age + 1 /\ win'[k].count = v.count /\ win'[k].lag = v.lag
        /\ win'[k].age # Window + MaxHold /\ v.count \in Nat /\ o \in Int
        /\ win'[k].age - win'[k].lag = o + 1
    BY <1>1, <1>2, <1>10 DEF Windows
  <2>2. ASSUME NEW x \in Younger(k, win[k].age - win[k].lag)'
        PROVE  \E a \in Nat, n \in Nat : x = <<a, n>> /\ <<a - 1, n>> \in Younger(k, o)
    <3>1. x \in Recent(k)' /\ x[1] < o + 1
      BY <2>1, <2>2 DEF Younger
    <3>2. PICK a \in Nat, n \in Nat : x = <<a, n>> /\ <<a - 1, n>> \in Recent(k)
      BY <1>3, <3>1
    <3>3. <<a - 1, n>>[1] < o
      BY <2>1, <3>1, <3>2
    <3> QED
      BY <3>2, <3>3 DEF Younger
  <2>3. /\ IsFiniteSet(Younger(k, win[k].age - win[k].lag)')
        /\ Cardinality(Younger(k, win[k].age - win[k].lag)') <= Cardinality(Younger(k, o))
    BY <1>6, <2>2, Shifted
  <2>4. Cardinality(Younger(k, win[k].age - win[k].lag)') \in Nat
    BY <2>3, FS_CardinalityType
  <2>5. Cardinality(Recent(k)) <= v.count + PerWindow /\ Cardinality(Younger(k, o)) <= v.count
    BY <1>1, <1>4, <1>10 DEF Windows
  <2> HIDE DEF o
  <2>6. /\ Cardinality(Younger(k, win[k].age - win[k].lag)') <= v.count
        /\ Cardinality(Recent(k)') <= v.count + PerWindow
    BY <1>1, <1>5, <1>7, <2>1, <2>3, <2>4, <2>5
  <2> QED
    BY <1>5, <2>1, <2>6
<1> QED
  BY <1>1, <1>8, <1>9, <1>10 DEF Windows

LEMMA NextBurst == Inv /\ BurstInv /\ [Next]_vars => BurstInv'
<1> SUFFICES ASSUME Inv, BurstInv, [Next]_vars PROVE BurstInv'
  OBVIOUS
<1>1. CASE Tick
  BY <1>1, TickBurst
<1>2. CASE UNCHANGED <<win, admitted>>
  BY <1>2 DEF BurstInv, Younger, Recent
<1>3. ASSUME NEW t \in Threads, Thread(t)
      PROVE  BurstInv'
  <2>1. Open(t) \/ Count(t) \/ UNCHANGED <<win, admitted>>
    BY <1>3 DEF Thread, Request, Arrive, Unauthorised, Token, Clock, Refuse, Return, GiveUp
  <2> QED
    BY <1>2, <2>1, OpenBurst, CountBurst
<1> QED
  BY <1>1, <1>2, <1>3 DEF Next, vars

\* The burst of a fixed window limiter is at most twice its limit, for every
\* limit, window and number of threads, though FixedWindowRateLimiter.allow reads
\* the clock before it has the lock.
THEOREM BurstAtMostTwice == Spec => []BurstBound
<1>1. Inv /\ BurstInv => BurstBound
  <2> SUFFICES ASSUME Inv, BurstInv, NEW k \in Keys
               PROVE  Cardinality(Recent(k)) <= 2 * PerWindow
    BY DEF BurstBound
  <2>1. win[k].count \in 0..PerWindow /\ PerWindow \in Nat
    BY GuardAssumption DEF Inv, TypeOK, Windows, PerWindow
  <2>2. Cardinality(Recent(k)) \in Nat
    BY FS_CardinalityType DEF BurstInv
  <2>3. \/ Cardinality(Recent(k)) <= PerWindow
        \/ Cardinality(Recent(k)) <= win[k].count + PerWindow
    BY DEF BurstInv
  <2> QED
    BY <2>1, <2>2, <2>3
<1> QED
  BY InitInv, NextInv, BurstInit, NextBurst, <1>1, PTL DEF Spec
=============================================================================
