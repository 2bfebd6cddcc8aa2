--------------------------- MODULE Accounts_proofs ---------------------------
(***************************************************************************)
(* Proofs about the API's accounts: the limiter's bound over any stretch   *)
(* of time, whose token a request's clients hold, that they are shut with  *)
(* the request, and that the lists of the workspace page are of the        *)
(* connection it asked for.                                                *)
(***************************************************************************)
EXTENDS Accounts, FiniteSums, TLAPS

Times == 0..MaxClock

-----------------------------------------------------------------------------
(* The limiter. What one host was let through, f, is held against its      *)
(* window w at the time now.                                               *)

Between(f, t, u) == SumFunctionOnSet(f, t..u)

WindowType(f, w, now) ==
  /\ f \in [Times -> Nat] /\ now \in Times
  /\ w \in [start : Nat, count : Nat] /\ w.start <= now

\* Nothing was let through after the window, or later than now.
NothingAfter(f, w, now) ==
  \A t \in Times : f[t] # 0 => t <= now /\ t < w.start + WindowSeconds /\ w.count # 0

\* The open window has its allowance, and so have the seconds before it.
OpenWindow(f, w) ==
  Between(f, w.start, MaxClock) <= w.count /\ Between(f, w.start, MaxClock) <= DefaultMaxRequests
LastWindow(f, w) ==
  \A t \in Times : t + WindowSeconds > w.start
                     => Between(f, t, w.start - 1) <= DefaultMaxRequests

Until(t) == IF t + WindowSeconds - 1 <= MaxClock THEN t + WindowSeconds - 1 ELSE MaxClock
Bounded(f) == \A t \in Times : Between(f, t, Until(t)) <= 2 * DefaultMaxRequests

HostInv(f, w, now) ==
  /\ WindowType(f, w, now) /\ NothingAfter(f, w, now)
  /\ OpenWindow(f, w) /\ LastWindow(f, w) /\ Bounded(f)

LimiterInv ==
  /\ clock \in Times /\ DOMAIN allowed = Hosts /\ DOMAIN windows = Hosts
  /\ \A h \in Hosts : HostInv(allowed[h], windows[h], clock)

(* The numbers of a stretch of time can be added.                          *)
LEMMA StretchIsCountable ==
  ASSUME NEW f \in [Times -> Nat], NEW t \in Nat, NEW u \in Int, u <= MaxClock
  PROVE  Countable(f, t..u) /\ Between(f, t, u) \in Nat
<1>1. MaxClock \in Nat
  BY AccountsAssumption
<1>2. IsFiniteSet(t..u) /\ t..u \subseteq Times
  <2>1. IsFiniteSet(t..u)
    BY FS_Interval
  <2>2. \A s \in t..u : s \in Times
    BY <1>1 DEF Times
  <2> QED BY <2>1, <2>2
<1>3. Countable(f, t..u)
  BY <1>2 DEF Countable
<1> QED BY <1>3, SumUnfolds DEF Between

(* A window's length is in the open window and the seconds before it.      *)
LEMMA StretchNearWindow ==
  ASSUME NEW f, NEW w, NEW now, WindowType(f, w, now), OpenWindow(f, w), LastWindow(f, w),
         NEW t \in Times, t + WindowSeconds > w.start
  PROVE  Between(f, t, Until(t)) <= 2 * DefaultMaxRequests
<1>0. MaxClock \in Nat /\ WindowSeconds \in Nat \ {0} /\ DefaultMaxRequests \in Nat \ {0}
  BY AccountsAssumption
<1>1. w.start \in Times /\ t \in Nat /\ Until(t) \in Int /\ Until(t) <= MaxClock
  BY <1>0 DEF WindowType, Times, Until
<1>2. f \in [Times -> Nat]
  BY DEF WindowType
<1> DEFINE Open == w.start..MaxClock
           Before == t..(w.start - 1)
<1>a. /\ w.start \in Nat /\ MaxClock \in Int /\ MaxClock <= MaxClock
      /\ w.start - 1 \in Int /\ w.start - 1 <= MaxClock
  BY <1>0, <1>1 DEF Times
<1>3. Countable(f, Open) /\ Countable(f, Before)
  BY <1>1, <1>2, <1>a, StretchIsCountable
<1>4. Between(f, w.start, MaxClock) \in Nat /\ Between(f, t, w.start - 1) \in Nat
  BY <1>1, <1>2, <1>a, StretchIsCountable
<1>5. Between(f, w.start, MaxClock) <= DefaultMaxRequests
      /\ Between(f, t, w.start - 1) <= DefaultMaxRequests
  BY DEF OpenWindow, LastWindow
<1>6. Countable(f, Before \cup Open) /\ Before \cap Open = {}
  <2>1. IsFiniteSet(Before \cup Open)
    BY <1>3, FS_Union DEF Countable
  <2> QED BY <2>1, <1>1, <1>3 DEF Countable, Times
<1>7. SumFunctionOnSet(f, Before \cup Open) = Between(f, t, w.start - 1) + Between(f, w.start, MaxClock)
  BY <1>6, SumSplits DEF Between
<1>8. t..Until(t) \subseteq Before \cup Open
  BY <1>0, <1>1 DEF Until, Times
<1>9. Between(f, t, Until(t)) <= SumFunctionOnSet(f, Before \cup Open)
  BY <1>6, <1>8, SumGrows DEF Between
<1>10. Between(f, t, Until(t)) \in Nat
  BY <1>1, <1>2, StretchIsCountable
<1> QED BY <1>0, <1>4, <1>5, <1>7, <1>9, <1>10

(* A window that is opened at the time now.                                *)
LEMMA WindowOpens ==
  ASSUME NEW f, NEW w, NEW now, HostInv(f, w, now),
         w.count = 0 \/ now - w.start >= WindowSeconds,
         NEW g, g = [f EXCEPT ![now] = @ + 1], NEW v, v = [start |-> now, count |-> 1]
  PROVE  HostInv(g, v, now)
<1>0. MaxClock \in Nat /\ WindowSeconds \in Nat \ {0} /\ DefaultMaxRequests \in Nat \ {0}
  BY AccountsAssumption
<1>1. f \in [Times -> Nat] /\ now \in Times /\ now \in Nat /\ w.start \in Nat /\ w.start <= now
      /\ w.count \in Nat
  BY DEF HostInv, WindowType, Times
<1>2. g \in [Times -> Nat]
  BY <1>1
<1>3. WindowType(g, v, now)
  BY <1>1, <1>2 DEF WindowType
<1>4. \A t \in Times : t >= now => f[t] = 0
  BY <1>0, <1>1 DEF HostInv, NothingAfter, Times
<1>5. NothingAfter(g, v, now)
  BY <1>0, <1>1, <1>4 DEF HostInv, NothingAfter, Times
<1>6. OpenWindow(g, v)
  <2>1. Countable(f, now..MaxClock) /\ now \in now..MaxClock
    BY <1>0, <1>1, StretchIsCountable DEF Times
  <2>2. \A t \in now..MaxClock : f[t] = 0
    BY <1>1, <1>4 DEF Times
  <2>3. SumFunctionOnSet(f, now..MaxClock) = 0
    BY <2>1, <2>2, SumOfZeros DEF Countable
  <2>4. g[now] = f[now] + 1 /\ \A t \in now..MaxClock : t # now => g[t] = f[t]
    BY <1>1 DEF Times
  <2>5. SumFunctionOnSet(g, now..MaxClock) = 0 + 1
    BY <2>1, <2>3, <2>4, SumIncrements
  <2> QED BY <2>5, <1>0 DEF OpenWindow, Between
<1>7. LastWindow(g, v)
  <2>1. SUFFICES ASSUME NEW t \in Times, t + WindowSeconds > now
                 PROVE  Between(g, t, now - 1) <= DefaultMaxRequests
    BY DEF LastWindow
  <2>2. t \in Nat /\ now - 1 \in Int /\ now - 1 <= MaxClock
    BY <1>0, <1>1 DEF Times
  <2>3. Countable(f, t..(now - 1)) /\ Between(f, t, now - 1) \in Nat
    BY <1>1, <2>2, StretchIsCountable
  <2>4. \A s \in t..(now - 1) : g[s] = f[s]
    BY <1>1, <2>2 DEF Times
  <2>5. Between(g, t, now - 1) = Between(f, t, now - 1)
    BY <2>3, <2>4, SumSame DEF Between
  <2>6. CASE w.count = 0
    <3>1. \A s \in t..(now - 1) : f[s] = 0
      <4>1. \A s \in t..(now - 1) : s \in Times
        BY <1>0, <1>1, <2>2 DEF Times
      <4>2. \A s \in Times : f[s] = 0
        BY <2>6 DEF HostInv, NothingAfter
      <4> QED BY <4>1, <4>2
    <3>2. SumFunctionOnSet(f, t..(now - 1)) = 0
      BY <2>3, <3>1, SumOfZeros DEF Countable
    <3> QED BY <2>5, <3>2, <1>0 DEF Between
  <2>7. CASE now - w.start >= WindowSeconds
    <3>1. t..(now - 1) \subseteq w.start..MaxClock
      BY <2>7, <2>2, <2>1, <1>0, <1>1 DEF Times
    <3>2. Countable(f, w.start..MaxClock) /\ Between(f, w.start, MaxClock) \in Nat
      <4>1. MaxClock \in Int /\ MaxClock <= MaxClock
        BY <1>0
      <4> QED BY <1>1, <4>1, StretchIsCountable
    <3>3. Between(f, t, now - 1) <= Between(f, w.start, MaxClock)
      BY <3>1, <3>2, SumGrows DEF Between
    <3>4. Between(f, w.start, MaxClock) <= DefaultMaxRequests
      BY DEF HostInv, OpenWindow
    <3> QED BY <2>3, <2>5, <3>2, <3>3, <3>4, <1>0
  <2> QED BY <2>6, <2>7
<1>8. ASSUME NEW t \in Times PROVE Between(g, t, Until(t)) <= 2 * DefaultMaxRequests
  <2>0. t \in Nat /\ Until(t) \in Int /\ Until(t) <= MaxClock /\ Until(t) <= t + WindowSeconds - 1
    BY <1>0 DEF Times, Until
  <2>1. CASE t + WindowSeconds > now
    <3>1. t + WindowSeconds > v.start
      BY <2>1
    <3> QED BY <3>1, <1>3, <1>6, <1>7, StretchNearWindow
  <2>2. CASE t + WindowSeconds <= now
    <3>1. Countable(f, t..Until(t))
      BY <1>1, <2>0, StretchIsCountable
    <3>2. \A s \in t..Until(t) : g[s] = f[s]
      BY <1>0, <1>1, <2>0, <2>2 DEF Times
    <3>3. Between(g, t, Until(t)) = Between(f, t, Until(t))
      BY <3>1, <3>2, SumSame DEF Between
    <3> QED BY <3>3 DEF HostInv, Bounded
  <2> QED BY <2>1, <2>2, <1>0, <1>1, <2>0
<1> QED BY <1>3, <1>5, <1>6, <1>7, <1>8 DEF HostInv, Bounded

(* A window that counts one more request, and lets it through or not.      *)
LEMMA WindowCounts ==
  ASSUME NEW f, NEW w, NEW now, HostInv(f, w, now),
         w.count # 0, now - w.start < WindowSeconds,
         NEW v, v = [w EXCEPT !.count = @ + 1],
         NEW g, \/ g = [f EXCEPT ![now] = @ + 1] /\ v.count <= DefaultMaxRequests
                \/ g = f
  PROVE  HostInv(g, v, now)
<1>0. MaxClock \in Nat /\ WindowSeconds \in Nat \ {0} /\ DefaultMaxRequests \in Nat \ {0}
  BY AccountsAssumption
<1>1. f \in [Times -> Nat] /\ now \in Times /\ now \in Nat /\ w.start \in Nat /\ w.start <= now
      /\ w.count \in Nat /\ w \in [start : Nat, count : Nat]
  BY DEF HostInv, WindowType, Times
<1>2. g \in [Times -> Nat]
  BY <1>1
<1>3. v \in [start : Nat, count : Nat] /\ v.start = w.start /\ v.count = w.count + 1
  BY <1>1
<1>4. WindowType(g, v, now)
  BY <1>1, <1>2, <1>3 DEF WindowType
<1>5. NothingAfter(g, v, now)
  BY <1>0, <1>1, <1>3 DEF HostInv, NothingAfter, Times
<1> DEFINE Open == w.start..MaxClock
<1>6. OpenWindow(g, v)
  <2>0. MaxClock \in Int /\ MaxClock <= MaxClock /\ now \in Open
    BY <1>0, <1>1 DEF Times
  <2>1. Countable(f, Open) /\ now \in Open /\ Between(f, w.start, MaxClock) \in Nat
    BY <1>1, <2>0, StretchIsCountable
  <2>2. Between(f, w.start, MaxClock) <= w.count
        /\ Between(f, w.start, MaxClock) <= DefaultMaxRequests
    BY DEF HostInv, OpenWindow
  <2>3. CASE g = f
    BY <2>1, <2>2, <2>3, <1>1, <1>3, <1>0 DEF OpenWindow
  <2>4. CASE g = [f EXCEPT ![now] = @ + 1] /\ v.count <= DefaultMaxRequests
    <3>1. g[now] = f[now] + 1 /\ \A t \in Open : t # now => g[t] = f[t]
      BY <2>4, <1>1 DEF Times
    <3>2. Between(g, w.start, MaxClock) = Between(f, w.start, MaxClock) + 1
      BY <2>1, <3>1, SumIncrements DEF Between
    <3> QED BY <2>1, <2>2, <2>4, <3>2, <1>0, <1>1, <1>3 DEF OpenWindow
  <2> QED BY <2>3, <2>4
<1>7. ASSUME NEW t \in Times, NEW u \in Int, u < w.start, u <= MaxClock
      PROVE  Between(g, t, u) = Between(f, t, u)
  <2>1. Countable(f, t..u)
    BY <1>1, <1>7, StretchIsCountable DEF Times
  <2>2. \A s \in t..u : g[s] = f[s]
    <3>1. \A s \in t..u : s # now /\ s \in Times
      BY <1>0, <1>1, <1>7 DEF Times
    <3> QED BY <1>1, <3>1
  <2> QED BY <2>1, <2>2, SumSame DEF Between
<1>8. LastWindow(g, v)
  <2>1. SUFFICES ASSUME NEW t \in Times, t + WindowSeconds > w.start
                 PROVE  Between(g, t, w.start - 1) <= DefaultMaxRequests
    BY <1>3 DEF LastWindow
  <2>2. Between(g, t, w.start - 1) = Between(f, t, w.start - 1)
    <3>1. w.start - 1 \in Int /\ w.start - 1 < w.start /\ w.start - 1 <= MaxClock
      BY <1>0, <1>1 DEF Times
    <3> QED BY <3>1, <1>7
  <2> QED BY <2>1, <2>2 DEF HostInv, LastWindow
<1>9. ASSUME NEW t \in Times PROVE Between(g, t, Until(t)) <= 2 * DefaultMaxRequests
  <2>0. t \in Nat /\ Until(t) \in Int /\ Until(t) <= MaxClock /\ Until(t) <= t + WindowSeconds - 1
    BY <1>0 DEF Times, Until
  <2>1. CASE t + WindowSeconds > v.start
    BY <2>1, <1>4, <1>6, <1>8, StretchNearWindow
  <2>2. CASE t + WindowSeconds <= v.start
    <3>1. Between(g, t, Until(t)) = Between(f, t, Until(t))
      BY <1>0, <1>1, <1>3, <1>7, <2>0, <2>2
    <3> QED BY <3>1 DEF HostInv, Bounded
  <2> QED BY <2>1, <2>2, <1>0, <1>1, <1>3, <2>0
<1> QED BY <1>4, <1>5, <1>6, <1>8, <1>9 DEF HostInv, Bounded

(* What was let through is what RateIsBounded adds up.                     *)
LEMMA StretchIsSum ==
  ASSUME NEW h \in Hosts, NEW S
  PROVE  MapThenSumSet(LAMBDA s : allowed[h][s], S) = SumFunctionOnSet(allowed[h], S)
BY DEF MapThenSumSet, SumFunctionOnSet, FoldFunctionOnSet, MapThenFoldSet

(* What the limiter's invariant says of every stretch of a window's        *)
(* length.                                                                 *)
LEMMA LimiterBounds == LimiterInv => RateIsBounded
<1>1. SUFFICES ASSUME LimiterInv, NEW h \in Hosts, NEW t \in Times
      PROVE  MapThenSumSet(LAMBDA s : allowed[h][s],
               t..(Min({t + WindowSeconds - 1, MaxClock}))) <= 2 * DefaultMaxRequests
  BY DEF RateIsBounded, Times
<1>2. MaxClock \in Nat /\ WindowSeconds \in Nat \ {0} /\ t \in Nat
  BY AccountsAssumption DEF Times
<1>3. Min({t + WindowSeconds - 1, MaxClock}) = Until(t)
  <2>1. \A m, n \in Int : Min({m, n}) = IF m <= n THEN m ELSE n
    BY DEF Min
  <2> QED BY <1>2, <2>1 DEF Until
<1>4. Between(allowed[h], t, Until(t)) <= 2 * DefaultMaxRequests
  BY <1>1 DEF LimiterInv, HostInv, Bounded
<1> QED BY <1>3, <1>4, StretchIsSum DEF Between

(* At first nothing has been counted.                                      *)
LEMMA LimiterStarts == Init => LimiterInv
<1>t. Init => clock \in Times
  BY AccountsAssumption DEF Init, Times
<1>1. SUFFICES ASSUME Init, NEW h \in Hosts PROVE HostInv(allowed[h], windows[h], clock)
  BY <1>t DEF Init, LimiterInv
<1>0. MaxClock \in Nat /\ WindowSeconds \in Nat \ {0} /\ DefaultMaxRequests \in Nat \ {0}
  BY AccountsAssumption
<1> DEFINE f == allowed[h]
           w == windows[h]
<1>2. clock = 0 /\ w = [start |-> 0, count |-> 0] /\ f \in [Times -> Nat]
      /\ \A t \in Times : f[t] = 0
  BY <1>0, <1>1 DEF Init, Times
<1>3. 0 \in Times
  BY <1>0 DEF Times
<1>4. ASSUME NEW t \in Nat, NEW u \in Int, u <= MaxClock PROVE Between(f, t, u) = 0
  <2>1. Countable(f, t..u)
    BY <1>2, <1>4, StretchIsCountable
  <2>2. \A s \in t..u : s \in Times
    BY <1>0, <1>4 DEF Times
  <2>3. \A s \in t..u : f[s] = 0
    BY <1>2, <2>2
  <2> QED BY <2>1, <2>3, SumOfZeros DEF Countable, Between
<1> HIDE DEF f, w
<1>5. WindowType(f, w, clock) /\ NothingAfter(f, w, clock)
  BY <1>2, <1>3 DEF WindowType, NothingAfter
<1>6. OpenWindow(f, w)
  <2>1. Between(f, 0, MaxClock) = 0
    BY <1>0, <1>4
  <2> QED BY <2>1, <1>0, <1>2 DEF OpenWindow
<1>7. LastWindow(f, w)
  <2>1. \A t \in Times : t \in Nat /\ 0 - 1 \in Int /\ 0 - 1 <= MaxClock
    BY <1>0 DEF Times
  <2>2. \A t \in Times : Between(f, t, 0 - 1) = 0
    BY <1>4, <2>1
  <2> QED BY <2>2, <1>0, <1>2 DEF LastWindow
<1>8. Bounded(f)
  <2>1. \A t \in Times : t \in Nat /\ Until(t) \in Int /\ Until(t) <= MaxClock
    BY <1>0 DEF Times, Until
  <2>2. \A t \in Times : Between(f, t, Until(t)) = 0
    BY <1>4, <2>1
  <2> QED BY <2>2, <1>0 DEF Bounded
<1> QED BY <1>2, <1>3, <1>5, <1>6, <1>7, <1>8 DEF HostInv, f, w

(* The clock moves on.                                                     *)
LEMMA TickKeepsLimiter == LimiterInv /\ Tick => LimiterInv'
<1>t. LimiterInv /\ Tick => clock' \in Times
  BY AccountsAssumption DEF LimiterInv, Tick, Times
<1>1. SUFFICES ASSUME LimiterInv, Tick, NEW h \in Hosts
               PROVE  HostInv(allowed[h], windows[h], clock')
  BY <1>t DEF Tick, LimiterInv
<1>2. MaxClock \in Nat /\ clock \in Times /\ clock < MaxClock /\ clock' = clock + 1
  BY <1>1, AccountsAssumption DEF LimiterInv, Tick
<1>3. clock' \in Times /\ clock' >= clock
  BY <1>2 DEF Times
<1>4. HostInv(allowed[h], windows[h], clock)
  BY <1>1 DEF LimiterInv
<1>5. WindowType(allowed[h], windows[h], clock')
  BY <1>2, <1>3, <1>4 DEF HostInv, WindowType, Times
<1>6. NothingAfter(allowed[h], windows[h], clock')
  BY <1>2, <1>3, <1>4 DEF HostInv, NothingAfter, Times
<1> QED BY <1>3, <1>4, <1>5, <1>6 DEF HostInv

\* What an arrival does to the limiter.
Counted(h) ==
  /\ windows' = [windows EXCEPT ![h] = FixedWindow(h)]
  /\ allowed' = IF Allow(h) THEN [allowed EXCEPT ![h][clock] = @ + 1] ELSE allowed
  /\ clock' = clock

(* A request is counted, in its window or in a new one, and let through or *)
(* not.                                                                    *)
LEMMA CountingKeepsLimiter ==
  ASSUME LimiterInv, NEW h \in Hosts, Counted(h)
  PROVE  LimiterInv'
<1>1. SUFFICES HostInv(allowed'[h], windows'[h], clock)
  BY DEF LimiterInv, Counted
<1> DEFINE f == allowed[h]
           w == windows[h]
<1>2. HostInv(f, w, clock) /\ w \in [start : Nat, count : Nat]
  BY DEF LimiterInv, HostInv, WindowType
<1>3. windows'[h] = FixedWindow(h)
  BY DEF LimiterInv, Counted
<1>4. \/ Allow(h) /\ allowed'[h] = [f EXCEPT ![clock] = @ + 1]
      \/ ~Allow(h) /\ allowed'[h] = f
  BY DEF LimiterInv, Counted
<1>5. clock \in Nat /\ w.start \in Nat /\ w.count \in Nat
      /\ DefaultMaxRequests \in Nat \ {0} /\ WindowSeconds \in Nat
  BY <1>2, AccountsAssumption DEF LimiterInv, Times
<1>6. CASE w.count = 0 \/ clock - w.start >= WindowSeconds
  <2>1. FixedWindow(h) = [start |-> clock, count |-> 1]
    BY <1>6 DEF FixedWindow
  <2>2. allowed'[h] = [f EXCEPT ![clock] = @ + 1]
    BY <1>4, <1>5, <2>1 DEF Allow
  <2> HIDE DEF f, w
  <2> QED BY <1>2, <1>3, <1>6, <2>1, <2>2, WindowOpens
<1>7. CASE w.count # 0 /\ clock - w.start < WindowSeconds
  <2>1. FixedWindow(h) = [w EXCEPT !.count = @ + 1]
    BY <1>5, <1>7 DEF FixedWindow
  <2>2. \/ allowed'[h] = [f EXCEPT ![clock] = @ + 1] /\ FixedWindow(h).count <= DefaultMaxRequests
        \/ allowed'[h] = f
    BY <1>4 DEF Allow
  <2> HIDE DEF f, w
  <2> QED BY <1>2, <1>3, <1>7, <2>1, <2>2, WindowCounts
<1> QED BY <1>5, <1>6, <1>7

(* Only time and the arrival of a request touch the limiter.               *)
LEMMA LimiterSteps ==
  [Next]_vars => \/ UNCHANGED limiter \/ Tick \/ \E h \in Hosts : Counted(h)
<1>1. SUFFICES ASSUME Next PROVE UNCHANGED limiter \/ Tick \/ \E h \in Hosts : Counted(h)
  BY DEF vars
<1>2. ASSUME NEW b \in Browsers, NEW r \in Requests, NEW k \in Kinds, Arrive(b, r, k)
      PROVE  UNCHANGED limiter \/ Counted(HostOf[b])
  BY <1>2 DEF Arrive, Counted, limiter
<1>3. \A b \in Browsers : HostOf[b] \in Hosts
  BY AccountsAssumption
<1>4. ASSUME NEW b \in Browsers, NEW e \in Emails, Register(b, e) \/ Login(b, e)
      PROVE  UNCHANGED limiter
  BY <1>4 DEF Register, Login
<1>5. ASSUME NEW b \in Browsers, Logout(b) \/ SessionExpires(b) PROVE UNCHANGED limiter
  BY <1>5 DEF Logout, SessionExpires
<1>6. ASSUME NEW b \in Browsers, NEW p \in CredentialProvider,
             StoreCredential(b, p) \/ DeleteCredential(b, p)
      PROVE  UNCHANGED limiter
  BY <1>6 DEF StoreCredential, DeleteCredential
<1>7. ASSUME NEW r \in Requests, Resolve(r) \/ StartTask(r) \/ Answer(r) \/ Leave(r) \/ TaskEnds(r)
      PROVE  UNCHANGED limiter
  BY <1>7 DEF Resolve, StartTask, Answer, Leave, TaskEnds
<1>8. ASSUME NEW r \in Requests, NEW p \in CredentialProvider, Finalise(r, p) \/ TaskReads(r, p)
      PROVE  UNCHANGED limiter
  BY <1>8 DEF Finalise, TaskReads
<1>9. ASSUME OpenWorkspace \/ Navigate \/ RefreshAnswered \/ RefreshShown
             \/ DiscoveryAnswered \/ DiscoveryShown \/ \E p \in Listed : Connect(p) \/ Disconnect(p)
      PROVE  UNCHANGED limiter
  BY <1>9 DEF OpenWorkspace, Navigate, RefreshAnswered, RefreshShown, DiscoveryAnswered,
              DiscoveryShown, Connect, Disconnect, OnlyPage
<1> QED BY <1>1, <1>2, <1>3, <1>4, <1>5, <1>6, <1>7, <1>8, <1>9 DEF Next, Step

(* Only the clock and the middleware touch what the limiter holds.         *)
LEMMA LimiterKept == LimiterInv /\ [Next]_vars => LimiterInv'
<1>1. LimiterInv /\ UNCHANGED limiter => LimiterInv'
  BY DEF LimiterInv, limiter
<1> QED BY <1>1, LimiterSteps, TickKeepsLimiter, CountingKeepsLimiter

(* A host is let through at most twice its allowance in any stretch of a   *)
(* window's length, wherever the windows' boundaries fall                  *)
(* (FixedWindowRateLimiter.allow).                                         *)
THEOREM RateHolds == Spec => []RateIsBounded
<1>1. Spec => []LimiterInv
  BY LimiterStarts, LimiterKept, PTL DEF Spec
<1> QED BY <1>1, LimiterBounds, PTL

-----------------------------------------------------------------------------
(* Credentials, and the clients that are opened with them.                 *)

Token == [by : Accounts \cup {Public, "nobody"}, number : Nat]
Client == [token : Token, state : {"absent", "open", "abandoned", "closed"},
           read : {"unread", "read", "closed"}]
Request ==
  [kind : Kinds \cup {"none"}, caller : Accounts \cup {Anonymous},
   at : {"idle", "resolving", "leaving", "ended"}, reply : Nat,
   task : {"none", "running", "failed", "ended"},
   todo : Seq(CredentialProvider), clients : [CredentialProvider -> Client]]

\* A row holds the token its account stored last.
RowsInv ==
  /\ session \in [Browsers -> Accounts \cup {Anonymous}]
  /\ stored \in [Accounts -> [CredentialProvider -> Nat]]
  /\ credentials \in [Accounts -> [CredentialProvider -> Token]]
  /\ \A a \in Accounts, p \in CredentialProvider :
       credentials[a][p] # None => credentials[a][p] = [by |-> a, number |-> stored[a][p]]

Entitled(caller) == IF caller \in {Anonymous, DemoAccount} THEN Public ELSE caller
RequestInv(q) ==
  /\ q \in Request
  /\ \A p \in CredentialProvider :
       q.clients[p].token # None => q.clients[p].token.by = Entitled(q.caller)

RequestsInv == DOMAIN requests = Requests /\ \A r \in Requests : RequestInv(requests[r])

(* Constants in place of a token.                                          *)
LEMMA NoneIsToken == None \in Token /\ Shared \in Token
BY DEF None, Shared, Token, Public

(* At first nobody has stored a credential.                                *)
LEMMA RowsStart == Init => RowsInv
BY NoneIsToken DEF Init, RowsInv

(* Signing in and out leaves the rows as they are.                         *)
LEMMA SessionsKeepRows ==
  ASSUME RowsInv, UNCHANGED rows, NEW b \in Browsers, NEW a \in Accounts \cup {Anonymous},
         session' = [session EXCEPT ![b] = a]
  PROVE  RowsInv'
BY DEF RowsInv, rows

(* Storing, replacing and deleting a credential.                           *)
LEMMA StoringKeepsRows ==
  ASSUME RowsInv, NEW b \in Browsers, NEW p \in CredentialProvider,
         StoreRow(b, p) \/ DeleteRow(b, p), UNCHANGED session
  PROVE  RowsInv'
<1> DEFINE a == session[b]
<1>1. a \in Accounts
  BY DEF RowsInv, StoreRow, DeleteRow, SignedIn
<1>2. CASE StoreRow(b, p)
  <2>1. /\ credentials' = [credentials EXCEPT ![a][p] = [by |-> a, number |-> stored[a][p] + 1]]
        /\ stored' = [stored EXCEPT ![a][p] = @ + 1]
    BY <1>2 DEF StoreRow, Upsert, Account
  <2>2. stored[a][p] \in Nat /\ stored[a][p] + 1 \in Nat
    BY <1>1 DEF RowsInv
  <2>3. [by |-> a, number |-> stored[a][p] + 1] \in Token
    BY <1>1, <2>2 DEF Token
  <2> HIDE DEF a
  <2>4. credentials' \in [Accounts -> [CredentialProvider -> Token]]
    BY <1>1, <2>1, <2>3 DEF RowsInv
  <2>5. stored' \in [Accounts -> [CredentialProvider -> Nat]]
    BY <1>1, <2>1, <2>2 DEF RowsInv
  <2>6. ASSUME NEW c \in Accounts, NEW x \in CredentialProvider, credentials'[c][x] # None
        PROVE  credentials'[c][x] = [by |-> c, number |-> stored'[c][x]]
    <3>1. CASE c = a /\ x = p
      BY <1>1, <2>1, <3>1 DEF RowsInv
    <3>2. CASE ~(c = a /\ x = p)
      <4>1. credentials'[c][x] = credentials[c][x] /\ stored'[c][x] = stored[c][x]
        BY <1>1, <2>1, <3>2 DEF RowsInv
      <4> QED BY <2>6, <4>1 DEF RowsInv
    <3> QED BY <3>1, <3>2
  <2> QED BY <2>4, <2>5, <2>6 DEF RowsInv
<1>3. CASE DeleteRow(b, p)
  BY <1>1, <1>3, NoneIsToken DEF DeleteRow, Account, RowsInv
<1> QED BY <1>2, <1>3

(* Every step keeps the rows each account's own.                           *)
LEMMA RowsKept == RowsInv /\ [Next]_vars => RowsInv'
<1>1. SUFFICES ASSUME RowsInv, Next PROVE RowsInv'
  BY DEF RowsInv, vars, accounts, rows
<1>2. ASSUME UNCHANGED <<accounts, rows>> PROVE RowsInv'
  BY <1>1, <1>2 DEF RowsInv, accounts, rows
<1>3. ASSUME NEW b \in Browsers, NEW e \in Emails, Register(b, e) \/ Login(b, e)
      PROVE  RowsInv'
  <2>1. AccountOf[e] \in Accounts
    BY DEF Accounts
  <2> QED BY <1>1, <1>3, <2>1, SessionsKeepRows DEF Register, Login
<1>4. ASSUME NEW b \in Browsers, Logout(b) \/ SessionExpires(b) PROVE RowsInv'
  BY <1>1, <1>4, SessionsKeepRows DEF Logout, SessionExpires
<1>5. ASSUME NEW b \in Browsers, NEW p \in CredentialProvider,
             StoreCredential(b, p) \/ DeleteCredential(b, p)
      PROVE  RowsInv'
  BY <1>1, <1>5, StoringKeepsRows DEF StoreCredential, DeleteCredential, accounts
<1>6. ASSUME NEW p \in Listed, Connect(p) \/ Disconnect(p) PROVE RowsInv'
  <2>1. p \in CredentialProvider /\ Tab \in Browsers
    BY AccountsAssumption DEF Listed, CredentialProvider
  <2> QED BY <1>1, <1>6, <2>1, StoringKeepsRows DEF Connect, Disconnect, OnlyPage, accounts
<1>7. ASSUME NEW b \in Browsers, NEW r \in Requests, NEW k \in Kinds, Arrive(b, r, k)
      PROVE  UNCHANGED <<accounts, rows>>
  BY <1>7 DEF Arrive, OnlyRequest
<1>8. ASSUME NEW r \in Requests, Step(r) \/ TaskEnds(r) \/ \E p \in CredentialProvider : TaskReads(r, p)
      PROVE  UNCHANGED <<accounts, rows>>
  BY <1>8 DEF Step, Resolve, StartTask, Answer, Leave, Finalise, TaskEnds, TaskReads, OnlyRequest
<1>9. ASSUME Tick \/ OpenWorkspace \/ Navigate \/ RefreshAnswered \/ RefreshShown
             \/ DiscoveryAnswered \/ DiscoveryShown
      PROVE  UNCHANGED <<accounts, rows>>
  BY <1>9 DEF Tick, OpenWorkspace, Navigate, RefreshAnswered, RefreshShown, DiscoveryAnswered,
              DiscoveryShown, OnlyPage
<1> QED BY <1>1, <1>2, <1>3, <1>4, <1>5, <1>6, <1>7, <1>8, <1>9 DEF Next

-----------------------------------------------------------------------------
(* Requests.                                                               *)

(* What a route's dependencies open are providers' clients.                *)
LEMMA DependenciesAreProviders == \A k \in Kinds : Dependencies[k] \in Seq(CredentialProvider)
<1> DEFINE Orders == {<<>>, <<"github">>, <<"sentry">>, <<"github", "jira">>, <<"sentry", "github">>,
                       <<"github", "sentry", "jira">>}
<1>1. Kinds = {"investigation", "follow_up", "live_merge", "merge", "scan", "context",
               "projects", "extraction"}
  BY DEF Kinds, Dependencies
<1>2. \A k \in Kinds : Dependencies[k] \in Orders
  BY <1>1 DEF Dependencies
<1>3. Orders \subseteq Seq(CredentialProvider)
  BY DEF CredentialProvider
<1> QED BY <1>2, <1>3

(* A request that has not arrived.                                         *)
LEMMA IdleIsRequest == Idle \in Request
<1>1. NoClient \in Client
  BY NoneIsToken DEF NoClient, Client
<1> QED BY <1>1 DEF Idle, Request

(* At first none has.                                                      *)
LEMMA RequestsStart == Init => RequestsInv
<1>1. RequestInv(Idle)
  BY IdleIsRequest DEF RequestInv, Idle, NoClient
<1> QED BY <1>1 DEF Init, RequestsInv

(* A step of one request is a step of all.                                 *)
LEMMA OneRequest ==
  ASSUME RequestsInv, NEW r \in Requests, NEW q, RequestInv(q),
         requests' = [requests EXCEPT ![r] = q]
  PROVE  RequestsInv'
BY DEF RequestsInv

(* A request whose clients keep their tokens keeps its callers' access.    *)
LEMMA SameAccess ==
  ASSUME NEW q, RequestInv(q), NEW n \in Request, n.caller = q.caller,
         \A p \in CredentialProvider : n.clients[p].token = q.clients[p].token
  PROVE  RequestInv(n)
BY DEF RequestInv

(* A dependency or a route raises.                                         *)
LEMMA RaisingKeepsAccess ==
  ASSUME NEW q, RequestInv(q), NEW reply \in Nat
  PROVE  RequestInv(Raised(q, reply))
<1> DEFINE clients == [p \in CredentialProvider |->
                         IF p \in Opened(q, "open")
                         THEN [q.clients[p] EXCEPT !.state = "abandoned"] ELSE q.clients[p]]
<1>1. q \in Request
  BY DEF RequestInv
<1>2. clients \in [CredentialProvider -> Client]
        /\ \A p \in CredentialProvider : clients[p].token = q.clients[p].token
  BY <1>1 DEF Request, Client
<1>3. Raised(q, reply) = [q EXCEPT !.at = "ended", !.reply = reply, !.clients = clients]
  BY <1>1 DEF Raised, Request
<1> HIDE DEF clients
<1>4. Raised(q, reply) \in Request /\ Raised(q, reply).caller = q.caller
        /\ Raised(q, reply).clients = clients
  BY <1>1, <1>2, <1>3 DEF Request
<1> QED BY <1>2, <1>4, SameAccess

(* A request arrives, with the account of its session.                     *)
LEMMA ArrivalsAreIdle ==
  ASSUME RequestsInv, RowsInv, NEW b \in Browsers, NEW r \in Requests, NEW k \in Kinds,
         Arrive(b, r, k)
  PROVE  RequestsInv'
<1> DEFINE q == [Idle EXCEPT !.kind = k, !.caller = Account(b),
                             !.at = "resolving", !.todo = Dependencies[k]]
           n == [q EXCEPT !.at = "ended", !.reply = 429]
<1>1. Account(b) \in Accounts \cup {Anonymous} /\ Dependencies[k] \in Seq(CredentialProvider)
  BY DependenciesAreProviders DEF RowsInv, Account
<1>a. q \in Request
  BY <1>1, IdleIsRequest DEF Request
<1>2. n \in Request
  <2> HIDE DEF q
  <2>1. [q EXCEPT !.at = "ended"] \in Request
    BY <1>a DEF Request
  <2>2. n = [[q EXCEPT !.at = "ended"] EXCEPT !.reply = 429]
    BY <1>a DEF Request
  <2>3. \A x \in Request : [x EXCEPT !.reply = 429] \in Request
    BY DEF Request
  <2> QED BY <2>1, <2>2, <2>3
<1>3. \A p \in CredentialProvider : q.clients[p].token = None /\ n.clients[p].token = None
  BY DEF Idle, NoClient
<1>4. RequestInv(q) /\ RequestInv(n)
  BY <1>a, <1>2, <1>3 DEF RequestInv
<1>5. requests' = [requests EXCEPT ![r] = q] \/ requests' = [requests EXCEPT ![r] = n]
  BY DEF Arrive, OnlyRequest
<1> HIDE DEF q, n
<1> QED BY <1>4, <1>5, OneRequest

(* A dependency looks up the caller's row and opens a client with its      *)
(* token or the application's.                                             *)
LEMMA ResolvingKeepsAccess ==
  ASSUME RequestsInv, RowsInv, NEW r \in Requests, Resolve(r)
  PROVE  RequestsInv'
<1> DEFINE q == requests[r]
           p == Head(q.todo)
           Connected(token) == [q EXCEPT !.todo = Tail(@),
              !.clients[p] = [token |-> token, state |-> "open", read |-> "unread"]]
<1>1. RequestInv(q) /\ q \in Request
  BY DEF RequestsInv, RequestInv
<1>2. q.todo \in Seq(CredentialProvider) /\ q.todo # <<>>
  BY <1>1 DEF Resolve, Request
<1>3. p \in CredentialProvider /\ Tail(q.todo) \in Seq(CredentialProvider)
  BY <1>2
<1>4. ASSUME NEW token \in Token, token.by = Entitled(q.caller)
      PROVE  RequestInv(Connected(token))
  <2> HIDE DEF q, p
  <2>1. [token |-> token, state |-> "open", read |-> "unread"] \in Client
    BY DEF Client
  <2>2. q.clients \in [CredentialProvider -> Client]
    BY <1>1 DEF Request
  <2>3. Connected(token) \in Request
    BY <1>1, <1>3, <2>1, <2>2 DEF Request
  <2>4. Connected(token).caller = q.caller
        /\ \A x \in CredentialProvider : Connected(token).clients[x].token
                                         = IF x = p THEN token ELSE q.clients[x].token
    BY <1>1, <1>3, <2>2 DEF Request
  <2> QED BY <1>1, <1>4, <2>3, <2>4 DEF RequestInv
<1>5. CASE q.caller \in {Anonymous, DemoAccount}
  <2>1. Shared \in Token /\ Shared.by = Entitled(q.caller)
    BY <1>5, NoneIsToken DEF Shared, Entitled
  <2>2. RequestInv(Connected(Shared))
    BY <2>1, <1>4
  <2>a. RequestInv(Raised(q, 409))
    BY <1>1, RaisingKeepsAccess
  <2>3. requests' = [requests EXCEPT ![r] = Connected(Shared)]
        \/ requests' = [requests EXCEPT ![r] = Raised(q, 409)]
    BY <1>5 DEF Resolve, OnlyRequest
  <2> HIDE DEF Connected, q
  <2> QED BY <2>2, <2>a, <2>3, OneRequest
<1>6. CASE q.caller \notin {Anonymous, DemoAccount}
  <2> DEFINE row == credentials[q.caller][p]
  <2>1. q.caller \in Accounts
    BY <1>1, <1>6 DEF Request
  <2>2. row \in Token /\ (row # None => row.by = Entitled(q.caller))
    <3> HIDE DEF p, q
    <3>1. row \in Token /\ (row # None => row = [by |-> q.caller, number |-> stored[q.caller][p]])
      BY <1>3, <2>1 DEF RowsInv
    <3> QED BY <3>1, <1>6 DEF Entitled
  <2>3. \/ requests' = [requests EXCEPT ![r] = Raised(q, 409)]
        \/ row # None /\ requests' = [requests EXCEPT ![r] = Connected(row)]
    BY <1>6 DEF Resolve, OnlyRequest
  <2>4. RequestInv(Raised(q, 409))
    BY <1>1, RaisingKeepsAccess
  <2>5. row # None => RequestInv(Connected(row))
    BY <2>2, <1>4
  <2> HIDE DEF Connected, q, row
  <2> QED BY <2>3, <2>4, <2>5, OneRequest
<1> QED BY <1>5, <1>6

(* A reply is a number, and only a route that returns replies well.        *)
LEMMA RepliesAreNumbers ==
  \A k \in Kinds : Returned[k] \subseteq Nat /\ Thrown[k] \subseteq Nat \ {200, 202}
<1>1. Kinds = {"investigation", "follow_up", "live_merge", "merge", "scan", "context",
               "projects", "extraction"}
  BY DEF Kinds, Dependencies
<1> QED BY <1>1 DEF Returned, Thrown

(* A route that returns has its request's clients as they are.             *)
LEMMA ReturningKeepsClients ==
  ASSUME NEW q \in Request, NEW reply \in Nat
  PROVE  /\ Left(q, reply) \in Request
         /\ Left(q, reply).at = "leaving" /\ Left(q, reply).reply = reply
         /\ Left(q, reply).kind = q.kind /\ Left(q, reply).caller = q.caller
         /\ Left(q, reply).todo = q.todo /\ Left(q, reply).clients = q.clients
BY DEF Left, Request

(* So it keeps its caller's access.                                        *)
LEMMA ReturningKeepsAccess ==
  ASSUME NEW q, RequestInv(q), NEW reply \in Nat
  PROVE  RequestInv(Left(q, reply))
BY ReturningKeepsClients, SameAccess DEF RequestInv

(* What a route with a task can end in.                                    *)
LEMMA Starts ==
  ASSUME NEW r \in Requests, StartTask(r)
  PROVE  LET q == requests[r]
         IN  /\ q.at = "resolving"
             /\ \/ requests' = [requests EXCEPT ![r] = [Left(q, 202) EXCEPT !.task = "running"]]
                \/ \E reply \in Nat : requests' = [requests EXCEPT ![r] = Left(q, reply)]
                \/ \E reply \in Nat \ {200, 202} :
                     requests' = [requests EXCEPT ![r] = Raised(q, reply)]
<1>1. requests[r].kind \in Kinds
  BY DEF StartTask, Background, Kinds, Dependencies
<1> QED BY <1>1, RepliesAreNumbers DEF StartTask, Ready, OnlyRequest

(* What another route can end in, once it has heard from its providers.    *)
Heard(q) ==
  [q EXCEPT !.clients = [p \in CredentialProvider |->
     IF q.clients[p] = NoClient THEN NoClient
     ELSE [q.clients[p] EXCEPT !.read = "read"]]]

LEMMA Answers ==
  ASSUME NEW r \in Requests, Answer(r)
  PROVE  LET q == requests[r]
         IN  /\ q.at = "resolving"
             /\ \/ \E reply \in Nat : requests' = [requests EXCEPT ![r] = Left(Heard(q), reply)]
                \/ \E reply \in Nat \ {200, 202} :
                     requests' = [requests EXCEPT ![r] = Raised(Heard(q), reply)]
<1> DEFINE q == requests[r]
<1>1. q.kind \in Kinds /\ q.at = "resolving"
  BY DEF Answer, Ready
<1>2. \/ \E reply \in Returned[q.kind] : requests' = [requests EXCEPT ![r] = Left(Heard(q), reply)]
      \/ \E reply \in Thrown[q.kind] : requests' = [requests EXCEPT ![r] = Raised(Heard(q), reply)]
  BY DEF Answer, OnlyRequest, Heard
<1> HIDE DEF q
<1>3. \/ \E reply \in Nat : requests' = [requests EXCEPT ![r] = Left(Heard(q), reply)]
      \/ \E reply \in Nat \ {200, 202} : requests' = [requests EXCEPT ![r] = Raised(Heard(q), reply)]
  BY <1>1, <1>2, RepliesAreNumbers
<1> QED BY <1>1, <1>3 DEF q

(* Hearing from a provider leaves its client open and its token as it is.  *)
LEMMA HearingKeepsClients ==
  ASSUME NEW q \in Request
  PROVE  /\ Heard(q) \in Request
         /\ Heard(q).at = q.at /\ Heard(q).kind = q.kind /\ Heard(q).caller = q.caller
         /\ Heard(q).todo = q.todo /\ Heard(q).reply = q.reply
         /\ \A p \in CredentialProvider : /\ Heard(q).clients[p].state = q.clients[p].state
                                          /\ Heard(q).clients[p].token = q.clients[p].token
<1> DEFINE clients == [p \in CredentialProvider |->
                         IF q.clients[p] = NoClient THEN NoClient
                         ELSE [q.clients[p] EXCEPT !.read = "read"]]
<1>1. NoClient \in Client
  BY NoneIsToken DEF NoClient, Client
<1>2. clients \in [CredentialProvider -> Client]
        /\ \A p \in CredentialProvider : /\ clients[p].state = q.clients[p].state
                                         /\ clients[p].token = q.clients[p].token
  BY <1>1 DEF Request, Client
<1>3. Heard(q) = [q EXCEPT !.clients = clients]
  BY DEF Heard
<1> HIDE DEF clients
<1> QED BY <1>2, <1>3 DEF Request

(* A task goes on with the clients of its request.                         *)
LEMMA StartingKeepsAccess ==
  ASSUME RequestsInv, NEW r \in Requests, StartTask(r)
  PROVE  RequestsInv'
<1> DEFINE q == requests[r]
           n == [Left(q, 202) EXCEPT !.task = "running"]
<1>1. RequestInv(q)
  BY DEF RequestsInv
<1>2. RequestInv(n)
  <2> HIDE DEF q
  <2>1. RequestInv(Left(q, 202))
    BY <1>1, ReturningKeepsAccess
  <2>2. n \in Request /\ n.caller = Left(q, 202).caller /\ n.clients = Left(q, 202).clients
    BY <2>1 DEF RequestInv, Request
  <2> QED BY <2>1, <2>2, SameAccess
<1>3. \/ requests' = [requests EXCEPT ![r] = n]
      \/ \E reply \in Nat : \/ requests' = [requests EXCEPT ![r] = Left(q, reply)]
                            \/ requests' = [requests EXCEPT ![r] = Raised(q, reply)]
  BY Starts
<1> HIDE DEF n, q
<1> QED BY <1>1, <1>2, <1>3, ReturningKeepsAccess, RaisingKeepsAccess, OneRequest

(* The route answers.                                                      *)
LEMMA AnsweringKeepsAccess ==
  ASSUME RequestsInv, NEW r \in Requests, Answer(r)
  PROVE  RequestsInv'
<1> DEFINE q == requests[r]
           heard == Heard(q)
<1>1. RequestInv(q) /\ q \in Request
  BY DEF RequestsInv, RequestInv
<1>2. \E reply \in Nat : \/ requests' = [requests EXCEPT ![r] = Left(heard, reply)]
                         \/ requests' = [requests EXCEPT ![r] = Raised(heard, reply)]
  BY Answers
<1> HIDE DEF q
<1>3. RequestInv(heard)
  BY <1>1, HearingKeepsClients, SameAccess
<1> HIDE DEF heard
<1> QED BY <1>2, <1>3, ReturningKeepsAccess, RaisingKeepsAccess, OneRequest

(* A client is closed.                                                     *)
LEMMA ClosingKeepsAccess ==
  ASSUME RequestsInv, NEW r \in Requests,
         NEW p, NEW n, n = [requests[r] EXCEPT !.clients[p].state = "closed"],
         requests' = [requests EXCEPT ![r] = n]
  PROVE  RequestsInv'
<1> DEFINE q == requests[r]
<1>1. RequestInv(q) /\ q \in Request
  BY DEF RequestsInv, RequestInv
<1>2. n = [q EXCEPT !.clients = [q.clients EXCEPT ![p] = [@ EXCEPT !.state = "closed"]]]
  OBVIOUS
<1> HIDE DEF q
<1> DEFINE clients == [q.clients EXCEPT ![p] = [@ EXCEPT !.state = "closed"]]
<1>3. clients \in [CredentialProvider -> Client]
        /\ \A x \in CredentialProvider : clients[x].token = q.clients[x].token
  BY <1>1 DEF Request, Client
<1>4. n \in Request /\ n.caller = q.caller /\ n.clients = clients
  <2> HIDE DEF clients
  <2>1. n = [q EXCEPT !.clients = clients]
    BY <1>2 DEF clients
  <2> QED BY <1>1, <1>3, <2>1 DEF Request
<1>5. RequestInv(n)
  BY <1>1, <1>3, <1>4, SameAccess
<1> QED BY <1>5, OneRequest

(* A generator is left, normally or not.                                   *)
LEMMA LeavingKeepsAccess ==
  ASSUME RequestsInv, NEW r \in Requests, Leave(r)
  PROVE  RequestsInv'
<1> DEFINE q == requests[r]
           order == Dependencies[q.kind]
           open == {i \in DOMAIN order : order[i] \in Opened(q, "open")}
           last == order[Max(open)]
           n == [q EXCEPT !.at = "ended"]
<1>1. \/ requests' = [requests EXCEPT ![r] = n]
      \/ requests' = [requests EXCEPT ![r] = [q EXCEPT !.clients[last].state = "closed"]]
  BY DEF Leave, OnlyRequest
<1>2. RequestInv(q)
  BY DEF RequestsInv
<1>3. RequestInv(n)
  <2> HIDE DEF q
  <2>1. n \in Request /\ n.caller = q.caller /\ n.clients = q.clients
    BY <1>2 DEF RequestInv, Request
  <2> QED BY <1>2, <2>1, SameAccess
<1> HIDE DEF n, last
<1> QED BY <1>1, <1>3, OneRequest, ClosingKeepsAccess

(* A task reads through a client, or ends.                                 *)
LEMMA TasksKeepAccess ==
  ASSUME RequestsInv, NEW r \in Requests,
         TaskEnds(r) \/ \E p \in CredentialProvider : TaskReads(r, p)
  PROVE  RequestsInv'
<1> DEFINE q == requests[r]
<1>1. RequestInv(q) /\ q \in Request
  BY DEF RequestsInv, RequestInv
<1>2. CASE TaskEnds(r)
  <2> DEFINE n == [q EXCEPT !.task = "ended"]
  <2>1. RequestInv(n)
    <3> HIDE DEF q
    <3>1. n \in Request /\ n.caller = q.caller /\ n.clients = q.clients
      BY <1>1 DEF Request
    <3> QED BY <1>1, <3>1, SameAccess
  <2> QED BY <1>2, <2>1, OneRequest DEF TaskEnds, OnlyRequest
<1>3. ASSUME NEW p \in CredentialProvider, TaskReads(r, p) PROVE RequestsInv'
  <2> DEFINE closed == q.clients[p].state # "open"
             clients == [q.clients EXCEPT ![p] =
                           [@ EXCEPT !.read = IF closed THEN "closed" ELSE "read"]]
             n == [q EXCEPT !.clients = clients, !.task = IF closed THEN "failed" ELSE @]
  <2>1. requests' = [requests EXCEPT ![r] = n]
    BY <1>3 DEF TaskReads, OnlyRequest
  <2>2. clients \in [CredentialProvider -> Client]
          /\ \A x \in CredentialProvider : clients[x].token = q.clients[x].token
    <3> HIDE DEF q
    <3> QED BY <1>1 DEF Request, Client
  <2>3. n \in Request /\ n.caller = q.caller /\ n.clients = clients
    <3> HIDE DEF q, clients, closed
    <3> QED BY <1>1, <2>2 DEF Request
  <2>4. \A x \in CredentialProvider : n.clients[x].token = q.clients[x].token
    BY <2>2, <2>3
  <2> HIDE DEF n
  <2>5. RequestInv(n)
    BY <1>1, <2>3, <2>4, SameAccess
  <2> QED BY <2>1, <2>5, OneRequest
<1> QED BY <1>2, <1>3

(* Only what a request or its task does changes a request.                 *)
LEMMA OthersKeepRequests ==
  ASSUME \/ Tick \/ OpenWorkspace \/ Navigate \/ RefreshAnswered \/ RefreshShown
         \/ DiscoveryAnswered \/ DiscoveryShown \/ \E p \in Listed : Connect(p) \/ Disconnect(p)
         \/ \E b \in Browsers : \/ \E e \in Emails : Register(b, e) \/ Login(b, e)
                                \/ Logout(b) \/ SessionExpires(b)
                                \/ \E p \in CredentialProvider :
                                     StoreCredential(b, p) \/ DeleteCredential(b, p)
  PROVE  UNCHANGED requests
BY DEF Register, Login, Logout, SessionExpires, StoreCredential, DeleteCredential, Tick,
       OpenWorkspace, Navigate, RefreshAnswered, RefreshShown, DiscoveryAnswered,
       DiscoveryShown, Connect, Disconnect, OnlyPage

(* Every step keeps the access of every request its caller's.              *)
LEMMA RequestsKept == RequestsInv /\ RowsInv /\ [Next]_vars => RequestsInv'
<1>1. SUFFICES ASSUME RequestsInv, RowsInv, Next PROVE RequestsInv'
  BY DEF RequestsInv, vars
<1>2. ASSUME UNCHANGED requests PROVE RequestsInv'
  BY <1>1, <1>2 DEF RequestsInv
<1>3. ASSUME NEW r \in Requests, Step(r) PROVE RequestsInv'
  <2>1. ASSUME NEW p \in CredentialProvider, Finalise(r, p) PROVE RequestsInv'
    BY <1>1, <2>1, ClosingKeepsAccess DEF Finalise, OnlyRequest
  <2> QED BY <1>1, <1>3, <2>1, ResolvingKeepsAccess, StartingKeepsAccess, AnsweringKeepsAccess,
             LeavingKeepsAccess DEF Step
<1> QED BY <1>1, <1>2, <1>3, OthersKeepRequests, ArrivalsAreIdle, TasksKeepAccess DEF Next

(* Whatever is stored, replaced or deleted between two dependencies of a   *)
(* request, a client has its caller's own token, or the application's      *)
(* where nobody or the demonstration account asks.                         *)
THEOREM AccessIsTheCallers == Spec => []ConnectorsAreTheCallers
<1>1. Init => RowsInv /\ RequestsInv
  BY RowsStart, RequestsStart
<1>2. (RowsInv /\ RequestsInv) /\ [Next]_vars => (RowsInv /\ RequestsInv)'
  BY RowsKept, RequestsKept
<1>3. RowsInv /\ RequestsInv => ConnectorsAreTheCallers
  BY DEF RequestsInv, RequestInv, Entitled, ConnectorsAreTheCallers
<1> QED BY <1>1, <1>2, <1>3, PTL DEF Spec

-----------------------------------------------------------------------------
(* The clients of a request are closed with it. Waiting is a request whose *)
(* dependencies have not all been left.                                    *)

Waiting(q) == q.at \in {"resolving", "leaving"}

\* What a route opens is what it depends on, so leaving its dependencies
\* in their order reaches every client.
OpensItsDependencies(q) ==
  /\ q.kind \in Kinds
  /\ Opened(q, "open") \cup ToSet(q.todo) \subseteq ToSet(Dependencies[q.kind])

ClientsInv(q) ==
  /\ IF Waiting(q) THEN OpensItsDependencies(q) ELSE Opened(q, "open") = {}
  /\ Waiting(q) \/ q.reply \in {200, 202} => Opened(q, "abandoned") = {}

AllClientsInv == \A r \in Requests : ClientsInv(requests[r])

(* Of a request that is over no client is open: it was closed, or its      *)
(* generator is left to the event loop's finaliser. Only a request that    *)
(* was refused or failed leaves one so: where the route answered, or its   *)
(* task was started, every client is closed as its dependency is left.     *)
EndedRequestsAreShut ==
  \A r \in Requests :
    /\ requests[r].at \in {"idle", "ended"} => Opened(requests[r], "open") = {}
    /\ requests[r].reply \in {200, 202} => Opened(requests[r], "abandoned") = {}

(* A request that has not arrived has no client.                           *)
LEMMA IdleOpensNothing == Opened(Idle, "open") = {} /\ Opened(Idle, "abandoned") = {}
BY DEF Opened, Idle, NoClient

(* At first none has arrived.                                              *)
LEMMA ClientsStart == Init => AllClientsInv
<1>1. ClientsInv(Idle)
  <2>1. ~Waiting(Idle)
    BY DEF Waiting, Idle
  <2> QED BY <2>1, IdleOpensNothing DEF ClientsInv
<1> QED BY <1>1 DEF Init, AllClientsInv

(* A step of one request is a step of all.                                 *)
LEMMA OneRequestsClients ==
  ASSUME RequestsInv, AllClientsInv, NEW r \in Requests, NEW q, ClientsInv(q),
         requests' = [requests EXCEPT ![r] = q]
  PROVE  AllClientsInv'
BY DEF RequestsInv, AllClientsInv

(* Where a request waits as before and its clients are fewer.              *)
LEMMA FewerClients ==
  ASSUME NEW q, ClientsInv(q),
         NEW n, n.kind = q.kind, n.at = q.at, n.reply = q.reply, n.todo = q.todo,
         Opened(n, "open") \subseteq Opened(q, "open"),
         Opened(n, "abandoned") \subseteq Opened(q, "abandoned")
  PROVE  ClientsInv(n)
BY DEF ClientsInv, Waiting, OpensItsDependencies

(* A dependency or a route raises: its clients are left to the finaliser.  *)
LEMMA RaisingAbandons ==
  ASSUME NEW q \in Request, NEW reply \in Nat \ {200, 202}
  PROVE  ClientsInv(Raised(q, reply))
<1> DEFINE clients == [p \in CredentialProvider |->
                         IF p \in Opened(q, "open")
                         THEN [q.clients[p] EXCEPT !.state = "abandoned"] ELSE q.clients[p]]
           n == Raised(q, reply)
<1>1. n = [q EXCEPT !.at = "ended", !.reply = reply, !.clients = clients]
  BY DEF Raised, Request
<1>2. n.at = "ended" /\ n.reply = reply /\ n.clients = clients
  <2> HIDE DEF clients, n
  <2> QED BY <1>1 DEF Request
<1>3. Opened(n, "open") = {}
  <2>1. \A p \in CredentialProvider :
          clients[p].state = "open" => p \notin Opened(q, "open") /\ clients[p] = q.clients[p]
    BY DEF Request, Client
  <2> HIDE DEF clients, n
  <2> QED BY <1>2, <2>1 DEF Opened
<1> HIDE DEF n
<1>4. ClientsInv(n)
  BY <1>2, <1>3 DEF ClientsInv, Waiting
<1> QED BY <1>4 DEF n

(* A request arrives, and is refused or resolves its dependencies.         *)
LEMMA ArrivalsOpenNothing ==
  ASSUME RequestsInv, AllClientsInv, NEW b \in Browsers, NEW r \in Requests, NEW k \in Kinds,
         Arrive(b, r, k)
  PROVE  AllClientsInv'
<1> DEFINE q == [Idle EXCEPT !.kind = k, !.caller = Account(b),
                             !.at = "resolving", !.todo = Dependencies[k]]
           n == [q EXCEPT !.at = "ended", !.reply = 429]
<1>1. q.kind = k /\ q.at = "resolving" /\ q.reply = 0 /\ q.todo = Dependencies[k]
        /\ q.clients = Idle.clients
  BY DEF Idle
<1>2. n.at = "ended" /\ n.reply = 429 /\ n.clients = Idle.clients
  BY DEF Idle
<1>3. requests' = [requests EXCEPT ![r] = q] \/ requests' = [requests EXCEPT ![r] = n]
  BY DEF Arrive, OnlyRequest
<1> HIDE DEF q, n
<1>4. \A s \in {"open", "abandoned"} : Opened(q, s) = {} /\ Opened(n, s) = {}
  BY <1>1, <1>2, IdleOpensNothing DEF Opened
<1>5. ClientsInv(q)
  BY <1>1, <1>4 DEF ClientsInv, Waiting, OpensItsDependencies
<1>6. ClientsInv(n)
  BY <1>2, <1>4 DEF ClientsInv, Waiting
<1> QED BY <1>3, <1>5, <1>6, OneRequestsClients

(* A dependency opens the client it is there for.                          *)
LEMMA ResolvingOpensDependencies ==
  ASSUME RequestsInv, AllClientsInv, NEW r \in Requests, Resolve(r)
  PROVE  AllClientsInv'
<1> DEFINE q == requests[r]
           p == Head(q.todo)
           Connected(token) == [q EXCEPT !.todo = Tail(@),
              !.clients[p] = [token |-> token, state |-> "open", read |-> "unread"]]
<1>1. q \in Request /\ ClientsInv(q) /\ q.at = "resolving"
  BY DEF RequestsInv, RequestInv, AllClientsInv, Resolve
<1>2. q.todo \in Seq(CredentialProvider) /\ q.todo # <<>>
  BY <1>1 DEF Resolve, Request
<1>3. p \in ToSet(q.todo) /\ ToSet(Tail(q.todo)) \subseteq ToSet(q.todo)
  <2> HIDE DEF q
  <2> QED BY <1>2 DEF ToSet
<1>4. ASSUME NEW token PROVE ClientsInv(Connected(token))
  <2> DEFINE client == [token |-> token, state |-> "open", read |-> "unread"]
             n == Connected(token)
  <2>1. n.kind = q.kind /\ n.at = "resolving" /\ n.todo = Tail(q.todo)
        /\ n.clients = [q.clients EXCEPT ![p] = client]
    <3> HIDE DEF q, p
    <3> QED BY <1>1 DEF Request
  <2>2. client.state = "open"
    OBVIOUS
  <2>3. Waiting(q) /\ Waiting(n)
    BY <1>1, <2>1 DEF Waiting
  <2> HIDE DEF n, client, q, p
  <2>4. Opened(n, "open") \subseteq Opened(q, "open") \cup {p}
        /\ Opened(n, "abandoned") \subseteq Opened(q, "abandoned")
    <3>1. \A x \in CredentialProvider :
            n.clients[x] = IF x = p THEN client ELSE q.clients[x]
      BY <1>1, <2>1 DEF Request
    <3> QED BY <2>2, <3>1 DEF Opened
  <2>5. ClientsInv(n)
    BY <1>1, <1>3, <2>1, <2>3, <2>4 DEF ClientsInv, OpensItsDependencies
  <2> QED BY <2>5 DEF n
<1>5. ClientsInv(Raised(q, 409))
  BY <1>1, RaisingAbandons
<1>6. \/ requests' = [requests EXCEPT ![r] = Raised(q, 409)]
      \/ requests' = [requests EXCEPT ![r] = Connected(Shared)]
      \/ requests' = [requests EXCEPT ![r] = Connected(credentials[q.caller][p])]
  BY DEF Resolve, OnlyRequest
<1> HIDE DEF Connected, q
<1> QED BY <1>4, <1>5, <1>6, OneRequestsClients

(* A route that returns has only its dependencies left to leave.           *)
LEMMA ReturningOpensNothing ==
  ASSUME NEW q \in Request, ClientsInv(q), q.at = "resolving", NEW reply \in Nat
  PROVE  ClientsInv(Left(q, reply))
<1> DEFINE n == Left(q, reply)
<1>1. n.at = "leaving" /\ n.kind = q.kind /\ n.todo = q.todo /\ n.clients = q.clients
  BY ReturningKeepsClients
<1> HIDE DEF n
<1>2. \A s \in {"open", "abandoned"} : Opened(n, s) = Opened(q, s)
  BY <1>1 DEF Opened
<1>3. Waiting(q) /\ Waiting(n)
  BY <1>1 DEF Waiting
<1>4. ClientsInv(n)
  BY <1>1, <1>2, <1>3 DEF ClientsInv, OpensItsDependencies
<1> QED BY <1>4 DEF n

(* A task is started, or cannot be.                                        *)
LEMMA StartingKeepsClients ==
  ASSUME RequestsInv, AllClientsInv, NEW r \in Requests, StartTask(r)
  PROVE  AllClientsInv'
<1> DEFINE q == requests[r]
           returned == Left(q, 202)
           n == [returned EXCEPT !.task = "running"]
<1>1. q \in Request /\ ClientsInv(q) /\ q.at = "resolving"
  BY Starts DEF RequestsInv, RequestInv, AllClientsInv
<1>2. \/ requests' = [requests EXCEPT ![r] = n]
      \/ \E reply \in Nat : requests' = [requests EXCEPT ![r] = Left(q, reply)]
      \/ \E reply \in Nat \ {200, 202} : requests' = [requests EXCEPT ![r] = Raised(q, reply)]
  BY Starts
<1> HIDE DEF q
<1>3. ClientsInv(returned) /\ returned \in Request
  BY <1>1, ReturningOpensNothing, ReturningKeepsClients
<1> HIDE DEF returned
<1>4. n.kind = returned.kind /\ n.at = returned.at /\ n.reply = returned.reply
      /\ n.todo = returned.todo /\ n.clients = returned.clients
  BY <1>3 DEF Request
<1> HIDE DEF n
<1>5. ClientsInv(n)
  BY <1>3, <1>4, FewerClients DEF Opened
<1> QED BY <1>1, <1>2, <1>5, ReturningOpensNothing, RaisingAbandons, OneRequestsClients

(* A route that awaited its providers answers, or raises.                  *)
LEMMA AnsweringKeepsClients ==
  ASSUME RequestsInv, AllClientsInv, NEW r \in Requests, Answer(r)
  PROVE  AllClientsInv'
<1> DEFINE q == requests[r]
           heard == Heard(q)
<1>1. q \in Request /\ ClientsInv(q) /\ q.at = "resolving"
  BY Answers DEF RequestsInv, RequestInv, AllClientsInv
<1>2. \/ \E reply \in Nat : requests' = [requests EXCEPT ![r] = Left(heard, reply)]
      \/ \E reply \in Nat \ {200, 202} : requests' = [requests EXCEPT ![r] = Raised(heard, reply)]
  BY Answers
<1> HIDE DEF q
<1>3. /\ heard \in Request /\ heard.at = "resolving" /\ heard.kind = q.kind
      /\ heard.todo = q.todo /\ heard.reply = q.reply
      /\ \A p \in CredentialProvider : /\ heard.clients[p].state = q.clients[p].state
                                       /\ heard.clients[p].token = q.clients[p].token
  BY <1>1, HearingKeepsClients
<1> HIDE DEF heard
<1>4. \A s \in {"open", "abandoned"} : Opened(heard, s) = Opened(q, s)
  BY <1>3 DEF Opened
<1>5. ClientsInv(heard)
  BY <1>1, <1>3, <1>4, FewerClients
<1> QED BY <1>2, <1>3, <1>5, ReturningOpensNothing, RaisingAbandons, OneRequestsClients

(* A client is closed.                                                     *)
LEMMA ClosingKeepsClients ==
  ASSUME RequestsInv, AllClientsInv, NEW r \in Requests,
         NEW p, NEW n, n = [requests[r] EXCEPT !.clients[p].state = "closed"],
         requests' = [requests EXCEPT ![r] = n]
  PROVE  AllClientsInv'
<1> DEFINE q == requests[r]
           clients == [q.clients EXCEPT ![p] = [@ EXCEPT !.state = "closed"]]
<1>1. q \in Request /\ ClientsInv(q)
  BY DEF RequestsInv, RequestInv, AllClientsInv
<1>2. n = [q EXCEPT !.clients = clients]
  OBVIOUS
<1> HIDE DEF q
<1>3. \A x \in CredentialProvider :
        clients[x] = q.clients[x] \/ clients[x].state = "closed"
  BY <1>1 DEF Request, Client
<1> HIDE DEF clients
<1>4. n.kind = q.kind /\ n.at = q.at /\ n.reply = q.reply /\ n.todo = q.todo
      /\ n.clients = clients
  BY <1>1, <1>2 DEF Request
<1>5. \A s \in {"open", "abandoned"} : Opened(n, s) \subseteq Opened(q, s)
  BY <1>3, <1>4 DEF Opened
<1>6. ClientsInv(n)
  BY <1>1, <1>4, <1>5, FewerClients
<1> QED BY <1>6, OneRequestsClients

(* The dependencies are left, and the last to be left ends the request.    *)
LEMMA LeavingShutsClients ==
  ASSUME RequestsInv, AllClientsInv, NEW r \in Requests, Leave(r)
  PROVE  AllClientsInv'
<1> DEFINE q == requests[r]
           order == Dependencies[q.kind]
           open == {i \in DOMAIN order : order[i] \in Opened(q, "open")}
           last == order[Max(open)]
           n == [q EXCEPT !.at = "ended"]
<1>1. q \in Request /\ ClientsInv(q) /\ Waiting(q)
  BY DEF RequestsInv, RequestInv, AllClientsInv, Leave, Waiting
<1>2. \/ open = {} /\ requests' = [requests EXCEPT ![r] = n]
      \/ requests' = [requests EXCEPT ![r] = [q EXCEPT !.clients[last].state = "closed"]]
  BY DEF Leave, OnlyRequest
<1>3. open = {} => ClientsInv(n)
  <2> HIDE DEF q
  <2>1. n.at = "ended" /\ n.clients = q.clients
    BY <1>1 DEF Request
  <2>2. Opened(q, "open") \subseteq ToSet(order) /\ Opened(q, "abandoned") = {}
    BY <1>1 DEF ClientsInv, OpensItsDependencies
  <2> HIDE DEF n
  <2>3. Opened(n, "open") = Opened(q, "open") /\ Opened(n, "abandoned") = Opened(q, "abandoned")
    BY <2>1 DEF Opened
  <2>4. open = {} => Opened(q, "open") = {}
    BY <2>2 DEF ToSet
  <2> QED BY <2>1, <2>2, <2>3, <2>4 DEF ClientsInv, Waiting
<1> HIDE DEF n, last, open
<1> QED BY <1>2, <1>3, OneRequestsClients, ClosingKeepsClients

(* A task reads through a client, or ends.                                 *)
LEMMA TasksKeepClients ==
  ASSUME RequestsInv, AllClientsInv, NEW r \in Requests,
         TaskEnds(r) \/ \E p \in CredentialProvider : TaskReads(r, p)
  PROVE  AllClientsInv'
<1> DEFINE q == requests[r]
<1>1. q \in Request /\ ClientsInv(q)
  BY DEF RequestsInv, RequestInv, AllClientsInv
<1>2. CASE TaskEnds(r)
  <2> DEFINE n == [q EXCEPT !.task = "ended"]
  <2>1. requests' = [requests EXCEPT ![r] = n]
    BY <1>2 DEF TaskEnds, OnlyRequest
  <2>2. n.kind = q.kind /\ n.at = q.at /\ n.reply = q.reply /\ n.todo = q.todo
        /\ n.clients = q.clients
    <3> HIDE DEF q
    <3> QED BY <1>1 DEF Request
  <2> HIDE DEF n, q
  <2>3. \A s \in {"open", "abandoned"} : Opened(n, s) = Opened(q, s)
    BY <2>2 DEF Opened
  <2>4. ClientsInv(n)
    BY <1>1, <2>2, <2>3, FewerClients
  <2> QED BY <2>1, <2>4, OneRequestsClients
<1>3. ASSUME NEW p \in CredentialProvider, TaskReads(r, p) PROVE AllClientsInv'
  <2> DEFINE closed == q.clients[p].state # "open"
             clients == [q.clients EXCEPT ![p] =
                           [@ EXCEPT !.read = IF closed THEN "closed" ELSE "read"]]
             n == [q EXCEPT !.clients = clients, !.task = IF closed THEN "failed" ELSE @]
  <2>1. requests' = [requests EXCEPT ![r] = n]
    BY <1>3 DEF TaskReads, OnlyRequest
  <2> HIDE DEF q
  <2>2. \A x \in CredentialProvider : /\ clients[x].state = q.clients[x].state
                                      /\ clients[x].token = q.clients[x].token
    BY <1>1 DEF Request, Client
  <2> HIDE DEF clients, closed
  <2>3. n.kind = q.kind /\ n.at = q.at /\ n.reply = q.reply /\ n.todo = q.todo
        /\ n.clients = clients
    BY <1>1 DEF Request
  <2> HIDE DEF n
  <2>4. \A s \in {"open", "abandoned"} : Opened(n, s) = Opened(q, s)
    BY <2>2, <2>3 DEF Opened
  <2>5. ClientsInv(n)
    BY <1>1, <2>3, <2>4, FewerClients
  <2> QED BY <2>1, <2>5, OneRequestsClients
<1> QED BY <1>2, <1>3

(* Every step keeps the clients of waiting requests within reach of their  *)
(* dependencies, and those of the others shut.                             *)
LEMMA ClientsKept == AllClientsInv /\ RequestsInv /\ [Next]_vars => AllClientsInv'
<1>1. SUFFICES ASSUME AllClientsInv, RequestsInv, Next PROVE AllClientsInv'
  BY DEF AllClientsInv, vars
<1>2. ASSUME UNCHANGED requests PROVE AllClientsInv'
  BY <1>1, <1>2 DEF AllClientsInv
<1>3. ASSUME NEW r \in Requests, Step(r) PROVE AllClientsInv'
  <2>1. ASSUME NEW p \in CredentialProvider, Finalise(r, p) PROVE AllClientsInv'
    BY <1>1, <2>1, ClosingKeepsClients DEF Finalise, OnlyRequest
  <2> QED BY <1>1, <1>3, <2>1, ResolvingOpensDependencies, StartingKeepsClients,
             AnsweringKeepsClients, LeavingShutsClients DEF Step
<1> QED BY <1>1, <1>2, <1>3, OthersKeepRequests, ArrivalsOpenNothing, TasksKeepClients DEF Next

(* Leaving the dependencies closes every client a request opened, so that  *)
(* none is open when it has ended, and only one that was refused or failed *)
(* may have left its clients to the finaliser: where the `finally' of      *)
(* request_scoped_http_client is reached, for any requests in any order    *)
(* and with any accounts.                                                  *)
THEOREM EndedRequestsShut == Spec => []EndedRequestsAreShut
<1>1. Init => RowsInv /\ RequestsInv /\ AllClientsInv
  BY RowsStart, RequestsStart, ClientsStart
<1>2. (RowsInv /\ RequestsInv /\ AllClientsInv) /\ [Next]_vars
        => (RowsInv /\ RequestsInv /\ AllClientsInv)'
  BY RowsKept, RequestsKept, ClientsKept
<1>3. AllClientsInv => EndedRequestsAreShut
  BY DEF AllClientsInv, ClientsInv, Waiting, EndedRequestsAreShut
<1> QED BY <1>1, <1>2, <1>3, PTL DEF Spec

-----------------------------------------------------------------------------
(* The workspace page.                                                     *)

Call == [provider : Listed, active : BOOLEAN, answer : {"waiting", "served"}, token : Token]
Page ==
  [at : {"closed", "sources", "scan"}, connections : {None} \cup [Listed -> BOOLEAN],
   refreshes : Nat, answers : SUBSET [Listed -> BOOLEAN], calls : SUBSET Call,
   lists : [Listed -> Token], since : [Listed -> Token]]

Shows(w, p) == w.connections # None /\ w.connections[p]

\* A token that was not stored before another of the same account.
NotBefore(token, earlier) ==
  token # None => (token.by = earlier.by => token.number >= earlier.number)

\* What the page asked with is not ahead of what is stored.
AskedOfStored(w) ==
  \A p \in Listed : w.since[p] # None =>
     w.since[p].by \in Accounts /\ w.since[p].number <= stored[w.since[p].by][p]

CallsAreCurrent(w) ==
  \A c \in w.calls : c.active =>
     w.at = "scan" /\ Shows(w, c.provider) /\ NotBefore(c.token, w.since[c.provider])

ShownIsCurrent(w) ==
  /\ w.at # "scan" => w.lists = NoLists
  /\ \A p \in Listed : w.lists[p] # None => Shows(w, p) /\ NotBefore(w.lists[p], w.since[p])

PageInv(w) ==
  /\ w \in Page /\ AskedOfStored(w) /\ CallsAreCurrent(w) /\ ShownIsCurrent(w)

WorkspaceInv == RowsInv /\ PageInv(page)

(* The workspace page is open in one of the browsers.                      *)
LEMMA TabIsBrowser == Tab \in Browsers /\ Listed \subseteq CredentialProvider
BY AccountsAssumption DEF Listed, CredentialProvider

(* No lists.                                                               *)
LEMMA NothingListed == NoLists \in [Listed -> Token] /\ \A p \in Listed : NoLists[p] = None
BY NoneIsToken DEF NoLists

(* A closed page shows nothing.                                            *)
LEMMA ClosedIsCurrent == PageInv(Closed)
<1>1. Closed \in Page
  BY NothingListed DEF Closed, Page
<1> QED BY <1>1, NothingListed DEF Closed, PageInv, AskedOfStored, CallsAreCurrent, ShownIsCurrent

(* The row of the page's account is the token stored last.                 *)
LEMMA RowIsCurrent ==
  ASSUME RowsInv, NEW p \in Listed
  PROVE  /\ Row(p) \in Token
         /\ Row(p) # None => Row(p).by \in Accounts /\ Row(p).number = stored[Row(p).by][p]
<1>1. p \in CredentialProvider /\ session[Tab] \in Accounts \cup {Anonymous}
  BY TabIsBrowser DEF RowsInv
<1>2. CASE session[Tab] = Anonymous
  BY <1>2, NoneIsToken DEF Row, SignedIn
<1>3. CASE session[Tab] # Anonymous
  <2> DEFINE a == session[Tab]
  <2>1. a \in Accounts /\ Row(p) = credentials[a][p]
    BY <1>1, <1>3 DEF Row, SignedIn, Account
  <2> HIDE DEF a
  <2>2. credentials[a][p] \in Token
        /\ (credentials[a][p] # None => credentials[a][p] = [by |-> a, number |-> stored[a][p]])
    BY <1>1, <2>1 DEF RowsInv
  <2> QED BY <2>1, <2>2
<1> QED BY <1>2, <1>3

(* Asking again leaves no answer of an earlier visit to be shown.          *)
LEMMA AskingIsCurrent ==
  ASSUME RowsInv, NEW w \in Page
  PROVE  PageInv(Ask(w))
<1> DEFINE old == {[c EXCEPT !.active = FALSE] : c \in w.calls}
           new == {[provider |-> p, active |-> TRUE, answer |-> "waiting", token |-> None] :
                     p \in {x \in Listed : w.connections # None /\ w.connections[x]}}
           since == [p \in Listed |-> Row(p)]
           n == Ask(w)
<1>1. old \in SUBSET Call /\ \A c \in old : ~c.active
  <2>1. ASSUME NEW c \in Call
        PROVE  [c EXCEPT !.active = FALSE] \in Call /\ [c EXCEPT !.active = FALSE].active = FALSE
    BY <2>1 DEF Call
  <2>2. w.calls \subseteq Call
    BY DEF Page
  <2> QED BY <2>1, <2>2
<1>2. new \in SUBSET Call /\ \A c \in new : Shows(w, c.provider) /\ c.token = None
  <2> DEFINE Asked(p) == [provider |-> p, active |-> TRUE, answer |-> "waiting", token |-> None]
  <2>1. ASSUME NEW p \in Listed, Shows(w, p)
        PROVE  Asked(p) \in Call /\ Asked(p).provider = p /\ Asked(p).token = None
    BY NoneIsToken DEF Call
  <2>2. new = {Asked(p) : p \in {x \in Listed : Shows(w, x)}}
    BY DEF Shows
  <2> HIDE DEF Asked
  <2> QED BY <2>1, <2>2
<1>3. since \in [Listed -> Token]
  BY RowIsCurrent
<1>4. n = [w EXCEPT !.at = "scan", !.lists = NoLists, !.since = since, !.calls = old \cup new]
  BY DEF Ask, Page
<1> HIDE DEF old, new, since, n
<1>5. /\ n \in Page /\ n.at = "scan" /\ n.lists = NoLists /\ n.since = since
      /\ n.calls = old \cup new /\ n.connections = w.connections
  BY <1>1, <1>2, <1>3, <1>4, NothingListed DEF Page
<1>6. AskedOfStored(n)
  <2>1. ASSUME NEW p \in Listed, Row(p) # None
        PROVE  Row(p).by \in Accounts /\ Row(p).number <= stored[Row(p).by][p]
    <3>1. Row(p).by \in Accounts /\ Row(p).number = stored[Row(p).by][p]
      BY <2>1, RowIsCurrent
    <3>2. stored[Row(p).by][p] \in Nat
      BY <3>1, TabIsBrowser DEF RowsInv
    <3> QED BY <3>1, <3>2
  <2> QED BY <1>5, <2>1 DEF AskedOfStored, since
<1>7. CallsAreCurrent(n)
  BY <1>1, <1>2, <1>5 DEF CallsAreCurrent, NotBefore, Shows
<1>8. ShownIsCurrent(n)
  BY <1>5, NothingListed DEF ShownIsCurrent
<1> QED BY <1>5, <1>6, <1>7, <1>8 DEF PageInv, n

(* Counters and answers of the refreshes are no part of what is listed.    *)
LEMMA RefreshesKeepLists ==
  ASSUME NEW w, PageInv(w), NEW n \in Page, n.at = w.at, n.connections = w.connections,
         n.calls = w.calls, n.lists = w.lists, n.since = w.since
  PROVE  PageInv(n)
BY DEF PageInv, AskedOfStored, CallsAreCurrent, ShownIsCurrent, Shows

\* The rows may only get newer.
NewerRows == \A a \in Accounts, p \in CredentialProvider : stored'[a][p] >= stored[a][p]

(* Rows that got newer are still no older than what the page asked under.  *)
LEMMA NewerRowsKeepPage ==
  ASSUME RowsInv, RowsInv', NewerRows, NEW w \in Page, AskedOfStored(w)
  PROVE  AskedOfStored(w)'
<1>1. SUFFICES ASSUME NEW p \in Listed, w.since[p] # None
               PROVE  w.since[p].by \in Accounts /\ w.since[p].number <= stored'[w.since[p].by][p]
  BY DEF AskedOfStored
<1> DEFINE a == w.since[p].by
           n == w.since[p].number
<1>2. a \in Accounts /\ n <= stored[a][p] /\ n \in Nat
  BY <1>1 DEF AskedOfStored, Page, Token
<1> HIDE DEF a, n
<1>3. stored[a][p] \in Nat /\ stored'[a][p] \in Nat /\ stored'[a][p] >= stored[a][p]
  BY <1>2, TabIsBrowser DEF RowsInv, NewerRows
<1>4. n <= stored'[a][p]
  BY <1>2, <1>3
<1> QED BY <1>2, <1>4 DEF a, n

(* A row's number only grows.                                              *)
LEMMA RowsGetNewer == RowsInv /\ RowsInv' /\ [Next]_vars => NewerRows
<1>1. SUFFICES ASSUME RowsInv, RowsInv', Next PROVE NewerRows
  BY DEF RowsInv, NewerRows, vars, rows
<1>2. ASSUME UNCHANGED stored PROVE NewerRows
  BY <1>1, <1>2 DEF RowsInv, NewerRows
<1>3. ASSUME NEW b \in Browsers, NEW p \in CredentialProvider, StoreRow(b, p)
      PROVE  NewerRows
  <2> DEFINE a == session[b]
  <2>1. a \in Accounts /\ stored' = [stored EXCEPT ![a][p] = @ + 1]
    BY <1>1, <1>3 DEF RowsInv, StoreRow, SignedIn, Account
  <2> HIDE DEF a
  <2>2. ASSUME NEW c \in Accounts, NEW x \in CredentialProvider
        PROVE  stored'[c][x] >= stored[c][x]
    <3>1. stored[c][x] \in Nat
      BY <1>1 DEF RowsInv
    <3>2. stored'[c][x] = stored[c][x] \/ stored'[c][x] = stored[c][x] + 1
      BY <1>1, <2>1 DEF RowsInv
    <3> QED BY <3>1, <3>2
  <2> QED BY <2>2 DEF NewerRows
<1>4. ASSUME NEW b \in Browsers, NEW e \in Emails, Register(b, e) \/ Login(b, e)
      PROVE  UNCHANGED stored
  BY <1>4 DEF Register, Login, rows
<1>5. ASSUME NEW b \in Browsers, Logout(b) \/ SessionExpires(b) PROVE UNCHANGED stored
  BY <1>5 DEF Logout, SessionExpires, rows
<1>6. ASSUME NEW b \in Browsers, NEW p \in CredentialProvider,
             StoreCredential(b, p) \/ DeleteCredential(b, p)
      PROVE  NewerRows
  BY <1>2, <1>3, <1>6 DEF StoreCredential, DeleteCredential, DeleteRow
<1>7. ASSUME NEW p \in Listed, Connect(p) \/ Disconnect(p) PROVE NewerRows
  BY <1>2, <1>3, <1>7, TabIsBrowser DEF Connect, Disconnect, DeleteRow
<1>8. ASSUME NEW b \in Browsers, NEW r \in Requests, NEW k \in Kinds, Arrive(b, r, k)
      PROVE  UNCHANGED stored
  BY <1>8 DEF Arrive, OnlyRequest, rows
<1>9. ASSUME NEW r \in Requests, Step(r) \/ TaskEnds(r) \/ \E p \in CredentialProvider : TaskReads(r, p)
      PROVE  UNCHANGED stored
  BY <1>9 DEF Step, Resolve, StartTask, Answer, Leave, Finalise, TaskEnds, TaskReads, OnlyRequest,
              rows
<1>10. ASSUME Tick \/ OpenWorkspace \/ Navigate \/ RefreshAnswered \/ RefreshShown
             \/ DiscoveryAnswered \/ DiscoveryShown
      PROVE  UNCHANGED stored
  BY <1>10 DEF Tick, OpenWorkspace, Navigate, RefreshAnswered, RefreshShown, DiscoveryAnswered,
              DiscoveryShown, rows
<1> QED BY <1>1, <1>2, <1>3, <1>4, <1>5, <1>6, <1>7, <1>8, <1>9, <1>10 DEF Next

(* The page asks for the connections again.                                *)
LEMMA RefreshingIsCurrent ==
  ASSUME NEW w, PageInv(w)
  PROVE  PageInv(Refreshing(w))
<1> DEFINE n == Refreshing(w)
<1>1. n \in Page /\ n.at = w.at /\ n.connections = w.connections /\ n.calls = w.calls
      /\ n.lists = w.lists /\ n.since = w.since
  BY DEF PageInv, Page, Refreshing
<1> HIDE DEF n
<1>2. PageInv(n)
  BY <1>1, RefreshesKeepLists
<1> QED BY <1>2 DEF n

(* The page is opened.                                                     *)
LEMMA OpeningIsCurrent == OpenWorkspace => PageInv(page')
<1> DEFINE n == [Closed EXCEPT !.at = "sources"]
<1>1. n \in Page
  BY ClosedIsCurrent DEF PageInv, Page
<1>2. PageInv(n)
  BY <1>1, NothingListed DEF Closed, PageInv, AskedOfStored, CallsAreCurrent, ShownIsCurrent
<1> HIDE DEF n
<1>3. PageInv(Refreshing(n))
  BY <1>2, RefreshingIsCurrent
<1> QED BY <1>3 DEF OpenWorkspace, OnlyPage, n

\* Leaving the scan page: nothing is listed, and no answer will be.
Away(w) == [w EXCEPT !.at = "sources", !.lists = NoLists,
                     !.calls = {[c EXCEPT !.active = FALSE] : c \in @}]

(* The scan page is left: what it asked for is no longer active.           *)
LEMMA AwayIsCurrent ==
  ASSUME NEW w, PageInv(w)
  PROVE  PageInv(Away(w))
<1> DEFINE old == {[c EXCEPT !.active = FALSE] : c \in w.calls}
           n == [w EXCEPT !.at = "sources", !.lists = NoLists, !.calls = old]
<1>0. w \in Page
  BY DEF PageInv
<1>1. old \in SUBSET Call /\ \A c \in old : ~c.active
  <2>1. ASSUME NEW c \in Call
        PROVE  [c EXCEPT !.active = FALSE] \in Call /\ [c EXCEPT !.active = FALSE].active = FALSE
    BY <2>1 DEF Call
  <2>2. w.calls \subseteq Call
    BY <1>0 DEF Page
  <2> QED BY <2>1, <2>2
<1>2. Away(w) = n
  BY <1>0 DEF Away, Page
<1>3. n \in Page /\ n.lists = NoLists /\ n.calls = old /\ n.since = w.since
  <2> HIDE DEF old
  <2> QED BY <1>0, <1>1, NothingListed DEF Page
<1> HIDE DEF old, n
<1> QED BY <1>1, <1>2, <1>3, NothingListed
        DEF PageInv, AskedOfStored, CallsAreCurrent, ShownIsCurrent

(* Moving between the pages of the workspace.                              *)
LEMMA NavigatingIsCurrent == RowsInv /\ PageInv(page) /\ Navigate => PageInv(page')
<1>1. SUFFICES ASSUME RowsInv, PageInv(page), Navigate PROVE PageInv(page')
  OBVIOUS
<1>2. page' = Ask(page) \/ page' = Away(page)
  BY <1>1 DEF Navigate, OnlyPage, Away
<1>3. PageInv(Ask(page))
  BY <1>1, AskingIsCurrent DEF PageInv
<1>4. PageInv(Away(page))
  BY <1>1, AwayIsCurrent
<1> QED BY <1>2, <1>3, <1>4

(* The connections are answered.                                           *)
LEMMA RefreshAnswersAreCurrent == PageInv(page) /\ RefreshAnswered => PageInv(page')
<1>1. SUFFICES ASSUME PageInv(page), RefreshAnswered PROVE PageInv(page')
  OBVIOUS
<1> DEFINE more == IF SignedIn(Tab) THEN page.answers \cup {Connections} ELSE page.answers
<1>2. page \in Page /\ page.refreshes \in Nat /\ page.refreshes - 1 \in Nat
  BY <1>1 DEF PageInv, Page, RefreshAnswered
<1>3. Connections \in [Listed -> BOOLEAN]
  BY DEF Connections
<1>4. more \in SUBSET [Listed -> BOOLEAN]
  BY <1>2, <1>3 DEF Page
<1>5. page' = [page EXCEPT !.refreshes = page.refreshes - 1, !.answers = more]
  BY <1>1 DEF RefreshAnswered, OnlyPage
<1> HIDE DEF more
<1>6. page' \in Page /\ page'.at = page.at /\ page'.connections = page.connections
      /\ page'.calls = page.calls /\ page'.lists = page.lists /\ page'.since = page.since
  BY <1>2, <1>4, <1>5 DEF Page
<1> QED BY <1>1, <1>6, RefreshesKeepLists

(* They are shown, and a new connection's lists are asked for.             *)
LEMMA RefreshesShownAreCurrent == RowsInv /\ PageInv(page) /\ RefreshShown => PageInv(page')
<1>1. SUFFICES ASSUME RowsInv, PageInv(page), RefreshShown PROVE PageInv(page')
  OBVIOUS
<1>2. PICK shown \in page.answers :
        page' = IF page.at = "scan" /\ shown # page.connections
                THEN Ask([page EXCEPT !.answers = @ \ {shown}, !.connections = shown])
                ELSE [page EXCEPT !.answers = @ \ {shown}, !.connections = shown]
  BY <1>1 DEF RefreshShown, OnlyPage
<1> DEFINE w == [page EXCEPT !.answers = @ \ {shown}, !.connections = shown]
<1>3. page \in Page /\ shown \in [Listed -> BOOLEAN]
  BY <1>1 DEF PageInv, Page
<1>4. w \in Page /\ w.at = page.at /\ w.connections = shown
      /\ w.calls = page.calls /\ w.lists = page.lists /\ w.since = page.since
  BY <1>3 DEF Page
<1>5. page' = IF page.at = "scan" /\ shown # page.connections THEN Ask(w) ELSE w
  BY <1>2
<1> HIDE DEF w
<1>6. PageInv(Ask(w))
  BY <1>1, <1>4, AskingIsCurrent
<1>7. CASE shown = page.connections
  <2>1. PageInv(w)
    BY <1>1, <1>4, <1>7, RefreshesKeepLists
  <2> QED BY <1>5, <1>6, <1>7, <2>1
<1>8. CASE page.at # "scan"
  <2>1. PageInv(w)
    BY <1>1, <1>4, <1>8, NothingListed
       DEF PageInv, AskedOfStored, CallsAreCurrent, ShownIsCurrent
  <2> QED BY <1>5, <1>8, <2>1
<1>9. CASE page.at = "scan" /\ shown # page.connections
  BY <1>5, <1>6, <1>9
<1> QED BY <1>7, <1>8, <1>9

(* The server answers with the row as it is: not older than the row the    *)
(* page asked under.                                                       *)
LEMMA DiscoveriesAreCurrent == RowsInv /\ PageInv(page) /\ DiscoveryAnswered => PageInv(page')
<1>1. SUFFICES ASSUME RowsInv, PageInv(page), DiscoveryAnswered PROVE PageInv(page')
  OBVIOUS
<1>2. PICK c \in page.calls :
        page' = [page EXCEPT !.calls = (@ \ {c}) \cup
                               {[c EXCEPT !.answer = "served", !.token = Row(c.provider)]}]
  BY <1>1 DEF DiscoveryAnswered, OnlyPage
<1> DEFINE d == [c EXCEPT !.answer = "served", !.token = Row(c.provider)]
           calls == (page.calls \ {c}) \cup {d}
<1>3. page \in Page /\ c \in Call /\ c.provider \in Listed
  BY <1>1, <1>2 DEF PageInv, Page, Call
<1>4. Row(c.provider) \in Token
  BY <1>1, <1>3, RowIsCurrent
<1>5. d \in Call /\ d.active = c.active /\ d.provider = c.provider /\ d.token = Row(c.provider)
  BY <1>3, <1>4 DEF Call
<1> HIDE DEF d
<1>6. calls \in SUBSET Call
  BY <1>3, <1>5 DEF Page
<1>7. page' = [page EXCEPT !.calls = calls]
  BY <1>2 DEF d
<1> HIDE DEF calls
<1>8. page' \in Page /\ page'.at = page.at /\ page'.connections = page.connections
      /\ page'.calls = calls /\ page'.lists = page.lists /\ page'.since = page.since
  BY <1>3, <1>6, <1>7 DEF Page
<1>9. NotBefore(Row(c.provider), page.since[c.provider])
  <2> DEFINE row == Row(c.provider)
             old == page.since[c.provider]
  <2>1. SUFFICES ASSUME row # None, row.by = old.by PROVE row.number >= old.number
    BY DEF NotBefore
  <2>2. row.by \in Accounts /\ row.number = stored[row.by][c.provider]
    BY <1>1, <1>3, <2>1, RowIsCurrent
  <2>3. old # None
    <3>1. row.by # "nobody"
      BY <2>2, AccountsAssumption
    <3> QED BY <2>1, <3>1 DEF None
  <2>4. old.number <= stored[old.by][c.provider]
    BY <1>1, <1>3, <2>3 DEF PageInv, AskedOfStored
  <2>5. old.number \in Nat /\ row.number \in Nat
    BY <1>3, <1>4 DEF Page, Token
  <2> HIDE DEF row, old
  <2> QED BY <2>1, <2>2, <2>4, <2>5
<1>10. CallsAreCurrent(page')
  <2>1. \A x \in calls : x \in page.calls \/ x = d
    BY DEF calls
  <2>2. d.active => c.active
    BY <1>5
  <2> QED BY <1>1, <1>2, <1>5, <1>8, <1>9, <2>1, <2>2 DEF PageInv, CallsAreCurrent, Shows
<1> QED BY <1>1, <1>8, <1>10 DEF PageInv, AskedOfStored, ShownIsCurrent, Shows

(* A list is shown if the effect that asked for it is still active.        *)
LEMMA ShowingIsCurrent == PageInv(page) /\ DiscoveryShown => PageInv(page')
<1>1. SUFFICES ASSUME PageInv(page), DiscoveryShown PROVE PageInv(page')
  OBVIOUS
<1>2. PICK c \in page.calls :
        page' = [page EXCEPT !.calls = @ \ {c},
                             !.lists[c.provider] = IF c.active THEN c.token ELSE @]
  BY <1>1 DEF DiscoveryShown, OnlyPage
<1>3. page \in Page /\ c \in Call /\ c.provider \in Listed /\ c.token \in Token
  BY <1>1, <1>2 DEF PageInv, Page, Call
<1> DEFINE p == c.provider
           lists == [page.lists EXCEPT ![p] = IF c.active THEN c.token ELSE @]
           calls == page.calls \ {c}
<1>4. page.lists \in [Listed -> Token] /\ page.calls \in SUBSET Call
  BY <1>3 DEF Page
<1>5. lists \in [Listed -> Token] /\ calls \in SUBSET Call
  BY <1>3, <1>4
<1>6. page' = [page EXCEPT !.calls = calls, !.lists = lists]
  BY <1>2
<1>7. /\ \A x \in Listed : x # p => lists[x] = page.lists[x]
      /\ lists[p] = IF c.active THEN c.token ELSE page.lists[p]
      /\ ~c.active => lists = page.lists
  BY <1>3, <1>4
<1> HIDE DEF lists, calls
<1>8. page' \in Page /\ page'.at = page.at /\ page'.connections = page.connections
      /\ page'.calls = calls /\ page'.lists = lists /\ page'.since = page.since
  BY <1>3, <1>5, <1>6 DEF Page
<1>9. c.active => page.at = "scan" /\ Shows(page, p) /\ NotBefore(c.token, page.since[p])
  BY <1>1, <1>2 DEF PageInv, CallsAreCurrent
<1>10. ShownIsCurrent(page')
  <2>1. page'.at # "scan" => page'.lists = NoLists
    BY <1>1, <1>7, <1>8, <1>9 DEF PageInv, ShownIsCurrent
  <2>2. ASSUME NEW x \in Listed, lists[x] # None
        PROVE  Shows(page, x) /\ NotBefore(lists[x], page.since[x])
    <3>1. CASE x = p /\ c.active
      BY <3>1, <1>7, <1>9
    <3>2. CASE ~(x = p /\ c.active)
      <4>1. lists[x] = page.lists[x]
        BY <3>2, <1>7
      <4> QED BY <1>1, <2>2, <4>1 DEF PageInv, ShownIsCurrent
    <3> QED BY <3>1, <3>2
  <2> QED BY <1>8, <2>1, <2>2 DEF ShownIsCurrent, Shows
<1>11. CallsAreCurrent(page')
  <2>1. calls \subseteq page.calls
    BY DEF calls
  <2> QED BY <1>1, <1>8, <2>1 DEF PageInv, CallsAreCurrent, Shows
<1> QED BY <1>1, <1>8, <1>10, <1>11 DEF PageInv, AskedOfStored

(* Every step leaves a page that is current with the rows before the step. *)
LEMMA PageSteps == WorkspaceInv /\ [Next]_vars => PageInv(page')
<1>1. SUFFICES ASSUME RowsInv, PageInv(page), Next PROVE PageInv(page')
  BY DEF WorkspaceInv, vars
<1>2. ASSUME NEW b \in Browsers, NEW e \in Emails, Register(b, e) \/ Login(b, e)
      PROVE  UNCHANGED page
  BY <1>2 DEF Register, Login
<1>3. ASSUME NEW b \in Browsers, Logout(b) \/ SessionExpires(b)
      PROVE  UNCHANGED page \/ page' = Closed
  BY <1>3 DEF Logout, SessionExpires
<1>4. ASSUME NEW b \in Browsers, NEW p \in CredentialProvider,
             StoreCredential(b, p) \/ DeleteCredential(b, p)
      PROVE  UNCHANGED page
  BY <1>4 DEF StoreCredential, DeleteCredential
<1>5. ASSUME NEW p \in Listed, Connect(p) \/ Disconnect(p) PROVE page' = Refreshing(page)
  BY <1>5 DEF Connect, Disconnect, OnlyPage
<1>6. ASSUME NEW b \in Browsers, NEW r \in Requests, NEW k \in Kinds, Arrive(b, r, k)
      PROVE  UNCHANGED page
  BY <1>6 DEF Arrive, OnlyRequest
<1>7. ASSUME NEW r \in Requests, Step(r) \/ TaskEnds(r) \/ \E p \in CredentialProvider : TaskReads(r, p)
      PROVE  UNCHANGED page
  BY <1>7 DEF Step, Resolve, StartTask, Answer, Leave, Finalise, TaskEnds, TaskReads, OnlyRequest
<1>8. Tick => UNCHANGED page
  BY DEF Tick
<1>9. PageInv(Refreshing(page)) /\ PageInv(Closed)
  BY <1>1, RefreshingIsCurrent, ClosedIsCurrent
<1> QED BY <1>1, <1>2, <1>3, <1>4, <1>5, <1>6, <1>7, <1>8, <1>9, OpeningIsCurrent, NavigatingIsCurrent,
           RefreshAnswersAreCurrent, RefreshesShownAreCurrent, DiscoveriesAreCurrent, ShowingIsCurrent
        DEF Next

(* Every step keeps the page's lists current.                              *)
LEMMA WorkspaceKept == WorkspaceInv /\ [Next]_vars => WorkspaceInv'
<1>1. SUFFICES ASSUME WorkspaceInv, [Next]_vars PROVE WorkspaceInv'
  OBVIOUS
<1>2. RowsInv /\ RowsInv'
  BY <1>1, RowsKept DEF WorkspaceInv
<1>3. NewerRows
  BY <1>1, <1>2, RowsGetNewer
<1>4. PageInv(page')
  BY <1>1, PageSteps
<1>5. AskedOfStored(page)'
  <2>1. SUFFICES ASSUME NEW w, w = page' PROVE AskedOfStored(w)'
    BY DEF AskedOfStored
  <2>2. w \in Page /\ AskedOfStored(w)
    BY <1>4, <2>1 DEF PageInv
  <2> QED BY <1>2, <1>3, <2>2, NewerRowsKeepPage
<1> QED BY <1>2, <1>4, <1>5 DEF WorkspaceInv, PageInv, CallsAreCurrent, ShownIsCurrent, Shows

(* An answer that was asked for before a disconnection, a reconnection or  *)
(* a visit to another page is not shown as what the connection offers.     *)
THEOREM ListsStayCurrent == Spec => []ListsAreCurrent
<1>1. Init => WorkspaceInv
  BY RowsStart, ClosedIsCurrent DEF Init, WorkspaceInv
<1>2. WorkspaceInv => ListsAreCurrent
  BY DEF WorkspaceInv, PageInv, ShownIsCurrent, NotBefore, Shows, ListsAreCurrent
<1> QED BY <1>1, <1>2, WorkspaceKept, PTL DEF Spec
=============================================================================
