----------------------------- MODULE RateLimiter -----------------------------
(***************************************************************************)
(* middleware/rate_limiter.go: the limiter every limited route shares.     *)
(* A request reads the clock, THEN takes the mutex; between the two it may *)
(* wait while others enter, so the time it judges its bucket by is old.    *)
(***************************************************************************)
EXTENDS Integers, FiniteSets

CONSTANTS
  IPs,          \* client addresses, c.ClientIP()
  Workers,      \* goroutines that may be inside the middleware at once
  reqs,         \* requests allowed per window
  window,       \* length of a window, in ticks
  MaxDelay,     \* a goroutine waits at most this long for the mutex
  MaxTime,      \* how far the clock runs
  MaxCount      \* how many requests of one IP are judged

ASSUME LimiterAssumption ==
  /\ reqs \in Nat /\ window \in Nat /\ MaxDelay \in Nat
  /\ MaxTime \in Nat /\ MaxCount \in Nat

VARIABLES
  clock,        \* time.Now(), monotonic
  limits,       \* r.limits: the bucket of each IP
  at,           \* what each goroutine read from the clock, for which IP
  judged        \* history: every request judged so far, see Judgement

limiterVars == <<clock, limits, at, judged>>

Bucket   == [count : Nat, resetAt : Nat]
NoBucket == [count |-> 0, resetAt |-> -1]       \* the map has no such key
Sample   == [ip : IPs, now : Nat]
Outside  == [ip |-> "none", now |-> -1]          \* not in the middleware

\* A request the limiter has judged: the bucket it fell in, named by the time
\* the bucket was opened at, its number there, the time it had read and the
\* time it was judged at.
Judgement == [ip : IPs, opened : Nat, n : Nat \ {0}, now : Nat, when : Nat]

Admitted(j) == j.n <= reqs

Init ==
  /\ clock = 0
  /\ limits = [ip \in IPs |-> NoBucket]
  /\ at = [w \in Workers |-> Outside]
  /\ judged = {}

-----------------------------------------------------------------------------
JudgedOf(ip) == {j \in judged : j.ip = ip}

Waiting(ip) == {w \in Workers : at[w] # Outside /\ at[w].ip = ip}

\* ip := c.ClientIP(); now := time.Now()
ReadClock(w, ip) ==
  /\ at[w] = Outside
  /\ Cardinality(JudgedOf(ip)) + Cardinality(Waiting(ip)) < MaxCount
  /\ at' = [at EXCEPT ![w] = [ip |-> ip, now |-> clock]]
  /\ UNCHANGED <<clock, limits, judged>>

\* Mutant: a full bucket never counts as over.
MutExpiredNever(b, now) == b = NoBucket

\* Mutant: a window starts afresh at its last instant, and one before.
MutExpiredEarly(b, now) == b = NoBucket \/ now + 1 >= b.resetAt

\* !ok || now.After(b.resetAt)
Expired(b, now) == b = NoBucket \/ now > b.resetAt

\* Mutant: a new bucket has the request that opens it for free.
MutCountedFree(b, now) ==
  IF Expired(b, now) THEN [count |-> 0, resetAt |-> now + window]
                     ELSE [b EXCEPT !.count = @ + 1]

\* The bucket the request is counted in.
Counted(b, now) ==
  IF Expired(b, now) THEN [count |-> 1, resetAt |-> now + window]
                     ELSE [b EXCEPT !.count = @ + 1]

\* The section under r.mu, and the verdict: 429 when the count is above reqs,
\* the rest of the handler chain otherwise.
Judge(w) ==
  /\ at[w] # Outside
  /\ LET ip == at[w].ip  now == at[w].now  b == Counted(limits[ip], now) IN
       /\ limits' = [limits EXCEPT ![ip] = b]
       /\ judged' = judged \cup
            {[ip |-> ip, opened |-> b.resetAt - window, n |-> b.count,
              now |-> now, when |-> clock]}
  /\ at' = [at EXCEPT ![w] = Outside]
  /\ UNCHANGED clock

\* Time passes, but no goroutine waits for the mutex longer than MaxDelay.
Tick ==
  /\ clock < MaxTime
  /\ \A w \in Workers : at[w] # Outside => clock < at[w].now + MaxDelay
  /\ clock' = clock + 1
  /\ UNCHANGED <<limits, at, judged>>

Next ==
  \/ \E w \in Workers, ip \in IPs : ReadClock(w, ip)
  \/ \E w \in Workers : Judge(w)
  \/ Tick

Spec == Init /\ [][Next]_limiterVars

-----------------------------------------------------------------------------
\* Types: every bucket counts at least the request that opened it.
LimiterTypeOK ==
  /\ clock \in Nat
  /\ limits \in [IPs -> {NoBucket} \cup {b \in Bucket : b.count > 0 /\ b.resetAt >= window}]
  /\ at \in [Workers -> {Outside} \cup Sample]
  /\ judged \subseteq Judgement

\* The requests of ip that were let through from time t to time t + len.
AdmittedIn(ip, t, len) ==
  {j \in judged : j.ip = ip /\ Admitted(j) /\ t <= j.when /\ j.when <= t + len}

\* The burst the limiter really allows: two quotas.  Whatever the order in
\* which goroutines get the mutex, and however old the time they read, an
\* interval shorter than a window by the longest wait holds requests of two
\* buckets at most (rate_limiter.go Limit).
BurstBound ==
  \A ip \in IPs, t \in 0..clock :
    window >= MaxDelay =>
      Cardinality(AdmittedIn(ip, t, window - MaxDelay)) <= 2 * reqs

\* No request is refused for nothing, or for what other clients do: one that
\* gets 429 had a full quota of its own IP let through in the window before
\* the time it read and since (rate_limiter.go Limit).
RefusalsAreEarned ==
  \A j \in judged : ~Admitted(j) =>
    Cardinality({a \in judged : /\ a.ip = j.ip /\ Admitted(a)
                                /\ j.now - window <= a.when
                                /\ a.when <= j.when}) >= reqs

\* A bucket in the map is only ever replaced by one that ends more than a
\* window later, although the request that replaces it may have read the
\* clock before others that used the old one (rate_limiter.go Limit).
WindowsDoNotOverlap ==
  [][\A ip \in IPs :
       limits[ip] # NoBucket =>
         \/ limits'[ip].resetAt = limits[ip].resetAt
         \/ limits'[ip].resetAt > limits[ip].resetAt + window]_limiterVars

\* "RateLimiter is a per-IP token bucket limiter" (rate_limiter.go:19): a
\* bucket of reqs tokens that fills at reqs per window lets through, in any
\* len ticks, no more than reqs + reqs * len / window.
TokenBucket ==
  \A ip \in IPs, t \in 0..clock, len \in 0..window :
    Cardinality(AdmittedIn(ip, t, len)) <= reqs + (reqs * len) \div window
=============================================================================
