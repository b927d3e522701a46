-------------------------- MODULE RateLimiterProofs --------------------------
(***************************************************************************)
(* Proofs about RateLimiter, for any quota, window, longest wait, clients  *)
(* and goroutines.                                                         *)
(*                                                                         *)
(* The argument: buckets of one IP open more than a window apart, and an   *)
(* IP's requests that fell in an older bucket were all judged before the   *)
(* request that opened the newer one, which read the clock at most         *)
(* MaxDelay earlier.  So between the last request of one bucket and the    *)
(* first of the next but one there is more than window - MaxDelay.         *)
(***************************************************************************)
EXTENDS RateLimiter, FiniteSetTheorems, FunctionTheorems, TLAPS

\* When the bucket an IP has now was opened.
Opened(ip) == limits[ip].resetAt - window

\* A goroutine waiting for the mutex read the clock at most MaxDelay ago.
SamplesFresh ==
  \A w \in Workers : at[w] # Outside =>
    at[w].now <= clock /\ clock <= at[w].now + MaxDelay

\* A bucket was opened in the past.
OpenedInPast ==
  \A ip \in IPs : limits[ip] # NoBucket => Opened(ip) <= clock

\* A judged request fell in the IP's bucket or in an older one that closed
\* before; it was judged after its bucket opened and no later than MaxDelay
\* after a newer one did.
JudgedInOrder ==
  \A j \in judged :
    /\ limits[j.ip] # NoBucket
    /\ j.opened <= j.when /\ j.when <= clock
    /\ \/ j.opened = Opened(j.ip) /\ j.n <= limits[j.ip].count
       \/ j.opened + window < Opened(j.ip) /\ j.when <= Opened(j.ip) + MaxDelay

\* The same between any two judged requests of an IP.
BucketsApart ==
  \A i, j \in judged : i.ip = j.ip /\ i.opened < j.opened =>
    i.opened + window < j.opened /\ i.when <= j.opened + MaxDelay

\* Requests of one bucket are numbered apart.
NumberedApart ==
  \A i, j \in judged : i.ip = j.ip /\ i.opened = j.opened /\ i.n = j.n => i = j

LimiterInv ==
  /\ LimiterTypeOK /\ SamplesFresh /\ OpenedInPast
  /\ JudgedInOrder /\ BucketsApart /\ NumberedApart

-----------------------------------------------------------------------------
\* The sentinels are not values of the program.
LEMMA Sentinels ==
  /\ Outside \notin Sample
  /\ NoBucket \notin Bucket
BY DEF Outside, Sample, NoBucket, Bucket

\* What judging a request does to its bucket, by the two branches of the code.
LEMMA CountedCases ==
  ASSUME LimiterInv, NEW w \in Workers, Judge(w)
  PROVE  LET ip == at[w].ip  now == at[w].now  b == Counted(limits[ip], now) IN
         /\ ip \in IPs /\ now \in Nat /\ now <= clock /\ clock <= now + MaxDelay
         /\ b \in Bucket /\ b.count > 0 /\ b.resetAt >= window
         /\ \/ /\ limits[ip] = NoBucket
               /\ b.count = 1 /\ b.resetAt = now + window
            \/ /\ limits[ip] \in Bucket /\ now > limits[ip].resetAt
               /\ b.count = 1 /\ b.resetAt = now + window
            \/ /\ limits[ip] \in Bucket /\ now <= limits[ip].resetAt
               /\ b.count = limits[ip].count + 1 /\ b.resetAt = limits[ip].resetAt
<1> DEFINE ip == at[w].ip  now == at[w].now  b == Counted(limits[ip], now)
<1>1. at[w] \in Sample /\ at[w] # Outside
  BY DEF Judge, LimiterInv, LimiterTypeOK
<1>2. ip \in IPs /\ now \in Nat BY <1>1 DEF Sample
<1>3. now <= clock /\ clock <= now + MaxDelay
  BY <1>1 DEF LimiterInv, SamplesFresh
<1>4. \/ limits[ip] = NoBucket
      \/ /\ limits[ip] \in Bucket
         /\ limits[ip].count > 0 /\ limits[ip].resetAt >= window
  BY <1>2 DEF LimiterInv, LimiterTypeOK
<1>5. CASE limits[ip] = NoBucket
  BY <1>2, <1>3, <1>5, LimiterAssumption DEF Counted, Expired, Bucket
<1>6. CASE limits[ip] # NoBucket /\ now > limits[ip].resetAt
  BY <1>2, <1>3, <1>4, <1>6, LimiterAssumption DEF Counted, Expired, Bucket
<1>7. CASE limits[ip] # NoBucket /\ ~(now > limits[ip].resetAt)
  BY <1>2, <1>3, <1>4, <1>7, LimiterAssumption DEF Counted, Expired, Bucket
<1> QED BY <1>5, <1>6, <1>7

\* Judging a request keeps the invariant.
LEMMA JudgeInv ==
  ASSUME LimiterInv, NEW w \in Workers, Judge(w)
  PROVE  LimiterInv'
<1> DEFINE ip == at[w].ip
           now == at[w].now
           b == Counted(limits[ip], now)
           new == [ip |-> ip, opened |-> b.resetAt - window, n |-> b.count,
                   now |-> now, when |-> clock]
<1> HIDE DEF b
<1>1. /\ ip \in IPs /\ now \in Nat /\ now <= clock /\ clock <= now + MaxDelay
      /\ b \in Bucket /\ b.count > 0 /\ b.resetAt >= window
      /\ \/ /\ limits[ip] = NoBucket
            /\ b.count = 1 /\ b.resetAt = now + window
         \/ /\ limits[ip] \in Bucket /\ now > limits[ip].resetAt
            /\ b.count = 1 /\ b.resetAt = now + window
         \/ /\ limits[ip] \in Bucket /\ now <= limits[ip].resetAt
            /\ b.count = limits[ip].count + 1 /\ b.resetAt = limits[ip].resetAt
  BY CountedCases DEF b
<1>2. /\ limits' = [limits EXCEPT ![ip] = b]
      /\ judged' = judged \cup {new}
      /\ at' = [at EXCEPT ![w] = Outside]
      /\ clock' = clock
  BY DEF Judge, b
<1>3. /\ clock \in Nat /\ judged \subseteq Judgement
      /\ limits \in [IPs -> {NoBucket} \cup {x \in Bucket : x.count > 0 /\ x.resetAt >= window}]
      /\ at \in [Workers -> {Outside} \cup Sample]
  BY DEF LimiterInv, LimiterTypeOK
<1>4. new \in Judgement
  BY <1>1, <1>3, LimiterAssumption DEF Judgement, Bucket
<1>5. limits'[ip] = b /\ \A i \in IPs : i # ip => limits'[i] = limits[i]
  BY <1>1, <1>2, <1>3
<1>6. b # NoBucket BY <1>1, Sentinels
<1>7. LimiterTypeOK'
  <2>1. limits' \in [IPs -> {NoBucket} \cup {x \in Bucket : x.count > 0 /\ x.resetAt >= window}]
    BY <1>1, <1>2, <1>3
  <2>2. at' \in [Workers -> {Outside} \cup Sample] BY <1>2, <1>3
  <2> QED BY <1>2, <1>3, <1>4, <2>1, <2>2 DEF LimiterTypeOK
<1>8. SamplesFresh'
  BY <1>2, <1>3 DEF LimiterInv, SamplesFresh
<1>9. b.resetAt - window <= clock
  BY <1>1, <1>3, Sentinels, LimiterAssumption
  DEF LimiterInv, OpenedInPast, Opened, Bucket
<1>10. OpenedInPast'
  BY <1>2, <1>5, <1>9 DEF LimiterInv, OpenedInPast, Opened
\* An earlier request of the same IP, against the bucket there is now.
<1>11. ASSUME NEW j \in judged, j.ip = ip
       PROVE  \/ j.opened = b.resetAt - window /\ j.n < b.count
              \/ /\ j.opened + window < b.resetAt - window
                 /\ j.when <= (b.resetAt - window) + MaxDelay
  <2>1. /\ j.opened \in Nat /\ j.when \in Nat /\ j.n \in Nat
        /\ limits[ip] \in Bucket
        /\ j.when <= clock
        /\ \/ j.opened = Opened(ip) /\ j.n <= limits[ip].count
           \/ j.opened + window < Opened(ip) /\ j.when <= Opened(ip) + MaxDelay
    BY <1>1, <1>3, <1>11 DEF LimiterInv, JudgedInOrder, Judgement
  <2> QED
    BY <1>1, <1>3, <2>1, Sentinels, LimiterAssumption DEF Opened, Bucket
<1>12. JudgedInOrder'
  <2> SUFFICES ASSUME NEW j \in judged'
               PROVE  /\ limits'[j.ip] # NoBucket
                      /\ j.opened <= j.when /\ j.when <= clock
                      /\ \/ j.opened = Opened(j.ip)' /\ j.n <= limits'[j.ip].count
                         \/ /\ j.opened + window < Opened(j.ip)'
                            /\ j.when <= Opened(j.ip)' + MaxDelay
    BY <1>2 DEF JudgedInOrder
  <2>1. CASE j = new
    BY <1>1, <1>3, <1>5, <1>6, <1>9, <2>1 DEF Opened, Bucket
  <2>2. CASE j \in judged /\ j.ip = ip
    <3>1. /\ j.opened <= j.when /\ j.when <= clock /\ j.n \in Nat
      BY <1>3, <2>2 DEF LimiterInv, JudgedInOrder, Judgement
    <3>2. Opened(j.ip)' = b.resetAt - window /\ limits'[j.ip].count = b.count
      BY <1>5, <2>2 DEF Opened
    <3> QED BY <1>1, <1>5, <1>6, <1>11, <2>2, <3>1, <3>2 DEF Bucket
  <2>3. CASE j \in judged /\ j.ip # ip
    <3>1. limits'[j.ip] = limits[j.ip] BY <1>3, <1>5, <2>3 DEF Judgement
    <3> QED BY <2>3, <3>1 DEF LimiterInv, JudgedInOrder, Opened
  <2> QED BY <1>2, <2>1, <2>2, <2>3
<1>13. BucketsApart'
  <2> SUFFICES ASSUME NEW i \in judged', NEW j \in judged',
                      i.ip = j.ip, i.opened < j.opened
               PROVE  i.opened + window < j.opened /\ i.when <= j.opened + MaxDelay
    BY DEF BucketsApart
  <2>1. CASE i \in judged /\ j \in judged
    BY <2>1 DEF LimiterInv, BucketsApart
  <2>2. CASE i \in judged /\ j = new
    BY <1>1, <1>3, <1>11, <2>2, LimiterAssumption DEF Judgement, Bucket
  <2>3. CASE i = new
    <3>1. j \in judged => j.opened <= b.resetAt - window
      BY <1>1, <1>3, <1>11, <2>3, LimiterAssumption DEF Judgement, Bucket
    <3> QED BY <1>1, <1>2, <1>3, <2>3, <3>1, LimiterAssumption DEF Judgement, Bucket
  <2> QED BY <1>2, <2>1, <2>2, <2>3
<1>14. NumberedApart'
  <2> SUFFICES ASSUME NEW i \in judged', NEW j \in judged',
                      i.ip = j.ip, i.opened = j.opened, i.n = j.n
               PROVE  i = j
    BY DEF NumberedApart
  <2>1. ASSUME NEW k \in judged, k.ip = ip, k.opened = b.resetAt - window, k.n = b.count
        PROVE  FALSE
    BY <1>1, <1>3, <1>11, <2>1, LimiterAssumption DEF Judgement, Bucket
  <2> QED BY <1>2, <2>1 DEF LimiterInv, NumberedApart
<1> QED
  BY <1>7, <1>8, <1>10, <1>12, <1>13, <1>14 DEF LimiterInv

\* The invariant holds of the empty map.
LEMMA LimiterInitInv == Init => LimiterInv
BY LimiterAssumption
DEF Init, LimiterInv, LimiterTypeOK, SamplesFresh, OpenedInPast, JudgedInOrder,
    BucketsApart, NumberedApart

\* Every step keeps the invariant.
LEMMA LimiterNextInv ==
  ASSUME LimiterInv, [Next]_limiterVars
  PROVE  LimiterInv'
<1> USE DEF LimiterInv
<1>1. CASE UNCHANGED limiterVars
  BY <1>1 DEF limiterVars, LimiterTypeOK, SamplesFresh, OpenedInPast,
    JudgedInOrder, BucketsApart, NumberedApart, Opened
<1>2. ASSUME NEW w \in Workers, NEW ip \in IPs, ReadClock(w, ip) PROVE LimiterInv'
  <2>1. LimiterTypeOK'
    BY <1>2 DEF ReadClock, LimiterTypeOK, Sample
  <2>2. SamplesFresh'
    BY <1>2, LimiterAssumption DEF ReadClock, SamplesFresh, LimiterTypeOK
  <2>3. OpenedInPast' /\ JudgedInOrder' /\ BucketsApart' /\ NumberedApart'
    BY <1>2 DEF ReadClock, OpenedInPast, JudgedInOrder, BucketsApart,
      NumberedApart, Opened
  <2> QED BY <2>1, <2>2, <2>3
<1>3. ASSUME NEW w \in Workers, Judge(w) PROVE LimiterInv'
  BY <1>3, JudgeInv
<1>4. CASE Tick
  <2>1. LimiterTypeOK' BY <1>4 DEF Tick, LimiterTypeOK
  <2>2. SamplesFresh'
    <3> SUFFICES ASSUME NEW w \in Workers, at[w] # Outside
                 PROVE  at[w].now <= clock + 1 /\ clock + 1 <= at[w].now + MaxDelay
      BY <1>4 DEF Tick, SamplesFresh
    <3>1. at[w] \in Sample BY DEF LimiterTypeOK
    <3> QED BY <1>4, <3>1, LimiterAssumption DEF Tick, SamplesFresh, LimiterTypeOK, Sample
  <2>3. OpenedInPast'
    <3> SUFFICES ASSUME NEW ip \in IPs, limits[ip] # NoBucket
                 PROVE  limits[ip].resetAt - window <= clock + 1
      BY <1>4 DEF Tick, OpenedInPast, Opened
    <3>1. limits[ip] \in Bucket BY DEF LimiterTypeOK
    <3> QED BY <3>1, LimiterAssumption DEF OpenedInPast, Opened, LimiterTypeOK, Bucket
  <2>4. JudgedInOrder'
    <3> SUFFICES ASSUME NEW j \in judged PROVE j.when <= clock + 1
      BY <1>4 DEF Tick, JudgedInOrder, Opened
    <3> QED BY DEF JudgedInOrder, LimiterTypeOK, Judgement
  <2>5. BucketsApart' /\ NumberedApart' BY <1>4 DEF Tick, BucketsApart, NumberedApart
  <2> QED BY <2>1, <2>2, <2>3, <2>4, <2>5
<1> QED BY <1>1, <1>2, <1>3, <1>4 DEF Next

\* The invariant holds for ever.
LEMMA LimiterInvariant == Spec => []LimiterInv
BY LimiterInitInv, LimiterNextInv, PTL DEF Spec

-----------------------------------------------------------------------------
\* Requests of three buckets of an IP never fall in an interval shorter than
\* a window by the longest wait.
LEMMA NoThreeBuckets ==
  ASSUME LimiterInv, NEW ip \in IPs, NEW t \in Nat, window >= MaxDelay,
         NEW x \in AdmittedIn(ip, t, window - MaxDelay),
         NEW y \in AdmittedIn(ip, t, window - MaxDelay),
         NEW z \in AdmittedIn(ip, t, window - MaxDelay)
  PROVE  ~(x.opened < y.opened /\ y.opened < z.opened)
<1>1. /\ x \in judged /\ y \in judged /\ z \in judged
      /\ x.ip = ip /\ y.ip = ip /\ z.ip = ip
      /\ t <= x.when /\ z.when <= t + (window - MaxDelay)
  BY DEF AdmittedIn
<1>2. /\ x.opened \in Nat /\ y.opened \in Nat /\ z.opened \in Nat
      /\ x.when \in Nat /\ z.when \in Nat
  BY <1>1 DEF LimiterInv, LimiterTypeOK, Judgement
<1>3. z.opened <= z.when BY <1>1 DEF LimiterInv, JudgedInOrder
<1>4. x.opened < y.opened => x.when <= y.opened + MaxDelay
  BY <1>1 DEF LimiterInv, BucketsApart
<1>5. y.opened < z.opened => y.opened + window < z.opened
  BY <1>1 DEF LimiterInv, BucketsApart
<1> QED BY <1>1, <1>2, <1>3, <1>4, <1>5, LimiterAssumption

\* The bound follows from the invariant: an interval that short meets the
\* requests of two buckets at most.
LEMMA BurstStep == LimiterInv => BurstBound
<1> SUFFICES ASSUME LimiterInv, NEW ip \in IPs, NEW t \in 0..clock, window >= MaxDelay
             PROVE  Cardinality(AdmittedIn(ip, t, window - MaxDelay)) <= 2 * reqs
  BY DEF BurstBound
<1> DEFINE S == AdmittedIn(ip, t, window - MaxDelay)
<1>0. t \in Nat BY DEF LimiterInv, LimiterTypeOK
<1>1. \A j \in S : /\ j \in judged /\ j.ip = ip
                   /\ j.opened \in Nat /\ j.n \in 1..reqs
  BY LimiterAssumption
  DEF AdmittedIn, Admitted, LimiterInv, LimiterTypeOK, Judgement
<1>2. \A x, y, z \in S : ~(x.opened < y.opened /\ y.opened < z.opened)
  BY <1>0, NoThreeBuckets
<1> HIDE DEF S
<1>3. PICK g \in Nat, h \in Nat : \A j \in S : j.opened \in {g, h}
  <2>1. CASE \E x, y \in S : x.opened < y.opened
    <3>1. PICK x \in S, y \in S : x.opened < y.opened BY <2>1
    <3>2. \A j \in S : j.opened \in {x.opened, y.opened}
      BY <1>1, <1>2, <3>1
    <3> QED BY <1>1, <3>2
  <2>2. CASE ~\E x, y \in S : x.opened < y.opened
    <3>1. \A x, y \in S : x.opened = y.opened BY <1>1, <2>2
    <3>2. CASE S = {} BY <3>2
    <3>3. CASE S # {}
      <4>1. PICK x \in S : TRUE BY <3>3
      <4> QED BY <1>1, <3>1, <4>1
    <3> QED BY <3>2, <3>3
  <2> QED BY <2>1, <2>2
<1> DEFINE f == [j \in S |-> IF j.opened = g THEN j.n ELSE reqs + j.n]
<1>4. f \in [S -> 1..(2 * reqs)] BY <1>1, LimiterAssumption
<1>5. \A i, j \in S : f[i] = f[j] => i = j
  <2> SUFFICES ASSUME NEW i \in S, NEW j \in S, f[i] = f[j] PROVE i = j
    OBVIOUS
  <2>1. i.opened = j.opened /\ i.n = j.n BY <1>1, <1>3, LimiterAssumption
  <2> QED BY <1>1, <2>1 DEF LimiterInv, NumberedApart
<1>6. f \in Injection(S, 1..(2 * reqs)) BY <1>4, <1>5, Fun_IsInj
<1>7. IsFiniteSet(1..(2 * reqs)) /\ Cardinality(1..(2 * reqs)) = 2 * reqs
  BY FS_Interval, LimiterAssumption
<1> HIDE DEF f
<1>8. Cardinality(S) <= Cardinality(1..(2 * reqs)) BY <1>6, <1>7, FS_Injection
<1> QED BY <1>7, <1>8 DEF S

\* However goroutines interleave, no client gets more than two quotas through
\* in an interval shorter than a window by the longest wait.
THEOREM BurstIsBounded == Spec => []BurstBound
BY LimiterInvariant, BurstStep, PTL

\* The types of the limiter's state hold always.
THEOREM LimiterTypeCorrect == Spec => []LimiterTypeOK
BY LimiterInvariant, PTL DEF LimiterInv

\* A step that replaces a bucket replaces it by one of a later window.
LEMMA WindowStep ==
  ASSUME LimiterInv, [Next]_limiterVars
  PROVE  [\A ip \in IPs :
            limits[ip] # NoBucket =>
              \/ limits'[ip].resetAt = limits[ip].resetAt
              \/ limits'[ip].resetAt > limits[ip].resetAt + window]_limiterVars
<1> SUFFICES ASSUME NEW ip \in IPs, limits[ip] # NoBucket
             PROVE  \/ limits'[ip].resetAt = limits[ip].resetAt
                    \/ limits'[ip].resetAt > limits[ip].resetAt + window
  OBVIOUS
<1>1. CASE UNCHANGED limits BY <1>1
<1>2. ASSUME NEW w \in Workers, Judge(w)
      PROVE  \/ limits'[ip].resetAt = limits[ip].resetAt
             \/ limits'[ip].resetAt > limits[ip].resetAt + window
  <2> DEFINE now == at[w].now  b == Counted(limits[at[w].ip], now)
  <2> HIDE DEF b
  <2>1. limits' = [limits EXCEPT ![at[w].ip] = b] BY <1>2 DEF Judge, b
  <2>2. limits \in [IPs -> {NoBucket} \cup {x \in Bucket : x.count > 0 /\ x.resetAt >= window}]
    BY DEF LimiterInv, LimiterTypeOK
  <2>3. CASE ip # at[w].ip BY <2>1, <2>2, <2>3
  <2>4. CASE ip = at[w].ip
    <3>1. limits'[ip] = b BY <2>1, <2>2, <2>4
    <3>2. /\ now \in Nat /\ limits[ip] \in Bucket
          /\ \/ now > limits[ip].resetAt /\ b.resetAt = now + window
             \/ b.resetAt = limits[ip].resetAt
      BY <1>2, <2>4, CountedCases, Sentinels DEF b
    <3> QED BY <3>1, <3>2, LimiterAssumption DEF Bucket
  <2> QED BY <2>3, <2>4
<1>3. CASE Tick BY <1>3 DEF Tick
<1>4. ASSUME NEW w \in Workers, NEW i \in IPs, ReadClock(w, i) PROVE UNCHANGED limits
  BY <1>4 DEF ReadClock
<1>5. CASE UNCHANGED limiterVars BY <1>5 DEF limiterVars
<1> QED BY <1>1, <1>2, <1>3, <1>4, <1>5 DEF Next

\* A bucket is replaced only by one that ends more than a window later.
THEOREM WindowsAdvance == Spec => WindowsDoNotOverlap
BY LimiterInvariant, WindowStep, PTL DEF Spec, WindowsDoNotOverlap

-----------------------------------------------------------------------------
(***************************************************************************)
(* Refusals.  The requests of a bucket are numbered without a gap, each    *)
(* judged no later than the ones with higher numbers, and none by a time   *)
(* beyond the bucket's end.                                                *)
(***************************************************************************)
Before(j, k) == \E i \in judged : i.ip = j.ip /\ i.opened = j.opened
                                  /\ i.n = k /\ i.when <= j.when

EarnedInv ==
  /\ LimiterInv
  /\ IsFiniteSet(judged)
  /\ \A ip \in IPs : limits[ip] # NoBucket =>
       \A k \in 1..limits[ip].count :
         \E i \in judged : i.ip = ip /\ i.opened = Opened(ip) /\ i.n = k
  /\ \A j \in judged : j.now <= j.opened + window /\ \A k \in 1..j.n : Before(j, k)

\* Judging a request continues the numbering.
LEMMA EarnedJudge ==
  ASSUME EarnedInv, NEW w \in Workers, Judge(w)
  PROVE  EarnedInv'
<1> DEFINE ip == at[w].ip
           now == at[w].now
           b == Counted(limits[ip], now)
           new == [ip |-> ip, opened |-> b.resetAt - window, n |-> b.count,
                   now |-> now, when |-> clock]
<1> HIDE DEF b
<1>0. LimiterInv /\ LimiterInv' BY JudgeInv DEF EarnedInv
<1>1. /\ ip \in IPs /\ now \in Nat
      /\ b \in Bucket /\ b.count > 0
      /\ \/ /\ limits[ip] = NoBucket
            /\ b.count = 1 /\ b.resetAt = now + window
         \/ /\ limits[ip] \in Bucket /\ now > limits[ip].resetAt
            /\ b.count = 1 /\ b.resetAt = now + window
         \/ /\ limits[ip] \in Bucket /\ now <= limits[ip].resetAt
            /\ b.count = limits[ip].count + 1 /\ b.resetAt = limits[ip].resetAt
  BY <1>0, CountedCases DEF b
<1>2. limits' = [limits EXCEPT ![ip] = b] /\ judged' = judged \cup {new}
  BY DEF Judge, b
<1>3. /\ limits'[ip] = b /\ \A i \in IPs : i # ip => limits'[i] = limits[i]
      /\ \A j \in judged : j.when <= clock /\ j.n \in Nat
  BY <1>0, <1>1, <1>2
  DEF LimiterInv, LimiterTypeOK, JudgedInOrder, Judgement
<1>4. new \in judged' /\ judged \subseteq judged' BY <1>2
\* The earlier numbers of the bucket the request falls in.
<1>5. ASSUME NEW k \in 1..b.count
      PROVE  \E i \in judged' : /\ i.ip = ip /\ i.opened = b.resetAt - window
                                /\ i.n = k /\ i.when <= clock
  <2>1. CASE k = b.count
    <3>1. clock <= clock BY <1>0 DEF LimiterInv, LimiterTypeOK
    <3> QED BY <1>4, <2>1, <3>1
  <2>2. CASE k # b.count
    <3>1. /\ limits[ip] # NoBucket /\ k \in 1..limits[ip].count
          /\ Opened(ip) = b.resetAt - window
      BY <1>1, <2>2, Sentinels DEF Opened, Bucket
    <3>2. PICK i \in judged : i.ip = ip /\ i.opened = Opened(ip) /\ i.n = k
      BY <1>1, <3>1 DEF EarnedInv
    <3> QED BY <1>3, <1>4, <3>1, <3>2
  <2> QED BY <2>1, <2>2
<1>6. IsFiniteSet(judged') BY <1>2, FS_AddElement DEF EarnedInv
<1>7. ASSUME NEW i \in IPs, limits'[i] # NoBucket, NEW k \in 1..limits'[i].count
      PROVE  \E j \in judged' : j.ip = i /\ j.opened = Opened(i)' /\ j.n = k
  <2>1. CASE i = ip BY <1>3, <1>5, <1>7, <2>1 DEF Opened
  <2>2. CASE i # ip BY <1>3, <1>4, <1>7, <2>2 DEF EarnedInv, Opened
  <2> QED BY <2>1, <2>2
<1>8. ASSUME NEW j \in judged'
      PROVE  j.now <= j.opened + window /\ \A k \in 1..j.n : Before(j, k)'
  <2>1. CASE j \in judged BY <1>4, <2>1 DEF EarnedInv, Before
  <2>2. CASE j = new
    <3>1. now <= (b.resetAt - window) + window
      BY <1>1, LimiterAssumption DEF Bucket
    <3> QED BY <1>5, <2>2, <3>1 DEF Before
  <2> QED BY <1>2, <2>1, <2>2
<1> QED BY <1>0, <1>6, <1>7, <1>8 DEF EarnedInv

LEMMA EarnedInvariant == Spec => []EarnedInv
<1>1. Init => EarnedInv
  BY LimiterInitInv, FS_EmptySet DEF Init, EarnedInv
<1>2. ASSUME EarnedInv, [Next]_limiterVars PROVE EarnedInv'
  <2>1. LimiterInv' BY <1>2, LimiterNextInv DEF EarnedInv
  <2>2. ASSUME NEW w \in Workers, Judge(w) PROVE EarnedInv'
    BY <1>2, <2>2, EarnedJudge
  <2>3. CASE UNCHANGED <<limits, judged>>
    BY <1>2, <2>1, <2>3 DEF EarnedInv, Before, Opened
  <2> QED BY <1>2, <2>2, <2>3 DEF Next, ReadClock, Tick, limiterVars
<1> QED BY <1>1, <1>2, PTL DEF Spec

\* Whoever is refused had a full quota of its own requests let through in the
\* window before the time it read and since, whatever other clients do.
THEOREM RefusalsEarned == Spec => []RefusalsAreEarned
<1>1. ASSUME EarnedInv, NEW j \in judged, ~Admitted(j)
      PROVE  Cardinality({a \in judged : /\ a.ip = j.ip /\ Admitted(a)
                                         /\ j.now - window <= a.when
                                         /\ a.when <= j.when}) >= reqs
  <2> DEFINE S == {a \in judged : /\ a.ip = j.ip /\ Admitted(a)
                                  /\ j.now - window <= a.when /\ a.when <= j.when}
             f == [k \in 1..reqs |-> CHOOSE i \in S : i.n = k]
  <2>0. LimiterInv /\ judged \subseteq Judgement
    BY <1>1 DEF EarnedInv, LimiterInv, LimiterTypeOK
  <2>1. ASSUME NEW k \in 1..reqs PROVE \E i \in S : i.n = k
    <3>1. k \in 1..j.n
      BY <1>1, <2>0, LimiterAssumption DEF Admitted, Judgement
    <3>2. PICK i \in judged : /\ i.ip = j.ip /\ i.opened = j.opened
                              /\ i.n = k /\ i.when <= j.when
      BY <1>1, <3>1 DEF EarnedInv, Before
    <3>3. i.opened <= i.when /\ j.now <= j.opened + window
      BY <1>1, <2>0 DEF EarnedInv, LimiterInv, JudgedInOrder
    <3>4. j.now - window <= i.when
      BY <2>0, <3>2, <3>3, LimiterAssumption DEF Judgement
    <3> QED BY <3>2, <3>4, LimiterAssumption DEF Admitted
  <2>2. IsFiniteSet(S) BY <1>1, FS_Subset DEF EarnedInv
  <2> HIDE DEF S
  <2>3. \A k \in 1..reqs : f[k] \in S /\ f[k].n = k BY <2>1
  <2>4. f \in [1..reqs -> S] BY <2>3
  <2> HIDE DEF f
  <2>5. \A k, m \in 1..reqs : f[k] = f[m] => k = m BY <2>3
  <2>6. f \in Injection(1..reqs, S) BY <2>4, <2>5, Fun_IsInj
  <2>7. Cardinality(1..reqs) = reqs BY FS_Interval, LimiterAssumption
  <2>8. Cardinality(1..reqs) <= Cardinality(S) BY <2>2, <2>6, FS_Injection
  <2>9. Cardinality(S) \in Nat BY <2>2, FS_CardinalityType
  <2>10. Cardinality(S) >= reqs BY <2>7, <2>8, <2>9, LimiterAssumption
  <2> QED BY <2>10 DEF S
<1>2. EarnedInv => RefusalsAreEarned BY <1>1 DEF RefusalsAreEarned
<1> QED BY <1>2, EarnedInvariant, PTL
=============================================================================
