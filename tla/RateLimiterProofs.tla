---------------------------- MODULE RateLimiterProofs ----------------------------
(***************************************************************************)
(* Theorems about RateLimiter and their proofs.                            *)
(***************************************************************************)
EXTENDS RateLimiter, FiniteSetTheorems, WellFoundedInduction, TLAPS

-------------------------------------------------------------------------------
(* Logs                                                                    *)

Less == {e \in Nat \X Nat : e[1] < e[2]}

\* A set of natural numbers that is not empty has a least element.
LEMMA LeastNatural ==
  ASSUME NEW T \in SUBSET Nat, T # {}
  PROVE  \E n \in T : \A m \in T : n <= m
<1>1. IsWellFoundedOn(OpToRel(<, Nat), Nat)
  BY NatLessThanWellFounded
<1>2. IsWellFoundedOn(Less, Nat)
  BY <1>1 DEF OpToRel, Less
<1>3. PICK n \in T : \A m \in T : ~ (<<m, n>> \in Less)
  BY <1>2, WFMin
<1>4. \A m \in T : m \in Nat /\ ~ (m < n)
  BY <1>3 DEF Less
<1>5. QED
  BY <1>4

\* Timestamps in the order in which they were taken.
Ordered(log) == \A m, n \in 1..Len(log) : m <= n => log[m] <= log[n]

\* What After leaves of an ordered log: the timestamps after t, all of them and
\* no others.
LEMMA AfterIsTail ==
  ASSUME NEW log \in Seq(Nat), Ordered(log), NEW t \in Int
  PROVE  \E d \in 0..Len(log) :
           /\ After(log, t) = SubSeq(log, d + 1, Len(log))
           /\ \A m \in 1..d : log[m] <= t
           /\ \A m \in (d + 1)..Len(log) : log[m] > t
<1>1. PICK T : T = {n \in 1..Len(log) + 1 : n <= Len(log) => log[n] > t}
  OBVIOUS
<1>2. Len(log) + 1 \in T /\ T \subseteq Nat
  BY <1>1
<1>3. PICK n \in T : \A m \in T : n <= m
  BY <1>2, LeastNatural
<1>4. \A m \in 1..(n - 1) : log[m] <= t
  <2>1. ASSUME NEW m \in 1..(n - 1)
        PROVE  log[m] <= t
    <3>1. m \in 1..Len(log) + 1 /\ m \notin T /\ n \in 1..Len(log) + 1
      BY <1>1, <1>3
    <3>2. m \in 1..Len(log) /\ ~ (log[m] > t)
      BY <1>1, <3>1
    <3>3. QED
      BY <3>2
  <2>2. QED
    BY <2>1
<1>5. PICK first : first = CHOOSE i \in 1..Len(log) + 1 :
        /\ \A m \in 1..(i - 1) : log[m] <= t
        /\ i <= Len(log) => log[i] > t
  OBVIOUS
<1>6. /\ first \in 1..Len(log) + 1
      /\ \A m \in 1..(first - 1) : log[m] <= t
      /\ first <= Len(log) => log[first] > t
  BY <1>1, <1>3, <1>4, <1>5
<1>7. After(log, t) = SubSeq(log, first, Len(log))
  BY <1>5 DEF After
<1>8. ASSUME NEW m \in first..Len(log)
      PROVE  log[m] > t
  <2>1. first \in 1..Len(log) /\ m \in 1..Len(log) /\ log[first] <= log[m] /\ log[first] > t
    BY <1>6 DEF Ordered
  <2>2. log[first] \in Nat /\ log[m] \in Nat
    BY <2>1
  <2>3. QED
    BY <2>1, <2>2
<1>9. PICK d : d = first - 1
  OBVIOUS
<1>10. d \in 0..Len(log) /\ first = d + 1
  BY <1>6, <1>9
<1>11. QED
  BY <1>6, <1>7, <1>8, <1>10

\* s holds the newest timestamps of g, and misses none that is after t.
Shows(s, g, t) ==
  /\ s \in Seq(Nat) /\ Len(s) <= Len(g)
  /\ \A n \in 1..Len(s) : s[n] = g[Len(g) - Len(s) + n]
  /\ \A n \in 1..(Len(g) - Len(s)) : g[n] <= t

\* It holds those after t and no others.
Exact(s, g, t) == Shows(s, g, t) /\ \A n \in 1..Len(s) : s[n] > t

\* Whatever was trimmed before, After leaves what it leaves of the whole.
LEMMA AfterOfTail ==
  ASSUME NEW g \in Seq(Nat), Ordered(g), NEW t \in Int, NEW s, Shows(s, g, t)
  PROVE  /\ Exact(After(s, t), g, t)
         /\ Len(After(s, t)) <= Len(s)
         /\ \A n \in 1..Len(After(s, t)) :
              After(s, t)[n] = s[Len(s) - Len(After(s, t)) + n]
<1>1. s \in Seq(Nat) /\ Len(s) \in Nat /\ Len(g) \in Nat /\ Len(s) <= Len(g)
  BY DEF Shows
<1>2. Ordered(s)
  <2>1. ASSUME NEW m \in 1..Len(s), NEW n \in 1..Len(s), m <= n
        PROVE  s[m] <= s[n]
    <3>1. PICK i, j : i = Len(g) - Len(s) + m /\ j = Len(g) - Len(s) + n
      OBVIOUS
    <3>2. i \in 1..Len(g) /\ j \in 1..Len(g) /\ i <= j
      BY <1>1, <2>1, <3>1
    <3>3. s[m] = g[i] /\ s[n] = g[j]
      BY <3>1 DEF Shows
    <3>4. QED
      BY <3>2, <3>3 DEF Ordered
  <2>2. QED
    BY <2>1 DEF Ordered
<1>3. PICK d \in 0..Len(s) :
        /\ After(s, t) = SubSeq(s, d + 1, Len(s))
        /\ \A m \in 1..d : s[m] <= t
        /\ \A m \in (d + 1)..Len(s) : s[m] > t
  BY <1>1, <1>2, AfterIsTail
<1>4. PICK a : a = After(s, t)
  OBVIOUS
<1>5. /\ a \in Seq(Nat) /\ Len(a) = Len(s) - d
      /\ \A n \in 1..Len(a) : a[n] = s[d + n]
  <2>1. a = SubSeq(s, d + 1, Len(s)) /\ d \in 0..Len(s)
    BY <1>3, <1>4
  <2>2. d + 1 \in 1..Len(s) + 1 /\ Len(s) \in d..Len(s)
    BY <1>1, <2>1
  <2>3. a \in Seq(Nat) /\ Len(a) = Len(s) - d
    BY <1>1, <2>1, <2>2
  <2>4. ASSUME NEW n \in 1..Len(a)
        PROVE  a[n] = s[d + n]
    BY <1>1, <2>1, <2>3
  <2>5. QED
    BY <2>3, <2>4
<1>6. \A n \in 1..Len(a) : a[n] = g[Len(g) - Len(a) + n] /\ a[n] > t
  <2>1. ASSUME NEW n \in 1..Len(a)
        PROVE  a[n] = g[Len(g) - Len(a) + n] /\ a[n] > t
    <3>1. PICK m : m = d + n
      OBVIOUS
    <3>2. /\ m \in 1..Len(s) /\ m \in (d + 1)..Len(s) /\ a[n] = s[m]
          /\ Len(g) - Len(s) + m = Len(g) - Len(a) + n
      BY <1>1, <1>5, <3>1
    <3>3. s[m] = g[Len(g) - Len(s) + m] /\ s[m] > t
      BY <1>3, <3>2 DEF Shows
    <3>4. QED
      BY <3>2, <3>3
  <2>2. QED
    BY <2>1
<1>7. ASSUME NEW n \in 1..(Len(g) - Len(a))
      PROVE  g[n] <= t
  <2>1. CASE n \in 1..(Len(g) - Len(s))
    BY <2>1 DEF Shows
  <2>2. CASE n > Len(g) - Len(s)
    <3>1. PICK m : m = n - (Len(g) - Len(s))
      OBVIOUS
    <3>2. m \in 1..d /\ m \in 1..Len(s) /\ n = Len(g) - Len(s) + m
      <4>1. PICK i, j \in Nat : i = Len(g) /\ j = Len(s)
        BY <1>1
      <4>2. n \in 1..(i - (j - d)) /\ d \in 0..j
        BY <1>5, <4>1
      <4>3. n > i - j /\ m = n - (i - j) /\ j <= i
        BY <1>1, <2>2, <3>1, <4>1
      <4>4. m \in 1..d /\ m \in 1..j /\ n = i - j + m
        BY <4>2, <4>3
      <4>5. QED
        BY <4>1, <4>4
    <3>3. s[m] = g[n] /\ s[m] <= t
      BY <1>3, <3>2 DEF Shows
    <3>4. QED
      BY <3>3
  <2>3. n \in 1..(Len(g) - Len(s)) \/ n > Len(g) - Len(s)
    BY <1>1
  <2>4. QED
    BY <2>1, <2>2, <2>3
<1>8. Len(a) <= Len(s) /\ Len(a) \in Nat /\ d = Len(s) - Len(a)
  BY <1>1, <1>5
<1>9. Exact(a, g, t)
  BY <1>1, <1>5, <1>6, <1>7, <1>8 DEF Exact, Shows
<1>10. QED
  BY <1>4, <1>5, <1>8, <1>9

\* What holds part of a log in order is in order, and of the same times.
LEMMA ShownInOrder ==
  ASSUME NEW c \in Nat, NEW g \in Seq(0..c), Ordered(g), NEW t \in Int, NEW s, Shows(s, g, t)
  PROVE  s \in Seq(0..c) /\ Ordered(s)
<1>1. s \in Seq(Nat) /\ Len(s) \in Nat /\ Len(g) \in Nat /\ Len(s) <= Len(g)
  BY DEF Shows
<1>2. ASSUME NEW m \in 1..Len(s)
      PROVE  Len(g) - Len(s) + m \in 1..Len(g) /\ s[m] = g[Len(g) - Len(s) + m] /\ s[m] \in 0..c
  <2>1. PICK i : i = Len(g) - Len(s) + m
    OBVIOUS
  <2>2. i \in 1..Len(g) /\ s[m] = g[i]
    BY <1>1, <2>1 DEF Shows
  <2>3. g[i] \in 0..c
    BY <2>2
  <2>4. QED
    BY <2>1, <2>2, <2>3
<1>3. Ordered(s)
  <2>1. ASSUME NEW m \in 1..Len(s), NEW n \in 1..Len(s), m <= n
        PROVE  s[m] <= s[n]
    <3>1. Len(g) - Len(s) + m <= Len(g) - Len(s) + n
      BY <1>1, <2>1
    <3>2. QED
      BY <1>2, <3>1 DEF Ordered
  <2>2. QED
    BY <2>1 DEF Ordered
<1>4. s \in Seq(0..c)
  <2>1. s \in [1..Len(s) -> Nat]
    BY <1>1
  <2>2. s \in [1..Len(s) -> 0..c]
    BY <1>2, <2>1
  <2>3. QED
    BY <1>1, <2>2
<1>5. QED
  BY <1>3, <1>4

\* As time passes, what was shown is still shown.
LEMMA ShownLater ==
  ASSUME NEW g \in Seq(Nat), NEW t \in Int, NEW u \in Int, t <= u, NEW s, Shows(s, g, t)
  PROVE  Shows(s, g, u)
<1>1. Len(s) \in Nat /\ Len(g) \in Nat /\ Len(s) <= Len(g)
  BY DEF Shows
<1>2. ASSUME NEW n \in 1..(Len(g) - Len(s))
      PROVE  g[n] <= u
  <2>1. n \in 1..Len(g) /\ g[n] <= t
    BY <1>1 DEF Shows
  <2>2. g[n] \in Nat
    BY <2>1
  <2>3. QED
    BY <2>1, <2>2
<1>3. QED
  BY <1>2 DEF Shows

\* A timestamp added to both is shown.
LEMMA ShownWithOneMore ==
  ASSUME NEW g \in Seq(Nat), NEW t \in Int, NEW s, Shows(s, g, t), NEW c \in Nat
  PROVE  Shows(Append(s, c), Append(g, c), t)
<1>1. s \in Seq(Nat) /\ Len(s) \in Nat /\ Len(g) \in Nat /\ Len(s) <= Len(g)
  BY DEF Shows
<1>2. PICK b, h : b = Append(s, c) /\ h = Append(g, c)
  OBVIOUS
<1>3. /\ b \in Seq(Nat) /\ Len(b) = Len(s) + 1
      /\ \A n \in 1..Len(s) : b[n] = s[n]
      /\ b[Len(s) + 1] = c
  BY <1>1, <1>2
<1>4. /\ h \in Seq(Nat) /\ Len(h) = Len(g) + 1
      /\ \A n \in 1..Len(g) : h[n] = g[n]
      /\ h[Len(g) + 1] = c
  BY <1>2
<1>5. Len(h) - Len(b) = Len(g) - Len(s)
  BY <1>1, <1>3, <1>4
<1>6. ASSUME NEW n \in 1..Len(b)
      PROVE  b[n] = h[Len(h) - Len(b) + n]
  <2>1. CASE n = Len(b)
    <3>1. n = Len(s) + 1 /\ Len(h) - Len(b) + n = Len(g) + 1
      <4>1. PICK p, q \in Nat : p = Len(s) /\ q = Len(g)
        BY <1>1
      <4>2. n = p + 1 /\ Len(h) - Len(b) = q - p
        BY <1>3, <1>5, <2>1, <4>1
      <4>3. q - p + (p + 1) = q + 1
        BY <4>1
      <4>4. QED
        BY <4>1, <4>2, <4>3
    <3>2. QED
      BY <1>3, <1>4, <3>1
  <2>2. CASE n # Len(b)
    <3>1. PICK i : i = Len(g) - Len(s) + n
      OBVIOUS
    <3>2. n \in 1..Len(s) /\ i \in 1..Len(g)
      <4>1. PICK p, q \in Nat : p = Len(s) /\ q = Len(g) /\ p <= q
        BY <1>1
      <4>2. n \in 1..(p + 1) /\ n # p + 1 /\ i = q - p + n
        BY <1>3, <2>2, <3>1, <4>1
      <4>3. n \in 1..p /\ i \in 1..q
        BY <4>1, <4>2
      <4>4. QED
        BY <4>1, <4>3
    <3>3. s[n] = g[i] /\ b[n] = s[n] /\ h[i] = g[i]
      BY <1>3, <1>4, <3>1, <3>2 DEF Shows
    <3>4. QED
      BY <1>5, <3>1, <3>3
  <2>3. QED
    BY <2>1, <2>2
<1>7. ASSUME NEW n \in 1..(Len(h) - Len(b))
      PROVE  h[n] <= t
  <2>1. n \in 1..(Len(g) - Len(s)) /\ n \in 1..Len(g)
    BY <1>1, <1>5
  <2>2. QED
    BY <1>4, <2>1 DEF Shows
<1>8. Len(b) <= Len(h)
  BY <1>1, <1>3, <1>4
<1>9. Shows(b, h, t)
  BY <1>3, <1>6, <1>7, <1>8 DEF Shows
<1>10. QED
  BY <1>2, <1>9

\* An exact tail has fewer than k timestamps when the k-th newest is too old or
\* there is none, and the first of k is the k-th newest.
LEMMA ExactLength ==
  ASSUME NEW g \in Seq(Nat), Ordered(g), NEW t \in Int, NEW a, Exact(a, g, t),
         NEW k \in Nat \ {0}
  PROVE  /\ Len(a) < k <=> (k <= Len(g) => g[Len(g) - k + 1] <= t)
         /\ Len(a) = k => k <= Len(g) /\ a[1] = g[Len(g) - k + 1]
<1>1. a \in Seq(Nat) /\ Len(a) \in Nat /\ Len(g) \in Nat /\ Len(a) <= Len(g)
  BY DEF Exact, Shows
<1>2. ASSUME Len(a) < k, k <= Len(g)
      PROVE  g[Len(g) - k + 1] <= t
  <2>1. Len(g) - k + 1 \in 1..(Len(g) - Len(a))
    BY <1>1, <1>2
  <2>2. QED
    BY <2>1 DEF Exact, Shows
<1>3. ASSUME k <= Len(a)
      PROVE  k <= Len(g) /\ g[Len(g) - k + 1] > t /\ a[Len(a) - k + 1] = g[Len(g) - k + 1]
  <2>1. PICK n : n = Len(a) - k + 1
    OBVIOUS
  <2>2. n \in 1..Len(a) /\ Len(g) - Len(a) + n = Len(g) - k + 1 /\ k <= Len(g)
    BY <1>1, <1>3, <2>1
  <2>3. a[n] = g[Len(g) - k + 1] /\ a[n] > t
    BY <2>2 DEF Exact, Shows
  <2>4. QED
    BY <2>1, <2>2, <2>3
<1>4. ASSUME k <= Len(a)
      PROVE  ~ (g[Len(g) - k + 1] <= t)
  <2>1. Len(g) - k + 1 \in 1..Len(g) /\ g[Len(g) - k + 1] > t
    BY <1>1, <1>3, <1>4
  <2>2. g[Len(g) - k + 1] \in Nat
    BY <2>1
  <2>3. QED
    BY <2>1, <2>2
<1>5. Len(a) < k \/ k <= Len(a)
  BY <1>1
<1>6. Len(a) = k => Len(a) - k + 1 = 1 /\ k <= Len(a)
  BY <1>1
<1>7. QED
  BY <1>1, <1>2, <1>3, <1>4, <1>5, <1>6

-------------------------------------------------------------------------------
(* One key                                                                 *)

\* No stretch of time as long as w holds more than k of the timestamps.
Spaced(g, k, w) == \A n \in 1..Len(g) : n + k <= Len(g) => g[n + k] >= g[n] + w

\* What a limiter that allows k knows of a key at time c: the log s it keeps, the
\* times g at which the key was let through, and the answer v of a refusal.
KeyFacts(s, g, v, k, w, c) ==
  /\ g \in Seq(0..c) /\ Ordered(g) /\ Spaced(g, k, w)
  /\ Shows(s, g, c - w)
  /\ v # None => k <= Len(g) /\ v = g[Len(g) - k + 1] + w

LEMMA Numbers ==
  \A l \in Limiters : Limit[l] \in Nat \ {0} /\ Window[l] \in Nat \ {0}
BY LimitAssumption

\* The facts survive the passing of time,
LEMMA TimePasses ==
  ASSUME NEW c \in Nat, NEW e \in Nat, c <= e, NEW k \in Nat \ {0}, NEW w \in Nat \ {0},
         NEW s, NEW g, NEW v, KeyFacts(s, g, v, k, w, c)
  PROVE  KeyFacts(s, g, v, k, w, e)
<1>1. /\ 0..c \subseteq 0..e /\ 0..c \subseteq Nat /\ c - w <= e - w
      /\ c - w \in Int /\ e - w \in Int
  OBVIOUS
<1>2. g \in Seq(0..c) /\ g \in Seq(0..e) /\ g \in Seq(Nat)
  BY <1>1 DEF KeyFacts
<1>3. Shows(s, g, e - w)
  BY <1>1, <1>2, ShownLater DEF KeyFacts
<1>4. /\ Ordered(g) /\ Spaced(g, k, w)
      /\ v # None => k <= Len(g) /\ v = g[Len(g) - k + 1] + w
  BY DEF KeyFacts
<1>5. QED
  BY <1>2, <1>3, <1>4 DEF KeyFacts

\* letting the key through when fewer than k are in the window,
LEMMA Granting ==
  ASSUME NEW c \in Nat, NEW k \in Nat \ {0}, NEW w \in Nat \ {0},
         NEW g \in Seq(0..c), Ordered(g), Spaced(g, k, w), NEW a, Exact(a, g, c - w), Len(a) < k
  PROVE  KeyFacts(Append(a, c), Append(g, c), None, k, w, c)
<1>1. 0..c \subseteq Nat /\ c \in 0..c /\ c - w \in Int /\ g \in Seq(Nat) /\ Len(g) \in Nat
  OBVIOUS
<1>2. PICK h : h = Append(g, c)
  OBVIOUS
<1>3. /\ h \in Seq(0..c) /\ Len(h) = Len(g) + 1
      /\ \A n \in 1..Len(g) : h[n] = g[n]
      /\ h[Len(g) + 1] = c
  BY <1>1, <1>2
<1>4. Ordered(h)
  <2>1. ASSUME NEW m \in 1..Len(h), NEW n \in 1..Len(h), m <= n
        PROVE  h[m] <= h[n]
    <3>1. CASE n = Len(g) + 1
      <4>1. h[n] = c
        BY <1>3, <3>1
      <4>2. h[m] \in 0..c
        BY <1>3, <2>1
      <4>3. QED
        BY <4>1, <4>2
    <3>2. CASE n # Len(g) + 1
      <4>1. PICK q \in Nat : q = Len(g)
        BY <1>1
      <4>2. m \in 1..(q + 1) /\ n \in 1..(q + 1) /\ m <= n /\ n # q + 1
        BY <1>3, <2>1, <3>2, <4>1
      <4>3. m \in 1..q /\ n \in 1..q
        BY <4>1, <4>2
      <4>4. QED
        BY <1>3, <2>1, <4>1, <4>3 DEF Ordered
    <3>3. QED
      BY <3>1, <3>2
  <2>2. QED
    BY <2>1 DEF Ordered
<1>5. k <= Len(g) => g[Len(g) - k + 1] <= c - w
  BY <1>1, ExactLength
<1>6. Spaced(h, k, w)
  <2>1. ASSUME NEW n \in 1..Len(h), n + k <= Len(h)
        PROVE  h[n + k] >= h[n] + w
    <3>1. n \in 1..Len(g) /\ n + k \in 1..(Len(g) + 1) /\ h[n] = g[n] /\ g[n] \in 0..c
      <4>1. PICK q \in Nat : q = Len(g)
        BY <1>1
      <4>2. n \in 1..(q + 1) /\ n + k <= q + 1
        BY <1>3, <2>1, <4>1
      <4>3. n \in 1..q /\ n + k \in 1..(q + 1)
        BY <4>1, <4>2
      <4>4. QED
        BY <1>3, <4>1, <4>3
    <3>2. CASE n + k = Len(g) + 1
      <4>1. n = Len(g) - k + 1 /\ k <= Len(g)
        BY <1>1, <3>1, <3>2
      <4>2. g[n] <= c - w
        BY <1>5, <4>1
      <4>3. h[n + k] = c
        BY <1>3, <3>2
      <4>4. QED
        BY <3>1, <4>2, <4>3
    <3>3. CASE n + k # Len(g) + 1
      <4>1. n + k \in 1..Len(g)
        <5>1. PICK q, i : q \in Nat /\ q = Len(g) /\ i = n + k
          BY <1>1
        <5>2. q \in Nat /\ i \in 1..(q + 1) /\ i # q + 1
          BY <3>1, <3>3, <5>1
        <5>3. i \in 1..q
          BY <5>2
        <5>4. QED
          BY <5>1, <5>3
      <4>2. h[n + k] = g[n + k] /\ n + k <= Len(g)
        BY <1>1, <1>3, <4>1
      <4>3. QED
        BY <3>1, <4>2 DEF Spaced
    <3>4. QED
      BY <3>2, <3>3
  <2>2. QED
    BY <2>1 DEF Spaced
<1>7. Shows(Append(a, c), h, c - w)
  BY <1>1, <1>2, ShownWithOneMore DEF Exact
<1>8. KeyFacts(Append(a, c), h, None, k, w, c)
  BY <1>3, <1>4, <1>6, <1>7 DEF KeyFacts
<1>9. QED
  BY <1>2, <1>8

\* and turning it away when k are.
LEMMA Refusing ==
  ASSUME NEW c \in Nat, NEW k \in Nat \ {0}, NEW w \in Nat \ {0},
         NEW g \in Seq(0..c), Ordered(g), Spaced(g, k, w), NEW a, Exact(a, g, c - w), Len(a) = k
  PROVE  /\ KeyFacts(a, g, Head(a) + w, k, w, c)
         /\ Head(a) + w \in Nat
<1>1. g \in Seq(Nat) /\ c - w \in Int /\ a \in Seq(Nat)
  <2>1. 0..c \subseteq Nat
    OBVIOUS
  <2>2. QED
    BY <2>1 DEF Exact, Shows
<1>2. k <= Len(g) /\ a[1] = g[Len(g) - k + 1]
  BY <1>1, ExactLength
<1>3. 1 \in 1..Len(a) /\ Head(a) = a[1] /\ a[1] \in Nat
  BY <1>1
<1>4. QED
  BY <1>2, <1>3 DEF KeyFacts, Exact

\* The answer of a refusal is the time from which the key is let through.
LEMMA ExactWait ==
  ASSUME NEW c \in Nat, NEW k \in Nat \ {0}, NEW w \in Nat \ {0},
         NEW s, NEW g, NEW v, v # None, KeyFacts(s, g, v, k, w, c), NEW a, Exact(a, g, c - w)
  PROVE  Len(a) < k <=> c >= v
<1>1. g \in Seq(Nat) /\ c - w \in Int /\ Ordered(g)
  <2>1. 0..c \subseteq Nat
    OBVIOUS
  <2>2. QED
    BY <2>1 DEF KeyFacts
<1>2. k <= Len(g) /\ v = g[Len(g) - k + 1] + w
  BY DEF KeyFacts
<1>3. Len(a) < k <=> g[Len(g) - k + 1] <= c - w
  BY <1>1, <1>2, ExactLength
<1>4. g[Len(g) - k + 1] \in Nat
  <2>1. Len(g) - k + 1 \in 1..Len(g)
    BY <1>1, <1>2
  <2>2. QED
    BY <1>1, <2>1
<1>5. QED
  BY <1>2, <1>3, <1>4

-------------------------------------------------------------------------------
(* A store                                                                 *)

KeysOf(l) == IF l = "ip" THEN Ips ELSE Emails

\* A Map of a limiter: logs that are not empty and not longer than the limit.
MapOK(map, l) ==
  /\ map \in [DOMAIN map -> Seq(Nat)]
  /\ DOMAIN map \subseteq KeysOf(l)
  /\ \A k \in DOMAIN map : Len(map[k]) \in 1..Limit[l]

\* It shows what has to be known of each key at time c.
MapShows(map, G, l, c) == \A k \in Keys : Shows(Log(map, k), G[k], c - Window[l])

LEMMA Putting ==
  ASSUME NEW l \in Limiters, NEW map, MapOK(map, l), NEW k \in KeysOf(l),
         NEW b \in Seq(Nat), Len(b) \in 1..Limit[l]
  PROVE  /\ MapOK(Put(map, k, b), l)
         /\ Log(Put(map, k, b), k) = b
         /\ \A x : x # k => Log(Put(map, k, b), x) = Log(map, x)
<1>1. PICK put : put = Put(map, k, b)
  OBVIOUS
<1>2. /\ put = [x \in DOMAIN map \cup {k} |-> IF x = k THEN b ELSE map[x]]
      /\ DOMAIN put = DOMAIN map \cup {k}
      /\ \A x \in DOMAIN put : put[x] = IF x = k THEN b ELSE map[x]
  BY <1>1 DEF Put
<1>3. \A x \in DOMAIN map : map[x] \in Seq(Nat)
  BY DEF MapOK
<1>4. put \in [DOMAIN put -> Seq(Nat)]
  BY <1>2, <1>3
<1>5. \A x \in DOMAIN put : Len(put[x]) \in 1..Limit[l]
  BY <1>2 DEF MapOK
<1>6. MapOK(put, l)
  BY <1>2, <1>4, <1>5 DEF MapOK
<1>7. Log(put, k) = b
  BY <1>2 DEF Log
<1>8. ASSUME NEW x, x # k
      PROVE  Log(put, x) = Log(map, x)
  BY <1>2, <1>8 DEF Log
<1>9. QED
  BY <1>1, <1>6, <1>7, <1>8

\* Nothing that has to be known is swept away or trimmed off.
LEMMA Tidying ==
  ASSUME NEW l \in Limiters, NEW map, MapOK(map, l), clock \in Nat,
         NEW G, \A k \in Keys : G[k] \in Seq(Nat) /\ Ordered(G[k]),
         MapShows(map, G, l, clock)
  PROVE  MapOK(Tidy(l, map), l) /\ MapShows(Tidy(l, map), G, l, clock)
<1>1. KeysOf(l) \subseteq Keys /\ clock - Window[l] \in Int /\ Limit[l] \in Nat \ {0}
  BY Numbers DEF KeysOf, Keys
<1>2. CASE Tidy(l, map) = map
  BY <1>2
<1>3. CASE Tidy(l, map) = Swept(l, map)
  <2>1. PICK swept, D : swept = Swept(l, map) /\ D = {x \in DOMAIN map : Alive(l, map[x]) # <<>>}
    OBVIOUS
  <2>2. /\ swept = [k \in D |-> Alive(l, map[k])]
        /\ DOMAIN swept = D /\ D \subseteq DOMAIN map
        /\ \A k \in D : swept[k] = Alive(l, map[k])
    BY <2>1 DEF Swept
  <2>3. ASSUME NEW k \in DOMAIN map
        PROVE  /\ Exact(Alive(l, map[k]), G[k], clock - Window[l])
               /\ Len(Alive(l, map[k])) <= Limit[l]
    <3>1. k \in Keys /\ Log(map, k) = map[k]
      BY <1>1 DEF MapOK, Log
    <3>2. Shows(map[k], G[k], clock - Window[l]) /\ G[k] \in Seq(Nat) /\ Ordered(G[k])
      BY <3>1 DEF MapShows
    <3>3. PICK a : a = Alive(l, map[k])
      OBVIOUS
    <3>4. Exact(a, G[k], clock - Window[l]) /\ Len(a) <= Len(map[k])
      BY <1>1, <3>2, <3>3, AfterOfTail DEF Alive
    <3>5. Len(a) \in Nat /\ Len(map[k]) \in 1..Limit[l]
      BY <3>4 DEF Exact, Shows, MapOK
    <3>6. QED
      BY <1>1, <3>3, <3>4, <3>5
  <2>4. ASSUME NEW k \in D
        PROVE  swept[k] \in Seq(Nat) /\ Len(swept[k]) \in 1..Limit[l]
    <3>1. /\ swept[k] = Alive(l, map[k]) /\ swept[k] \in Seq(Nat)
          /\ swept[k] # <<>> /\ Len(swept[k]) <= Limit[l]
      BY <2>1, <2>2, <2>3 DEF Exact, Shows
    <3>2. Len(swept[k]) \in Nat \ {0}
      BY <3>1
    <3>3. QED
      BY <1>1, <3>1, <3>2
  <2>5. MapOK(swept, l)
    <3>1. swept \in [D -> Seq(Nat)]
      BY <2>2, <2>4
    <3>2. DOMAIN swept \subseteq KeysOf(l)
      BY <2>2 DEF MapOK
    <3>3. QED
      BY <2>2, <2>4, <3>1, <3>2 DEF MapOK
  <2>6. ASSUME NEW k \in Keys
        PROVE  Shows(Log(swept, k), G[k], clock - Window[l])
    <3>1. CASE k \in D
      <4>1. Log(swept, k) = Alive(l, map[k])
        BY <2>2, <3>1 DEF Log
      <4>2. QED
        BY <2>2, <2>3, <3>1, <4>1 DEF Exact
    <3>2. CASE k \in DOMAIN map /\ k \notin D
      <4>1. Log(swept, k) = <<>> /\ Alive(l, map[k]) = <<>>
        BY <2>1, <2>2, <3>2 DEF Log
      <4>2. QED
        BY <2>3, <3>2, <4>1 DEF Exact
    <3>3. CASE k \notin DOMAIN map
      <4>1. Log(swept, k) = <<>> /\ Log(map, k) = <<>>
        BY <2>2, <3>3 DEF Log
      <4>2. QED
        BY <4>1 DEF MapShows
    <3>4. QED
      BY <3>1, <3>2, <3>3
  <2>7. QED
    BY <1>3, <2>1, <2>5, <2>6 DEF MapShows
<1>4. QED
  BY <1>2, <1>3 DEF Tidy

-------------------------------------------------------------------------------
(* The invariant                                                           *)

Typed ==
  /\ clock \in Times
  /\ store = [l \in Limiters |-> store[l]]
  /\ granted \in [Limiters -> [Keys -> Seq(Nat)]]
  /\ answer \in [Limiters -> [Keys -> Nat \cup {None}]]

\* A flow that has passed the first limiter has an email.
FlowsOK ==
  /\ pc \in [Requests -> {"idle", "email"}]
  /\ arg \in [Requests -> [ip : Ips \cup {None}, email : Emails \cup {None}]]
  /\ \A p \in Requests : pc[p] = "email" => arg[p].email \in Emails

LimitersOK ==
  \A l \in Limiters :
    /\ MapOK(store[l], l)
    /\ \A k \in Keys :
         KeyFacts(Log(store[l], k), granted[l][k], answer[l][k], Limit[l], Window[l], clock)

IInv == Typed /\ FlowsOK /\ LimitersOK

LEMMA TimesAreNat == Times \subseteq Nat /\ MaxClock \in Nat /\ 0 \in Times
BY LimitAssumption DEF Times

LEMMA FactsShow ==
  ASSUME Typed, LimitersOK, NEW l \in Limiters
  PROVE  /\ clock \in Nat
         /\ MapOK(store[l], l)
         /\ MapShows(store[l], granted[l], l, clock)
         /\ \A k \in Keys : granted[l][k] \in Seq(Nat) /\ Ordered(granted[l][k])
<1>1. clock \in Nat
  BY TimesAreNat DEF Typed
<1>2. 0..clock \subseteq Nat
  OBVIOUS
<1>3. QED
  BY <1>1, <1>2 DEF LimitersOK, KeyFacts, MapShows, Typed

\* The log a call works on.
LEMMA CalledLog ==
  ASSUME Typed, LimitersOK, NEW l \in Limiters, NEW k \in KeysOf(l)
  PROVE  LET a == Alive(l, Log(Tidy(l, store[l]), k))
         IN  /\ k \in Keys
             /\ Exact(a, granted[l][k], clock - Window[l])
             /\ a \in Seq(Nat) /\ Len(a) \in 0..Limit[l]
<1>1. PICK map : map = Tidy(l, store[l])
  OBVIOUS
<1>2. /\ clock \in Nat /\ clock - Window[l] \in Int /\ k \in Keys
      /\ granted[l][k] \in Seq(Nat) /\ Ordered(granted[l][k])
  BY FactsShow, Numbers DEF KeysOf, Keys
<1>3. MapOK(map, l) /\ MapShows(map, granted[l], l, clock)
  BY <1>1, FactsShow, Tidying
<1>4. Shows(Log(map, k), granted[l][k], clock - Window[l])
  BY <1>2, <1>3 DEF MapShows
<1>5. PICK a : a = Alive(l, Log(map, k))
  OBVIOUS
<1>6. Exact(a, granted[l][k], clock - Window[l]) /\ Len(a) <= Len(Log(map, k))
  BY <1>2, <1>4, <1>5, AfterOfTail DEF Alive
<1>7. Len(Log(map, k)) \in Nat /\ Len(Log(map, k)) <= Limit[l]
  <2>1. CASE k \in DOMAIN map
    BY <1>3, <2>1, Numbers DEF MapOK, Log
  <2>2. CASE k \notin DOMAIN map
    <3>1. Log(map, k) = <<>>
      BY <2>2 DEF Log
    <3>2. Len(Log(map, k)) = 0
      BY <3>1
    <3>3. QED
      BY <3>2, Numbers
  <2>3. QED
    BY <2>1, <2>2
<1>8. a \in Seq(Nat) /\ Len(a) \in Nat
  BY <1>6 DEF Exact, Shows
<1>9. QED
  BY <1>1, <1>2, <1>5, <1>6, <1>7, <1>8, Numbers

\* What a call makes of a limiter: a key's log, times and answer change.
Called(l, k, b, g, v) ==
  /\ store' = [store EXCEPT ![l] = Put(Tidy(l, store[l]), k, b)]
  /\ granted' = [granted EXCEPT ![l][k] = g]
  /\ answer' = [answer EXCEPT ![l][k] = v]

LEMMA CallKeeps ==
  ASSUME Typed, LimitersOK, UNCHANGED clock, NEW l \in Limiters, NEW k \in KeysOf(l),
         NEW b \in Seq(Nat), Len(b) \in 1..Limit[l], NEW g, NEW v \in Nat \cup {None},
         KeyFacts(b, g, v, Limit[l], Window[l], clock), Called(l, k, b, g, v)
  PROVE  Typed' /\ LimitersOK'
<1>1. clock \in Nat /\ 0..clock \subseteq Nat /\ k \in Keys
  BY FactsShow DEF KeysOf, Keys
<1>2. PICK map : map = Tidy(l, store[l])
  OBVIOUS
<1>3. MapOK(map, l) /\ MapShows(map, granted[l], l, clock)
  BY <1>2, FactsShow, Tidying
<1>4. /\ MapOK(Put(map, k, b), l)
      /\ Log(Put(map, k, b), k) = b
      /\ \A x : x # k => Log(Put(map, k, b), x) = Log(map, x)
  BY <1>3, Putting
<1>5. PICK put : put = Put(map, k, b)
  OBVIOUS
<1>6. /\ store' = [m \in Limiters |-> IF m = l THEN put ELSE store[m]]
      /\ granted' = [m \in Limiters |->
           IF m = l THEN [granted[l] EXCEPT ![k] = g] ELSE granted[m]]
      /\ answer' = [m \in Limiters |->
           IF m = l THEN [answer[l] EXCEPT ![k] = v] ELSE answer[m]]
  <2>1. DOMAIN store = Limiters /\ DOMAIN granted = Limiters /\ DOMAIN answer = Limiters
    BY DEF Typed
  <2>2. QED
    BY <1>2, <1>5, <2>1 DEF Called
<1>7. g \in Seq(Nat)
  BY <1>1 DEF KeyFacts
<1>8. Typed'
  <2>1. [granted[l] EXCEPT ![k] = g] \in [Keys -> Seq(Nat)]
    BY <1>7 DEF Typed
  <2>2. [answer[l] EXCEPT ![k] = v] \in [Keys -> Nat \cup {None}]
    BY DEF Typed
  <2>3. granted' \in [Limiters -> [Keys -> Seq(Nat)]]
    BY <1>6, <2>1 DEF Typed
  <2>4. answer' \in [Limiters -> [Keys -> Nat \cup {None}]]
    BY <1>6, <2>2 DEF Typed
  <2>5. DOMAIN store' = Limiters /\ store' = [m \in Limiters |-> store'[m]]
    BY <1>6
  <2>6. QED
    BY <2>3, <2>4, <2>5 DEF Typed
<1>9. ASSUME NEW m \in Limiters
      PROVE  /\ MapOK(store'[m], m)
             /\ \A x \in Keys :
                  KeyFacts(Log(store'[m], x), granted'[m][x], answer'[m][x],
                           Limit[m], Window[m], clock)
  <2>1. CASE m = l
    <3>1. /\ store'[m] = put
          /\ granted'[m] = [granted[l] EXCEPT ![k] = g]
          /\ answer'[m] = [answer[l] EXCEPT ![k] = v]
      BY <1>6, <2>1
    <3>2. MapOK(store'[m], m)
      BY <1>4, <1>5, <2>1, <3>1
    <3>3. ASSUME NEW x \in Keys
          PROVE  KeyFacts(Log(store'[m], x), granted'[m][x], answer'[m][x],
                          Limit[m], Window[m], clock)
      <4>1. CASE x = k
        <5>1. granted'[m][x] = g /\ answer'[m][x] = v /\ Log(store'[m], x) = b
          BY <1>1, <1>4, <1>5, <3>1, <4>1 DEF Typed
        <5>2. QED
          BY <2>1, <5>1
      <4>2. CASE x # k
        <5>1. /\ granted'[m][x] = granted[l][x] /\ answer'[m][x] = answer[l][x]
              /\ Log(store'[m], x) = Log(map, x)
          BY <1>4, <1>5, <3>1, <4>2 DEF Typed
        <5>2. Shows(Log(map, x), granted[l][x], clock - Window[l])
          BY <1>3 DEF MapShows
        <5>3. KeyFacts(Log(store[l], x), granted[l][x], answer[l][x], Limit[l], Window[l], clock)
          BY DEF LimitersOK
        <5>4. KeyFacts(Log(map, x), granted[l][x], answer[l][x], Limit[l], Window[l], clock)
          BY <5>2, <5>3 DEF KeyFacts
        <5>5. QED
          BY <2>1, <5>1, <5>4
      <4>3. QED
        BY <4>1, <4>2
    <3>4. QED
      BY <3>2, <3>3
  <2>2. CASE m # l
    <3>1. store'[m] = store[m] /\ granted'[m] = granted[m] /\ answer'[m] = answer[m]
      BY <1>6, <2>2
    <3>2. QED
      BY <3>1 DEF LimitersOK
  <2>3. QED
    BY <2>1, <2>2
<1>10. LimitersOK'
  BY <1>9 DEF LimitersOK
<1>11. QED
  BY <1>8, <1>10

\* A call lets the key through or turns it away.
LEMMA ConsumeIs ==
  ASSUME Typed, LimitersOK, NEW l \in Limiters, NEW k \in KeysOf(l), Consume(l, k)
  PROVE  LET a == Alive(l, Log(Tidy(l, store[l]), k))
         IN  \/ /\ Len(a) < Limit[l]
                /\ Called(l, k, Append(a, clock), Append(granted[l][k], clock), None)
             \/ /\ Len(a) = Limit[l]
                /\ Called(l, k, a, granted[l][k], Head(a) + Window[l])
<1>1. PICK a : a = Alive(l, Log(Tidy(l, store[l]), k))
  OBVIOUS
<1>2. Len(a) \in 0..Limit[l] /\ k \in Keys
  BY <1>1, CalledLog
<1>3. Allows(l, k) <=> Len(a) < Limit[l]
  BY <1>1 DEF Allows
<1>4. CASE Allows(l, k)
  <2>1. granted' = [granted EXCEPT ![l][k] = Append(granted[l][k], clock)]
    BY <1>2, <1>4 DEF Consume, Typed
  <2>2. Called(l, k, Append(a, clock), Append(granted[l][k], clock), None)
    BY <1>1, <1>4, <2>1 DEF Consume, Called
  <2>3. QED
    BY <1>1, <1>3, <1>4, <2>2
<1>5. CASE ~ Allows(l, k)
  <2>1. Len(a) = Limit[l]
    BY <1>2, <1>3, <1>5, Numbers
  <2>2. granted' = [granted EXCEPT ![l][k] = granted[l][k]]
    BY <1>2, <1>5 DEF Consume, Typed
  <2>3. Called(l, k, a, granted[l][k], Head(a) + Window[l])
    BY <1>1, <1>5, <2>2 DEF Consume, Called
  <2>4. QED
    BY <1>1, <2>1, <2>3
<1>6. QED
  BY <1>4, <1>5

LEMMA ConsumeKeeps ==
  ASSUME Typed, LimitersOK, UNCHANGED clock, NEW l \in Limiters, NEW k \in KeysOf(l),
         Consume(l, k)
  PROVE  Typed' /\ LimitersOK'
<1>1. PICK a : a = Alive(l, Log(Tidy(l, store[l]), k))
  OBVIOUS
<1>2. PICK g : g = granted[l][k]
  OBVIOUS
<1>3. /\ k \in Keys /\ a \in Seq(Nat) /\ Len(a) \in 0..Limit[l]
      /\ Exact(a, g, clock - Window[l])
  BY <1>1, <1>2, CalledLog
<1>4. clock \in Nat /\ Limit[l] \in Nat \ {0} /\ Window[l] \in Nat \ {0}
  BY FactsShow, Numbers
<1>5. g \in Seq(0..clock) /\ Ordered(g) /\ Spaced(g, Limit[l], Window[l])
  BY <1>2, <1>3 DEF LimitersOK, KeyFacts
<1>6. \/ Len(a) < Limit[l] /\ Called(l, k, Append(a, clock), Append(g, clock), None)
      \/ Len(a) = Limit[l] /\ Called(l, k, a, g, Head(a) + Window[l])
  BY <1>1, <1>2, ConsumeIs
<1>7. CASE Len(a) < Limit[l] /\ Called(l, k, Append(a, clock), Append(g, clock), None)
  <2>1. Append(a, clock) \in Seq(Nat) /\ Len(Append(a, clock)) \in 1..Limit[l]
    <3>1. Append(a, clock) \in Seq(Nat) /\ Len(Append(a, clock)) = Len(a) + 1
      BY <1>3, <1>4
    <3>2. QED
      BY <1>3, <1>4, <1>7, <3>1
  <2>2. KeyFacts(Append(a, clock), Append(g, clock), None, Limit[l], Window[l], clock)
    BY <1>3, <1>4, <1>5, <1>7, Granting
  <2>3. QED
    BY <1>7, <2>1, <2>2, CallKeeps
<1>8. CASE Len(a) = Limit[l] /\ Called(l, k, a, g, Head(a) + Window[l])
  <2>1. /\ KeyFacts(a, g, Head(a) + Window[l], Limit[l], Window[l], clock)
        /\ Head(a) + Window[l] \in Nat
    BY <1>3, <1>4, <1>5, <1>8, Refusing
  <2>2. Len(a) \in 1..Limit[l]
    BY <1>4, <1>8
  <2>3. QED
    BY <1>3, <1>8, <2>1, <2>2, CallKeeps
<1>9. QED
  BY <1>6, <1>7, <1>8

\* After a start everything is empty.
Started ==
  /\ clock \in Times /\ store = Empty
  /\ pc = [p \in Requests |-> "idle"] /\ arg = [p \in Requests |-> Blank]
  /\ granted = [l \in Limiters |-> [k \in Keys |-> <<>>]]
  /\ answer = [l \in Limiters |-> [k \in Keys |-> None]]

LEMMA StartIsOK == Started => IInv
<1> SUFFICES ASSUME Started PROVE IInv
  OBVIOUS
<1> USE DEF Started
<1>1. clock \in Nat /\ \A l \in Limiters : clock - Window[l] \in Int
  BY TimesAreNat, Numbers
<1>2. \A l \in Limiters : DOMAIN store[l] = {} /\ store[l] \in [{} -> Seq(Nat)]
  BY DEF Empty
<1>3. Typed
  <2>1. store = [l \in Limiters |-> store[l]]
    BY DEF Empty
  <2>2. <<>> \in Seq(Nat)
    OBVIOUS
  <2>3. QED
    BY <2>1, <2>2 DEF Typed
<1>4. FlowsOK
  BY DEF FlowsOK, Blank
<1>5. LimitersOK
  <2>1. ASSUME NEW l \in Limiters
        PROVE  MapOK(store[l], l)
    BY <1>2 DEF MapOK
  <2>2. ASSUME NEW l \in Limiters, NEW k \in Keys
        PROVE  KeyFacts(Log(store[l], k), granted[l][k], answer[l][k], Limit[l], Window[l], clock)
    <3>1. Log(store[l], k) = <<>> /\ granted[l][k] = <<>> /\ answer[l][k] = None
      BY <1>2 DEF Log
    <3>2. QED
      BY <1>1, <3>1, Numbers DEF KeyFacts, Ordered, Spaced, Shows
  <2>3. QED
    BY <2>1, <2>2 DEF LimitersOK
<1>6. QED
  BY <1>3, <1>4, <1>5 DEF IInv

LEMMA StartIsOKNext == Started' => IInv'
BY StartIsOK, PTL

LEMMA IInvStep == IInv /\ [Next]_vars => IInv'
<1> SUFFICES ASSUME IInv, [Next]_vars PROVE IInv'
  OBVIOUS
<1>1. CASE \E p \in Requests, ip \in Ips, email \in Emails : LimitByIp(p, ip, email)
  <2>1. PICK p \in Requests, ip \in Ips, email \in Emails : LimitByIp(p, ip, email)
    BY <1>1
  <2>2. "ip" \in Limiters /\ ip \in KeysOf("ip") /\ Consume("ip", ip) /\ UNCHANGED clock
    BY <2>1 DEF LimitByIp, Limiters, KeysOf
  <2>3. Typed' /\ LimitersOK'
    BY <2>2, ConsumeKeeps DEF IInv
  <2>4. FlowsOK'
    BY <2>1 DEF LimitByIp, IInv, FlowsOK
  <2>5. QED
    BY <2>3, <2>4 DEF IInv
<1>2. CASE \E p \in Requests : LimitByEmail(p)
  <2>1. PICK p \in Requests : LimitByEmail(p)
    BY <1>2
  <2>2. /\ "email" \in Limiters /\ arg[p].email \in KeysOf("email")
        /\ Consume("email", arg[p].email) /\ UNCHANGED clock
    BY <2>1 DEF LimitByEmail, Limiters, KeysOf, IInv, FlowsOK
  <2>3. Typed' /\ LimitersOK'
    BY <2>2, ConsumeKeeps DEF IInv
  <2>4. FlowsOK'
    BY <2>1 DEF LimitByEmail, IInv, FlowsOK, Blank
  <2>5. QED
    BY <2>3, <2>4 DEF IInv
<1>3. CASE Tick
  <2>1. /\ clock \in Nat /\ clock' = clock + 1 /\ clock' \in Times
        /\ UNCHANGED <<store, pc, arg, granted, answer>>
    BY <1>3, TimesAreNat DEF Tick, IInv, Typed, Times
  <2>2. Typed' /\ FlowsOK'
    BY <2>1 DEF IInv, Typed, FlowsOK
  <2>3. ASSUME NEW l \in Limiters
        PROVE  /\ MapOK(store'[l], l)
               /\ \A k \in Keys :
                    KeyFacts(Log(store'[l], k), granted'[l][k], answer'[l][k],
                             Limit[l], Window[l], clock')
    <3>1. MapOK(store'[l], l)
      BY <2>1 DEF IInv, LimitersOK
    <3>2. ASSUME NEW k \in Keys
          PROVE  KeyFacts(Log(store'[l], k), granted'[l][k], answer'[l][k],
                          Limit[l], Window[l], clock')
      <4>1. KeyFacts(Log(store[l], k), granted[l][k], answer[l][k], Limit[l], Window[l], clock)
        BY DEF IInv, LimitersOK
      <4>2. /\ clock' \in Nat /\ clock <= clock'
            /\ Limit[l] \in Nat \ {0} /\ Window[l] \in Nat \ {0}
        BY <2>1, Numbers
      <4>3. KeyFacts(Log(store[l], k), granted[l][k], answer[l][k], Limit[l], Window[l], clock')
        BY <2>1, <4>1, <4>2, TimePasses
      <4>4. QED
        BY <2>1, <4>3
    <3>3. QED
      BY <3>1, <3>2
  <2>4. LimitersOK'
    BY <2>3 DEF LimitersOK
  <2>5. QED
    BY <2>2, <2>4 DEF IInv
<1>4. CASE Restart
  <2>1. Started'
    BY <1>4 DEF Restart, Started, IInv, Typed
  <2>2. QED
    BY <2>1, StartIsOKNext
<1>5. CASE UNCHANGED vars
  BY <1>5 DEF vars, IInv, Typed, FlowsOK, LimitersOK
<1>6. QED
  BY <1>1, <1>2, <1>3, <1>4, <1>5 DEF Next

LEMMA Invariant == Spec => []IInv
<1>1. Init => IInv
  BY StartIsOK, TimesAreNat DEF Init, Started
<1>2. QED
  BY <1>1, IInvStep, PTL DEF Spec

-------------------------------------------------------------------------------
(* Theorems                                                                *)

LEMMA SeqWithin ==
  ASSUME NEW S, NEW T, S \subseteq T, NEW s \in Seq(S)
  PROVE  s \in Seq(T)
OBVIOUS

\* The stores map known keys to timestamps of the past, in order, never more
\* than the limit, and never to an empty log.
THEOREM Typing == Spec => []TypeOK
<1>1. IInv => TypeOK
  <2> SUFFICES ASSUME IInv PROVE TypeOK
    OBVIOUS
  <2>1. Typed /\ LimitersOK /\ FlowsOK /\ clock \in Nat
    BY TimesAreNat DEF IInv, Typed
  <2>2. ASSUME NEW l \in Limiters
        PROVE  /\ store[l] \in [DOMAIN store[l] -> Seq(0..clock)]
               /\ DOMAIN store[l] \subseteq (IF l = "ip" THEN Ips ELSE Emails)
               /\ \A k \in DOMAIN store[l] :
                    /\ Len(store[l][k]) \in 1..Limit[l]
                    /\ \A n \in 1..Len(store[l][k]), m \in 1..Len(store[l][k]) :
                         m <= n => store[l][k][m] <= store[l][k][n]
    <3>1. MapOK(store[l], l) /\ KeysOf(l) \subseteq Keys
      BY <2>1 DEF LimitersOK, KeysOf, Keys
    <3>2. ASSUME NEW k \in DOMAIN store[l]
          PROVE  store[l][k] \in Seq(0..clock) /\ Ordered(store[l][k])
      <4>1. k \in Keys /\ Log(store[l], k) = store[l][k]
        BY <3>1 DEF MapOK, Log
      <4>2. KeyFacts(store[l][k], granted[l][k], answer[l][k], Limit[l], Window[l], clock)
        BY <2>1, <4>1 DEF LimitersOK
      <4>3. /\ granted[l][k] \in Seq(0..clock) /\ Ordered(granted[l][k])
            /\ Shows(store[l][k], granted[l][k], clock - Window[l]) /\ clock - Window[l] \in Int
        BY <2>1, <4>2, Numbers DEF KeyFacts
      <4>4. QED
        BY <2>1, <4>3, ShownInOrder
    <3>3. store[l] = [k \in DOMAIN store[l] |-> store[l][k]]
      BY <3>1 DEF MapOK
    <3>4. store[l] \in [DOMAIN store[l] -> Seq(0..clock)]
      BY <3>2, <3>3
    <3>5. QED
      BY <3>1, <3>2, <3>4 DEF MapOK, KeysOf, Ordered
  <2>3. granted \in [Limiters -> [Keys -> Seq(Times)]]
    <3>1. ASSUME NEW l \in Limiters, NEW k \in Keys
          PROVE  granted[l][k] \in Seq(Times)
      <4>1. granted[l][k] \in Seq(0..clock)
        BY <2>1 DEF LimitersOK, KeyFacts
      <4>2. 0..clock \subseteq Times
        BY <2>1, TimesAreNat DEF Typed, Times
      <4>3. QED
        BY <4>1, <4>2, SeqWithin
    <3>2. QED
      BY <2>1, <3>1 DEF Typed
  <2>4. QED
    BY <2>1, <2>2, <2>3 DEF TypeOK, Typed, FlowsOK
<1>2. QED
  BY <1>1, Invariant, PTL

\* In no stretch of time as long as the window is a key let through more often
\* than the limit, whatever was swept or trimmed in between.
THEOREM NeverOver == Spec => []NeverOverTheLimit
<1>1. IInv => NeverOverTheLimit
  <2> SUFFICES ASSUME IInv, NEW l \in Limiters, NEW k \in Keys,
                      NEW n \in DOMAIN granted[l][k],
                      n + Limit[l] \in DOMAIN granted[l][k]
               PROVE  granted[l][k][n + Limit[l]] >= granted[l][k][n] + Window[l]
    BY DEF NeverOverTheLimit
  <2>1. granted[l][k] \in Seq(Nat) /\ Spaced(granted[l][k], Limit[l], Window[l])
    BY DEF IInv, Typed, LimitersOK, KeyFacts
  <2>2. n \in 1..Len(granted[l][k]) /\ n + Limit[l] <= Len(granted[l][k])
    BY <2>1
  <2>3. QED
    BY <2>1, <2>2 DEF Spaced
<1>2. QED
  BY <1>1, Invariant, PTL

\* A caller told to come back after some time is refused until then and, if
\* nobody else was let through for its key, allowed from then on.
THEOREM RetryExact == Spec => []RetryAfterIsExact
<1>1. IInv => RetryAfterIsExact
  <2> SUFFICES ASSUME IInv, NEW l \in Limiters, NEW k \in Keys, answer[l][k] # None
               PROVE  Allows(l, k) <=> clock >= answer[l][k]
    BY DEF RetryAfterIsExact
  <2>1. PICK map, a : map = Tidy(l, store[l]) /\ a = Alive(l, Log(map, k))
    OBVIOUS
  <2>2. /\ clock \in Nat /\ clock - Window[l] \in Int
        /\ Limit[l] \in Nat \ {0} /\ Window[l] \in Nat \ {0}
        /\ granted[l][k] \in Seq(Nat) /\ Ordered(granted[l][k])
    BY FactsShow, Numbers DEF IInv
  <2>3. MapShows(map, granted[l], l, clock)
    BY <2>1, FactsShow, Tidying DEF IInv
  <2>4. Exact(a, granted[l][k], clock - Window[l])
    BY <2>1, <2>2, <2>3, AfterOfTail DEF MapShows, Alive
  <2>5. KeyFacts(Log(store[l], k), granted[l][k], answer[l][k], Limit[l], Window[l], clock)
    BY DEF IInv, LimitersOK
  <2>6. Len(a) < Limit[l] <=> clock >= answer[l][k]
    BY <2>2, <2>4, <2>5, ExactWait
  <2>7. QED
    BY <2>1, <2>6 DEF Allows
<1>2. QED
  BY <1>1, Invariant, PTL

-------------------------------------------------------------------------------
(* What an email's budget is paid with                                     *)

LEMMA InGrants ==
  ASSUME NEW l, NEW x
  PROVE  x \in Grants(l) <=> \E k \in Keys : \E n \in DOMAIN granted[l][k] : x = <<k, n>>
BY DEF Grants

\* A call that lets its key through is one more grant, one that does not is none.
LEMMA CallGrants ==
  ASSUME Typed, NEW l \in Limiters, NEW k \in Keys, Consume(l, k), IsFiniteSet(Grants(l))
  PROVE  /\ \A m \in Limiters \ {l} : Grants(m)' = Grants(m)
         /\ IsFiniteSet(Grants(l)')
         /\ Cardinality(Grants(l)') =
              Cardinality(Grants(l)) + (IF Allows(l, k) THEN 1 ELSE 0)
<1>1. PICK g, n : g = granted[l][k] /\ n = Len(g) + 1
  OBVIOUS
<1>2. g \in Seq(Nat) /\ n \in Nat /\ DOMAIN g = 1..(n - 1) /\ clock \in Nat
  BY <1>1, TimesAreNat DEF Typed
<1>3. CASE Allows(l, k)
  <2>1. granted' = [granted EXCEPT ![l][k] = Append(g, clock)]
    BY <1>1, <1>3 DEF Consume, Typed
  <2>2. \A m \in Limiters, j \in Keys :
          granted'[m][j] = IF m = l /\ j = k THEN Append(g, clock) ELSE granted[m][j]
    BY <2>1 DEF Typed
  <2>3. DOMAIN Append(g, clock) = DOMAIN g \cup {n}
    BY <1>1, <1>2
  <2>4. \A m \in Limiters \ {l} : Grants(m)' = Grants(m)
    BY <2>2 DEF Grants
  <2>5. \A x : x \in Grants(l)' <=> x \in Grants(l) \/ x = <<k, n>>
    <3>1. \A x : x \in Grants(l)' <=>
                   \E j \in Keys : \E i \in DOMAIN granted'[l][j] : x = <<j, i>>
      BY DEF Grants
    <3>2. \A j \in Keys : DOMAIN granted'[l][j] =
                            IF j = k THEN DOMAIN g \cup {n} ELSE DOMAIN granted[l][j]
      BY <2>2, <2>3
    <3>3. QED
      BY <1>1, <3>1, <3>2, InGrants
  <2>6. <<k, n>> \notin Grants(l)
    <3>1. SUFFICES ASSUME <<k, n>> \in Grants(l) PROVE FALSE
      OBVIOUS
    <3>2. PICK j \in Keys : \E i \in DOMAIN granted[l][j] : <<k, n>> = <<j, i>>
      BY <3>1, InGrants
    <3>3. n \in DOMAIN g
      BY <1>1, <3>2
    <3>4. QED
      BY <1>2, <3>3
  <2>7. Grants(l)' = Grants(l) \cup {<<k, n>>}
    BY <2>5
  <2>8. IsFiniteSet(Grants(l)') /\ Cardinality(Grants(l)') = Cardinality(Grants(l)) + 1
    BY <2>6, <2>7, FS_AddElement
  <2>9. QED
    BY <1>3, <2>4, <2>8
<1>4. CASE ~ Allows(l, k)
  <2>1. granted' = granted
    BY <1>4 DEF Consume
  <2>2. \A m : Grants(m)' = Grants(m)
    BY <2>1 DEF Grants
  <2>3. Cardinality(Grants(l)) \in Nat
    BY FS_CardinalityType
  <2>4. QED
    BY <1>4, <2>2, <2>3
<1>5. QED
  BY <1>3, <1>4

\* The sets grow and shrink by one element at a time, however many keys and
\* requests there are.
BudgetInv ==
  /\ IsFiniteSet(Grants("ip")) /\ IsFiniteSet(Grants("email")) /\ IsFiniteSet(Waiting)
  /\ EmailBudgetIsPaid

LEMMA StartIsPaid == Started => BudgetInv
<1> SUFFICES ASSUME Started PROVE BudgetInv
  OBVIOUS
<1>1. \A l \in Limiters : Grants(l) = {}
  BY DEF Started, Grants
<1>2. Waiting = {}
  BY DEF Started, Waiting
<1>3. QED
  BY <1>1, <1>2, FS_EmptySet DEF BudgetInv, EmailBudgetIsPaid, Limiters

LEMMA StartIsPaidNext == Started' => BudgetInv'
BY StartIsPaid, PTL

LEMMA BudgetStep == IInv /\ BudgetInv /\ [Next]_vars => BudgetInv'
<1> SUFFICES ASSUME IInv, BudgetInv, [Next]_vars PROVE BudgetInv'
  OBVIOUS
<1>1. /\ Cardinality(Grants("ip")) \in Nat /\ Cardinality(Grants("email")) \in Nat
      /\ Cardinality(Waiting) \in Nat
  BY FS_CardinalityType DEF BudgetInv
<1>2. CASE \E p \in Requests, ip \in Ips, email \in Emails : LimitByIp(p, ip, email)
  <2>1. PICK p \in Requests, ip \in Ips, email \in Emails : LimitByIp(p, ip, email)
    BY <1>2
  <2>2. /\ Grants("email")' = Grants("email")
        /\ IsFiniteSet(Grants("ip")')
        /\ Cardinality(Grants("ip")') =
             Cardinality(Grants("ip")) + (IF Allows("ip", ip) THEN 1 ELSE 0)
    BY <2>1, CallGrants DEF LimitByIp, Limiters, Keys, IInv, BudgetInv
  <2>3. CASE Allows("ip", ip)
    <3>1. Waiting' = Waiting \cup {p} /\ p \notin Waiting
      BY <2>1, <2>3 DEF LimitByIp, Waiting, IInv, FlowsOK
    <3>2. IsFiniteSet(Waiting') /\ Cardinality(Waiting') = Cardinality(Waiting) + 1
      BY <3>1, FS_AddElement DEF BudgetInv
    <3>3. QED
      BY <1>1, <2>2, <2>3, <3>2 DEF BudgetInv, EmailBudgetIsPaid
  <2>4. CASE ~ Allows("ip", ip)
    <3>1. Waiting' = Waiting
      BY <2>1, <2>4 DEF LimitByIp, Waiting
    <3>2. QED
      BY <1>1, <2>2, <2>4, <3>1 DEF BudgetInv, EmailBudgetIsPaid
  <2>5. QED
    BY <2>3, <2>4
<1>3. CASE \E p \in Requests : LimitByEmail(p)
  <2>1. PICK p \in Requests : LimitByEmail(p)
    BY <1>3
  <2>2. arg[p].email \in Keys
    BY <2>1 DEF LimitByEmail, Keys, IInv, FlowsOK
  <2>3. /\ Grants("ip")' = Grants("ip")
        /\ IsFiniteSet(Grants("email")')
        /\ Cardinality(Grants("email")') =
             Cardinality(Grants("email")) + (IF Allows("email", arg[p].email) THEN 1 ELSE 0)
    BY <2>1, <2>2, CallGrants DEF LimitByEmail, Limiters, IInv, BudgetInv
  <2>4. Waiting' = Waiting \ {p} /\ p \in Waiting
    BY <2>1 DEF LimitByEmail, Waiting, IInv, FlowsOK
  <2>5. IsFiniteSet(Waiting') /\ Cardinality(Waiting') = Cardinality(Waiting) - 1
    BY <2>4, FS_RemoveElement DEF BudgetInv
  <2>6. QED
    BY <1>1, <2>3, <2>5 DEF BudgetInv, EmailBudgetIsPaid
<1>4. CASE Restart
  <2>1. Started'
    BY <1>4 DEF Restart, Started, IInv, Typed
  <2>2. QED
    BY <2>1, StartIsPaidNext
<1>5. CASE Tick \/ UNCHANGED vars
  <2>1. granted' = granted /\ pc' = pc
    BY <1>5 DEF Tick, vars
  <2>2. (\A l : Grants(l)' = Grants(l)) /\ Waiting' = Waiting
    BY <2>1 DEF Grants, Waiting
  <2>3. QED
    BY <2>2 DEF BudgetInv, EmailBudgetIsPaid
<1>6. QED
  BY <1>2, <1>3, <1>4, <1>5 DEF Next

\* An exhausted address cannot use up another's email: every unit of an email's
\* budget was paid for with one of an address's.
THEOREM EmailBudget == Spec => []EmailBudgetIsPaid
<1>1. Init => BudgetInv
  BY StartIsPaid, TimesAreNat DEF Init, Started
<1>2. QED
  BY <1>1, BudgetStep, Invariant, PTL DEF Spec, BudgetInv

-------------------------------------------------------------------------------
(* The limiter implements SlidingWindow                                    *)

\* Exactly the timestamps of the log a call works on are recent.
LEMMA RecentIsTail ==
  ASSUME Typed, LimitersOK, NEW l \in Limiters, NEW k \in KeysOf(l),
         NEW a, a = Alive(l, Log(Tidy(l, store[l]), k))
  PROVE  /\ W!Cardinality(W!Recent(l, k)) = Len(a)
         /\ Len(a) > 0 => granted[l][k][W!Earliest(W!Recent(l, k))] = Head(a)
<1>1. PICK g, d : g = granted[l][k] /\ d = Len(g) - Len(a)
  OBVIOUS
<1>2. /\ k \in Keys /\ clock \in Nat /\ g \in Seq(Nat) /\ Len(g) \in Nat
      /\ Exact(a, g, clock - Window[l]) /\ a \in Seq(Nat) /\ Len(a) \in Nat
  BY <1>1, CalledLog, FactsShow, Numbers
<1>3. d \in Nat /\ Len(g) = d + Len(a)
  BY <1>1, <1>2 DEF Exact, Shows
<1>4. ASSUME NEW n \in 1..Len(g)
      PROVE  g[n] + Window[l] > clock <=> n > d
  <2>1. g[n] \in Nat
    BY <1>2
  <2>2. CASE n > d
    <3>1. PICK m : m = n - d
      OBVIOUS
    <3>2. m \in 1..Len(a) /\ n = d + m
      BY <1>2, <1>3, <2>2, <3>1
    <3>3. a[m] = g[n] /\ a[m] > clock - Window[l]
      BY <1>1, <1>2, <3>2 DEF Exact, Shows
    <3>4. QED
      BY <1>2, <2>1, <2>2, <3>3, Numbers
  <2>3. CASE ~ (n > d)
    <3>1. n \in 1..(Len(g) - Len(a))
      <4>1. PICK q, r \in Nat : q = Len(g) /\ r = Len(a) /\ q = d + r
        BY <1>2, <1>3
      <4>2. n \in 1..q /\ ~ (n > d)
        BY <2>3, <4>1
      <4>3. n \in 1..(q - r)
        BY <1>3, <4>1, <4>2
      <4>4. QED
        BY <4>1, <4>3
    <3>2. g[n] <= clock - Window[l]
      BY <1>2, <3>1 DEF Exact, Shows
    <3>3. QED
      BY <1>2, <2>1, <2>3, <3>2, Numbers
  <2>4. QED
    BY <2>2, <2>3
<1>5. PICK R : R = W!Recent(l, k)
  OBVIOUS
<1>6. R = {n \in 1..Len(g) : n > d}
  <2>1. DOMAIN g = 1..Len(g)
    BY <1>2
  <2>2. R = {n \in DOMAIN g : g[n] + Window[l] > clock}
    BY <1>1, <1>5 DEF W!Recent
  <2>3. QED
    BY <1>4, <2>1, <2>2
<1>7. R = (d + 1)..Len(g)
  BY <1>2, <1>3, <1>6
<1>8. Cardinality(R) = Len(a)
  <2>1. PICK q, r \in Nat : q = Len(g) /\ r = Len(a) /\ q = d + r
    BY <1>2, <1>3
  <2>2. PICK e \in Int : e = d + 1
    BY <1>3
  <2>3. q \in Int
    BY <2>1
  <2>4. Cardinality(e..q) = IF e > q THEN 0 ELSE q - e + 1
    BY <2>2, <2>3, FS_Interval, Zenon
  <2>5. (IF e > q THEN 0 ELSE q - e + 1) = r
    BY <1>3, <2>1, <2>2
  <2>6. R = e..q
    BY <1>7, <2>1, <2>2
  <2>7. QED
    BY <2>1, <2>4, <2>5, <2>6
<1>9. W!Cardinality(R) = Cardinality(R)
  BY DEF W!Cardinality, Cardinality
<1>10. ASSUME Len(a) > 0
       PROVE  g[W!Earliest(R)] = Head(a)
  <2>1. d + 1 \in R /\ \A m \in R : d + 1 <= m
    BY <1>2, <1>3, <1>7, <1>10
  <2>2. \A n \in R : (\A m \in R : n <= m) => n = d + 1
    BY <1>3, <1>7, <2>1
  <2>3. W!Earliest(R) = d + 1
    BY <2>1, <2>2 DEF W!Earliest
  <2>4. 1 \in 1..Len(a) /\ Head(a) = a[1]
    BY <1>2, <1>10
  <2>5. a[1] = g[d + 1]
    BY <1>1, <1>2, <2>4 DEF Exact, Shows
  <2>6. QED
    BY <2>3, <2>4, <2>5
<1>11. QED
  BY <1>1, <1>5, <1>8, <1>9, <1>10

\* A call is a grant or a refusal of the abstract limiter.
LEMMA ConsumeStep ==
  ASSUME Typed, LimitersOK, UNCHANGED clock, NEW l \in Limiters, NEW k \in KeysOf(l),
         Consume(l, k)
  PROVE  W!Grant(l, k) \/ W!Refuse(l, k)
<1>1. PICK a, g : a = Alive(l, Log(Tidy(l, store[l]), k)) /\ g = granted[l][k]
  OBVIOUS
<1>2. \/ Len(a) < Limit[l] /\ Called(l, k, Append(a, clock), Append(g, clock), None)
      \/ Len(a) = Limit[l] /\ Called(l, k, a, g, Head(a) + Window[l])
  BY <1>1, ConsumeIs
<1>3. /\ W!Cardinality(W!Recent(l, k)) = Len(a)
      /\ Len(a) > 0 => g[W!Earliest(W!Recent(l, k))] = Head(a)
  BY <1>1, RecentIsTail
<1>4. k \in Keys /\ Limit[l] \in Nat \ {0}
  BY Numbers DEF KeysOf, Keys
<1>5. CASE Len(a) < Limit[l] /\ Called(l, k, Append(a, clock), Append(g, clock), None)
  <2>1. granted' = [granted EXCEPT ![l][k] = Append(@, clock)]
    BY <1>1, <1>4, <1>5 DEF Called, Typed
  <2>2. QED
    BY <1>3, <1>5, <2>1 DEF Called, W!Grant
<1>6. CASE Len(a) = Limit[l] /\ Called(l, k, a, g, Head(a) + Window[l])
  <2>1. granted' = granted
    BY <1>1, <1>4, <1>6 DEF Called, Typed
  <2>2. Len(a) >= Limit[l] /\ Len(a) > 0
    BY <1>4, <1>6
  <2>3. answer' = [answer EXCEPT ![l][k] = g[W!Earliest(W!Recent(l, k))] + Window[l]]
    BY <1>3, <1>6, <2>2 DEF Called
  <2>4. QED
    BY <1>1, <1>3, <2>1, <2>2, <2>3 DEF W!Refuse
<1>7. QED
  BY <1>2, <1>5, <1>6

\* Forgetting timestamps outside the window, trimming logs and sweeping keys
\* never changes an answer: the limiter answers as if it remembered everything.
THEOREM WindowRefinement == Spec => ImplementsWindow
<1>1. Init => W!Init
  BY DEF Init, W!Init
<1>2. IInv /\ [Next]_vars => [W!Next]_W!vars
  <2> SUFFICES ASSUME IInv, [Next]_vars PROVE [W!Next]_W!vars
    OBVIOUS
  <2>1. CASE \E p \in Requests, ip \in Ips, email \in Emails : LimitByIp(p, ip, email)
    <3>1. PICK p \in Requests, ip \in Ips, email \in Emails : LimitByIp(p, ip, email)
      BY <2>1
    <3>2. /\ "ip" \in Limiters /\ ip \in KeysOf("ip") /\ ip \in Keys
          /\ Consume("ip", ip) /\ UNCHANGED clock
      BY <3>1 DEF LimitByIp, Limiters, KeysOf, Keys
    <3>3. W!Grant("ip", ip) \/ W!Refuse("ip", ip)
      BY <3>2, ConsumeStep DEF IInv
    <3>4. QED
      BY <3>2, <3>3 DEF W!Next
  <2>2. CASE \E p \in Requests : LimitByEmail(p)
    <3>1. PICK p \in Requests : LimitByEmail(p)
      BY <2>2
    <3>2. PICK email : email = arg[p].email
      OBVIOUS
    <3>3. /\ "email" \in Limiters /\ email \in KeysOf("email") /\ email \in Keys
          /\ Consume("email", email) /\ UNCHANGED clock
      BY <3>1, <3>2 DEF LimitByEmail, Limiters, KeysOf, Keys, IInv, FlowsOK
    <3>4. W!Grant("email", email) \/ W!Refuse("email", email)
      BY <3>3, ConsumeStep DEF IInv
    <3>5. QED
      BY <3>3, <3>4 DEF W!Next
  <2>3. CASE Tick
    <3>1. clock \in Nat /\ clock' = clock + 1
      BY <2>3, TimesAreNat DEF Tick, IInv, Typed
    <3>2. W!Tick
      BY <2>3, <3>1 DEF Tick, W!Tick
    <3>3. QED
      BY <3>2 DEF W!Next
  <2>4. CASE Restart
    BY <2>4 DEF Restart, W!Forget, W!Next
  <2>5. CASE UNCHANGED vars
    BY <2>5 DEF vars, W!vars
  <2>6. QED
    BY <2>1, <2>2, <2>3, <2>4, <2>5 DEF Next
<1>3. QED
  BY <1>1, <1>2, Invariant, PTL DEF Spec, ImplementsWindow, W!Spec
===============================================================================
