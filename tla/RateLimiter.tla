------------------------------ MODULE RateLimiter ------------------------------
(***************************************************************************)
(* The in-memory rate limiters, and the flows that consume two of them:    *)
(* first the one keyed by the client's IP address, then the one keyed by   *)
(* the email (login, resending a verification, asking for a reset).        *)
(*                                                                         *)
(* limit() has no await inside, so a call is one step of the event loop;   *)
(* between the two calls of a flow other requests run.  The stores live in *)
(* the process: a restart loses them.                                      *)
(***************************************************************************)
EXTENDS Integers, Sequences, FiniteSets

CONSTANTS
  Ips,            \* client addresses, as HMAC keys
  Emails,         \* the second keys
  Requests,       \* flows in progress at a time
  None,
  Limit,          \* max of each limiter
  Window,         \* windowMs of each limiter
  Threshold,      \* SWEEP_KEY_THRESHOLD
  MaxClock        \* bound on the clock

Limiters == {"ip", "email"}

Keys == Ips \cup Emails

ASSUME LimitAssumption ==
  /\ Limit \in [Limiters -> Nat \ {0}]
  /\ Window \in [Limiters -> Nat \ {0}] /\ Threshold \in Nat /\ MaxClock \in Nat
  /\ None \notin Keys \cup Nat /\ Ips \cap Emails = {}

VARIABLES
  clock,          \* Date.now(), which never goes back
  store,          \* store[l]: the Map from keys to timestamps
  pc,             \* where each flow is
  arg,            \* its address and email
  granted,        \* history: when each key was let through
  answer          \* history: when a refused key may come back, or None

vars == <<clock, store, pc, arg, granted, answer>>

-------------------------------------------------------------------------------
(* createMemoryRateLimiter *)

\* The timestamps of a log from its first one after t.
After(log, t) ==
  LET first == CHOOSE n \in 1..Len(log) + 1 :
        /\ \A m \in 1..(n - 1) : log[m] <= t
        /\ n <= Len(log) => log[n] > t
  IN  SubSeq(log, first, Len(log))

\* Fault: a timestamp is forgotten one unit too early.
AliveShort(l, log) == After(log, clock - Window[l] + 1)

\* filter(t > now - windowMs).  Logs are in order (TypeOK), so what it keeps is
\* the tail.
Alive(l, log) == After(log, clock - Window[l])

\* The timestamps of a key; a key the Map does not have counts as none.
Log(map, k) == IF k \in DOMAIN map THEN map[k] ELSE <<>>

Put(map, k, log) == [x \in DOMAIN map \cup {k} |-> IF x = k THEN log ELSE map[x]]

\* Fault: a key is removed with its first expired timestamp.
SweptAll(l, map) ==
  [k \in {x \in DOMAIN map : Alive(l, map[x]) = map[x]} |-> map[k]]

\* Removes the keys with nothing left in the window, and trims the others.
Swept(l, map) ==
  [k \in {x \in DOMAIN map : Alive(l, map[x]) # <<>>} |-> Alive(l, map[k])]

\* Every call sweeps first when there are too many keys.
Tidy(l, map) == IF Cardinality(DOMAIN map) > Threshold THEN Swept(l, map) ELSE map

Allows(l, k) == Len(Alive(l, Log(Tidy(l, store[l]), k))) < Limit[l]

\* Fault: refused calls are remembered too.
ConsumeAlways(l, k) ==
  LET map == Tidy(l, store[l])
      alive == Alive(l, Log(map, k))
  IN  /\ store' = [store EXCEPT ![l] = Put(map, k, Append(alive, clock))]
      /\ granted' = IF Allows(l, k)
           THEN [granted EXCEPT ![l][k] = Append(@, clock)] ELSE granted
      /\ answer' = [answer EXCEPT ![l][k] =
           IF Allows(l, k) THEN None ELSE Head(alive) + Window[l]]

\* Fault: the wait is counted from the newest timestamp.
ConsumeNewest(l, k) ==
  LET map == Tidy(l, store[l])
      alive == Alive(l, Log(map, k))
  IN  IF Allows(l, k)
        THEN /\ store' = [store EXCEPT ![l] = Put(map, k, Append(alive, clock))]
             /\ granted' = [granted EXCEPT ![l][k] = Append(@, clock)]
             /\ answer' = [answer EXCEPT ![l][k] = None]
        ELSE /\ store' = [store EXCEPT ![l] = Put(map, k, alive)]
             /\ answer' = [answer EXCEPT ![l][k] = alive[Len(alive)] + Window[l]]
             /\ UNCHANGED granted

\* limit(): what it does to the store, and what it answers
Consume(l, k) ==
  LET map == Tidy(l, store[l])
      alive == Alive(l, Log(map, k))
  IN  IF Allows(l, k)
        THEN /\ store' = [store EXCEPT ![l] = Put(map, k, Append(alive, clock))]
             /\ granted' = [granted EXCEPT ![l][k] = Append(@, clock)]
             /\ answer' = [answer EXCEPT ![l][k] = None]
        ELSE /\ store' = [store EXCEPT ![l] = Put(map, k, alive)]
             /\ answer' = [answer EXCEPT ![l][k] = Head(alive) + Window[l]]
             /\ UNCHANGED granted

-------------------------------------------------------------------------------
(* The flows: enforceLimit on the IP, then on the email                     *)

Empty == [l \in Limiters |-> [k \in {} |-> <<>>]]

Blank == [ip |-> None, email |-> None]

Init ==
  /\ clock = 0
  /\ store = Empty
  /\ pc = [p \in Requests |-> "idle"]
  /\ arg = [p \in Requests |-> Blank]
  /\ granted = [l \in Limiters |-> [k \in Keys |-> <<>>]]
  /\ answer = [l \in Limiters |-> [k \in Keys |-> None]]

\* Fault: the second limiter is consumed even when the first one refused.
LimitByBoth(p, ip, email) ==
  /\ pc[p] = "idle"
  /\ Consume("ip", ip)
  /\ pc' = [pc EXCEPT ![p] = "email"]
  /\ arg' = [arg EXCEPT ![p] = [ip |-> ip, email |-> email]]
  /\ UNCHANGED clock

LimitByIp(p, ip, email) ==
  /\ pc[p] = "idle"
  /\ Consume("ip", ip)
  /\ IF Allows("ip", ip)
       THEN /\ pc' = [pc EXCEPT ![p] = "email"]
            /\ arg' = [arg EXCEPT ![p] = [ip |-> ip, email |-> email]]
       ELSE UNCHANGED <<pc, arg>>
  /\ UNCHANGED clock

LimitByEmail(p) ==
  /\ pc[p] = "email"
  /\ Consume("email", arg[p].email)
  /\ pc' = [pc EXCEPT ![p] = "idle"]
  /\ arg' = [arg EXCEPT ![p] = Blank]
  /\ UNCHANGED clock

Tick ==
  /\ clock < MaxClock
  /\ clock' = clock + 1
  /\ UNCHANGED <<store, pc, arg, granted, answer>>

\* The process dies with its stores and requests, and starts again.
Restart ==
  /\ store' = Empty
  /\ pc' = [p \in Requests |-> "idle"]
  /\ arg' = [p \in Requests |-> Blank]
  /\ granted' = [l \in Limiters |-> [k \in Keys |-> <<>>]]
  /\ answer' = [l \in Limiters |-> [k \in Keys |-> None]]
  /\ UNCHANGED clock

Next ==
  \/ \E p \in Requests :
       \/ \E ip \in Ips, email \in Emails : LimitByIp(p, ip, email)
       \/ LimitByEmail(p)
  \/ Tick
  \/ Restart

Spec == Init /\ [][Next]_vars

-------------------------------------------------------------------------------
(* Properties *)

Times == 0..MaxClock

\* The stores map known keys to timestamps of the past, in order, never more
\* than the limit, and never to an empty log.
TypeOK ==
  /\ clock \in Times
  /\ store = [l \in Limiters |-> store[l]]
  /\ \A l \in Limiters :
       /\ store[l] \in [DOMAIN store[l] -> Seq(0..clock)]
       /\ DOMAIN store[l] \subseteq (IF l = "ip" THEN Ips ELSE Emails)
       /\ \A k \in DOMAIN store[l] :
            /\ Len(store[l][k]) \in 1..Limit[l]
            /\ \A n \in 1..Len(store[l][k]), m \in 1..Len(store[l][k]) :
                 m <= n => store[l][k][m] <= store[l][k][n]
  /\ pc \in [Requests -> {"idle", "email"}]
  /\ arg \in [Requests -> [ip : Ips \cup {None}, email : Emails \cup {None}]]
  /\ granted \in [Limiters -> [Keys -> Seq(Times)]]
  /\ answer \in [Limiters -> [Keys -> Nat \cup {None}]]

\* In no stretch of time as long as the window is a key let through more often
\* than the limit, whatever was swept or trimmed in between.
NeverOverTheLimit ==
  \A l \in Limiters, k \in Keys :
    \A n \in DOMAIN granted[l][k] :
      n + Limit[l] \in DOMAIN granted[l][k] =>
        granted[l][k][n + Limit[l]] >= granted[l][k][n] + Window[l]

\* A caller told to come back after some time is refused until then and, if
\* nobody else was let through for its key, allowed from then on.
RetryAfterIsExact ==
  \A l \in Limiters, k \in Keys :
    answer[l][k] # None => (Allows(l, k) <=> clock >= answer[l][k])

\* The calls a limiter has let through, numbered for each key
Grants(l) == UNION {{k} \X DOMAIN granted[l][k] : k \in Keys}

\* Flows that have passed the first limiter and not yet come to the second
Waiting == {p \in Requests : pc[p] = "email"}

\* An exhausted address cannot use up another's email: every unit of an email's
\* budget was paid for with one of an address's.
EmailBudgetIsPaid ==
  Cardinality(Grants("email")) + Cardinality(Waiting) <= Cardinality(Grants("ip"))

W == INSTANCE SlidingWindow WITH now <- clock

\* Forgetting timestamps outside the window, trimming logs and sweeping keys
\* never changes an answer: the limiter answers as if it remembered everything.
ImplementsWindow == W!Spec
===============================================================================
