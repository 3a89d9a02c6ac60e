----------------------------- MODULE SlidingWindow -----------------------------
(***************************************************************************)
(* What a rate limiter promises: it remembers every request it let         *)
(* through, lets a key through while fewer than max(l) of them fall in the *)
(* last Window[l] units of time, and tells a refused caller how long it is    *)
(* until one of them leaves the window.  A restart forgets everything.     *)
(***************************************************************************)
EXTENDS Naturals, Sequences, FiniteSets

CONSTANTS Limiters, Keys, Limit, Window, None

VARIABLES
  now,
  granted,        \* granted[l][k]: when key k was let through, in order
  answer          \* the last answer of l to k: None, or a wait

vars == <<now, granted, answer>>

Recent(l, k) == {n \in DOMAIN granted[l][k] : granted[l][k][n] + Window[l] > now}

Earliest(S) == CHOOSE n \in S : \A m \in S : n <= m

Init ==
  /\ now = 0
  /\ granted = [l \in Limiters |-> [k \in Keys |-> <<>>]]
  /\ answer = [l \in Limiters |-> [k \in Keys |-> None]]

Grant(l, k) ==
  /\ Cardinality(Recent(l, k)) < Limit[l]
  /\ granted' = [granted EXCEPT ![l][k] = Append(@, now)]
  /\ answer' = [answer EXCEPT ![l][k] = None]
  /\ UNCHANGED now

Refuse(l, k) ==
  /\ Cardinality(Recent(l, k)) >= Limit[l]
  /\ answer' = [answer EXCEPT ![l][k] =
       granted[l][k][Earliest(Recent(l, k))] + Window[l]]
  /\ UNCHANGED <<now, granted>>

Forget ==
  /\ granted' = [l \in Limiters |-> [k \in Keys |-> <<>>]]
  /\ answer' = [l \in Limiters |-> [k \in Keys |-> None]]
  /\ UNCHANGED now

Tick ==
  /\ now' > now
  /\ UNCHANGED <<granted, answer>>

Next ==
  \/ \E l \in Limiters, k \in Keys : Grant(l, k) \/ Refuse(l, k)
  \/ Forget
  \/ Tick

Spec == Init /\ [][Next]_vars
===============================================================================
