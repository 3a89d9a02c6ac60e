----------------------------- MODULE MCRateLimiter -----------------------------
(***************************************************************************)
(* RateLimiter on a small instance: two addresses, one email, limits of     *)
(* two and one, windows of three and two units, and a sweep as soon as a   *)
(* store has two keys.                                                     *)
(***************************************************************************)
EXTENDS RateLimiter, TLC

MCLimit == [l \in Limiters |-> IF l = "ip" THEN 2 ELSE 1]

\* As those of a verification that is sent again
MCWindow == [l \in Limiters |-> IF l = "ip" THEN 3 ELSE 2]

Symmetry == Permutations(Requests) \cup Permutations(Ips)
===============================================================================
