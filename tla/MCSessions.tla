------------------------------- MODULE MCSessions -------------------------------
(***************************************************************************)
(* Sessions on a small instance: an account that has a password or came by *)
(* OAuth, up to two resets.                                                *)
(***************************************************************************)
EXTENDS Sessions, TLC

MCInitialUsers ==
  {[status |-> "ACTIVE", verified |-> v, oauth |-> FALSE, password |-> 0] : v \in BOOLEAN}
  \cup {[status |-> "ACTIVE", verified |-> TRUE, oauth |-> TRUE, password |-> None]}

Symmetry == Permutations(Requests)
===============================================================================
