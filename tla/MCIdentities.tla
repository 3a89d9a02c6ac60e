------------------------------ MODULE MCIdentities ------------------------------
(***************************************************************************)
(* Identities on a small instance: an account, active or suspended, with   *)
(* an address and an identity, and one more of each for whoever is first.  *)
(***************************************************************************)
EXTENDS IdentitiesDirectory, TLC

CONSTANTS r1, e1, i1

MCResident == r1 :> [email |-> e1, identity |-> i1]
===============================================================================
