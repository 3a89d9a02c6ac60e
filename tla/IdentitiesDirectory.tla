--------------------------- MODULE IdentitiesDirectory ---------------------------
(***************************************************************************)
(* Identities implements IdentityDirectory.                                *)
(***************************************************************************)
EXTENDS Identities

Holder(e) == IF Holders(e) = {} THEN None ELSE CHOOSE u \in Holders(e) : TRUE

Directory == INSTANCE IdentityDirectory WITH
  holder <- [e \in Emails |-> Holder(e)],
  owner  <- account,
  known  <- {u \in Users : Exists(u)},
  closed <- {u \in Users : user[u].status = "DELETED"}

\* Whatever requests overlap and wherever they fail, the committed rows change
\* as if each account were created, with its email and identity, and closed in
\* one step, and no address or identity ever passes between two live accounts.
ImplementsDirectory == Directory!Spec
===============================================================================
