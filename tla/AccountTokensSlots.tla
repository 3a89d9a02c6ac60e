--------------------------- MODULE AccountTokensSlots ---------------------------
(***************************************************************************)
(* AccountTokens implements TokenSlots: the slot of an account is the one  *)
(* unused row its owner has in the table of that kind.                     *)
(***************************************************************************)
EXTENDS AccountTokens

Working(u, k) == {t \in Tokens : Unused(t, k, u)}

AnyOf(S) == IF S = {} THEN None ELSE CHOOSE t \in S : TRUE

Slot(u, k) == AnyOf(Working(u, k))

Abstract == INSTANCE TokenSlots WITH
  slot    <- [u \in Users |-> [k \in Kinds |-> Slot(u, k)]],
  known   <- {t \in Tokens : token[t].state # "unborn"},
  account <- [u \in Users |-> [deleted  |-> user[u].status = "DELETED",
                               verified |-> user[u].verified,
                               password |-> user[u].password]]

\* Whatever requests overlap, and wherever they are aborted, the committed rows
\* change as if each link were issued, used and revoked in one step: a row lock
\* stands between the statements of replaceToken, resetPassword and the
\* deletion and whoever could see them half done.
ImplementsSlots == Abstract!Spec
===============================================================================
