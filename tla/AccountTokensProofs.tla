-------------------------- MODULE AccountTokensProofs --------------------------
(***************************************************************************)
(* Theorems about AccountTokens and their proofs.                          *)
(***************************************************************************)
EXTENDS AccountTokensSlots, TLAPS

(* Program points at which a request's user, and its token, is known. *)
WithUser == {"oblige", "lock", "replace", "create", "update", "purge", "reset-commit",
             "delete-lock", "delete-claim", "recheck", "erase", "delete-commit"}

WithToken == {"mail", "claim", "classify"} \cup Claimed \cup {"delete-lock", "delete-claim"}
             \cup Successes

DeletionSteps == {"delete-lock", "delete-claim", "recheck", "erase", "delete-commit"}

Born(t) == token[t].state # "unborn"

\* Whatever names a token names one that was issued: a mailbox, a lock, a request.
BornOK ==
  /\ \A t \in Tokens : Born(t) <=> token[t].owner \in Users
  /\ \A t \in Tokens : t \in mailed \/ tokenLock[t] # None => Born(t)

\* What a request's program point says of its arguments.
ControlOK ==
  /\ BornOK
  /\ \A p \in Requests :
       /\ pc[p] \in WithUser => arg[p].uid \in Users
       /\ pc[p] \in WithToken => arg[p].tok \in Tokens /\ Born(arg[p].tok)
       /\ pc[p] \in WithToken \ {"mail"} => arg[p].tok \in mailed
       /\ pc[p] \in {"claim", "update"} => arg[p].op \in {"verify", "reset"}
       /\ pc[p] \in {"purge", "reset-commit"} => arg[p].op = "reset"
       /\ pc[p] \in DeletionSteps => arg[p].op = "delete"

-------------------------------------------------------------------------------
(* The rows after each commit, field by field.                             *)

\* Only the state of the row of t may change in this step.
SameButState(t) ==
  /\ token'[t].kind = token[t].kind
  /\ token'[t].owner = token[t].owner
  /\ token'[t].expiresAt = token[t].expiresAt

StateWithoutLocked(p, t) == IF tokenLock[t] = p THEN "deleted" ELSE token[t].state

\* Writing the state of a token row leaves its other columns alone.
LEMMA RowState ==
  ASSUME NEW r \in Token, NEW s \in {"unused", "used", "deleted"}
  PROVE  /\ [r EXCEPT !.state = s] \in Token
         /\ [r EXCEPT !.state = s].state = s
         /\ [r EXCEPT !.state = s].kind = r.kind
         /\ [r EXCEPT !.state = s].owner = r.owner
         /\ [r EXCEPT !.state = s].expiresAt = r.expiresAt
BY DEF Token

\* Writing one row of a table leaves the others alone.
LEMMA OneRow ==
  ASSUME NEW D, NEW R, NEW f \in [D -> R], NEW d \in D, NEW r \in R
  PROVE  /\ [f EXCEPT ![d] = r] \in [D -> R]
         /\ [f EXCEPT ![d] = r][d] = r
         /\ \A e \in D \ {d} : [f EXCEPT ![d] = r][e] = f[e]
OBVIOUS

\* Deleting the rows a transaction has locked touches no other row.
LEMMA LockedRows ==
  ASSUME TypeOK, NEW p \in Requests
  PROVE  /\ WithoutLocked(p) \in [Tokens -> Token]
         /\ \A t \in Tokens :
              /\ WithoutLocked(p)[t].state = StateWithoutLocked(p, t)
              /\ WithoutLocked(p)[t].kind = token[t].kind
              /\ WithoutLocked(p)[t].owner = token[t].owner
              /\ WithoutLocked(p)[t].expiresAt = token[t].expiresAt
<1>1. ASSUME NEW t \in Tokens
      PROVE  /\ WithoutLocked(p)[t] \in Token
             /\ WithoutLocked(p)[t].state = StateWithoutLocked(p, t)
             /\ WithoutLocked(p)[t].kind = token[t].kind
             /\ WithoutLocked(p)[t].owner = token[t].owner
             /\ WithoutLocked(p)[t].expiresAt = token[t].expiresAt
  <2>1. token[t] \in Token
    BY DEF TypeOK
  <2>2. PICK r : r = [token[t] EXCEPT !.state = "deleted"]
    OBVIOUS
  <2>3. r \in Token /\ r.state = "deleted" /\ r.kind = token[t].kind
        /\ r.owner = token[t].owner /\ r.expiresAt = token[t].expiresAt
    BY <2>1, <2>2, RowState
  <2>4. WithoutLocked(p)[t] = IF tokenLock[t] = p THEN r ELSE token[t]
    BY <2>2 DEF WithoutLocked
  <2>5. QED
    BY <2>1, <2>3, <2>4 DEF StateWithoutLocked
<1>2. WithoutLocked(p) \in [Tokens -> Token]
  BY <1>1 DEF WithoutLocked
<1>3. QED
  BY <1>1, <1>2

\* A commit that writes state s on the row of one token and leaves the others
\* as f has them.
LEMMA StateOfOneRow ==
  ASSUME NEW f \in [Tokens -> Token], NEW t \in Tokens, NEW s \in {"unused", "used",
         "deleted"},
         NEW g, g = [f EXCEPT ![t] = [@ EXCEPT !.state = s]]
  PROVE  /\ g \in [Tokens -> Token]
         /\ g[t].state = s
         /\ \A e \in Tokens :
              /\ e # t => g[e].state = f[e].state
              /\ g[e].kind = f[e].kind
              /\ g[e].owner = f[e].owner
              /\ g[e].expiresAt = f[e].expiresAt
<1>1. PICK r : r = [f[t] EXCEPT !.state = s]
  OBVIOUS
<1>2. f[t] \in Token
  OBVIOUS
<1>3. r \in Token /\ r.state = s /\ r.kind = f[t].kind /\ r.owner = f[t].owner
      /\ r.expiresAt = f[t].expiresAt
  BY <1>1, <1>2, RowState
<1>4. g = [f EXCEPT ![t] = r]
  BY <1>1
<1>5. g \in [Tokens -> Token] /\ g[t] = r /\ \A e \in Tokens \ {t} : g[e] = f[e]
  BY <1>3, <1>4, OneRow
<1>6. QED
  BY <1>3, <1>5

\* verifyEmail's commit spends the claimed row and no other.
LEMMA VerifiedRows ==
  ASSUME TypeOK, ControlOK, NEW p \in Requests, UpdateVerified(p)
  PROVE  /\ token' \in [Tokens -> Token]
         /\ \A t \in Tokens :
              /\ SameButState(t)
              /\ token'[t].state = IF t = arg[p].tok THEN "used" ELSE token[t].state
<1>1. arg[p].tok \in Tokens /\ token \in [Tokens -> Token]
  BY DEF UpdateVerified, Goto, ControlOK, WithToken, Claimed, TypeOK
<1>2. token' = [token EXCEPT ![arg[p].tok] = [@ EXCEPT !.state = "used"]]
  BY DEF UpdateVerified
<1>3. QED
  BY <1>1, <1>2, StateOfOneRow DEF SameButState

\* resetPassword's commit spends the claimed row and deletes the other locked
\* ones.
LEMMA ResetRows ==
  ASSUME TypeOK, ControlOK, NEW p \in Requests, CommitReset(p)
  PROVE  /\ token' \in [Tokens -> Token]
         /\ \A t \in Tokens :
              /\ SameButState(t)
              /\ token'[t].state = IF t = arg[p].tok THEN "used" ELSE StateWithoutLocked(p, t)
<1>1. arg[p].tok \in Tokens
  BY DEF CommitReset, Goto, ControlOK, WithToken, Claimed
<1>2. token' = [WithoutLocked(p) EXCEPT ![arg[p].tok] = [@ EXCEPT !.state = "used"]]
  BY DEF CommitReset
<1>3. QED
  BY <1>1, <1>2, LockedRows, StateOfOneRow DEF SameButState

\* replaceToken's commit deletes the locked rows and adds the row of t.
LEMMA CreatedRows ==
  ASSUME TypeOK, ControlOK, NEW p \in Requests, NEW t \in Tokens, CreateToken(p, t)
  PROVE  /\ token' \in [Tokens -> Token]
         /\ \A s \in Tokens \ {t} :
              SameButState(s) /\ token'[s].state = StateWithoutLocked(p, s)
         /\ token'[t].state = "unused"
         /\ token'[t].kind = arg[p].op
         /\ token'[t].owner = arg[p].uid
<1>1. PICK r : r = [state |-> "unused", kind |-> arg[p].op, owner |-> arg[p].uid,
                    expiresAt |-> arg[p].now + Ttl[arg[p].op]]
  OBVIOUS
<1>2. /\ r \in Token
      /\ r.state = "unused" /\ r.kind = arg[p].op /\ r.owner = arg[p].uid
  BY <1>1, TtlAssumption DEF TypeOK, Argument, Token
<1>3. token' = [WithoutLocked(p) EXCEPT ![t] = r]
  BY <1>1 DEF CreateToken
<1>4. QED
  BY <1>2, <1>3, LockedRows, OneRow DEF SameButState

\* The deletion's commit deletes the locked rows.
LEMMA ErasedRows ==
  ASSUME TypeOK, NEW p \in Requests, CommitDeletion(p)
  PROVE  /\ token' \in [Tokens -> Token]
         /\ \A t \in Tokens : SameButState(t) /\ token'[t].state = StateWithoutLocked(p, t)
<1>1. token' = WithoutLocked(p)
  BY DEF CommitDeletion
<1>2. QED
  BY <1>1, LockedRows DEF SameButState

\* Writing columns of a User row leaves its other columns alone.
LEMMA VerifiedColumn ==
  ASSUME NEW r \in User, NEW s, s = [r EXCEPT !.verified = TRUE]
  PROVE  s \in User /\ s.status = r.status /\ s.verified = TRUE /\ s.password = r.password
BY DEF User

LEMMA PasswordColumn ==
  ASSUME NEW r \in User, NEW h \in Passwords, NEW s, s = [r EXCEPT !.password = h]
  PROVE  s \in User /\ s.status = r.status /\ s.verified = r.verified /\ s.password = h
BY DEF User

\* verifyEmail's commit verifies the account of the request and no other.
LEMMA VerifiedUser ==
  ASSUME TypeOK, ControlOK, NEW p \in Requests, UpdateVerified(p)
  PROVE  /\ arg[p].uid \in Users
         /\ user' \in [Users -> User]
         /\ \A u \in Users \ {arg[p].uid} : user'[u] = user[u]
         /\ user'[arg[p].uid].status = user[arg[p].uid].status
         /\ user'[arg[p].uid].verified = TRUE
         /\ user'[arg[p].uid].password = user[arg[p].uid].password
<1>1. PICK u : u = arg[p].uid
  OBVIOUS
<1>2. u \in Users /\ user \in [Users -> User] /\ user[u] \in User
  BY <1>1 DEF UpdateVerified, Goto, ControlOK, WithUser, TypeOK
<1>3. PICK r : r = [user[u] EXCEPT !.verified = TRUE]
  OBVIOUS
<1>4. user' = [user EXCEPT ![u] = r]
  BY <1>1, <1>3 DEF UpdateVerified
<1>5. None \in Passwords
  BY DEF Passwords
<1>6. r \in User /\ r.status = user[u].status /\ r.verified = TRUE /\ r.password = user[u].password
  BY <1>2, <1>3, <1>5, VerifiedColumn
<1>7. user' \in [Users -> User] /\ user'[u] = r /\ \A v \in Users \ {u} : user'[v] = user[v]
  BY <1>2, <1>4, <1>6, OneRow
<1>8. QED
  BY <1>1, <1>2, <1>3, <1>6, <1>7

\* resetPassword's commit stores the request's hash on its account and no other.
LEMMA ResetUser ==
  ASSUME TypeOK, ControlOK, NEW p \in Requests, CommitReset(p)
  PROVE  /\ arg[p].uid \in Users
         /\ user' \in [Users -> User]
         /\ \A u \in Users \ {arg[p].uid} : user'[u] = user[u]
         /\ user'[arg[p].uid].status = user[arg[p].uid].status
         /\ user'[arg[p].uid].verified = user[arg[p].uid].verified
         /\ user'[arg[p].uid].password = p
<1>1. PICK u : u = arg[p].uid
  OBVIOUS
<1>2. u \in Users /\ user \in [Users -> User] /\ user[u] \in User
  BY <1>1 DEF CommitReset, Goto, ControlOK, WithUser, TypeOK
<1>3. PICK r : r = [user[u] EXCEPT !.password = p]
  OBVIOUS
<1>4. user' = [user EXCEPT ![u] = r]
  BY <1>1, <1>3 DEF CommitReset
<1>5. p \in Passwords
  BY DEF Passwords
<1>6. r \in User /\ r.status = user[u].status /\ r.verified = user[u].verified /\ r.password = p
  BY <1>2, <1>3, <1>5, PasswordColumn
<1>7. user' \in [Users -> User] /\ user'[u] = r /\ \A v \in Users \ {u} : user'[v] = user[v]
  BY <1>2, <1>4, <1>6, OneRow
<1>8. QED
  BY <1>1, <1>2, <1>3, <1>6, <1>7

\* The deletion's commit makes a tombstone of its account and touches no other.
LEMMA DeletedUser ==
  ASSUME TypeOK, ControlOK, NEW p \in Requests, CommitDeletion(p)
  PROVE  /\ arg[p].uid \in Users
         /\ user' \in [Users -> User]
         /\ \A u \in Users \ {arg[p].uid} : user'[u] = user[u]
         /\ user'[arg[p].uid].status = "DELETED"
         /\ user'[arg[p].uid].verified = FALSE
         /\ user'[arg[p].uid].password = None
<1>1. PICK u : u = arg[p].uid
  OBVIOUS
<1>2. u \in Users /\ user \in [Users -> User] /\ user[u] \in User
  BY <1>1 DEF CommitDeletion, Goto, ControlOK, WithUser, TypeOK
<1>3. PICK r : r = [user[u] EXCEPT !.status = "DELETED", !.verified = FALSE, !.password = None]
  OBVIOUS
<1>4. user' = [user EXCEPT ![u] = r]
  BY <1>1, <1>3 DEF CommitDeletion
<1>5. None \in Passwords
  BY DEF Passwords
<1>6. r \in User /\ r.status = "DELETED" /\ r.verified = FALSE /\ r.password = None
  BY <1>2, <1>3, <1>5 DEF User
<1>7. user' \in [Users -> User] /\ user'[u] = r /\ \A v \in Users \ {u} : user'[v] = user[v]
  BY <1>2, <1>4, <1>6, OneRow
<1>8. QED
  BY <1>1, <1>2, <1>6, <1>7 DEF User

\* A commit or rollback leaves each lock with its holder or with nobody.
LEMMA ReleaseTypes ==
  ASSUME TypeOK, NEW p \in Requests, Release(p)
  PROVE  /\ userLock' \in [Users -> Requests \cup {None}]
         /\ tokenLock' \in [Tokens -> Requests \cup {None}]
BY DEF TypeOK, Release

-------------------------------------------------------------------------------
(* Types                                                                   *)

\* Every variable of every reachable state keeps to its type, and a request at
\* a program point has the account and the token its next statement names.
THEOREM Typing == Spec => [](TypeOK /\ ControlOK)
<1>1. Init => TypeOK /\ ControlOK
  BY NoneAssumption, OriginalAssumption, TtlAssumption, SeedAssumption,
     InitialUsersAssumption
  DEF Init, Issued, TypeOK, User, Passwords, Token, Argument, Steps, Kinds, ControlOK,
      Born, BornOK, WithUser, WithToken, DeletionSteps, Claimed, Successes
<1>2. TypeOK /\ ControlOK /\ [Next]_vars => TypeOK' /\ ControlOK'
  <2> SUFFICES ASSUME TypeOK, ControlOK, [Next]_vars PROVE TypeOK' /\ ControlOK'
    OBVIOUS
  <2> USE DEF TypeOK, Goto, rows, locks
  <2>1. ASSUME NEW p \in Requests, Refuse(p)
        PROVE  TypeOK' /\ ControlOK'
    <3>1. TypeOK'
      BY <2>1
      DEF Refuse, Steps, Transaction, Answers, ControlOK, Born, BornOK, WithUser,
         WithToken, DeletionSteps, Claimed, Successes
    <3>2. ControlOK'
      BY <2>1
      DEF Refuse, ControlOK, Born, BornOK, WithUser, WithToken, DeletionSteps,
         Claimed, Successes, Answers
    <3>3. QED
      BY <3>1, <3>2
  <2>2. ASSUME NEW p \in Requests, NEW u \in Users, NEW k \in Kinds, BeginIssue(p, u, k)
        PROVE  TypeOK' /\ ControlOK'
    <3>1. TypeOK'
      BY <2>2
      DEF BeginIssue, Argument, MayIssue, Steps, Transaction, Answers, ControlOK,
         Born, BornOK, WithUser, WithToken, DeletionSteps, Claimed, Successes
    <3>2. ControlOK'
      BY <2>2
      DEF BeginIssue, Argument, MayIssue, ControlOK, Born, BornOK, WithUser,
         WithToken, DeletionSteps, Claimed, Successes, Answers
    <3>3. QED
      BY <3>1, <3>2
  <2>3. ASSUME NEW p \in Requests, NEW t \in Tokens, BeginVerify(p, t)
        PROVE  TypeOK' /\ ControlOK'
    <3>1. TypeOK'
      BY <2>3
      DEF BeginVerify, Argument, Kinds, Steps, Transaction, Answers, ControlOK, Born,
         BornOK, WithUser, WithToken, DeletionSteps, Claimed, Successes
    <3>2. ControlOK'
      BY <2>3
      DEF BeginVerify, Argument, Kinds, ControlOK, Born, BornOK, WithUser, WithToken,
         DeletionSteps, Claimed, Successes, Answers
    <3>3. QED
      BY <3>1, <3>2
  <2>4. ASSUME NEW p \in Requests, NEW t \in Tokens, BeginReset(p, t)
        PROVE  TypeOK' /\ ControlOK'
    <3>1. TypeOK'
      BY <2>4
      DEF BeginReset, Argument, Kinds, Steps, Transaction, Answers, ControlOK, Born,
         BornOK, WithUser, WithToken, DeletionSteps, Claimed, Successes
    <3>2. ControlOK'
      BY <2>4
      DEF BeginReset, Argument, Kinds, ControlOK, Born, BornOK, WithUser, WithToken,
         DeletionSteps, Claimed, Successes, Answers
    <3>3. QED
      BY <3>1, <3>2
  <2>5. ASSUME NEW p \in Requests, NEW u \in Users, NEW t \in Tokens, BeginDelete(p, u,
               t)
        PROVE  TypeOK' /\ ControlOK'
    <3>1. TypeOK'
      BY <2>5
      DEF BeginDelete, Argument, Kinds, Steps, Transaction, Answers, ControlOK, Born,
         BornOK, WithUser, WithToken, DeletionSteps, Claimed, Successes
    <3>2. ControlOK'
      BY <2>5
      DEF BeginDelete, Argument, Kinds, ControlOK, Born, BornOK, WithUser, WithToken,
         DeletionSteps, Claimed, Successes, Answers
    <3>3. QED
      BY <3>1, <3>2
  <2>6. ASSUME NEW p \in Requests, CheckObligations(p)
        PROVE  TypeOK' /\ ControlOK'
    <3>1. TypeOK'
      BY <2>6
      DEF CheckObligations, Argument, Steps, Transaction, Answers, ControlOK, Born,
         BornOK, WithUser, WithToken, DeletionSteps, Claimed, Successes
    <3>2. ControlOK'
      BY <2>6
      DEF CheckObligations, Argument, ControlOK, Born, BornOK, WithUser, WithToken,
         DeletionSteps, Claimed, Successes, Answers
    <3>3. QED
      BY <3>1, <3>2
  <2>7. ASSUME NEW p \in Requests, LockUser(p)
        PROVE  TypeOK' /\ ControlOK'
    <3>1. TypeOK'
      BY <2>7
      DEF LockUser, TakeUser, Steps, Transaction, Answers, ControlOK, Born, BornOK,
         WithUser, WithToken, DeletionSteps, Claimed, Successes
    <3>2. ControlOK'
      BY <2>7
      DEF LockUser, TakeUser, ControlOK, Born, BornOK, WithUser, WithToken,
         DeletionSteps, Claimed, Successes, Answers
    <3>3. QED
      BY <3>1, <3>2
  <2>8. ASSUME NEW p \in Requests, DeleteUnused(p)
        PROVE  TypeOK' /\ ControlOK'
    <3>1. TypeOK'
      BY <2>8
      DEF DeleteUnused, TakeTokens, Replaced, Unused, Steps, Transaction, Answers,
         ControlOK, Born, BornOK, WithUser, WithToken, DeletionSteps, Claimed,
         Successes
    <3>2. ControlOK'
      BY <2>8
      DEF DeleteUnused, TakeTokens, Replaced, Unused, ControlOK, Born, BornOK,
         WithUser, WithToken, DeletionSteps, Claimed, Successes, Answers
    <3>3. QED
      BY <3>1, <3>2
  <2>9. ASSUME NEW p \in Requests, NEW t \in Tokens, CreateToken(p, t)
        PROVE  TypeOK' /\ ControlOK'
    <3>1. /\ pc[p] = "create" /\ pc' = [pc EXCEPT ![p] = "mail"]
          /\ arg' = [arg EXCEPT ![p] = [@ EXCEPT !.tok = t]]
      BY <2>9 DEF CreateToken
    <3>2. arg' \in [Requests -> Argument] /\ arg'[p].uid = arg[p].uid /\ arg'[p].tok = t
      BY <3>1 DEF Argument
    <3>3. TypeOK'
      BY <2>9, <3>1, <3>2, CreatedRows, ReleaseTypes DEF CreateToken, Steps
    <3>4. \A s \in Tokens : (Born(s) \/ s = t => Born(s)') /\ (Born(s)' <=> token'[s].owner \in Users)
      BY <3>1, <2>9, CreatedRows, NoneAssumption
      DEF ControlOK, BornOK, Born, WithUser, SameButState, StateWithoutLocked
    <3>5. mailed' = mailed /\ \A s \in Tokens : tokenLock'[s] \in {None, tokenLock[s]}
      BY <2>9 DEF CreateToken, Release
    <3>6. ControlOK'
      BY <3>1, <3>2, <3>4, <3>5
      DEF ControlOK, Born, BornOK, WithUser, WithToken, DeletionSteps, Claimed,
         Successes
    <3>7. QED
      BY <3>3, <3>6
  <2>10. ASSUME NEW p \in Requests, SendMail(p)
        PROVE  TypeOK' /\ ControlOK'
    <3>1. TypeOK'
      BY <2>10
      DEF SendMail, Argument, Steps, Transaction, Answers, ControlOK, Born, BornOK,
         WithUser, WithToken, DeletionSteps, Claimed, Successes
    <3>2. ControlOK'
      BY <2>10
      DEF SendMail, Argument, ControlOK, Born, BornOK, WithUser, WithToken,
         DeletionSteps, Claimed, Successes, Answers
    <3>3. QED
      BY <3>1, <3>2
  <2>11. ASSUME NEW p \in Requests, Claim(p)
        PROVE  TypeOK' /\ ControlOK'
    <3>1. TypeOK'
      BY <2>11
      DEF Claim, TakeTokens, Argument, Token, Claimable, Stored, Steps, Transaction,
         Answers, ControlOK, Born, BornOK, WithUser, WithToken, DeletionSteps,
         Claimed, Successes
    <3>2. ControlOK'
      BY <2>11
      DEF Claim, TakeTokens, Argument, Token, Claimable, Stored, ControlOK, Born,
         BornOK, WithUser, WithToken, DeletionSteps, Claimed, Successes, Answers
    <3>3. QED
      BY <3>1, <3>2
  <2>12. ASSUME NEW p \in Requests, ClaimNothing(p)
        PROVE  TypeOK' /\ ControlOK'
    <3>1. TypeOK'
      BY <2>12
      DEF ClaimNothing, Release, Steps, Transaction, Answers, ControlOK, Born,
         BornOK, WithUser, WithToken, DeletionSteps, Claimed, Successes
    <3>2. ControlOK'
      BY <2>12
      DEF ClaimNothing, Release, ControlOK, Born, BornOK, WithUser, WithToken,
         DeletionSteps, Claimed, Successes, Answers
    <3>3. QED
      BY <3>1, <3>2
  <2>13. ASSUME NEW p \in Requests, UpdateVerified(p)
        PROVE  TypeOK' /\ ControlOK'
    <3>1. /\ pc[p] = "update" /\ pc' = [pc EXCEPT ![p] = "verified"]
          /\ arg' = arg
      BY <2>13 DEF UpdateVerified
    <3>2. TypeOK'
      BY <2>13, VerifiedRows, VerifiedUser, ReleaseTypes
      DEF UpdateVerified, Steps, Answers
    <3>3. \A s \in Tokens : (Born(s) => Born(s)') /\ (Born(s)' <=> token'[s].owner \in Users)
      BY <2>13, VerifiedRows, <3>1, NoneAssumption
      DEF ControlOK, BornOK, Born, SameButState, StateWithoutLocked, WithToken,
         Claimed
    <3>4. mailed' = mailed /\ \A s \in Tokens : tokenLock'[s] \in {None, tokenLock[s]}
      BY <2>13 DEF UpdateVerified, Release
    <3>5. ControlOK'
      BY <3>1, <3>3, <3>4
      DEF ControlOK, Born, BornOK, WithUser, WithToken, DeletionSteps, Claimed,
         Successes
    <3>6. QED
      BY <3>2, <3>5
  <2>14. ASSUME NEW p \in Requests, UpdatePassword(p)
        PROVE  TypeOK' /\ ControlOK'
    <3>1. TypeOK'
      BY <2>14
      DEF UpdatePassword, TakeUser, Steps, Transaction, Answers, ControlOK, Born,
         BornOK, WithUser, WithToken, DeletionSteps, Claimed, Successes
    <3>2. ControlOK'
      BY <2>14
      DEF UpdatePassword, TakeUser, ControlOK, Born, BornOK, WithUser, WithToken,
         DeletionSteps, Claimed, Successes, Answers
    <3>3. QED
      BY <3>1, <3>2
  <2>15. ASSUME NEW p \in Requests, PurgeOthers(p)
        PROVE  TypeOK' /\ ControlOK'
    <3>1. TypeOK'
      BY <2>15
      DEF PurgeOthers, TakeTokens, Purged, Unused, Steps, Transaction, Answers,
         ControlOK, Born, BornOK, WithUser, WithToken, DeletionSteps, Claimed,
         Successes
    <3>2. ControlOK'
      BY <2>15
      DEF PurgeOthers, TakeTokens, Purged, Unused, ControlOK, Born, BornOK, WithUser,
         WithToken, DeletionSteps, Claimed, Successes, Answers
    <3>3. QED
      BY <3>1, <3>2
  <2>16. ASSUME NEW p \in Requests, CommitReset(p)
        PROVE  TypeOK' /\ ControlOK'
    <3>1. /\ pc[p] = "reset-commit" /\ pc' = [pc EXCEPT ![p] = "success"]
          /\ arg' = arg
      BY <2>16 DEF CommitReset
    <3>2. TypeOK'
      BY <2>16, ResetRows, ResetUser, ReleaseTypes DEF CommitReset, Steps, Answers
    <3>3. \A s \in Tokens : (Born(s) => Born(s)') /\ (Born(s)' <=> token'[s].owner \in Users)
      BY <2>16, ResetRows, <3>1, NoneAssumption
      DEF ControlOK, BornOK, Born, SameButState, StateWithoutLocked, WithToken,
         Claimed
    <3>4. mailed' = mailed /\ \A s \in Tokens : tokenLock'[s] \in {None, tokenLock[s]}
      BY <2>16 DEF CommitReset, Release
    <3>5. ControlOK'
      BY <3>1, <3>3, <3>4
      DEF ControlOK, Born, BornOK, WithUser, WithToken, DeletionSteps, Claimed,
         Successes
    <3>6. QED
      BY <3>2, <3>5
  <2>17. ASSUME NEW p \in Requests, LockAndRecheckUser(p)
        PROVE  TypeOK' /\ ControlOK'
    <3>1. TypeOK'
      BY <2>17
      DEF LockAndRecheckUser, TakeUser, Steps, Transaction, Answers, ControlOK, Born,
         BornOK, WithUser, WithToken, DeletionSteps, Claimed, Successes
    <3>2. ControlOK'
      BY <2>17
      DEF LockAndRecheckUser, TakeUser, ControlOK, Born, BornOK, WithUser, WithToken,
         DeletionSteps, Claimed, Successes, Answers
    <3>3. QED
      BY <3>1, <3>2
  <2>18. ASSUME NEW p \in Requests, ClaimDeletion(p)
        PROVE  TypeOK' /\ ControlOK'
    <3>1. TypeOK'
      BY <2>18
      DEF ClaimDeletion, TakeTokens, Claimable, Stored, Steps, Transaction, Answers,
         ControlOK, Born, BornOK, WithUser, WithToken, DeletionSteps, Claimed,
         Successes
    <3>2. ControlOK'
      BY <2>18
      DEF ClaimDeletion, TakeTokens, Claimable, Stored, ControlOK, Born, BornOK,
         WithUser, WithToken, DeletionSteps, Claimed, Successes, Answers
    <3>3. QED
      BY <3>1, <3>2
  <2>19. ASSUME NEW p \in Requests, RecheckObligations(p)
        PROVE  TypeOK' /\ ControlOK'
    <3>1. TypeOK'
      BY <2>19
      DEF RecheckObligations, Release, Steps, Transaction, Answers, ControlOK, Born,
         BornOK, WithUser, WithToken, DeletionSteps, Claimed, Successes
    <3>2. ControlOK'
      BY <2>19
      DEF RecheckObligations, Release, ControlOK, Born, BornOK, WithUser, WithToken,
         DeletionSteps, Claimed, Successes, Answers
    <3>3. QED
      BY <3>1, <3>2
  <2>20. ASSUME NEW p \in Requests, EraseTokens(p)
        PROVE  TypeOK' /\ ControlOK'
    <3>1. TypeOK'
      BY <2>20
      DEF EraseTokens, TakeTokens, Erased, Steps, Transaction, Answers, ControlOK,
         Born, BornOK, WithUser, WithToken, DeletionSteps, Claimed, Successes
    <3>2. ControlOK'
      BY <2>20
      DEF EraseTokens, TakeTokens, Erased, ControlOK, Born, BornOK, WithUser,
         WithToken, DeletionSteps, Claimed, Successes, Answers
    <3>3. QED
      BY <3>1, <3>2
  <2>21. ASSUME NEW p \in Requests, CommitDeletion(p)
        PROVE  TypeOK' /\ ControlOK'
    <3>1. /\ pc[p] = "delete-commit" /\ pc' = [pc EXCEPT ![p] = "deleted"]
          /\ arg' = arg
      BY <2>21 DEF CommitDeletion
    <3>2. TypeOK'
      BY <2>21, ErasedRows, DeletedUser, ReleaseTypes DEF CommitDeletion, Steps, Answers
    <3>3. \A s \in Tokens : (Born(s) => Born(s)') /\ (Born(s)' <=> token'[s].owner \in Users)
      BY <2>21, ErasedRows, <3>1, NoneAssumption
      DEF ControlOK, BornOK, Born, SameButState, StateWithoutLocked
    <3>4. mailed' = mailed /\ \A s \in Tokens : tokenLock'[s] \in {None, tokenLock[s]}
      BY <2>21 DEF CommitDeletion, Release
    <3>5. ControlOK'
      BY <3>1, <3>3, <3>4
      DEF ControlOK, Born, BornOK, WithUser, WithToken, DeletionSteps, Claimed,
         Successes
    <3>6. QED
      BY <3>2, <3>5
  <2>22. ASSUME NEW p \in Requests, Classify(p)
        PROVE  TypeOK' /\ ControlOK'
    <3>1. Classification(p) \in {"invalid", "already-verified", "expired"}
      BY DEF Classification
    <3>2. TypeOK'
      BY <2>22, <3>1 DEF Classify, Steps, Answers
    <3>3. ControlOK'
      BY <2>22, <3>1
      DEF Classify, ControlOK, Born, BornOK, WithUser, WithToken, DeletionSteps,
         Claimed, Successes
    <3>4. QED
      BY <3>2, <3>3
  <2>23. ASSUME NEW p \in Requests, Abort(p)
        PROVE  TypeOK' /\ ControlOK'
    <3>1. TypeOK'
      BY <2>23
      DEF Abort, Release, Steps, Transaction, Answers, ControlOK, Born, BornOK,
         WithUser, WithToken, DeletionSteps, Claimed, Successes
    <3>2. ControlOK'
      BY <2>23
      DEF Abort, Release, ControlOK, Born, BornOK, WithUser, WithToken,
         DeletionSteps, Claimed, Successes, Answers
    <3>3. QED
      BY <3>1, <3>2
  <2>24. CASE Tick \/ Served \/ UNCHANGED vars
    BY <2>24, TtlAssumption DEF Tick, Served, vars, ControlOK, BornOK, Born
  <2>25. QED
    BY <2>1, <2>2, <2>3, <2>4, <2>5, <2>6, <2>7, <2>8, <2>9, <2>10, <2>11, <2>12,
       <2>13, <2>14, <2>15, <2>16, <2>17, <2>18, <2>19, <2>20, <2>21, <2>22, <2>23,
       <2>24 DEF Next, Begin, Continue
<1>3. QED
  BY <1>1, <1>2, PTL DEF Spec

-------------------------------------------------------------------------------
(* Locks                                                                   *)

\* A User row is locked by exactly the transaction whose next statement says so.
HeldOK ==
  \A u \in Users, p \in Requests :
    userLock[u] = p <=> pc[p] \in UserHolding /\ arg[p].uid = u

\* A locked token row exists and is its transaction's to write: of its account
\* and, unless the account is going away, a working link of its kind.
LockedOK ==
  \A t \in Tokens, p \in Requests : tokenLock[t] = p =>
    /\ pc[p] \in Claimed \cup {"create"}
    /\ token[t].state \in {"unused", "used"}
    /\ token[t].owner = arg[p].uid
    /\ pc[p] # "delete-commit" => Unused(t, arg[p].op, arg[p].uid)

\* A claimed row stays as it was claimed until the commit.
ClaimedOK ==
  \A p \in Requests : pc[p] \in Claimed =>
    /\ tokenLock[arg[p].tok] = p
    /\ Unused(arg[p].tok, arg[p].op, arg[p].uid)
    /\ ~ Expired(p)

\* A DELETE still covers, at the commit, every row its WHERE describes.
CoveredOK ==
  \A p \in Requests, t \in Tokens :
    /\ pc[p] = "create" /\ Unused(t, arg[p].op, arg[p].uid) => tokenLock[t] = p
    /\ pc[p] = "delete-commit" /\ token[t].state \in {"unused", "used"}
         /\ token[t].owner = arg[p].uid => tokenLock[t] = p

\* The user a deletion has locked stays as it was rechecked.
LiveOK ==
  \A p \in Requests : pc[p] \in DeletionSteps \ {"delete-lock"} => Live(arg[p].uid)

LockOK == HeldOK /\ LockedOK /\ ClaimedOK /\ CoveredOK /\ LiveOK

\* Program points at which a request may hold a lock.
Locking == UserHolding \cup Claimed

\* No other request moves in this step.
Alone(p) == \A q \in Requests \ {p} : pc'[q] = pc[q] /\ arg'[q] = arg[q]

\* A step of a request outside its transaction that writes no row keeps LockOK.
LEMMA QuietStep ==
  ASSUME TypeOK, LockOK, NEW p \in Requests, Alone(p), UNCHANGED <<rows, locks>>,
         pc[p] \notin Locking, pc'[p] \notin Locking
  PROVE  LockOK'
<1> USE DEF Alone, rows, locks, LockOK
<1>1. HeldOK'
  BY DEF HeldOK, Locking
<1>2. LockedOK'
  BY DEF LockedOK, Locking, Claimed, UserHolding, Unused
<1>3. ClaimedOK'
  BY DEF ClaimedOK, Locking, Unused, Expired
<1>4. CoveredOK'
  BY DEF CoveredOK, Locking, UserHolding, Unused
<1>5. LiveOK'
  BY DEF LiveOK, Locking, UserHolding, DeletionSteps, Live
<1>6. QED
  BY <1>1, <1>2, <1>3, <1>4, <1>5

\* A transaction that ends without writing a row keeps LockOK.
LEMMA RollbackStep ==
  ASSUME TypeOK, ControlOK, LockOK, NEW p \in Requests, Alone(p), UNCHANGED rows,
         Release(p), pc'[p] \notin Locking
  PROVE  LockOK'
<1>1. /\ \A u \in Users : userLock'[u] = IF userLock[u] = p THEN None ELSE userLock[u]
      /\ \A t \in Tokens : tokenLock'[t] = IF tokenLock[t] = p THEN None ELSE tokenLock[t]
  BY DEF Release
<1> USE <1>1, NoneAssumption DEF Alone, rows, LockOK
<1>2. HeldOK'
  BY DEF HeldOK, Locking
<1>3. LockedOK'
  BY DEF LockedOK, Unused
<1>4. ClaimedOK'
  BY DEF ClaimedOK, Locking, Unused, Expired, ControlOK, WithToken
<1>5. CoveredOK'
  BY DEF CoveredOK, Locking, UserHolding, Claimed, Unused
<1>6. LiveOK'
  BY DEF LiveOK, Locking, UserHolding, DeletionSteps, Live
<1>7. QED
  BY <1>2, <1>3, <1>4, <1>5, <1>6

\* A transaction that is to write a row has locked it, has locked every row its
\* DELETE covers, and acts on an account and a link that are still as it read
\* them: what replaceToken, verifyEmail, resetPassword and the deletion rely on
\* when they commit.
THEOREM LocksHold == Spec => []LockOK
<1>1. Init => LockOK
  BY NoneAssumption DEF Init, LockOK, HeldOK, LockedOK, ClaimedOK, CoveredOK, LiveOK,
     UserHolding, Claimed, DeletionSteps
<1>2. TypeOK /\ ControlOK /\ LockOK /\ [Next]_vars => LockOK'
  <2> SUFFICES ASSUME TypeOK, ControlOK, LockOK, [Next]_vars PROVE LockOK'
    OBVIOUS
  <2>1. ASSUME NEW p \in Requests, Refuse(p)
        PROVE  LockOK'
    <3>1. Alone(p) /\ pc[p] \notin Locking /\ pc'[p] \notin Locking
      BY <2>1 DEF Refuse, Goto, Alone, Locking, UserHolding, Claimed, TypeOK, Argument
    <3>2. UNCHANGED <<rows, locks>>
      BY <2>1 DEF Refuse
    <3>3. QED
      BY <3>1, <3>2, QuietStep
  <2>2. ASSUME NEW p \in Requests, NEW u \in Users, NEW k \in Kinds, BeginIssue(p, u, k)
        PROVE  LockOK'
    <3>1. Alone(p) /\ pc[p] \notin Locking /\ pc'[p] \notin Locking
      BY <2>2
      DEF BeginIssue, Goto, Alone, Locking, UserHolding, Claimed, TypeOK, Argument
    <3>2. UNCHANGED <<rows, locks>>
      BY <2>2 DEF BeginIssue
    <3>3. QED
      BY <3>1, <3>2, QuietStep
  <2>3. ASSUME NEW p \in Requests, NEW t \in Tokens, BeginVerify(p, t)
        PROVE  LockOK'
    <3>1. Alone(p) /\ pc[p] \notin Locking /\ pc'[p] \notin Locking
      BY <2>3
      DEF BeginVerify, Goto, Alone, Locking, UserHolding, Claimed, TypeOK, Argument
    <3>2. UNCHANGED <<rows, locks>>
      BY <2>3 DEF BeginVerify
    <3>3. QED
      BY <3>1, <3>2, QuietStep
  <2>4. ASSUME NEW p \in Requests, NEW t \in Tokens, BeginReset(p, t)
        PROVE  LockOK'
    <3>1. Alone(p) /\ pc[p] \notin Locking /\ pc'[p] \notin Locking
      BY <2>4
      DEF BeginReset, Goto, Alone, Locking, UserHolding, Claimed, TypeOK, Argument
    <3>2. UNCHANGED <<rows, locks>>
      BY <2>4 DEF BeginReset
    <3>3. QED
      BY <3>1, <3>2, QuietStep
  <2>5. ASSUME NEW p \in Requests, NEW u \in Users, NEW t \in Tokens, BeginDelete(p, u,
               t)
        PROVE  LockOK'
    <3>1. Alone(p) /\ pc[p] \notin Locking /\ pc'[p] \notin Locking
      BY <2>5
      DEF BeginDelete, Goto, Alone, Locking, UserHolding, Claimed, TypeOK, Argument
    <3>2. UNCHANGED <<rows, locks>>
      BY <2>5 DEF BeginDelete
    <3>3. QED
      BY <3>1, <3>2, QuietStep
  <2>6. ASSUME NEW p \in Requests, CheckObligations(p)
        PROVE  LockOK'
    <3>1. Alone(p) /\ pc[p] \notin Locking /\ pc'[p] \notin Locking
      BY <2>6
      DEF CheckObligations, Goto, Alone, Locking, UserHolding, Claimed, TypeOK,
         Argument
    <3>2. UNCHANGED <<rows, locks>>
      BY <2>6 DEF CheckObligations
    <3>3. QED
      BY <3>1, <3>2, QuietStep
  <2>7. ASSUME NEW p \in Requests, LockUser(p)
        PROVE  LockOK'
    <3>1. /\ pc[p] = "lock" /\ Alone(p) /\ pc'[p] = "replace" /\ arg' = arg /\ UNCHANGED <<user, token, tokenLock>>
          /\ arg[p].uid \in Users /\ userLock[arg[p].uid] = None
          /\ \A v \in Users : userLock'[v] = IF v = arg[p].uid THEN p ELSE userLock[v]
      BY <2>7 DEF LockUser, TakeUser, rows, Goto, Alone, ControlOK, WithUser, TypeOK
    <3> USE NoneAssumption DEF LockOK, Alone
    <3>2. HeldOK'
      BY <3>1 DEF HeldOK, UserHolding
    <3>3. LockedOK'
      BY <3>1 DEF LockedOK, Claimed, UserHolding, Unused
    <3>4. ClaimedOK'
      BY <3>1 DEF ClaimedOK, Claimed, Unused, Expired, ControlOK, WithToken
    <3>5. CoveredOK'
      BY <3>1 DEF CoveredOK, UserHolding, Claimed, Unused
    <3>6. LiveOK'
      BY <3>1 DEF LiveOK, UserHolding, DeletionSteps, Live
    <3>7. QED
      BY <3>2, <3>3, <3>4, <3>5, <3>6 DEF LockOK
  <2>8. ASSUME NEW p \in Requests, DeleteUnused(p)
        PROVE  LockOK'
    <3>1. /\ pc[p] = "replace" /\ Alone(p) /\ pc'[p] = "create" /\ arg' = arg /\ UNCHANGED <<user, token, userLock>>
          /\ \A s \in Tokens : tokenLock'[s] = IF s \in Replaced(p) THEN p ELSE tokenLock[s]
          /\ \A s \in Replaced(p) : tokenLock[s] \in {None, p}
      BY <2>8 DEF DeleteUnused, TakeTokens, rows, Goto, Alone, TypeOK
    <3> USE NoneAssumption DEF LockOK, Alone
    <3>2. HeldOK'
      BY <3>1 DEF HeldOK, UserHolding
    <3>3. LockedOK'
      BY <3>1
      DEF LockedOK, Claimed, UserHolding, Unused, Replaced, ControlOK, DeletionSteps
    <3>4. ClaimedOK'
      BY <3>1 DEF ClaimedOK, Claimed, Unused, Expired, ControlOK, WithToken, Replaced
    <3>5. CoveredOK'
      BY <3>1 DEF CoveredOK, UserHolding, Claimed, Unused, Replaced
    <3>6. LiveOK'
      BY <3>1 DEF LiveOK, UserHolding, DeletionSteps, Live
    <3>7. QED
      BY <3>2, <3>3, <3>4, <3>5, <3>6 DEF LockOK
  <2>9. ASSUME NEW p \in Requests, NEW t \in Tokens, CreateToken(p, t)
        PROVE  LockOK'
    <3>1. /\ pc[p] = "create" /\ Alone(p) /\ pc'[p] = "mail" /\ Release(p) /\ user' = user
      BY <2>9 DEF CreateToken, Goto, Alone, TypeOK
    <3>2. /\ \A v \in Users : userLock'[v] = IF userLock[v] = p THEN None ELSE userLock[v]
          /\ \A s \in Tokens : tokenLock'[s] = IF tokenLock[s] = p THEN None ELSE tokenLock[s]
      BY <3>1 DEF Release
    <3>3. /\ \A s \in Tokens : tokenLock[s] = p \/ s = t \/
               (token'[s].state = token[s].state /\ SameButState(s))
          /\ \A s \in Tokens \ {t} : tokenLock[s] = p => token'[s].state = "deleted"
          /\ token'[t].state = "unused" /\ token'[t].kind = arg[p].op /\ token'[t].owner = arg[p].uid
      BY <2>9, CreatedRows DEF StateWithoutLocked
    <3>4. tokenLock[t] = None
      BY <2>9 DEF CreateToken, ControlOK, BornOK, Born
    <3>5. arg[p].uid \in Users /\ userLock[arg[p].uid] = p
      BY <3>1 DEF ControlOK, WithUser, LockOK, HeldOK, UserHolding
    <3> USE NoneAssumption, <3>1, <3>4, <3>2, <3>3, <3>5 DEF LockOK, Alone, SameButState
    <3>6. HeldOK'
      BY DEF HeldOK, UserHolding
    <3>7. LockedOK'
      BY DEF LockedOK, Claimed, UserHolding, Unused
    <3>8. ClaimedOK'
      BY DEF ClaimedOK, Claimed, Unused, Expired, ControlOK, WithToken
    <3>9. CoveredOK'
      BY DEF CoveredOK, UserHolding, Claimed, Unused, HeldOK
    <3>10. LiveOK'
      BY DEF LiveOK, UserHolding, DeletionSteps, Live, HeldOK, ControlOK, WithUser
    <3>11. QED
      BY <3>6, <3>7, <3>8, <3>9, <3>10 DEF LockOK
  <2>10. ASSUME NEW p \in Requests, SendMail(p)
        PROVE  LockOK'
    <3>1. Alone(p) /\ pc[p] \notin Locking /\ pc'[p] \notin Locking
      BY <2>10
      DEF SendMail, Goto, Alone, Locking, UserHolding, Claimed, TypeOK, Argument
    <3>2. UNCHANGED <<rows, locks>>
      BY <2>10 DEF SendMail
    <3>3. QED
      BY <3>1, <3>2, QuietStep
  <2>11. ASSUME NEW p \in Requests, Claim(p)
        PROVE  LockOK'
    <3>1. /\ pc[p] = "claim" /\ Alone(p) /\ pc'[p] = "update" /\ UNCHANGED <<user, token, userLock>>
          /\ arg[p].tok \in Tokens /\ arg'[p].tok = arg[p].tok /\ arg'[p].op = arg[p].op
          /\ arg'[p].now = arg[p].now /\ arg'[p].uid = token[arg[p].tok].owner
      BY <2>11 DEF Claim, rows, Goto, Alone, TypeOK, Argument, ControlOK, WithToken
    <3>2. /\ \A s \in Tokens : tokenLock'[s] = IF s = arg[p].tok THEN p ELSE tokenLock[s]
          /\ tokenLock[arg[p].tok] \in {None, p}
      BY <2>11 DEF Claim, TakeTokens
    <3>3. token[arg[p].tok].state = "unused" /\ token[arg[p].tok].kind = arg[p].op /\ ~ Expired(p)
      BY <2>11 DEF Claim, Claimable, Stored
    <3> USE NoneAssumption DEF LockOK, Alone
    <3>4. HeldOK'
      BY <3>1, <3>2, <3>3 DEF HeldOK, UserHolding
    <3>5. LockedOK'
      BY <3>1, <3>2, <3>3 DEF LockedOK, Claimed, UserHolding, Unused
    <3>6. ClaimedOK'
      BY <3>1, <3>2, <3>3 DEF ClaimedOK, Claimed, Unused, Expired, ControlOK, WithToken
    <3>7. CoveredOK'
      BY <3>1, <3>2, <3>3 DEF CoveredOK, UserHolding, Claimed, Unused
    <3>8. LiveOK'
      BY <3>1, <3>2, <3>3 DEF LiveOK, UserHolding, DeletionSteps, Live
    <3>9. QED
      BY <3>4, <3>5, <3>6, <3>7, <3>8 DEF LockOK
  <2>12. ASSUME NEW p \in Requests, ClaimNothing(p)
        PROVE  LockOK'
    <3>1. Alone(p) /\ pc'[p] \notin Locking
      BY <2>12 DEF ClaimNothing, Alone, Locking, UserHolding, Claimed, TypeOK
    <3>2. UNCHANGED rows /\ Release(p)
      BY <2>12 DEF ClaimNothing
    <3>3. QED
      BY <3>1, <3>2, RollbackStep
  <2>13. ASSUME NEW p \in Requests, UpdateVerified(p)
        PROVE  LockOK'
    <3>1. /\ pc[p] = "update" /\ Alone(p) /\ pc'[p] = "verified" /\ Release(p)
      BY <2>13 DEF UpdateVerified, Goto, Alone, TypeOK
    <3>2. /\ \A v \in Users : userLock'[v] = IF userLock[v] = p THEN None ELSE userLock[v]
          /\ \A s \in Tokens : tokenLock'[s] = IF tokenLock[s] = p THEN None ELSE tokenLock[s]
      BY <3>1 DEF Release
    <3>3. \A s \in Tokens : /\ s # arg[p].tok => token'[s].state = token[s].state
                            /\ s = arg[p].tok => tokenLock[s] = p /\ token'[s].state = "used"
                            /\ SameButState(s)
      BY <2>13, <3>1, VerifiedRows DEF LockOK, ClaimedOK, Claimed
    <3>4. \A v \in Users : user'[v].status = user[v].status
      BY <2>13, VerifiedUser
    <3> USE NoneAssumption, <3>1, <3>2, <3>3, <3>4 DEF LockOK, Alone, SameButState
    <3>5. HeldOK'
      BY DEF HeldOK, UserHolding
    <3>6. LockedOK'
      BY DEF LockedOK, Claimed, UserHolding, Unused
    <3>7. ClaimedOK'
      BY DEF ClaimedOK, Claimed, Unused, Expired, ControlOK, WithToken
    <3>8. CoveredOK'
      BY DEF CoveredOK, UserHolding, Claimed, Unused, LockedOK
    <3>9. LiveOK'
      BY DEF LiveOK, UserHolding, DeletionSteps, Live, HeldOK, ControlOK, WithUser
    <3>10. QED
      BY <3>5, <3>6, <3>7, <3>8, <3>9 DEF LockOK
  <2>14. ASSUME NEW p \in Requests, UpdatePassword(p)
        PROVE  LockOK'
    <3>1. /\ pc[p] = "update" /\ Alone(p) /\ pc'[p] = "purge" /\ arg' = arg /\ UNCHANGED <<user, token, tokenLock>>
          /\ arg[p].uid \in Users /\ userLock[arg[p].uid] = None
          /\ \A v \in Users : userLock'[v] = IF v = arg[p].uid THEN p ELSE userLock[v]
      BY <2>14
      DEF UpdatePassword, TakeUser, rows, Goto, Alone, ControlOK, WithUser, TypeOK
    <3> USE NoneAssumption DEF LockOK, Alone
    <3>2. HeldOK'
      BY <3>1 DEF HeldOK, UserHolding
    <3>3. LockedOK'
      BY <3>1 DEF LockedOK, Claimed, UserHolding, Unused
    <3>4. ClaimedOK'
      BY <3>1 DEF ClaimedOK, Claimed, Unused, Expired, ControlOK, WithToken
    <3>5. CoveredOK'
      BY <3>1 DEF CoveredOK, UserHolding, Claimed, Unused
    <3>6. LiveOK'
      BY <3>1 DEF LiveOK, UserHolding, DeletionSteps, Live
    <3>7. QED
      BY <3>2, <3>3, <3>4, <3>5, <3>6 DEF LockOK
  <2>15. ASSUME NEW p \in Requests, PurgeOthers(p)
        PROVE  LockOK'
    <3>1. /\ pc[p] = "purge" /\ Alone(p) /\ pc'[p] = "reset-commit" /\ arg' = arg /\ UNCHANGED <<user, token, userLock>>
          /\ \A s \in Tokens : tokenLock'[s] = IF s \in Purged(p) THEN p ELSE tokenLock[s]
          /\ \A s \in Purged(p) : tokenLock[s] \in {None, p}
      BY <2>15 DEF PurgeOthers, TakeTokens, rows, Goto, Alone, TypeOK
    <3> USE NoneAssumption DEF LockOK, Alone
    <3>2. HeldOK'
      BY <3>1 DEF HeldOK, UserHolding
    <3>3. LockedOK'
      BY <3>1
      DEF LockedOK, Claimed, UserHolding, Unused, Purged, ControlOK, DeletionSteps
    <3>4. ClaimedOK'
      BY <3>1 DEF ClaimedOK, Claimed, Unused, Expired, ControlOK, WithToken, Purged
    <3>5. CoveredOK'
      BY <3>1 DEF CoveredOK, UserHolding, Claimed, Unused, Purged
    <3>6. LiveOK'
      BY <3>1 DEF LiveOK, UserHolding, DeletionSteps, Live
    <3>7. QED
      BY <3>2, <3>3, <3>4, <3>5, <3>6 DEF LockOK
  <2>16. ASSUME NEW p \in Requests, CommitReset(p)
        PROVE  LockOK'
    <3>1. /\ pc[p] = "reset-commit" /\ Alone(p) /\ pc'[p] = "success" /\ Release(p)
      BY <2>16 DEF CommitReset, Goto, Alone, TypeOK
    <3>2. /\ \A v \in Users : userLock'[v] = IF userLock[v] = p THEN None ELSE userLock[v]
          /\ \A s \in Tokens : tokenLock'[s] = IF tokenLock[s] = p THEN None ELSE tokenLock[s]
      BY <3>1 DEF Release
    <3>3. \A s \in Tokens : /\ tokenLock[s] # p => token'[s].state = token[s].state
                            /\ tokenLock[s] = p => token'[s].state \in {"used", "deleted"}
                            /\ SameButState(s)
      BY <2>16, <3>1, ResetRows DEF LockOK, ClaimedOK, Claimed, StateWithoutLocked
    <3>4. \A v \in Users : user'[v].status = user[v].status
      BY <2>16, ResetUser
    <3> USE NoneAssumption, <3>1, <3>2, <3>3, <3>4 DEF LockOK, Alone, SameButState
    <3>5. HeldOK'
      BY DEF HeldOK, UserHolding
    <3>6. LockedOK'
      BY DEF LockedOK, Claimed, UserHolding, Unused
    <3>7. ClaimedOK'
      BY DEF ClaimedOK, Claimed, Unused, Expired, ControlOK, WithToken
    <3>8. CoveredOK'
      BY DEF CoveredOK, UserHolding, Claimed, Unused, LockedOK
    <3>9. LiveOK'
      BY DEF LiveOK, UserHolding, DeletionSteps, Live, HeldOK, ControlOK, WithUser
    <3>10. QED
      BY <3>5, <3>6, <3>7, <3>8, <3>9 DEF LockOK
  <2>17. ASSUME NEW p \in Requests, LockAndRecheckUser(p)
        PROVE  LockOK'
    <3>1. CASE pc'[p] # "delete-claim"
      <4>1. Alone(p) /\ pc[p] \notin Locking /\ pc'[p] \notin Locking
        BY <2>17, <3>1
        DEF LockAndRecheckUser, Alone, Locking, UserHolding, Claimed, TypeOK
      <4>2. UNCHANGED <<rows, locks>>
        BY <2>17, <3>1 DEF LockAndRecheckUser, locks, TypeOK
      <4>3. QED
        BY <4>1, <4>2, QuietStep
    <3>2. CASE pc'[p] = "delete-claim"
      <4>1. /\ pc[p] = "delete-lock" /\ Alone(p) /\ pc'[p] = "delete-claim" /\ arg' = arg
            /\ UNCHANGED <<user, token, tokenLock>>
            /\ Live(arg[p].uid) /\ arg[p].uid \in Users /\ userLock[arg[p].uid] = None
            /\ \A v \in Users : userLock'[v] = IF v = arg[p].uid THEN p ELSE userLock[v]
        BY <2>17, <3>2
        DEF LockAndRecheckUser, TakeUser, rows, Alone, ControlOK, WithUser, TypeOK
      <4> USE NoneAssumption DEF LockOK, Alone
      <4>2. HeldOK'
        BY <4>1 DEF HeldOK, UserHolding
      <4>3. LockedOK'
        BY <4>1 DEF LockedOK, Claimed, UserHolding, Unused
      <4>4. ClaimedOK'
        BY <4>1 DEF ClaimedOK, Claimed, Unused, Expired, ControlOK, WithToken
      <4>5. CoveredOK'
        BY <4>1 DEF CoveredOK, UserHolding, Claimed, Unused
      <4>6. LiveOK'
        BY <4>1 DEF LiveOK, UserHolding, DeletionSteps, Live
      <4>7. QED
        BY <4>2, <4>3, <4>4, <4>5, <4>6 DEF LockOK
    <3>3. QED
      BY <3>1, <3>2
  <2>18. ASSUME NEW p \in Requests, ClaimDeletion(p)
        PROVE  LockOK'
    <3>1. /\ pc[p] = "delete-claim" /\ Alone(p) /\ pc'[p] = "recheck" /\ arg' = arg /\ UNCHANGED <<user, token, userLock>>
          /\ \A s \in Tokens : tokenLock'[s] = IF s \in {arg[p].tok} THEN p ELSE tokenLock[s]
          /\ \A s \in {arg[p].tok} : tokenLock[s] \in {None, p}
      BY <2>18 DEF ClaimDeletion, TakeTokens, rows, Goto, Alone, TypeOK
    <3>2. /\ arg[p].tok \in Tokens /\ Unused(arg[p].tok, arg[p].op, arg[p].uid) /\ ~ Expired(p)
          /\ arg[p].op = "delete"
      BY <2>18, <3>1
      DEF ClaimDeletion, Claimable, Stored, Unused, ControlOK, WithToken,
         DeletionSteps
    <3> USE NoneAssumption DEF LockOK, Alone
    <3>3. HeldOK'
      BY <3>1, <3>2 DEF HeldOK, UserHolding
    <3>4. LockedOK'
      BY <3>1, <3>2
      DEF LockedOK, Claimed, UserHolding, Unused, ControlOK, DeletionSteps, WithToken
    <3>5. ClaimedOK'
      BY <3>1, <3>2
      DEF ClaimedOK, Claimed, Unused, Expired, ControlOK, WithToken, DeletionSteps
    <3>6. CoveredOK'
      BY <3>1, <3>2 DEF CoveredOK, UserHolding, Claimed, Unused
    <3>7. LiveOK'
      BY <3>1, <3>2 DEF LiveOK, UserHolding, DeletionSteps, Live
    <3>8. QED
      BY <3>3, <3>4, <3>5, <3>6, <3>7 DEF LockOK
  <2>19. ASSUME NEW p \in Requests, RecheckObligations(p)
        PROVE  LockOK'
    <3>1. CASE pc'[p] = "blocked"
      <4>1. UNCHANGED rows /\ Release(p) /\ Alone(p) /\ pc'[p] = "blocked" /\ "blocked" \notin Locking
        BY <2>19, <3>1, ControlOK
        DEF RecheckObligations, Goto, TypeOK, Alone, Locking, UserHolding, Claimed
      <4>2. QED
        BY <4>1, RollbackStep
    <3>2. CASE pc'[p] # "blocked"
      <4>1. /\ pc[p] = "recheck" /\ Alone(p) /\ pc'[p] = "erase" /\ arg' = arg
            /\ UNCHANGED <<user, token, userLock, tokenLock>>
        BY <2>19, <3>2 DEF RecheckObligations, Goto, Alone, TypeOK, rows, locks
      <4> USE <4>1 DEF LockOK, Alone
      <4>2. HeldOK' /\ LockedOK'
        BY DEF HeldOK, LockedOK, UserHolding, Claimed, Unused
      <4>3. ClaimedOK' /\ CoveredOK' /\ LiveOK'
        BY
        DEF ClaimedOK, CoveredOK, LiveOK, Claimed, Unused, Expired, DeletionSteps,
           Live
      <4>4. QED
        BY <4>2, <4>3
    <3>3. QED
      BY <3>1, <3>2
  <2>20. ASSUME NEW p \in Requests, EraseTokens(p)
        PROVE  LockOK'
    <3>1. /\ pc[p] = "erase" /\ Alone(p) /\ pc'[p] = "delete-commit" /\ arg' = arg /\ UNCHANGED <<user, token, userLock>>
          /\ \A s \in Tokens : tokenLock'[s] = IF s \in Erased(p) THEN p ELSE tokenLock[s]
          /\ \A s \in Erased(p) : tokenLock[s] \in {None, p}
      BY <2>20 DEF EraseTokens, TakeTokens, rows, Goto, Alone, TypeOK
    <3> USE NoneAssumption DEF LockOK, Alone
    <3>2. HeldOK'
      BY <3>1 DEF HeldOK, UserHolding
    <3>3. LockedOK'
      BY <3>1
      DEF LockedOK, Claimed, UserHolding, Unused, Erased, ControlOK, DeletionSteps
    <3>4. ClaimedOK'
      BY <3>1 DEF ClaimedOK, Claimed, Unused, Expired, ControlOK, WithToken, Erased
    <3>5. CoveredOK'
      BY <3>1 DEF CoveredOK, UserHolding, Claimed, Unused, Erased
    <3>6. LiveOK'
      BY <3>1 DEF LiveOK, UserHolding, DeletionSteps, Live
    <3>7. QED
      BY <3>2, <3>3, <3>4, <3>5, <3>6 DEF LockOK
  <2>21. ASSUME NEW p \in Requests, CommitDeletion(p)
        PROVE  LockOK'
    <3>1. /\ pc[p] = "delete-commit" /\ Alone(p) /\ pc'[p] = "deleted" /\ Release(p)
      BY <2>21 DEF CommitDeletion, Goto, Alone, TypeOK
    <3>2. /\ \A v \in Users : userLock'[v] = IF userLock[v] = p THEN None ELSE userLock[v]
          /\ \A s \in Tokens : tokenLock'[s] = IF tokenLock[s] = p THEN None ELSE tokenLock[s]
      BY <3>1 DEF Release
    <3>3. \A s \in Tokens : /\ tokenLock[s] # p => token'[s].state = token[s].state
                            /\ tokenLock[s] = p => token'[s].state = "deleted"
                            /\ SameButState(s)
      BY <2>21, ErasedRows DEF StateWithoutLocked
    <3>4. arg[p].uid \in Users /\ userLock[arg[p].uid] = p /\ \A v \in Users \ {arg[p].uid} : user'[v] = user[v]
      BY <2>21, <3>1, DeletedUser DEF LockOK, HeldOK, UserHolding
    <3> USE NoneAssumption, <3>1, <3>2, <3>3, <3>4 DEF LockOK, Alone, SameButState
    <3>5. HeldOK'
      BY DEF HeldOK, UserHolding
    <3>6. LockedOK'
      BY DEF LockedOK, Claimed, UserHolding, Unused
    <3>7. ClaimedOK'
      BY DEF ClaimedOK, Claimed, Unused, Expired, ControlOK, WithToken
    <3>8. CoveredOK'
      BY DEF CoveredOK, UserHolding, Claimed, Unused, HeldOK
    <3>9. LiveOK'
      BY DEF LiveOK, UserHolding, DeletionSteps, Live, HeldOK, ControlOK, WithUser
    <3>10. QED
      BY <3>5, <3>6, <3>7, <3>8, <3>9 DEF LockOK
  <2>22. ASSUME NEW p \in Requests, Classify(p)
        PROVE  LockOK'
    <3>1. Classification(p) \notin Locking
      BY DEF Classification, Locking, UserHolding, Claimed
    <3>2. Alone(p) /\ pc[p] \notin Locking /\ pc'[p] \notin Locking
      BY <2>22, <3>1
      DEF Classify, Goto, Alone, Locking, UserHolding, Claimed, TypeOK, Argument
    <3>3. UNCHANGED <<rows, locks>>
      BY <2>22 DEF Classify
    <3>4. QED
      BY <3>2, <3>3, QuietStep
  <2>23. ASSUME NEW p \in Requests, Abort(p)
        PROVE  LockOK'
    <3>1. Alone(p) /\ pc'[p] \notin Locking
      BY <2>23 DEF Abort, Alone, Locking, UserHolding, Claimed, TypeOK
    <3>2. UNCHANGED rows /\ Release(p)
      BY <2>23 DEF Abort
    <3>3. QED
      BY <3>1, <3>2, RollbackStep
  <2>24. CASE Tick \/ Served \/ UNCHANGED vars
    BY <2>24
    DEF Tick, Served, vars, rows, locks, LockOK, HeldOK, LockedOK, ClaimedOK,
       CoveredOK, LiveOK, Unused, Expired, Live
  <2>25. QED
    BY <2>1, <2>2, <2>3, <2>4, <2>5, <2>6, <2>7, <2>8, <2>9, <2>10, <2>11, <2>12,
       <2>13, <2>14, <2>15, <2>16, <2>17, <2>18, <2>19, <2>20, <2>21, <2>22, <2>23,
       <2>24 DEF Next, Begin, Continue
<1>3. QED
  BY <1>1, <1>2, Typing, PTL DEF Spec

-------------------------------------------------------------------------------
(* The steps that write rows                                               *)

\* A step that writes no row, reports no success and loses no claim that could
\* be won.
Quiet ==
  /\ UNCHANGED rows
  /\ \A p \in Requests : pc'[p] \in Successes => pc'[p] = pc[p] /\ arg'[p] = arg[p]
  /\ \A p \in Requests : pc'[p] = "classify" =>
       (pc[p] = "classify" /\ arg'[p] = arg[p]) \/ ~ Claimable(p)'

Commit(p) ==
  \/ \E t \in Tokens : CreateToken(p, t)
  \/ UpdateVerified(p)
  \/ CommitReset(p)
  \/ CommitDeletion(p)

\* Only the four commits write rows.
LEMMA QuietOrCommit ==
  ASSUME TypeOK, [Next]_vars
  PROVE  Quiet \/ \E p \in Requests : Commit(p)
<1> SUFFICES ASSUME ~ \E p \in Requests : Commit(p) PROVE Quiet
  OBVIOUS
<1> USE DEF TypeOK
<1>1. ASSUME NEW p \in Requests, Refuse(p)
      PROVE  Quiet
  BY <1>1 DEF Refuse, Quiet, Successes
<1>2. ASSUME NEW p \in Requests, NEW u \in Users, NEW k \in Kinds, BeginIssue(p, u, k)
      PROVE  Quiet
  BY <1>2 DEF BeginIssue, Goto, Quiet, Successes
<1>3. ASSUME NEW p \in Requests, NEW t \in Tokens, BeginVerify(p, t)
      PROVE  Quiet
  BY <1>3 DEF BeginVerify, Goto, Quiet, Successes
<1>4. ASSUME NEW p \in Requests, NEW t \in Tokens, BeginReset(p, t)
      PROVE  Quiet
  BY <1>4 DEF BeginReset, Goto, Quiet, Successes
<1>5. ASSUME NEW p \in Requests, NEW u \in Users, NEW t \in Tokens, BeginDelete(p, u, t)
      PROVE  Quiet
  BY <1>5 DEF BeginDelete, Goto, Quiet, Successes
<1>6. ASSUME NEW p \in Requests, CheckObligations(p)
      PROVE  Quiet
  BY <1>6 DEF CheckObligations, Goto, Quiet, Successes
<1>7. ASSUME NEW p \in Requests, LockUser(p)
      PROVE  Quiet
  BY <1>7 DEF LockUser, Goto, Quiet, Successes
<1>8. ASSUME NEW p \in Requests, DeleteUnused(p)
      PROVE  Quiet
  BY <1>8 DEF DeleteUnused, Goto, Quiet, Successes
<1>9. ASSUME NEW p \in Requests, NEW t \in Tokens, CreateToken(p, t)
      PROVE  Quiet
  BY <1>9 DEF Commit
<1>10. ASSUME NEW p \in Requests, SendMail(p)
      PROVE  Quiet
  BY <1>10 DEF SendMail, Goto, Quiet, Successes
<1>11. ASSUME NEW p \in Requests, Claim(p)
      PROVE  Quiet
  BY <1>11 DEF Claim, Goto, Quiet, Successes
<1>12. ASSUME NEW p \in Requests, ClaimNothing(p)
      PROVE  Quiet
  BY <1>12 DEF ClaimNothing, Quiet, Successes, Claimable, Stored, Expired, rows
<1>13. ASSUME NEW p \in Requests, UpdateVerified(p)
      PROVE  Quiet
  BY <1>13 DEF Commit
<1>14. ASSUME NEW p \in Requests, UpdatePassword(p)
      PROVE  Quiet
  BY <1>14 DEF UpdatePassword, Goto, Quiet, Successes
<1>15. ASSUME NEW p \in Requests, PurgeOthers(p)
      PROVE  Quiet
  BY <1>15 DEF PurgeOthers, Goto, Quiet, Successes
<1>16. ASSUME NEW p \in Requests, CommitReset(p)
      PROVE  Quiet
  BY <1>16 DEF Commit
<1>17. ASSUME NEW p \in Requests, LockAndRecheckUser(p)
      PROVE  Quiet
  BY <1>17 DEF LockAndRecheckUser, Quiet, Successes
<1>18. ASSUME NEW p \in Requests, ClaimDeletion(p)
      PROVE  Quiet
  BY <1>18 DEF ClaimDeletion, Goto, Quiet, Successes
<1>19. ASSUME NEW p \in Requests, RecheckObligations(p)
      PROVE  Quiet
  BY <1>19 DEF RecheckObligations, Goto, Quiet, Successes
<1>20. ASSUME NEW p \in Requests, EraseTokens(p)
      PROVE  Quiet
  BY <1>20 DEF EraseTokens, Goto, Quiet, Successes
<1>21. ASSUME NEW p \in Requests, CommitDeletion(p)
      PROVE  Quiet
  BY <1>21 DEF Commit
<1>22. ASSUME NEW p \in Requests, Classify(p)
      PROVE  Quiet
  <2>1. Classification(p) \in {"invalid", "already-verified", "expired"}
    BY DEF Classification
  <2>2. QED
    BY <1>22, <2>1 DEF Classify, Goto, Quiet, Successes
<1>23. ASSUME NEW p \in Requests, Abort(p)
      PROVE  Quiet
  BY <1>23 DEF Abort, Quiet, Successes
<1>24. CASE Tick \/ Served \/ UNCHANGED vars
  BY <1>24 DEF Tick, Served, vars, rows, Quiet, Claimable, Expired, Stored
<1>25. QED
  BY <1>1, <1>2, <1>3, <1>4, <1>5, <1>6, <1>7, <1>8, <1>9, <1>10, <1>11, <1>12,
     <1>13, <1>14, <1>15, <1>16, <1>17, <1>18, <1>19, <1>20, <1>21, <1>22, <1>23,
     <1>24 DEF Next, Begin, Continue

\* What a commit does to a token row: a row in use stays its owner's, of its
\* kind, and a spent or deleted one never works again.
LEMMA RowsAge ==
  ASSUME TypeOK, ControlOK, LockOK, NEW p \in Requests, Commit(p)
  PROVE  /\ Alone(p)
         /\ pc'[p] # "classify"
         /\ \A t \in Tokens : Born(t) =>
              /\ SameButState(t)
              /\ Born(t)'
              /\ token'[t].state = "unused" => token[t].state = "unused"
<1>1. CASE \E t \in Tokens : CreateToken(p, t)
  <2>1. PICK t \in Tokens : CreateToken(p, t)
    BY <1>1
  <2>2. Alone(p) /\ pc'[p] = "mail"
    BY <2>1 DEF CreateToken, Goto, Alone, TypeOK
  <2>3. ~ Born(t)
    BY <2>1 DEF CreateToken, Born
  <2>4. \A s \in Tokens \ {t} : SameButState(s) /\ token'[s].state = StateWithoutLocked(p, s)
    BY <2>1, CreatedRows
  <2>5. QED
    BY <2>2, <2>3, <2>4 DEF Born, StateWithoutLocked
<1>2. CASE UpdateVerified(p)
  <2>1. Alone(p) /\ pc'[p] = "verified"
    BY <1>2 DEF UpdateVerified, Goto, Alone, TypeOK
  <2>2. QED
    BY <1>2, <2>1, VerifiedRows DEF Born
<1>3. CASE CommitReset(p)
  <2>1. Alone(p) /\ pc'[p] = "success"
    BY <1>3 DEF CommitReset, Goto, Alone, TypeOK
  <2>2. QED
    BY <1>3, <2>1, ResetRows DEF Born, StateWithoutLocked
<1>4. CASE CommitDeletion(p)
  <2>1. Alone(p) /\ pc'[p] = "deleted"
    BY <1>4 DEF CommitDeletion, Goto, Alone, TypeOK
  <2>2. QED
    BY <1>4, <2>1, ErasedRows DEF Born, StateWithoutLocked
<1>5. QED
  BY <1>1, <1>2, <1>3, <1>4 DEF Commit

\* A commit that reports success spends the link its request claimed.
LEMMA SuccessSpends ==
  ASSUME TypeOK, ControlOK, LockOK, NEW p \in Requests, Commit(p), pc'[p] \in Successes
  PROVE  /\ arg' = arg
         /\ pc[p] \in Claimed
         /\ token'[arg[p].tok].state \in {"used", "deleted"}
<1>1. ~ \E t \in Tokens : CreateToken(p, t)
  BY DEF CreateToken, Goto, TypeOK, Successes
<1>2. CASE UpdateVerified(p)
  <2>1. arg' = arg /\ pc[p] \in Claimed
    BY <1>2 DEF UpdateVerified, Goto, Claimed
  <2>2. QED
    BY <1>2, <2>1, VerifiedRows DEF ControlOK, WithToken
<1>3. CASE CommitReset(p)
  <2>1. arg' = arg /\ pc[p] \in Claimed
    BY <1>3 DEF CommitReset, Goto, Claimed
  <2>2. QED
    BY <1>3, <2>1, ResetRows DEF ControlOK, WithToken
<1>4. CASE CommitDeletion(p)
  <2>1. arg' = arg /\ pc[p] \in Claimed
    BY <1>4 DEF CommitDeletion, Goto, Claimed
  <2>2. QED
    BY <1>4, <2>1, ErasedRows
    DEF ControlOK, WithToken, LockOK, ClaimedOK, StateWithoutLocked
<1>5. QED
  BY <1>1, <1>2, <1>3, <1>4 DEF Commit

\* The three invariants the theorems below rest on.
Facts == TypeOK /\ ControlOK /\ LockOK

LEMMA FactsHold == Spec => []Facts
BY Typing, LocksHold, PTL DEF Facts

-------------------------------------------------------------------------------
(* Safety                                                                  *)

\* At most one link of a kind works for an account at any time: the row
\* replaceToken creates replaces every working one, because the User row lock
\* is held from the DELETE to the commit.
THEOREM UniqueLinks == Spec => []OneLiveToken
<1>1. Init => OneLiveToken
  BY SeedAssumption DEF Init, Issued, OneLiveToken
<1>2. Facts /\ OneLiveToken /\ [Next]_vars => OneLiveToken'
  <2> SUFFICES ASSUME Facts, OneLiveToken, [Next]_vars PROVE OneLiveToken'
    OBVIOUS
  <2>1. CASE Quiet
    BY <2>1 DEF OneLiveToken, Quiet, rows
  <2>2. ASSUME NEW p \in Requests, NEW t \in Tokens, CreateToken(p, t)
        PROVE  OneLiveToken'
    <3>1. /\ token'[t].kind = arg[p].op /\ token'[t].owner = arg[p].uid
          /\ \A s \in Tokens \ {t} : SameButState(s) /\ token'[s].state = StateWithoutLocked(p, s)
      BY <2>2, CreatedRows DEF Facts
    <3>2. pc[p] = "create"
      BY <2>2 DEF CreateToken, Goto
    <3>3. \A s \in Tokens \ {t} : token'[s].state = "unused"
                                   => token[s].state = "unused" /\ tokenLock[s] # p
      BY <3>1 DEF StateWithoutLocked
    <3>4. \A s \in Tokens \ {t} :
            token'[s].state = "unused" => ~ (token'[s].kind = arg[p].op /\ token'[s].owner = arg[p].uid)
      BY <3>1, <3>2, <3>3 DEF Facts, LockOK, CoveredOK, Unused, SameButState
    <3>5. QED
      BY <3>1, <3>3, <3>4 DEF OneLiveToken, SameButState
  <2>3. ASSUME NEW p \in Requests, Commit(p), ~ \E t \in Tokens : CreateToken(p, t)
        PROVE  OneLiveToken'
    <3>1. \A t \in Tokens : SameButState(t) /\ (token'[t].state = "unused" => token[t].state = "unused")
      BY <2>3, VerifiedRows, ResetRows, ErasedRows DEF Commit, StateWithoutLocked, Facts
    <3>2. QED
      BY <3>1 DEF OneLiveToken, SameButState
  <2>4. QED
    BY <2>1, <2>2, <2>3, QuietOrCommit DEF Facts, Commit
<1>3. QED
  BY <1>1, <1>2, FactsHold, PTL DEF Spec

\* The link a request reports to have used does not work any more.
SpentOK ==
  \A p \in Requests : pc[p] \in Successes => token[arg[p].tok].state \in {"used", "deleted"}

\* No two requests are told that the same link worked: the row claimed is locked
\* until the commit that spends it, and a spent row never works again.
THEOREM LinksWorkOnce == Spec => [](SingleUse /\ SpentOK)
<1>1. Init => SingleUse /\ SpentOK
  BY DEF Init, SingleUse, SpentOK, Successes
<1>2. Facts /\ Facts' /\ SingleUse /\ SpentOK /\ [Next]_vars => SingleUse' /\ SpentOK'
  <2> SUFFICES ASSUME Facts, Facts', SingleUse, SpentOK, [Next]_vars
               PROVE  SingleUse' /\ SpentOK'
    OBVIOUS
  <2>1. CASE Quiet
    BY <2>1 DEF SingleUse, SpentOK, Quiet, rows
  <2>2. ASSUME NEW p \in Requests, Commit(p)
        PROVE  SingleUse' /\ SpentOK'
    <3>1. /\ Alone(p)
          /\ \A t \in Tokens : Born(t) =>
               Born(t)' /\ (token'[t].state = "unused" => token[t].state = "unused")
      BY <2>2, RowsAge DEF Facts
    <3>2. \A q \in Requests : pc[q] \in Successes \cup Claimed => arg[q].tok \in Tokens /\ Born(arg[q].tok)
      BY DEF Facts, ControlOK, WithToken
    <3>3. \A t \in Tokens : token'[t].state \in {"unborn", "unused", "used", "deleted"}
      BY DEF Facts, TypeOK, Token
    <3>4. \A q \in Requests \ {p} : pc'[q] \in Successes =>
            /\ pc[q] \in Successes /\ arg'[q] = arg[q]
            /\ token[arg[q].tok].state \in {"used", "deleted"}
            /\ token'[arg[q].tok].state \in {"used", "deleted"}
      BY <3>1, <3>2, <3>3 DEF Alone, SpentOK, Born
    <3>5. CASE pc'[p] \in Successes
      <4>1. /\ arg'[p] = arg[p] /\ pc[p] \in Claimed
            /\ token'[arg[p].tok].state \in {"used", "deleted"}
        BY <2>2, <3>5, SuccessSpends DEF Facts
      <4>2. token[arg[p].tok].state = "unused"
        BY <4>1 DEF Facts, LockOK, ClaimedOK, Unused
      <4>3. SpentOK'
        BY <3>4, <4>1 DEF SpentOK
      <4>4. SingleUse'
        BY <3>4, <4>1, <4>2 DEF SingleUse
      <4>5. QED
        BY <4>3, <4>4
    <3>6. CASE pc'[p] \notin Successes
      BY <3>4, <3>6 DEF SingleUse, SpentOK
    <3>7. QED
      BY <3>5, <3>6
  <2>3. QED
    BY <2>1, <2>2, QuietOrCommit DEF Facts
<1>3. QED
  BY <1>1, <1>2, FactsHold, PTL DEF Spec

\* Whoever lost the race for a link finds it spent, revoked or expired when it
\* looks for the reason, however long it waits before it looks.
THEOREM LosersAreTold == Spec => []LostClaimIsExplained
<1>1. Init => LostClaimIsExplained
  BY DEF Init, LostClaimIsExplained
<1>2. Facts /\ LostClaimIsExplained /\ [Next]_vars => LostClaimIsExplained'
  <2> SUFFICES ASSUME Facts, LostClaimIsExplained,
                      [Next]_vars PROVE LostClaimIsExplained'
    OBVIOUS
  <2>1. CASE Quiet
    BY <2>1 DEF LostClaimIsExplained, Quiet, Claimable, Stored, Expired, rows
  <2>2. ASSUME NEW p \in Requests, Commit(p)
        PROVE  LostClaimIsExplained'
    <3>1. /\ Alone(p) /\ pc'[p] # "classify"
          /\ \A t \in Tokens : Born(t) => /\ SameButState(t)
                                          /\ token'[t].state = "unused" => token[t].state = "unused"
      BY <2>2, RowsAge DEF Facts
    <3>2. ASSUME NEW q \in Requests, pc'[q] = "classify"
          PROVE  ~ Claimable(q)'
      <4>1. q # p /\ pc[q] = "classify" /\ arg'[q] = arg[q]
        BY <3>1, <3>2 DEF Alone
      <4>2. arg[q].tok \in Tokens /\ Born(arg[q].tok) /\ ~ Claimable(q)
        BY <4>1 DEF Facts, ControlOK, WithToken, LostClaimIsExplained
      <4>3. QED
        BY <3>1, <4>1, <4>2 DEF Claimable, Stored, Expired, SameButState
    <3>3. QED
      BY <3>2 DEF LostClaimIsExplained
  <2>3. QED
    BY <2>1, <2>2, QuietOrCommit DEF Facts
<1>3. QED
  BY <1>1, <1>2, FactsHold, PTL DEF Spec

\* A verification link is spent in the commit that verifies its account, and the
\* commit that would undo the verification deletes the link.
THEOREM SpentMeansVerified == Spec => []SpentLinkVerifies
<1>1. Init => SpentLinkVerifies
  BY DEF Init, SpentLinkVerifies, Stored
<1>2. Facts /\ Facts' /\ SpentLinkVerifies /\ [Next]_vars => SpentLinkVerifies'
  <2> SUFFICES ASSUME Facts, Facts', SpentLinkVerifies, [Next]_vars,
                      NEW t \in Tokens, Stored(t, "verify")', token'[t].state = "used"
               PROVE  user'[token'[t].owner].verified
    BY DEF SpentLinkVerifies
  <2>1. token'[t].owner \in Users /\ token'[t].kind = "verify"
    BY DEF Facts, ControlOK, BornOK, Born, Stored
  <2>2. CASE Quiet
    BY <2>2 DEF SpentLinkVerifies, Stored, Quiet, rows
  <2>3. ASSUME NEW p \in Requests, NEW s \in Tokens, CreateToken(p, s)
        PROVE  user'[token'[t].owner].verified
    <3>1. token[t].state = "used" /\ SameButState(t)
      BY <2>3, CreatedRows DEF Facts, StateWithoutLocked
    <3>2. user' = user
      BY <2>3 DEF CreateToken
    <3>3. QED
      BY <2>1, <3>1, <3>2 DEF SpentLinkVerifies, Stored, SameButState
  <2>4. ASSUME NEW p \in Requests, UpdateVerified(p)
        PROVE  user'[token'[t].owner].verified
    <3>1. SameButState(t) /\ (t # arg[p].tok => token[t].state = "used")
      BY <2>4, VerifiedRows DEF Facts
    <3>2. \A u \in Users : u # arg[p].uid => user'[u] = user[u]
      BY <2>4, VerifiedUser DEF Facts
    <3>3. user'[arg[p].uid].verified
      BY <2>4, VerifiedUser DEF Facts
    <3>4. token[arg[p].tok].owner = arg[p].uid
      BY <2>4 DEF UpdateVerified, Goto, Facts, LockOK, ClaimedOK, Claimed, Unused
    <3>5. QED
      BY <2>1, <3>1, <3>2, <3>3, <3>4 DEF SpentLinkVerifies, Stored, SameButState
  <2>5. ASSUME NEW p \in Requests, CommitReset(p)
        PROVE  user'[token'[t].owner].verified
    <3>1. token[arg[p].tok].kind = "reset"
      BY <2>5
      DEF CommitReset, Goto, Facts, LockOK, ClaimedOK, Claimed, Unused, ControlOK
    <3>2. SameButState(t) /\ token[t].state = "used"
      BY <2>1, <2>5, <3>1, ResetRows DEF Facts, SameButState, StateWithoutLocked
    <3>3. \A u \in Users : u # arg[p].uid => user'[u] = user[u]
      BY <2>5, ResetUser DEF Facts
    <3>4. user'[arg[p].uid].verified = user[arg[p].uid].verified
      BY <2>5, ResetUser DEF Facts
    <3>5. QED
      BY <2>1, <3>2, <3>3, <3>4 DEF SpentLinkVerifies, Stored, SameButState
  <2>6. ASSUME NEW p \in Requests, CommitDeletion(p)
        PROVE  user'[token'[t].owner].verified
    <3>1. SameButState(t) /\ token[t].state = "used" /\ tokenLock[t] # p
      BY <2>6, ErasedRows DEF Facts, StateWithoutLocked
    <3>2. token[t].owner # arg[p].uid
      BY <2>6, <3>1 DEF CommitDeletion, Goto, Facts, LockOK, CoveredOK
    <3>3. \A u \in Users : u # arg[p].uid => user'[u] = user[u]
      BY <2>6, DeletedUser DEF Facts
    <3>4. QED
      BY <2>1, <3>1, <3>2, <3>3 DEF SpentLinkVerifies, Stored, SameButState
  <2>7. QED
    BY <2>2, <2>3, <2>4, <2>5, <2>6, QuietOrCommit DEF Facts, Commit
<1>3. QED
  BY <1>1, <1>2, FactsHold, PTL DEF Spec

-------------------------------------------------------------------------------
(* What a step may do to an account                                        *)

\* What the successful commits write on the User row.
LEMMA UserEffects ==
  ASSUME Facts, NEW p \in Requests
  PROVE  /\ UpdateVerified(p) => user'[arg[p].uid] = [user[arg[p].uid] EXCEPT !.verified = TRUE]
         /\ CommitReset(p)    => user'[arg[p].uid] = [user[arg[p].uid] EXCEPT !.password = p]
<1>1. PICK u : u = arg[p].uid
  OBVIOUS
<1>2. ASSUME UpdateVerified(p)
      PROVE  user'[u] = [user[u] EXCEPT !.verified = TRUE]
  <2>1. PICK r : r = [user[u] EXCEPT !.verified = TRUE]
    OBVIOUS
  <2>2. user' = [user EXCEPT ![u] = r] /\ u \in Users /\ user \in [Users -> User]
    BY <1>1, <1>2, <2>1, VerifiedUser DEF UpdateVerified, Facts, TypeOK
  <2>3. QED
    BY <2>1, <2>2
<1>3. ASSUME CommitReset(p)
      PROVE  user'[u] = [user[u] EXCEPT !.password = p]
  <2>1. PICK r : r = [user[u] EXCEPT !.password = p]
    OBVIOUS
  <2>2. user' = [user EXCEPT ![u] = r] /\ u \in Users /\ user \in [Users -> User]
    BY <1>1, <1>3, <2>1, ResetUser DEF CommitReset, Facts, TypeOK
  <2>3. QED
    BY <2>1, <2>2
<1>4. QED
  BY <1>1, <1>2, <1>3

\* The request of a successful commit holds a working, mailed link of its
\* account that had not expired when it looked at the clock.
LEMMA ClaimedLink ==
  ASSUME Facts, NEW p \in Requests, pc[p] \in Claimed
  PROVE  /\ arg[p].tok \in Tokens /\ arg[p].tok \in mailed
         /\ Unused(arg[p].tok, arg[p].op, arg[p].uid)
         /\ arg[p].now < token[arg[p].tok].expiresAt
<1>1. /\ arg[p].tok \in Tokens /\ arg[p].tok \in mailed
      /\ Unused(arg[p].tok, arg[p].op, arg[p].uid) /\ ~ Expired(p)
  BY DEF Facts, ControlOK, WithToken, LockOK, ClaimedOK, Claimed
<1>2. token[arg[p].tok].expiresAt \in Nat /\ arg[p].now \in Nat
  BY <1>1 DEF Facts, TypeOK, Token, Argument
<1>3. QED
  BY <1>1, <1>2 DEF Expired

\* An account changes only in the commit of a request that spends a working link
\* mailed for it, and then as that kind of link changes it.
THEOREM OnlyLinksChangeAccounts == Spec => ChangesAreAuthorised
<1>1. Facts /\ [Next]_vars => AuthorisedChange
  <2> SUFFICES ASSUME Facts, [Next]_vars, NEW u \in Users, user'[u] # user[u]
               PROVE  \E t \in mailed, p \in Requests :
                        /\ token[t].state = "unused" /\ token[t].owner = u
                        /\ token'[t].state # "unused"
                        /\ pc[p] \notin Answers /\ pc'[p] \in Successes
                        /\ arg[p].tok = t /\ arg[p].now < token[t].expiresAt
                        /\ EffectOf(t)
    BY DEF AuthorisedChange
  <2>1. ~ Quiet
    BY DEF Quiet, rows
  <2>2. PICK p \in Requests : Commit(p)
    BY <2>1, QuietOrCommit DEF Facts
  <2>3. ~ \E t \in Tokens : CreateToken(p, t)
    BY DEF CreateToken
  <2>4. pc[p] \in Claimed /\ pc'[p] \in Successes /\ arg[p].uid = u
    <3>1. pc[p] \in Claimed /\ pc'[p] \in Successes
      BY <2>2, <2>3
      DEF Commit, UpdateVerified, CommitReset, CommitDeletion, Goto, Claimed,
         Successes, Facts, TypeOK
    <3>2. arg[p].uid = u
      <4>1. UpdateVerified(p) => arg[p].uid = u
        BY VerifiedUser DEF Facts
      <4>2. CommitReset(p) => arg[p].uid = u
        BY ResetUser DEF Facts
      <4>3. CommitDeletion(p) => arg[p].uid = u
        BY DeletedUser DEF Facts
      <4>4. QED
        BY <2>2, <2>3, <4>1, <4>2, <4>3 DEF Commit
    <3>3. QED
      BY <3>1, <3>2
  <2>5. pc[p] \notin Answers
    BY <2>4 DEF Claimed, Answers
  <2>6. /\ arg[p].tok \in mailed /\ Unused(arg[p].tok, arg[p].op, u)
        /\ arg[p].now < token[arg[p].tok].expiresAt
    BY <2>4, ClaimedLink
  <2>7. token'[arg[p].tok].state # "unused"
    BY <2>2, <2>4, SuccessSpends DEF Facts
  <2>8. EffectOf(arg[p].tok)
    <3>1. CASE UpdateVerified(p)
      <4>1. arg[p].op = "verify"
        BY <3>1 DEF UpdateVerified
      <4>2. QED
        BY <2>4, <2>6, <3>1, <4>1, UserEffects DEF EffectOf, Unused
    <3>2. CASE CommitReset(p)
      <4>1. arg[p].op = "reset"
        BY <3>2 DEF CommitReset, Goto, Facts, ControlOK
      <4>2. user'[u] = [user[u] EXCEPT !.password = p]
        BY <2>4, <3>2, UserEffects
      <4>3. QED
        BY <2>6, <4>1, <4>2 DEF EffectOf, Unused
    <3>3. CASE CommitDeletion(p)
      <4>1. arg[p].op = "delete" /\ user[u].status = "ACTIVE"
        BY <2>4, <3>3
        DEF CommitDeletion, Goto, Facts, ControlOK, DeletionSteps, LockOK, LiveOK,
           Live
      <4>2. user'[u].status = "DELETED"
        BY <2>4, <3>3, DeletedUser DEF Facts
      <4>3. QED
        BY <2>6, <4>1, <4>2 DEF EffectOf, Unused
    <3>4. QED
      BY <2>2, <2>3, <3>1, <3>2, <3>3 DEF Commit
  <2>9. QED
    BY <2>4, <2>5, <2>6, <2>7, <2>8 DEF Unused
<1>2. QED
  BY <1>1, FactsHold, PTL DEF Spec, ChangesAreAuthorised

\* The deletion's commit leaves no token of the account, because the rows its
\* DELETEs locked are still all the rows there are: nobody else could add one
\* while the User row was locked.
THEOREM NoTokenOutlivesItsAccount == Spec => DeletionTakesAllTokens
<1>1. Facts /\ Facts' /\ [Next]_vars => TokensDieWithAccount
  <2> SUFFICES ASSUME Facts, Facts', [Next]_vars, NEW u \in Users, NEW t \in Tokens,
                      user[u].status # "DELETED", user'[u].status = "DELETED",
                      token'[t].owner = u
               PROVE  token'[t].state = "deleted"
    BY DEF TokensDieWithAccount
  <2>1. ~ Quiet
    BY DEF Quiet, rows
  <2>2. PICK p \in Requests : Commit(p)
    BY <2>1, QuietOrCommit DEF Facts
  <2>3. ~ (\E s \in Tokens : CreateToken(p, s)) /\ ~ UpdateVerified(p) /\ ~ CommitReset(p)
    <3>1. ~ \E s \in Tokens : CreateToken(p, s)
      BY DEF CreateToken
    <3>2. ~ UpdateVerified(p)
      BY VerifiedUser DEF Facts
    <3>3. ~ CommitReset(p)
      BY ResetUser DEF Facts
    <3>4. QED
      BY <3>1, <3>2, <3>3
  <2>4. CommitDeletion(p)
    BY <2>2, <2>3 DEF Commit
  <2>5. arg[p].uid = u
    BY <2>4, DeletedUser DEF Facts
  <2>6. SameButState(t) /\ token'[t].state = StateWithoutLocked(p, t)
    BY <2>4, ErasedRows DEF Facts
  <2>7. token[t].state \in {"unused", "used", "deleted"}
    <3>1. Born(t)
      BY <2>6 DEF Facts, ControlOK, BornOK, SameButState
    <3>2. QED
      BY <3>1 DEF Born, Facts, TypeOK, Token
  <2>8. QED
    BY <2>4, <2>5, <2>6, <2>7
    DEF CommitDeletion, Goto, StateWithoutLocked, SameButState, Facts, LockOK, CoveredOK
<1>2. QED
  BY <1>1, FactsHold, PTL DEF Spec, DeletionTakesAllTokens
-------------------------------------------------------------------------------
(* Deadlocks, and the end of every request                                   *)

\* How far into its locks a request is: it has none, a claimed token, or the
\* User row.
Depth(s) == IF s \in UserHolding THEN 2 ELSE IF s = "update" THEN 1 ELSE 0

\* A request waits for one that is deeper in, or the two wait for each other:
\* one holds the User row and wants a token, the other has claimed the token and
\* wants the row.
DeadlocksInPairs ==
  \A p, q \in Requests : WaitsFor(p, q) =>
    \/ Depth(pc[p]) < Depth(pc[q])
    \/ pc[p] \in UserHolding /\ pc[q] = "update" /\ WaitsFor(q, p)

\* How far a request has got: every path of its code goes from lower to higher.
Stage(s) ==
  CASE s = "idle" -> 0
    [] s = "oblige" -> 1
    [] s \in {"lock", "claim", "delete-lock"} -> 2
    [] s = "update" -> 3
    [] s \in {"replace", "purge", "delete-claim"} -> 4
    [] s \in {"create", "reset-commit", "recheck"} -> 5
    [] s \in {"mail", "classify", "erase"} -> 6
    [] s = "delete-commit" -> 7
    [] s \in Answers -> 8

\* A step takes one request further and leaves the others where they are, or it
\* is the clock's.
StepsAhead ==
  \/ \E p \in Requests :
       /\ Stage(pc[p]) < Stage(pc'[p])
       /\ \A q \in Requests \ {p} : pc'[q] = pc[q]
  \/ /\ clock < clock' /\ clock' <= MaxClock
     /\ UNCHANGED <<rows, locks, mailed, pc, arg>>

\* Whoever wants a row of an account that another transaction has a token of
\* meets a claim, if it holds the User row itself.
LEMMA OneUserHolder ==
  ASSUME Facts, NEW p \in Requests, NEW q \in Requests, p # q, NEW t \in Tokens,
         pc[p] \in UserHolding, arg[p].uid \in Users,
         tokenLock[t] = q, token[t].owner = arg[p].uid
  PROVE  pc[q] = "update" /\ WaitsFor(q, p)
<1>1. arg[q].uid = arg[p].uid /\ pc[q] \in Claimed \cup {"create"}
  BY DEF Facts, LockOK, LockedOK
<1>2. userLock[arg[p].uid] = p
  BY DEF Facts, LockOK, HeldOK
<1>3. pc[q] \notin UserHolding
  BY <1>1, <1>2 DEF Facts, LockOK, HeldOK
<1>4. pc[q] = "update"
  BY <1>1, <1>3 DEF Claimed, UserHolding
<1>5. QED
  BY <1>1, <1>2, <1>4 DEF WaitsFor

\* The waits for row locks form no cycle but of two, one of them a claim: what
\* PostgreSQL is left to resolve, and all that DeadlockAbort has to.
THEOREM OnlyPairsDeadlock == Spec => []DeadlocksInPairs
<1>1. Facts => DeadlocksInPairs
  <2> SUFFICES ASSUME Facts, NEW p \in Requests, NEW q \in Requests, WaitsFor(p, q)
               PROVE  \/ Depth(pc[p]) < Depth(pc[q])
                      \/ pc[p] \in UserHolding /\ pc[q] = "update" /\ WaitsFor(q, p)
    BY DEF DeadlocksInPairs
  <2>1. p # q
    BY DEF WaitsFor
  <2>2. CASE pc[p] \in {"lock", "update", "delete-lock"} /\ userLock[arg[p].uid] = q
    <3>1. arg[p].uid \in Users
      BY <2>2 DEF Facts, ControlOK, WithUser
    <3>2. pc[q] \in UserHolding
      BY <2>2, <3>1 DEF Facts, LockOK, HeldOK
    <3>3. QED
      BY <2>2, <3>2 DEF Depth, UserHolding
  <2>3. ASSUME NEW t \in Wanted(p), tokenLock[t] = q
        PROVE  \/ Depth(pc[p]) < Depth(pc[q])
               \/ pc[p] \in UserHolding /\ pc[q] = "update" /\ WaitsFor(q, p)
    <3>1. CASE pc[p] = "claim"
      <4>1. t \in Tokens
        BY <2>3, <3>1 DEF Wanted, Facts, ControlOK, WithToken
      <4>2. pc[q] \in Claimed \cup {"create"}
        BY <2>3, <4>1 DEF Facts, LockOK, LockedOK
      <4>3. QED
        BY <3>1, <4>2 DEF Depth, Claimed, UserHolding
    <3>2. CASE pc[p] \in {"replace", "purge", "delete-claim", "erase"}
      <4>1. pc[p] \in UserHolding /\ arg[p].uid \in Users
        BY <3>2 DEF UserHolding, Facts, ControlOK, WithUser
      <4>2. t \in Tokens /\ token[t].owner = arg[p].uid
        BY <2>3, <3>2
        DEF Wanted, Replaced, Purged, Erased, Unused, Claimable, Facts, ControlOK,
            WithToken, DeletionSteps
      <4>3. QED
        BY <2>1, <2>3, <4>1, <4>2, OneUserHolder
    <3>3. QED
      BY <2>3, <3>1, <3>2 DEF Wanted
  <2>4. QED
    BY <2>2, <2>3 DEF WaitsFor
<1>2. QED
  BY <1>1, FactsHold, PTL

\* One step of a request takes it further and no other request anywhere.
LEMMA RequestStep ==
  ASSUME Facts, NEW p \in Requests, Begin(p) \/ Continue(p) \/ Abort(p)
  PROVE  Alone(p) /\ Stage(pc[p]) < Stage(pc'[p])
<1> USE DEF Goto, Alone
<1>0. pc \in [Requests -> Steps] /\ arg \in [Requests -> Argument]
  BY DEF Facts, TypeOK
<1>1. CASE Begin(p)
  <2>1. Alone(p) /\ pc[p] = "idle"
    BY <1>0, <1>1 DEF Begin, Refuse, BeginIssue, BeginVerify, BeginReset, BeginDelete
  <2>2. pc'[p] \in {"rate-limited", "invalid", "error", "expired", "unsupported",
                    "silent", "oblige", "lock", "claim", "delete-lock"}
    BY <1>0, <1>1 DEF Begin, Refuse, BeginIssue, BeginVerify, BeginReset, BeginDelete
  <2>3. QED
    BY <2>1, <2>2 DEF Stage, Answers
<1>2. CASE CheckObligations(p) \/ LockUser(p) \/ DeleteUnused(p) \/ SendMail(p)
           \/ (\E t \in Tokens : CreateToken(p, t))
  <2>1. Alone(p)
    BY <1>0, <1>2 DEF CheckObligations, LockUser, DeleteUnused, SendMail, CreateToken
  <2>2. \/ pc[p] = "oblige" /\ pc'[p] \in {"blocked", "lock"}
        \/ pc[p] = "lock" /\ pc'[p] = "replace"
        \/ pc[p] = "replace" /\ pc'[p] = "create"
        \/ pc[p] = "create" /\ pc'[p] = "mail"
        \/ pc[p] = "mail" /\ pc'[p] = "sent"
    BY <1>0, <1>2 DEF CheckObligations, LockUser, DeleteUnused, SendMail, CreateToken
  <2>3. QED
    BY <2>1, <2>2 DEF Stage, Answers
<1>3. CASE Claim(p) \/ ClaimNothing(p) \/ UpdateVerified(p) \/ UpdatePassword(p)
           \/ PurgeOthers(p) \/ CommitReset(p)
  <2>1. Alone(p)
    BY <1>0, <1>3
    DEF Claim, ClaimNothing, UpdateVerified, UpdatePassword, PurgeOthers, CommitReset
  <2>2. \/ pc[p] = "claim" /\ pc'[p] = "update"
        \/ pc[p] \in {"claim", "delete-claim"} /\ pc'[p] = "classify"
        \/ pc[p] = "update" /\ pc'[p] \in {"verified", "purge"}
        \/ pc[p] = "purge" /\ pc'[p] = "reset-commit"
        \/ pc[p] = "reset-commit" /\ pc'[p] = "success"
    BY <1>0, <1>3
    DEF Claim, ClaimNothing, UpdateVerified, UpdatePassword, PurgeOthers, CommitReset
  <2>3. QED
    BY <2>1, <2>2 DEF Stage, Answers
<1>4. CASE LockAndRecheckUser(p) \/ ClaimDeletion(p) \/ RecheckObligations(p)
           \/ EraseTokens(p) \/ CommitDeletion(p)
  <2>1. Alone(p)
    BY <1>0, <1>4
    DEF LockAndRecheckUser, ClaimDeletion, RecheckObligations, EraseTokens,
        CommitDeletion
  <2>2. \/ pc[p] = "delete-lock" /\ pc'[p] \in {"delete-claim", "blocked", "invalid"}
        \/ pc[p] = "delete-claim" /\ pc'[p] = "recheck"
        \/ pc[p] = "recheck" /\ pc'[p] \in {"blocked", "erase"}
        \/ pc[p] = "erase" /\ pc'[p] = "delete-commit"
        \/ pc[p] = "delete-commit" /\ pc'[p] = "deleted"
    BY <1>0, <1>4
    DEF LockAndRecheckUser, ClaimDeletion, RecheckObligations, EraseTokens,
        CommitDeletion
  <2>3. QED
    BY <2>1, <2>2 DEF Stage, Answers
<1>5. CASE Classify(p)
  <2>1. Classification(p) \in {"invalid", "already-verified", "expired"}
    BY DEF Classification
  <2>2. Alone(p) /\ pc[p] = "classify" /\ pc'[p] = Classification(p)
    BY <1>0, <1>5 DEF Classify
  <2>3. QED
    BY <2>1, <2>2 DEF Stage, Answers
<1>6. CASE Abort(p)
  <2>1. /\ Alone(p) /\ pc'[p] = "error"
        /\ pc[p] \in Transaction \cup {"oblige", "classify"}
    BY <1>0, <1>6 DEF Abort
  <2>2. QED
    BY <2>1 DEF Stage, Answers, Transaction
<1>7. QED
  BY <1>1, <1>2, <1>3, <1>4, <1>5, <1>6 DEF Continue

\* Every step takes one request at least one stage further and moves no other,
\* or it is a tick of the bounded clock: nothing is ever retried, and n requests
\* are done after at most 8 * n of their steps.
THEOREM NoLivelock == Spec => [][StepsAhead]_vars
<1>1. Facts /\ [Next]_vars => [StepsAhead]_vars
  <2> SUFFICES ASSUME Facts, Next, ~ UNCHANGED vars PROVE StepsAhead
    OBVIOUS
  <2>1. CASE Tick
    BY <2>1, TtlAssumption DEF Tick, StepsAhead, Facts, TypeOK
  <2>2. ASSUME NEW p \in Requests, Begin(p) \/ Continue(p) \/ Abort(p)
        PROVE  StepsAhead
    BY <2>2, RequestStep DEF StepsAhead, Alone
  <2>3. QED
    BY <2>1, <2>2 DEF Next, Served
<1>2. QED
  BY <1>1, FactsHold, PTL DEF Spec

-------------------------------------------------------------------------------
(* AccountTokens implements TokenSlots                                   *)

\* An account without a working link has an empty slot.
LEMMA EmptySlot == AnyOf({}) = None
BY DEF AnyOf

\* The slot holds the only working link.
LEMMA FullSlot ==
  ASSUME NEW t \in Tokens
  PROVE  AnyOf({t}) = t
BY DEF AnyOf

\* A slot holds a token or nothing.
LEMMA SlotType ==
  ASSUME NEW S \in SUBSET Tokens
  PROVE  AnyOf(S) \in Tokens \cup {None}
BY DEF AnyOf

\* The slot of an account is filled by the working link, if there is one.
LEMMA WorkingLink ==
  ASSUME OneLiveToken, NEW u, NEW k, NEW t \in Tokens, Unused(t, k, u)
  PROVE  Working(u, k) = {t}
BY DEF Working, OneLiveToken, Unused

\* Issuing fills the slot of one account and kind and changes no account.
LEMMA IssueStep ==
  ASSUME Facts, NEW p \in Requests, NEW t \in Tokens, CreateToken(p, t)
  PROVE  Abstract!Next
<1>1. /\ pc[p] = "create" /\ token[t].state = "unborn" /\ user' = user
  BY DEF CreateToken, Goto
<1>2. PICK u \in Users, k \in Kinds : u = arg[p].uid /\ k = arg[p].op
  BY <1>1 DEF Facts, TypeOK, Argument, ControlOK, WithUser
<1>3. /\ token'[t].state = "unused" /\ token'[t].kind = k /\ token'[t].owner = u
      /\ \A s \in Tokens \ {t} : SameButState(s) /\ token'[s].state = StateWithoutLocked(p, s)
  BY <1>2, CreatedRows DEF Facts
<1>4. \A s \in Tokens \ {t} : (token'[s].state = "unborn") <=> (token[s].state = "unborn")
  <2>1. \A s \in Tokens : tokenLock[s] = p => Born(s)
    BY NoneAssumption DEF Facts, ControlOK, BornOK
  <2>2. QED
    BY <1>3, <2>1 DEF StateWithoutLocked, Born
<1>5. Working(u, k)' = {t}
  <2>1. \A s \in Tokens \ {t} : ~ Unused(s, k, u)'
    BY <1>1, <1>2, <1>3
    DEF Facts, LockOK, CoveredOK, Unused, SameButState, StateWithoutLocked
  <2>2. QED
    BY <1>3, <2>1 DEF Working, Unused
<1>6. ASSUME NEW v \in Users, NEW j \in Kinds, v # u \/ j # k
      PROVE  Working(v, j)' = Working(v, j)
  <2>1. ~ Unused(t, j, v) /\ ~ Unused(t, j, v)'
    BY <1>1, <1>3, <1>6 DEF Unused
  <2>2. \A s \in Tokens : tokenLock[s] = p => ~ Unused(s, j, v)
    BY <1>1, <1>2, <1>6 DEF Facts, LockOK, LockedOK, Unused
  <2>3. \A s \in Tokens \ {t} : Unused(s, j, v)' <=> Unused(s, j, v)
    BY <1>3, <2>2 DEF Unused, SameButState, StateWithoutLocked
  <2>4. QED
    BY <2>1, <2>3 DEF Working
<1>7. /\ Slot(u, k)' = t
      /\ \A v \in Users, j \in Kinds : v # u \/ j # k => Slot(v, j)' = Slot(v, j)
  BY <1>5, <1>6, FullSlot DEF Slot
<1>8. Abstract!Issue(u, k, t)
  BY <1>1, <1>3, <1>4, <1>7 DEF Abstract!Issue, Abstract!Kinds, Kinds
<1>9. QED
  BY <1>8 DEF Abstract!Next, Abstract!Kinds, Kinds

\* Using a link empties the slot it filled and no other.
LEMMA VerifyStep ==
  ASSUME Facts, OneLiveToken, NEW p \in Requests, UpdateVerified(p)
  PROVE  Abstract!Next
<1>1. pc[p] = "update" /\ arg[p].op = "verify"
  BY DEF UpdateVerified, Goto
<1>2. PICK u \in Users, t \in Tokens : u = arg[p].uid /\ t = arg[p].tok
  BY <1>1 DEF Facts, ControlOK, WithUser, WithToken, Claimed
<1>3. Unused(t, "verify", u) /\ tokenLock[t] = p
  BY <1>1, <1>2 DEF Facts, LockOK, ClaimedOK, Claimed
<1>4. \A s \in Tokens : /\ SameButState(s)
                        /\ token'[s].state = IF s = t THEN "used" ELSE token[s].state
  BY <1>2, VerifiedRows DEF Facts
<1>5. \A s \in Tokens : (token'[s].state = "unborn") <=> (token[s].state = "unborn")
  BY <1>3, <1>4 DEF Unused
<1>6. Working(u, "verify") = {t}
  BY <1>3, WorkingLink
<1>7. Working(u, "verify")' = {}
  <2>1. \A s \in Tokens : Unused(s, "verify", u)' => Unused(s, "verify", u) /\ s # t
    BY <1>4 DEF Unused, SameButState
  <2>2. QED
    BY <1>6, <2>1 DEF Working
<1>8. ASSUME NEW v \in Users, NEW j \in Kinds, v # u \/ j # "verify"
      PROVE  Working(v, j)' = Working(v, j)
  <2>1. \A s \in Tokens : Unused(s, j, v)' <=> Unused(s, j, v)
    BY <1>3, <1>4, <1>8 DEF Unused, SameButState
  <2>2. QED
    BY <2>1 DEF Working
<1>9. /\ Slot(u, "verify") = t /\ Slot(u, "verify")' = None
      /\ \A v \in Users, j \in Kinds : v # u \/ j # "verify" => Slot(v, j)' = Slot(v, j)
  BY <1>6, <1>7, <1>8, FullSlot, EmptySlot DEF Slot
<1>10. /\ \A v \in Users \ {u} : user'[v] = user[v]
       /\ user'[u].status = user[u].status /\ user'[u].verified = TRUE
       /\ user'[u].password = user[u].password
  BY <1>2, VerifiedUser DEF Facts
<1>11. t # None
  BY NoneAssumption
<1>12. Abstract!Verify(u)
  <2>1. "verify" \in Kinds
    BY DEF Kinds
  <2>2. QED
    BY <1>5, <1>9, <1>10, <1>11, <2>1 DEF Abstract!Verify, Abstract!Kinds, Kinds
<1>13. QED
  BY <1>12 DEF Abstract!Next

\* A password reset empties the slot of the link and stores the request's hash.
LEMMA ResetStep ==
  ASSUME Facts, OneLiveToken, NEW p \in Requests, CommitReset(p)
  PROVE  Abstract!Next
<1>1. pc[p] = "reset-commit" /\ arg[p].op = "reset"
  BY DEF CommitReset, Goto, Facts, ControlOK
<1>2. PICK u \in Users, t \in Tokens : u = arg[p].uid /\ t = arg[p].tok
  BY <1>1 DEF Facts, ControlOK, WithUser, WithToken, Claimed
<1>3. Unused(t, "reset", u) /\ tokenLock[t] = p
  BY <1>1, <1>2 DEF Facts, LockOK, ClaimedOK, Claimed
<1>4. \A s \in Tokens : tokenLock[s] = p => s = t
  <2>1. \A s \in Tokens : tokenLock[s] = p => Unused(s, "reset", u)
    BY <1>1, <1>2 DEF Facts, LockOK, LockedOK
  <2>2. QED
    BY <1>3, <2>1 DEF OneLiveToken, Unused
<1>5. \A s \in Tokens : /\ SameButState(s)
                        /\ token'[s].state = IF s = t THEN "used" ELSE token[s].state
  BY <1>2, <1>4, ResetRows DEF Facts, StateWithoutLocked
<1>6. \A s \in Tokens : (token'[s].state = "unborn") <=> (token[s].state = "unborn")
  BY <1>3, <1>5 DEF Unused
<1>7. Working(u, "reset") = {t}
  BY <1>3, WorkingLink
<1>8. Working(u, "reset")' = {}
  <2>1. \A s \in Tokens : Unused(s, "reset", u)' => Unused(s, "reset", u) /\ s # t
    BY <1>5 DEF Unused, SameButState
  <2>2. QED
    BY <1>7, <2>1 DEF Working
<1>9. ASSUME NEW v \in Users, NEW j \in Kinds, v # u \/ j # "reset"
      PROVE  Working(v, j)' = Working(v, j)
  <2>1. \A s \in Tokens : Unused(s, j, v)' <=> Unused(s, j, v)
    BY <1>3, <1>5, <1>9 DEF Unused, SameButState
  <2>2. QED
    BY <2>1 DEF Working
<1>10. /\ Slot(u, "reset") = t /\ Slot(u, "reset")' = None
       /\ \A v \in Users, j \in Kinds : v # u \/ j # "reset" => Slot(v, j)' = Slot(v, j)
  BY <1>7, <1>8, <1>9, FullSlot, EmptySlot DEF Slot
<1>11. /\ \A v \in Users \ {u} : user'[v] = user[v]
       /\ user'[u].status = user[u].status /\ user'[u].verified = user[u].verified
       /\ user'[u].password = p
  BY <1>2, ResetUser DEF Facts
<1>12. t # None /\ p \in Passwords \ {None}
  BY NoneAssumption DEF Passwords
<1>13. Abstract!Reset(u, p)
  <2>1. "reset" \in Kinds
    BY DEF Kinds
  <2>2. user[u].verified \in BOOLEAN
    BY DEF Facts, TypeOK, User
  <2>3. CASE user[u].verified = TRUE
    BY <1>6, <1>10, <1>11, <1>12, <2>1, <2>3 DEF Abstract!Reset, Abstract!Kinds, Kinds
  <2>4. CASE user[u].verified = FALSE
    BY <1>6, <1>10, <1>11, <1>12, <2>1, <2>4 DEF Abstract!Reset, Abstract!Kinds, Kinds
  <2>5. QED
    BY <2>2, <2>3, <2>4
<1>14. QED
  BY <1>12, <1>13 DEF Abstract!Next

\* Deleting an account empties all its slots and makes it a tombstone.
LEMMA DeleteStep ==
  ASSUME Facts, OneLiveToken, NEW p \in Requests, CommitDeletion(p)
  PROVE  Abstract!Next
<1>1. pc[p] = "delete-commit" /\ arg[p].op = "delete"
  BY DEF CommitDeletion, Goto, Facts, ControlOK, DeletionSteps
<1>2. PICK u \in Users, t \in Tokens : u = arg[p].uid /\ t = arg[p].tok
  BY <1>1 DEF Facts, ControlOK, WithUser, WithToken, Claimed
<1>3. Unused(t, "delete", u) /\ user[u].status = "ACTIVE"
  BY <1>1, <1>2 DEF Facts, LockOK, ClaimedOK, Claimed, LiveOK, Live, DeletionSteps
<1>4. \A s \in Tokens : SameButState(s) /\ token'[s].state = StateWithoutLocked(p, s)
  BY ErasedRows DEF Facts
<1>5. \A s \in Tokens : (token'[s].state = "unborn") <=> (token[s].state = "unborn")
  <2>1. \A s \in Tokens : tokenLock[s] = p => Born(s)
    BY NoneAssumption DEF Facts, ControlOK, BornOK
  <2>2. QED
    BY <1>4, <2>1 DEF StateWithoutLocked, Born
<1>6. Working(u, "delete") = {t}
  BY <1>3, WorkingLink
<1>7. ASSUME NEW j \in Kinds
      PROVE  Working(u, j)' = {}
  <2>1. \A s \in Tokens : ~ Unused(s, j, u)'
    BY <1>1, <1>2, <1>4
    DEF Facts, LockOK, CoveredOK, Unused, SameButState, StateWithoutLocked
  <2>2. QED
    BY <2>1 DEF Working
<1>8. ASSUME NEW v \in Users \ {u}, NEW j \in Kinds
      PROVE  Working(v, j)' = Working(v, j)
  <2>1. \A s \in Tokens : tokenLock[s] = p => token[s].owner = u
    BY <1>2 DEF Facts, LockOK, LockedOK
  <2>2. \A s \in Tokens : Unused(s, j, v)' <=> Unused(s, j, v)
    BY <1>4, <1>8, <2>1 DEF Unused, SameButState, StateWithoutLocked
  <2>3. QED
    BY <2>2 DEF Working
<1>9. /\ Slot(u, "delete") = t
      /\ \A j \in Kinds : Slot(u, j)' = None
      /\ \A v \in Users \ {u}, j \in Kinds : Slot(v, j)' = Slot(v, j)
  BY <1>6, <1>7, <1>8, FullSlot, EmptySlot DEF Slot
<1>10. /\ \A v \in Users \ {u} : user'[v] = user[v]
       /\ user'[u].status = "DELETED" /\ user'[u].verified = FALSE
       /\ user'[u].password = None
  BY <1>2, DeletedUser DEF Facts
<1>11. t # None
  BY NoneAssumption
<1>12. Abstract!Delete(u)
  <2>1. "delete" \in Kinds
    BY DEF Kinds
  <2>2. QED
    BY <1>3, <1>5, <1>9, <1>10, <1>11, <2>1 DEF Abstract!Delete, Abstract!Kinds, Kinds
<1>13. QED
  BY <1>12 DEF Abstract!Next

\* The requests, their transactions and their locks implement TokenSlots: seen
\* through the committed rows each link is issued, used or revoked in one step.
THEOREM Refinement == Spec => ImplementsSlots
<1>1. Init => Abstract!Init
  <2> SUFFICES ASSUME Init PROVE Abstract!Init
    OBVIOUS
  <2>1. [u \in Users |-> [k \in Kinds |-> Slot(u, k)]] \in [Users -> [Kinds -> Tokens \cup {None}]]
    BY SlotType DEF Slot, Working
  <2>2. \A u \in Users : user[u] \in User
    BY InitialUsersAssumption DEF Init
  <2>3. QED
    BY <2>1, <2>2 DEF Abstract!Init, Abstract!Kinds, Kinds, Abstract!Account, User
<1>2. Facts /\ OneLiveToken /\ [Next]_vars => [Abstract!Next]_(Abstract!vars)
  <2> SUFFICES ASSUME Facts, OneLiveToken, [Next]_vars
               PROVE  Abstract!Next \/ UNCHANGED Abstract!vars
    OBVIOUS
  <2>1. CASE Quiet
    <3>1. UNCHANGED <<user, token>>
      BY <2>1 DEF Quiet, rows
    <3>2. \A u, k : Slot(u, k)' = Slot(u, k)
      BY <3>1 DEF Slot, Working, Unused
    <3>3. QED
      BY <3>1, <3>2 DEF Abstract!vars
  <2>2. ASSUME NEW p \in Requests, Commit(p)
        PROVE  Abstract!Next
    BY <2>2, IssueStep, VerifyStep, ResetStep, DeleteStep DEF Commit
  <2>3. QED
    BY <2>1, <2>2, QuietOrCommit DEF Facts
<1>3. QED
  BY <1>1, <1>2, FactsHold, UniqueLinks, PTL DEF Spec, ImplementsSlots, Abstract!Spec
===============================================================================
