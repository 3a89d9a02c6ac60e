---------------------------- MODULE IdentitiesProofs ----------------------------
(***************************************************************************)
(* Theorems about Identities and their proofs.                             *)
(***************************************************************************)
EXTENDS IdentitiesDirectory, TLAPS

\* Transactions that have inserted a User row, or locked one to delete it.
Creating == {"consents", "link"}

Deleting == {"delete-accounts", "anonymize"}

\* Where a request may be once the row it creates is committed.
Settled == {"mail", "created", "core", "jwt", "signed-in", "not-active", "error"}

\* What a request's program point says of its arguments.
ControlOK ==
  \A p \in Requests :
    /\ pc[p] \in {"email", "user"} \cup Creating =>
         arg[p].op \in {"register", "oauth"} /\ arg[p].email \in Emails
    /\ pc[p] \in {"account", "link", "reclassify-account", "reclassify-email", "core"} =>
         arg[p].op = "oauth"
    /\ arg[p].op = "oauth" => arg[p].identity \in Identities /\ arg[p].email \in Emails
    /\ pc[p] \in {"lock-user"} \cup Deleting => arg[p].op = "delete"
    /\ pc[p] \in {"lock-user", "jwt"} \cup Deleting => arg[p].uid \in Users

\* A transaction that has inserted an address or locked an account holds it,
\* and a deletion about to commit holds the identities of its account and no
\* others.
LockOK ==
  \A p \in Requests :
    /\ pc[p] \in Creating => lock[arg[p].email] = p
    /\ pc[p] \in Deleting => lock[arg[p].uid] = p
    /\ pc[p] = "anonymize" =>
         \A i \in Identities : account[i] = arg[p].uid => lock[i] = p
    /\ \A i \in Identities : lock[i] = p =>
         pc[p] = "anonymize" /\ account[i] = arg[p].uid

\* A committed row has the address and the identity it was created with until
\* it is deleted, and nobody else has them.
Kept(u) ==
  Exists(u) =>
    /\ user[u].status = "DELETED" => user[u].email = None
    /\ user[u].status # "DELETED" =>
         /\ user[u].email = FirstEmail(u) /\ FirstEmail(u) \in Emails
         /\ Home(u) # None => account[Home(u)] = u

RowsOK ==
  /\ \A u \in Residents : Exists(u)
  /\ \A u \in Users : Kept(u)
  /\ \A u, v \in Users :
       /\ Exists(u) /\ Exists(v)
       /\ user[u].email # None /\ user[u].email = user[v].email
       => u = v
  /\ \A i \in Identities : account[i] # None =>
       /\ Exists(account[i]) /\ user[account[i]].status # "DELETED"
       /\ Home(account[i]) = i
  /\ \A p \in Requests :
       /\ Exists(p) => /\ pc[p] \in Settled /\ arg[p].op \in {"register", "oauth"}
                       /\ user[p].complete = TRUE
       /\ pc[p] \in Creating => Holders(arg[p].email) = {}
       /\ pc[p] \in Deleting => Active(arg[p].uid)

\* What a request's program point says of the accounts it met.
AnswerOK(p) ==
  /\ pc[p] \in {"mail", "created"} => Exists(p)
  /\ pc[p] \in {"jwt", "signed-in"} =>
       /\ arg[p].uid \in Users /\ Exists(arg[p].uid)
       /\ Home(arg[p].uid) = arg[p].identity
  /\ pc[p] = "reclassify-account" =>
       \E u \in Users :
         /\ Exists(u)
         /\ Home(u) = arg[p].identity \/ FirstEmail(u) = arg[p].email
  /\ pc[p] = "reclassify-email" =>
       \E u \in Users :
         /\ Exists(u)
         /\ \/ Home(u) = arg[p].identity /\ user[u].status = "DELETED"
            \/ FirstEmail(u) = arg[p].email
  /\ pc[p] = "conflict" =>
       \E u \in Users :
         /\ user[u].status = "DELETED"
         /\ Home(u) = arg[p].identity \/ FirstEmail(u) = arg[p].email

AnswersOK == \A p \in Requests : AnswerOK(p)

-------------------------------------------------------------------------------
(* The values a commit writes.                                             *)

\* A row that is created is a row.
LEMMA NewRow ==
  ASSUME NEW p \in Requests, arg[p].email \in Emails
  PROVE  /\ NewUser(p) \in User
         /\ NewUser(p).status = "ACTIVE"
         /\ NewUser(p).email = arg[p].email
         /\ NewUser(p).complete = TRUE
BY DEF NewUser, User

\* A row that is anonymised is a row.
LEMMA Tombstone ==
  ASSUME NEW r \in User
  PROVE  /\ [r EXCEPT !.status = "DELETED", !.email = None] \in User
         /\ [r EXCEPT !.status = "DELETED", !.email = None].status = "DELETED"
         /\ [r EXCEPT !.status = "DELETED", !.email = None].email = None
         /\ [r EXCEPT !.status = "DELETED", !.email = None].complete = r.complete
BY DEF User

\* Writing one entry of a table leaves the others alone.
LEMMA OneEntry ==
  ASSUME NEW D, NEW R, NEW f \in [D -> R], NEW d \in D, NEW r \in R
  PROVE  /\ [f EXCEPT ![d] = r] \in [D -> R]
         /\ [f EXCEPT ![d] = r][d] = r
         /\ \A e \in D \ {d} : [f EXCEPT ![d] = r][e] = f[e]
OBVIOUS

\* What the deletion's commit does to the User rows.
LEMMA AnonymizedRows ==
  ASSUME TypeOK, ControlOK, NEW p \in Requests, Anonymize(p)
  PROVE  /\ user' \in [Users -> User]
         /\ user'[arg[p].uid].status = "DELETED" /\ user'[arg[p].uid].email = None
         /\ user'[arg[p].uid].complete = user[arg[p].uid].complete
         /\ \A u \in Users \ {arg[p].uid} : user'[u] = user[u]
<1>1. arg[p].uid \in Users /\ user \in [Users -> User]
  BY DEF Anonymize, Goto, ControlOK, Deleting, TypeOK
<1>2. PICK r : r = [user[arg[p].uid] EXCEPT !.status = "DELETED", !.email = None]
  OBVIOUS
<1>3. user[arg[p].uid] \in User
  BY <1>1
<1>4. /\ r \in User /\ r.status = "DELETED" /\ r.email = None
      /\ r.complete = user[arg[p].uid].complete
  BY <1>2, <1>3, Tombstone
<1>5. user' = [user EXCEPT ![arg[p].uid] = r]
  BY <1>2 DEF Anonymize
<1>6. QED
  BY <1>1, <1>4, <1>5, OneEntry

\* What a sign-up's commit does to the User rows.
LEMMA CreatedRows ==
  ASSUME TypeOK, NEW p \in Requests, arg[p].email \in Emails,
         user' = [user EXCEPT ![p] = NewUser(p)]
  PROVE  /\ user' \in [Users -> User]
         /\ user'[p].status = "ACTIVE" /\ user'[p].email = arg[p].email
         /\ user'[p].complete = TRUE
         /\ \A u \in Users \ {p} : user'[u] = user[u]
<1>1. p \in Users /\ user \in [Users -> User]
  BY DEF TypeOK, Users
<1>2. QED
  BY <1>1, NewRow, OneEntry

-------------------------------------------------------------------------------
(* Types                                                                   *)

\* The initial values have their types.
LEMMA TypingInit ==
  ASSUME Init
  PROVE  TypeOK /\ ControlOK
BY KeysAssumption, ResidentAssumption
DEF Init, TypeOK, ControlOK, User, Argument, Steps, Creating, Deleting, Users

\* Every variable of every reachable state keeps to its type, and a request at
\* a program point has the arguments its next statement needs.
THEOREM Typing == Spec => [](TypeOK /\ ControlOK)
<1>1. Init => TypeOK /\ ControlOK
  BY TypingInit
<1>2. TypeOK /\ ControlOK /\ [Next]_vars => TypeOK' /\ ControlOK'
  <2> SUFFICES ASSUME TypeOK, ControlOK, [Next]_vars PROVE TypeOK' /\ ControlOK'
    OBVIOUS
  <2> USE DEF TypeOK, ControlOK, Goto, rows, Creating, Deleting
  <2>1. ASSUME NEW p \in Requests, Refuse(p)
        PROVE  TypeOK' /\ ControlOK'
    <3>1. TypeOK'
      BY <2>1 DEF Refuse, Steps, Transaction, Answers, Argument, Keys
    <3>2. ControlOK'
      BY <2>1 DEF Refuse, Transaction, Answers, Argument
    <3>3. QED
      BY <3>1, <3>2
  <2>2. ASSUME NEW p \in Requests, NEW e \in Emails, BeginRegister(p, e)
        PROVE  TypeOK' /\ ControlOK'
    <3>1. TypeOK'
      BY <2>2 DEF BeginRegister, Steps, Transaction, Answers, Argument, Keys
    <3>2. ControlOK'
      BY <2>2 DEF BeginRegister, Transaction, Answers, Argument
    <3>3. QED
      BY <3>1, <3>2
  <2>3. ASSUME NEW p \in Requests, FindEmail(p)
        PROVE  TypeOK' /\ ControlOK'
    <3>1. TypeOK'
      BY <2>3 DEF FindEmail, Taken, Steps, Transaction, Answers, Argument, Keys
    <3>2. ControlOK'
      BY <2>3 DEF FindEmail, Taken, Transaction, Answers, Argument
    <3>3. QED
      BY <3>1, <3>2
  <2>4. ASSUME NEW p \in Requests, CreateUser(p)
        PROVE  TypeOK' /\ ControlOK'
    <3>1. TypeOK'
      BY <2>4 DEF CreateUser, Take, Steps, Transaction, Answers, Argument, Keys
    <3>2. ControlOK'
      BY <2>4 DEF CreateUser, Take, Transaction, Answers, Argument
    <3>3. QED
      BY <3>1, <3>2
  <2>5. ASSUME NEW p \in Requests, EmailConflict(p)
        PROVE  TypeOK' /\ ControlOK'
    <3>1. TypeOK'
      BY <2>5 DEF EmailConflict, Release, Steps, Transaction, Answers, Argument, Keys
    <3>2. ControlOK'
      BY <2>5 DEF EmailConflict, Release, Transaction, Answers, Argument
    <3>3. QED
      BY <3>1, <3>2
  <2>6. ASSUME NEW p \in Requests, CreateConsents(p)
        PROVE  TypeOK' /\ ControlOK'
    <3>1. /\ pc[p] = "consents" /\ arg[p].email \in Emails /\ arg' = arg
          /\ pc' = [pc EXCEPT ![p] = IF arg[p].op = "oauth" THEN "link" ELSE "mail"]
          /\ arg[p].op \in {"register", "oauth"}
      BY <2>6 DEF CreateConsents
    <3>2. user' = user \/ user' = [user EXCEPT ![p] = NewUser(p)]
      BY <2>6 DEF CreateConsents
    <3>3. user' \in [Users -> User] /\ account' = account
      BY <2>6, <3>1, <3>2, CreatedRows DEF CreateConsents
    <3>4. lock' \in [Keys -> Requests \cup {None}]
      BY <2>6 DEF CreateConsents, Release
    <3>5. TypeOK'
      BY <3>1, <3>3, <3>4 DEF Steps, Transaction
    <3>6. ControlOK'
      BY <3>1
    <3>7. QED
      BY <3>5, <3>6
  <2>7. ASSUME NEW p \in Requests, SendVerification(p)
        PROVE  TypeOK' /\ ControlOK'
    <3>1. TypeOK'
      BY <2>7 DEF SendVerification, Steps, Transaction, Answers, Argument, Keys
    <3>2. ControlOK'
      BY <2>7 DEF SendVerification, Transaction, Answers, Argument
    <3>3. QED
      BY <3>1, <3>2
  <2>8. ASSUME NEW p \in Requests, NEW i \in Identities, NEW e \in Emails, BeginOAuth(p, i, e)
        PROVE  TypeOK' /\ ControlOK'
    <3>1. TypeOK'
      BY <2>8 DEF BeginOAuth, Steps, Transaction, Answers, Argument, Keys
    <3>2. ControlOK'
      BY <2>8 DEF BeginOAuth, Transaction, Answers, Argument
    <3>3. QED
      BY <3>1, <3>2
  <2>9. ASSUME NEW p \in Requests, NEW cookie \in BOOLEAN, FindAccount(p, cookie)
        PROVE  TypeOK' /\ ControlOK'
    <3>1. TypeOK'
      BY <2>9 DEF FindAccount, Existing, Steps, Transaction, Answers, Argument, Keys
    <3>2. ControlOK'
      BY <2>9 DEF FindAccount, Existing, Transaction, Answers, Argument
    <3>3. QED
      BY <3>1, <3>2
  <2>10. ASSUME NEW p \in Requests, LinkAccount(p)
        PROVE  TypeOK' /\ ControlOK'
    <3>1. /\ pc[p] = "link" /\ arg[p].email \in Emails /\ arg' = arg
          /\ pc' = [pc EXCEPT ![p] = "core"]
          /\ user' = [user EXCEPT ![p] = NewUser(p)]
          /\ account' = [account EXCEPT ![arg[p].identity] = p]
      BY <2>10 DEF LinkAccount
    <3>2. user' \in [Users -> User]
      BY <3>1, CreatedRows
    <3>3. account' \in [Identities -> Users \cup {None}]
      BY <3>1 DEF Users
    <3>4. lock' \in [Keys -> Requests \cup {None}]
      BY <2>10 DEF LinkAccount, Release
    <3>5. TypeOK'
      BY <3>1, <3>2, <3>3, <3>4 DEF Steps
    <3>6. ControlOK'
      BY <3>1
    <3>7. QED
      BY <3>5, <3>6
  <2>11. ASSUME NEW p \in Requests, AccountConflict(p)
        PROVE  TypeOK' /\ ControlOK'
    <3>1. TypeOK'
      BY <2>11 DEF AccountConflict, Release, Steps, Transaction, Answers, Argument, Keys
    <3>2. ControlOK'
      BY <2>11 DEF AccountConflict, Release, Transaction, Answers, Argument
    <3>3. QED
      BY <3>1, <3>2
  <2>12. ASSUME NEW p \in Requests, ReclassifyAccount(p)
        PROVE  TypeOK' /\ ControlOK'
    <3>1. TypeOK'
      BY <2>12 DEF ReclassifyAccount, Existing, Steps, Transaction, Answers, Argument, Keys
    <3>2. ControlOK'
      BY <2>12 DEF ReclassifyAccount, Existing, Transaction, Answers, Argument
    <3>3. QED
      BY <3>1, <3>2
  <2>13. ASSUME NEW p \in Requests, ReclassifyEmail(p)
        PROVE  TypeOK' /\ ControlOK'
    <3>1. TypeOK'
      BY <2>13 DEF ReclassifyEmail, Steps, Transaction, Answers, Argument, Keys
    <3>2. ControlOK'
      BY <2>13 DEF ReclassifyEmail, Transaction, Answers, Argument
    <3>3. QED
      BY <3>1, <3>2
  <2>14. ASSUME NEW p \in Requests, CoreLookup(p)
        PROVE  TypeOK' /\ ControlOK'
    <3>1. /\ pc[p] = "core" /\ arg[p].op = "oauth" /\ arg[p].identity \in Identities
          /\ \/ account[arg[p].identity] # None /\ pc' = [pc EXCEPT ![p] = "jwt"]
             \/ pc' = [pc EXCEPT ![p] = "error"]
          /\ arg' = [arg EXCEPT ![p] = [@ EXCEPT !.uid = account[arg[p].identity]]]
          /\ UNCHANGED <<user, account, lock>>
      BY <2>14 DEF CoreLookup
    <3>2. account[arg[p].identity] \in Users \cup {None}
      BY <3>1
    <3>3. /\ arg' \in [Requests -> Argument]
          /\ arg'[p].op = "oauth" /\ arg'[p].identity = arg[p].identity
          /\ arg'[p].email = arg[p].email
          /\ arg'[p].uid = account[arg[p].identity]
      BY <3>1, <3>2 DEF Argument
    <3>4. \A q \in Requests \ {p} : arg'[q] = arg[q] /\ pc'[q] = pc[q]
      BY <3>1
    <3>5. TypeOK'
      BY <3>1, <3>3 DEF Steps, Answers
    <3>6. ControlOK'
      BY <3>1, <3>2, <3>3, <3>4
    <3>7. QED
      BY <3>5, <3>6
  <2>15. ASSUME NEW p \in Requests, CheckClaims(p)
        PROVE  TypeOK' /\ ControlOK'
    <3>1. TypeOK'
      BY <2>15 DEF CheckClaims, Steps, Transaction, Answers, Argument, Keys
    <3>2. ControlOK'
      BY <2>15 DEF CheckClaims, Transaction, Answers, Argument
    <3>3. QED
      BY <3>1, <3>2
  <2>16. ASSUME NEW p \in Requests, NEW u \in Users, BeginDelete(p, u)
        PROVE  TypeOK' /\ ControlOK'
    <3>1. TypeOK'
      BY <2>16 DEF BeginDelete, Steps, Transaction, Answers, Argument, Keys
    <3>2. ControlOK'
      BY <2>16 DEF BeginDelete, Transaction, Answers, Argument
    <3>3. QED
      BY <3>1, <3>2
  <2>17. ASSUME NEW p \in Requests, LockUser(p)
        PROVE  TypeOK' /\ ControlOK'
    <3>1. TypeOK'
      BY <2>17 DEF LockUser, Take, Steps, Transaction, Answers, Argument, Keys
    <3>2. ControlOK'
      BY <2>17 DEF LockUser, Take, Transaction, Answers, Argument
    <3>3. QED
      BY <3>1, <3>2
  <2>18. ASSUME NEW p \in Requests, Decline(p)
        PROVE  TypeOK' /\ ControlOK'
    <3>1. TypeOK'
      BY <2>18 DEF Decline, Release, Steps, Transaction, Answers, Argument, Keys
    <3>2. ControlOK'
      BY <2>18 DEF Decline, Release, Transaction, Answers, Argument
    <3>3. QED
      BY <3>1, <3>2
  <2>19. ASSUME NEW p \in Requests, DeleteAccounts(p)
        PROVE  TypeOK' /\ ControlOK'
    <3>1. TypeOK'
      BY <2>19 DEF DeleteAccounts, Take, Owned, Steps, Transaction, Answers, Argument, Keys
    <3>2. ControlOK'
      BY <2>19 DEF DeleteAccounts, Take, Owned, Transaction, Answers, Argument
    <3>3. QED
      BY <3>1, <3>2
  <2>20. ASSUME NEW p \in Requests, Anonymize(p)
        PROVE  TypeOK' /\ ControlOK'
    <3>1. /\ pc[p] = "anonymize" /\ arg' = arg
          /\ pc' = [pc EXCEPT ![p] = "deleted"]
          /\ account' = [i \in Identities |-> IF lock[i] = p THEN None ELSE account[i]]
      BY <2>20 DEF Anonymize
    <3>2. user' \in [Users -> User]
      BY <2>20, AnonymizedRows
    <3>3. account' \in [Identities -> Users \cup {None}]
      BY <3>1
    <3>4. lock' \in [Keys -> Requests \cup {None}]
      BY <2>20 DEF Anonymize, Release
    <3>5. TypeOK'
      BY <3>1, <3>2, <3>3, <3>4 DEF Steps, Answers
    <3>6. ControlOK'
      BY <3>1
    <3>7. QED
      BY <3>5, <3>6
  <2>21. ASSUME NEW p \in Requests, Abort(p)
        PROVE  TypeOK' /\ ControlOK'
    <3>1. TypeOK'
      BY <2>21 DEF Abort, Release, Steps, Transaction, Answers, Argument, Keys
    <3>2. ControlOK'
      BY <2>21 DEF Abort, Release, Transaction, Answers, Argument
    <3>3. QED
      BY <3>1, <3>2
  <2>22. CASE UNCHANGED vars
    BY <2>22 DEF vars
  <2>23. QED
    BY <2>1, <2>2, <2>3, <2>4, <2>5, <2>6, <2>7, <2>8, <2>9, <2>10, <2>11, <2>12, <2>13, <2>14, <2>15, <2>16, <2>17, <2>18, <2>19, <2>20, <2>21, <2>22 DEF Next, Begin, Continue, Served
<1>3. QED
  BY <1>1, <1>2, PTL DEF Spec

-------------------------------------------------------------------------------
(* Locks and rows                                                          *)

Consistent == TypeOK /\ ControlOK /\ LockOK /\ RowsOK

\* A step of request p moves no other request.
OthersStay(p) == \A q \in Requests \ {p} : pc'[q] = pc[q] /\ arg'[q] = arg[q]

\* An account keeps the identity and the address it was created with.
LEMMA Origins ==
  ASSUME NEW p \in Requests, OthersStay(p), NEW u \in Users,
         u = p => /\ arg'[p].op = arg[p].op
                  /\ arg'[p].email = arg[p].email
                  /\ arg'[p].identity = arg[p].identity
  PROVE  Home(u)' = Home(u) /\ FirstEmail(u)' = FirstEmail(u)
<1>1. CASE u \in Residents
  BY <1>1 DEF Home, FirstEmail
<1>2. CASE u \in Requests /\ u \notin Residents
  BY <1>2 DEF Home, FirstEmail, OthersStay
<1>3. QED
  BY <1>1, <1>2 DEF Users

\* A step that leaves the rows alone keeps them consistent, if the request's
\* own row is not there or it goes on with the same operation, and what it will
\* rely on holds now.
LEMMA QuietRows ==
  ASSUME Consistent, NEW p \in Requests, UNCHANGED rows, OthersStay(p),
         Exists(p) => /\ pc'[p] \in Settled
                      /\ arg'[p].op = arg[p].op
                      /\ arg'[p].email = arg[p].email
                      /\ arg'[p].identity = arg[p].identity,
         pc'[p] \in Creating => Holders(arg'[p].email) = {},
         pc'[p] \in Deleting => Active(arg'[p].uid)
  PROVE  RowsOK'
<1>1. user' = user /\ account' = account
  BY DEF rows
<1>2. \A u \in Users : Exists(u) => Home(u)' = Home(u) /\ FirstEmail(u)' = FirstEmail(u)
  BY Origins
<1>3. \A u \in Users : Kept(u)'
  BY <1>1, <1>2 DEF Kept, Exists, Consistent, RowsOK
<1>4. ASSUME NEW i \in Identities, account[i] # None
      PROVE  Exists(account[i]) /\ user[account[i]].status # "DELETED"
             /\ Home(account[i])' = i
  <2>1. /\ account[i] \in Users /\ Exists(account[i])
        /\ user[account[i]].status # "DELETED" /\ Home(account[i]) = i
    BY <1>4 DEF Consistent, RowsOK, TypeOK
  <2>2. PICK u \in Users : u = account[i]
    BY <2>1
  <2>3. Home(u)' = i
    BY <1>2, <2>1, <2>2
  <2>4. QED
    BY <1>1, <2>1, <2>2, <2>3 DEF Home
<1>5. ASSUME NEW q \in Requests
      PROVE  /\ Exists(q) => /\ pc'[q] \in Settled
                             /\ arg'[q].op \in {"register", "oauth"}
                             /\ user[q].complete = TRUE
             /\ pc'[q] \in Creating => Holders(arg'[q].email) = {}
             /\ pc'[q] \in Deleting => Active(arg'[q].uid)
  BY DEF Consistent, RowsOK, OthersStay
<1>6. \A q \in Requests : /\ Holders(arg[q].email)' = Holders(arg'[q].email)
                          /\ Active(arg[q].uid)' = Active(arg'[q].uid)
  BY <1>1 DEF Holders, Active, Exists
<1>7. /\ \A u \in Residents : Exists(u)
      /\ \A u, v \in Users :
           /\ Exists(u) /\ Exists(v)
           /\ user[u].email # None /\ user[u].email = user[v].email
           => u = v
  BY DEF Consistent, RowsOK
<1>8. \A i \in Identities : account'[i] # None =>
        Exists(account[i])' /\ user'[account'[i]].status # "DELETED" /\ Home(account[i])' = i
  BY <1>1, <1>4 DEF Exists
<1>9. QED
  BY <1>1, <1>3, <1>5, <1>6, <1>7, <1>8 DEF RowsOK, Exists

\* The end of a transaction leaves the locks of the others as they were, and a
\* commit changes no Account row that another one relies on.
LEMMA Released ==
  ASSUME Consistent, NEW p \in Requests, Release(p), OthersStay(p),
         pc'[p] \notin Creating \cup Deleting,
         \A q \in Requests \ {p}, i \in Identities :
           /\ lock[i] = q => account'[i] = account[i]
           /\ pc[q] = "anonymize" /\ account'[i] = arg[q].uid => account[i] = arg[q].uid
  PROVE  LockOK'
<1>1. \A x \in Keys : lock'[x] = IF lock[x] = p THEN None ELSE lock[x]
  BY DEF Release
<1>2. \A i \in Identities : lock'[i] # p
  BY <1>1, KeysAssumption DEF Keys, Users
<1>3. ASSUME NEW q \in Requests \ {p}
      PROVE  /\ pc'[q] \in Creating => lock'[arg'[q].email] = q
             /\ pc'[q] \in Deleting => lock'[arg'[q].uid] = q
             /\ pc'[q] = "anonymize" =>
                  \A i \in Identities : account'[i] = arg'[q].uid => lock'[i] = q
             /\ \A i \in Identities : lock'[i] = q =>
                  pc'[q] = "anonymize" /\ account'[i] = arg'[q].uid
  <2>1. pc'[q] = pc[q] /\ arg'[q] = arg[q]
    BY DEF OthersStay
  <2>2. pc[q] \in Creating => arg[q].email \in Keys /\ lock[arg[q].email] = q
    BY DEF Consistent, ControlOK, LockOK, Keys
  <2>3. pc[q] \in Deleting => arg[q].uid \in Keys /\ lock[arg[q].uid] = q
    BY DEF Consistent, ControlOK, LockOK, Keys
  <2>4. \A i \in Identities : lock'[i] = q <=> lock[i] = q
    BY <1>1, KeysAssumption DEF Keys, Users
  <2>5. QED
    BY <1>1, <2>1, <2>2, <2>3, <2>4 DEF Consistent, LockOK
<1>4. QED
  BY <1>2, <1>3 DEF LockOK, Creating, Deleting

\* A step outside the transactions that hold something leaves the locks right.
LEMMA QuietLocks ==
  ASSUME Consistent, NEW p \in Requests, UNCHANGED <<account, lock>>, OthersStay(p),
         pc[p] \notin Deleting, pc'[p] \notin Deleting,
         pc'[p] \in Creating => pc[p] \in Creating /\ arg'[p] = arg[p]
  PROVE  LockOK'
<1>1. ASSUME NEW q \in Requests \ {p}
      PROVE pc'[q] = pc[q] /\ arg'[q] = arg[q]
  BY DEF OthersStay
<1>2. \A i \in Identities : lock[i] # p
  BY DEF Consistent, LockOK, Deleting
<1>3. QED
  BY <1>1, <1>2 DEF Consistent, LockOK, Deleting

\* The commit of a sign-up adds one row, with an address nobody has, and for
\* OAuth its identity.
LEMMA SignedUpRows ==
  ASSUME Consistent, NEW p \in Requests, OthersStay(p), arg' = arg,
         pc[p] \in Creating, pc'[p] \in {"mail", "core"},
         user' = [user EXCEPT ![p] = NewUser(p)],
         \/ arg[p].op = "register" /\ account' = account
         \/ /\ arg[p].op = "oauth" /\ account[arg[p].identity] = None
            /\ account' = [account EXCEPT ![arg[p].identity] = p]
  PROVE  RowsOK'
<1>1. /\ arg[p].email \in Emails /\ p \in Users /\ p \notin Residents /\ p # None
      /\ arg[p].op = "oauth" => arg[p].identity \in Identities
  BY KeysAssumption DEF Consistent, ControlOK, Users, Keys
<1>2. /\ user'[p].status = "ACTIVE" /\ user'[p].email = arg[p].email
      /\ user'[p].complete = TRUE
      /\ \A u \in Users \ {p} : user'[u] = user[u]
  BY <1>1, CreatedRows DEF Consistent
<1>3. ~ Exists(p) /\ Holders(arg[p].email) = {} /\ lock[arg[p].email] = p
  BY DEF Consistent, RowsOK, LockOK, Creating, Settled
<1>4. \A i \in Identities : account'[i] =
        IF arg[p].op = "oauth" /\ i = arg[p].identity THEN p ELSE account[i]
  BY <1>1 DEF Consistent, TypeOK
<1>5. \A u \in Users : Home(u)' = Home(u) /\ FirstEmail(u)' = FirstEmail(u)
  BY DEF Home, FirstEmail
<1>6. \A i \in Identities : account[i] # None => account[i] \in Users \ {p}
  BY <1>3 DEF Consistent, RowsOK, TypeOK
<1>7. \A u \in Users : Exists(u)' <=> (u = p \/ Exists(u))
  BY <1>2 DEF Exists
<1>8. Home(p) = (IF arg[p].op = "oauth" THEN arg[p].identity ELSE None)
      /\ FirstEmail(p) = arg[p].email
  BY <1>1 DEF Home, FirstEmail
<1>9. ASSUME NEW u \in Users PROVE Kept(u)'
  <2>1. CASE u = p
    BY <1>1, <1>2, <1>4, <1>5, <1>8, <2>1 DEF Kept
  <2>2. CASE u # p
    <3>1. Exists(u)' => Exists(u) /\ Kept(u)
      BY <1>7, <2>2 DEF Consistent, RowsOK
    <3>2. SUFFICES ASSUME Exists(u), Kept(u), user[u].status # "DELETED", Home(u) # None
                   PROVE  account'[Home(u)] = u
      BY <1>2, <1>5, <2>2, <3>1 DEF Kept
    <3>3. account[Home(u)] = u
      BY <3>2 DEF Kept
    <3>4. Home(u) \in Identities
      BY <1>1, <3>2, ResidentAssumption
      DEF Home, Users, Consistent, ControlOK
    <3>5. u # None
      BY KeysAssumption DEF Keys
    <3>6. QED
      BY <1>1, <1>4, <3>3, <3>4, <3>5
  <2>3. QED
    BY <2>1, <2>2
<1>10. ASSUME NEW u \in Users, NEW v \in Users, Exists(u)', Exists(v)',
              user'[u].email # None, user'[u].email = user'[v].email
       PROVE  u = v
  <2>1. \A w \in Users \ {p} : Exists(w) => user[w].email # arg[p].email
    BY <1>3 DEF Holders
  <2>2. QED
    BY <1>2, <1>7, <1>10, <2>1 DEF Consistent, RowsOK
<1>11. ASSUME NEW i \in Identities, account'[i] # None
       PROVE  /\ Exists(account[i])' /\ user'[account'[i]].status # "DELETED"
              /\ Home(account[i])' = i
  <2>1. CASE account'[i] = p
    <3>1. arg[p].op = "oauth" /\ i = arg[p].identity
      BY <1>4, <1>6, <1>11, <2>1
    <3>2. QED
      BY <1>1, <1>2, <2>1, <3>1 DEF Exists, Home
  <2>2. CASE account'[i] # p
    <3>1. account'[i] = account[i] /\ account[i] \in Users \ {p}
      BY <1>4, <1>6, <1>11, <2>2
    <3>2. /\ Exists(account[i]) /\ user[account[i]].status # "DELETED"
          /\ Home(account[i]) = i
      BY <1>11, <3>1 DEF Consistent, RowsOK
    <3>3. QED
      BY <1>2, <3>1, <3>2 DEF Exists, Home
  <2>3. QED
    BY <2>1, <2>2
<1>12. ASSUME NEW q \in Requests
       PROVE  /\ Exists(q)' => /\ pc'[q] \in Settled
                               /\ arg'[q].op \in {"register", "oauth"}
                               /\ user'[q].complete = TRUE
              /\ pc'[q] \in Creating => Holders(arg[q].email)' = {}
              /\ pc'[q] \in Deleting => Active(arg[q].uid)'
  <2>1. CASE q = p
    BY <1>2, <2>1 DEF Settled, Creating, Deleting
  <2>2. CASE q # p
    <3>1. pc'[q] = pc[q] /\ arg'[q] = arg[q] /\ q \in Users
      BY <2>2 DEF OthersStay, Users
    <3>2. Exists(q)' => /\ pc'[q] \in Settled
                        /\ arg'[q].op \in {"register", "oauth"}
                        /\ user'[q].complete = TRUE
      BY <1>2, <1>7, <2>2, <3>1 DEF Consistent, RowsOK
    <3>3. ASSUME pc[q] \in Creating PROVE Holders(arg[q].email)' = {}
      <4>1. Holders(arg[q].email) = {} /\ arg[q].email # arg[p].email
        BY <1>3, <2>2, <3>3 DEF Consistent, RowsOK, LockOK
      <4>2. QED
        BY <1>2, <4>1 DEF Holders, Exists
    <3>4. ASSUME pc[q] \in Deleting PROVE Active(arg[q].uid)'
      <4>1. Active(arg[q].uid) /\ arg[q].uid \in Users
        BY <3>4 DEF Consistent, RowsOK, ControlOK
      <4>2. arg[q].uid # p
        BY <1>3, <4>1 DEF Active, Exists
      <4>3. QED
        BY <1>2, <4>1, <4>2 DEF Active
    <3>5. QED
      BY <3>1, <3>2, <3>3, <3>4
  <2>3. QED
    BY <2>1, <2>2
<1>13. \A u \in Residents : Exists(u)'
  BY <1>7 DEF Consistent, RowsOK, Users
<1>14. QED
  BY <1>9, <1>10, <1>11, <1>12, <1>13 DEF RowsOK

\* The commit of a deletion takes its address and its identities away from the
\* account, and touches nobody else's.
LEMMA ClosedRows ==
  ASSUME Consistent, NEW p \in Requests, OthersStay(p), Anonymize(p)
  PROVE  RowsOK'
<1> DEFINE d == arg[p].uid
<1>1. /\ d \in Users /\ Active(d) /\ lock[d] = p /\ arg' = arg
      /\ pc[p] = "anonymize" /\ pc'[p] = "deleted"
  BY DEF Consistent, ControlOK, RowsOK, LockOK, Deleting, Anonymize, Goto, TypeOK
<1>2. /\ user'[d].status = "DELETED" /\ user'[d].email = None
      /\ user'[d].complete = user[d].complete
      /\ \A u \in Users \ {d} : user'[u] = user[u]
  BY AnonymizedRows DEF Consistent
<1>3. \A i \in Identities :
        /\ account'[i] = IF lock[i] = p THEN None ELSE account[i]
        /\ lock[i] = p <=> account[i] = d
  BY <1>1 DEF Anonymize, Consistent, LockOK
<1>4. \A u \in Users : Home(u)' = Home(u) /\ FirstEmail(u)' = FirstEmail(u)
  BY <1>1 DEF Home, FirstEmail
<1>5. \A u \in Users : Exists(u)' <=> Exists(u)
  BY <1>1, <1>2 DEF Exists, Active
<1>6. ASSUME NEW u \in Users PROVE Kept(u)'
  <2>1. CASE u = d
    BY <1>2, <2>1 DEF Kept
  <2>2. CASE u # d
    <3>1. SUFFICES ASSUME Exists(u), Kept(u), user[u].status # "DELETED", Home(u) # None
                   PROVE  account'[Home(u)] = u
      BY <1>2, <1>4, <1>5, <2>2 DEF Kept, Consistent, RowsOK
    <3>2. account[Home(u)] = u
      BY <3>1 DEF Kept
    <3>3. Home(u) \in Identities
      BY <3>1, ResidentAssumption DEF Home, Users, Consistent, ControlOK
    <3>4. QED
      BY <1>3, <2>2, <3>2, <3>3
  <2>3. QED
    BY <2>1, <2>2
<1>7. ASSUME NEW u \in Users, NEW v \in Users, Exists(u)', Exists(v)',
             user'[u].email # None, user'[u].email = user'[v].email
      PROVE  u = v
  BY <1>2, <1>5, <1>7 DEF Consistent, RowsOK
<1>8. ASSUME NEW i \in Identities, account'[i] # None
      PROVE  /\ Exists(account[i])' /\ user'[account'[i]].status # "DELETED"
             /\ Home(account[i])' = i
  <2>1. account'[i] = account[i] /\ account[i] # d
    BY <1>3, <1>8
  <2>2. /\ account[i] \in Users \ {d} /\ Exists(account[i])
        /\ user[account[i]].status # "DELETED" /\ Home(account[i]) = i
    BY <1>8, <2>1 DEF Consistent, RowsOK, TypeOK
  <2>3. QED
    BY <1>1, <1>2, <2>1, <2>2 DEF Exists, Home
<1>9. ASSUME NEW q \in Requests
      PROVE  /\ Exists(q)' => /\ pc'[q] \in Settled
                              /\ arg'[q].op \in {"register", "oauth"}
                              /\ user'[q].complete = TRUE
             /\ pc'[q] \in Creating => Holders(arg[q].email)' = {}
             /\ pc'[q] \in Deleting => Active(arg[q].uid)'
  <2>1. q \in Users /\ p \in Users
    BY DEF Users
  <2>2. ~ Exists(p)
    BY <1>1 DEF Consistent, RowsOK, Settled
  <2>3. Exists(q)' => /\ pc'[q] \in Settled
                      /\ arg'[q].op \in {"register", "oauth"}
                      /\ user'[q].complete = TRUE
    <3>1. SUFFICES ASSUME Exists(q)
                   PROVE  /\ pc'[q] \in Settled
                          /\ arg'[q].op \in {"register", "oauth"}
                          /\ user'[q].complete = TRUE
      BY <1>5, <2>1
    <3>2. pc'[q] = pc[q] /\ arg'[q] = arg[q]
      BY <2>2, <3>1 DEF OthersStay
    <3>3. user'[q].complete = user[q].complete
      BY <1>2, <2>1
    <3>4. QED
      BY <3>1, <3>2, <3>3 DEF Consistent, RowsOK
  <2>4. ASSUME pc'[q] \in Creating PROVE Holders(arg[q].email)' = {}
    <3>1. q # p /\ pc[q] \in Creating /\ arg'[q] = arg[q]
      BY <1>1, <2>4 DEF Creating, OthersStay
    <3>2. arg[q].email # None /\ Holders(arg[q].email) = {}
      BY <3>1, KeysAssumption DEF Consistent, ControlOK, RowsOK, Keys
    <3>3. QED
      BY <1>2, <1>5, <3>1, <3>2 DEF Holders
  <2>5. ASSUME pc'[q] \in Deleting PROVE Active(arg[q].uid)'
    <3>1. q # p /\ pc[q] \in Deleting /\ arg'[q] = arg[q]
      BY <1>1, <2>5 DEF Deleting, OthersStay
    <3>2. arg[q].uid \in Users \ {d} /\ Active(arg[q].uid)
      BY <1>1, <3>1 DEF Consistent, ControlOK, RowsOK, LockOK
    <3>3. QED
      BY <1>2, <3>1, <3>2 DEF Active
  <2>6. QED
    BY <2>3, <2>4, <2>5
<1>10. \A u \in Residents : Exists(u)'
  BY <1>5 DEF Consistent, RowsOK, Users
<1>11. QED
  BY <1>6, <1>7, <1>8, <1>9, <1>10 DEF RowsOK

\* A request that inserts a free address holds it.
LEMMA AddressTaken ==
  ASSUME Consistent, NEW p \in Requests, UNCHANGED rows, OthersStay(p), arg' = arg,
         pc[p] = "user", pc'[p] = "consents",
         arg[p].email \in Emails, lock[arg[p].email] = None,
         \A x \in Keys : lock'[x] = IF x = arg[p].email THEN p ELSE lock[x]
  PROVE  LockOK'
<1>1. /\ account' = account
      /\ \A i \in Identities : lock'[i] = lock[i] /\ lock[i] # p
      /\ lock'[arg[p].email] = p
  BY KeysAssumption DEF rows, Consistent, LockOK, Keys
<1>2. ASSUME NEW q \in Requests \ {p}
      PROVE  /\ pc'[q] = pc[q] /\ arg'[q] = arg[q]
             /\ pc[q] \in Creating => lock'[arg[q].email] = q
             /\ pc[q] \in Deleting => lock'[arg[q].uid] = q
  BY KeysAssumption DEF OthersStay, Consistent, LockOK, ControlOK, Keys, Users
<1>3. QED
  BY <1>1, <1>2 DEF Consistent, LockOK, Creating, Deleting

\* A deletion that finds the account unlocked holds it.
LEMMA AccountLocked ==
  ASSUME Consistent, NEW p \in Requests, UNCHANGED rows, OthersStay(p), arg' = arg,
         pc[p] = "lock-user", pc'[p] = "delete-accounts",
         arg[p].uid \in Users, lock[arg[p].uid] = None,
         \A x \in Keys : lock'[x] = IF x = arg[p].uid THEN p ELSE lock[x]
  PROVE  LockOK'
<1>1. /\ account' = account
      /\ \A i \in Identities : lock'[i] = lock[i] /\ lock[i] # p
      /\ lock'[arg[p].uid] = p
  BY KeysAssumption DEF rows, Consistent, LockOK, Keys
<1>2. ASSUME NEW q \in Requests \ {p}
      PROVE  /\ pc'[q] = pc[q] /\ arg'[q] = arg[q]
             /\ pc[q] \in Creating => lock'[arg[q].email] = q
             /\ pc[q] \in Deleting => lock'[arg[q].uid] = q
  BY KeysAssumption DEF OthersStay, Consistent, LockOK, ControlOK, Keys, Users
<1>3. QED
  BY <1>1, <1>2 DEF Consistent, LockOK, Creating, Deleting

\* A deletion that has removed the account's identities holds them and no other.
LEMMA IdentitiesLocked ==
  ASSUME Consistent, NEW p \in Requests, account' = account, OthersStay(p), arg' = arg,
         pc[p] = "delete-accounts", pc'[p] = "anonymize",
         Owned(arg[p].uid) = {i \in Identities : account[i] = arg[p].uid},
         \A x \in Owned(arg[p].uid) : lock[x] \in {None, p},
         \A x \in Keys : lock'[x] = IF x \in Owned(arg[p].uid) THEN p ELSE lock[x]
  PROVE  LockOK'
<1>1. /\ \A i \in Identities : lock'[i] = IF account[i] = arg[p].uid THEN p ELSE lock[i]
      /\ \A i \in Identities : lock[i] # p
  BY DEF Consistent, LockOK, Keys
<1>2. lock[arg[p].uid] = p /\ lock'[arg[p].uid] = p
  <2>1. arg[p].uid \in Users /\ lock[arg[p].uid] = p
    BY DEF Consistent, LockOK, ControlOK, Deleting
  <2>2. QED
    BY <2>1, KeysAssumption DEF Keys
<1>3. ASSUME NEW q \in Requests \ {p}
      PROVE  /\ pc'[q] = pc[q] /\ arg'[q] = arg[q]
             /\ pc[q] \in Creating => lock'[arg[q].email] = q
             /\ pc[q] \in Deleting => lock'[arg[q].uid] = q /\ arg[q].uid # arg[p].uid
             /\ \A i \in Identities : lock'[i] = q <=> lock[i] = q
  <2>1. pc'[q] = pc[q] /\ arg'[q] = arg[q]
    BY DEF OthersStay
  <2>2. pc[q] \in Creating => lock'[arg[q].email] = q
    BY KeysAssumption DEF Consistent, LockOK, ControlOK, Keys
  <2>3. pc[q] \in Deleting => lock'[arg[q].uid] = q /\ arg[q].uid # arg[p].uid
    BY <1>2, KeysAssumption DEF Consistent, LockOK, ControlOK, Keys
  <2>4. q # None
    BY KeysAssumption DEF Keys, Users
  <2>5. \A i \in Identities : lock'[i] = q <=> lock[i] = q
    BY <1>1, <2>4
  <2>6. QED
    BY <2>1, <2>2, <2>3, <2>5
<1>4. QED
  BY <1>1, <1>2, <1>3 DEF Consistent, LockOK, Creating, Deleting

\* A stuttering step changes nothing.
LEMMA Idle ==
  ASSUME LockOK, RowsOK, UNCHANGED vars
  PROVE  LockOK' /\ RowsOK'
BY DEF vars, LockOK, RowsOK, Kept, Exists, Active, Holders, Home, FirstEmail

\* The residents' rows and identities are consistent at the start.
LEMMA InitialRows ==
  ASSUME Init
  PROVE  RowsOK
<1>1. /\ \A u \in Users : Exists(u) <=> u \in Residents
      /\ \A u \in Residents : /\ user[u].status \in {"ACTIVE", "SUSPENDED"}
                              /\ user[u].email = Resident[u].email
      /\ \A u \in Users \ Residents : user[u].status = "unborn"
  <2>1. PICK status \in [Residents -> {"ACTIVE", "SUSPENDED"}] :
          user = [u \in Users |->
            IF u \in Residents
              THEN [status |-> status[u], email |-> Resident[u].email, complete |-> TRUE]
              ELSE [status |-> "unborn", email |-> None, complete |-> FALSE]]
    BY DEF Init
  <2>2. ASSUME NEW u \in Residents
        PROVE  user[u].status \in {"ACTIVE", "SUSPENDED"} /\ user[u].email = Resident[u].email
    BY <2>1 DEF Users
  <2>3. ASSUME NEW u \in Users \ Residents
        PROVE  user[u].status = "unborn"
    BY <2>1
  <2>4. QED
    BY <2>2, <2>3 DEF Exists, Users
<1>2. \A i \in Identities : account[i] # None =>
        account[i] \in Residents /\ Resident[account[i]].identity = i
  BY DEF Init
<1>3. \A u \in Residents : Resident[u].identity # None => account[Resident[u].identity] = u
  BY KeysAssumption, ResidentAssumption DEF Init
<1>4. \A u \in Residents : Home(u) = Resident[u].identity /\ FirstEmail(u) = Resident[u].email
  BY DEF Home, FirstEmail
<1>5. \A u \in Users : Kept(u)
  BY <1>1, <1>3, <1>4, ResidentAssumption DEF Kept
<1>6. \A u, v \in Residents : user[u].email = user[v].email => u = v
  BY <1>1, ResidentAssumption
<1>7. \A p \in Requests : ~ Exists(p) /\ pc[p] = "idle"
  BY <1>1, KeysAssumption DEF Init, Users
<1>8. \A i \in Identities : account[i] # None =>
        /\ Exists(account[i]) /\ user[account[i]].status # "DELETED"
        /\ Home(account[i]) = i
  BY <1>1, <1>2, <1>4 DEF Users
<1>9. QED
  BY <1>1, <1>5, <1>6, <1>7, <1>8 DEF RowsOK, Creating, Deleting, Users

\* A transaction holds the address it inserts, the account it deletes and that
\* account's identities until it ends, and with them every committed row keeps
\* the address and the identity it was created with, alone, until it is deleted.
THEOREM Consistency == Spec => []Consistent
<1>1. Init => Consistent
  <2> SUFFICES ASSUME Init PROVE Consistent
    OBVIOUS
  <2>1. TypeOK /\ ControlOK
    BY TypingInit
  <2>2. LockOK
    BY KeysAssumption DEF Init, LockOK, Creating, Deleting, Keys, Users
  <2>3. RowsOK
    BY InitialRows
  <2>4. QED
    BY <2>1, <2>2, <2>3 DEF Consistent
<1>2. Consistent /\ TypeOK' /\ ControlOK' /\ [Next]_vars => Consistent'
  <2> SUFFICES ASSUME Consistent, [Next]_vars PROVE LockOK' /\ RowsOK'
    BY DEF Consistent
  <2> USE DEF Goto
  <2>1. ASSUME NEW p \in Requests, Refuse(p)
        PROVE  LockOK' /\ RowsOK'
    <3>1. OthersStay(p) /\ UNCHANGED <<account, lock>> /\ UNCHANGED rows
      BY <2>1 DEF Refuse, OthersStay, Consistent, TypeOK, rows
    <3>2. /\ pc[p] \notin Deleting /\ pc'[p] \notin Creating \cup Deleting
          /\ Exists(p) => pc'[p] \in Settled /\ arg' = arg
      BY <2>1 DEF Refuse, Creating, Deleting, Settled, Consistent, TypeOK, RowsOK
    <3>3. QED
      BY <3>1, <3>2, QuietRows, QuietLocks
  <2>2. ASSUME NEW p \in Requests, NEW e \in Emails, BeginRegister(p, e)
        PROVE  LockOK' /\ RowsOK'
    <3>1. OthersStay(p) /\ UNCHANGED <<account, lock>> /\ UNCHANGED rows
      BY <2>2 DEF BeginRegister, OthersStay, Consistent, TypeOK, rows
    <3>2. /\ pc[p] \notin Deleting /\ pc'[p] \notin Creating \cup Deleting
          /\ Exists(p) => pc'[p] \in Settled /\ arg' = arg
      BY <2>2 DEF BeginRegister, Creating, Deleting, Settled, Consistent, TypeOK, RowsOK
    <3>3. QED
      BY <3>1, <3>2, QuietRows, QuietLocks
  <2>3. ASSUME NEW p \in Requests, FindEmail(p)
        PROVE  LockOK' /\ RowsOK'
    <3>1. OthersStay(p) /\ UNCHANGED <<account, lock>> /\ UNCHANGED rows
      BY <2>3 DEF FindEmail, OthersStay, Consistent, TypeOK, rows
    <3>2. /\ pc[p] \notin Deleting /\ pc'[p] \notin Creating \cup Deleting
          /\ Exists(p) => pc'[p] \in Settled /\ arg' = arg
      BY <2>3 DEF FindEmail, Taken, Creating, Deleting, Settled, Consistent, TypeOK, RowsOK
    <3>3. QED
      BY <3>1, <3>2, QuietRows, QuietLocks
  <2>4. ASSUME NEW p \in Requests, CreateUser(p)
        PROVE  LockOK' /\ RowsOK'
    <3>1. /\ pc[p] = "user" /\ pc'[p] = "consents" /\ arg' = arg /\ OthersStay(p)
          /\ UNCHANGED rows /\ Holders(arg[p].email) = {}
      BY <2>4 DEF CreateUser, OthersStay, Consistent, TypeOK
    <3>2. ~ Exists(p)
      BY <3>1 DEF Consistent, RowsOK, Settled
    <3>3. RowsOK'
      BY <3>1, <3>2, QuietRows DEF Deleting
    <3>4. /\ arg[p].email \in Emails
          /\ \A x \in Keys : lock'[x] = IF x = arg[p].email THEN p ELSE lock[x]
          /\ lock[arg[p].email] = None
      BY <2>4, <3>1 DEF CreateUser, Take, Consistent, ControlOK
    <3>5. LockOK'
      BY <3>1, <3>4, AddressTaken
    <3>6. QED
      BY <3>3, <3>5
  <2>5. ASSUME NEW p \in Requests, EmailConflict(p)
        PROVE  LockOK' /\ RowsOK'
    <3>1. OthersStay(p) /\ Release(p) /\ UNCHANGED rows /\ account' = account /\ arg' = arg
      BY <2>5 DEF EmailConflict, OthersStay, Consistent, TypeOK, rows
    <3>2. pc'[p] \notin Creating \cup Deleting /\ ~ Exists(p)
      BY <2>5 DEF EmailConflict, Transaction, Creating, Deleting, Settled, Consistent, TypeOK, RowsOK
    <3>3. QED
      BY <3>1, <3>2, QuietRows, Released
  <2>6. ASSUME NEW p \in Requests, CreateConsents(p)
        PROVE  LockOK' /\ RowsOK'
    <3>1. CASE arg[p].op = "oauth"
      <4>1. /\ pc[p] = "consents" /\ pc'[p] = "link" /\ arg' = arg
            /\ OthersStay(p) /\ UNCHANGED <<account, lock>> /\ UNCHANGED rows
        BY <2>6, <3>1 DEF CreateConsents, OthersStay, Consistent, TypeOK, rows
      <4>2. ~ Exists(p) /\ Holders(arg[p].email) = {}
        BY <4>1 DEF Consistent, RowsOK, Settled, Creating
      <4>3. RowsOK'
        BY <4>1, <4>2, QuietRows DEF Deleting
      <4>4. LockOK'
        BY <4>1, QuietLocks DEF Creating, Deleting
      <4>5. QED
        BY <4>3, <4>4
    <3>2. CASE arg[p].op # "oauth"
      <4>1. /\ pc[p] = "consents" /\ pc'[p] = "mail" /\ arg' = arg
            /\ OthersStay(p) /\ account' = account /\ Release(p)
            /\ user' = [user EXCEPT ![p] = NewUser(p)] /\ arg[p].op = "register"
        BY <2>6, <3>2 DEF CreateConsents, OthersStay, Consistent, TypeOK
      <4>2. RowsOK'
        BY <4>1, SignedUpRows DEF Creating
      <4>3. LockOK'
        BY <4>1, Released DEF Creating, Deleting
      <4>4. QED
        BY <4>2, <4>3
    <3>3. QED
      BY <3>1, <3>2
  <2>7. ASSUME NEW p \in Requests, SendVerification(p)
        PROVE  LockOK' /\ RowsOK'
    <3>1. OthersStay(p) /\ UNCHANGED <<account, lock>> /\ UNCHANGED rows
      BY <2>7 DEF SendVerification, OthersStay, Consistent, TypeOK, rows
    <3>2. /\ pc[p] \notin Deleting /\ pc'[p] \notin Creating \cup Deleting
          /\ Exists(p) => pc'[p] \in Settled /\ arg' = arg
      BY <2>7 DEF SendVerification, Creating, Deleting, Settled, Consistent, TypeOK, RowsOK
    <3>3. QED
      BY <3>1, <3>2, QuietRows, QuietLocks
  <2>8. ASSUME NEW p \in Requests, NEW i \in Identities, NEW e \in Emails, BeginOAuth(p, i, e)
        PROVE  LockOK' /\ RowsOK'
    <3>1. OthersStay(p) /\ UNCHANGED <<account, lock>> /\ UNCHANGED rows
      BY <2>8 DEF BeginOAuth, OthersStay, Consistent, TypeOK, rows
    <3>2. /\ pc[p] \notin Deleting /\ pc'[p] \notin Creating \cup Deleting
          /\ Exists(p) => pc'[p] \in Settled /\ arg' = arg
      BY <2>8 DEF BeginOAuth, Creating, Deleting, Settled, Consistent, TypeOK, RowsOK
    <3>3. QED
      BY <3>1, <3>2, QuietRows, QuietLocks
  <2>9. ASSUME NEW p \in Requests, NEW cookie \in BOOLEAN, FindAccount(p, cookie)
        PROVE  LockOK' /\ RowsOK'
    <3>1. OthersStay(p) /\ UNCHANGED <<account, lock>> /\ UNCHANGED rows
      BY <2>9 DEF FindAccount, OthersStay, Consistent, TypeOK, rows
    <3>2. /\ pc[p] \notin Deleting /\ pc'[p] \notin Creating \cup Deleting
          /\ Exists(p) => pc'[p] \in Settled /\ arg' = arg
      BY <2>9 DEF FindAccount, Existing, Creating, Deleting, Settled, Consistent, TypeOK, RowsOK
    <3>3. QED
      BY <3>1, <3>2, QuietRows, QuietLocks
  <2>10. ASSUME NEW p \in Requests, LinkAccount(p)
        PROVE  LockOK' /\ RowsOK'
    <3>1. /\ pc[p] = "link" /\ pc'[p] = "core" /\ arg' = arg
          /\ OthersStay(p) /\ Release(p)
          /\ lock[arg[p].identity] = None /\ account[arg[p].identity] = None
          /\ user' = [user EXCEPT ![p] = NewUser(p)]
          /\ account' = [account EXCEPT ![arg[p].identity] = p]
      BY <2>10 DEF LinkAccount, OthersStay, Consistent, TypeOK
    <3>2. /\ arg[p].op = "oauth" /\ arg[p].identity \in Identities
          /\ ~ Exists(p)
      BY <3>1 DEF Consistent, ControlOK, RowsOK, Settled
    <3>3. RowsOK'
      BY <3>1, <3>2, SignedUpRows DEF Creating
    <3>4. ASSUME NEW q \in Requests \ {p}, NEW i \in Identities
          PROVE  /\ lock[i] = q => account'[i] = account[i]
                 /\ pc[q] = "anonymize" /\ account'[i] = arg[q].uid => account[i] = arg[q].uid
      <4>1. account'[i] = IF i = arg[p].identity THEN p ELSE account[i]
        BY <3>1 DEF Consistent, TypeOK
      <4>2. q # None
        BY KeysAssumption DEF Keys, Users
      <4>3. pc[q] = "anonymize" => arg[q].uid # p
        BY <3>2 DEF Consistent, RowsOK, Deleting, Active, Exists
      <4>4. QED
        BY <3>1, <4>1, <4>2, <4>3
    <3>5. LockOK'
      BY <3>1, <3>4, Released DEF Creating, Deleting
    <3>6. QED
      BY <3>3, <3>5
  <2>11. ASSUME NEW p \in Requests, AccountConflict(p)
        PROVE  LockOK' /\ RowsOK'
    <3>1. OthersStay(p) /\ Release(p) /\ UNCHANGED rows /\ account' = account /\ arg' = arg
      BY <2>11 DEF AccountConflict, OthersStay, Consistent, TypeOK, rows
    <3>2. pc'[p] \notin Creating \cup Deleting /\ ~ Exists(p)
      BY <2>11 DEF AccountConflict, Transaction, Creating, Deleting, Settled, Consistent, TypeOK, RowsOK
    <3>3. QED
      BY <3>1, <3>2, QuietRows, Released
  <2>12. ASSUME NEW p \in Requests, ReclassifyAccount(p)
        PROVE  LockOK' /\ RowsOK'
    <3>1. OthersStay(p) /\ UNCHANGED <<account, lock>> /\ UNCHANGED rows
      BY <2>12 DEF ReclassifyAccount, OthersStay, Consistent, TypeOK, rows
    <3>2. /\ pc[p] \notin Deleting /\ pc'[p] \notin Creating \cup Deleting
          /\ Exists(p) => pc'[p] \in Settled /\ arg' = arg
      BY <2>12 DEF ReclassifyAccount, Existing, Creating, Deleting, Settled, Consistent, TypeOK, RowsOK
    <3>3. QED
      BY <3>1, <3>2, QuietRows, QuietLocks
  <2>13. ASSUME NEW p \in Requests, ReclassifyEmail(p)
        PROVE  LockOK' /\ RowsOK'
    <3>1. OthersStay(p) /\ UNCHANGED <<account, lock>> /\ UNCHANGED rows
      BY <2>13 DEF ReclassifyEmail, OthersStay, Consistent, TypeOK, rows
    <3>2. /\ pc[p] \notin Deleting /\ pc'[p] \notin Creating \cup Deleting
          /\ Exists(p) => pc'[p] \in Settled /\ arg' = arg
      BY <2>13 DEF ReclassifyEmail, Creating, Deleting, Settled, Consistent, TypeOK, RowsOK
    <3>3. QED
      BY <3>1, <3>2, QuietRows, QuietLocks
  <2>14. ASSUME NEW p \in Requests, CoreLookup(p)
        PROVE  LockOK' /\ RowsOK'
    <3>1. /\ pc[p] = "core" /\ pc'[p] \in {"error", "jwt"} /\ OthersStay(p)
          /\ UNCHANGED <<account, lock>> /\ UNCHANGED rows
          /\ arg'[p] = [arg[p] EXCEPT !.uid = account[arg[p].identity]]
      BY <2>14 DEF CoreLookup, OthersStay, Consistent, TypeOK, rows
    <3>2. arg'[p].op = arg[p].op /\ arg'[p].email = arg[p].email
          /\ arg'[p].identity = arg[p].identity
      <4>1. arg[p] \in Argument
        BY DEF Consistent, TypeOK
      <4>2. QED
        BY <3>1, <4>1 DEF Argument
    <3>3. RowsOK'
      BY <3>1, <3>2, QuietRows DEF Creating, Deleting, Settled
    <3>4. LockOK'
      BY <3>1, QuietLocks DEF Creating, Deleting
    <3>5. QED
      BY <3>3, <3>4
  <2>15. ASSUME NEW p \in Requests, CheckClaims(p)
        PROVE  LockOK' /\ RowsOK'
    <3>1. OthersStay(p) /\ UNCHANGED <<account, lock>> /\ UNCHANGED rows
      BY <2>15 DEF CheckClaims, OthersStay, Consistent, TypeOK, rows
    <3>2. /\ pc[p] \notin Deleting /\ pc'[p] \notin Creating \cup Deleting
          /\ Exists(p) => pc'[p] \in Settled /\ arg' = arg
      BY <2>15 DEF CheckClaims, Creating, Deleting, Settled, Consistent, TypeOK, RowsOK
    <3>3. QED
      BY <3>1, <3>2, QuietRows, QuietLocks
  <2>16. ASSUME NEW p \in Requests, NEW u \in Users, BeginDelete(p, u)
        PROVE  LockOK' /\ RowsOK'
    <3>1. OthersStay(p) /\ UNCHANGED <<account, lock>> /\ UNCHANGED rows
      BY <2>16 DEF BeginDelete, OthersStay, Consistent, TypeOK, rows
    <3>2. /\ pc[p] \notin Deleting /\ pc'[p] \notin Creating \cup Deleting
          /\ Exists(p) => pc'[p] \in Settled /\ arg' = arg
      BY <2>16 DEF BeginDelete, Creating, Deleting, Settled, Consistent, TypeOK, RowsOK
    <3>3. QED
      BY <3>1, <3>2, QuietRows, QuietLocks
  <2>17. ASSUME NEW p \in Requests, LockUser(p)
        PROVE  LockOK' /\ RowsOK'
    <3>1. CASE Active(arg[p].uid)
      <4>1. /\ pc[p] = "lock-user" /\ pc'[p] = "delete-accounts" /\ arg' = arg
            /\ OthersStay(p) /\ UNCHANGED rows
        BY <2>17, <3>1 DEF LockUser, OthersStay, Consistent, TypeOK
      <4>2. ~ Exists(p)
        BY <4>1 DEF Consistent, RowsOK, Settled
      <4>3. RowsOK'
        BY <3>1, <4>1, <4>2, QuietRows DEF Creating
      <4>4. /\ arg[p].uid \in Users
            /\ \A x \in Keys : lock'[x] = IF x = arg[p].uid THEN p ELSE lock[x]
            /\ lock[arg[p].uid] = None
        BY <2>17, <3>1, <4>1 DEF LockUser, Take, Consistent, ControlOK
      <4>5. LockOK'
        BY <4>1, <4>4, AccountLocked
      <4>6. QED
        BY <4>3, <4>5
    <3>2. CASE ~ Active(arg[p].uid)
      <4>1. /\ pc[p] = "lock-user" /\ pc'[p] = "not-deleted" /\ arg' = arg
            /\ OthersStay(p) /\ UNCHANGED <<account, lock>> /\ UNCHANGED rows
        BY <2>17, <3>2 DEF LockUser, OthersStay, Consistent, TypeOK, rows
      <4>2. ~ Exists(p)
        BY <4>1 DEF Consistent, RowsOK, Settled
      <4>3. RowsOK'
        BY <4>1, <4>2, QuietRows DEF Creating, Deleting
      <4>4. LockOK'
        BY <4>1, QuietLocks DEF Creating, Deleting
      <4>5. QED
        BY <4>3, <4>4
    <3>3. QED
      BY <3>1, <3>2
  <2>18. ASSUME NEW p \in Requests, Decline(p)
        PROVE  LockOK' /\ RowsOK'
    <3>1. OthersStay(p) /\ Release(p) /\ UNCHANGED rows /\ account' = account /\ arg' = arg
      BY <2>18 DEF Decline, OthersStay, Consistent, TypeOK, rows
    <3>2. pc'[p] \notin Creating \cup Deleting /\ ~ Exists(p)
      BY <2>18 DEF Decline, Transaction, Creating, Deleting, Settled, Consistent, TypeOK, RowsOK
    <3>3. QED
      BY <3>1, <3>2, QuietRows, Released
  <2>19. ASSUME NEW p \in Requests, DeleteAccounts(p)
        PROVE  LockOK' /\ RowsOK'
    <3>1. /\ pc[p] = "delete-accounts" /\ pc'[p] = "anonymize" /\ arg' = arg
          /\ OthersStay(p) /\ UNCHANGED rows
      BY <2>19 DEF DeleteAccounts, OthersStay, Consistent, TypeOK
    <3>2. ~ Exists(p) /\ Active(arg[p].uid)
      BY <3>1 DEF Consistent, RowsOK, Settled, Deleting
    <3>3. RowsOK'
      BY <3>1, <3>2, QuietRows DEF Creating
    <3>4. /\ Owned(arg[p].uid) = {i \in Identities : account[i] = arg[p].uid}
          /\ \A x \in Keys : lock'[x] = IF x \in Owned(arg[p].uid) THEN p ELSE lock[x]
          /\ \A x \in Owned(arg[p].uid) : lock[x] \in {None, p}
      BY <2>19 DEF DeleteAccounts, Take, Owned
    <3>5. LockOK'
      BY <3>1, <3>4, IdentitiesLocked DEF rows
    <3>6. QED
      BY <3>3, <3>5
  <2>20. ASSUME NEW p \in Requests, Anonymize(p)
        PROVE  LockOK' /\ RowsOK'
    <3>1. /\ pc[p] = "anonymize" /\ pc'[p] = "deleted" /\ OthersStay(p) /\ Release(p)
          /\ \A i \in Identities : account'[i] = IF lock[i] = p THEN None ELSE account[i]
      BY <2>20 DEF Anonymize, OthersStay, Consistent, TypeOK
    <3>2. RowsOK'
      BY <2>20, <3>1, ClosedRows
    <3>3. ASSUME NEW q \in Requests \ {p}, NEW i \in Identities
          PROVE  /\ lock[i] = q => account'[i] = account[i]
                 /\ pc[q] = "anonymize" /\ account'[i] = arg[q].uid => account[i] = arg[q].uid
      <4>1. pc[q] = "anonymize" => arg[q].uid # None
        BY KeysAssumption DEF Consistent, ControlOK, Deleting, Keys
      <4>2. QED
        BY <3>1, <4>1
    <3>4. LockOK'
      BY <3>1, <3>3, Released DEF Creating, Deleting
    <3>5. QED
      BY <3>2, <3>4
  <2>21. ASSUME NEW p \in Requests, Abort(p)
        PROVE  LockOK' /\ RowsOK'
    <3>1. OthersStay(p) /\ Release(p) /\ UNCHANGED rows /\ account' = account /\ arg' = arg
      BY <2>21 DEF Abort, OthersStay, Consistent, TypeOK, rows
    <3>2. pc'[p] = "error" /\ pc'[p] \notin Creating \cup Deleting
      BY <2>21 DEF Abort, Creating, Deleting, Consistent, TypeOK
    <3>3. Exists(p) => pc'[p] \in Settled
      BY <3>2 DEF Settled
    <3>4. QED
      BY <3>1, <3>2, <3>3, QuietRows, Released
  <2>22. CASE UNCHANGED vars
    BY <2>22, Idle DEF Consistent
  <2>23. QED
    BY <2>1, <2>2, <2>3, <2>4, <2>5, <2>6, <2>7, <2>8, <2>9, <2>10, <2>11, <2>12, <2>13, <2>14, <2>15, <2>16, <2>17, <2>18, <2>19, <2>20, <2>21, <2>22 DEF Next, Begin, Continue, Served
<1>3. QED
  BY <1>1, <1>2, Typing, PTL DEF Spec

-------------------------------------------------------------------------------
(* Answers                                                                 *)

\* An account that is there stays there, with the identity and the address it
\* was created with, and stays deleted once it is.
Evolves ==
  \A u \in Users : Exists(u) =>
    /\ Exists(u)'
    /\ Home(u)' = Home(u) /\ FirstEmail(u)' = FirstEmail(u)
    /\ user[u].status = "DELETED" => user'[u].status = "DELETED"

\* The program points that say something of an account.
Telling == {"mail", "created", "jwt", "signed-in",
            "reclassify-account", "reclassify-email", "conflict"}

\* A step that writes no row takes no account back.
LEMMA QuietEvolves ==
  ASSUME NEW p \in Requests, user' = user, OthersStay(p),
         Exists(p) => /\ arg'[p].op = arg[p].op
                      /\ arg'[p].email = arg[p].email
                      /\ arg'[p].identity = arg[p].identity
  PROVE  Evolves
BY Origins DEF Evolves, Exists

\* Neither does the commit of a sign-up.
LEMMA SignUpEvolves ==
  ASSUME Consistent, NEW p \in Requests, arg' = arg, pc[p] \in Creating,
         user' = [user EXCEPT ![p] = NewUser(p)]
  PROVE  Evolves /\ Exists(p)'
<1>1. arg[p].email \in Emails /\ p \in Users /\ ~ Exists(p)
  BY DEF Consistent, ControlOK, RowsOK, Creating, Settled, Users
<1>2. user'[p].status = "ACTIVE" /\ \A u \in Users \ {p} : user'[u] = user[u]
  BY <1>1, CreatedRows DEF Consistent
<1>3. \A u \in Users : Home(u)' = Home(u) /\ FirstEmail(u)' = FirstEmail(u)
  BY DEF Home, FirstEmail
<1>4. QED
  BY <1>1, <1>2, <1>3 DEF Evolves, Exists

\* Nor does the commit of a deletion.
LEMMA DeletionEvolves ==
  ASSUME Consistent, NEW p \in Requests, Anonymize(p)
  PROVE  Evolves
<1>1. \A u \in Users : user'[u] = user[u] \/ user'[u].status = "DELETED"
  BY AnonymizedRows DEF Consistent
<1>2. \A u \in Users : Home(u)' = Home(u) /\ FirstEmail(u)' = FirstEmail(u)
  BY DEF Home, FirstEmail, Anonymize
<1>3. QED
  BY <1>1, <1>2 DEF Evolves, Exists

\* What a request knows of other accounts outlasts the steps of the others.
LEMMA KnowledgeLasts ==
  ASSUME Evolves, NEW q \in Requests, AnswerOK(q), TypeOK, pc'[q] = pc[q], arg'[q] = arg[q]
  PROVE  AnswerOK(q)'
<1>1. \A u \in Users : Exists(u) =>
        /\ Exists(u)' /\ Home(u)' = Home(u) /\ FirstEmail(u)' = FirstEmail(u)
        /\ user[u].status = "DELETED" => user'[u].status = "DELETED"
  BY DEF Evolves
<1>2. q \in Users
  BY DEF Users
<1>3. pc[q] \in {"mail", "created"} => Exists(q)'
  BY <1>1, <1>2 DEF AnswerOK
<1>4. ASSUME pc[q] \in {"jwt", "signed-in"}
      PROVE  /\ arg'[q].uid \in Users /\ Exists(arg[q].uid)'
             /\ Home(arg[q].uid)' = arg'[q].identity
  <2>1. PICK u \in Users : u = arg[q].uid /\ Exists(u) /\ Home(u) = arg[q].identity
    BY <1>4 DEF AnswerOK
  <2>2. Exists(u)' /\ Home(u)' = arg'[q].identity /\ u = arg'[q].uid
    BY <1>1, <2>1
  <2>3. QED
    BY <2>2 DEF Exists, Home
<1>5. ASSUME NEW u \in Users, Exists(u)
      PROVE  /\ Exists(u)'
             /\ Home(u) = arg[q].identity => Home(u)' = arg'[q].identity
             /\ FirstEmail(u) = arg[q].email => FirstEmail(u)' = arg'[q].email
             /\ user[u].status = "DELETED" => user'[u].status = "DELETED"
  BY <1>1, <1>5
<1>6. \A u \in Users : user[u].status = "DELETED" => Exists(u)
  BY DEF Exists
<1>7. pc[q] = "reclassify-account" =>
        \E u \in Users :
          /\ Exists(u)'
          /\ Home(u)' = arg'[q].identity \/ FirstEmail(u)' = arg'[q].email
  BY <1>5 DEF AnswerOK
<1>8. pc[q] = "reclassify-email" =>
        \E u \in Users :
          /\ Exists(u)'
          /\ \/ Home(u)' = arg'[q].identity /\ user'[u].status = "DELETED"
             \/ FirstEmail(u)' = arg'[q].email
  BY <1>5 DEF AnswerOK
<1>9. pc[q] = "conflict" =>
        \E u \in Users :
          /\ user'[u].status = "DELETED"
          /\ Home(u)' = arg'[q].identity \/ FirstEmail(u)' = arg'[q].email
  BY <1>5, <1>6 DEF AnswerOK
<1>10. QED
  BY <1>3, <1>4, <1>7, <1>8, <1>9 DEF AnswerOK

\* So a step keeps all answers right if it keeps its own request's.
LEMMA OneAnswer ==
  ASSUME TypeOK, AnswersOK, Evolves, NEW p \in Requests, OthersStay(p), AnswerOK(p)'
  PROVE  AnswersOK'
<1>1. ASSUME NEW q \in Requests \ {p} PROVE AnswerOK(q)'
  BY KnowledgeLasts DEF AnswersOK, OthersStay
<1>2. QED
  BY <1>1 DEF AnswersOK

\* What a request tells its caller, or is about to, is true of the accounts it
\* met and stays true.
THEOREM Answering == Spec => []AnswersOK
<1>1. Init => AnswersOK
  BY DEF Init, AnswersOK, AnswerOK
<1>2. Consistent /\ TypeOK' /\ AnswersOK /\ [Next]_vars => AnswersOK'
  <2> SUFFICES ASSUME Consistent, TypeOK', AnswersOK, [Next]_vars PROVE AnswersOK'
    OBVIOUS
  <2> USE DEF Goto
  <2>1. ASSUME NEW p \in Requests, Refuse(p)
        PROVE  AnswersOK'
    <3>1. /\ OthersStay(p) /\ user' = user /\ (Exists(p) => arg' = arg)
          /\ pc'[p] \notin Telling
      BY <2>1 DEF Refuse, OthersStay, Telling, Settled, Consistent, TypeOK, RowsOK, rows
    <3>2. Evolves
      BY <3>1, QuietEvolves
    <3>3. AnswerOK(p)'
      BY <3>1 DEF AnswerOK, Telling
    <3>4. QED
      BY <3>1, <3>2, <3>3, OneAnswer DEF Consistent
  <2>2. ASSUME NEW p \in Requests, NEW e \in Emails, BeginRegister(p, e)
        PROVE  AnswersOK'
    <3>1. /\ OthersStay(p) /\ user' = user /\ (Exists(p) => arg' = arg)
          /\ pc'[p] \notin Telling
      BY <2>2 DEF BeginRegister, OthersStay, Telling, Settled, Consistent, TypeOK, RowsOK, rows
    <3>2. Evolves
      BY <3>1, QuietEvolves
    <3>3. AnswerOK(p)'
      BY <3>1 DEF AnswerOK, Telling
    <3>4. QED
      BY <3>1, <3>2, <3>3, OneAnswer DEF Consistent
  <2>3. ASSUME NEW p \in Requests, FindEmail(p)
        PROVE  AnswersOK'
    <3>1. /\ OthersStay(p) /\ user' = user /\ (Exists(p) => arg' = arg)
          /\ pc'[p] \notin Telling
      BY <2>3 DEF FindEmail, Taken, OthersStay, Telling, Settled, Consistent, TypeOK, RowsOK, rows
    <3>2. Evolves
      BY <3>1, QuietEvolves
    <3>3. AnswerOK(p)'
      BY <3>1 DEF AnswerOK, Telling
    <3>4. QED
      BY <3>1, <3>2, <3>3, OneAnswer DEF Consistent
  <2>4. ASSUME NEW p \in Requests, CreateUser(p)
        PROVE  AnswersOK'
    <3>1. /\ OthersStay(p) /\ user' = user /\ (Exists(p) => arg' = arg)
          /\ pc'[p] \notin Telling
      BY <2>4 DEF CreateUser, OthersStay, Telling, Settled, Consistent, TypeOK, RowsOK, rows
    <3>2. Evolves
      BY <3>1, QuietEvolves
    <3>3. AnswerOK(p)'
      BY <3>1 DEF AnswerOK, Telling
    <3>4. QED
      BY <3>1, <3>2, <3>3, OneAnswer DEF Consistent
  <2>5. ASSUME NEW p \in Requests, EmailConflict(p)
        PROVE  AnswersOK'
    <3>1. /\ OthersStay(p) /\ user' = user /\ arg' = arg /\ pc[p] = "user"
          /\ pc'[p] \in {"existing-account", "reclassify-account"}
          /\ Holders(arg[p].email) # {}
      BY <2>5 DEF EmailConflict, OthersStay, Consistent, TypeOK, rows
    <3>2. Evolves
      BY <3>1, QuietEvolves
    <3>3. PICK u \in Users : Exists(u) /\ user[u].email = arg[p].email
      BY <3>1 DEF Holders
    <3>4. FirstEmail(u) = arg[p].email
      <4>1. arg[p].email # None
        BY <3>1, KeysAssumption DEF Consistent, ControlOK, Keys
      <4>2. QED
        BY <3>3, <4>1 DEF Consistent, RowsOK, Kept
    <3>5. Exists(u)' /\ FirstEmail(u)' = arg'[p].email
      BY <3>1, <3>2, <3>3, <3>4 DEF Evolves
    <3>6. AnswerOK(p)'
      BY <3>1, <3>5 DEF AnswerOK
    <3>7. QED
      BY <3>1, <3>2, <3>6, OneAnswer DEF Consistent
  <2>6. ASSUME NEW p \in Requests, CreateConsents(p)
        PROVE  AnswersOK'
    <3>1. OthersStay(p) /\ arg' = arg /\ pc[p] = "consents"
      BY <2>6 DEF CreateConsents, OthersStay, Consistent, TypeOK
    <3>2. CASE user' = user /\ pc'[p] = "link"
      <4>1. Evolves
        BY <3>1, <3>2, QuietEvolves
      <4>2. AnswerOK(p)'
        BY <3>2 DEF AnswerOK
      <4>3. QED
        BY <3>1, <4>1, <4>2, OneAnswer DEF Consistent
    <3>3. CASE user' = [user EXCEPT ![p] = NewUser(p)] /\ pc'[p] = "mail"
      <4>1. Evolves /\ Exists(p)'
        BY <3>1, <3>3, SignUpEvolves DEF Creating
      <4>2. AnswerOK(p)'
        BY <3>3, <4>1 DEF AnswerOK
      <4>3. QED
        BY <3>1, <4>1, <4>2, OneAnswer DEF Consistent
    <3>4. QED
      BY <2>6, <3>2, <3>3 DEF CreateConsents, Consistent, TypeOK, rows
  <2>7. ASSUME NEW p \in Requests, SendVerification(p)
        PROVE  AnswersOK'
    <3>1. /\ OthersStay(p) /\ user' = user /\ arg' = arg
          /\ pc[p] = "mail" /\ pc'[p] = "created"
      BY <2>7 DEF SendVerification, OthersStay, Consistent, TypeOK, rows
    <3>2. Evolves
      BY <3>1, QuietEvolves
    <3>3. Exists(p)'
      BY <3>1 DEF AnswersOK, AnswerOK, Exists
    <3>4. AnswerOK(p)'
      BY <3>1, <3>3 DEF AnswerOK
    <3>5. QED
      BY <3>1, <3>2, <3>4, OneAnswer DEF Consistent
  <2>8. ASSUME NEW p \in Requests, NEW i \in Identities, NEW e \in Emails, BeginOAuth(p, i, e)
        PROVE  AnswersOK'
    <3>1. /\ OthersStay(p) /\ user' = user /\ (Exists(p) => arg' = arg)
          /\ pc'[p] \notin Telling
      BY <2>8 DEF BeginOAuth, OthersStay, Telling, Settled, Consistent, TypeOK, RowsOK, rows
    <3>2. Evolves
      BY <3>1, QuietEvolves
    <3>3. AnswerOK(p)'
      BY <3>1 DEF AnswerOK, Telling
    <3>4. QED
      BY <3>1, <3>2, <3>3, OneAnswer DEF Consistent
  <2>9. ASSUME NEW p \in Requests, NEW cookie \in BOOLEAN, FindAccount(p, cookie)
        PROVE  AnswersOK'
    <3>1. /\ OthersStay(p) /\ user' = user /\ (Exists(p) => arg' = arg)
          /\ pc'[p] \notin Telling
      BY <2>9 DEF FindAccount, Existing, OthersStay, Telling, Settled, Consistent, TypeOK, RowsOK, rows
    <3>2. Evolves
      BY <3>1, QuietEvolves
    <3>3. AnswerOK(p)'
      BY <3>1 DEF AnswerOK, Telling
    <3>4. QED
      BY <3>1, <3>2, <3>3, OneAnswer DEF Consistent
  <2>10. ASSUME NEW p \in Requests, LinkAccount(p)
        PROVE  AnswersOK'
    <3>1. /\ OthersStay(p) /\ arg' = arg /\ pc[p] = "link" /\ pc'[p] = "core"
          /\ user' = [user EXCEPT ![p] = NewUser(p)]
      BY <2>10 DEF LinkAccount, OthersStay, Consistent, TypeOK
    <3>2. Evolves
      BY <3>1, SignUpEvolves DEF Creating
    <3>3. AnswerOK(p)'
      BY <3>1 DEF AnswerOK
    <3>4. QED
      BY <3>1, <3>2, <3>3, OneAnswer DEF Consistent
  <2>11. ASSUME NEW p \in Requests, AccountConflict(p)
        PROVE  AnswersOK'
    <3>1. /\ OthersStay(p) /\ user' = user /\ arg' = arg /\ pc[p] = "link"
          /\ pc'[p] = "reclassify-account" /\ account[arg[p].identity] # None
      BY <2>11 DEF AccountConflict, OthersStay, Consistent, TypeOK, rows
    <3>2. Evolves
      BY <3>1, QuietEvolves
    <3>3. PICK u \in Users : Exists(u) /\ Home(u) = arg[p].identity
      BY <3>1 DEF Consistent, ControlOK, TypeOK, RowsOK
    <3>4. Exists(u)' /\ Home(u)' = arg'[p].identity
      BY <3>1, <3>2, <3>3 DEF Evolves
    <3>5. AnswerOK(p)'
      BY <3>1, <3>4 DEF AnswerOK
    <3>6. QED
      BY <3>1, <3>2, <3>5, OneAnswer DEF Consistent
  <2>12. ASSUME NEW p \in Requests, ReclassifyAccount(p)
        PROVE  AnswersOK'
    <3>1. /\ OthersStay(p) /\ user' = user /\ arg' = arg /\ pc[p] = "reclassify-account"
          /\ \/ pc'[p] \in {"core", "not-active"}
             \/ pc'[p] = "reclassify-email" /\ account[arg[p].identity] = None
      BY <2>12 DEF ReclassifyAccount, Existing, OthersStay, Consistent, TypeOK, rows
    <3>2. Evolves
      BY <3>1, QuietEvolves
    <3>3. PICK u \in Users :
            Exists(u) /\ (Home(u) = arg[p].identity \/ FirstEmail(u) = arg[p].email)
      BY <3>1 DEF AnswersOK, AnswerOK
    <3>4. ASSUME account[arg[p].identity] = None, FirstEmail(u) # arg[p].email
          PROVE  Home(u) = arg[p].identity /\ user[u].status = "DELETED"
      <4>1. arg[p].identity # None /\ u # None
        BY <3>1, KeysAssumption DEF Consistent, ControlOK, Keys
      <4>2. QED
        BY <3>3, <3>4, <4>1 DEF Consistent, RowsOK, Kept
    <3>5. /\ Exists(u)'
          /\ pc'[p] = "reclassify-email" =>
               \/ Home(u)' = arg'[p].identity /\ user'[u].status = "DELETED"
               \/ FirstEmail(u)' = arg'[p].email
      BY <3>1, <3>2, <3>3, <3>4 DEF Evolves
    <3>6. AnswerOK(p)'
      BY <3>1, <3>5 DEF AnswerOK
    <3>7. QED
      BY <3>1, <3>2, <3>6, OneAnswer DEF Consistent
  <2>13. ASSUME NEW p \in Requests, ReclassifyEmail(p)
        PROVE  AnswersOK'
    <3>1. /\ OthersStay(p) /\ user' = user /\ arg' = arg /\ pc[p] = "reclassify-email"
          /\ \/ pc'[p] = "email-registered"
             \/ pc'[p] = "conflict" /\ Holders(arg[p].email) = {}
      BY <2>13 DEF ReclassifyEmail, OthersStay, Consistent, TypeOK, rows
    <3>2. Evolves
      BY <3>1, QuietEvolves
    <3>3. PICK u \in Users :
            /\ Exists(u)
            /\ \/ Home(u) = arg[p].identity /\ user[u].status = "DELETED"
               \/ FirstEmail(u) = arg[p].email
      BY <3>1 DEF AnswersOK, AnswerOK
    <3>4. ASSUME Holders(arg[p].email) = {} PROVE user[u].status = "DELETED"
      BY <3>3, <3>4 DEF Holders, Consistent, RowsOK, Kept
    <3>5. pc'[p] = "conflict" =>
            /\ user'[u].status = "DELETED"
            /\ Home(u)' = arg'[p].identity \/ FirstEmail(u)' = arg'[p].email
      BY <3>1, <3>2, <3>3, <3>4 DEF Evolves
    <3>6. AnswerOK(p)'
      BY <3>1, <3>5 DEF AnswerOK
    <3>7. QED
      BY <3>1, <3>2, <3>6, OneAnswer DEF Consistent
  <2>14. ASSUME NEW p \in Requests, CoreLookup(p)
        PROVE  AnswersOK'
    <3>1. /\ OthersStay(p) /\ user' = user /\ pc[p] = "core"
          /\ \/ account[arg[p].identity] # None /\ pc'[p] = "jwt"
             \/ pc'[p] = "error"
          /\ arg'[p] = [arg[p] EXCEPT !.uid = account[arg[p].identity]]
      BY <2>14 DEF CoreLookup, OthersStay, Consistent, TypeOK, rows
    <3>2. arg'[p].op = arg[p].op /\ arg'[p].email = arg[p].email
          /\ arg'[p].identity = arg[p].identity
          /\ arg'[p].uid = account[arg[p].identity]
      <4>1. arg[p] \in Argument
        BY DEF Consistent, TypeOK
      <4>2. QED
        BY <3>1, <4>1 DEF Argument
    <3>3. Evolves
      BY <3>1, <3>2, QuietEvolves
    <3>4. ASSUME pc'[p] = "jwt"
          PROVE  /\ arg'[p].uid \in Users /\ Exists(arg[p].uid)'
                 /\ Home(arg[p].uid)' = arg'[p].identity
      <4>1. arg[p].identity \in Identities
        BY <3>1 DEF Consistent, ControlOK
      <4>2. PICK u \in Users : u = account[arg[p].identity] /\ Exists(u)
                               /\ Home(u) = arg[p].identity
        BY <3>1, <3>4, <4>1 DEF Consistent, TypeOK, RowsOK
      <4>3. Exists(u)' /\ Home(u)' = arg'[p].identity /\ u = arg'[p].uid
        BY <3>2, <3>3, <4>2 DEF Evolves
      <4>4. QED
        BY <4>3 DEF Exists, Home
    <3>5. AnswerOK(p)'
      BY <3>1, <3>4 DEF AnswerOK
    <3>6. QED
      BY <3>1, <3>3, <3>5, OneAnswer DEF Consistent
  <2>15. ASSUME NEW p \in Requests, CheckClaims(p)
        PROVE  AnswersOK'
    <3>1. /\ OthersStay(p) /\ user' = user /\ arg' = arg
          /\ pc[p] = "jwt" /\ pc'[p] \in {"signed-in", "not-active"}
      BY <2>15 DEF CheckClaims, OthersStay, Consistent, TypeOK, rows
    <3>2. Evolves
      BY <3>1, QuietEvolves
    <3>3. /\ arg'[p].uid \in Users /\ Exists(arg[p].uid)'
          /\ Home(arg[p].uid)' = arg'[p].identity
      BY <3>1 DEF AnswersOK, AnswerOK, Exists, Home
    <3>4. AnswerOK(p)'
      BY <3>1, <3>3 DEF AnswerOK
    <3>5. QED
      BY <3>1, <3>2, <3>4, OneAnswer DEF Consistent
  <2>16. ASSUME NEW p \in Requests, NEW u \in Users, BeginDelete(p, u)
        PROVE  AnswersOK'
    <3>1. /\ OthersStay(p) /\ user' = user /\ (Exists(p) => arg' = arg)
          /\ pc'[p] \notin Telling
      BY <2>16 DEF BeginDelete, OthersStay, Telling, Settled, Consistent, TypeOK, RowsOK, rows
    <3>2. Evolves
      BY <3>1, QuietEvolves
    <3>3. AnswerOK(p)'
      BY <3>1 DEF AnswerOK, Telling
    <3>4. QED
      BY <3>1, <3>2, <3>3, OneAnswer DEF Consistent
  <2>17. ASSUME NEW p \in Requests, LockUser(p)
        PROVE  AnswersOK'
    <3>1. /\ OthersStay(p) /\ user' = user /\ (Exists(p) => arg' = arg)
          /\ pc'[p] \notin Telling
      BY <2>17 DEF LockUser, OthersStay, Telling, Settled, Consistent, TypeOK, RowsOK, rows
    <3>2. Evolves
      BY <3>1, QuietEvolves
    <3>3. AnswerOK(p)'
      BY <3>1 DEF AnswerOK, Telling
    <3>4. QED
      BY <3>1, <3>2, <3>3, OneAnswer DEF Consistent
  <2>18. ASSUME NEW p \in Requests, Decline(p)
        PROVE  AnswersOK'
    <3>1. /\ OthersStay(p) /\ user' = user /\ (Exists(p) => arg' = arg)
          /\ pc'[p] \notin Telling
      BY <2>18 DEF Decline, OthersStay, Telling, Settled, Consistent, TypeOK, RowsOK, rows
    <3>2. Evolves
      BY <3>1, QuietEvolves
    <3>3. AnswerOK(p)'
      BY <3>1 DEF AnswerOK, Telling
    <3>4. QED
      BY <3>1, <3>2, <3>3, OneAnswer DEF Consistent
  <2>19. ASSUME NEW p \in Requests, DeleteAccounts(p)
        PROVE  AnswersOK'
    <3>1. /\ OthersStay(p) /\ user' = user /\ (Exists(p) => arg' = arg)
          /\ pc'[p] \notin Telling
      BY <2>19 DEF DeleteAccounts, OthersStay, Telling, Settled, Consistent, TypeOK, RowsOK, rows
    <3>2. Evolves
      BY <3>1, QuietEvolves
    <3>3. AnswerOK(p)'
      BY <3>1 DEF AnswerOK, Telling
    <3>4. QED
      BY <3>1, <3>2, <3>3, OneAnswer DEF Consistent
  <2>20. ASSUME NEW p \in Requests, Anonymize(p)
        PROVE  AnswersOK'
    <3>1. OthersStay(p) /\ pc'[p] = "deleted"
      BY <2>20 DEF Anonymize, OthersStay, Consistent, TypeOK
    <3>2. Evolves
      BY <2>20, DeletionEvolves
    <3>3. AnswerOK(p)'
      BY <3>1 DEF AnswerOK
    <3>4. QED
      BY <3>1, <3>2, <3>3, OneAnswer DEF Consistent
  <2>21. ASSUME NEW p \in Requests, Abort(p)
        PROVE  AnswersOK'
    <3>1. /\ OthersStay(p) /\ user' = user /\ (Exists(p) => arg' = arg)
          /\ pc'[p] \notin Telling
      BY <2>21 DEF Abort, Transaction, OthersStay, Telling, Settled, Consistent, TypeOK, RowsOK, rows
    <3>2. Evolves
      BY <3>1, QuietEvolves
    <3>3. AnswerOK(p)'
      BY <3>1 DEF AnswerOK, Telling
    <3>4. QED
      BY <3>1, <3>2, <3>3, OneAnswer DEF Consistent
  <2>22. CASE UNCHANGED vars
    BY <2>22 DEF vars, AnswersOK, AnswerOK, Exists, Home, FirstEmail
  <2>23. QED
    BY <2>1, <2>2, <2>3, <2>4, <2>5, <2>6, <2>7, <2>8, <2>9, <2>10, <2>11, <2>12, <2>13, <2>14, <2>15, <2>16, <2>17, <2>18, <2>19, <2>20, <2>21, <2>22 DEF Next, Begin, Continue, Served
<1>3. QED
  BY <1>1, <1>2, Typing, Consistency, PTL DEF Spec

-------------------------------------------------------------------------------
(* The properties of Identities                                            *)

\* No orphan ever occupies an address: a committed row has its consents and,
\* until it is deleted, its Account row, whatever fails in between.
THEOREM NoOrphan == Spec => []WholeOrNothing
<1>1. Consistent => WholeOrNothing
  <2> SUFFICES ASSUME Consistent, NEW p \in Requests, Exists(p)
               PROVE  /\ user[p].complete
                      /\ arg[p].op = "oauth" /\ user[p].status # "DELETED" =>
                           account[arg[p].identity] = p
    BY DEF WholeOrNothing
  <2>1. p \in Users /\ p \notin Residents
    BY KeysAssumption DEF Users
  <2>2. user[p].complete = TRUE
    BY DEF Consistent, RowsOK
  <2>3. ASSUME arg[p].op = "oauth", user[p].status # "DELETED"
        PROVE  account[arg[p].identity] = p
    <3>1. Home(p) = arg[p].identity /\ Home(p) # None
      BY <2>1, <2>3, KeysAssumption DEF Home, Consistent, ControlOK, Keys
    <3>2. QED
      BY <2>1, <2>3, <3>1 DEF Consistent, RowsOK, Kept
  <2>4. QED
    BY <2>2, <2>3
<1>2. QED
  BY <1>1, Consistency, PTL

\* A login enters only the account that was created with its identity.
THEOREM OwnAccountOnly == Spec => []NoForeignSignIn
<1>1. AnswersOK => NoForeignSignIn
  BY DEF AnswersOK, AnswerOK, NoForeignSignIn
<1>2. QED
  BY <1>1, Answering, PTL

\* A registration is told that it created an account when it did and not when
\* it lost the address to another.
THEOREM Truthful == Spec => []ToldTheTruth
<1>1. Consistent /\ AnswersOK => ToldTheTruth
  <2> SUFFICES ASSUME Consistent, AnswersOK, NEW p \in Requests
               PROVE  /\ pc[p] \in {"mail", "created"} => Exists(p)
                      /\ pc[p] = "existing-account" => ~ Exists(p)
    BY DEF ToldTheTruth
  <2>1. pc[p] \in {"mail", "created"} => Exists(p)
    BY DEF AnswersOK, AnswerOK
  <2>2. pc[p] = "existing-account" => ~ Exists(p)
    BY DEF Consistent, RowsOK, Settled
  <2>3. QED
    BY <2>1, <2>2
<1>2. QED
  BY <1>1, Consistency, Answering, PTL

\* 'conflict' is answered only when the account that won the race has been
\* deleted since.
THEOREM ConflictExplained == Spec => []ConflictMeansDeletion
<1>1. AnswersOK => ConflictMeansDeletion
  BY DEF AnswersOK, AnswerOK, ConflictMeansDeletion
<1>2. QED
  BY <1>1, Answering, PTL

-------------------------------------------------------------------------------
(* Waits come to an end                                                      *)

\* How far a request has got: every path of its code goes from lower to higher.
Stage(s) ==
  CASE s = "idle" -> 0
    [] s = "account" -> 1
    [] s = "email" -> 2
    [] s \in {"user", "lock-user"} -> 3
    [] s = "consents" -> 4
    [] s = "link" -> 5
    [] s \in {"delete-accounts", "reclassify-account"} -> 6
    [] s \in {"anonymize", "reclassify-email"} -> 7
    [] s = "core" -> 8
    [] s \in {"mail", "jwt"} -> 9
    [] s \in Answers -> 10

\* The next statement of p waits until q's transaction has ended.
Waits(p, q) ==
  \/ pc[p] = "user" /\ lock[arg[p].email] = q
  \/ pc[p] = "link" /\ lock[arg[p].identity] = q
  \/ pc[p] = "lock-user" /\ lock[arg[p].uid] = q
  \/ pc[p] = "delete-accounts" /\ q # p /\ \E i \in Owned(arg[p].uid) : lock[i] = q

\* A request waits only for one that has got further.
WaitsAhead ==
  \A p, q \in Requests : Waits(p, q) => Stage(pc[p]) < Stage(pc[q])

\* A step takes one request further and leaves the others where they are.
StepsAhead ==
  \E p \in Requests :
    /\ Stage(pc[p]) < Stage(pc'[p])
    /\ \A q \in Requests \ {p} : pc'[q] = pc[q]

\* Who holds an address or an account: a sign-up its address from the INSERT to
\* its end, a deletion its account from the SELECT FOR UPDATE to its end.
HoldersInside ==
  \A q \in Requests :
    /\ \A e \in Emails : lock[e] = q => pc[q] \in Creating /\ arg[q].email = e
    /\ \A u \in Users : lock[u] = q => pc[q] \in Deleting /\ arg[q].uid = u

\* It is enough to look at the locks of the request that moves, if nobody else
\* is given one.
LEMMA HoldersStay ==
  ASSUME HoldersInside, NEW p \in Requests, OthersStay(p),
         \A x \in Emails \cup Users : lock'[x] # p => lock'[x] \in {lock[x], None},
         \A e \in Emails : lock'[e] = p => pc'[p] \in Creating /\ arg'[p].email = e,
         \A u \in Users : lock'[u] = p => pc'[p] \in Deleting /\ arg'[p].uid = u
  PROVE  HoldersInside'
<1> SUFFICES ASSUME NEW q \in Requests
             PROVE  /\ \A e \in Emails : lock'[e] = q =>
                         pc'[q] \in Creating /\ arg'[q].email = e
                    /\ \A u \in Users : lock'[u] = q =>
                         pc'[q] \in Deleting /\ arg'[q].uid = u
  BY DEF HoldersInside, Creating, Deleting
<1>1. CASE q = p
  BY <1>1
<1>2. CASE q # p
  <2>1. q # None /\ pc'[q] = pc[q] /\ arg'[q] = arg[q]
    BY <1>2, KeysAssumption DEF Keys, Users, OthersStay
  <2>2. \A x \in Emails \cup Users : lock'[x] = q => lock[x] = q
    BY <1>2, <2>1
  <2>3. QED
    BY <2>1, <2>2 DEF HoldersInside
<1>3. QED
  BY <1>1, <1>2

\* A request that moves while no lock does keeps what it holds, if it holds
\* nothing or goes on inside its transaction.
LEMMA QuietHolders ==
  ASSUME HoldersInside, NEW p \in Requests, OthersStay(p), lock' = lock,
         pc[p] \in Creating => pc'[p] \in Creating /\ arg'[p] = arg[p],
         pc[p] \notin Deleting
  PROVE  HoldersInside'
BY HoldersStay DEF HoldersInside

\* A request that ends its transaction holds nothing.
LEMMA ReleasedHolders ==
  ASSUME HoldersInside, NEW p \in Requests, OthersStay(p), Release(p)
  PROVE  HoldersInside'
<1>1. \A x \in Emails \cup Users : lock'[x] \in {lock[x], None} /\ lock'[x] # p
  BY KeysAssumption DEF Release, Keys, Users
<1>2. QED
  BY <1>1, HoldersStay

\* One step of a request takes it further, and it takes a lock only on entering
\* a transaction.
LEMMA RequestStep ==
  ASSUME Consistent, HoldersInside, NEW p \in Requests,
         Begin(p) \/ Continue(p) \/ Abort(p)
  PROVE  OthersStay(p) /\ Stage(pc[p]) < Stage(pc'[p]) /\ HoldersInside'
<1> USE DEF Goto
<1>0. pc \in [Requests -> Steps] /\ arg \in [Requests -> Argument]
  BY DEF Consistent, TypeOK
<1>1. CASE Begin(p)
  <2>1. OthersStay(p) /\ pc[p] = "idle" /\ lock' = lock
    BY <1>0, <1>1
    DEF Begin, Refuse, BeginRegister, BeginOAuth, BeginDelete, OthersStay
  <2>2. pc'[p] \in {"refused", "email", "account", "lock-user"}
    BY <1>0, <1>1 DEF Begin, Refuse, BeginRegister, BeginOAuth, BeginDelete
  <2>3. HoldersInside'
    BY <2>1, QuietHolders DEF Creating, Deleting
  <2>4. QED
    BY <2>1, <2>2, <2>3 DEF Stage, Answers
<1>2. CASE FindEmail(p)
  <2>1. /\ OthersStay(p) /\ pc[p] = "email" /\ lock' = lock
        /\ pc'[p] \in {"user", "existing-account", "email-registered"}
    BY <1>0, <1>2 DEF FindEmail, Taken, OthersStay
  <2>2. QED
    BY <2>1, QuietHolders DEF Stage, Answers, Creating, Deleting
<1>3. CASE CreateUser(p)
  <2>1. /\ OthersStay(p) /\ pc[p] = "user" /\ pc'[p] = "consents"
        /\ arg' = arg /\ arg[p].email \in Emails
        /\ \A x \in Keys : lock'[x] = IF x = arg[p].email THEN p ELSE lock[x]
    BY <1>0, <1>3 DEF CreateUser, Take, OthersStay, Consistent, ControlOK
  <2>2. \A u \in Users : lock'[u] = lock[u] /\ lock[u] # p
    BY <2>1, KeysAssumption DEF Keys, HoldersInside, Deleting
  <2>3. \A e \in Emails : lock[e] # p
    BY <2>1 DEF HoldersInside, Creating
  <2>4. \A e \in Emails : lock'[e] = IF e = arg[p].email THEN p ELSE lock[e]
    BY <2>1 DEF Keys
  <2>5. HoldersInside'
    BY <2>1, <2>2, <2>3, <2>4, HoldersStay DEF Creating
  <2>6. QED
    BY <2>1, <2>5 DEF Stage, Answers
<1>4. CASE EmailConflict(p)
  <2>1. /\ OthersStay(p) /\ pc[p] = "user" /\ Release(p)
        /\ pc'[p] \in {"existing-account", "reclassify-account"}
    BY <1>0, <1>4 DEF EmailConflict, OthersStay
  <2>2. QED
    BY <2>1, ReleasedHolders DEF Stage, Answers
<1>5. CASE CreateConsents(p)
  <2>1. OthersStay(p) /\ pc[p] = "consents" /\ arg' = arg
    BY <1>0, <1>5 DEF CreateConsents, OthersStay
  <2>2. \/ pc'[p] = "link" /\ lock' = lock
        \/ pc'[p] = "mail" /\ Release(p)
    BY <1>0, <1>5 DEF CreateConsents
  <2>3. HoldersInside'
    BY <2>1, <2>2, QuietHolders, ReleasedHolders DEF Creating, Deleting
  <2>4. QED
    BY <2>1, <2>2, <2>3 DEF Stage, Answers
<1>6. CASE SendVerification(p)
  <2>1. /\ OthersStay(p) /\ pc[p] = "mail" /\ lock' = lock /\ pc'[p] = "created"
    BY <1>0, <1>6 DEF SendVerification, OthersStay
  <2>2. QED
    BY <2>1, QuietHolders DEF Stage, Answers, Creating, Deleting
<1>7. ASSUME NEW cookie \in BOOLEAN, FindAccount(p, cookie)
      PROVE  OthersStay(p) /\ Stage(pc[p]) < Stage(pc'[p]) /\ HoldersInside'
  <2>1. /\ OthersStay(p) /\ pc[p] = "account" /\ lock' = lock
        /\ pc'[p] \in {"core", "not-active", "active-session", "email"}
    BY <1>0, <1>7 DEF FindAccount, Existing, OthersStay
  <2>2. QED
    BY <2>1, QuietHolders DEF Stage, Answers, Creating, Deleting
<1>8. CASE LinkAccount(p)
  <2>1. /\ OthersStay(p) /\ pc[p] = "link" /\ Release(p) /\ pc'[p] = "core"
    BY <1>0, <1>8 DEF LinkAccount, OthersStay
  <2>2. QED
    BY <2>1, ReleasedHolders DEF Stage, Answers
<1>9. CASE AccountConflict(p)
  <2>1. /\ OthersStay(p) /\ pc[p] = "link" /\ Release(p)
        /\ pc'[p] = "reclassify-account"
    BY <1>0, <1>9 DEF AccountConflict, OthersStay
  <2>2. QED
    BY <2>1, ReleasedHolders DEF Stage, Answers
<1>10. CASE ReclassifyAccount(p)
  <2>1. /\ OthersStay(p) /\ pc[p] = "reclassify-account" /\ lock' = lock
        /\ pc'[p] \in {"core", "not-active", "reclassify-email"}
    BY <1>0, <1>10 DEF ReclassifyAccount, Existing, OthersStay
  <2>2. QED
    BY <2>1, QuietHolders DEF Stage, Answers, Creating, Deleting
<1>11. CASE ReclassifyEmail(p)
  <2>1. /\ OthersStay(p) /\ pc[p] = "reclassify-email" /\ lock' = lock
        /\ pc'[p] \in {"email-registered", "conflict"}
    BY <1>0, <1>11 DEF ReclassifyEmail, OthersStay
  <2>2. QED
    BY <2>1, QuietHolders DEF Stage, Answers, Creating, Deleting
<1>12. CASE CoreLookup(p)
  <2>1. /\ OthersStay(p) /\ pc[p] = "core" /\ lock' = lock
        /\ pc'[p] \in {"error", "jwt"}
    BY <1>0, <1>12 DEF CoreLookup, OthersStay
  <2>2. QED
    BY <2>1, QuietHolders DEF Stage, Answers, Creating, Deleting
<1>13. CASE CheckClaims(p)
  <2>1. /\ OthersStay(p) /\ pc[p] = "jwt" /\ lock' = lock
        /\ pc'[p] \in {"signed-in", "not-active"}
    BY <1>0, <1>13 DEF CheckClaims, OthersStay
  <2>2. QED
    BY <2>1, QuietHolders DEF Stage, Answers, Creating, Deleting
<1>14. CASE LockUser(p)
  <2>1. /\ OthersStay(p) /\ pc[p] = "lock-user" /\ arg' = arg
        /\ arg[p].uid \in Users
    BY <1>0, <1>14 DEF LockUser, OthersStay, Consistent, ControlOK
  <2>2. CASE Active(arg[p].uid)
    <3>1. /\ pc'[p] = "delete-accounts"
          /\ \A x \in Keys : lock'[x] = IF x = arg[p].uid THEN p ELSE lock[x]
      BY <1>0, <1>14, <2>2 DEF LockUser, Take
    <3>2. \A e \in Emails : lock'[e] = lock[e] /\ lock[e] # p
      BY <2>1, <3>1, KeysAssumption DEF Keys, HoldersInside, Creating
    <3>3. \A u \in Users : lock[u] # p
      BY <2>1 DEF HoldersInside, Deleting
    <3>4. \A u \in Users : lock'[u] = IF u = arg[p].uid THEN p ELSE lock[u]
      BY <3>1 DEF Keys
    <3>5. HoldersInside'
      BY <2>1, <3>1, <3>2, <3>3, <3>4, HoldersStay DEF Deleting
    <3>6. QED
      BY <2>1, <3>1, <3>5 DEF Stage, Answers
  <2>3. CASE ~ Active(arg[p].uid)
    <3>1. pc'[p] = "not-deleted" /\ lock' = lock
      BY <1>0, <1>14, <2>3 DEF LockUser
    <3>2. QED
      BY <2>1, <3>1, QuietHolders DEF Stage, Answers, Creating, Deleting
  <2>4. QED
    BY <2>2, <2>3
<1>15. CASE Decline(p)
  <2>1. /\ OthersStay(p) /\ pc[p] = "delete-accounts" /\ Release(p)
        /\ pc'[p] = "not-deleted"
    BY <1>0, <1>15 DEF Decline, OthersStay
  <2>2. QED
    BY <2>1, ReleasedHolders DEF Stage, Answers
<1>16. CASE DeleteAccounts(p)
  <2>1. /\ OthersStay(p) /\ pc[p] = "delete-accounts" /\ arg' = arg
        /\ pc'[p] = "anonymize"
        /\ \A x \in Keys : lock'[x] = IF x \in Owned(arg[p].uid) THEN p ELSE lock[x]
    BY <1>0, <1>16 DEF DeleteAccounts, Take, OthersStay
  <2>2. \A x \in Emails \cup Users : lock'[x] = lock[x]
    BY <2>1, KeysAssumption DEF Keys, Owned
  <2>3. HoldersInside'
    BY <2>1, <2>2, HoldersStay DEF HoldersInside, Creating, Deleting
  <2>4. QED
    BY <2>1, <2>3 DEF Stage, Answers
<1>17. CASE Anonymize(p)
  <2>1. /\ OthersStay(p) /\ pc[p] = "anonymize" /\ Release(p) /\ pc'[p] = "deleted"
    BY <1>0, <1>17 DEF Anonymize, OthersStay
  <2>2. QED
    BY <2>1, ReleasedHolders DEF Stage, Answers
<1>18. CASE Abort(p)
  <2>1. /\ OthersStay(p) /\ Release(p) /\ pc'[p] = "error"
        /\ pc[p] \in Transaction \cup {"reclassify-account", "reclassify-email", "core", "jwt"}
    BY <1>0, <1>18 DEF Abort, OthersStay
  <2>2. QED
    BY <2>1, ReleasedHolders DEF Stage, Answers, Transaction
<1>19. QED
  BY <1>1, <1>2, <1>3, <1>4, <1>5, <1>6, <1>7, <1>8, <1>9, <1>10, <1>11, <1>12,
     <1>13, <1>14, <1>15, <1>16, <1>17, <1>18 DEF Continue

\* An address is locked only by a sign-up that inserted it, an account only by
\* the deletion that selected it.
LEMMA Inside == Spec => []HoldersInside
<1>1. Init => HoldersInside
  BY KeysAssumption DEF Init, HoldersInside, Keys, Users
<1>2. Consistent /\ HoldersInside /\ [Next]_vars => HoldersInside'
  <2>1. CASE UNCHANGED vars
    BY <2>1 DEF vars, HoldersInside
  <2>2. CASE Next /\ ~ UNCHANGED vars
    BY <2>2, RequestStep DEF Next, Served
  <2>3. QED
    BY <2>1, <2>2
<1>3. QED
  BY <1>1, <1>2, Consistency, PTL DEF Spec

\* However many requests there are, the waits for unique keys and row locks
\* never form a cycle: whom a request waits for is further on.  A deletion about
\* to delete Account rows waits for nobody: who could hold them holds its account.
THEOREM NoDeadlock == Spec => []WaitsAhead
<1>1. Consistent /\ HoldersInside => WaitsAhead
  <2> SUFFICES ASSUME Consistent, HoldersInside, NEW p \in Requests, NEW q \in Requests,
                      Waits(p, q)
               PROVE  Stage(pc[p]) < Stage(pc[q])
    BY DEF WaitsAhead
  <2>1. CASE pc[p] = "user" /\ lock[arg[p].email] = q
    <3>1. arg[p].email \in Emails
      BY <2>1 DEF Consistent, ControlOK
    <3>2. QED
      BY <2>1, <3>1 DEF HoldersInside, Creating, Stage, Answers
  <2>2. CASE pc[p] = "link" /\ lock[arg[p].identity] = q
    <3>1. arg[p].identity \in Identities
      BY <2>2 DEF Consistent, ControlOK
    <3>2. pc[q] = "anonymize"
      BY <2>2, <3>1 DEF Consistent, LockOK
    <3>3. QED
      BY <2>2, <3>2 DEF Stage, Answers
  <2>3. CASE pc[p] = "lock-user" /\ lock[arg[p].uid] = q
    <3>1. arg[p].uid \in Users
      BY <2>3 DEF Consistent, ControlOK
    <3>2. QED
      BY <2>3, <3>1 DEF HoldersInside, Deleting, Stage, Answers
  <2>4. CASE pc[p] = "delete-accounts" /\ q # p /\ \E i \in Owned(arg[p].uid) : lock[i] = q
    <3>1. PICK i \in Identities : account[i] = arg[p].uid /\ lock[i] = q
      BY <2>4 DEF Owned
    <3>2. pc[q] = "anonymize" /\ account[i] = arg[q].uid
      BY <3>1 DEF Consistent, LockOK
    <3>3. lock[arg[p].uid] = p /\ lock[arg[q].uid] = q
      BY <2>4, <3>2 DEF Consistent, LockOK, Deleting
    <3>4. QED
      BY <2>4, <3>1, <3>2, <3>3
  <2>5. QED
    BY <2>1, <2>2, <2>3, <2>4 DEF Waits
<1>2. QED
  BY <1>1, Consistency, Inside, PTL

\* Every step takes one request at least one stage further and moves no other,
\* so that n requests are done after at most 10 * n steps.
THEOREM NoLivelock == Spec => [][StepsAhead]_vars
<1>1. Consistent /\ HoldersInside /\ [Next]_vars => [StepsAhead]_vars
  <2> SUFFICES ASSUME Consistent, HoldersInside, Next, ~ UNCHANGED vars PROVE StepsAhead
    OBVIOUS
  <2>1. PICK p \in Requests : Begin(p) \/ Continue(p) \/ Abort(p)
    BY DEF Next, Served
  <2>2. OthersStay(p) /\ Stage(pc[p]) < Stage(pc'[p])
    BY <2>1, RequestStep
  <2>3. QED
    BY <2>2 DEF StepsAhead, OthersStay
<1>2. QED
  BY <1>1, Consistency, Inside, PTL DEF Spec

-------------------------------------------------------------------------------
(* Identities implements IdentityDirectory                               *)

\* An address has at most one holder, and Holder finds it.
HolderOK ==
  \A e \in Emails :
    /\ Holder(e) \in Users \cup {None}
    /\ Holders(e) = (IF Holder(e) = None THEN {} ELSE {Holder(e)})

\* It follows from the consistency of the rows.
LEMMA TheHolder == Consistent => HolderOK
<1> SUFFICES ASSUME Consistent, NEW e \in Emails
             PROVE  /\ Holder(e) \in Users \cup {None}
                    /\ Holders(e) = (IF Holder(e) = None THEN {} ELSE {Holder(e)})
  BY DEF HolderOK
<1>1. None \notin Users /\ e # None
  BY KeysAssumption DEF Keys
<1>2. \A u, v \in Holders(e) : u = v
  BY <1>1 DEF Holders, Consistent, RowsOK
<1>3. Holders(e) # {} => Holder(e) \in Holders(e)
  BY DEF Holder
<1>4. Holders(e) \subseteq Users
  BY DEF Holders
<1>5. Holders(e) = {} => Holder(e) = None
  BY DEF Holder
<1>6. QED
  BY <1>1, <1>2, <1>3, <1>4, <1>5

\* The same of the state after a step.
LEMMA TheNextHolder == Consistent' => HolderOK'
BY TheHolder, PTL

\* The commit of a sign-up gives the address to the new account and changes no
\* other address.
LEMMA NewHolder ==
  ASSUME Consistent, Consistent', NEW p \in Requests, pc[p] \in Creating,
         user' = [user EXCEPT ![p] = NewUser(p)]
  PROVE  /\ arg[p].email \in Emails
         /\ Holder(arg[p].email) = None
         /\ [e \in Emails |-> Holder(e)'] =
              [[e \in Emails |-> Holder(e)] EXCEPT ![arg[p].email] = p]
         /\ ~ Exists(p)
         /\ {u \in Users : Exists(u)'} = {u \in Users : Exists(u)} \cup {p}
         /\ {u \in Users : user'[u].status = "DELETED"} = {u \in Users : user[u].status = "DELETED"}
<1>1. /\ arg[p].email \in Emails /\ p \in Users /\ p # None
      /\ ~ Exists(p) /\ Holders(arg[p].email) = {}
  BY KeysAssumption DEF Consistent, ControlOK, RowsOK, Settled, Creating, Users, Keys
<1>2. /\ user'[p].status = "ACTIVE" /\ user'[p].email = arg[p].email
      /\ \A u \in Users \ {p} : user'[u] = user[u]
  BY <1>1, CreatedRows DEF Consistent
<1>3. ASSUME NEW e \in Emails
      PROVE  Holders(e)' = IF e = arg[p].email THEN {p} ELSE Holders(e)
  BY <1>1, <1>2 DEF Holders, Exists
<1>4. ASSUME NEW e \in Emails
      PROVE  Holder(e)' = IF e = arg[p].email THEN p ELSE Holder(e)
  <2>1. CASE e = arg[p].email
    BY <1>3, <2>1, TheNextHolder DEF HolderOK
  <2>2. CASE e # arg[p].email
    BY <1>3, <2>2, TheHolder, TheNextHolder DEF HolderOK
  <2>3. QED
    BY <2>1, <2>2
<1>5. Holder(arg[p].email) = None
  BY <1>1 DEF Holder
<1>6. QED
  BY <1>1, <1>2, <1>4, <1>5 DEF Exists

\* A registration is an abstract Register.
LEMMA RegisterStep ==
  ASSUME Consistent, Consistent', NEW p \in Requests, CreateConsents(p), user' # user
  PROVE  Directory!Next
<1>1. /\ pc[p] \in Creating /\ account' = account
      /\ user' = [user EXCEPT ![p] = NewUser(p)]
  BY DEF CreateConsents, Goto, rows, Creating
<1>2. /\ p \in Users /\ arg[p].email \in Emails
      /\ p \notin {u \in Users : Exists(u)}
      /\ [e \in Emails |-> Holder(e)][arg[p].email] = None
  BY <1>1, NewHolder DEF Users
<1>3. Directory!Register(p, arg[p].email)
  BY <1>1, <1>2, NewHolder DEF Directory!Register
<1>4. QED
  BY <1>2, <1>3 DEF Directory!Next

\* The creation of an account with its identity is an abstract SignUp.
LEMMA SignUpStep ==
  ASSUME Consistent, Consistent', NEW p \in Requests, LinkAccount(p)
  PROVE  Directory!Next
<1>1. /\ pc[p] \in Creating /\ account[arg[p].identity] = None
      /\ user' = [user EXCEPT ![p] = NewUser(p)]
      /\ account' = [account EXCEPT ![arg[p].identity] = p]
  BY DEF LinkAccount, Goto, Creating
<1>2. /\ p \in Users /\ arg[p].email \in Emails
      /\ p \notin {u \in Users : Exists(u)}
      /\ [e \in Emails |-> Holder(e)][arg[p].email] = None
  BY <1>1, NewHolder DEF Users
<1>3. arg[p].identity \in Identities
  BY DEF LinkAccount, Goto, Consistent, ControlOK
<1>4. Directory!SignUp(p, arg[p].email, arg[p].identity)
  BY <1>1, <1>2, NewHolder DEF Directory!SignUp
<1>5. QED
  BY <1>2, <1>3, <1>4 DEF Directory!Next

\* The commit of a deletion is an abstract Close.
LEMMA CloseStep ==
  ASSUME Consistent, Consistent', NEW p \in Requests, Anonymize(p)
  PROVE  Directory!Next
<1>0. PICK d \in Users : d = arg[p].uid
  BY DEF Anonymize, Goto, Consistent, ControlOK, Deleting
<1>1. pc[p] = "anonymize" /\ d # None /\ Active(d)
  BY <1>0, KeysAssumption DEF Anonymize, Goto, Consistent, RowsOK, Deleting, Keys, Active
<1>2. /\ user'[d].status = "DELETED" /\ user'[d].email = None
      /\ \A u \in Users \ {d} : user'[u] = user[u]
  BY <1>0, AnonymizedRows DEF Consistent
<1>3. d \in {u \in Users : Exists(u)} \ {u \in Users : user[u].status = "DELETED"}
  BY <1>1 DEF Exists, Active
<1>4. {u \in Users : user'[u].status = "DELETED"} = {u \in Users : user[u].status = "DELETED"} \cup {d}
  BY <1>1, <1>2
<1>5. {u \in Users : Exists(u)'} = {u \in Users : Exists(u)}
  BY <1>1, <1>2 DEF Exists, Active
<1>6. ASSUME NEW e \in Emails
      PROVE  Holder(e)' = IF Holder(e) = d THEN None ELSE Holder(e)
  <2>1. e # None
    BY KeysAssumption DEF Keys
  <2>2. Holders(e)' = Holders(e) \ {d}
    BY <1>1, <1>2, <1>5, <2>1 DEF Holders, Exists, Active
  <2>3. CASE d \in Holders(e)
    <3>1. Holder(e) = d /\ Holders(e)' = {}
      BY <2>2, <2>3, TheHolder DEF HolderOK
    <3>2. QED
      BY <3>1 DEF Holder
  <2>4. CASE d \notin Holders(e)
    <3>1. Holder(e) # d /\ Holders(e)' = Holders(e)
      BY <1>1, <2>2, <2>4, TheHolder DEF HolderOK
    <3>2. QED
      BY <3>1, TheHolder, TheNextHolder DEF HolderOK
  <2>5. QED
    BY <2>3, <2>4
<1>7. account' = [i \in Identities |-> IF account[i] = d THEN None ELSE account[i]]
  BY <1>0, <1>1 DEF Anonymize, Consistent, LockOK
<1>8. DOMAIN account = Identities
  BY DEF Consistent, TypeOK
<1>9. Directory!Close(d)
  BY <1>3, <1>4, <1>5, <1>6, <1>7, <1>8 DEF Directory!Close, Directory!Without
<1>10. QED
  BY <1>9 DEF Directory!Next

\* Every other step leaves the committed rows alone.
LEMMA QuietOrCommit ==
  ASSUME [Next]_vars
  PROVE  \/ UNCHANGED rows
         \/ \E p \in Requests :
              (CreateConsents(p) /\ user' # user) \/ LinkAccount(p) \/ Anonymize(p)
<1>1. CASE UNCHANGED vars
  BY <1>1 DEF vars, rows
<1>2. ASSUME NEW p \in Requests, Begin(p) \/ Abort(p)
      PROVE  UNCHANGED rows
  BY <1>2 DEF Begin, Refuse, BeginRegister, BeginOAuth, BeginDelete, Abort
<1>3. ASSUME NEW p \in Requests, Continue(p), ~ LinkAccount(p), ~ Anonymize(p),
             ~ (CreateConsents(p) /\ user' # user)
      PROVE  UNCHANGED rows
  BY <1>3 DEF Continue, FindEmail, CreateUser, EmailConflict, CreateConsents, SendVerification,
              FindAccount, AccountConflict, ReclassifyAccount, ReclassifyEmail, CoreLookup,
              CheckClaims, LockUser, Decline, DeleteAccounts, rows
<1>4. QED
  BY <1>1, <1>2, <1>3 DEF Next, Served

\* Registrations, OAuth sign-ups and deletions, statement by statement and with
\* every failure, implement the directory: each account gets its address and its
\* identity in one step and gives both up in one step.
THEOREM Refinement == Spec => ImplementsDirectory
<1>1. Consistent /\ Init => Directory!Init
  <2> SUFFICES ASSUME Consistent PROVE Directory!Init
    OBVIOUS
  <2>1. \A e \in Emails : Holder(e) # None => Holder(e) \in {u \in Users : Exists(u)}
    BY TheHolder DEF HolderOK, Holders
  <2>2. \A i \in Identities : account[i] # None => account[i] \in {u \in Users : Exists(u)}
    BY DEF Consistent, TypeOK, RowsOK
  <2>3. {u \in Users : user[u].status = "DELETED"} \subseteq {u \in Users : Exists(u)}
    BY DEF Exists
  <2>4. account \in [Identities -> {u \in Users : Exists(u)} \cup {None}]
    BY <2>2 DEF Consistent, TypeOK
  <2>5. QED
    BY <2>1, <2>3, <2>4 DEF Directory!Init
<1>2. Consistent /\ Consistent' /\ [Next]_vars => [Directory!Next]_(Directory!vars)
  <2> SUFFICES ASSUME Consistent, Consistent', [Next]_vars
               PROVE  Directory!Next \/ UNCHANGED Directory!vars
    OBVIOUS
  <2>1. CASE UNCHANGED rows
    <3>1. user' = user /\ account' = account
      BY <2>1 DEF rows
    <3>2. \A e \in Emails : Holder(e)' = Holder(e)
      BY <3>1 DEF Holder, Holders, Exists
    <3>3. QED
      BY <3>1, <3>2 DEF Directory!vars, Exists
  <2>2. ASSUME NEW p \in Requests,
               (CreateConsents(p) /\ user' # user) \/ LinkAccount(p) \/ Anonymize(p)
        PROVE  Directory!Next
    BY <2>2, RegisterStep, SignUpStep, CloseStep
  <2>3. QED
    BY <2>1, <2>2, QuietOrCommit
<1>3. QED
  BY <1>1, <1>2, Consistency, PTL DEF Spec, ImplementsDirectory, Directory!Spec
===============================================================================
