---------------------------- MODULE OnboardingProofs ----------------------------
(***************************************************************************)
(* Theorems about Onboarding, which implements TravelerRecord.             *)
(***************************************************************************)
EXTENDS OnboardingRecord, TLAPS

\* Program points of a submit, from the locking of the account to the commit.
Submitting == Lists \cup {"update", "upsert", "commit"}

\* Program points of the redirects that follow a submit, or a visit.
Reading == {"session", "user", "profile"}

\* What a request's program point says of its arguments.
ControlOK ==
  \A p \in Requests :
    /\ pc[p] \in {"lock", "lock-deletion"} \cup Reading \cup Transaction => arg[p].uid \in Users
    /\ pc[p] \in {"lock"} \cup Submitting => arg[p].input \in Inputs
    /\ pc[p] = "profile" => arg[p].seen \in User
    /\ arg[p].saved =>
         /\ pc[p] \in Reading \cup Answers
         /\ arg[p].uid \in Users /\ arg[p].input \in Inputs

-------------------------------------------------------------------------------
(* The values a commit writes.                                             *)

\* Writing one entry of a table leaves the others alone.
LEMMA OneEntry ==
  ASSUME NEW D, NEW R, NEW f \in [D -> R], NEW d \in D, NEW r \in R
  PROVE  /\ [f EXCEPT ![d] = r] \in [D -> R]
         /\ [f EXCEPT ![d] = r][d] = r
         /\ \A e \in D \ {d} : [f EXCEPT ![d] = r][e] = f[e]
OBVIOUS

\* What the commit of a form does to the User rows.
LEMMA SavedRows ==
  ASSUME TypeOK, ControlOK, NEW p \in Requests, CommitForm(p)
  PROVE  /\ user' \in [Users -> User]
         /\ user'[arg[p].uid].basics = arg[p].input
         /\ user'[arg[p].uid].role = user[arg[p].uid].role
         /\ user'[arg[p].uid].status = user[arg[p].uid].status
         /\ \A u \in Users \ {arg[p].uid} : user'[u] = user[u]
<1>1. arg[p].uid \in Users /\ arg[p].input \in Inputs /\ user \in [Users -> User]
  BY DEF CommitForm, Goto, ControlOK, Submitting, Transaction, TypeOK
<1>2. PICK r : r = [user[arg[p].uid] EXCEPT !.basics = arg[p].input]
  OBVIOUS
<1>3. /\ r \in User /\ r.basics = arg[p].input
      /\ r.role = user[arg[p].uid].role /\ r.status = user[arg[p].uid].status
  BY <1>1, <1>2 DEF User
<1>4. user' = [user EXCEPT ![arg[p].uid] = r]
  BY <1>2 DEF CommitForm
<1>5. QED
  BY <1>1, <1>3, <1>4, OneEntry

\* What the deletion's commit does to the User rows.
LEMMA AnonymizedRows ==
  ASSUME TypeOK, ControlOK, NEW p \in Requests, Anonymize(p)
  PROVE  /\ user' \in [Users -> User]
         /\ user'[arg[p].uid].status = "DELETED" /\ user'[arg[p].uid].basics = None
         /\ user'[arg[p].uid].role = user[arg[p].uid].role
         /\ \A u \in Users \ {arg[p].uid} : user'[u] = user[u]
<1>1. arg[p].uid \in Users /\ user \in [Users -> User]
  BY DEF Anonymize, Goto, ControlOK, Transaction, TypeOK
<1>2. PICK r : r = [user[arg[p].uid] EXCEPT !.status = "DELETED", !.basics = None]
  OBVIOUS
<1>3. /\ r \in User /\ r.status = "DELETED" /\ r.basics = None
      /\ r.role = user[arg[p].uid].role
  BY <1>1, <1>2 DEF User
<1>4. user' = [user EXCEPT ![arg[p].uid] = r]
  BY <1>2 DEF Anonymize
<1>5. QED
  BY <1>1, <1>3, <1>4, OneEntry

\* What an operator does to the User rows.
LEMMA ModeratedRows ==
  ASSUME TypeOK, NEW u \in Users, Moderate(u)
  PROVE  /\ user' \in [Users -> User]
         /\ user[u].status # "DELETED" /\ user'[u].status # "DELETED"
         /\ user'[u].basics = user[u].basics /\ user'[u].role = user[u].role
         /\ \A v \in Users \ {u} : user'[v] = user[v]
<1>1. PICK status \in {"ACTIVE", "SUSPENDED"} :
        user' = [user EXCEPT ![u] = [@ EXCEPT !.status = status]]
  BY DEF Moderate
<1>2. PICK r : r = [user[u] EXCEPT !.status = status]
  OBVIOUS
<1>3. r \in User /\ r.status = status /\ r.basics = user[u].basics /\ r.role = user[u].role
  BY <1>2 DEF User, TypeOK
<1>4. user' = [user EXCEPT ![u] = r]
  BY <1>1, <1>2
<1>5. user[u].status # "DELETED" /\ user \in [Users -> User]
  BY DEF Moderate, TypeOK
<1>6. QED
  BY <1>1, <1>3, <1>4, <1>5, OneEntry

\* The statement after a list is another list's or the update.
LEMMA Following ==
  ASSUME NEW list \in Lists
  PROVE  /\ After(list) \in {"preferredCities", "preferredCountries", "update"}
         /\ After(list) = "update" <=> list = "preferredCountries"
         /\ After(list) = "preferredCountries" <=> list = "preferredCities"
BY DEF After, Lists

\* The dispatcher knows three destinations.
LEMMA Destinations ==
  ASSUME NEW row, NEW prefs
  PROVE  Destination(row, prefs) \in {"login", "onboarding", "home"}
BY DEF Destination

-------------------------------------------------------------------------------
(* Types                                                                   *)

\* The initial values have their types.
LEMMA TypingInit ==
  ASSUME Init
  PROVE  TypeOK /\ ControlOK
<1>1. PICK start \in [Users -> InitialUsers] :
        /\ user = [u \in Users |-> start[u].user]
        /\ profile = [u \in Users |-> start[u].profile]
  BY DEF Init
<1>2. ASSUME NEW u \in Users
      PROVE  user[u] \in User /\ profile[u] \in Inputs \cup {None}
  <2>1. start[u] \in InitialUsers
    OBVIOUS
  <2>2. start[u].user \in User /\ start[u].user.basics \in Inputs \cup {None}
    BY <2>1, InitialUsersAssumption DEF User
  <2>3. start[u].profile \in Inputs \cup {None}
    BY <2>1, <2>2, InitialUsersAssumption
  <2>4. QED
    BY <1>1, <2>2, <2>3
<1>3. user \in [Users -> User] /\ profile \in [Users -> Inputs \cup {None}]
  BY <1>1, <1>2
<1>4. QED
  BY <1>3 DEF Init, TypeOK, ControlOK, Argument, Steps, Entries, Reading, Submitting,
    Transaction, Lists, Answers

\* Every variable of every reachable state keeps to its type, and a request at
\* a program point has the arguments its next statement needs.
THEOREM Typing == Spec => [](TypeOK /\ ControlOK)
<1>1. Init => TypeOK /\ ControlOK
  BY TypingInit
<1>2. TypeOK /\ ControlOK /\ [Next]_vars => TypeOK' /\ ControlOK'
  <2> SUFFICES ASSUME TypeOK, ControlOK, [Next]_vars PROVE TypeOK' /\ ControlOK'
    OBVIOUS
  <2> USE DEF TypeOK, ControlOK, Goto, rows, Submitting, Reading
  <2>1. ASSUME NEW p \in Requests, SubmitUnparsable(p)
        PROVE  TypeOK' /\ ControlOK'
    <3>1. TypeOK'
      BY <2>1 DEF SubmitUnparsable, Steps, Transaction, Answers, Lists, Argument,
        Entries
    <3>2. ControlOK'
      BY <2>1 DEF SubmitUnparsable, Transaction, Answers, Lists, Argument
    <3>3. QED
      BY <3>1, <3>2
  <2>2. ASSUME NEW p \in Requests, NEW u \in Users, NEW page \in {"post-login",
               "onboarding"}, Visit(p, u, page)
        PROVE  TypeOK' /\ ControlOK'
    <3>1. PICK r : r = [arg[p] EXCEPT !.uid = u, !.page = page]
      OBVIOUS
    <3>2. arg[p] \in Argument
      OBVIOUS
    <3>3. r \in Argument /\ r.uid = u /\ r.input = arg[p].input /\ r.saved = arg[p].saved
      BY <3>1, <3>2 DEF Argument
    <3>4. arg' = [arg EXCEPT ![p] = r]
      BY <2>2, <3>1 DEF Visit
    <3>5. arg' \in [Requests -> Argument] /\ arg'[p] = r
          /\ \A q \in Requests \ {p} : arg'[q] = arg[q]
      BY <3>3, <3>4, OneEntry
    <3>6. TypeOK'
      BY <2>2, <3>5 DEF Visit, Steps, Answers
    <3>7. ControlOK'
      BY <2>2, <3>3, <3>5 DEF Visit, Transaction, Lists, Answers
    <3>8. QED
      BY <3>6, <3>7
  <2>3. ASSUME NEW p \in Requests, NEW u \in Users, NEW input \in Inputs, Submit(p, u,
               input)
        PROVE  TypeOK' /\ ControlOK'
    <3>1. PICK r : r = [arg[p] EXCEPT !.uid = u, !.input = input]
      OBVIOUS
    <3>2. arg[p] \in Argument
      OBVIOUS
    <3>3. r \in Argument /\ r.uid = u /\ r.input = input /\ r.saved = arg[p].saved
      BY <3>1, <3>2 DEF Argument
    <3>4. arg' = [arg EXCEPT ![p] = r]
      BY <2>3, <3>1 DEF Submit
    <3>5. arg' \in [Requests -> Argument] /\ arg'[p] = r
          /\ \A q \in Requests \ {p} : arg'[q] = arg[q]
      BY <3>3, <3>4, OneEntry
    <3>6. TypeOK'
      BY <2>3, <3>5 DEF Submit, Steps, Answers
    <3>7. ControlOK'
      BY <2>3, <3>3, <3>5 DEF Submit, Transaction, Lists, Answers
    <3>8. QED
      BY <3>6, <3>7
  <2>4. ASSUME NEW p \in Requests, NEW u \in Users, Delete(p, u)
        PROVE  TypeOK' /\ ControlOK'
    <3>1. TypeOK'
      BY <2>4 DEF Delete, Steps, Transaction, Answers, Lists, Argument, Entries
    <3>2. ControlOK'
      BY <2>4 DEF Delete, Transaction, Answers, Lists, Argument
    <3>3. QED
      BY <3>1, <3>2
  <2>5. ASSUME NEW p \in Requests, ReadSession(p)
        PROVE  TypeOK' /\ ControlOK'
    <3>1. TypeOK'
      BY <2>5 DEF ReadSession, Row, Steps, Transaction, Answers, Lists, Argument,
        Entries
    <3>2. ControlOK'
      BY <2>5 DEF ReadSession, Row, Transaction, Answers, Lists, Argument
    <3>3. QED
      BY <3>1, <3>2
  <2>6. ASSUME NEW p \in Requests, ReadUser(p)
        PROVE  TypeOK' /\ ControlOK'
    <3>1. TypeOK'
      BY <2>6 DEF ReadUser, Row, Steps, Transaction, Answers, Lists, Argument, Entries
    <3>2. ControlOK'
      BY <2>6 DEF ReadUser, Row, Transaction, Answers, Lists, Argument
    <3>3. QED
      BY <3>1, <3>2
  <2>7. ASSUME NEW p \in Requests, ReadProfile(p)
        PROVE  TypeOK' /\ ControlOK'
    <3>1. /\ pc[p] = "profile"
          /\ pc'[p] \in {"session", "form", "home", "login"}
          /\ pc' = [pc EXCEPT ![p] = pc'[p]]
          /\ UNCHANGED <<rows, active, lock, live>>
      BY <2>7, Destinations DEF ReadProfile
    <3>2. PICK page \in {"post-login", "onboarding"} :
            arg' = [arg EXCEPT ![p] = [@ EXCEPT !.page = page, !.seen = None]]
      <4>1. arg[p].page \in {"post-login", "onboarding"}
        BY DEF Argument
      <4>2. [arg[p] EXCEPT !.seen = None] = [arg[p] EXCEPT !.page = arg[p].page, !.seen = None]
        BY DEF Argument
      <4>3. QED
        BY <2>7, <4>1, <4>2 DEF ReadProfile
    <3>3. PICK r : r = [arg[p] EXCEPT !.page = page, !.seen = None]
      OBVIOUS
    <3>4. arg[p] \in Argument
      OBVIOUS
    <3>5. /\ r \in Argument
          /\ r.uid = arg[p].uid /\ r.input = arg[p].input /\ r.saved = arg[p].saved
      BY <3>3, <3>4 DEF Argument
    <3>6. arg' \in [Requests -> Argument] /\ arg'[p] = r
          /\ \A q \in Requests \ {p} : arg'[q] = arg[q]
      BY <3>2, <3>3, <3>5, OneEntry
    <3>7. TypeOK'
      BY <3>1, <3>6 DEF Steps, Answers
    <3>8. ControlOK'
      BY <3>1, <3>5, <3>6 DEF Transaction, Lists, Answers
    <3>9. QED
      BY <3>7, <3>8
  <2>8. ASSUME NEW p \in Requests, LockAndRecheck(p)
        PROVE  TypeOK' /\ ControlOK'
    <3>1. pc[p] = "lock" /\ arg' = arg /\ rows' = rows /\ active' = active
      BY <2>8 DEF LockAndRecheck
    <3>2. /\ pc'[p] \in {"travelPurposes", "session"}
          /\ pc' = [pc EXCEPT ![p] = pc'[p]]
      BY <2>8 DEF LockAndRecheck
    <3>3. lock' \in [Users -> Requests \cup {None}]
      BY <2>8, <3>1 DEF LockAndRecheck, Take
    <3>4. live' \in [Requests -> SUBSET Entries]
      BY <2>8 DEF LockAndRecheck
    <3>5. TypeOK'
      BY <3>1, <3>2, <3>3, <3>4 DEF Steps, Transaction, Lists
    <3>6. ControlOK'
      BY <3>1, <3>2 DEF Transaction, Lists, Answers
    <3>7. QED
      BY <3>5, <3>6
  <2>9. ASSUME NEW p \in Requests, CheckList(p)
        PROVE  TypeOK' /\ ControlOK'
    <3>1. PICK r : r = [arg[p] EXCEPT !.errors =
            arg[p].errors \/ ~ (arg[p].input[pc[p]] \subseteq Offered(pc[p], active))]
      OBVIOUS
    <3>2. arg[p] \in Argument
      OBVIOUS
    <3>3. r \in Argument /\ r.uid = arg[p].uid /\ r.input = arg[p].input /\ r.saved = arg[p].saved
      BY <3>1, <3>2 DEF Argument
    <3>4. arg' = [arg EXCEPT ![p] = r]
      BY <2>9, <3>1 DEF CheckList
    <3>5. arg' \in [Requests -> Argument] /\ arg'[p] = r
          /\ \A q \in Requests \ {p} : arg'[q] = arg[q]
      BY <3>3, <3>4, OneEntry
    <3>6. /\ pc[p] \in Lists /\ pc' = [pc EXCEPT ![p] = pc'[p]]
          /\ pc'[p] \in {"preferredCities", "preferredCountries", "update", "invalid"}
          /\ Release(p) \/ lock' = lock
      <4>1. pc[p] \in Lists
        BY <2>9 DEF CheckList
      <4>2. After(pc[p]) \in {"preferredCities", "preferredCountries", "update"}
        BY <4>1, Following
      <4>3. QED
        BY <2>9, <4>1, <4>2 DEF CheckList
    <3>7. lock' \in [Users -> Requests \cup {None}]
      BY <3>6 DEF Release
    <3>8. pc' \in [Requests -> Steps]
      BY <3>6 DEF Steps, Transaction, Lists, Answers
    <3>9. TypeOK'
      BY <2>9, <3>5, <3>7, <3>8 DEF CheckList
    <3>10. ControlOK'
      BY <3>3, <3>5, <3>6 DEF Transaction, Lists, Answers
    <3>11. QED
      BY <3>9, <3>10
  <2>10. ASSUME NEW p \in Requests, UpdateUser(p)
        PROVE  TypeOK' /\ ControlOK'
    <3>1. TypeOK'
      BY <2>10 DEF UpdateUser, Steps, Transaction, Answers, Lists, Argument, Entries
    <3>2. ControlOK'
      BY <2>10 DEF UpdateUser, Transaction, Answers, Lists, Argument
    <3>3. QED
      BY <3>1, <3>2
  <2>11. ASSUME NEW p \in Requests, UpsertProfile(p)
        PROVE  TypeOK' /\ ControlOK'
    <3>1. TypeOK'
      BY <2>11 DEF UpsertProfile, Release, Steps, Transaction, Answers, Lists,
        Argument, Entries
    <3>2. ControlOK'
      BY <2>11 DEF UpsertProfile, Release, Transaction, Answers, Lists, Argument
    <3>3. QED
      BY <3>1, <3>2
  <2>12. ASSUME NEW p \in Requests, CommitForm(p)
        PROVE  TypeOK' /\ ControlOK'
    <3>1. PICK r : r = [arg[p] EXCEPT !.saved = TRUE]
      OBVIOUS
    <3>2. arg[p] \in Argument
      OBVIOUS
    <3>3. r \in Argument /\ r.uid = arg[p].uid /\ r.input = arg[p].input
      BY <3>1, <3>2 DEF Argument
    <3>4. arg' = [arg EXCEPT ![p] = r]
      BY <2>12, <3>1 DEF CommitForm
    <3>5. arg' \in [Requests -> Argument] /\ arg'[p] = r
          /\ \A q \in Requests \ {p} : arg'[q] = arg[q]
      BY <3>3, <3>4, OneEntry
    <3>6. user' \in [Users -> User]
      BY <2>12, SavedRows
    <3>7. /\ profile' \in [Users -> Inputs \cup {None}]
          /\ lock' \in [Users -> Requests \cup {None}]
      BY <2>12 DEF CommitForm, Release, Transaction
    <3>8. TypeOK'
      BY <2>12, <3>5, <3>6, <3>7 DEF CommitForm, Steps
    <3>9. ControlOK'
      BY <2>12, <3>3, <3>5 DEF CommitForm, Transaction, Lists, Answers
    <3>10. QED
      BY <3>8, <3>9
  <2>13. ASSUME NEW p \in Requests, LockForDeletion(p)
        PROVE  TypeOK' /\ ControlOK'
    <3>1. TypeOK'
      BY <2>13 DEF LockForDeletion, Take, Steps, Transaction, Answers, Lists, Argument,
        Entries
    <3>2. ControlOK'
      BY <2>13 DEF LockForDeletion, Take, Transaction, Answers, Lists, Argument
    <3>3. QED
      BY <3>1, <3>2
  <2>14. ASSUME NEW p \in Requests, Anonymize(p)
        PROVE  TypeOK' /\ ControlOK'
    <3>1. user' \in [Users -> User]
      BY <2>14, AnonymizedRows
    <3>2. profile' \in [Users -> Inputs \cup {None}]
      BY <2>14 DEF Anonymize
    <3>3. lock' \in [Users -> Requests \cup {None}]
      BY <2>14 DEF Anonymize, Release
    <3>4. pc' \in [Requests -> Steps] /\ arg' = arg /\ active' = active /\ live' = live
      BY <2>14 DEF Anonymize, Steps, Answers
    <3>5. ControlOK'
      BY <2>14 DEF Anonymize, Transaction, Lists, Answers
    <3>6. QED
      BY <3>1, <3>2, <3>3, <3>4, <3>5
  <2>15. ASSUME NEW p \in Requests, Abort(p)
        PROVE  TypeOK' /\ ControlOK'
    <3>1. TypeOK'
      BY <2>15 DEF Abort, Release, Steps, Transaction, Answers, Lists, Argument, Entries
    <3>2. ControlOK'
      BY <2>15 DEF Abort, Release, Transaction, Answers, Lists, Argument
    <3>3. QED
      BY <3>1, <3>2
  <2>16. ASSUME NEW u \in Users, Moderate(u)
        PROVE  TypeOK' /\ ControlOK'
    <3>1. user' \in [Users -> User]
      BY <2>16, ModeratedRows
    <3>2. QED
      BY <2>16, <3>1 DEF Moderate
  <2>17. ASSUME NEW entry \in Entries, Switch(entry)
        PROVE  TypeOK' /\ ControlOK'
    <3>1. TypeOK'
      BY <2>17 DEF Switch, Steps, Transaction, Answers, Lists, Argument, Entries
    <3>2. ControlOK'
      BY <2>17 DEF Switch, Transaction, Answers, Lists, Argument
    <3>3. QED
      BY <3>1, <3>2
  <2>18. CASE UNCHANGED vars
    BY <2>18 DEF vars
  <2>19. QED
    BY <2>1, <2>2, <2>3, <2>4, <2>5, <2>6, <2>7, <2>8, <2>9, <2>10, <2>11, <2>12,
      <2>13, <2>14, <2>15, <2>16, <2>17, <2>18 DEF Next, Begin, Continue, Served
<1>3. QED
  BY <1>1, <1>2, PTL DEF Spec

-------------------------------------------------------------------------------
(* Locks and rows                                                          *)

\* A transaction holds the row of its account, which stays an active traveler.
LockOK ==
  \A p \in Requests : pc[p] \in Transaction =>
    lock[arg[p].uid] = p /\ ActiveTraveler(Row(p))

\* The two rows of a traveler hold one form, and those of a tombstone nothing.
RowsOK ==
  \A u \in Users :
    /\ user[u].status = "DELETED" => user[u].basics = None /\ profile[u] = None
    /\ user[u].status # "DELETED" /\ user[u].role = "TRAVELER" => user[u].basics = profile[u]

Consistent == TypeOK /\ ControlOK /\ LockOK /\ RowsOK

\* A step of request p moves no other request.
OthersStay(p) == \A q \in Requests \ {p} : pc'[q] = pc[q] /\ arg'[q] = arg[q]

\* Every step of a request leaves the other requests where they are.
LEMMA OneMoves ==
  ASSUME TypeOK, NEW p \in Requests, Begin(p) \/ Continue(p) \/ Abort(p)
  PROVE  OthersStay(p)
<1> USE DEF TypeOK, Goto, OthersStay
<1>1. SubmitUnparsable(p) => OthersStay(p)
  BY DEF SubmitUnparsable
<1>2. ASSUME NEW u \in Users, NEW page \in {"post-login", "onboarding"}, Visit(p, u,
             page)
      PROVE  OthersStay(p)
  BY <1>2 DEF Visit
<1>3. ASSUME NEW u \in Users, NEW input \in Inputs, Submit(p, u, input)
      PROVE  OthersStay(p)
  BY <1>3 DEF Submit
<1>4. ASSUME NEW u \in Users, Delete(p, u)
      PROVE  OthersStay(p)
  BY <1>4 DEF Delete
<1>5. ReadSession(p) => OthersStay(p)
  BY DEF ReadSession
<1>6. ReadUser(p) => OthersStay(p)
  BY DEF ReadUser
<1>7. ReadProfile(p) => OthersStay(p)
  BY DEF ReadProfile
<1>8. LockAndRecheck(p) => OthersStay(p)
  BY DEF LockAndRecheck
<1>9. CheckList(p) => OthersStay(p)
  BY DEF CheckList
<1>10. UpdateUser(p) => OthersStay(p)
  BY DEF UpdateUser
<1>11. UpsertProfile(p) => OthersStay(p)
  BY DEF UpsertProfile
<1>12. CommitForm(p) => OthersStay(p)
  BY DEF CommitForm
<1>13. LockForDeletion(p) => OthersStay(p)
  BY DEF LockForDeletion
<1>14. Anonymize(p) => OthersStay(p)
  BY DEF Anonymize
<1>15. Abort(p) => OthersStay(p)
  BY DEF Abort
<1>16. QED
  BY <1>1, <1>2, <1>3, <1>4, <1>5, <1>6, <1>7, <1>8, <1>9, <1>10, <1>11, <1>12, <1>13,
    <1>14, <1>15 DEF Begin, Continue

\* A step that takes no lock and touches no row keeps the locks in order.
LEMMA QuietLocks ==
  ASSUME LockOK, NEW p \in Requests, OthersStay(p), user' = user, lock' = lock,
         pc'[p] \in Transaction => pc[p] \in Transaction /\ arg'[p].uid = arg[p].uid
  PROVE  LockOK'
BY DEF LockOK, OthersStay, Row, ActiveTraveler

\* Nor does taking a free lock disturb the locks of others.
LEMMA TakenLocks ==
  ASSUME TypeOK, LockOK, NEW p \in Requests, arg[p].uid \in Users,
         Take(p), ActiveTraveler(Row(p)), OthersStay(p),
         user' = user, arg' = arg
  PROVE  LockOK'
<1>1. lock' = [lock EXCEPT ![arg[p].uid] = p] /\ lock[arg[p].uid] = None
  BY DEF Take
<1>2. lock'[arg[p].uid] = p /\ \A u \in Users \ {arg[p].uid} : lock'[u] = lock[u]
  BY <1>1 DEF TypeOK
<1>3. ASSUME NEW q \in Requests, q # p, pc'[q] \in Transaction
      PROVE  lock'[arg'[q].uid] = q /\ ActiveTraveler(Row(q))'
  <2>1. pc[q] \in Transaction /\ lock[arg[q].uid] = q /\ ActiveTraveler(Row(q))
    BY <1>3 DEF OthersStay, LockOK
  <2>2. arg[q].uid # arg[p].uid
    BY <1>1, <2>1, CatalogueAssumption
  <2>3. lock'[arg[q].uid] = lock[arg[q].uid]
    BY <1>1, <2>2
  <2>4. QED
    BY <2>1, <2>3 DEF Row, ActiveTraveler
<1>4. lock'[arg'[p].uid] = p /\ ActiveTraveler(Row(p))'
  BY <1>2 DEF Row, ActiveTraveler
<1>5. QED
  BY <1>3, <1>4 DEF LockOK

\* The end of a transaction, which may have written the row it held, leaves
\* the locks of others and the rows they hold.
LEMMA ReleasedLocks ==
  ASSUME TypeOK, ControlOK, LockOK, NEW p \in Requests, OthersStay(p), Release(p),
         pc'[p] \notin Transaction,
         \A u \in Users : user'[u] = user[u] \/ (pc[p] \in Transaction /\ u = arg[p].uid)
  PROVE  LockOK'
<1>1. SUFFICES ASSUME NEW q \in Requests, q # p, pc'[q] \in Transaction
               PROVE  lock'[arg'[q].uid] = q /\ ActiveTraveler(Row(q))'
  BY DEF LockOK
<1>2. /\ pc[q] \in Transaction /\ arg'[q] = arg[q]
      /\ lock[arg[q].uid] = q /\ ActiveTraveler(Row(q))
  BY <1>1 DEF OthersStay, LockOK
<1>3. arg[q].uid \in Users
  BY <1>2 DEF ControlOK
<1>4. lock'[arg[q].uid] = q
  BY <1>1, <1>2, <1>3 DEF Release
<1>5. pc[p] \in Transaction => arg[q].uid # arg[p].uid
  BY <1>1, <1>2 DEF LockOK
<1>6. user'[arg[q].uid] = user[arg[q].uid]
  BY <1>3, <1>5
<1>7. QED
  BY <1>2, <1>4, <1>6 DEF Row, ActiveTraveler

\* The initial rows are whole and nothing is locked.
LEMMA ConsistentInit ==
  ASSUME Init
  PROVE  LockOK /\ RowsOK
<1>1. PICK start \in [Users -> InitialUsers] :
        /\ user = [u \in Users |-> start[u].user]
        /\ profile = [u \in Users |-> start[u].profile]
  BY DEF Init
<1>2. ASSUME NEW u \in Users
      PROVE  /\ user[u].status # "DELETED"
             /\ user[u].role = "TRAVELER" => profile[u] = user[u].basics
  <2>1. start[u] \in InitialUsers
    OBVIOUS
  <2>2. QED
    BY <1>1, <2>1, InitialUsersAssumption
<1>3. \A p \in Requests : pc[p] \notin Transaction
  BY DEF Init, Transaction, Lists
<1>4. QED
  BY <1>2, <1>3 DEF LockOK, RowsOK

\* Every step keeps the locks and the rows in order.
LEMMA ConsistentStep ==
  ASSUME Consistent, [Next]_vars
  PROVE  LockOK' /\ RowsOK'
<1> USE DEF Consistent, Goto, rows
<1>1. ASSUME NEW p \in Requests, SubmitUnparsable(p)
      PROVE  LockOK' /\ RowsOK'
  <2>1. OthersStay(p)
    BY <1>1, OneMoves DEF Begin, Continue
  <2>2. user' = user /\ profile' = profile /\ lock' = lock
    BY <1>1 DEF SubmitUnparsable
  <2>3. pc'[p] \in Transaction => pc[p] \in Transaction /\ arg'[p].uid = arg[p].uid
    BY <1>1 DEF SubmitUnparsable, Transaction, Lists, TypeOK
  <2>4. QED
    BY <2>1, <2>2, <2>3, QuietLocks DEF RowsOK
<1>2. ASSUME NEW p \in Requests, NEW u \in Users, NEW page \in {"post-login",
             "onboarding"}, Visit(p, u, page)
      PROVE  LockOK' /\ RowsOK'
  <2>1. OthersStay(p)
    BY <1>2, OneMoves DEF Begin, Continue
  <2>2. user' = user /\ profile' = profile /\ lock' = lock
    BY <1>2 DEF Visit
  <2>3. pc'[p] \in Transaction => pc[p] \in Transaction /\ arg'[p].uid = arg[p].uid
    BY <1>2 DEF Visit, Transaction, Lists, TypeOK
  <2>4. QED
    BY <2>1, <2>2, <2>3, QuietLocks DEF RowsOK
<1>3. ASSUME NEW p \in Requests, NEW u \in Users, NEW input \in Inputs, Submit(p, u,
             input)
      PROVE  LockOK' /\ RowsOK'
  <2>1. OthersStay(p)
    BY <1>3, OneMoves DEF Begin, Continue
  <2>2. user' = user /\ profile' = profile /\ lock' = lock
    BY <1>3 DEF Submit
  <2>3. pc'[p] \in Transaction => pc[p] \in Transaction /\ arg'[p].uid = arg[p].uid
    BY <1>3 DEF Submit, Transaction, Lists, TypeOK
  <2>4. QED
    BY <2>1, <2>2, <2>3, QuietLocks DEF RowsOK
<1>4. ASSUME NEW p \in Requests, NEW u \in Users, Delete(p, u)
      PROVE  LockOK' /\ RowsOK'
  <2>1. OthersStay(p)
    BY <1>4, OneMoves DEF Begin, Continue
  <2>2. user' = user /\ profile' = profile /\ lock' = lock
    BY <1>4 DEF Delete
  <2>3. pc'[p] \in Transaction => pc[p] \in Transaction /\ arg'[p].uid = arg[p].uid
    BY <1>4 DEF Delete, Transaction, Lists, TypeOK
  <2>4. QED
    BY <2>1, <2>2, <2>3, QuietLocks DEF RowsOK
<1>5. ASSUME NEW p \in Requests, ReadSession(p)
      PROVE  LockOK' /\ RowsOK'
  <2>1. OthersStay(p)
    BY <1>5, OneMoves DEF Begin, Continue
  <2>2. user' = user /\ profile' = profile /\ lock' = lock
    BY <1>5 DEF ReadSession
  <2>3. pc'[p] \in Transaction => pc[p] \in Transaction /\ arg'[p].uid = arg[p].uid
    BY <1>5 DEF ReadSession, Transaction, Lists, TypeOK
  <2>4. QED
    BY <2>1, <2>2, <2>3, QuietLocks DEF RowsOK
<1>6. ASSUME NEW p \in Requests, ReadUser(p)
      PROVE  LockOK' /\ RowsOK'
  <2>1. OthersStay(p)
    BY <1>6, OneMoves DEF Begin, Continue
  <2>2. user' = user /\ profile' = profile /\ lock' = lock
    BY <1>6 DEF ReadUser
  <2>3. pc'[p] \in Transaction => pc[p] \in Transaction /\ arg'[p].uid = arg[p].uid
    BY <1>6 DEF ReadUser, Transaction, Lists, TypeOK
  <2>4. QED
    BY <2>1, <2>2, <2>3, QuietLocks DEF RowsOK
<1>7. ASSUME NEW p \in Requests, ReadProfile(p)
      PROVE  LockOK' /\ RowsOK'
  <2>1. OthersStay(p)
    BY <1>7, OneMoves DEF Begin, Continue
  <2>2. user' = user /\ profile' = profile /\ lock' = lock
    BY <1>7 DEF ReadProfile
  <2>3. pc'[p] \in Transaction => pc[p] \in Transaction /\ arg'[p].uid = arg[p].uid
    BY <1>7, Destinations DEF ReadProfile, Transaction, Lists, TypeOK
  <2>4. QED
    BY <2>1, <2>2, <2>3, QuietLocks DEF RowsOK
<1>8. ASSUME NEW p \in Requests, LockAndRecheck(p)
      PROVE  LockOK' /\ RowsOK'
  <2>1. OthersStay(p)
    BY <1>8, OneMoves DEF Begin, Continue
  <2>2. user' = user /\ profile' = profile /\ arg' = arg /\ arg[p].uid \in Users
    BY <1>8 DEF LockAndRecheck, ControlOK
  <2>3. CASE ActiveTraveler(Row(p)) /\ Take(p)
    BY <2>1, <2>2, <2>3, TakenLocks DEF RowsOK
  <2>4. CASE pc' = [pc EXCEPT ![p] = "session"] /\ lock' = lock
    <3>1. pc'[p] \notin Transaction
      BY <2>4 DEF TypeOK, Transaction, Lists
    <3>2. QED
      BY <2>1, <2>2, <2>4, <3>1, QuietLocks DEF RowsOK
  <2>5. QED
    BY <1>8, <2>3, <2>4 DEF LockAndRecheck
<1>9. ASSUME NEW p \in Requests, CheckList(p)
      PROVE  LockOK' /\ RowsOK'
  <2>1. OthersStay(p)
    BY <1>9, OneMoves DEF Begin, Continue
  <2>2. user' = user /\ profile' = profile /\ pc[p] \in Transaction
    BY <1>9 DEF CheckList, Transaction
  <2>3. arg'[p].uid = arg[p].uid
    BY <1>9 DEF CheckList, TypeOK, Argument
  <2>4. CASE lock' = lock
    BY <2>1, <2>2, <2>3, <2>4, QuietLocks DEF RowsOK
  <2>5. CASE pc' = [pc EXCEPT ![p] = "invalid"] /\ Release(p)
    <3>1. pc'[p] \notin Transaction
      BY <2>5 DEF TypeOK, Transaction, Lists
    <3>2. QED
      BY <2>1, <2>2, <2>5, <3>1, ReleasedLocks DEF RowsOK
  <2>6. QED
    BY <1>9, <2>4, <2>5 DEF CheckList
<1>10. ASSUME NEW p \in Requests, UpdateUser(p)
      PROVE  LockOK' /\ RowsOK'
  <2>1. OthersStay(p)
    BY <1>10, OneMoves DEF Begin, Continue
  <2>2. user' = user /\ profile' = profile /\ lock' = lock
    BY <1>10 DEF UpdateUser
  <2>3. pc'[p] \in Transaction => pc[p] \in Transaction /\ arg'[p].uid = arg[p].uid
    BY <1>10 DEF UpdateUser, Transaction, Lists, TypeOK
  <2>4. QED
    BY <2>1, <2>2, <2>3, QuietLocks DEF RowsOK
<1>11. ASSUME NEW p \in Requests, UpsertProfile(p)
      PROVE  LockOK' /\ RowsOK'
  <2>1. OthersStay(p)
    BY <1>11, OneMoves DEF Begin, Continue
  <2>2. user' = user /\ profile' = profile /\ pc[p] \in Transaction
    BY <1>11 DEF UpsertProfile, Transaction
  <2>3. arg'[p].uid = arg[p].uid
    BY <1>11 DEF UpsertProfile, TypeOK, Argument
  <2>4. CASE lock' = lock
    BY <2>1, <2>2, <2>3, <2>4, QuietLocks DEF RowsOK
  <2>5. CASE pc' = [pc EXCEPT ![p] = "invalid"] /\ Release(p)
    <3>1. pc'[p] \notin Transaction
      BY <2>5 DEF TypeOK, Transaction, Lists
    <3>2. QED
      BY <2>1, <2>2, <2>5, <3>1, ReleasedLocks DEF RowsOK
  <2>6. QED
    BY <1>11, <2>4, <2>5 DEF UpsertProfile
<1>12. ASSUME NEW p \in Requests, CommitForm(p)
      PROVE  LockOK' /\ RowsOK'
  <2>1. OthersStay(p)
    BY <1>12, OneMoves DEF Begin, Continue
  <2>2. /\ pc[p] \in Transaction /\ arg[p].uid \in Users
        /\ pc'[p] = "session" /\ Release(p)
    BY <1>12 DEF CommitForm, ControlOK, Transaction, TypeOK
  <2>3. pc'[p] \notin Transaction
    BY <2>2 DEF Transaction, Lists
  <2>4. \A u \in Users \ {arg[p].uid} : user'[u] = user[u]
    BY <1>12, SavedRows
  <2>5. LockOK'
    BY <2>1, <2>2, <2>3, <2>4, ReleasedLocks
  <2>6. profile'[arg[p].uid] = arg[p].input /\ \A u \in Users \ {arg[p].uid} : profile'[u] = profile[u]
    BY <1>12, <2>2 DEF CommitForm, TypeOK
  <2>7. user[arg[p].uid].status = "ACTIVE"
    BY <2>2 DEF LockOK, Row, ActiveTraveler
  <2>8. RowsOK'
    BY <1>12, <2>4, <2>6, <2>7, SavedRows DEF RowsOK
  <2>9. QED
    BY <2>5, <2>8
<1>13. ASSUME NEW p \in Requests, LockForDeletion(p)
      PROVE  LockOK' /\ RowsOK'
  <2>1. OthersStay(p)
    BY <1>13, OneMoves DEF Begin, Continue
  <2>2. user' = user /\ profile' = profile /\ arg' = arg /\ arg[p].uid \in Users
    BY <1>13 DEF LockForDeletion, ControlOK
  <2>3. CASE ActiveTraveler(Row(p)) /\ Take(p)
    BY <2>1, <2>2, <2>3, TakenLocks DEF RowsOK
  <2>4. CASE pc' = [pc EXCEPT ![p] = "not-deleted"] /\ lock' = lock
    <3>1. pc'[p] \notin Transaction
      BY <2>4 DEF TypeOK, Transaction, Lists
    <3>2. QED
      BY <2>1, <2>2, <2>4, <3>1, QuietLocks DEF RowsOK
  <2>5. QED
    BY <1>13, <2>3, <2>4 DEF LockForDeletion
<1>14. ASSUME NEW p \in Requests, Anonymize(p)
      PROVE  LockOK' /\ RowsOK'
  <2>1. OthersStay(p)
    BY <1>14, OneMoves DEF Begin, Continue
  <2>2. /\ pc[p] \in Transaction /\ arg[p].uid \in Users
        /\ pc'[p] = "deleted" /\ Release(p)
    BY <1>14 DEF Anonymize, ControlOK, Transaction, TypeOK
  <2>3. pc'[p] \notin Transaction
    BY <2>2 DEF Transaction, Lists
  <2>4. \A u \in Users \ {arg[p].uid} : user'[u] = user[u]
    BY <1>14, AnonymizedRows
  <2>5. LockOK'
    BY <2>1, <2>2, <2>3, <2>4, ReleasedLocks
  <2>6. profile'[arg[p].uid] = None /\ \A u \in Users \ {arg[p].uid} : profile'[u] = profile[u]
    BY <1>14, <2>2 DEF Anonymize, TypeOK
  <2>7. user'[arg[p].uid].status = "DELETED" /\ user'[arg[p].uid].basics = None
    BY <1>14, AnonymizedRows
  <2>8. RowsOK'
    BY <1>14, <2>4, <2>6, <2>7, AnonymizedRows DEF RowsOK
  <2>9. QED
    BY <2>5, <2>8
<1>15. ASSUME NEW p \in Requests, Abort(p)
      PROVE  LockOK' /\ RowsOK'
  <2>1. OthersStay(p)
    BY <1>15, OneMoves DEF Begin, Continue
  <2>2. user' = user /\ profile' = profile /\ Release(p) /\ pc'[p] = "error"
    BY <1>15 DEF Abort, TypeOK
  <2>3. pc'[p] \notin Transaction
    BY <2>2 DEF Transaction, Lists
  <2>4. QED
    BY <2>1, <2>2, <2>3, ReleasedLocks DEF RowsOK
<1>16. ASSUME NEW u \in Users, Moderate(u)
      PROVE  LockOK' /\ RowsOK'
  <2>1. lock[u] = None /\ UNCHANGED <<profile, lock, pc, arg>>
    BY <1>16 DEF Moderate
  <2>2. ASSUME NEW p \in Requests, pc[p] \in Transaction
        PROVE  user'[arg[p].uid] = user[arg[p].uid]
    <3>1. arg[p].uid \in Users /\ lock[arg[p].uid] = p
      BY <2>2 DEF ControlOK, LockOK
    <3>2. arg[p].uid # u
      BY <2>1, <3>1, CatalogueAssumption
    <3>3. QED
      BY <1>16, <3>1, <3>2, ModeratedRows
  <2>3. LockOK'
    BY <2>1, <2>2 DEF LockOK, Row, ActiveTraveler
  <2>4. RowsOK'
    BY <1>16, <2>1, ModeratedRows DEF RowsOK
  <2>5. QED
    BY <2>3, <2>4
<1>17. ASSUME NEW entry \in Entries, Switch(entry)
      PROVE  LockOK' /\ RowsOK'
  BY <1>17 DEF Switch, LockOK, RowsOK, Row, ActiveTraveler
<1>18. CASE UNCHANGED vars
  BY <1>18 DEF vars, LockOK, RowsOK, Row, ActiveTraveler
<1>19. QED
  BY <1>1, <1>2, <1>3, <1>4, <1>5, <1>6, <1>7, <1>8, <1>9, <1>10, <1>11, <1>12, <1>13,
    <1>14, <1>15, <1>16, <1>17, <1>18 DEF Next, Begin, Continue, Served

\* A transaction holds the lock of its account, active and a traveler, to its
\* end; the two rows of an account never differ.
THEOREM Consistency == Spec => []Consistent
<1>1. Init => LockOK /\ RowsOK
  BY ConsistentInit
<1>2. TypeOK /\ ControlOK /\ LockOK /\ RowsOK /\ [Next]_vars => LockOK' /\ RowsOK'
  BY ConsistentStep DEF Consistent
<1>3. QED
  BY <1>1, <1>2, Typing, PTL DEF Spec, Consistent

-------------------------------------------------------------------------------
(* What a step does to the rows                                            *)

\* The rows of an account change by its deletion, by the commit of a form or
\* not at all, and those of a tombstone never.
RowStep(u) ==
  /\ user'[u].role = user[u].role
  /\ user[u].status = "DELETED" => user'[u] = user[u] /\ profile'[u] = profile[u]
  /\ \/ user'[u].status = "DELETED"
     \/ user'[u].basics = user[u].basics /\ profile'[u] = profile[u]
     \/ \E p \in Requests :
          /\ CommitForm(p) /\ arg[p].uid = u
          /\ user'[u].basics = arg[p].input /\ profile'[u] = arg[p].input

\* Only three actions write rows.
LEMMA ThreeWriters ==
  ASSUME [Next]_vars
  PROVE  \/ rows' = rows
         \/ \E p \in Requests : CommitForm(p) \/ Anonymize(p)
         \/ \E u \in Users : Moderate(u)
<1> USE DEF rows
<1>1. ASSUME NEW p \in Requests, Begin(p) \/ Continue(p) \/ Abort(p)
      PROVE  rows' = rows \/ CommitForm(p) \/ Anonymize(p)
  BY <1>1 DEF Begin, Continue, SubmitUnparsable, Visit, Submit, Delete, ReadSession,
    ReadUser, ReadProfile, LockAndRecheck, CheckList, UpdateUser, UpsertProfile,
    LockForDeletion, Abort
<1>2. ASSUME NEW entry \in Entries, Switch(entry)
      PROVE  rows' = rows
  BY <1>2 DEF Switch
<1>3. QED
  BY <1>1, <1>2 DEF Next, Served, vars

\* Every step is such a step.
LEMMA RowsStep ==
  ASSUME Consistent, [Next]_vars, NEW v \in Users
  PROVE  RowStep(v)
<1> USE DEF rows
<1>1. ASSUME NEW p \in Requests, CommitForm(p)
      PROVE  RowStep(v)
  <2>1. /\ pc[p] \in Transaction /\ arg[p].uid \in Users
        /\ user[arg[p].uid].status = "ACTIVE"
    BY <1>1 DEF CommitForm, Goto, Transaction, Consistent, ControlOK, LockOK, Row,
      ActiveTraveler
  <2>2. profile'[arg[p].uid] = arg[p].input /\ \A u \in Users \ {arg[p].uid} : profile'[u] = profile[u]
    BY <1>1, <2>1 DEF CommitForm, Consistent, TypeOK
  <2>3. CASE v = arg[p].uid
    BY <1>1, <2>1, <2>2, <2>3, SavedRows DEF RowStep, Consistent
  <2>4. CASE v # arg[p].uid
    BY <1>1, <2>2, <2>4, SavedRows DEF RowStep, Consistent
  <2>5. QED
    BY <2>3, <2>4
<1>2. ASSUME NEW p \in Requests, Anonymize(p)
      PROVE  RowStep(v)
  <2>1. /\ pc[p] \in Transaction /\ arg[p].uid \in Users
        /\ user[arg[p].uid].status = "ACTIVE"
    BY <1>2 DEF Anonymize, Goto, Transaction, Consistent, ControlOK, LockOK, Row,
      ActiveTraveler
  <2>2. \A u \in Users \ {arg[p].uid} : profile'[u] = profile[u]
    BY <1>2, <2>1 DEF Anonymize, Consistent, TypeOK
  <2>3. QED
    BY <1>2, <2>1, <2>2, AnonymizedRows DEF RowStep, Consistent
<1>3. ASSUME NEW u \in Users, Moderate(u)
      PROVE  RowStep(v)
  BY <1>3, ModeratedRows DEF RowStep, Consistent, Moderate
<1>4. ASSUME rows' = rows
      PROVE  RowStep(v)
  BY <1>4 DEF RowStep
<1>5. QED
  BY <1>1, <1>2, <1>3, <1>4, ThreeWriters

\* Only the commit of its form makes a request say it saved it.
LEMMA OnlyCommitSaves ==
  ASSUME TypeOK, [Next]_vars, NEW p \in Requests, arg'[p].saved, ~ arg[p].saved
  PROVE  CommitForm(p)
<1> USE DEF TypeOK, Goto, Argument
<1>1. ASSUME NEW q \in Requests, SubmitUnparsable(q)
      PROVE  CommitForm(p)
  BY <1>1 DEF SubmitUnparsable
<1>2. ASSUME NEW q \in Requests, NEW u \in Users, NEW page \in {"post-login",
             "onboarding"}, Visit(q, u, page)
      PROVE  CommitForm(p)
  BY <1>2 DEF Visit
<1>3. ASSUME NEW q \in Requests, NEW u \in Users, NEW input \in Inputs, Submit(q, u,
             input)
      PROVE  CommitForm(p)
  BY <1>3 DEF Submit
<1>4. ASSUME NEW q \in Requests, NEW u \in Users, Delete(q, u)
      PROVE  CommitForm(p)
  BY <1>4 DEF Delete
<1>5. ASSUME NEW q \in Requests, ReadSession(q)
      PROVE  CommitForm(p)
  BY <1>5 DEF ReadSession
<1>6. ASSUME NEW q \in Requests, ReadUser(q)
      PROVE  CommitForm(p)
  BY <1>6 DEF ReadUser
<1>7. ASSUME NEW q \in Requests, ReadProfile(q)
      PROVE  CommitForm(p)
  <2>1. /\ [arg[q] EXCEPT !.page = "onboarding", !.seen = None].saved = arg[q].saved
        /\ [arg[q] EXCEPT !.seen = None].saved = arg[q].saved
    OBVIOUS
  <2>2. PICK r : r.saved = arg[q].saved /\ arg' = [arg EXCEPT ![q] = r]
    BY <1>7, <2>1 DEF ReadProfile
  <2>3. QED
    BY <2>2
<1>8. ASSUME NEW q \in Requests, LockAndRecheck(q)
      PROVE  CommitForm(p)
  BY <1>8 DEF LockAndRecheck
<1>9. ASSUME NEW q \in Requests, CheckList(q)
      PROVE  CommitForm(p)
  <2>1. PICK r : r = [arg[q] EXCEPT !.errors =
          arg[q].errors \/ ~ (arg[q].input[pc[q]] \subseteq Offered(pc[q], active))]
    OBVIOUS
  <2>2. arg' = [arg EXCEPT ![q] = r] /\ r.saved = arg[q].saved
    BY <1>9, <2>1 DEF CheckList
  <2>3. QED
    BY <2>2
<1>10. ASSUME NEW q \in Requests, UpdateUser(q)
      PROVE  CommitForm(p)
  BY <1>10 DEF UpdateUser
<1>11. ASSUME NEW q \in Requests, UpsertProfile(q)
      PROVE  CommitForm(p)
  BY <1>11 DEF UpsertProfile
<1>12. ASSUME NEW q \in Requests, CommitForm(q)
      PROVE  CommitForm(p)
  BY <1>12 DEF CommitForm
<1>13. ASSUME NEW q \in Requests, LockForDeletion(q)
      PROVE  CommitForm(p)
  BY <1>13 DEF LockForDeletion
<1>14. ASSUME NEW q \in Requests, Anonymize(q)
      PROVE  CommitForm(p)
  BY <1>14 DEF Anonymize
<1>15. ASSUME NEW q \in Requests, Abort(q)
      PROVE  CommitForm(p)
  BY <1>15 DEF Abort
<1>16. ASSUME NEW u \in Users, Moderate(u)
      PROVE  CommitForm(p)
  BY <1>16 DEF Moderate
<1>17. ASSUME NEW entry \in Entries, Switch(entry)
      PROVE  CommitForm(p)
  BY <1>17 DEF Switch
<1>18. CASE UNCHANGED vars
  BY <1>18 DEF vars
<1>19. QED
  BY <1>1, <1>2, <1>3, <1>4, <1>5, <1>6, <1>7, <1>8, <1>9, <1>10, <1>11, <1>12, <1>13,
    <1>14, <1>15, <1>16, <1>17, <1>18 DEF Next, Begin, Continue, Served

\* The rows of every account change as the answers to its requests say.
THEOREM AnswersTell == Spec => AnswersTellTheRecord
<1>1. Consistent /\ [Next]_vars => AnswerTellsTheRecord
  <2> SUFFICES ASSUME Consistent, [Next]_vars, NEW u \in Users
               PROVE  /\ \A p \in Savers(u) :
                           user'[u].basics = arg[p].input /\ profile'[u] = arg[p].input
                      /\ Savers(u) = {} /\ user'[u].status # "DELETED" =>
                           user'[u].basics = user[u].basics /\ profile'[u] = profile[u]
    BY DEF AnswerTellsTheRecord
  <2>1. ASSUME NEW p \in Savers(u)
        PROVE  user'[u].basics = arg[p].input /\ profile'[u] = arg[p].input
    <3>1. p \in Requests /\ arg[p].uid = u /\ CommitForm(p)
      BY OnlyCommitSaves DEF Savers, Consistent
    <3>2. profile' = [profile EXCEPT ![u] = arg[p].input]
      BY <3>1 DEF CommitForm
    <3>3. QED
      BY <3>1, <3>2, SavedRows DEF Consistent, TypeOK
  <2>2. ASSUME Savers(u) = {}, user'[u].status # "DELETED"
        PROVE  user'[u].basics = user[u].basics /\ profile'[u] = profile[u]
    <3>1. ASSUME NEW p \in Requests, CommitForm(p), arg[p].uid = u
          PROVE  FALSE
      <4>1. ~ arg[p].saved
        BY <3>1 DEF CommitForm, Goto, Consistent, ControlOK, Reading, Answers
      <4>2. arg' = [arg EXCEPT ![p] = [@ EXCEPT !.saved = TRUE]]
        BY <3>1 DEF CommitForm
      <4>3. arg'[p].saved
        BY <4>2 DEF Consistent, TypeOK, Argument
      <4>4. QED
        BY <2>2, <3>1, <4>1, <4>3 DEF Savers
    <3>2. QED
      BY <2>2, <3>1, RowsStep DEF RowStep
  <2>3. QED
    BY <2>1, <2>2
<1>2. QED
  BY <1>1, Consistency, PTL DEF Spec, AnswersTellTheRecord

-------------------------------------------------------------------------------
(* What a form may name                                                    *)

Named(p, list) == arg[p].input[list] \subseteq Offered(list, live[p])

\* live holds what is on during the transaction of a submit, and each list that
\* was read without an error named only such entries.
OfferOK(p) ==
  /\ pc[p] \in Submitting => active \subseteq live[p]
  /\ pc[p] \in {"preferredCities", "preferredCountries"} /\ ~ arg[p].errors =>
       Named(p, "travelPurposes")
  /\ pc[p] = "preferredCountries" /\ ~ arg[p].errors => Named(p, "preferredCities")
  /\ pc[p] \in {"update", "upsert", "commit"} \/ arg[p].saved =>
       \A list \in Lists : Named(p, list)

OffersOK == \A p \in Requests : OfferOK(p)

\* What is offered grows with what is on.
LEMMA OfferedGrows ==
  ASSUME NEW list \in Lists, NEW on, NEW more, on \subseteq more
  PROVE  Offered(list, on) \subseteq Offered(list, more)
<1>1. CASE list = "travelPurposes"
  BY <1>1 DEF Offered
<1>2. CASE list = "preferredCities"
  BY <1>2 DEF Offered
<1>3. CASE list = "preferredCountries"
  BY <1>3 DEF Offered
<1>4. QED
  BY <1>1, <1>2, <1>3 DEF Lists

\* A request at rest keeps what holds of it when others move.
LEMMA OfferStays ==
  ASSUME NEW q \in Requests, OfferOK(q), pc'[q] = pc[q], arg'[q] = arg[q],
         live'[q] = live[q], active' = active
  PROVE  OfferOK(q)'
BY DEF OfferOK, Named

\* So does one that moves outside of a submit's transaction.
LEMMA QuietOffer ==
  ASSUME NEW p \in Requests, OfferOK(p), pc'[p] \notin Submitting,
         arg'[p].input = arg[p].input, arg'[p].saved = arg[p].saved,
         live'[p] = live[p], active' = active
  PROVE  OfferOK(p)'
BY DEF OfferOK, Named, Submitting, Lists

\* What the reading of the second row does to its request.
LEMMA ProfileRead ==
  ASSUME TypeOK, ControlOK, NEW p \in Requests, ReadProfile(p)
  PROVE  /\ pc[p] = "profile" /\ pc'[p] \in {"session", "form", "home", "login"}
         /\ arg'[p].uid = arg[p].uid /\ arg'[p].input = arg[p].input
         /\ arg'[p].saved = arg[p].saved
         /\ pc'[p] = "session" =>
              Destination(arg[p].seen, profile[arg[p].uid]) = "onboarding"
         /\ pc'[p] = "form" => arg[p].page = "onboarding"
         /\ pc'[p] = "home" => Destination(arg[p].seen, profile[arg[p].uid]) = "home"
         /\ pc'[p] # "session" => arg'[p].page = arg[p].page
<1>1. arg[p] \in Argument /\ pc[p] = "profile"
  BY DEF TypeOK, ReadProfile
<1>2. PICK page : page = "onboarding"
  OBVIOUS
<1>3. PICK r : r = [arg[p] EXCEPT !.page = page, !.seen = None]
  OBVIOUS
<1>4. PICK s : s = [arg[p] EXCEPT !.seen = None]
  OBVIOUS
<1>5. r.uid = arg[p].uid /\ r.input = arg[p].input /\ r.saved = arg[p].saved
  BY <1>1, <1>3 DEF Argument
<1>6. /\ s.uid = arg[p].uid /\ s.input = arg[p].input /\ s.saved = arg[p].saved
      /\ s.page = arg[p].page
  BY <1>1, <1>4 DEF Argument
<1>7. PICK to : to = Destination(arg[p].seen, profile[arg[p].uid])
  OBVIOUS
<1>8. \/ /\ to = "onboarding" /\ arg[p].page = "post-login"
         /\ pc' = [pc EXCEPT ![p] = "session"] /\ arg' = [arg EXCEPT ![p] = r]
      \/ /\ to = "onboarding" /\ arg[p].page = "onboarding"
         /\ pc' = [pc EXCEPT ![p] = "form"] /\ arg' = [arg EXCEPT ![p] = s]
      \/ /\ to # "onboarding"
         /\ pc' = [pc EXCEPT ![p] = to] /\ arg' = [arg EXCEPT ![p] = s]
  BY <1>2, <1>3, <1>4, <1>7 DEF ReadProfile
<1>9. to \in {"login", "onboarding", "home"}
  BY <1>7, Destinations
<1>10. QED
  BY <1>1, <1>5, <1>6, <1>7, <1>8, <1>9 DEF TypeOK

\* Every step keeps the offers in order.
LEMMA OffersStep ==
  ASSUME Consistent, OffersOK, [Next]_vars
  PROVE  OffersOK'
<1> USE DEF Consistent, Goto
<1>1. ASSUME NEW p \in Requests, SubmitUnparsable(p)
      PROVE  OffersOK'
  <2>1. OthersStay(p)
    BY <1>1, OneMoves DEF Begin, Continue
  <2>2. live' = live /\ active' = active
    BY <1>1 DEF SubmitUnparsable
  <2>3. /\ pc'[p] \notin Submitting
        /\ arg'[p].input = arg[p].input /\ arg'[p].saved = arg[p].saved
    BY <1>1 DEF SubmitUnparsable, TypeOK, Argument, Submitting, Lists
  <2>4. QED
    BY <2>1, <2>2, <2>3, QuietOffer, OfferStays DEF OffersOK, OthersStay
<1>2. ASSUME NEW p \in Requests, NEW u \in Users, NEW page \in {"post-login",
             "onboarding"}, Visit(p, u, page)
      PROVE  OffersOK'
  <2>1. OthersStay(p)
    BY <1>2, OneMoves DEF Begin, Continue
  <2>2. live' = live /\ active' = active
    BY <1>2 DEF Visit
  <2>3. /\ pc'[p] \notin Submitting
        /\ arg'[p].input = arg[p].input /\ arg'[p].saved = arg[p].saved
    BY <1>2 DEF Visit, TypeOK, Argument, Submitting, Lists
  <2>4. QED
    BY <2>1, <2>2, <2>3, QuietOffer, OfferStays DEF OffersOK, OthersStay
<1>3. ASSUME NEW p \in Requests, NEW u \in Users, NEW input \in Inputs, Submit(p, u,
             input)
      PROVE  OffersOK'
  <2>1. OthersStay(p)
    BY <1>3, OneMoves DEF Begin, Continue
  <2>2. live' = live /\ active' = active
    BY <1>3 DEF Submit
  <2>3. pc[p] = "idle" /\ pc'[p] \in {"lock", "login"}
    BY <1>3 DEF Submit, TypeOK
  <2>4. ~ arg[p].saved /\ arg'[p].saved = arg[p].saved
    BY <1>3, <2>3 DEF Submit, TypeOK, Argument, ControlOK, Reading, Answers
  <2>5. OfferOK(p)'
    BY <2>3, <2>4 DEF OfferOK, Submitting, Lists
  <2>6. QED
    BY <2>1, <2>2, <2>5, OfferStays DEF OffersOK, OthersStay
<1>4. ASSUME NEW p \in Requests, NEW u \in Users, Delete(p, u)
      PROVE  OffersOK'
  <2>1. OthersStay(p)
    BY <1>4, OneMoves DEF Begin, Continue
  <2>2. live' = live /\ active' = active
    BY <1>4 DEF Delete
  <2>3. /\ pc'[p] \notin Submitting
        /\ arg'[p].input = arg[p].input /\ arg'[p].saved = arg[p].saved
    BY <1>4 DEF Delete, TypeOK, Argument, Submitting, Lists
  <2>4. QED
    BY <2>1, <2>2, <2>3, QuietOffer, OfferStays DEF OffersOK, OthersStay
<1>5. ASSUME NEW p \in Requests, ReadSession(p)
      PROVE  OffersOK'
  <2>1. OthersStay(p)
    BY <1>5, OneMoves DEF Begin, Continue
  <2>2. live' = live /\ active' = active
    BY <1>5 DEF ReadSession
  <2>3. /\ pc'[p] \notin Submitting
        /\ arg'[p].input = arg[p].input /\ arg'[p].saved = arg[p].saved
    BY <1>5 DEF ReadSession, TypeOK, Argument, Submitting, Lists
  <2>4. QED
    BY <2>1, <2>2, <2>3, QuietOffer, OfferStays DEF OffersOK, OthersStay
<1>6. ASSUME NEW p \in Requests, ReadUser(p)
      PROVE  OffersOK'
  <2>1. OthersStay(p)
    BY <1>6, OneMoves DEF Begin, Continue
  <2>2. live' = live /\ active' = active
    BY <1>6 DEF ReadUser
  <2>3. /\ pc'[p] \notin Submitting
        /\ arg'[p].input = arg[p].input /\ arg'[p].saved = arg[p].saved
    BY <1>6 DEF ReadUser, TypeOK, Argument, Submitting, Lists
  <2>4. QED
    BY <2>1, <2>2, <2>3, QuietOffer, OfferStays DEF OffersOK, OthersStay
<1>7. ASSUME NEW p \in Requests, ReadProfile(p)
      PROVE  OffersOK'
  <2>1. OthersStay(p)
    BY <1>7, OneMoves DEF Begin, Continue
  <2>2. live' = live /\ active' = active
    BY <1>7 DEF ReadProfile
  <2>3. /\ pc'[p] \notin Submitting
        /\ arg'[p].input = arg[p].input /\ arg'[p].saved = arg[p].saved
    BY <1>7, ProfileRead DEF Submitting, Lists
  <2>4. QED
    BY <2>1, <2>2, <2>3, QuietOffer, OfferStays DEF OffersOK, OthersStay
<1>8. ASSUME NEW p \in Requests, LockAndRecheck(p)
      PROVE  OffersOK'
  <2>1. OthersStay(p)
    BY <1>8, OneMoves DEF Begin, Continue
  <2>2. pc[p] = "lock" /\ arg' = arg /\ active' = active /\ ~ arg[p].saved
    BY <1>8 DEF LockAndRecheck, ControlOK, Reading, Answers
  <2>3. /\ \A q \in Requests \ {p} : live'[q] = live[q]
        /\ \/ pc'[p] = "travelPurposes" /\ live'[p] = active
           \/ pc'[p] = "session" /\ live'[p] = live[p]
    BY <1>8 DEF LockAndRecheck, TypeOK
  <2>4. OfferOK(p)'
    BY <2>2, <2>3 DEF OfferOK, Submitting, Lists
  <2>5. QED
    BY <2>1, <2>2, <2>3, <2>4, OfferStays DEF OffersOK, OthersStay
<1>9. ASSUME NEW p \in Requests, CheckList(p)
      PROVE  OffersOK'
  <2>1. OthersStay(p)
    BY <1>9, OneMoves DEF Begin, Continue
  <2>2. PICK list : list = pc[p]
    OBVIOUS
  <2>3. PICK errors :
        errors = (arg[p].errors \/ ~ (arg[p].input[list] \subseteq Offered(list, active)))
    OBVIOUS
  <2>4. /\ list \in Lists /\ live' = live /\ active' = active
        /\ arg' = [arg EXCEPT ![p] = [@ EXCEPT !.errors = errors]]
        /\ \/ pc' = [pc EXCEPT ![p] = "invalid"]
           \/ ~ (After(list) = "update" /\ errors) /\ pc' = [pc EXCEPT ![p] = After(list)]
    BY <1>9, <2>2, <2>3 DEF CheckList
  <2>5. /\ arg'[p].input = arg[p].input /\ arg'[p].saved = arg[p].saved
        /\ arg'[p].errors = errors
    BY <2>4 DEF TypeOK, Argument
  <2>6. ~ arg[p].saved /\ active \subseteq live[p]
    BY <2>2, <2>4 DEF ControlOK, Reading, Answers, Lists, OffersOK, OfferOK, Submitting
  <2>7. ~ errors => ~ arg[p].errors /\ Named(p, list)
    BY <2>3, <2>4, <2>6, OfferedGrows DEF Named
  <2>8. ~ errors => Named(p, list)'
    BY <2>4, <2>5, <2>7 DEF Named
  <2>9. \A l \in Lists : Named(p, l)' = Named(p, l)
    BY <2>4, <2>5 DEF Named
  <2>10. ASSUME pc' = [pc EXCEPT ![p] = "invalid"]
         PROVE  OfferOK(p)'
    <3>1. pc'[p] = "invalid" /\ ~ arg'[p].saved
      BY <2>5, <2>6, <2>10 DEF TypeOK
    <3>2. QED
      BY <3>1 DEF OfferOK, Submitting, Lists
  <2>11. ASSUME ~ (After(list) = "update" /\ errors),
                pc' = [pc EXCEPT ![p] = After(list)]
         PROVE  OfferOK(p)'
    <3>1. pc'[p] = After(list) /\ (pc'[p] = "update" => ~ errors) /\ ~ arg'[p].saved
      BY <2>5, <2>6, <2>11 DEF TypeOK
    <3>2. active' \subseteq live'[p]
      BY <2>4, <2>6
    <3>3. CASE list = "travelPurposes"
      <4>1. pc'[p] = "preferredCities"
        BY <3>1, <3>3 DEF After
      <4>2. QED
        BY <2>5, <2>8, <3>1, <3>2, <3>3, <4>1 DEF OfferOK
    <3>4. CASE list = "preferredCities"
      <4>1. ~ errors => Named(p, "travelPurposes")
        BY <2>2, <2>7, <3>4 DEF OffersOK, OfferOK
      <4>2. ~ errors => Named(p, "travelPurposes")'
        BY <2>9, <4>1 DEF Lists
      <4>3. pc'[p] = "preferredCountries"
        BY <3>1, <3>4 DEF After
      <4>4. QED
        BY <2>5, <2>8, <3>1, <3>2, <3>4, <4>2, <4>3 DEF OfferOK
    <3>5. CASE list = "preferredCountries"
      <4>1. ~ errors => Named(p, "travelPurposes") /\ Named(p, "preferredCities")
        BY <2>2, <2>7, <3>5 DEF OffersOK, OfferOK
      <4>2. ~ errors => Named(p, "travelPurposes")' /\ Named(p, "preferredCities")'
        BY <2>9, <4>1 DEF Lists
      <4>3. pc'[p] = "update"
        BY <3>1, <3>5 DEF After
      <4>4. QED
        BY <2>8, <3>1, <3>2, <3>5, <4>2, <4>3 DEF OfferOK, Lists
    <3>6. QED
      BY <2>4, <3>3, <3>4, <3>5 DEF Lists
  <2>12. QED
    BY <2>1, <2>4, <2>10, <2>11, OfferStays DEF OffersOK, OthersStay
<1>10. ASSUME NEW p \in Requests, UpdateUser(p)
      PROVE  OffersOK'
  <2>1. OthersStay(p)
    BY <1>10, OneMoves DEF Begin, Continue
  <2>2. /\ live' = live /\ active' = active /\ arg'[p].input = arg[p].input
        /\ pc[p] = "update" /\ pc'[p] \in {"upsert"}
    BY <1>10 DEF UpdateUser, TypeOK, Argument
  <2>3. OfferOK(p)'
    BY <2>2 DEF OffersOK, OfferOK, Named, Submitting, Lists
  <2>4. QED
    BY <2>1, <2>2, <2>3, OfferStays DEF OffersOK, OthersStay
<1>11. ASSUME NEW p \in Requests, UpsertProfile(p)
      PROVE  OffersOK'
  <2>1. OthersStay(p)
    BY <1>11, OneMoves DEF Begin, Continue
  <2>2. /\ live' = live /\ active' = active /\ arg'[p].input = arg[p].input
        /\ pc[p] = "upsert" /\ pc'[p] \in {"commit", "invalid"}
    BY <1>11 DEF UpsertProfile, TypeOK, Argument
  <2>3. OfferOK(p)'
    BY <2>2 DEF OffersOK, OfferOK, Named, Submitting, Lists
  <2>4. QED
    BY <2>1, <2>2, <2>3, OfferStays DEF OffersOK, OthersStay
<1>12. ASSUME NEW p \in Requests, CommitForm(p)
      PROVE  OffersOK'
  <2>1. OthersStay(p)
    BY <1>12, OneMoves DEF Begin, Continue
  <2>2. /\ live' = live /\ active' = active /\ arg'[p].input = arg[p].input
        /\ pc[p] = "commit" /\ pc'[p] \in {"session"}
    BY <1>12 DEF CommitForm, TypeOK, Argument
  <2>3. OfferOK(p)'
    BY <2>2 DEF OffersOK, OfferOK, Named, Submitting, Lists
  <2>4. QED
    BY <2>1, <2>2, <2>3, OfferStays DEF OffersOK, OthersStay
<1>13. ASSUME NEW p \in Requests, LockForDeletion(p)
      PROVE  OffersOK'
  <2>1. OthersStay(p)
    BY <1>13, OneMoves DEF Begin, Continue
  <2>2. live' = live /\ active' = active
    BY <1>13 DEF LockForDeletion
  <2>3. /\ pc'[p] \notin Submitting
        /\ arg'[p].input = arg[p].input /\ arg'[p].saved = arg[p].saved
    BY <1>13 DEF LockForDeletion, TypeOK, Argument, Submitting, Lists
  <2>4. QED
    BY <2>1, <2>2, <2>3, QuietOffer, OfferStays DEF OffersOK, OthersStay
<1>14. ASSUME NEW p \in Requests, Anonymize(p)
      PROVE  OffersOK'
  <2>1. OthersStay(p)
    BY <1>14, OneMoves DEF Begin, Continue
  <2>2. live' = live /\ active' = active
    BY <1>14 DEF Anonymize
  <2>3. /\ pc'[p] \notin Submitting
        /\ arg'[p].input = arg[p].input /\ arg'[p].saved = arg[p].saved
    BY <1>14 DEF Anonymize, TypeOK, Argument, Submitting, Lists
  <2>4. QED
    BY <2>1, <2>2, <2>3, QuietOffer, OfferStays DEF OffersOK, OthersStay
<1>15. ASSUME NEW p \in Requests, Abort(p)
      PROVE  OffersOK'
  <2>1. OthersStay(p)
    BY <1>15, OneMoves DEF Begin, Continue
  <2>2. live' = live /\ active' = active
    BY <1>15 DEF Abort
  <2>3. /\ pc'[p] \notin Submitting
        /\ arg'[p].input = arg[p].input /\ arg'[p].saved = arg[p].saved
    BY <1>15 DEF Abort, TypeOK, Argument, Submitting, Lists
  <2>4. QED
    BY <2>1, <2>2, <2>3, QuietOffer, OfferStays DEF OffersOK, OthersStay
<1>16. ASSUME NEW u \in Users, Moderate(u)
      PROVE  OffersOK'
  BY <1>16 DEF Moderate, OffersOK, OfferOK, Named
<1>17. ASSUME NEW entry \in Entries, Switch(entry)
      PROVE  OffersOK'
  <2>1. UNCHANGED <<pc, arg>>
    BY <1>17 DEF Switch
  <2>2. ASSUME NEW q \in Requests
        PROVE  OfferOK(q)'
    <3>1. /\ live[q] \subseteq live'[q]
          /\ pc[q] \in Submitting => active' \subseteq live'[q]
      BY <1>17 DEF Switch, Submitting, Transaction
    <3>2. \A list \in Lists : Named(q, list) => Named(q, list)'
      BY <2>1, <3>1, OfferedGrows DEF Named
    <3>3. QED
      BY <2>1, <3>1, <3>2 DEF OffersOK, OfferOK, Lists
  <2>3. QED
    BY <2>2 DEF OffersOK
<1>18. CASE UNCHANGED vars
  BY <1>18 DEF vars, OffersOK, OfferOK, Named
<1>19. QED
  BY <1>1, <1>2, <1>3, <1>4, <1>5, <1>6, <1>7, <1>8, <1>9, <1>10, <1>11, <1>12, <1>13,
    <1>14, <1>15, <1>16, <1>17, <1>18 DEF Next, Begin, Continue, Served

\* Whatever was switched off meanwhile, a saved form names nothing that was off
\* during the whole of its transaction.
THEOREM SavedOffered == Spec => []SavedWasOffered
<1>1. Init => OffersOK
  <2> SUFFICES ASSUME Init, NEW p \in Requests PROVE OfferOK(p)
    BY DEF OffersOK
  <2>1. pc[p] = "idle" /\ ~ arg[p].saved
    BY DEF Init
  <2>2. QED
    BY <2>1 DEF OfferOK, Submitting, Lists
<1>2. Consistent /\ OffersOK /\ [Next]_vars => OffersOK'
  BY OffersStep
<1>3. OffersOK => SavedWasOffered
  BY DEF OffersOK, OfferOK, Named, SavedWasOffered
<1>4. QED
  BY <1>1, <1>2, <1>3, Consistency, PTL DEF Spec

-------------------------------------------------------------------------------
(* Who is shown the form                                                   *)

\* A request visits no page before its transaction, commits only what makes the
\* account complete, and finds the account complete from then on or deleted;
\* it is sent to the form only if deleted, and then ends at the session.
VisitOK(p) ==
  /\ pc[p] \in {"idle", "lock"} \cup Submitting => arg[p].page = "post-login"
  /\ pc[p] = "commit" => Complete(arg[p].input, arg[p].input)
  /\ pc[p] = "profile" =>
       /\ arg[p].seen.role = Row(p).role
       /\ arg[p].seen.basics # None => Row(p).status = "DELETED" \/ Row(p).basics # None
  /\ arg[p].saved =>
       /\ Row(p).status = "DELETED" \/ Complete(Row(p).basics, profile[arg[p].uid])
       /\ pc[p] = "profile" /\ ActiveTraveler(arg[p].seen) => arg[p].seen.basics # None
       /\ arg[p].page = "onboarding" =>
            /\ Row(p).status = "DELETED"
            /\ pc[p] \notin {"user", "profile", "form"}

VisitsOK == \A p \in Requests : VisitOK(p)

\* Whatever becomes of the rows, a request at rest keeps what holds of it.
LEMMA VisitStays ==
  ASSUME Consistent, VisitsOK, [Next]_vars, NEW q \in Requests,
         pc'[q] = pc[q], arg'[q] = arg[q]
  PROVE  VisitOK(q)'
<1>1. VisitOK(q)
  BY DEF VisitsOK
<1>2. arg[q].saved \/ pc[q] = "profile" => arg[q].uid \in Users
  BY DEF Consistent, ControlOK, Reading
<1>3. arg[q].uid \in Users => RowStep(arg[q].uid)
  BY RowsStep
<1>4. ASSUME NEW p \in Requests, CommitForm(p)
      PROVE  Complete(arg[p].input, arg[p].input) /\ arg[p].input # None
  BY <1>4, CatalogueAssumption DEF VisitsOK, VisitOK, CommitForm, Goto, Complete
<1>5. ASSUME arg[q].saved
      PROVE  Row(q)'.status = "DELETED" \/ Complete(Row(q)'.basics, profile'[arg'[q].uid])
  <2>1. Row(q).status = "DELETED" \/ Complete(Row(q).basics, profile[arg[q].uid])
    BY <1>1, <1>5 DEF VisitOK
  <2>2. RowStep(arg[q].uid)
    BY <1>2, <1>3, <1>5
  <2>3. QED
    BY <1>4, <2>1, <2>2 DEF RowStep, Row
<1>6. ASSUME pc[q] = "profile"
      PROVE  /\ arg'[q].seen.role = Row(q)'.role
             /\ arg'[q].seen.basics # None => Row(q)'.status = "DELETED" \/ Row(q)'.basics # None
  <2>1. RowStep(arg[q].uid)
    BY <1>2, <1>3, <1>6
  <2>2. QED
    BY <1>1, <1>4, <1>6, <2>1 DEF RowStep, Row, VisitOK
<1>7. ASSUME arg[q].saved, arg[q].page = "onboarding"
      PROVE  Row(q)'.status = "DELETED" /\ pc'[q] \notin {"user", "profile", "form"}
  <2>1. RowStep(arg[q].uid)
    BY <1>2, <1>3, <1>7
  <2>2. QED
    BY <1>1, <1>7, <2>1 DEF RowStep, Row, VisitOK
<1>8. pc'[q] = "commit" => Complete(arg'[q].input, arg'[q].input)
  BY <1>1 DEF VisitOK
<1>9. pc'[q] \in {"idle", "lock"} \cup Submitting => arg'[q].page = "post-login"
  BY <1>1 DEF VisitOK
<1>10. arg'[q].saved /\ pc'[q] = "profile" /\ ActiveTraveler(arg'[q].seen) =>
         arg'[q].seen.basics # None
  BY <1>1 DEF VisitOK
<1>11. QED
  BY <1>5, <1>6, <1>7, <1>8, <1>9, <1>10 DEF VisitOK

\* A step of request p that is not about a form keeps what holds of p.
LEMMA Unsaved ==
  ASSUME NEW p \in Requests, ~ arg'[p].saved, pc'[p] \notin {"profile", "commit"},
         pc'[p] \in {"lock"} \cup Submitting => arg'[p].page = "post-login",
         pc'[p] # "idle"
  PROVE  VisitOK(p)'
BY DEF VisitOK

\* A request that saved its form and reads an incomplete account again met the
\* deletion in between.
LEMMA SentBackMeansDeleted ==
  ASSUME VisitsOK, NEW p \in Requests, pc[p] = "profile", arg[p].saved,
         Destination(arg[p].seen, profile[arg[p].uid]) = "onboarding"
  PROVE  Row(p).status = "DELETED"
<1>1. /\ ActiveTraveler(arg[p].seen)
      /\ ~ Complete(arg[p].seen.basics, profile[arg[p].uid])
  BY DEF Destination
<1>2. arg[p].seen.basics # None
  BY <1>1 DEF VisitsOK, VisitOK
<1>3. Row(p).status = "DELETED" \/ Complete(Row(p).basics, profile[arg[p].uid])
  BY DEF VisitsOK, VisitOK
<1>4. QED
  BY <1>1, <1>2, <1>3 DEF Complete

\* Every step keeps the visits in order.
LEMMA VisitsStep ==
  ASSUME Consistent, VisitsOK, [Next]_vars
  PROVE  VisitsOK'
<1> USE DEF Consistent, Goto
<1>1. ASSUME NEW p \in Requests, SubmitUnparsable(p)
      PROVE  VisitsOK'
  <2>1. \A q \in Requests \ {p} : VisitOK(q)'
    BY <1>1, OneMoves, VisitStays DEF Begin, Continue, OthersStay
  <2>2. pc[p] = "idle" /\ ~ arg[p].saved /\ arg[p].page = "post-login"
    BY <1>1 DEF SubmitUnparsable, ControlOK, Reading, Answers, VisitsOK, VisitOK
  <2>3. /\ ~ arg'[p].saved
        /\ pc'[p] \notin {"idle", "profile"} \cup Submitting
        /\ pc'[p] = "lock" => arg'[p].page = "post-login"
    BY <1>1, <2>2 DEF SubmitUnparsable, TypeOK, Argument, Submitting, Lists
  <2>4. VisitOK(p)'
    BY <2>3, Unsaved DEF Submitting, Lists
  <2>5. QED
    BY <2>1, <2>4 DEF VisitsOK
<1>2. ASSUME NEW p \in Requests, NEW u \in Users, NEW page \in {"post-login",
             "onboarding"}, Visit(p, u, page)
      PROVE  VisitsOK'
  <2>1. \A q \in Requests \ {p} : VisitOK(q)'
    BY <1>2, OneMoves, VisitStays DEF Begin, Continue, OthersStay
  <2>2. pc[p] = "idle" /\ ~ arg[p].saved /\ arg[p].page = "post-login"
    BY <1>2 DEF Visit, ControlOK, Reading, Answers, VisitsOK, VisitOK
  <2>3. /\ ~ arg'[p].saved
        /\ pc'[p] \notin {"idle", "profile"} \cup Submitting
        /\ pc'[p] = "lock" => arg'[p].page = "post-login"
    BY <1>2, <2>2 DEF Visit, TypeOK, Argument, Submitting, Lists
  <2>4. VisitOK(p)'
    BY <2>3, Unsaved DEF Submitting, Lists
  <2>5. QED
    BY <2>1, <2>4 DEF VisitsOK
<1>3. ASSUME NEW p \in Requests, NEW u \in Users, NEW input \in Inputs, Submit(p, u,
             input)
      PROVE  VisitsOK'
  <2>1. \A q \in Requests \ {p} : VisitOK(q)'
    BY <1>3, OneMoves, VisitStays DEF Begin, Continue, OthersStay
  <2>2. pc[p] = "idle" /\ ~ arg[p].saved /\ arg[p].page = "post-login"
    BY <1>3 DEF Submit, ControlOK, Reading, Answers, VisitsOK, VisitOK
  <2>3. /\ ~ arg'[p].saved
        /\ pc'[p] \notin {"idle", "profile"} \cup Submitting
        /\ pc'[p] = "lock" => arg'[p].page = "post-login"
    BY <1>3, <2>2 DEF Submit, TypeOK, Argument, Submitting, Lists
  <2>4. VisitOK(p)'
    BY <2>3, Unsaved DEF Submitting, Lists
  <2>5. QED
    BY <2>1, <2>4 DEF VisitsOK
<1>4. ASSUME NEW p \in Requests, NEW u \in Users, Delete(p, u)
      PROVE  VisitsOK'
  <2>1. \A q \in Requests \ {p} : VisitOK(q)'
    BY <1>4, OneMoves, VisitStays DEF Begin, Continue, OthersStay
  <2>2. pc[p] = "idle" /\ ~ arg[p].saved /\ arg[p].page = "post-login"
    BY <1>4 DEF Delete, ControlOK, Reading, Answers, VisitsOK, VisitOK
  <2>3. /\ ~ arg'[p].saved
        /\ pc'[p] \notin {"idle", "profile"} \cup Submitting
        /\ pc'[p] = "lock" => arg'[p].page = "post-login"
    BY <1>4, <2>2 DEF Delete, TypeOK, Argument, Submitting, Lists
  <2>4. VisitOK(p)'
    BY <2>3, Unsaved DEF Submitting, Lists
  <2>5. QED
    BY <2>1, <2>4 DEF VisitsOK
<1>5. ASSUME NEW p \in Requests, ReadSession(p)
      PROVE  VisitsOK'
  <2>1. \A q \in Requests \ {p} : VisitOK(q)'
    BY <1>5, OneMoves, VisitStays DEF Begin, Continue, OthersStay
  <2>2. /\ UNCHANGED <<rows, arg>> /\ pc[p] = "session"
        /\ pc'[p] = IF Row(p).status = "ACTIVE" THEN "user" ELSE "login"
    BY <1>5 DEF ReadSession, TypeOK
  <2>3. VisitOK(p)'
    BY <2>2 DEF VisitsOK, VisitOK, Row, rows, Submitting, Lists
  <2>4. QED
    BY <2>1, <2>3 DEF VisitsOK
<1>6. ASSUME NEW p \in Requests, ReadUser(p)
      PROVE  VisitsOK'
  <2>1. \A q \in Requests \ {p} : VisitOK(q)'
    BY <1>6, OneMoves, VisitStays DEF Begin, Continue, OthersStay
  <2>2. PICK s : s = [arg[p] EXCEPT !.seen = Row(p)]
    OBVIOUS
  <2>3. /\ UNCHANGED rows /\ pc[p] = "user" /\ pc'[p] = "profile" /\ arg'[p] = s
    BY <1>6, <2>2 DEF ReadUser, TypeOK
  <2>4. /\ s.seen = Row(p) /\ s.uid = arg[p].uid
        /\ s.saved = arg[p].saved /\ s.page = arg[p].page
    <3>1. arg[p] \in Argument
      BY DEF TypeOK
    <3>2. QED
      BY <2>2, <3>1 DEF Argument
  <2>5. Row(p)' = Row(p)
    BY <2>3, <2>4 DEF Row, rows
  <2>6. arg[p].saved => arg[p].page # "onboarding"
    BY <2>3 DEF VisitsOK, VisitOK
  <2>7. arg[p].saved /\ ActiveTraveler(Row(p)) => Row(p).basics # None
    BY DEF VisitsOK, VisitOK, ActiveTraveler, Complete
  <2>8. arg[p].saved => Row(p).status = "DELETED" \/ Complete(Row(p).basics, profile[arg[p].uid])
    BY DEF VisitsOK, VisitOK
  <2>9. profile' = profile
    BY <2>3 DEF rows
  <2>10. VisitOK(p)'
    BY <2>3, <2>4, <2>5, <2>6, <2>7, <2>8, <2>9 DEF VisitOK, Submitting, Lists
  <2>11. QED
    BY <2>1, <2>10 DEF VisitsOK
<1>7. ASSUME NEW p \in Requests, ReadProfile(p)
      PROVE  VisitsOK'
  <2>1. \A q \in Requests \ {p} : VisitOK(q)'
    BY <1>7, OneMoves, VisitStays DEF Begin, Continue, OthersStay
  <2>2. /\ UNCHANGED rows /\ pc[p] = "profile" /\ pc'[p] \in {"session", "form", "home", "login"}
        /\ arg'[p].uid = arg[p].uid /\ arg'[p].saved = arg[p].saved
        /\ pc'[p] # "session" => arg'[p].page = arg[p].page
    BY <1>7, ProfileRead DEF ReadProfile
  <2>3. arg[p].saved /\ pc'[p] = "session" => Row(p).status = "DELETED"
    BY <1>7, <2>2, ProfileRead, SentBackMeansDeleted
  <2>4. arg[p].saved => arg[p].page # "onboarding"
    BY <2>2 DEF VisitsOK, VisitOK
  <2>5. Row(p)' = Row(p) /\ profile' = profile
    BY <2>2 DEF Row, rows
  <2>6. arg[p].saved => Row(p).status = "DELETED" \/ Complete(Row(p).basics, profile[arg[p].uid])
    BY DEF VisitsOK, VisitOK
  <2>7. VisitOK(p)'
    BY <2>2, <2>3, <2>4, <2>5, <2>6 DEF VisitOK, Submitting, Lists
  <2>8. QED
    BY <2>1, <2>7 DEF VisitsOK
<1>8. ASSUME NEW p \in Requests, LockAndRecheck(p)
      PROVE  VisitsOK'
  <2>1. \A q \in Requests \ {p} : VisitOK(q)'
    BY <1>8, OneMoves, VisitStays DEF Begin, Continue, OthersStay
  <2>2. ~ arg[p].saved /\ arg[p].page = "post-login"
    BY <1>8 DEF LockAndRecheck, ControlOK, Reading, Answers, Lists, VisitsOK, VisitOK,
      Submitting
  <2>3. /\ ~ arg'[p].saved /\ arg'[p].page = "post-login"
        /\ pc'[p] \notin {"idle", "profile", "commit"}
    BY <1>8, <2>2 DEF LockAndRecheck, TypeOK
  <2>4. VisitOK(p)'
    BY <2>3, Unsaved
  <2>5. QED
    BY <2>1, <2>4 DEF VisitsOK
<1>9. ASSUME NEW p \in Requests, CheckList(p)
      PROVE  VisitsOK'
  <2>1. \A q \in Requests \ {p} : VisitOK(q)'
    BY <1>9, OneMoves, VisitStays DEF Begin, Continue, OthersStay
  <2>2. ~ arg[p].saved /\ arg[p].page = "post-login"
    BY <1>9 DEF CheckList, ControlOK, Reading, Answers, Lists, VisitsOK, VisitOK,
      Submitting
  <2>3. PICK s : s = [arg[p] EXCEPT !.errors =
              arg[p].errors \/ ~ (arg[p].input[pc[p]] \subseteq Offered(pc[p], active))]
    OBVIOUS
  <2>4. arg'[p] = s
    BY <1>9, <2>3 DEF CheckList, TypeOK
  <2>5. ~ arg'[p].saved /\ arg'[p].page = "post-login"
    <3>1. arg[p] \in Argument
      BY DEF TypeOK
    <3>2. s.saved = arg[p].saved /\ s.page = arg[p].page
      BY <2>3, <3>1 DEF Argument
    <3>3. QED
      BY <2>2, <2>4, <3>2
  <2>6. pc'[p] \notin {"idle", "profile", "commit"}
    <3>1. pc[p] \in Lists
      BY <1>9 DEF CheckList
    <3>2. QED
      BY <1>9, <3>1, Following DEF CheckList, TypeOK
  <2>7. VisitOK(p)'
    BY <2>5, <2>6, Unsaved
  <2>8. QED
    BY <2>1, <2>7 DEF VisitsOK
<1>10. ASSUME NEW p \in Requests, UpdateUser(p)
      PROVE  VisitsOK'
  <2>1. \A q \in Requests \ {p} : VisitOK(q)'
    BY <1>10, OneMoves, VisitStays DEF Begin, Continue, OthersStay
  <2>2. ~ arg[p].saved /\ arg[p].page = "post-login"
    BY <1>10 DEF UpdateUser, ControlOK, Reading, Answers, Lists, VisitsOK, VisitOK,
      Submitting
  <2>3. /\ ~ arg'[p].saved /\ arg'[p].page = "post-login"
        /\ pc'[p] \notin {"idle", "profile", "commit"}
    BY <1>10, <2>2 DEF UpdateUser, TypeOK
  <2>4. VisitOK(p)'
    BY <2>3, Unsaved
  <2>5. QED
    BY <2>1, <2>4 DEF VisitsOK
<1>11. ASSUME NEW p \in Requests, UpsertProfile(p)
      PROVE  VisitsOK'
  <2>1. \A q \in Requests \ {p} : VisitOK(q)'
    BY <1>11, OneMoves, VisitStays DEF Begin, Continue, OthersStay
  <2>2. ~ arg[p].saved /\ arg[p].page = "post-login"
    BY <1>11 DEF UpsertProfile, ControlOK, Reading, Answers, Lists, VisitsOK, VisitOK,
      Submitting
  <2>3. /\ arg' = arg
        /\ \/ pc'[p] = "commit" /\ Complete(arg[p].input, arg[p].input)
           \/ pc'[p] = "invalid"
    BY <1>11 DEF UpsertProfile, TypeOK
  <2>4. VisitOK(p)'
    BY <2>2, <2>3 DEF VisitOK
  <2>5. QED
    BY <2>1, <2>4 DEF VisitsOK
<1>12. ASSUME NEW p \in Requests, CommitForm(p)
      PROVE  VisitsOK'
  <2>1. \A q \in Requests \ {p} : VisitOK(q)'
    BY <1>12, OneMoves, VisitStays DEF Begin, Continue, OthersStay
  <2>2. /\ arg[p].page = "post-login" /\ arg[p].uid \in Users /\ arg[p].input # None
        /\ Complete(arg[p].input, arg[p].input)
    BY <1>12, CatalogueAssumption DEF CommitForm, ControlOK, Transaction, Submitting,
      VisitsOK, VisitOK, Complete
  <2>3. /\ arg'[p].page = "post-login" /\ arg'[p].uid = arg[p].uid /\ pc'[p] = "session"
    BY <1>12, <2>2 DEF CommitForm, TypeOK, Argument
  <2>4. user'[arg[p].uid].basics = arg[p].input /\ profile'[arg[p].uid] = arg[p].input
    BY <1>12, <2>2, SavedRows DEF CommitForm, TypeOK
  <2>5. VisitOK(p)'
    BY <2>2, <2>3, <2>4 DEF VisitOK, Row, Submitting, Lists
  <2>6. QED
    BY <2>1, <2>5 DEF VisitsOK
<1>13. ASSUME NEW p \in Requests, LockForDeletion(p)
      PROVE  VisitsOK'
  <2>1. \A q \in Requests \ {p} : VisitOK(q)'
    BY <1>13, OneMoves, VisitStays DEF Begin, Continue, OthersStay
  <2>2. ~ arg[p].saved
    BY <1>13 DEF LockForDeletion, ControlOK, Reading, Answers
  <2>3. /\ ~ arg'[p].saved /\ pc'[p] \notin {"idle", "profile", "lock"} \cup Submitting
    BY <1>13, <2>2 DEF LockForDeletion, TypeOK, Submitting, Lists
  <2>4. VisitOK(p)'
    BY <2>3, Unsaved DEF Submitting
  <2>5. QED
    BY <2>1, <2>4 DEF VisitsOK
<1>14. ASSUME NEW p \in Requests, Anonymize(p)
      PROVE  VisitsOK'
  <2>1. \A q \in Requests \ {p} : VisitOK(q)'
    BY <1>14, OneMoves, VisitStays DEF Begin, Continue, OthersStay
  <2>2. ~ arg[p].saved
    BY <1>14 DEF Anonymize, ControlOK, Reading, Answers
  <2>3. /\ ~ arg'[p].saved /\ pc'[p] \notin {"idle", "profile", "lock"} \cup Submitting
    BY <1>14, <2>2 DEF Anonymize, TypeOK, Submitting, Lists
  <2>4. VisitOK(p)'
    BY <2>3, Unsaved DEF Submitting
  <2>5. QED
    BY <2>1, <2>4 DEF VisitsOK
<1>15. ASSUME NEW p \in Requests, Abort(p)
      PROVE  VisitsOK'
  <2>1. \A q \in Requests \ {p} : VisitOK(q)'
    BY <1>15, OneMoves, VisitStays DEF Begin, Continue, OthersStay
  <2>2. UNCHANGED <<rows, arg>> /\ pc'[p] = "error"
    BY <1>15 DEF Abort, TypeOK
  <2>3. VisitOK(p)'
    BY <2>2 DEF VisitsOK, VisitOK, Row, rows, Submitting, Lists
  <2>4. QED
    BY <2>1, <2>3 DEF VisitsOK
<1>16. ASSUME NEW u \in Users, Moderate(u)
      PROVE  VisitsOK'
  BY <1>16, VisitStays DEF Moderate, VisitsOK
<1>17. ASSUME NEW entry \in Entries, Switch(entry)
      PROVE  VisitsOK'
  BY <1>17, VisitStays DEF Switch, VisitsOK
<1>18. CASE UNCHANGED vars
  BY <1>18, VisitStays DEF vars, VisitsOK
<1>19. QED
  BY <1>1, <1>2, <1>3, <1>4, <1>5, <1>6, <1>7, <1>8, <1>9, <1>10, <1>11, <1>12, <1>13,
    <1>14, <1>15, <1>16, <1>17, <1>18 DEF Next, Begin, Continue, Served

\* Every reachable state has its visits in order.
LEMMA Visits == Spec => []VisitsOK
<1>1. Init => VisitsOK
  <2> SUFFICES ASSUME Init, NEW p \in Requests PROVE VisitOK(p)
    BY DEF VisitsOK
  <2>1. pc[p] = "idle" /\ ~ arg[p].saved /\ arg[p].page = "post-login"
    BY DEF Init
  <2>2. QED
    BY <2>1 DEF VisitOK
<1>2. Consistent /\ VisitsOK /\ [Next]_vars => VisitsOK'
  BY VisitsStep
<1>3. QED
  BY <1>1, <1>2, Consistency, PTL DEF Spec

\* Who has just saved the form is never shown it again.
THEOREM SavedHome == Spec => []SavedGoesHome
<1>1. VisitsOK => SavedGoesHome
  BY DEF VisitsOK, VisitOK, SavedGoesHome, Row
<1>2. QED
  BY <1>1, Visits, PTL

\* Only the resolver sends a request home.
LEMMA OnlyResolverLeadsHome ==
  ASSUME TypeOK, [Next]_vars, NEW p \in Requests, pc[p] # "home", pc'[p] = "home"
  PROVE  ReadProfile(p)
<1> USE DEF TypeOK, Goto
<1>1. ASSUME NEW q \in Requests, SubmitUnparsable(q)
      PROVE  ReadProfile(p)
  BY <1>1 DEF SubmitUnparsable
<1>2. ASSUME NEW q \in Requests, NEW u \in Users, NEW page \in {"post-login",
             "onboarding"}, Visit(q, u, page)
      PROVE  ReadProfile(p)
  BY <1>2 DEF Visit
<1>3. ASSUME NEW q \in Requests, NEW u \in Users, NEW input \in Inputs, Submit(q, u,
             input)
      PROVE  ReadProfile(p)
  BY <1>3 DEF Submit
<1>4. ASSUME NEW q \in Requests, NEW u \in Users, Delete(q, u)
      PROVE  ReadProfile(p)
  BY <1>4 DEF Delete
<1>5. ASSUME NEW q \in Requests, ReadSession(q)
      PROVE  ReadProfile(p)
  BY <1>5 DEF ReadSession
<1>6. ASSUME NEW q \in Requests, ReadUser(q)
      PROVE  ReadProfile(p)
  BY <1>6 DEF ReadUser
<1>7. ASSUME NEW q \in Requests, ReadProfile(q)
      PROVE  ReadProfile(p)
  BY <1>7 DEF ReadProfile
<1>8. ASSUME NEW q \in Requests, LockAndRecheck(q)
      PROVE  ReadProfile(p)
  BY <1>8 DEF LockAndRecheck
<1>9. ASSUME NEW q \in Requests, CheckList(q)
      PROVE  ReadProfile(p)
  BY <1>9, Following DEF CheckList
<1>10. ASSUME NEW q \in Requests, UpdateUser(q)
      PROVE  ReadProfile(p)
  BY <1>10 DEF UpdateUser
<1>11. ASSUME NEW q \in Requests, UpsertProfile(q)
      PROVE  ReadProfile(p)
  BY <1>11 DEF UpsertProfile
<1>12. ASSUME NEW q \in Requests, CommitForm(q)
      PROVE  ReadProfile(p)
  BY <1>12 DEF CommitForm
<1>13. ASSUME NEW q \in Requests, LockForDeletion(q)
      PROVE  ReadProfile(p)
  BY <1>13 DEF LockForDeletion
<1>14. ASSUME NEW q \in Requests, Anonymize(q)
      PROVE  ReadProfile(p)
  BY <1>14 DEF Anonymize
<1>15. ASSUME NEW q \in Requests, Abort(q)
      PROVE  ReadProfile(p)
  BY <1>15 DEF Abort
<1>16. ASSUME NEW u \in Users, Moderate(u)
      PROVE  ReadProfile(p)
  BY <1>16 DEF Moderate
<1>17. ASSUME NEW entry \in Entries, Switch(entry)
      PROVE  ReadProfile(p)
  BY <1>17 DEF Switch
<1>18. CASE UNCHANGED vars
  BY <1>18 DEF vars
<1>19. QED
  BY <1>1, <1>2, <1>3, <1>4, <1>5, <1>6, <1>7, <1>8, <1>9, <1>10, <1>11, <1>12, <1>13,
    <1>14, <1>15, <1>16, <1>17, <1>18 DEF Next, Begin, Continue, Served

\* No traveler gets home past the form.
THEOREM HomeComplete == Spec => HomeMeansComplete
<1>1. Consistent /\ VisitsOK /\ [Next]_vars => WayHome
  <2> SUFFICES ASSUME Consistent, VisitsOK, [Next]_vars,
                      NEW p \in Requests, pc[p] # "home", pc'[p] = "home"
               PROVE  \/ Row(p).role # "TRAVELER" \/ Row(p).status = "DELETED"
                      \/ Complete(Row(p).basics, profile[arg[p].uid])
    BY DEF WayHome
  <2>1. ReadProfile(p)
    BY OnlyResolverLeadsHome DEF Consistent
  <2>2. pc[p] = "profile" /\ Destination(arg[p].seen, profile[arg[p].uid]) = "home"
    BY <2>1, ProfileRead DEF Consistent
  <2>3. arg[p].seen.role # "TRAVELER" \/ Complete(arg[p].seen.basics, profile[arg[p].uid])
    BY <2>2 DEF Destination, ActiveTraveler
  <2>4. QED
    BY <2>2, <2>3 DEF VisitsOK, VisitOK, Complete
<1>2. QED
  BY <1>1, Consistency, Visits, PTL DEF Spec, HomeMeansComplete

-------------------------------------------------------------------------------
(* Waits and redirects come to an end                                        *)

\* How far a request has got: every path of its code, and of the redirects that
\* follow a form, goes from lower to higher.
Stage(s, page) ==
  LET again == IF page = "onboarding" THEN 3 ELSE 0 IN
    CASE s = "idle" -> 0
      [] s \in {"lock", "lock-deletion"} -> 1
      [] s \in {"travelPurposes", "anonymize"} -> 2
      [] s = "preferredCities" -> 3
      [] s = "preferredCountries" -> 4
      [] s = "update" -> 5
      [] s = "upsert" -> 6
      [] s = "commit" -> 7
      [] s = "session" -> 8 + again
      [] s = "user" -> 9 + again
      [] s = "profile" -> 10 + again
      [] s \in Answers -> 14

Reached(p) == Stage(pc[p], arg[p].page)

\* The next statement of p waits until q's transaction has ended.
Waits(p, q) == pc[p] \in {"lock", "lock-deletion"} /\ lock[arg[p].uid] = q

\* A request waits only for one that has got further.
WaitsAhead ==
  \A p, q \in Requests : Waits(p, q) => Reached(p) < Reached(q)

\* A step takes one request further and leaves the others where they are, or it
\* is an operator's and moves none.
StepsAhead ==
  \/ \E p \in Requests :
       /\ Reached(p) < Reached(p)'
       /\ \A q \in Requests \ {p} : pc'[q] = pc[q] /\ arg'[q] = arg[q]
  \/ UNCHANGED <<profile, lock, pc, arg>>

\* An account is locked only by a transaction of its own.
HoldersInside ==
  \A q \in Requests, u \in Users : lock[u] = q => pc[q] \in Transaction /\ arg[q].uid = u

\* It is enough to look at the locks of the request that moves, if nobody else
\* is given one.
LEMMA HoldersStay ==
  ASSUME HoldersInside, NEW p \in Requests, OthersStay(p),
         \A u \in Users : lock'[u] # p => lock'[u] \in {lock[u], None},
         \A u \in Users : lock'[u] = p => pc'[p] \in Transaction /\ arg'[p].uid = u
  PROVE  HoldersInside'
<1> SUFFICES ASSUME NEW q \in Requests, NEW u \in Users, lock'[u] = q
             PROVE  pc'[q] \in Transaction /\ arg'[q].uid = u
  BY DEF HoldersInside
<1>1. CASE q = p
  BY <1>1
<1>2. CASE q # p
  BY <1>2, CatalogueAssumption DEF HoldersInside, OthersStay
<1>3. QED
  BY <1>1, <1>2

\* A request that moves while no lock does keeps what it holds, if it is and
\* stays inside or outside its transaction.
LEMMA QuietHolders ==
  ASSUME HoldersInside, NEW p \in Requests, OthersStay(p), lock' = lock,
         pc[p] \in Transaction => pc'[p] \in Transaction /\ arg'[p].uid = arg[p].uid
  PROVE  HoldersInside'
BY HoldersStay DEF HoldersInside

\* A request that ends its transaction holds nothing.
LEMMA ReleasedHolders ==
  ASSUME HoldersInside, NEW p \in Requests, OthersStay(p), Release(p)
  PROVE  HoldersInside'
<1>1. \A u \in Users : lock'[u] \in {lock[u], None} /\ lock'[u] # p
  BY CatalogueAssumption DEF Release
<1>2. QED
  BY <1>1, HoldersStay

\* A request that enters its transaction holds its account.
LEMMA TakenHolders ==
  ASSUME TypeOK, HoldersInside, NEW p \in Requests, OthersStay(p), Take(p), arg' = arg,
         pc[p] \notin Transaction, pc'[p] \in Transaction
  PROVE  HoldersInside'
<1>1. \A u \in Users : lock[u] # p
  BY DEF HoldersInside
<1>2. \A u \in Users : lock'[u] = IF u = arg[p].uid THEN p ELSE lock[u]
  BY DEF Take, TypeOK
<1>3. QED
  BY <1>1, <1>2, HoldersStay

\* One step of a request takes it further, and it has a lock only inside its
\* transaction.
LEMMA RequestStep ==
  ASSUME Consistent, HoldersInside, NEW p \in Requests,
         Begin(p) \/ Continue(p) \/ Abort(p)
  PROVE  OthersStay(p) /\ Reached(p) < Reached(p)' /\ HoldersInside'
<1>0. /\ pc \in [Requests -> Steps] /\ arg \in [Requests -> Argument]
      /\ TypeOK /\ OthersStay(p)
  BY OneMoves DEF Consistent, TypeOK
<1> USE <1>0 DEF Goto
<1>1. CASE Begin(p)
  <2>1. pc[p] = "idle" /\ lock' = lock
        /\ pc'[p] \in {"invalid", "session", "lock", "login", "lock-deletion"}
    BY <1>1 DEF Begin, SubmitUnparsable, Visit, Submit, Delete
  <2>2. HoldersInside'
    BY <2>1, QuietHolders DEF Transaction, Lists
  <2>3. QED
    BY <2>1, <2>2 DEF Reached, Stage, Answers
<1>2. CASE ReadSession(p)
  <2>1. pc[p] = "session" /\ pc'[p] \in {"user", "login"} /\ arg' = arg /\ lock' = lock
    BY <1>2 DEF ReadSession
  <2>2. QED
    BY <2>1, QuietHolders DEF Reached, Stage, Answers, Transaction, Lists
<1>3. CASE ReadUser(p)
  <2>1. /\ pc[p] = "user" /\ pc'[p] = "profile" /\ lock' = lock
        /\ arg'[p].page = arg[p].page
    BY <1>3 DEF ReadUser, Argument
  <2>2. QED
    BY <2>1, QuietHolders DEF Reached, Stage, Answers, Transaction, Lists
<1>4. CASE ReadProfile(p)
  <2>1. pc[p] = "profile" /\ lock' = lock
    BY <1>4 DEF ReadProfile
  <2>2. \/ arg[p].page = "post-login" /\ pc'[p] = "session" /\ arg'[p].page = "onboarding"
        \/ pc'[p] \in Answers
    <3> DEFINE to == Destination(arg[p].seen, profile[arg[p].uid])
    <3>1. to \in {"login", "onboarding", "home"}
      BY Destinations
    <3>2. CASE to = "onboarding" /\ arg[p].page = "post-login"
      BY <1>4, <3>2 DEF ReadProfile, Argument
    <3>3. CASE to = "onboarding" /\ arg[p].page # "post-login"
      BY <1>4, <3>3 DEF ReadProfile, Answers
    <3>4. CASE to # "onboarding"
      BY <1>4, <3>1, <3>4 DEF ReadProfile, Answers
    <3>5. QED
      BY <3>2, <3>3, <3>4
  <2>3. QED
    BY <2>1, <2>2, QuietHolders DEF Reached, Stage, Answers, Transaction, Lists
<1>5. CASE LockAndRecheck(p)
  <2>1. pc[p] = "lock" /\ arg' = arg
        /\ \/ pc'[p] = "travelPurposes" /\ Take(p)
           \/ pc'[p] = "session" /\ lock' = lock
    BY <1>5 DEF LockAndRecheck
  <2>2. HoldersInside'
    BY <2>1, QuietHolders, TakenHolders DEF Transaction, Lists
  <2>3. QED
    BY <2>1, <2>2 DEF Reached, Stage, Answers
<1>6. CASE CheckList(p)
  <2>1. /\ arg'[p].uid = arg[p].uid /\ arg'[p].page = arg[p].page
        /\ \/ pc[p] = "travelPurposes" /\ pc'[p] = "preferredCities" /\ lock' = lock
           \/ pc[p] = "preferredCities" /\ pc'[p] = "preferredCountries" /\ lock' = lock
           \/ pc[p] = "preferredCountries" /\ pc'[p] = "update" /\ lock' = lock
           \/ pc[p] = "preferredCountries" /\ pc'[p] = "invalid" /\ Release(p)
    BY <1>6 DEF CheckList, After, Lists, Argument
  <2>2. HoldersInside'
    BY <2>1, QuietHolders, ReleasedHolders DEF Transaction, Lists
  <2>3. QED
    BY <2>1, <2>2 DEF Reached, Stage, Answers
<1>7. CASE UpdateUser(p)
  <2>1. pc[p] = "update" /\ pc'[p] = "upsert" /\ arg' = arg /\ lock' = lock
    BY <1>7 DEF UpdateUser
  <2>2. QED
    BY <2>1, QuietHolders DEF Reached, Stage, Answers, Transaction, Lists
<1>8. CASE UpsertProfile(p)
  <2>1. pc[p] = "upsert" /\ arg' = arg
        /\ \/ pc'[p] = "commit" /\ lock' = lock
           \/ pc'[p] = "invalid" /\ Release(p)
    BY <1>8 DEF UpsertProfile
  <2>2. HoldersInside'
    BY <2>1, QuietHolders, ReleasedHolders DEF Transaction, Lists
  <2>3. QED
    BY <2>1, <2>2 DEF Reached, Stage, Answers
<1>9. CASE CommitForm(p)
  <2>1. pc[p] = "commit" /\ pc'[p] = "session" /\ Release(p)
    BY <1>9 DEF CommitForm
  <2>2. QED
    BY <2>1, ReleasedHolders DEF Reached, Stage, Answers
<1>10. CASE LockForDeletion(p)
  <2>1. pc[p] = "lock-deletion" /\ arg' = arg
        /\ \/ pc'[p] = "anonymize" /\ Take(p)
           \/ pc'[p] = "not-deleted" /\ lock' = lock
    BY <1>10 DEF LockForDeletion
  <2>2. HoldersInside'
    BY <2>1, QuietHolders, TakenHolders DEF Transaction, Lists
  <2>3. QED
    BY <2>1, <2>2 DEF Reached, Stage, Answers
<1>11. CASE Anonymize(p)
  <2>1. pc[p] = "anonymize" /\ pc'[p] = "deleted" /\ Release(p)
    BY <1>11 DEF Anonymize
  <2>2. QED
    BY <2>1, ReleasedHolders DEF Reached, Stage, Answers
<1>12. CASE Abort(p)
  <2>1. pc[p] \in Steps \ ({"idle"} \cup Answers) /\ pc'[p] = "error" /\ Release(p)
        /\ arg' = arg
    BY <1>12 DEF Abort
  <2>2. HoldersInside'
    BY <2>1, ReleasedHolders
  <2>3. QED
    BY <2>1, <2>2 DEF Reached, Stage, Answers, Steps, Transaction, Lists
<1>13. QED
  BY <1>1, <1>2, <1>3, <1>4, <1>5, <1>6, <1>7, <1>8, <1>9, <1>10, <1>11, <1>12
  DEF Continue

\* An operator moves no request.
LEMMA OperatorStep ==
  ASSUME (\E u \in Users : Moderate(u)) \/ (\E entry \in Entries : Switch(entry))
  PROVE  UNCHANGED <<profile, lock, pc, arg>>
BY DEF Moderate, Switch, rows

\* An account is locked only by a submit or a deletion for it that is inside its
\* transaction.
LEMMA Inside == Spec => []HoldersInside
<1>1. Init => HoldersInside
  BY CatalogueAssumption DEF Init, HoldersInside
<1>2. Consistent /\ HoldersInside /\ [Next]_vars => HoldersInside'
  <2> SUFFICES ASSUME Consistent, HoldersInside, [Next]_vars PROVE HoldersInside'
    OBVIOUS
  <2>1. CASE UNCHANGED <<profile, lock, pc, arg>>
    BY <2>1 DEF HoldersInside
  <2>2. ASSUME NEW p \in Requests, Begin(p) \/ Continue(p) \/ Abort(p)
        PROVE  HoldersInside'
    BY <2>2, RequestStep
  <2>3. QED
    BY <2>1, <2>2, OperatorStep DEF Next, Served, vars, rows
<1>3. QED
  BY <1>1, <1>2, Consistency, PTL DEF Spec

\* However many submits and deletions of one account there are, whom one waits
\* for is inside its transaction and waits for nobody.
THEOREM NoDeadlock == Spec => []WaitsAhead
<1>1. Consistent /\ HoldersInside => WaitsAhead
  <2> SUFFICES ASSUME Consistent, HoldersInside, NEW p \in Requests, NEW q \in Requests,
                      Waits(p, q)
               PROVE  Reached(p) < Reached(q)
    BY DEF WaitsAhead
  <2>1. pc[p] \in {"lock", "lock-deletion"} /\ arg[p].uid \in Users
    BY DEF Waits, Consistent, ControlOK
  <2>2. pc[q] \in Transaction
    BY <2>1 DEF Waits, HoldersInside
  <2>3. QED
    BY <2>1, <2>2 DEF Reached, Stage, Answers, Transaction, Lists
<1>2. QED
  BY <1>1, Consistency, Inside, PTL

\* Every step of a request takes it at least one stage further, through the form
\* and the redirects after it, and moves no other: after a form or a link a
\* browser passes the dispatcher and the form's page at most once each, whatever
\* operators and other requests do meanwhile.
THEOREM NoRedirectLoop == Spec => [][StepsAhead]_vars
<1>1. Consistent /\ HoldersInside /\ [Next]_vars => [StepsAhead]_vars
  <2> SUFFICES ASSUME Consistent, HoldersInside, Next, ~ UNCHANGED vars PROVE StepsAhead
    OBVIOUS
  <2>1. ASSUME NEW p \in Requests, Begin(p) \/ Continue(p) \/ Abort(p)
        PROVE  StepsAhead
    BY <2>1, RequestStep DEF StepsAhead, OthersStay
  <2>2. QED
    BY <2>1, OperatorStep DEF Next, Served, StepsAhead
<1>2. QED
  BY <1>1, Consistency, Inside, PTL DEF Spec

-------------------------------------------------------------------------------
(* The proof that Onboarding implements TravelerRecord.                    *)

\* The abstract variable, account by account.
Records == [u \in Users |-> RecordOf(u)]

\* The rows of an account always belong together.
RecordsOK ==
  \A u \in Users :
    RecordOf(u) = IF user[u].status = "DELETED" THEN Erased ELSE profile[u]

\* It follows from the consistency of the rows.
LEMMA NeverTorn == Consistent => RecordsOK
BY DEF Consistent, RowsOK, RecordsOK, RecordOf

\* The same of the state after a step.
LEMMA NeverTornNext == Consistent' => RecordsOK'
BY NeverTorn, PTL

\* An open account's record is not that of a closed one.
LEMMA OpenRecord ==
  ASSUME Consistent, NEW u \in Users, user[u].status # "DELETED"
  PROVE  Records[u] = profile[u] /\ Records[u] # Erased
BY NeverTorn, ErasedAssumption DEF Records, RecordsOK, Consistent, TypeOK

\* The initial rows are initial records.
LEMMA InitialRecords ==
  ASSUME Init, Consistent
  PROVE  Record!Init
<1>1. RecordsOK
  BY NeverTorn
<1>2. QED
  BY <1>1 DEF Record!Init, Records, RecordsOK, Consistent, TypeOK

\* The commit of a form saves it.
LEMMA SaveStep ==
  ASSUME Consistent, Consistent', NEW p \in Requests, CommitForm(p)
  PROVE  Record!Next
<1>1. /\ arg[p].uid \in Users /\ arg[p].input \in Inputs
      /\ user[arg[p].uid].status = "ACTIVE"
  BY DEF CommitForm, Goto, Consistent, ControlOK, LockOK, Submitting, Transaction, Row,
    ActiveTraveler
<1>2. /\ user'[arg[p].uid].status = "ACTIVE"
      /\ \A u \in Users \ {arg[p].uid} : user'[u] = user[u]
  BY <1>1, SavedRows DEF Consistent
<1>3. /\ profile'[arg[p].uid] = arg[p].input
      /\ \A u \in Users \ {arg[p].uid} : profile'[u] = profile[u]
  BY <1>1 DEF CommitForm, Consistent, TypeOK
<1>4. RecordsOK /\ RecordsOK'
  BY NeverTorn, NeverTornNext
<1>5. Records' = [Records EXCEPT ![arg[p].uid] = arg[p].input]
  <2>1. ASSUME NEW u \in Users
        PROVE  RecordOf(u)' = IF u = arg[p].uid THEN arg[p].input ELSE RecordOf(u)
    BY <1>1, <1>2, <1>3, <1>4 DEF RecordsOK
  <2>2. QED
    BY <1>1, <2>1 DEF Records
<1>6. Record!Save(arg[p].uid, arg[p].input)
  BY <1>1, <1>5, OpenRecord DEF Record!Save, Records
<1>7. QED
  BY <1>1, <1>6 DEF Record!Next

\* The commit of a deletion closes the account.
LEMMA CloseStep ==
  ASSUME Consistent, Consistent', NEW p \in Requests, Anonymize(p)
  PROVE  Record!Next
<1>1. arg[p].uid \in Users /\ user[arg[p].uid].status = "ACTIVE"
  BY DEF Anonymize, Goto, Consistent, ControlOK, LockOK, Transaction, Row, ActiveTraveler
<1>2. /\ user'[arg[p].uid].status = "DELETED"
      /\ \A u \in Users \ {arg[p].uid} : user'[u] = user[u]
  BY <1>1, AnonymizedRows DEF Consistent
<1>3. \A u \in Users \ {arg[p].uid} : profile'[u] = profile[u]
  BY <1>1 DEF Anonymize, Consistent, TypeOK
<1>4. RecordsOK /\ RecordsOK'
  BY NeverTorn, NeverTornNext
<1>5. Records' = [Records EXCEPT ![arg[p].uid] = Erased]
  <2>1. ASSUME NEW u \in Users
        PROVE  RecordOf(u)' = IF u = arg[p].uid THEN Erased ELSE RecordOf(u)
    BY <1>1, <1>2, <1>3, <1>4 DEF RecordsOK
  <2>2. QED
    BY <1>1, <2>1 DEF Records
<1>6. Record!Close(arg[p].uid)
  BY <1>1, <1>5, OpenRecord DEF Record!Close, Records
<1>7. QED
  BY <1>1, <1>6 DEF Record!Next

\* Every other step leaves the records alone.
LEMMA QuietRecords ==
  ASSUME Consistent, Consistent', rows' = rows \/ \E u \in Users : Moderate(u)
  PROVE  Records' = Records
<1>1. CASE rows' = rows
  BY <1>1 DEF rows, Records, RecordOf
<1>2. ASSUME NEW u \in Users, Moderate(u)
      PROVE  Records' = Records
  <2>1. /\ profile' = profile
        /\ \A v \in Users : user'[v].status = "DELETED" <=> user[v].status = "DELETED"
    BY <1>2, ModeratedRows DEF Moderate, Consistent
  <2>2. RecordsOK /\ RecordsOK'
    BY NeverTorn, NeverTornNext
  <2>3. QED
    BY <2>1, <2>2 DEF Records, RecordsOK
<1>3. QED
  BY <1>1, <1>2

\* Whatever submits and deletions overlap and wherever they fail, the two rows
\* of an account change as if they were one that each saved form replaces
\* whole and a deletion empties for good.
THEOREM RecordRefinement == Spec => ImplementsRecord
<1>1. Init /\ Consistent => Record!Init
  BY InitialRecords
<1>2. Consistent /\ Consistent' /\ [Next]_vars => [Record!Next]_Records
  BY ThreeWriters, SaveStep, CloseStep, QuietRecords
<1>3. QED
  BY <1>1, <1>2, Consistency, PTL DEF Spec, ImplementsRecord, Record!Spec, Records
===============================================================================
