----------------------------- MODULE SessionsProofs -----------------------------
(***************************************************************************)
(* Theorems about Sessions and their proofs.                               *)
(***************************************************************************)
EXTENDS Sessions, TLAPS

\* What a request's program point says of its arguments.
ControlOK ==
  \A p \in Requests :
    /\ pc[p] \in {"compare", "jwt", "signed-in", "rejected"} => arg[p].uid \in Users
    /\ pc[p] = "compare" => arg[p].pw \in Passwords
    /\ pc[p] = "jwt" => arg[p].seen \in User

-------------------------------------------------------------------------------
(* What is done to the User rows                                           *)

\* Writing one entry of a table leaves the others alone.
LEMMA OneEntry ==
  ASSUME NEW D, NEW R, NEW f \in [D -> R], NEW d \in D, NEW r \in R
  PROVE  /\ [f EXCEPT ![d] = r] \in [D -> R]
         /\ [f EXCEPT ![d] = r][d] = r
         /\ \A e \in D \ {d} : [f EXCEPT ![d] = r][e] = f[e]
OBVIOUS

\* A tombstone stays one; until then a row keeps its origin and, once its
\* address is verified, that.
RowStep(u) ==
  /\ user'[u].oauth = user[u].oauth
  /\ user[u].status = "DELETED" => user'[u].status = "DELETED"
  /\ user'[u].status # "DELETED" /\ user[u].verified => user'[u].verified

RowsStep == user' \in [Users -> User] /\ \A u \in Users : RowStep(u)

\* One row is replaced.
LEMMA Replaced ==
  ASSUME NEW u \in Users, NEW r \in User, user \in [Users -> User],
         user' = [user EXCEPT ![u] = r],
         r.oauth = user[u].oauth,
         user[u].status = "DELETED" => r.status = "DELETED",
         r.status # "DELETED" /\ user[u].verified => r.verified
  PROVE  RowsStep
<1>1. user'[u] = r /\ \A v \in Users \ {u} : user'[v] = user[v]
  BY OneEntry
<1>2. user' \in [Users -> User]
  BY OneEntry
<1>3. QED
  BY <1>1, <1>2 DEF RowsStep, RowStep

\* Every step treats the rows so.
LEMMA EveryRowsStep ==
  ASSUME TypeOK, [Next]_vars
  PROVE  RowsStep
<1>1. user \in [Users -> User]
  BY DEF TypeOK
<1>2. ASSUME user' = user
      PROVE  RowsStep
  BY <1>1, <1>2 DEF RowsStep, RowStep
<1>3. ASSUME NEW u \in Users, Verify(u)
      PROVE  RowsStep
  <2>1. PICK r : r = [user[u] EXCEPT !.verified = TRUE]
    OBVIOUS
  <2>2. user[u] \in User
    BY <1>1
  <2>3. r \in User /\ r.oauth = user[u].oauth /\ r.status = user[u].status /\ r.verified = TRUE
    BY <2>1, <2>2 DEF User
  <2>4. user' = [user EXCEPT ![u] = r]
    BY <1>3, <2>1 DEF Verify
  <2>5. QED
    BY <1>1, <2>3, <2>4, Replaced
<1>4. ASSUME NEW u \in Users, ResetPassword(u)
      PROVE  RowsStep
  <2>1. PICK r : r = [user[u] EXCEPT !.password = resets[u] + 1]
    OBVIOUS
  <2>2. user[u] \in User /\ resets[u] + 1 \in Passwords
    BY <1>1, <1>4, MaxResetsAssumption DEF TypeOK, ResetPassword, Passwords
  <2>3. /\ r \in User /\ r.oauth = user[u].oauth /\ r.status = user[u].status
        /\ r.verified = user[u].verified
    BY <2>1, <2>2 DEF User
  <2>4. user' = [user EXCEPT ![u] = r]
    BY <1>4, <2>1 DEF ResetPassword
  <2>5. QED
    BY <1>1, <2>3, <2>4, Replaced
<1>5. ASSUME NEW u \in Users, CommitDeletion(u)
      PROVE  RowsStep
  <2>1. PICK r :
          r = [user[u] EXCEPT !.status = "DELETED", !.verified = FALSE, !.password = None]
    OBVIOUS
  <2>2. user[u] \in User
    BY <1>1
  <2>3. r \in User /\ r.oauth = user[u].oauth /\ r.status = "DELETED"
    BY <2>1, <2>2 DEF User
  <2>4. user' = [user EXCEPT ![u] = r]
    BY <1>5, <2>1 DEF CommitDeletion
  <2>5. QED
    BY <1>1, <2>3, <2>4, Replaced
<1>6. ASSUME NEW u \in Users, Moderate(u)
      PROVE  RowsStep
  <2>1. PICK status \in {"ACTIVE", "SUSPENDED"} :
          user' = [user EXCEPT ![u] = [@ EXCEPT !.status = status]]
    BY <1>6 DEF Moderate
  <2>2. PICK r : r = [user[u] EXCEPT !.status = status]
    OBVIOUS
  <2>3. user[u] \in User /\ user[u].status # "DELETED"
    BY <1>1, <1>6 DEF Moderate
  <2>4. r \in User /\ r.oauth = user[u].oauth /\ r.verified = user[u].verified
    BY <2>2, <2>3 DEF User
  <2>5. user' = [user EXCEPT ![u] = r]
    BY <2>1, <2>2
  <2>6. QED
    BY <1>1, <2>3, <2>4, <2>5, Replaced
<1>7. [Next]_vars =>
        \/ user' = user
        \/ \E u \in Users : Verify(u) \/ ResetPassword(u) \/ CommitDeletion(u) \/ Moderate(u)
  BY DEF Next, Served, vars, accounts, Refuse, BeginOAuth, BeginLogin, RecordAttempt,
    IssueSession, Fail, ReadSession, EraseAttempts, AbortDeletion
<1>8. QED
  BY <1>2, <1>3, <1>4, <1>5, <1>6, <1>7

-------------------------------------------------------------------------------
(* Types                                                                   *)

\* Every variable of every reachable state keeps to its type, and a request at
\* a program point has the arguments its next statement needs.
THEOREM Typing == Spec => [](TypeOK /\ ControlOK)
<1>1. Init => TypeOK /\ ControlOK
  <2> SUFFICES ASSUME Init PROVE TypeOK /\ ControlOK
    OBVIOUS
  <2>1. user \in [Users -> User]
    BY InitialUsersAssumption DEF Init
  <2>2. 0 \in Passwords
    BY MaxResetsAssumption DEF Passwords
  <2>3. QED
    BY <2>1, <2>2 DEF Init, TypeOK, ControlOK, Steps, Argument
<1>2. TypeOK /\ ControlOK /\ [Next]_vars => TypeOK' /\ ControlOK'
  <2> SUFFICES ASSUME TypeOK, ControlOK, [Next]_vars PROVE TypeOK' /\ ControlOK'
    OBVIOUS
  <2> user' \in [Users -> User]
    BY EveryRowsStep DEF RowsStep
  <2> USE DEF TypeOK, ControlOK, Goto, accounts, Steps, Answers
  <2>1. ASSUME NEW p \in Requests, Refuse(p)
        PROVE  TypeOK' /\ ControlOK'
    BY <2>1 DEF Refuse
  <2>2. ASSUME NEW p \in Requests, NEW u \in Users, BeginOAuth(p, u)
        PROVE  TypeOK' /\ ControlOK'
    <3>1. PICK r : r = [uid |-> u, pw |-> None, seen |-> user[u], jwt |-> None]
      OBVIOUS
    <3>2. user[u] \in User \cup {None}
      BY DEF Found
    <3>3. r \in Argument /\ r.uid = u /\ r.pw = None /\ r.seen = user[u]
      BY <3>1, <3>2 DEF Argument
    <3>4. arg' = [arg EXCEPT ![p] = r]
      BY <2>2, <3>1 DEF BeginOAuth
    <3>5. arg' \in [Requests -> Argument] /\ arg'[p] = r
          /\ \A q \in Requests \ {p} : arg'[q] = arg[q]
      BY <3>3, <3>4, OneEntry
    <3>6. QED
      BY <2>2, <3>3, <3>5 DEF BeginOAuth
  <2>3. ASSUME NEW p \in Requests, NEW u \in Users, NEW pw \in Passwords, BeginLogin(p,
               u, pw)
        PROVE  TypeOK' /\ ControlOK'
    <3>1. PICK r : r = [uid |-> u, pw |-> pw, seen |-> Found(u), jwt |-> None]
      OBVIOUS
    <3>2. Found(u) \in User \cup {None}
      BY DEF Found
    <3>3. r \in Argument /\ r.uid = u /\ r.pw = pw /\ r.seen = Found(u)
      BY <3>1, <3>2 DEF Argument
    <3>4. arg' = [arg EXCEPT ![p] = r]
      BY <2>3, <3>1 DEF BeginLogin
    <3>5. arg' \in [Requests -> Argument] /\ arg'[p] = r
          /\ \A q \in Requests \ {p} : arg'[q] = arg[q]
      BY <3>3, <3>4, OneEntry
    <3>6. QED
      BY <2>3, <3>3, <3>5 DEF BeginLogin
  <2>4. ASSUME NEW p \in Requests, RecordAttempt(p)
        PROVE  TypeOK' /\ ControlOK'
    <3>1. PICK row : row = [by |-> p, succeeded |-> Succeeded(p)]
      OBVIOUS
    <3>2. row \in Attempt
      BY <3>1 DEF Attempt, Succeeded
    <3>3. arg[p].uid \in Users /\ pc[p] = "compare"
      BY <2>4 DEF RecordAttempt
    <3>4. attempts' = [attempts EXCEPT ![arg[p].uid] = attempts[arg[p].uid] \cup {row}]
      BY <2>4, <3>1 DEF RecordAttempt
    <3>5. attempts[arg[p].uid] \cup {row} \in SUBSET Attempt
      BY <3>2, <3>3
    <3>6. attempts' \in [Users -> SUBSET Attempt]
      BY <3>4, <3>5
    <3>7. Succeeded(p) => arg[p].seen \in User
      BY DEF Succeeded, Argument
    <3>8. QED
      BY <2>4, <3>3, <3>6, <3>7 DEF RecordAttempt
  <2>5. ASSUME NEW p \in Requests, IssueSession(p)
        PROVE  TypeOK' /\ ControlOK'
    <3>1. PICK jwt :
          jwt = [uid |-> arg[p].uid, version |-> arg[p].seen.password,
                 presented |-> arg[p].pw]
      OBVIOUS
    <3>2. arg[p].uid \in Users /\ arg[p].seen \in User /\ arg[p].pw \in Passwords \cup {None}
      BY <2>5 DEF IssueSession, Argument
    <3>3. jwt \in Jwt
      BY <3>1, <3>2 DEF Jwt, User
    <3>4. jwts' \in SUBSET Jwt
      BY <2>5, <3>1, <3>3 DEF IssueSession
    <3>5. QED
      BY <2>5, <3>2, <3>4 DEF IssueSession
  <2>6. ASSUME NEW p \in Requests, Fail(p)
        PROVE  TypeOK' /\ ControlOK'
    BY <2>6 DEF Fail
  <2>7. ASSUME NEW p \in Requests, NEW jwt \in jwts, ReadSession(p, jwt)
        PROVE  TypeOK' /\ ControlOK'
    <3>1. PICK r : r = [uid |-> jwt.uid, pw |-> None, seen |-> None, jwt |-> jwt]
      OBVIOUS
    <3>2. jwt \in Jwt /\ jwt.uid \in Users
      BY DEF Jwt
    <3>3. r \in Argument /\ r.uid = jwt.uid
      BY <3>1, <3>2 DEF Argument
    <3>4. arg' = [arg EXCEPT ![p] = r]
      BY <2>7, <3>1 DEF ReadSession
    <3>5. arg' \in [Requests -> Argument] /\ arg'[p] = r
          /\ \A q \in Requests \ {p} : arg'[q] = arg[q]
      BY <3>3, <3>4, OneEntry
    <3>6. QED
      BY <2>7, <3>3, <3>5 DEF ReadSession
  <2>8. ASSUME NEW u \in Users, Verify(u)
        PROVE  TypeOK' /\ ControlOK'
    BY <2>8 DEF Verify
  <2>9. ASSUME NEW u \in Users, ResetPassword(u)
        PROVE  TypeOK' /\ ControlOK'
    <3>1. resets[u] + 1 \in Passwords
      BY <2>9, MaxResetsAssumption DEF ResetPassword, Passwords
    <3>2. QED
      BY <2>9, <3>1 DEF ResetPassword
  <2>10. ASSUME NEW u \in Users, EraseAttempts(u)
        PROVE  TypeOK' /\ ControlOK'
    BY <2>10 DEF EraseAttempts
  <2>11. ASSUME NEW u \in Users, CommitDeletion(u)
        PROVE  TypeOK' /\ ControlOK'
    BY <2>11 DEF CommitDeletion
  <2>12. ASSUME NEW u \in Users, AbortDeletion(u)
        PROVE  TypeOK' /\ ControlOK'
    BY <2>12 DEF AbortDeletion
  <2>13. ASSUME NEW u \in Users, Moderate(u)
        PROVE  TypeOK' /\ ControlOK'
    BY <2>13 DEF Moderate
  <2>14. CASE UNCHANGED vars
    BY <2>14 DEF vars
  <2>15. QED
    BY <2>1, <2>2, <2>3, <2>4, <2>5, <2>6, <2>7, <2>8, <2>9, <2>10, <2>11, <2>12,
      <2>13, <2>14 DEF Next, Served
<1>3. QED
  BY <1>1, <1>2, PTL DEF Spec

-------------------------------------------------------------------------------
(* The audit trail                                                         *)

\* A login that was judged is recorded, as a success if it goes on.
Recorded(p) ==
  pc[p] \in {"jwt", "signed-in", "rejected"} /\ arg[p].pw # None =>
    \/ user[arg[p].uid].status = "DELETED"
    \/ \E row \in attempts[arg[p].uid] :
         row.by = p /\ (pc[p] \in {"jwt", "signed-in"} => row.succeeded)

AllRecorded == \A p \in Requests : Recorded(p)

\* Rows are only lost to a deletion.
LEMMA StillRecorded ==
  ASSUME TypeOK, ControlOK, [Next]_vars, NEW q \in Requests, Recorded(q),
         pc'[q] = pc[q], arg'[q] = arg[q],
         \A u \in Users : attempts[u] \subseteq attempts'[u] \/ user'[u].status = "DELETED"
  PROVE  Recorded(q)'
<1>1. SUFFICES ASSUME pc[q] \in {"jwt", "signed-in", "rejected"}, arg[q].pw # None
               PROVE  \/ user'[arg[q].uid].status = "DELETED"
                      \/ \E row \in attempts'[arg[q].uid] :
                           row.by = q /\ (pc[q] \in {"jwt", "signed-in"} => row.succeeded)
  BY DEF Recorded
<1>2. arg[q].uid \in Users
  BY <1>1 DEF ControlOK
<1>3. RowStep(arg[q].uid)
  BY <1>2, EveryRowsStep DEF RowsStep
<1>4. QED
  BY <1>1, <1>2, <1>3 DEF Recorded, RowStep

\* The audit trail misses no login that got as far as the password, until the
\* account is deleted with its address.
THEOREM AuditTrail == Spec => []EveryAttemptRecorded
<1>1. Init => AllRecorded
  BY DEF Init, AllRecorded, Recorded
<1>2. TypeOK /\ ControlOK /\ AllRecorded /\ [Next]_vars => AllRecorded'
  <2> SUFFICES ASSUME TypeOK, ControlOK, AllRecorded, [Next]_vars PROVE AllRecorded'
    OBVIOUS
  <2> USE DEF TypeOK, Goto, accounts
  <2>1. ASSUME NEW p \in Requests, Refuse(p)
        PROVE  AllRecorded'
    <3>1. /\ attempts' = attempts
          /\ \A q \in Requests \ {p} : pc'[q] = pc[q] /\ arg'[q] = arg[q]
      BY <2>1 DEF Refuse
    <3>2. pc'[p] \notin {"jwt", "signed-in", "rejected"} \/ arg'[p].pw = None
      BY <2>1 DEF Refuse
    <3>3. Recorded(p)'
      BY <3>2 DEF Recorded
    <3>4. QED
      BY <3>1, <3>3, StillRecorded DEF AllRecorded
  <2>2. ASSUME NEW p \in Requests, NEW u \in Users, BeginOAuth(p, u)
        PROVE  AllRecorded'
    <3>1. /\ attempts' = attempts
          /\ \A q \in Requests \ {p} : pc'[q] = pc[q] /\ arg'[q] = arg[q]
      BY <2>2 DEF BeginOAuth
    <3>2. pc'[p] \notin {"jwt", "signed-in", "rejected"} \/ arg'[p].pw = None
      BY <2>2 DEF BeginOAuth
    <3>3. Recorded(p)'
      BY <3>2 DEF Recorded
    <3>4. QED
      BY <3>1, <3>3, StillRecorded DEF AllRecorded
  <2>3. ASSUME NEW p \in Requests, NEW u \in Users, NEW pw \in Passwords, BeginLogin(p,
               u, pw)
        PROVE  AllRecorded'
    <3>1. /\ attempts' = attempts
          /\ \A q \in Requests \ {p} : pc'[q] = pc[q] /\ arg'[q] = arg[q]
      BY <2>3 DEF BeginLogin
    <3>2. pc'[p] \notin {"jwt", "signed-in", "rejected"} \/ arg'[p].pw = None
      BY <2>3 DEF BeginLogin
    <3>3. Recorded(p)'
      BY <3>2 DEF Recorded
    <3>4. QED
      BY <3>1, <3>3, StillRecorded DEF AllRecorded
  <2>4. ASSUME NEW p \in Requests, RecordAttempt(p)
        PROVE  AllRecorded'
    <3>1. arg' = arg /\ arg[p].uid \in Users /\ pc[p] = "compare"
      BY <2>4 DEF RecordAttempt, ControlOK
    <3>2. PICK row : row = [by |-> p, succeeded |-> Succeeded(p)]
      OBVIOUS
    <3>3. row.by = p /\ (Succeeded(p) => row.succeeded)
      BY <3>2
    <3>4. attempts' = [attempts EXCEPT ![arg[p].uid] = attempts[arg[p].uid] \cup {row}]
      BY <2>4, <3>2 DEF RecordAttempt
    <3>5. /\ row \in attempts'[arg[p].uid]
          /\ \A u \in Users : attempts[u] \subseteq attempts'[u]
      BY <3>1, <3>4
    <3>6. \A q \in Requests \ {p} : Recorded(q)'
      BY <2>4, <3>1, <3>5, StillRecorded DEF RecordAttempt, AllRecorded
    <3>7. pc'[p] \in {"jwt", "signed-in"} => Succeeded(p)
      BY <2>4 DEF RecordAttempt
    <3>8. Recorded(p)'
      BY <3>1, <3>3, <3>5, <3>7 DEF Recorded
    <3>9. QED
      BY <3>6, <3>8 DEF AllRecorded
  <2>5. ASSUME NEW p \in Requests, IssueSession(p)
        PROVE  AllRecorded'
    <3>1. arg' = arg /\ attempts' = attempts /\ user' = user /\ pc[p] = "jwt"
          /\ \A q \in Requests \ {p} : pc'[q] = pc[q]
      BY <2>5 DEF IssueSession
    <3>2. Recorded(p)'
      BY <3>1 DEF AllRecorded, Recorded
    <3>3. QED
      BY <3>1, <3>2, StillRecorded DEF AllRecorded
  <2>6. ASSUME NEW p \in Requests, Fail(p)
        PROVE  AllRecorded'
    <3>1. /\ attempts' = attempts
          /\ \A q \in Requests \ {p} : pc'[q] = pc[q] /\ arg'[q] = arg[q]
      BY <2>6 DEF Fail
    <3>2. pc'[p] \notin {"jwt", "signed-in", "rejected"} \/ arg'[p].pw = None
      BY <2>6 DEF Fail
    <3>3. Recorded(p)'
      BY <3>2 DEF Recorded
    <3>4. QED
      BY <3>1, <3>3, StillRecorded DEF AllRecorded
  <2>7. ASSUME NEW p \in Requests, NEW jwt \in jwts, ReadSession(p, jwt)
        PROVE  AllRecorded'
    <3>1. /\ attempts' = attempts
          /\ \A q \in Requests \ {p} : pc'[q] = pc[q] /\ arg'[q] = arg[q]
      BY <2>7 DEF ReadSession
    <3>2. pc'[p] \notin {"jwt", "signed-in", "rejected"} \/ arg'[p].pw = None
      BY <2>7 DEF ReadSession
    <3>3. Recorded(p)'
      BY <3>2 DEF Recorded
    <3>4. QED
      BY <3>1, <3>3, StillRecorded DEF AllRecorded
  <2>8. ASSUME NEW u \in Users, Verify(u)
        PROVE  AllRecorded'
    BY <2>8, StillRecorded DEF Verify, AllRecorded
  <2>9. ASSUME NEW u \in Users, ResetPassword(u)
        PROVE  AllRecorded'
    BY <2>9, StillRecorded DEF ResetPassword, AllRecorded
  <2>10. ASSUME NEW u \in Users, EraseAttempts(u)
        PROVE  AllRecorded'
    BY <2>10, StillRecorded DEF EraseAttempts, AllRecorded
  <2>11. ASSUME NEW u \in Users, CommitDeletion(u)
        PROVE  AllRecorded'
    <3>1. /\ user'[u].status = "DELETED" /\ \A v \in Users \ {u} : attempts'[v] = attempts[v]
          /\ UNCHANGED <<pc, arg>>
      BY <2>11 DEF CommitDeletion, User
    <3>2. QED
      BY <3>1, StillRecorded DEF AllRecorded
  <2>12. ASSUME NEW u \in Users, AbortDeletion(u)
        PROVE  AllRecorded'
    BY <2>12, StillRecorded DEF AbortDeletion, AllRecorded
  <2>13. ASSUME NEW u \in Users, Moderate(u)
        PROVE  AllRecorded'
    BY <2>13, StillRecorded DEF Moderate, AllRecorded
  <2>14. CASE UNCHANGED vars
    BY <2>14, StillRecorded DEF vars, AllRecorded
  <2>15. QED
    BY <2>1, <2>2, <2>3, <2>4, <2>5, <2>6, <2>7, <2>8, <2>9, <2>10, <2>11, <2>12,
      <2>13, <2>14 DEF Next, Served
<1>3. AllRecorded => EveryAttemptRecorded
  BY DEF AllRecorded, Recorded, EveryAttemptRecorded
<1>4. QED
  BY <1>1, <1>2, <1>3, Typing, PTL DEF Spec

-------------------------------------------------------------------------------
(* Sessions and accounts                                                   *)

\* What a login has read and a session says, against the row as it is now: an
\* address once verified stays so, and a session carries the digest of the
\* password that was presented for it.
LoginOK(p) ==
  /\ pc[p] = "compare" /\ arg[p].seen # None /\ arg[p].seen.verified =>
       user[arg[p].uid].verified \/ user[arg[p].uid].status = "DELETED"
  /\ pc[p] = "jwt" =>
       /\ user[arg[p].uid].verified \/ user[arg[p].uid].status = "DELETED"
       /\ arg[p].pw # None => arg[p].seen.password = arg[p].pw

SessionsOK ==
  /\ \A u \in Users : user[u].oauth =>
       user[u].verified \/ user[u].status = "DELETED"
  /\ \A p \in Requests : LoginOK(p)
  /\ \A jwt \in jwts : jwt.presented # None => jwt.version = jwt.presented

\* What a login has read does not go out of date but by a deletion.
LEMMA LoginStays ==
  ASSUME TypeOK, ControlOK, SessionsOK, [Next]_vars, NEW q \in Requests,
         pc'[q] = pc[q], arg'[q] = arg[q]
  PROVE  LoginOK(q)'
<1>1. LoginOK(q)
  BY DEF SessionsOK
<1>2. pc[q] \in {"compare", "jwt"} => RowStep(arg[q].uid)
  BY EveryRowsStep DEF ControlOK, RowsStep
<1>3. QED
  BY <1>1, <1>2 DEF LoginOK, RowStep

\* A tombstone aside, who signed up by OAuth is verified.
LEMMA OAuthStays ==
  ASSUME TypeOK, SessionsOK, [Next]_vars
  PROVE  \A u \in Users : user'[u].oauth => user'[u].verified \/ user'[u].status = "DELETED"
BY EveryRowsStep DEF SessionsOK, RowsStep, RowStep

\* Every step keeps sessions and logins in order.
LEMMA SessionsStep ==
  ASSUME TypeOK, ControlOK, SessionsOK, [Next]_vars
  PROVE  SessionsOK'
<1> USE DEF TypeOK, Goto, accounts
<1> \A u \in Users : user'[u].oauth => user'[u].verified \/ user'[u].status = "DELETED"
  BY OAuthStays
<1>1. ASSUME NEW p \in Requests, Refuse(p)
      PROVE  SessionsOK'
  <2>1. \A q \in Requests \ {p} : LoginOK(q)'
    BY <1>1, LoginStays DEF Refuse
  <2>2. jwts' = jwts /\ pc'[p] \notin {"compare", "jwt"}
    BY <1>1 DEF Refuse
  <2>3. QED
    BY <2>1, <2>2 DEF SessionsOK, LoginOK
<1>2. ASSUME NEW p \in Requests, NEW u \in Users, BeginOAuth(p, u)
      PROVE  SessionsOK'
  <2>1. \A q \in Requests \ {p} : LoginOK(q)'
    BY <1>2, LoginStays DEF BeginOAuth
  <2>2. /\ jwts' = jwts /\ user' = user /\ pc'[p] = "jwt"
        /\ arg'[p].uid = u /\ arg'[p].pw = None /\ user[u].oauth
    BY <1>2 DEF BeginOAuth
  <2>3. LoginOK(p)'
    BY <2>2 DEF SessionsOK, LoginOK
  <2>4. QED
    BY <2>1, <2>2, <2>3 DEF SessionsOK
<1>3. ASSUME NEW p \in Requests, NEW u \in Users, NEW pw \in Passwords, BeginLogin(p,
             u, pw)
      PROVE  SessionsOK'
  <2>1. \A q \in Requests \ {p} : LoginOK(q)'
    BY <1>3, LoginStays DEF BeginLogin
  <2>2. /\ jwts' = jwts /\ user' = user /\ pc'[p] = "compare"
        /\ arg'[p].uid = u /\ arg'[p].seen = Found(u)
    BY <1>3 DEF BeginLogin
  <2>3. LoginOK(p)'
    BY <2>2 DEF LoginOK, Found
  <2>4. QED
    BY <2>1, <2>2, <2>3 DEF SessionsOK
<1>4. ASSUME NEW p \in Requests, RecordAttempt(p)
      PROVE  SessionsOK'
  <2>1. \A q \in Requests \ {p} : LoginOK(q)'
    BY <1>4, LoginStays DEF RecordAttempt
  <2>2. /\ jwts' = jwts /\ user' = user /\ arg' = arg /\ pc[p] = "compare"
        /\ pc'[p] = IF Succeeded(p) THEN "jwt" ELSE "rejected"
    BY <1>4 DEF RecordAttempt
  <2>3. LoginOK(p)'
    BY <2>2 DEF SessionsOK, LoginOK, Succeeded
  <2>4. QED
    BY <2>1, <2>2, <2>3 DEF SessionsOK
<1>5. ASSUME NEW p \in Requests, IssueSession(p)
      PROVE  SessionsOK'
  <2>1. \A q \in Requests \ {p} : LoginOK(q)'
    BY <1>5, LoginStays DEF IssueSession
  <2>2. /\ pc[p] = "jwt" /\ pc'[p] \in {"signed-in", "rejected"}
    BY <1>5 DEF IssueSession
  <2>3. LoginOK(p)'
    BY <2>2 DEF LoginOK
  <2>4. PICK jwt :
          jwt = [uid |-> arg[p].uid, version |-> arg[p].seen.password,
                 presented |-> arg[p].pw]
    OBVIOUS
  <2>5. jwt.version = arg[p].seen.password /\ jwt.presented = arg[p].pw
    BY <2>4
  <2>6. jwt.presented # None => jwt.version = jwt.presented
    BY <2>2, <2>5 DEF SessionsOK, LoginOK
  <2>7. jwts' \subseteq jwts \cup {jwt}
    BY <1>5, <2>4 DEF IssueSession
  <2>8. QED
    BY <2>1, <2>3, <2>6, <2>7 DEF SessionsOK
<1>6. ASSUME NEW p \in Requests, Fail(p)
      PROVE  SessionsOK'
  <2>1. \A q \in Requests \ {p} : LoginOK(q)'
    BY <1>6, LoginStays DEF Fail
  <2>2. jwts' = jwts /\ pc'[p] \notin {"compare", "jwt"}
    BY <1>6 DEF Fail
  <2>3. QED
    BY <2>1, <2>2 DEF SessionsOK, LoginOK
<1>7. ASSUME NEW p \in Requests, NEW jwt \in jwts, ReadSession(p, jwt)
      PROVE  SessionsOK'
  <2>1. \A q \in Requests \ {p} : LoginOK(q)'
    BY <1>7, LoginStays DEF ReadSession
  <2>2. jwts' = jwts /\ pc'[p] \notin {"compare", "jwt"}
    BY <1>7 DEF ReadSession
  <2>3. QED
    BY <2>1, <2>2 DEF SessionsOK, LoginOK
<1>8. ASSUME NEW u \in Users, Verify(u)
      PROVE  SessionsOK'
  <2>1. (\A q \in Requests : LoginOK(q)') /\ jwts' = jwts
    BY <1>8, LoginStays DEF Verify
  <2>2. QED
    BY <2>1 DEF SessionsOK
<1>9. ASSUME NEW u \in Users, ResetPassword(u)
      PROVE  SessionsOK'
  <2>1. (\A q \in Requests : LoginOK(q)') /\ jwts' = jwts
    BY <1>9, LoginStays DEF ResetPassword
  <2>2. QED
    BY <2>1 DEF SessionsOK
<1>10. ASSUME NEW u \in Users, EraseAttempts(u)
      PROVE  SessionsOK'
  <2>1. (\A q \in Requests : LoginOK(q)') /\ jwts' = jwts
    BY <1>10, LoginStays DEF EraseAttempts
  <2>2. QED
    BY <2>1 DEF SessionsOK
<1>11. ASSUME NEW u \in Users, CommitDeletion(u)
      PROVE  SessionsOK'
  <2>1. (\A q \in Requests : LoginOK(q)') /\ jwts' = jwts
    BY <1>11, LoginStays DEF CommitDeletion
  <2>2. QED
    BY <2>1 DEF SessionsOK
<1>12. ASSUME NEW u \in Users, AbortDeletion(u)
      PROVE  SessionsOK'
  <2>1. (\A q \in Requests : LoginOK(q)') /\ jwts' = jwts
    BY <1>12, LoginStays DEF AbortDeletion
  <2>2. QED
    BY <2>1 DEF SessionsOK
<1>13. ASSUME NEW u \in Users, Moderate(u)
      PROVE  SessionsOK'
  <2>1. (\A q \in Requests : LoginOK(q)') /\ jwts' = jwts
    BY <1>13, LoginStays DEF Moderate
  <2>2. QED
    BY <2>1 DEF SessionsOK
<1>14. CASE UNCHANGED vars
  <2>1. \A q \in Requests : LoginOK(q)'
    BY <1>14, LoginStays DEF vars
  <2>2. QED
    BY <1>14, <2>1 DEF vars, SessionsOK
<1>15. QED
  BY <1>1, <1>2, <1>3, <1>4, <1>5, <1>6, <1>7, <1>8, <1>9, <1>10, <1>11, <1>12, <1>13,
    <1>14 DEF Next, Served

\* Every reachable state has them in order.
LEMMA SessionsHold == Spec => []SessionsOK
<1>1. Init => SessionsOK
  <2> SUFFICES ASSUME Init PROVE SessionsOK
    OBVIOUS
  <2>1. \A u \in Users : user[u].oauth => user[u].verified
    BY InitialUsersAssumption DEF Init
  <2>2. QED
    BY <2>1 DEF Init, SessionsOK, LoginOK
<1>2. TypeOK /\ ControlOK /\ SessionsOK /\ [Next]_vars => SessionsOK'
  BY SessionsStep
<1>3. QED
  BY <1>1, <1>2, Typing, PTL DEF Spec

\* Only one action issues a session.
LEMMA OnlyIssueSignsIn ==
  ASSUME TypeOK, [Next]_vars, NEW p \in Requests, pc[p] # "signed-in", pc'[p] = "signed-in"
  PROVE  IssueSession(p) /\ Acceptable(arg[p].uid, arg[p].seen.password)
<1>1. IssueSession(p)
  BY DEF TypeOK, Goto, Next, Served, vars, accounts, Refuse, BeginOAuth, BeginLogin,
    RecordAttempt, IssueSession, Fail, ReadSession, Verify, ResetPassword, EraseAttempts,
    CommitDeletion, AbortDeletion, Moderate
<1>2. QED
  BY <1>1 DEF IssueSession, TypeOK


\* Likewise for the acceptance of a session that is presented.
LEMMA OnlyReadAccepts ==
  ASSUME TypeOK, [Next]_vars, NEW p \in Requests, pc[p] # "accepted", pc'[p] = "accepted"
  PROVE  \E jwt \in jwts : ReadSession(p, jwt)
BY DEF TypeOK, Goto, Next, Served, vars, accounts, Refuse, BeginOAuth, BeginLogin,
  RecordAttempt, IssueSession, Fail, ReadSession, Verify, ResetPassword, EraseAttempts,
  CommitDeletion, AbortDeletion, Moderate

\* A login succeeds only for an account that is then still active and verified
\* and whose password is still the one that was typed.
THEOREM CurrentSignIn == Spec => SignInIsCurrent
<1>1. TypeOK /\ ControlOK /\ SessionsOK /\ [Next]_vars => SignIn
  <2> SUFFICES ASSUME TypeOK, ControlOK, SessionsOK, [Next]_vars, NEW p \in Requests,
                      pc[p] # "signed-in", pc'[p] = "signed-in"
               PROVE  /\ Active(arg[p].uid) /\ user[arg[p].uid].verified
                      /\ arg[p].pw # None => user[arg[p].uid].password = arg[p].pw
    BY DEF SignIn
  <2>1. pc[p] = "jwt" /\ Acceptable(arg[p].uid, arg[p].seen.password)
    BY OnlyIssueSignsIn DEF IssueSession
  <2>2. LoginOK(p)
    BY DEF SessionsOK
  <2>3. QED
    BY <2>1, <2>2 DEF LoginOK, Acceptable, Active
<1>2. QED
  BY <1>1, Typing, SessionsHold, PTL DEF Spec, SignInIsCurrent

\* A session is accepted only for an active account, and if it was issued for a
\* password, only while that is the account's password.
THEOREM FollowTheAccount == Spec => SessionsFollowTheAccount
<1>1. TypeOK /\ SessionsOK /\ [Next]_vars => Acceptance
  <2> SUFFICES ASSUME TypeOK, SessionsOK, [Next]_vars, NEW p \in Requests,
                      pc[p] # "accepted", pc'[p] = "accepted"
               PROVE  /\ Active(arg'[p].jwt.uid)
                      /\ arg'[p].jwt.presented # None =>
                           user[arg'[p].jwt.uid].password = arg'[p].jwt.presented
    BY DEF Acceptance
  <2>1. PICK jwt \in jwts : ReadSession(p, jwt)
    BY OnlyReadAccepts
  <2>2. arg'[p].jwt = jwt /\ Acceptable(jwt.uid, jwt.version)
    BY <2>1 DEF ReadSession, Goto, TypeOK
  <2>3. jwt.presented # None => jwt.version = jwt.presented
    BY DEF SessionsOK
  <2>4. QED
    BY <2>2, <2>3 DEF Acceptable
<1>2. QED
  BY <1>1, Typing, SessionsHold, PTL DEF Spec, SessionsFollowTheAccount
===============================================================================
