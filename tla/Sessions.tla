-------------------------------- MODULE Sessions --------------------------------
(***************************************************************************)
(* Logins and JWT sessions against what happens to the accounts meanwhile: *)
(* password resets, deletions, suspensions.                                *)
(*                                                                         *)
(* A login reads the User row, compares the password (bcrypt, which takes  *)
(* its time), writes a LoginAttempt row and only then issues the session,  *)
(* with no lock at any point; the jwt callback reads the row again when it *)
(* issues a session and whenever one is presented.  A session cannot be    *)
(* recalled: whoever has it may present it at any time.                    *)
(*                                                                         *)
(* A password is a number, the count of resets that led to it, and stands  *)
(* for its bcrypt hash and for the HMAC digest of that hash as well: each  *)
(* hash is new, so the three say the same.                                 *)
(***************************************************************************)
EXTENDS Naturals

CONSTANTS
  Users,          \* account ids
  Requests,       \* requests in flight; each is served once
  None,           \* no password, no session, no row
  InitialUsers,   \* what a User row may be at the start
  MaxResets       \* bound on password resets of an account

ASSUME MaxResetsAssumption == MaxResets \in Nat /\ None \notin Nat

VARIABLES
  user,           \* committed User rows
  resets,         \* password resets so far
  attempts,       \* LoginAttempt rows under the address of each account
  erasing,        \* the rows a deletion in progress has deleted, or None
  jwts,           \* every session ever issued
  pc,             \* where each request is; an element of Answers at its end
  arg             \* a login's captured row and password, a read's session

vars == <<user, resets, attempts, erasing, jwts, pc, arg>>

-------------------------------------------------------------------------------
(* Values *)

Passwords == 0..MaxResets

\* oauth: the account was created by OAuth and so has an Account row and no
\* passwordHash; requestPasswordReset sends such an account no link.
User == [status   : {"ACTIVE", "SUSPENDED", "DELETED"},
         verified : BOOLEAN,
         oauth    : BOOLEAN,
         password : Passwords \cup {None}]

ASSUME InitialUsersAssumption ==
  \A r \in InitialUsers :
    /\ r \in User /\ r.status # "DELETED"
    /\ r.oauth => r.verified
    /\ r.password = IF r.oauth THEN None ELSE 0

Attempt == [by : Requests, succeeded : BOOLEAN]

\* version is the credentialVersion claim, null for OAuth; presented is not in
\* the session but remembers the password the login gave.
Jwt == [uid : Users, version : Passwords \cup {None}, presented : Passwords \cup {None}]

Argument == [uid  : Users \cup {None},
             pw   : Passwords \cup {None},
             seen : User \cup {None},
             jwt  : Jwt \cup {None}]

Answers == {"signed-in", "rejected", "accepted", "ended", "rate-limited", "error"}

Steps == {"idle", "compare", "jwt"} \cup Answers

Active(u) == user[u].status = "ACTIVE"

Init ==
  /\ user \in [Users -> InitialUsers]
  /\ resets = [u \in Users |-> 0]
  /\ attempts = [u \in Users |-> {}]
  /\ erasing = [u \in Users |-> None]
  /\ jwts = {}
  /\ pc = [p \in Requests |-> "idle"]
  /\ arg = [p \in Requests |-> [uid |-> None, pw |-> None, seen |-> None, jwt |-> None]]

Goto(p, from, to) ==
  /\ pc[p] = from
  /\ pc' = [pc EXCEPT ![p] = to]

accounts == <<user, resets, erasing>>

-------------------------------------------------------------------------------
(* loginWithCredentials, then the jwt callback                              *)

\* A limited attempt is not recorded.
Refuse(p) ==
  /\ Goto(p, "idle", "rate-limited")
  /\ UNCHANGED <<accounts, attempts, jwts, arg>>

\* The row found under the address of u: none once the address is a tombstone.
Found(u) == IF user[u].status = "DELETED" THEN None ELSE user[u]

BeginLogin(p, u, pw) ==
  /\ Goto(p, "idle", "compare")
  /\ arg' = [arg EXCEPT ![p] = [uid |-> u, pw |-> pw, seen |-> Found(u), jwt |-> None]]
  /\ UNCHANGED <<accounts, attempts, jwts>>

\* Judged by the row as it was read.
Succeeded(p) ==
  LET seen == arg[p].seen IN
    /\ seen # None
    /\ seen.password = arg[p].pw
    /\ seen.verified
    /\ seen.status = "ACTIVE"

\* Fault: only failures are recorded.
RecordFailures(p) ==
  /\ Goto(p, "compare", IF Succeeded(p) THEN "jwt" ELSE "rejected")
  /\ attempts' = IF Succeeded(p) THEN attempts
       ELSE [attempts EXCEPT ![arg[p].uid] = @ \cup {[by |-> p, succeeded |-> FALSE]}]
  /\ UNCHANGED <<accounts, jwts, arg>>

\* loginAttempt.create, with the address that was typed
RecordAttempt(p) ==
  /\ Goto(p, "compare", IF Succeeded(p) THEN "jwt" ELSE "rejected")
  /\ attempts' = [attempts EXCEPT ![arg[p].uid] =
       @ \cup {[by |-> p, succeeded |-> Succeeded(p)]}]
  /\ UNCHANGED <<accounts, jwts, arg>>

\* An OAuth login comes to the jwt callback with the account it found.
BeginOAuth(p, u) ==
  /\ user[u].oauth /\ user[u].status # "DELETED"
  /\ Goto(p, "idle", "jwt")
  /\ arg' = [arg EXCEPT ![p] = [uid |-> u, pw |-> None, seen |-> user[u], jwt |-> None]]
  /\ UNCHANGED <<accounts, attempts, jwts>>

\* What the jwt callback asks of the row it reads, given the session's version.
Acceptable(u, version) ==
  /\ Active(u)
  /\ version # None => version = user[u].password

\* Fault: at a login the callback trusts what authorize returned.
IssueUnchecked(p) ==
  /\ Goto(p, "jwt", "signed-in")
  /\ jwts' = jwts \cup {[uid |-> arg[p].uid, version |-> arg[p].seen.password,
                         presented |-> arg[p].pw]}
  /\ UNCHANGED <<accounts, attempts, arg>>

\* Fault: the version is taken from the row the callback reads.
IssueStamped(p) ==
  LET u == arg[p].uid IN
    /\ Goto(p, "jwt", IF Active(u) THEN "signed-in" ELSE "rejected")
    /\ jwts' = IF ~ Active(u) THEN jwts
         ELSE jwts \cup {[uid |-> u, version |-> user[u].password, presented |-> arg[p].pw]}
    /\ UNCHANGED <<accounts, attempts, arg>>

\* Fault: the user's id is not copied into the session.
IssueAnonymous(p) ==
  /\ Goto(p, "jwt", "signed-in")
  /\ jwts' = jwts \cup {[uid |-> None, version |-> arg[p].seen.password, presented |-> arg[p].pw]}
  /\ UNCHANGED <<accounts, attempts, arg>>

\* The version is that of the row the password was compared with.
IssueSession(p) ==
  LET u == arg[p].uid
      jwt == [uid |-> u, version |-> arg[p].seen.password, presented |-> arg[p].pw]
  IN  /\ pc[p] = "jwt"
      /\ \/ /\ Acceptable(u, jwt.version)
            /\ jwts' = jwts \cup {jwt}
            /\ pc' = [pc EXCEPT ![p] = "signed-in"]
         \/ /\ ~ Acceptable(u, jwt.version)
            /\ pc' = [pc EXCEPT ![p] = "rejected"]
            /\ UNCHANGED jwts
      /\ UNCHANGED <<accounts, attempts, arg>>

\* A query fails: the login throws, and the audit row it wrote stays.
Fail(p) ==
  /\ pc[p] \in {"compare", "jwt"}
  /\ pc' = [pc EXCEPT ![p] = "error"]
  /\ UNCHANGED <<accounts, attempts, jwts, arg>>

\* Any request that asks for the session (getSession)
ReadSession(p, jwt) ==
  /\ Goto(p, "idle", IF Acceptable(jwt.uid, jwt.version) THEN "accepted" ELSE "ended")
  /\ arg' = [arg EXCEPT ![p] = [uid |-> jwt.uid, pw |-> None, seen |-> None, jwt |-> jwt]]
  /\ UNCHANGED <<accounts, attempts, jwts>>

-------------------------------------------------------------------------------
(* The accounts meanwhile.  A deletion holds the lock of the User row from   *)
(* EraseAttempts to its end, and other writers of the row wait for it.       *)

\* verifyEmail's commit, whatever the status of the account (AccountTokens)
Verify(u) ==
  /\ erasing[u] = None
  /\ ~ user[u].verified
  /\ user' = [user EXCEPT ![u] = [@ EXCEPT !.verified = TRUE]]
  /\ UNCHANGED <<resets, erasing, attempts, jwts, pc, arg>>

\* resetPassword's commit, likewise
ResetPassword(u) ==
  /\ erasing[u] = None
  /\ ~ user[u].oauth
  /\ resets[u] < MaxResets
  /\ resets' = [resets EXCEPT ![u] = @ + 1]
  /\ user' = [user EXCEPT ![u] = [@ EXCEPT !.password = resets[u] + 1]]
  /\ UNCHANGED <<erasing, attempts, jwts, pc, arg>>

\* loginAttempt.deleteMany removes the rows committed by now
EraseAttempts(u) ==
  /\ erasing[u] = None
  /\ Active(u)
  /\ erasing' = [erasing EXCEPT ![u] = attempts[u]]
  /\ UNCHANGED <<user, resets, attempts, jwts, pc, arg>>

CommitDeletion(u) ==
  /\ erasing[u] # None
  /\ user' = [user EXCEPT ![u] =
       [@ EXCEPT !.status = "DELETED", !.verified = FALSE, !.password = None]]
  /\ attempts' = [attempts EXCEPT ![u] = @ \ erasing[u]]
  /\ erasing' = [erasing EXCEPT ![u] = None]
  /\ UNCHANGED <<resets, jwts, pc, arg>>

AbortDeletion(u) ==
  /\ erasing[u] # None
  /\ erasing' = [erasing EXCEPT ![u] = None]
  /\ UNCHANGED <<user, resets, attempts, jwts, pc, arg>>

\* An operator suspends or reinstates an account in the database.
Moderate(u) ==
  /\ erasing[u] = None
  /\ user[u].status # "DELETED"
  /\ \E status \in {"ACTIVE", "SUSPENDED"} \ {user[u].status} :
       user' = [user EXCEPT ![u] = [@ EXCEPT !.status = status]]
  /\ UNCHANGED <<resets, erasing, attempts, jwts, pc, arg>>

-------------------------------------------------------------------------------
(* Specification *)

\* Every request has been served; the server waits.
Served ==
  /\ \A p \in Requests : pc[p] \in Answers
  /\ UNCHANGED vars

Next ==
  \/ Served
  \/ \E p \in Requests :
       \/ Refuse(p)
       \/ \E u \in Users : BeginOAuth(p, u) \/ \E pw \in Passwords : BeginLogin(p, u, pw)
       \/ RecordAttempt(p)
       \/ IssueSession(p)
       \/ Fail(p)
       \/ \E jwt \in jwts : ReadSession(p, jwt)
  \/ \E u \in Users :
       \/ Verify(u)
       \/ ResetPassword(u)
       \/ EraseAttempts(u)
       \/ CommitDeletion(u)
       \/ AbortDeletion(u)
       \/ Moderate(u)

Spec == Init /\ [][Next]_vars

-------------------------------------------------------------------------------
(* Properties *)

\* Every variable keeps to the values above.
TypeOK ==
  /\ user \in [Users -> User]
  /\ resets \in [Users -> Passwords]
  /\ attempts \in [Users -> SUBSET Attempt]
  /\ erasing \in [Users -> (SUBSET Attempt) \cup {None}]
  /\ jwts \in SUBSET Jwt
  /\ pc \in [Requests -> Steps]
  /\ arg \in [Requests -> Argument]

SignIn ==
  \A p \in Requests : pc[p] # "signed-in" /\ pc'[p] = "signed-in" =>
    /\ Active(arg[p].uid) /\ user[arg[p].uid].verified
    /\ arg[p].pw # None => user[arg[p].uid].password = arg[p].pw

\* A login succeeds only for an account that is then still active and verified
\* and whose password is still the one that was typed, although it was judged
\* by a row read before bcrypt ran: a reset, a deletion or a suspension that
\* commits in between wins.
SignInIsCurrent == [][SignIn]_vars

Acceptance ==
  \A p \in Requests : pc[p] # "accepted" /\ pc'[p] = "accepted" =>
    LET jwt == arg'[p].jwt IN
      /\ Active(jwt.uid)
      /\ jwt.presented # None => user[jwt.uid].password = jwt.presented

\* No session outlives what it stands for: one issued for a password is
\* accepted only while that is the account's password, and none is accepted
\* for an account that is not active, however long it was in flight or kept.
SessionsFollowTheAccount == [][Acceptance]_vars

\* The audit trail misses no login that got as far as the password, until the
\* account is deleted with its address.
EveryAttemptRecorded ==
  \A p \in Requests :
    /\ pc[p] \in {"jwt", "signed-in", "rejected"} /\ arg[p].pw # None
    /\ user[arg[p].uid].status # "DELETED"
    => \E row \in attempts[arg[p].uid] :
         row.by = p /\ (pc[p] = "signed-in" => row.succeeded)

\* A deletion erases the login attempts under the original address and is
\* serialised with logins: what the table says of that address afterwards is
\* only that logins failed.
NoSuccessAfterDeletion ==
  \A u \in Users : user[u].status = "DELETED" =>
    \A row \in attempts[u] : ~ row.succeeded
===============================================================================
