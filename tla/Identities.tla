------------------------------- MODULE Identities -------------------------------
(***************************************************************************)
(* Who an email address and an OAuth identity belong to: registrations,    *)
(* OAuth callbacks and account deletions, run at once against one          *)
(* PostgreSQL database at READ COMMITTED.                                  *)
(*                                                                         *)
(* Each request is a process and each database statement an action; user   *)
(* and account hold the COMMITTED rows.  lock[x] is the transaction that   *)
(* has inserted or deleted, and not yet committed, the row with unique key *)
(* x (an email or an identity), or that has selected account x FOR UPDATE. *)
(* An INSERT that meets such a key waits for that transaction to end; one  *)
(* that meets a committed row fails with a unique violation (P2002), which *)
(* undoes the whole transaction.                                           *)
(***************************************************************************)
EXTENDS Naturals

CONSTANTS
  Requests,       \* requests in flight; each is served once and creates at
                  \* most one User row, which is named after it
  Residents,      \* accounts there are at the start
  Emails,         \* addresses, as emailSchema normalises them
  Identities,     \* (provider, providerAccountId) pairs
  None,           \* no user, no email, no identity, no lock
  Resident        \* Resident[u] = [email, identity]

Users == Requests \cup Residents

Keys == Emails \cup Identities \cup Users

ASSUME KeysAssumption ==
  /\ None \notin Keys
  /\ Emails \cap Identities = {} /\ Emails \cap Users = {}
  /\ Identities \cap Users = {} /\ Requests \cap Residents = {}

\* The unique indexes hold at the start, and a live account has its email.
ASSUME ResidentAssumption ==
  /\ Resident \in [Residents -> [email : Emails, identity : Identities \cup {None}]]
  /\ \A u, v \in Residents : u # v =>
       /\ Resident[u].email # Resident[v].email
       /\ Resident[u].identity = Resident[v].identity => Resident[u].identity = None

VARIABLES
  user,           \* committed User rows
  account,        \* committed Account rows: the owner of each identity
  lock,           \* transaction holding a key or a User row
  pc,             \* where each request is; an element of Answers at its end
  arg             \* a request's operation and inputs, and the user it found

rows == <<user, account>>
vars == <<user, account, lock, pc, arg>>

-------------------------------------------------------------------------------
(* Values *)

\* email is None under the tombstone address, which is made from the row's id
\* and so taken by nobody else; complete says that the ConsentRecord rows and,
\* for a registration, the EmailVerificationToken row are there.
User == [status   : {"unborn", "ACTIVE", "SUSPENDED", "DELETED"},
         email    : Emails \cup {None},
         complete : BOOLEAN]

Argument == [op       : {"register", "oauth", "delete"},
             email    : Emails \cup {None},
             identity : Identities \cup {None},
             uid      : Users \cup {None}]

Answers == {"created", "existing-account",
            "signed-in", "not-active", "active-session", "email-registered", "conflict",
            "deleted", "not-deleted",
            "refused", "error"}

\* Inside a transaction the pc names the next statement.
Transaction == {"account", "email", "user", "consents", "link",
                "lock-user", "delete-accounts", "anonymize"}

Steps == {"idle", "mail", "reclassify-account", "reclassify-email", "core", "jwt"}
         \cup Transaction \cup Answers

-------------------------------------------------------------------------------
(* Reading the rows *)

Exists(u) == user[u].status # "unborn"

\* The account found by email, whatever its status; None is a query's null.
Holders(e) == {u \in Users : Exists(u) /\ user[u].email = e}

Active(u) == user[u].status = "ACTIVE"

Init ==
  /\ \E status \in [Residents -> {"ACTIVE", "SUSPENDED"}] :
       user = [u \in Users |->
         IF u \in Residents
           THEN [status |-> status[u], email |-> Resident[u].email, complete |-> TRUE]
           ELSE [status |-> "unborn", email |-> None, complete |-> FALSE]]
  /\ account = [i \in Identities |->
       IF \E u \in Residents : Resident[u].identity = i
         THEN CHOOSE u \in Residents : Resident[u].identity = i
         ELSE None]
  /\ lock = [x \in Keys |-> None]
  /\ pc = [p \in Requests |-> "idle"]
  /\ arg = [p \in Requests |-> [op |-> "register", email |-> None, identity |-> None,
                                uid |-> None]]

-------------------------------------------------------------------------------
(* Helpers of the actions *)

Goto(p, from, to) ==
  /\ pc[p] = from
  /\ pc' = [pc EXCEPT ![p] = to]

\* The end of p's transaction, by commit or rollback.
Release(p) == lock' = [x \in Keys |-> IF lock[x] = p THEN None ELSE lock[x]]

Take(p, keys) ==
  /\ \A x \in keys : lock[x] \in {None, p}
  /\ lock' = [x \in Keys |-> IF x \in keys THEN p ELSE lock[x]]

\* The rate limiter (registration, deletion) or validateOAuthProfile: nothing
\* of the database is touched.
Refuse(p) ==
  /\ Goto(p, "idle", "refused")
  /\ UNCHANGED <<rows, lock, arg>>

-------------------------------------------------------------------------------
(* registerUser *)

BeginRegister(p, e) ==
  /\ Goto(p, "idle", "email")
  /\ arg' = [arg EXCEPT ![p] = [op |-> "register", email |-> e, identity |-> None,
                                uid |-> None]]
  /\ UNCHANGED <<rows, lock>>

\* What each flow answers when the address is taken.
Taken(p) == IF arg[p].op = "register" THEN "existing-account" ELSE "email-registered"

\* Fault: the login is linked to the account found by its address.
LinkByEmail(p) ==
  LET found == Holders(arg[p].email) IN
    /\ Goto(p, "email", CASE found = {} -> "user"
                           [] found # {} /\ arg[p].op = "oauth" -> "core"
                           [] OTHER -> "existing-account")
    /\ account' \in {[account EXCEPT ![arg[p].identity] = u] : u \in found}
                     \cup {account}
    /\ UNCHANGED <<user, lock, arg>>

\* tx.user.findUnique({ where: { email } }), in both flows
FindEmail(p) ==
  /\ Goto(p, "email", IF Holders(arg[p].email) = {} THEN "user" ELSE Taken(p))
  /\ UNCHANGED <<rows, lock, arg>>

\* Fault: the User row is created in a transaction of its own, as the core's
\* createUser would.
CreateUserAlone(p) ==
  /\ Goto(p, "user", "consents")
  /\ lock[arg[p].email] = None
  /\ Holders(arg[p].email) = {}
  /\ user' = [user EXCEPT ![p] = [status |-> "ACTIVE", email |-> arg[p].email,
                                  complete |-> FALSE]]
  /\ UNCHANGED <<account, lock, arg>>

\* tx.user.create, in both flows
CreateUser(p) ==
  /\ Goto(p, "user", "consents")
  /\ lock[arg[p].email] = None
  /\ Holders(arg[p].email) = {}
  /\ Take(p, {arg[p].email})
  /\ UNCHANGED <<rows, arg>>

\* Fault: the outcome stays 'created' when the insert fails.
EmailConflictUnnoticed(p) ==
  /\ Goto(p, "user", IF arg[p].op = "register" THEN "mail" ELSE "reclassify-account")
  /\ lock[arg[p].email] = None
  /\ Holders(arg[p].email) # {}
  /\ Release(p)
  /\ UNCHANGED <<rows, arg>>

\* P2002 on User.email: the rollback is complete, and registerUser answers as
\* it does for an address it found taken; OAuth looks again.
EmailConflict(p) ==
  /\ Goto(p, "user", IF arg[p].op = "register" THEN "existing-account" ELSE "reclassify-account")
  /\ lock[arg[p].email] = None
  /\ Holders(arg[p].email) # {}
  /\ Release(p)
  /\ UNCHANGED <<rows, arg>>

NewUser(p) == [status |-> "ACTIVE", email |-> arg[p].email, complete |-> TRUE]

\* The consent rows; registerUser goes on with the verification token and
\* commits, OAuth still has the Account row to create.
CreateConsents(p) ==
  \/ /\ arg[p].op = "oauth"
     /\ Goto(p, "consents", "link")
     /\ UNCHANGED <<rows, lock, arg>>
  \/ /\ arg[p].op = "register"
     /\ Goto(p, "consents", "mail")
     /\ user' = [user EXCEPT ![p] = NewUser(p)]
     /\ Release(p)
     /\ UNCHANGED <<account, arg>>

\* Mail errors are swallowed: the answer is the same.
SendVerification(p) ==
  /\ Goto(p, "mail", "created")
  /\ UNCHANGED <<rows, lock, arg>>

-------------------------------------------------------------------------------
(* An OAuth callback: the signIn callback with ensureOAuthIdentity, then     *)
(* Auth.js, which looks the Account up again, then the jwt callback.         *)

\* The email is the provider's, which may have changed since the last login.
BeginOAuth(p, i, e) ==
  /\ Goto(p, "idle", "account")
  /\ arg' = [arg EXCEPT ![p] = [op |-> "oauth", email |-> e, identity |-> i,
                                uid |-> None]]
  /\ UNCHANGED <<rows, lock>>

\* Where a login goes once its Account row was found.
Existing(i) == IF Active(account[i]) THEN "core" ELSE "not-active"

\* cookie: a session cookie came with the callback, valid or not.
FindAccount(p, cookie) ==
  /\ LET i == arg[p].identity IN
       Goto(p, "account", CASE account[i] # None -> Existing(i)
                            [] account[i] = None /\ cookie -> "active-session"
                            [] OTHER -> "email")
  /\ UNCHANGED <<rows, lock, arg>>

\* tx.account.create, and the commit of User, consents and Account together
LinkAccount(p) ==
  /\ Goto(p, "link", "core")
  /\ lock[arg[p].identity] = None
  /\ account[arg[p].identity] = None
  /\ user' = [user EXCEPT ![p] = NewUser(p)]
  /\ account' = [account EXCEPT ![arg[p].identity] = p]
  /\ Release(p)
  /\ UNCHANGED arg

\* P2002 on (provider, providerAccountId): the new User is undone with it
AccountConflict(p) ==
  /\ Goto(p, "link", "reclassify-account")
  /\ lock[arg[p].identity] = None
  /\ account[arg[p].identity] # None
  /\ Release(p)
  /\ UNCHANGED <<rows, arg>>

\* Fault: the address is not looked up again.
ReclassifyAccountOnly(p) ==
  /\ LET i == arg[p].identity IN
       Goto(p, "reclassify-account", IF account[i] # None THEN Existing(i) ELSE "conflict")
  /\ UNCHANGED <<rows, lock, arg>>

\* classifyAfterUniqueConflict, two reads outside any transaction
ReclassifyAccount(p) ==
  /\ LET i == arg[p].identity IN
       Goto(p, "reclassify-account",
            IF account[i] # None THEN Existing(i) ELSE "reclassify-email")
  /\ UNCHANGED <<rows, lock, arg>>

ReclassifyEmail(p) ==
  /\ Goto(p, "reclassify-email",
          IF Holders(arg[p].email) # {} THEN "email-registered" ELSE "conflict")
  /\ UNCHANGED <<rows, lock, arg>>

\* Fault: the address is kept where the account's id belongs.
CoreLookupByEmail(p) ==
  /\ Goto(p, "core", "jwt")
  /\ arg' = [arg EXCEPT ![p] = [@ EXCEPT !.uid = arg[p].email]]
  /\ UNCHANGED <<rows, lock>>

\* handleLoginOrRegister: the account found now is the one signed in, unless
\* the browser is signed in to another (OAuthAccountNotLinked); without one
\* Auth.js turns to createUser or linkAccount, which the adapter refuses.
CoreLookup(p) ==
  LET owner == account[arg[p].identity] IN
    /\ \/ Goto(p, "core", "jwt") /\ owner # None
       \/ Goto(p, "core", "error")
    /\ arg' = [arg EXCEPT ![p] = [@ EXCEPT !.uid = owner]]
    /\ UNCHANGED <<rows, lock>>

\* jwt: null for an account that is not ACTIVE, and then no session cookie
CheckClaims(p) ==
  /\ Goto(p, "jwt", IF Active(arg[p].uid) THEN "signed-in" ELSE "not-active")
  /\ UNCHANGED <<rows, lock, arg>>

-------------------------------------------------------------------------------
(* deleteAndAnonymizeTravelerAccount, as far as it touches these rows.       *)

BeginDelete(p, u) ==
  /\ Exists(u)
  /\ Goto(p, "idle", "lock-user")
  /\ arg' = [arg EXCEPT ![p] = [op |-> "delete", email |-> None, identity |-> None,
                                uid |-> u]]
  /\ UNCHANGED <<rows, lock>>

LockUser(p) ==
  /\ pc[p] = "lock-user"
  /\ lock[arg[p].uid] = None
  /\ IF Active(arg[p].uid)
       THEN Take(p, {arg[p].uid}) /\ pc' = [pc EXCEPT ![p] = "delete-accounts"]
       ELSE pc' = [pc EXCEPT ![p] = "not-deleted"] /\ UNCHANGED lock
  /\ UNCHANGED <<rows, arg>>

\* Fault: the transaction stays open when the deletion is turned down.
DeclineLeaks(p) ==
  /\ Goto(p, "delete-accounts", "not-deleted")
  /\ UNCHANGED <<rows, lock, arg>>

\* The role, the token and the obligations, checked under the lock: any of
\* them may end the transaction without a change.
Decline(p) ==
  /\ Goto(p, "delete-accounts", "not-deleted")
  /\ Release(p)
  /\ UNCHANGED <<rows, arg>>

Owned(u) == {i \in Identities : account[i] = u}

\* Fault: the Account rows are left to a cascade that never comes.
KeepAccounts(p) ==
  /\ Goto(p, "delete-accounts", "anonymize")
  /\ UNCHANGED <<rows, lock, arg>>

DeleteAccounts(p) ==
  /\ Goto(p, "delete-accounts", "anonymize")
  /\ Take(p, Owned(arg[p].uid))
  /\ UNCHANGED <<rows, arg>>

\* The tombstone update and the commit
Anonymize(p) ==
  /\ Goto(p, "anonymize", "deleted")
  /\ user' = [user EXCEPT ![arg[p].uid] = [@ EXCEPT !.status = "DELETED", !.email = None]]
  /\ account' = [i \in Identities |-> IF lock[i] = p THEN None ELSE account[i]]
  /\ Release(p)
  /\ UNCHANGED arg

-------------------------------------------------------------------------------
(* Specification *)

\* A failed statement, a lost connection, the transaction timeout: all of the
\* transaction is undone and the caller gets an exception.  A read outside of
\* a transaction fails like that, too.
Abort(p) ==
  /\ pc[p] \in Transaction \cup {"reclassify-account", "reclassify-email", "core", "jwt"}
  /\ pc' = [pc EXCEPT ![p] = "error"]
  /\ Release(p)
  /\ UNCHANGED <<rows, arg>>

Begin(p) ==
  \/ Refuse(p)
  \/ \E e \in Emails : BeginRegister(p, e)
  \/ \E i \in Identities, e \in Emails : BeginOAuth(p, i, e)
  \/ \E u \in Users : BeginDelete(p, u)

Continue(p) ==
  \/ FindEmail(p)
  \/ CreateUser(p)
  \/ EmailConflict(p)
  \/ CreateConsents(p)
  \/ SendVerification(p)
  \/ \E cookie \in BOOLEAN : FindAccount(p, cookie)
  \/ LinkAccount(p)
  \/ AccountConflict(p)
  \/ ReclassifyAccount(p)
  \/ ReclassifyEmail(p)
  \/ CoreLookup(p)
  \/ CheckClaims(p)
  \/ LockUser(p)
  \/ Decline(p)
  \/ DeleteAccounts(p)
  \/ Anonymize(p)

\* Every request has been served; the server waits.
Served ==
  /\ \A p \in Requests : pc[p] \in Answers
  /\ UNCHANGED vars

Next ==
  \/ \E p \in Requests : Begin(p) \/ Continue(p) \/ Abort(p)
  \/ Served

Spec == Init /\ [][Next]_vars

\* Node runs a started request to its end and the database runs the statements
\* it is given; nothing has to fail.
FairSpec == Spec /\ \A p \in Requests : WF_vars(Continue(p))

-------------------------------------------------------------------------------
(* Properties *)

\* Every variable keeps to the rows and program points above.
TypeOK ==
  /\ user \in [Users -> User]
  /\ account \in [Identities -> Users \cup {None}]
  /\ lock \in [Keys -> Requests \cup {None}]
  /\ pc \in [Requests -> Steps]
  /\ arg \in [Requests -> Argument]

\* No orphan ever occupies an address: a User row that a registration or an
\* OAuth sign-up created has its consents, and one made by OAuth has its
\* Account row until it is deleted, whatever fails in between.
WholeOrNothing ==
  \A p \in Requests : Exists(p) =>
    /\ user[p].complete
    /\ arg[p].op = "oauth" /\ user[p].status # "DELETED" => account[arg[p].identity] = p

\* The identity an account was created with.
Home(u) == IF u \in Residents THEN Resident[u].identity
           ELSE IF arg[u].op = "oauth" THEN arg[u].identity ELSE None

\* The address it was created with.
FirstEmail(u) == IF u \in Residents THEN Resident[u].email ELSE arg[u].email

\* An OAuth login enters only the account that was created with that identity:
\* never one that merely has the same address.
NoForeignSignIn ==
  \A p \in Requests : pc[p] = "signed-in" => Home(arg[p].uid) = arg[p].identity

\* A registration says it created an account, and mails the link, exactly when
\* its own row is there; of two for one address that race past the lookup, the
\* loser is not told it won.
ToldTheTruth ==
  \A p \in Requests :
    /\ pc[p] \in {"mail", "created"} => Exists(p)
    /\ pc[p] = "existing-account" => ~ Exists(p)

\* The catch-all 'conflict' is left to the one case that has no better answer:
\* the account that won the race has been deleted since.
ConflictMeansDeletion ==
  \A p \in Requests : pc[p] = "conflict" =>
    \E u \in Users :
      /\ user[u].status = "DELETED"
      /\ Home(u) = arg[p].identity \/ FirstEmail(u) = arg[p].email

\* Every request that has started is answered: the waits for unique keys and
\* row locks never form a cycle.
EveryRequestAnswered ==
  \A p \in Requests : (pc[p] # "idle") ~> (pc[p] \in Answers)

\* Concurrent callbacks of one identity all end in the same account: no login
\* is turned away because its address belongs to an account when that account
\* is the one of this very identity.
OwnIdentityNotRefused ==
  [][\A p \in Requests :
       pc[p] # "email-registered" /\ pc'[p] = "email-registered" =>
         account[arg[p].identity] \notin Holders(arg[p].email)]_vars
===============================================================================
