----------------------------- MODULE AccountTokens -----------------------------
(***************************************************************************)
(* The requests that issue and consume the three kinds of one-time link    *)
(* (email verification, password reset, account deletion), run at once     *)
(* against one PostgreSQL database at READ COMMITTED.                      *)
(*                                                                         *)
(* Each request is a process; each database statement of it is one action. *)
(* What a transaction writes becomes visible when it commits, so user and  *)
(* token hold the COMMITTED rows and change only in the actions that end   *)
(* with a commit.  A statement that writes a row or selects it FOR UPDATE  *)
(* takes the row's lock (userLock, tokenLock) and keeps it until the end   *)
(* of the transaction; it waits while another transaction has the lock and *)
(* then looks at the row again, which is what a guard on the lock and the  *)
(* committed row says.  The rows a transaction will delete are the token   *)
(* rows it has locked.                                                     *)
(***************************************************************************)
EXTENDS Naturals

CONSTANTS
  Users,          \* account ids
  Tokens,         \* token values; generateToken never returns the same twice
  Requests,       \* requests in flight; each one is served once
  None,           \* no lock, no token, no user, no password hash
  Original,       \* the hash an account was created with
  InitialUsers,   \* what a User row may be at the start
  Seed,           \* tokens issued before the run: Seed[t] = [kind, owner]
  Ttl,            \* life of a token of each kind, in clock units
  MaxClock        \* bound on the clock

Kinds == {"verify", "reset", "delete"}

ASSUME NoneAssumption == None \notin Users \cup Tokens \cup Requests

ASSUME OriginalAssumption == Original # None /\ Original \notin Requests

ASSUME TtlAssumption == Ttl \in [Kinds -> Nat \ {0}] /\ MaxClock \in Nat

\* What the database may hold at the start: at most one link of a kind for an
\* account.
ASSUME SeedAssumption ==
  /\ DOMAIN Seed \subseteq Tokens
  /\ \A t \in DOMAIN Seed : Seed[t] \in [kind : Kinds, owner : Users]
  /\ \A s, t \in DOMAIN Seed : Seed[s] = Seed[t] => s = t

VARIABLES
  clock,          \* what deps.now() returns
  user,           \* committed User rows
  token,          \* committed rows of the three token tables, by raw token
  mailed,         \* tokens whose link reached a mailbox
  userLock,       \* transaction holding the lock of a User row
  tokenLock,      \* transaction holding the lock of a token row
  pc,             \* where each request is; an element of Answers at its end
  arg             \* a request's operation, user, token and captured time

rows  == <<user, token>>
locks == <<userLock, tokenLock>>
vars  == <<clock, user, token, mailed, userLock, tokenLock, pc, arg>>

-------------------------------------------------------------------------------
(* Values *)

Passwords == Requests \cup {Original, None}

User == [status   : {"ACTIVE", "SUSPENDED", "DELETED"},   \* DELETED sets deletedAt
         role     : {"TRAVELER", "EXPERT"},
         verified : BOOLEAN,                              \* emailVerified # null
         password : Passwords]                            \* passwordHash

\* Accounts with a password that may still be waiting for their verification.
ASSUME InitialUsersAssumption ==
  \A r \in InitialUsers :
    r \in User /\ r.status # "DELETED" /\ r.password = Original

Token == [state     : {"unborn", "unused", "used", "deleted"},
          kind      : Kinds,
          owner     : Users \cup {None},
          expiresAt : Nat]

Argument == [op  : Kinds,
             uid : Users \cup {None},
             tok : Tokens \cup {None},
             now : Nat]

Answers == {"sent", "silent", "unsupported", "blocked", "verified",
            "already-verified", "success", "deleted", "invalid", "expired",
            "rate-limited", "error"}

\* The answers that say a link was used.
Successes == {"verified", "success", "deleted"}

\* Inside a transaction, the pc names the next statement.  A request at
\* "lock", "claim" or "delete-lock" has no lock yet.
Transaction == {"lock", "replace", "create",
                "claim", "update", "purge", "reset-commit",
                "delete-lock", "delete-claim", "recheck", "erase", "delete-commit"}

UserHolding == {"replace", "create", "purge", "reset-commit",
                "delete-claim", "recheck", "erase", "delete-commit"}

Claimed == {"update", "purge", "reset-commit", "recheck", "erase", "delete-commit"}

Steps == {"idle", "oblige", "mail", "classify"} \cup Transaction \cup Answers

-------------------------------------------------------------------------------
(* Reading the rows *)

\* The guard every flow uses: status = 'ACTIVE' and deletedAt = null.
Live(u) == user[u].status = "ACTIVE"

\* The row of token t exists in the table of kind k.
Stored(t, k) == token[t].state \in {"unused", "used"} /\ token[t].kind = k

Unused(t, k, u) ==
  /\ token[t].state = "unused"
  /\ token[t].kind = k
  /\ token[t].owner = u

Expired(p) == token[arg[p].tok].expiresAt <= arg[p].now

\* Fault: the WHERE lost "usedAt: null".
ClaimableAgain(p) == Stored(arg[p].tok, arg[p].op) /\ ~ Expired(p)

\* Fault: the WHERE lost "expiresAt: { gt: now }".
ClaimableForever(p) ==
  /\ Stored(arg[p].tok, arg[p].op)
  /\ token[arg[p].tok].state = "unused"
  /\ arg[p].op = "delete" => token[arg[p].tok].owner = arg[p].uid

\* The WHERE of the updateMany that claims a token: usedAt null, not expired
\* at the time the request captured, and for a deletion the session's own.
Claimable(p) ==
  /\ Stored(arg[p].tok, arg[p].op)
  /\ token[arg[p].tok].state = "unused"
  /\ ~ Expired(p)
  /\ arg[p].op = "delete" => token[arg[p].tok].owner = arg[p].uid

\* The user check before a token is issued.
MayIssue(u, k) ==
  /\ Live(u)
  /\ k = "verify" => ~ user[u].verified
  /\ k = "reset"  => user[u].password # None
  /\ k = "delete" => user[u].role = "TRAVELER"

\* A token issued before the run; only a traveler is ever sent a deletion link.
Issued(t) ==
  /\ t \in DOMAIN Seed
  /\ Seed[t].kind = "delete" => user[Seed[t].owner].role = "TRAVELER"

Init ==
  /\ clock = 0
  /\ user \in [Users -> InitialUsers]
  /\ token = [t \in Tokens |->
       IF Issued(t)
         THEN [state |-> "unused", kind |-> Seed[t].kind, owner |-> Seed[t].owner,
               expiresAt |-> Ttl[Seed[t].kind]]
         ELSE [state |-> "unborn", kind |-> "verify", owner |-> None,
               expiresAt |-> 0]]
  /\ mailed = {t \in Tokens : Issued(t)}
  /\ userLock = [u \in Users |-> None]
  /\ tokenLock = [t \in Tokens |-> None]
  /\ pc = [p \in Requests |-> "idle"]
  /\ arg = [p \in Requests |-> [op |-> "verify", uid |-> None, tok |-> None, now |-> 0]]

-------------------------------------------------------------------------------
(* Helpers of the actions *)

Goto(p, from, to) ==
  /\ pc[p] = from
  /\ pc' = [pc EXCEPT ![p] = to]

\* The end of p's transaction, by commit or rollback.
Release(p) ==
  /\ userLock' = [u \in Users |-> IF userLock[u] = p THEN None ELSE userLock[u]]
  /\ tokenLock' = [t \in Tokens |-> IF tokenLock[t] = p THEN None ELSE tokenLock[t]]

TakeUser(p, u) ==
  /\ userLock[u] = None
  /\ userLock' = [userLock EXCEPT ![u] = p]

\* A DELETE takes the lock of every row it matches.
TakeTokens(p, doomed) ==
  /\ \A t \in doomed : tokenLock[t] \in {None, p}
  /\ tokenLock' = [t \in Tokens |-> IF t \in doomed THEN p ELSE tokenLock[t]]

\* The token rows once p's deletes are visible.
WithoutLocked(p) ==
  [t \in Tokens |-> IF tokenLock[t] = p THEN [token[t] EXCEPT !.state = "deleted"]
                                        ELSE token[t]]

-------------------------------------------------------------------------------
(* A request is refused before it touches the database: the rate limiter,   *)
(* or a token that is not 43 characters of base64url.  Or its first read    *)
(* fails.                                                                   *)

Refuse(p) ==
  /\ pc[p] = "idle"
  /\ \E answer \in {"rate-limited", "invalid", "error"} : pc' = [pc EXCEPT ![p] = answer]
  /\ UNCHANGED <<rows, locks, arg, mailed, clock>>

-------------------------------------------------------------------------------
(* Issuing: resendVerificationEmail, requestPasswordReset and               *)
(* requestAccountDeletion, then replaceToken.                               *)

\* The user is read and checked OUTSIDE the transaction that follows;
\* replaceToken then computes expiresAt from the time it captures first.
BeginIssue(p, u, k) ==
  /\ Goto(p, "idle", CASE ~ MayIssue(u, k) /\ k = "delete" -> "unsupported"
                       [] ~ MayIssue(u, k) /\ k # "delete" -> "silent"
                       [] MayIssue(u, k) /\ k = "delete"   -> "oblige"
                       [] OTHER                            -> "lock")
  /\ arg' = [arg EXCEPT ![p] = [op |-> k, uid |-> u, tok |-> None, now |-> clock]]
  /\ UNCHANGED <<rows, locks, mailed, clock>>

\* loadDeletionObligations counts rows no code of the repository writes yet:
\* at each reading there may be some that block the deletion or none.
CheckObligations(p) ==
  /\ \E next \in {"blocked", "lock"} : Goto(p, "oblige", next)
  /\ arg' = [arg EXCEPT ![p] = [@ EXCEPT !.now = clock]]
  /\ UNCHANGED <<rows, locks, mailed, clock>>

\* Fault: a plain SELECT, without FOR UPDATE.
SelectUser(p) ==
  /\ Goto(p, "lock", "replace")
  /\ UNCHANGED <<rows, locks, arg, mailed, clock>>

\* SELECT id FROM "User" WHERE id = ... FOR UPDATE
LockUser(p) ==
  /\ Goto(p, "lock", "replace")
  /\ TakeUser(p, arg[p].uid)
  /\ UNCHANGED <<rows, tokenLock, arg, mailed, clock>>

Replaced(p) == {t \in Tokens : Unused(t, arg[p].op, arg[p].uid)}

DeleteUnused(p) ==
  /\ Goto(p, "replace", "create")
  /\ TakeTokens(p, Replaced(p))
  /\ UNCHANGED <<rows, userLock, arg, mailed, clock>>

CreateToken(p, t) ==
  /\ Goto(p, "create", "mail")
  /\ token[t].state = "unborn"
  /\ token' = [WithoutLocked(p) EXCEPT
       ![t] = [state |-> "unused", kind |-> arg[p].op, owner |-> arg[p].uid,
               expiresAt |-> arg[p].now + Ttl[arg[p].op]]]
  /\ arg' = [arg EXCEPT ![p] = [@ EXCEPT !.tok = t]]
  /\ Release(p)
  /\ UNCHANGED <<user, mailed, clock>>

\* sendAuthEmail swallows a provider's error: the answer is the same.
SendMail(p) ==
  /\ Goto(p, "mail", "sent")
  /\ mailed' \in {mailed, mailed \cup {arg[p].tok}}
  /\ UNCHANGED <<rows, locks, arg, clock>>

-------------------------------------------------------------------------------
(* Consuming: verifyEmail and resetPassword.  Any link the owner of the     *)
(* mailbox holds may be presented, at either endpoint.                      *)

BeginVerify(p, t) ==
  /\ t \in mailed
  /\ Goto(p, "idle", "claim")
  /\ arg' = [arg EXCEPT ![p] = [op |-> "verify", uid |-> None, tok |-> t, now |-> clock]]
  /\ UNCHANGED <<rows, locks, mailed, clock>>

\* The time is captured before the preflight read and the bcrypt hash; the
\* transaction starts at "claim", after both.
BeginReset(p, t) ==
  /\ t \in mailed
  /\ Goto(p, "idle", IF ~ (Stored(t, "reset") /\ token[t].state = "unused") THEN "invalid"
                     ELSE IF token[t].expiresAt <= clock THEN "expired"
                     ELSE "claim")
  /\ arg' = [arg EXCEPT ![p] = [op |-> "reset", uid |-> None, tok |-> t, now |-> clock]]
  /\ UNCHANGED <<rows, locks, mailed, clock>>

\* updateMany returned 1; the row names the account.
Claim(p) ==
  /\ Goto(p, "claim", "update")
  /\ Claimable(p)
  /\ TakeTokens(p, {arg[p].tok})
  /\ arg' = [arg EXCEPT ![p] = [@ EXCEPT !.uid = token[arg[p].tok].owner]]
  /\ UNCHANGED <<rows, userLock, mailed, clock>>

\* Fault: a row another transaction has locked is skipped instead of waited for.
ClaimSkipsLocked(p) ==
  /\ pc[p] \in {"claim", "delete-claim"}
  /\ ~ Claimable(p) \/ tokenLock[arg[p].tok] # None
  /\ pc' = [pc EXCEPT ![p] = "classify"]
  /\ Release(p)
  /\ UNCHANGED <<rows, arg, mailed, clock>>

\* Fault: the transaction is left open when there was nothing to claim.
ClaimNothingLeaks(p) ==
  /\ pc[p] \in {"claim", "delete-claim"}
  /\ ~ Claimable(p)
  /\ pc' = [pc EXCEPT ![p] = "classify"]
  /\ UNCHANGED <<rows, locks, arg, mailed, clock>>

\* updateMany returned 0: the transaction ends and the loser looks for why.
ClaimNothing(p) ==
  /\ pc[p] \in {"claim", "delete-claim"}
  /\ ~ Claimable(p)
  /\ pc' = [pc EXCEPT ![p] = "classify"]
  /\ Release(p)
  /\ UNCHANGED <<rows, arg, mailed, clock>>

\* The last statement of verifyEmail's transaction, and its commit.
UpdateVerified(p) ==
  /\ arg[p].op = "verify"
  /\ Goto(p, "update", "verified")
  /\ userLock[arg[p].uid] = None
  /\ token' = [token EXCEPT ![arg[p].tok] = [@ EXCEPT !.state = "used"]]
  /\ user' = [user EXCEPT ![arg[p].uid] = [@ EXCEPT !.verified = TRUE]]
  /\ Release(p)
  /\ UNCHANGED <<arg, mailed, clock>>

UpdatePassword(p) ==
  /\ arg[p].op = "reset"
  /\ Goto(p, "update", "purge")
  /\ TakeUser(p, arg[p].uid)
  /\ UNCHANGED <<rows, tokenLock, arg, mailed, clock>>

Purged(p) == {t \in Tokens : Unused(t, "reset", arg[p].uid)} \ {arg[p].tok}

PurgeOthers(p) ==
  /\ Goto(p, "purge", "reset-commit")
  /\ TakeTokens(p, Purged(p))
  /\ UNCHANGED <<rows, userLock, arg, mailed, clock>>

\* Fault: the token is stored where the new hash belongs.
CommitResetToken(p) ==
  /\ Goto(p, "reset-commit", "success")
  /\ token' = [WithoutLocked(p) EXCEPT ![arg[p].tok] = [@ EXCEPT !.state = "used"]]
  /\ user' = [user EXCEPT ![arg[p].uid] = [@ EXCEPT !.password = arg[p].tok]]
  /\ Release(p)
  /\ UNCHANGED <<arg, mailed, clock>>

CommitReset(p) ==
  /\ Goto(p, "reset-commit", "success")
  /\ token' = [WithoutLocked(p) EXCEPT ![arg[p].tok] = [@ EXCEPT !.state = "used"]]
  /\ user' = [user EXCEPT ![arg[p].uid] = [@ EXCEPT !.password = p]]
  /\ Release(p)
  /\ UNCHANGED <<arg, mailed, clock>>

-------------------------------------------------------------------------------
(* deleteAndAnonymizeTravelerAccount, for the account of the session u.     *)

BeginDelete(p, u, t) ==
  /\ t \in mailed
  /\ Goto(p, "idle", "delete-lock")
  /\ arg' = [arg EXCEPT ![p] = [op |-> "delete", uid |-> u, tok |-> t, now |-> clock]]
  /\ UNCHANGED <<rows, locks, mailed, clock>>

\* FOR UPDATE, then the user is read again under the lock.
LockAndRecheckUser(p) ==
  /\ pc[p] = "delete-lock"
  /\ LET u == arg[p].uid IN
       \/ /\ Live(u)
          /\ user[u].role = "TRAVELER"
          /\ TakeUser(p, u)
          /\ pc' = [pc EXCEPT ![p] = "delete-claim"]
       \/ /\ ~ (Live(u) /\ user[u].role = "TRAVELER")
          /\ userLock[u] = None
          /\ pc' = [pc EXCEPT ![p] = IF Live(u) THEN "blocked" ELSE "invalid"]
          /\ UNCHANGED userLock
  /\ UNCHANGED <<rows, tokenLock, arg, mailed, clock>>

ClaimDeletion(p) ==
  /\ Goto(p, "delete-claim", "recheck")
  /\ Claimable(p)
  /\ TakeTokens(p, {arg[p].tok})
  /\ UNCHANGED <<rows, userLock, arg, mailed, clock>>

\* Fault: 'blocked' is returned instead of thrown, so the claim is committed.
RecheckCommits(p) ==
  /\ \/ /\ Goto(p, "recheck", "blocked")
        /\ token' = [token EXCEPT ![arg[p].tok] = [@ EXCEPT !.state = "used"]]
        /\ Release(p)
     \/ /\ Goto(p, "recheck", "erase")
        /\ UNCHANGED <<locks, token>>
  /\ UNCHANGED <<user, arg, mailed, clock>>

\* Counted again under the lock; the rollback gives the token back.
RecheckObligations(p) ==
  /\ \/ /\ Goto(p, "recheck", "blocked")
        /\ Release(p)
     \/ /\ Goto(p, "recheck", "erase")
        /\ UNCHANGED locks
  /\ UNCHANGED <<rows, arg, mailed, clock>>

\* Fault: only the deletion tokens are deleted.
ErasedDeletionTokens(p) == {t \in Tokens : /\ Stored(t, "delete")
                                           /\ token[t].owner = arg[p].uid}

Erased(p) == {t \in Tokens : /\ token[t].state \in {"unused", "used"}
                             /\ token[t].owner = arg[p].uid}

EraseTokens(p) ==
  /\ Goto(p, "erase", "delete-commit")
  /\ TakeTokens(p, Erased(p))
  /\ UNCHANGED <<rows, userLock, arg, mailed, clock>>

CommitDeletion(p) ==
  /\ Goto(p, "delete-commit", "deleted")
  /\ token' = WithoutLocked(p)
  /\ user' = [user EXCEPT ![arg[p].uid] =
       [@ EXCEPT !.status = "DELETED", !.verified = FALSE, !.password = None]]
  /\ Release(p)
  /\ UNCHANGED <<arg, mailed, clock>>

-------------------------------------------------------------------------------
(* The read after a claim that matched nothing, outside any transaction.    *)

Classification(p) ==
  LET t == arg[p].tok
      theirs == arg[p].op = "delete" => token[t].owner = arg[p].uid
  IN  IF ~ Stored(t, arg[p].op) \/ ~ theirs THEN "invalid"
      ELSE IF token[t].state = "used"
        THEN IF arg[p].op = "verify" /\ user[token[t].owner].verified
               THEN "already-verified" ELSE "invalid"
      ELSE IF Expired(p) THEN "expired" ELSE "invalid"

Classify(p) ==
  /\ Goto(p, "classify", Classification(p))
  /\ UNCHANGED <<rows, locks, arg, mailed, clock>>

-------------------------------------------------------------------------------
(* PostgreSQL and the rest of the system                                    *)

\* The token rows p's next statement has to lock.
Wanted(p) ==
  CASE pc[p] = "replace" -> Replaced(p)
    [] pc[p] \in {"claim", "delete-claim"} -> IF Claimable(p) THEN {arg[p].tok} ELSE {}
    [] pc[p] = "purge"   -> Purged(p)
    [] pc[p] = "erase"   -> Erased(p)
    [] OTHER             -> {}

WaitsFor(p, q) ==
  /\ p # q
  /\ \/ /\ pc[p] \in {"lock", "update", "delete-lock"}
        /\ userLock[arg[p].uid] = q
     \/ \E t \in Wanted(p) : tokenLock[t] = q

\* A failed statement, a lost connection, the transaction timeout: all of the
\* transaction is undone and the caller gets an exception.  A read outside of
\* a transaction fails like that, too.
Abort(p) ==
  /\ pc[p] \in Transaction \cup {"oblige", "classify"}
  /\ pc' = [pc EXCEPT ![p] = "error"]
  /\ Release(p)
  /\ UNCHANGED <<rows, arg, mailed, clock>>

\* Two transactions that wait for each other: the server aborts one of them.
DeadlockAbort(p) ==
  /\ \E q \in Requests : WaitsFor(p, q) /\ WaitsFor(q, p)
  /\ Abort(p)

Tick ==
  /\ clock < MaxClock
  /\ clock' = clock + 1
  /\ UNCHANGED <<rows, locks, pc, arg, mailed>>

-------------------------------------------------------------------------------
(* Specification *)

Begin(p) ==
  \/ Refuse(p)
  \/ \E u \in Users, k \in Kinds : BeginIssue(p, u, k)
  \/ \E t \in Tokens : BeginVerify(p, t) \/ BeginReset(p, t)
  \/ \E u \in Users, t \in Tokens : BeginDelete(p, u, t)

Continue(p) ==
  \/ CheckObligations(p)
  \/ LockUser(p)
  \/ DeleteUnused(p)
  \/ \E t \in Tokens : CreateToken(p, t)
  \/ SendMail(p)
  \/ Claim(p)
  \/ ClaimNothing(p)
  \/ UpdateVerified(p)
  \/ UpdatePassword(p)
  \/ PurgeOthers(p)
  \/ CommitReset(p)
  \/ LockAndRecheckUser(p)
  \/ ClaimDeletion(p)
  \/ RecheckObligations(p)
  \/ EraseTokens(p)
  \/ CommitDeletion(p)
  \/ Classify(p)

\* Every request has been served; the server waits.
Served ==
  /\ \A p \in Requests : pc[p] \in Answers
  /\ UNCHANGED vars

Next ==
  \/ \E p \in Requests : Begin(p) \/ Continue(p) \/ Abort(p)
  \/ Tick
  \/ Served

Spec == Init /\ [][Next]_vars

\* Node runs a started request to its end and the database runs the statements
\* it is given, so a request that can go on does; a deadlock is noticed.
Fairness ==
  \A p \in Requests : WF_vars(Continue(p)) /\ WF_vars(DeadlockAbort(p))

FairSpec == Spec /\ Fairness

-------------------------------------------------------------------------------
(* Properties *)

\* Every variable keeps to the rows and program points above.
TypeOK ==
  /\ clock \in Nat
  /\ user \in [Users -> User]
  /\ token \in [Tokens -> Token]
  /\ mailed \in SUBSET Tokens
  /\ userLock \in [Users -> Requests \cup {None}]
  /\ tokenLock \in [Tokens -> Requests \cup {None}]
  /\ pc \in [Requests -> Steps]
  /\ arg \in [Requests -> Argument]

\* However resends, reset requests and deletion requests for one account
\* overlap, at most one link of a kind works at any time: replaceToken's
\* promise, which rests on the User row being locked before the old rows are
\* deleted and until the new one is committed.
OneLiveToken ==
  \A s, t \in Tokens :
    /\ token[s].state = "unused" /\ token[t].state = "unused"
    /\ token[s].kind = token[t].kind /\ token[s].owner = token[t].owner
    => s = t

\* No link is ever used twice: of any number of verifyEmail, resetPassword or
\* deletion requests that present the same token, one at most is told it worked.
SingleUse ==
  \A p, q \in Requests :
    pc[p] \in Successes /\ pc[q] \in Successes /\ arg[p].tok = arg[q].tok => p = q

\* A claim that matched no row can be explained to the user by the rows read
\* after it: the token is gone, used or expired and stays so, and the final
\* 'invalid' of each classification is never the answer to a link that works.
LostClaimIsExplained ==
  \A p \in Requests : pc[p] = "classify" => ~ Claimable(p)

\* A verification link is spent only together with the verification of the
\* account it belongs to, and outlives it in no deletion: the loser of a race
\* between two clicks is therefore told 'already-verified'.
SpentLinkVerifies ==
  \A t \in Tokens :
    Stored(t, "verify") /\ token[t].state = "used" => user[token[t].owner].verified

\* What became of the account of token t in this step.
EffectOf(t) ==
  LET before == user[token[t].owner]
      after  == user'[token[t].owner]
  IN  CASE token[t].kind = "verify" -> after = [before EXCEPT !.verified = TRUE]
        [] token[t].kind = "reset"  ->
             \E p \in Requests : after = [before EXCEPT !.password = p]
        [] token[t].kind = "delete" ->
             before.status = "ACTIVE" /\ after.status = "DELETED"

AuthorisedChange ==
  \A u \in Users : user'[u] # user[u] =>
    \E t \in mailed, p \in Requests :
      /\ token[t].state = "unused" /\ token[t].owner = u
      /\ token'[t].state # "unused"
      /\ pc[p] \notin Answers /\ pc'[p] \in Successes
      /\ arg[p].tok = t /\ arg[p].now < token[t].expiresAt
      /\ EffectOf(t)

\* No account changes unless the same step is the last of a request that spends
\* a working link, mailed for that account and not expired when the request
\* looked at the clock, of the kind whose effect the change is.
ChangesAreAuthorised == [][AuthorisedChange]_vars

TokensDieWithAccount ==
  \A u \in Users : user[u].status # "DELETED" /\ user'[u].status = "DELETED" =>
    \A t \in Tokens : token'[t].owner = u => token'[t].state = "deleted"

\* The step that deletes an account leaves none of its tokens of any kind, not
\* even one that was being issued while the deletion ran.
DeletionTakesAllTokens == [][TokensDieWithAccount]_vars

\* Every request that has started is answered: no lock is left behind and no
\* deadlock goes unresolved.
EveryRequestAnswered ==
  \A p \in Requests : (pc[p] # "idle") ~> (pc[p] \in Answers)

\* The deletion decision record says that a deletion locks in the same order
\* as replaceToken, a single User row, and so cannot deadlock.
DeletionNeverDeadlocks ==
  \A p, q \in Requests :
    arg[p].op = "delete" => ~ (WaitsFor(p, q) /\ WaitsFor(q, p))

\* The same record says that a tombstone's passwordHash and emailVerified are
\* null and that every race with a reissue is serialised behind the lock.
TombstoneStaysAnonymous ==
  \A u \in Users :
    user[u].status = "DELETED" => user[u].password = None /\ ~ user[u].verified
===============================================================================
