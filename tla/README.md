# TLA+ verification of the account system of 한달살기 (Monthly Living)

This directory models, model-checks and proves properties of this repository:
accounts, the one-time links that verify, reset and delete them, OAuth
identities, sessions, rate limits, onboarding, the list of programs, and the
pages, redirects and cookies a browser meets them through. The models are written from the code under `src/` of the repository;
line numbers below refer to it.

    tlc -workers 2 -config MCAccountTokens.cfg MCAccountTokens   # a run
    tlapm AccountTokensProofs.tla                                # the proofs of a module

`PROJECT.json` lists components, runs, theorems, hazards, findings, and for
every definition the lines it models.

## 1. Inventory

The application is a Next.js server (Node, one event loop, several requests in
flight, each `await` a point where others run) over one PostgreSQL database,
reached through Prisma at READ COMMITTED. All the state that matters is in the
database, in the users' cookies and mailboxes, and, for the rate limiter, in the
process.

| Component (source) | State | Operations | Interacts with | Hard behaviour | Correct when |
|---|---|---|---|---|---|
| One-time links (`modules/auth/service.ts` 251-463, `tokens.ts`) | three token tables; `User.emailVerified`, `User.passwordHash` | `replaceToken`; `resendVerificationEmail`, `requestPasswordReset`; `verifyEmail`, `resetPassword` | User rows, mail, rate limiter | user checked before the transaction that locks it; several statements per transaction; a lost claim explained by a later read; expiry against a captured time; mail that fails after the commit | one working link of a kind per account; no link works twice; accounts change only by a working link |
| Account deletion (`modules/users/account-deletion.ts`, `eligibility.ts`) | all rows of a user | `requestAccountDeletion`, `getAccountDeletionPreflight`, `deleteAndAnonymizeTravelerAccount` | everything that writes a user's rows | 15 statements, lock order against the other flows, obligations counted twice, all or nothing | the tombstone keeps nothing of the account; a blocked deletion gives its token back |
| Registration (`service.ts` 83-156) | User, ConsentRecord, token | `registerUser` | OAuth sign-up and deletion, by the unique address | lookup and insert race; the unique violation undoes everything | a row is whole or absent; each caller is told what happened to its own row |
| OAuth identities (`oauth-identity.ts`, `oauth.ts`, `adapter.ts`, `auth.ts` 139-174) | User, Account | `ensureOAuthIdentity`, `classifyAfterUniqueConflict`, Auth.js's second lookup | registration, deletion | two unique keys in one transaction; reads after a conflict; a lookup repeated after the commit | a login enters only the account of its own identity |
| Login and sessions (`service.ts` 163-249, `auth.ts` 186-209) | LoginAttempt; JWT cookies | `loginWithCredentials`, the `jwt` callback | resets, deletions, moderation | bcrypt between reading a row and acting on it; sessions cannot be recalled | no session is issued or accepted for an old password or an inactive account |
| Rate limiter (`adapters/rate-limit/memory.ts`, `modules/auth/rate-limit.ts`) | a Map per limiter, in the process | `limit`, `sweep` | every flow | trimmed logs, a sweep in the middle of a call, two limiters in a row, restarts | never more than `max` in any window; the wait it quotes is exact |
| Deletion cookie (`deletion-token-cookie.ts`, `proxy.ts`, `confirmDeletionCore`) | a cookie per locale path | exchange of the link, read, clear | deletion, sign-in, the browser's tabs | a newer link opened while a confirmation runs; three places derive one `Path`; which answers keep the cookie | a link that works leads to its form, whatever became of earlier ones |
| Onboarding, server (`modules/onboarding/service.ts`, `redirect.ts`, `completion.ts`) | User profile columns, TravelerProfile | `completeTravelerOnboarding`, `loadPostLoginState`, `resolvePostLoginDestination` | deletion, by the User lock; the catalogue | two submits, a submit and a deletion; categories read but not locked; two rows read by two statements | both rows from one submit; no profile on a tombstone; who saved is not asked again; redirects end |
| Onboarding, form (`onboarding-form.tsx`, `validation.ts`, `loadOnboardingDraft`, `loadOnboardingOptions`) | the form on the screen | gate, options and draft, region fields, submit | the catalogue, another tab's submit | two fields controlled by React, the rest reset after an answer; schema and completeness are two lists of conditions | what the form offers, the schema accepts; what the schema accepts, completes the account |
| Program listing (`modules/programs`, `components/programs`) | the URL | parse, canonical redirect, count, page, facets, filters and pager | whoever publishes and switches | repeated, misspelled and unknown parameters; count, page and facets read apart; ties in the sort | one redirect at most; the pages of an unchanging list show each program once |
| Pages and server actions (`app/[locale]`, `auth.ts` pages, `oauth-actions.ts`, `locale-switcher.tsx`) | a browser's tabs, cookies, language | every page's guard and redirect, every form's action | all services above | a form rendered for one session and sent under another; redirects between pages that each decide anew; languages | redirects end; opening a page spends no link |
| Environment, seed and scripts, money and date formatting, mail texts | none while serving | | | | not modelled |
| Booking, payment, payout, messaging | tables only | none yet | deletion counts their rows | | not modelled: no code writes them; the counts are nondeterministic |

The hazards that follow from this are in `PROJECT.json`, each at its line, with
the properties that cover it or the reason none does.

## 2. Modules

| Module | What it is |
|---|---|
| `AccountTokens` | the link flows and the deletion, statement by statement, with row locks, aborts and deadlocks |
| `TokenSlots` | what those flows promise: a slot per account and kind of link |
| `AccountTokensSlots` | the refinement mapping from the first to the second |
| `AccountTokensProofs` | theorems about `AccountTokens`, and that it implements `TokenSlots` |
| `Identities` | registration, OAuth callbacks and the deletion's share of them, with unique keys |
| `IdentityDirectory`, `IdentitiesDirectory` | what they promise, and the mapping |
| `IdentitiesProofs` | theorems about `Identities`, and that it implements `IdentityDirectory` |
| `Sessions`, `SessionsProofs` | logins, the audit row, sessions, and what happens to accounts meanwhile; theorems |
| `RateLimiter` | the memory limiter and the flows that consume two of them |
| `SlidingWindow` | what a limiter promises: it remembers everything |
| `RateLimiterProofs` | theorems about `RateLimiter`, and that it implements `SlidingWindow` |
| `Onboarding` | submits, the dispatcher and the page's gate, beside deletions, moderation and a changing catalogue |
| `TravelerRecord`, `OnboardingRecord` | what they promise: one record per account; the mapping |
| `OnboardingProofs` | theorems about `Onboarding`, and that it implements `TravelerRecord` |
| `Catalogue` | the categories and destinations that are switched on and off |
| `OnboardingForm` | the form from its options to the stored rows |
| `ProgramListing` | the list of programs from URL to page and on to the next URL |
| `Storefront` | the two above, over one `Catalogue` |
| `FormProofs`, `ListingProofs` | theorems about `Storefront`, the form's and the list's |
| `Browser` | tabs, cookies, languages and the proxy |
| `AccountPages` | the pages and actions of accounts in a `Browser` |
| `AccountPagesProofs` | theorems about `AccountPages` |
| `MC*` | constants for the runs, nothing else |

### How PostgreSQL is modelled

The variables for rows (`user`, `token`, `account`, ...) hold **committed** rows.
A transaction is a process whose program counter names its next statement;
statements take locks and change no row, and the action of the last statement,
which is also the commit, makes all the effects visible and releases the locks.
A statement that must write or `SELECT ... FOR UPDATE` a row waits for the
transaction that has its lock and is then decided on the committed row: that is
how READ COMMITTED re-evaluates a `WHERE` after a wait, and it is what a guard
on the lock beside a guard on the row says. Plain reads see committed rows and
wait for nobody. `Abort` undoes any transaction at any statement: a failed
statement, a lost connection, Prisma's transaction timeout. It ends a request at a
read outside any transaction, too (the obligations before a link is issued, the
classification of a lost claim or of a unique violation, Auth.js's second lookup,
the `jwt` callback): nothing is undone then, and the caller gets the error.

Abstractions that a reader should know of:

* a `DELETE` takes all its row locks in one step (PostgreSQL takes them one by
  one); two transactions that each delete several rows of one account first lock
  its User row, or hold a row the other's statement has to wait for, so the
  finer order adds no behaviour but further deadlocks, which `Abort` covers;
* the last write of a transaction and its commit are one action. The lock of
  the row written last is therefore not held across a step; whoever would have
  waited for it is taken to arrive before or after;
* the rows a deletion deletes beside tokens, Account and LoginAttempt, and the
  bookings, payments and so on it counts, are written by no modelled flow; the
  counts are nondeterministic each time they are made;
* a password is the request that set it (`AccountTokens`) or its ordinal
  (`Sessions`); bcrypt hashes are salted, so a password set twice is two values,
  and the HMAC digest in a session is as good as the hash;
* a raw token and its SHA-256 are one value. A token that is not well formed is
  refused before anything is read (`Refuse`);
* `email = None` on a tombstone: its address is made of the row's id and so
  taken by nobody else.

### AccountTokens

Requests are served once each. `arg[p]` holds what a request carries between
statements: operation, user, token and the time `now` that it captured first.

| Flow | Actions, in order |
|---|---|
| `resendVerificationEmail`, `requestPasswordReset`, `requestAccountDeletion` | `BeginIssue` (user read and checked, outside any transaction), for a deletion `CheckObligations`; then `replaceToken`: `LockUser`, `DeleteUnused`, `CreateToken` (commit); `SendMail` |
| `verifyEmail` | `BeginVerify`, `Claim` or `ClaimNothing`, `UpdateVerified` (commit); `Classify` after a lost claim |
| `resetPassword` | `BeginReset` (captures the time, pre-checks the row, then hashes), `Claim` or `ClaimNothing`, `UpdatePassword`, `PurgeOthers`, `CommitReset` |
| `deleteAndAnonymizeTravelerAccount` | `BeginDelete`, `LockAndRecheckUser`, `ClaimDeletion` or `ClaimNothing`, `RecheckObligations`, `EraseTokens`, `CommitDeletion`; `Classify` |
| rate limit, malformed token | `Refuse` |
| PostgreSQL | `Abort`, `DeadlockAbort`; `Tick` moves the clock |

A link may be presented by anyone who has it, at either endpoint, any number of
times, and only if its mail arrived (`mailed`). A deletion is confirmed in a
session, which may be of another account than the token's owner.

`TokenSlots` has no requests and no locks: `Issue` fills a slot with a token
never seen before, `Verify` and `Reset` empty their slot and change the account
in the same step, `Delete` empties all slots. `AccountTokensSlots` maps a slot to
the unused row of that owner and kind.

### Identities

`lock[x]` is the transaction that has inserted or deleted the row with unique
key `x` and not committed, or that selected account `x` for update. An `INSERT`
waits for it, then succeeds (`CreateUser`, `LinkAccount`) or meets a committed
row (`EmailConflict`, `AccountConflict`: P2002, and all of the transaction is
undone). `registerUser` is `BeginRegister`, `FindEmail`, `CreateUser`,
`CreateConsents` (commit), `SendVerification`. An OAuth callback is `BeginOAuth`,
`FindAccount`, `FindEmail`, `CreateUser`, `CreateConsents`, `LinkAccount`
(commit), or after a conflict `ReclassifyAccount` and `ReclassifyEmail`; then
`CoreLookup`, which is Auth.js looking the Account up again (its `createUser` and
`linkAccount` are refused by `adapter.ts`), and `CheckClaims`, the `jwt`
callback. A deletion is `LockUser`, `Decline` or `DeleteAccounts`, `Anonymize`;
its tokens are in `AccountTokens`. The provider's profile is any identity with
any address, because an address at the provider changes and is shared.

`IdentityDirectory` says what this comes to: an address and an identity belong to
at most one account each, an account is born with them in one step, nothing
passes from one account to another, and closing an account frees both.

### Sessions

A login is `BeginLogin` (row read), `RecordAttempt` (after bcrypt, judged by the
row as read), `IssueSession` (the `jwt` callback reads the row again); an OAuth
login starts at the callback; `ReadSession` is any request that presents a
session. What happens to the account meanwhile is one action per commit:
`Verify`, `ResetPassword`, `EraseAttempts` and `CommitDeletion` (two, because
rows inserted between them matter), `Moderate` (an operator's change of status).
`jwts` only grows: a session cannot be recalled. Its maximum age is left out,
which only allows more. `presented` is not in the session; it remembers which
password the login gave, so that the property does not trust the digest it is
about.

### RateLimiter

`Consume` is `limit()`, one step because it has no `await`: it sweeps when the
store has more keys than the threshold, trims the key's log, and appends or
refuses. `LimitByIp` and `LimitByEmail` are two steps of a flow, and other flows
run between them. `Restart` loses stores and flows. `granted` and `answer` are
history variables that only properties read; in `SlidingWindow` they are the
whole state. Each limiter has a limit and a window of its own, as a resent
verification's have. `Date.now()` is assumed never to go back.

### Onboarding

| Flow | Actions, in order |
|---|---|
| `submitOnboardingAction`, `completeTravelerOnboarding` | `Submit` (session read) or `SubmitUnparsable`; `LockAndRecheck` (`SELECT ... FOR UPDATE`); `CheckList` for categories, cities and countries, one `findMany` each; `UpdateUser`, `UpsertProfile` with the completeness check, `CommitForm`, which is the redirect to `/post-login` too |
| `/post-login`, `/onboarding` | `Visit`, `ReadSession`, `ReadUser`, `ReadProfile` (`loadPostLoginState` and `resolvePostLoginDestination`) |
| deletion | `Delete`, `LockForDeletion`, `Anonymize`; the rest is in `AccountTokens` |
| operators | `Moderate`, `Switch` |
| PostgreSQL | `Abort` |

A redirect to the other page is part of the same request, so that one request is
the browser's whole way from a click to a page it shows. A form that passed the
schema is a value, `Inputs`; a User row holds it as `basics` (the columns
`fullName`, `country` and so on) and a TravelerProfile row whole. `live[p]`
collects what was switched on at some time of p's transaction. `TravelerRecord`
knows neither rows nor locks: `record[u]` is replaced by `Save` and ended by
`Close`. `OnboardingRecord` maps two rows that belong together to their form, and
rows that do not to `Torn`, which is no record.

### Storefront: OnboardingForm and ProgramListing

Both show what operators switch meanwhile, and never each other's state: one run
has a browser at one of them.

`OnboardingForm` follows a form for one account: `PassGate`, three times `LoadForm`
(categories, destinations and draft, each read by a query of its own, in any order
and after the gate), `ChangeCountry`, `ChangeTimezone` (the
fields React controls), `FillIn` (all others at once), `SubmitForm`, which
validates, checks against the catalogue, stores and, unless it was saved, resets the
uncontrolled fields to their defaults as React does; `PostElsewhere` is another tab or
a client without a form. `Valid` has one conjunct for each rule of `onboardingSchema`.
A text is `fits`, `odd` (letters in a telephone number) or `long`; the field
limits are `Most`, `BudgetMax` and `GroupMax`.

`ProgramListing` has `Enter` (a URL is typed), `Resolve` (canonical or a redirect),
`Count`, `Find`, `LoadFacets`, `Show`, and an action for each control of the page. A
parameter is the sequence of its values, since a key may be repeated; a value
has what the parser reads in it and whether it is spelled canonically. `Page` is
`orderBy`, `skip` and `take`. `visit` is history: a walk from page 1 by the Next
links, and whether anything changed since it began. The Next link of page
`PAGE_MAX` names a page that does not parse and so leads to page 1, where the
history starts anew: `WalkSeesAll` is about lists of at most that many pages, and
about the pages up to it of longer ones.

### Browser and AccountPages

A tab is a URL (`at`, `in`, `token` or keyword `with`) and what it shows; `shows`
is `None` while a request is under way. `Exchange` and `Localise` are the proxy;
each page is an action that shows something or redirects; each form's action is
enabled while its page is shown, whatever the cookies have become since. A
confirmation takes two steps, `SubmitConfirmation` and `TurnDown`, `Refuse` or
`Delete`, because its answer clears a cookie it had read earlier. The services
are there by their answers: their statements are in the other modules.

A URL has a prefix or none: `tab[t].in` is `"ko"` (none), `"en"`, or `"/ko"`, which
`matchDeletionConfirmPath` accepts although next-intl redirects it away.
`Language(t)` is what next-intl makes of it, by the prefix or else by `NEXT_LOCALE`;
`Misplaced` URLs are redirected, and everything `intlProxy` answers, redirects
included, sets `NEXT_LOCALE`. `proxy` exchanges the token before it asks `intlProxy`.
A POST is sent on in the same way, so it is answered in, and reads the
cookie of, the language found for its URL at that moment. A mailed link is `"live"` once its token is issued and its mail has gone
out; a mail that fails leaves it `"lost"`, and the link it replaced `"gone"` all
the same. A server action without a `catch` (`verify-email/actions.ts:31`) may end
on the error page.

`trail[t]` is history: the deletion link a tab follows by redirects and by signing
in and the form of URL it was opened with, until somebody else touches its cookie
or a provider fails, because `next` is then lost (`oauth-actions.ts:46`).
`LinkReachesForm` is what the decision on account deletion promises: while the link
works and its owner is signed in, that tab comes to the form. It does not hold,
and the run `deletion_link_language` shows how (section 6).
`OnlyLanguageLosesLink` is what does hold: the tab comes to the form, or the
languages' redirects have led it to a URL of another form than the one its cookie
was set for. This is the only exception, and both the run and the theorem have it.

## 3. Runs

| Run | States | Shows |
|---|---|---|
| `account_tokens` | 0.20 M | two requests of any kind on two accounts, one with a link of each kind outstanding, the other with a deletion link: `OneLiveToken`, `SingleUse`, `LostClaimIsExplained`, `SpentLinkVerifies`, `ChangesAreAuthorised`, `DeletionTakesAllTokens`, `ImplementsSlots`, and `EveryRequestAnswered` under fairness |
| `identities` | 0.19 M | three requests over two addresses and two identities, an active or suspended account holding one of each: `WholeOrNothing`, `NoForeignSignIn`, `ToldTheTruth`, `ConflictMeansDeletion`, `ImplementsDirectory`, `EveryRequestAnswered` |
| `sessions` | 3.5 M | three logins or session reads, two resets: `SignInIsCurrent`, `SessionsFollowTheAccount`, `EveryAttemptRecorded` |
| `rate_limiter` | 0.07 M | two flows, two IP addresses, one email: `NeverOverTheLimit`, `RetryAfterIsExact`, `EmailBudgetIsPaid`, `ImplementsWindow` |
| `onboarding` | 0.19 M | two requests, each a submit, a visit or a deletion, of one account: `SavedWasOffered`, `SavedGoesHome`, `AnswersTellTheRecord`, `HomeMeansComplete`, `ImplementsRecord`, `EveryRequestAnswered` |
| `storefront` | 0.53 M | a form or the list, with the catalogue changing: `AcceptedIsComplete`, `FilledFormIsAccepted`, `OneRedirect`, `WalkSeesAll`, `FiltersAgree` |
| `account_pages` | 0.46 M | two tabs, URLs and deletion links in two languages: `OnlyLanguageLosesLink`, `SpentByItsHolder`, `EveryNavigationEnds` |
| `deletion_deadlock`, `tombstone_credentials`, `own_identity`, `erased_attempts`, `deletion_link_language` | | violations, see section 6 |

Each run of a module that has one checks its `TypeOK` as well.

**Bounds.** Most races in these flows are between two requests over one row; where
a third matters, it prepares the row (issues the link, creates or deletes the
account) or comes late. In `account_tokens` the links seeded for each kind, and
every status and role an account may start with, stand for what an earlier request
would have prepared; that no third request changes anything is not a matter of
the bound, since every property of that run but liveness is a theorem for any
number of requests. `tombstone_credentials`, which needs three, has three.
Rows of different accounts meet only when a session of one presents a link of
another: the second account, always a traveler, is there for that (`MCInit`). It has
a deletion link and no other, so that a link to verify or to reset is issued to it
without replacing a token row, and races with its deletion on the User row
alone. `new1` and `new2` leave two tokens to issue on top of the seeded ones,
enough for two generations of a kind. `Ttl` and `MaxClock` of 1 put every captured time before or at every
seeded link's expiry. Two addresses and two identities are what a login needs to
have the right identity with the wrong address. `MaxResets = 2` lets a session be
one or two passwords behind. The limiter's windows of 3 and 2 and its clock of 4
let a key leave and return, for the second limiter twice; a threshold of 1 makes it sweep with one live and one expired
key; limits of 2 and 1 distinguish the oldest from the newest timestamp.
In `onboarding` one city and its country, named each by a form of its own, are
enough for a list to be switched off and on between two of the three queries. The
storefront has two countries for a destination to be outside of, a country with two
timezones and one with a single one, and five programs of which four tie, on
three pages of which the last is not full; `PageMax` is the last page that exists. In
`account_pages` one tab does everything and the other signs in and opens deletion
links, which is all that can disturb the first. The traveler has a link to verify,
one to reset and two to delete, the first in Korean and the second in English,
because a person may change the preferred language; `MCExpiring` lets the first
deletion link and the verification expire, and `MCBouncing` the mail of the second
deletion link fail. `MCInit` has two kinds of behaviour, those in which a password is
reset and those in which a deletion is asked for, since a reset ends sessions just
as `SessionEnds` does. The Korean link is opened with and without `/ko`. In
`deletion_link_language` links are opened as they are mailed.
Requests, and IP addresses and unissued tokens where they occur, are symmetric;
the runs with a liveness property use no symmetry.

**Deadlock** is checked everywhere: `Served` lets a server with nothing left to
do stutter and every other stop is an error; the browsers never stop.

**Fairness.** `FairSpec` is weak fairness of `Continue(p)` for each request, and of
`DeadlockAbort(p)` where transactions can wait for each other in a circle: Node
runs a started request to its end, the database executes the statements it is
given, and its deadlock detector aborts a victim. Nothing has to start, no mail
has to arrive, no clock has to move and no abort has to happen. Weak fairness
suffices because each request has a finite path and a lock it waits for is held by
a request that itself goes on. In `AccountPages` it is weak fairness of `Serve(t)`:
the server answers a tab; nobody has to click, sign in or open anything.
`EveryNavigationEnds` excludes behaviours in which sessions begin and end for ever,
since each redirect of the login page looks at the session anew.

## 4. What is proved

### AccountTokens

For every number of accounts, tokens and requests, every `Ttl`, every set of
initial users, under the assumptions named in `AccountTokens` (`None` and
`Original` are distinct from what they stand beside, lifetimes are positive, the
links there are at the start are at most one of a kind per account, and the
accounts of the start are live, with a password):

* `Typing`: types, together with `ControlOK`, what each program point says of a
  request's arguments (a request that has a claim has a token that was issued and
  mailed, and so on). Neither is inductive alone: writing `token[arg[p].tok]`
  keeps its type only if the argument is a token at that point.
* `LocksHold`: the inductive invariant `LockOK`. A transaction past its locking
  statement has the locks; what it read under a lock is still so; and after a
  `DELETE` of "all unused rows of this kind and owner" the rows it locked are
  still **all** the rows that match, because whoever adds one needs the User row's
  lock. The last part is the one the code's comment about `replaceToken` relies
  on, and no property of committed rows alone is inductive without it: between
  two statements the rows look as if the transaction had not started.
* `UniqueLinks`, `LinksWorkOnce`, `LosersAreTold`, `SpentMeansVerified`: the four
  invariants of the run, each from `LockOK` and a lemma that a step changes rows
  only by one of the four commits (`QuietOrCommit`) and that token rows only age
  (`RowsAge`).
* `OnlyLinksChangeAccounts`, `NoTokenOutlivesItsAccount`: the two action properties.
* `Refinement`: `Spec => ImplementsSlots`. Each commit maps to the action of
  `TokenSlots` it is named for, and every other step to a stutter; that
  `CreateToken`'s slot held at most the row it deletes, and `CommitDeletion`'s
  slots are all empty afterwards, is `LockOK` and `OneLiveToken` again.
* `OnlyPairsDeadlock`: waits for row locks can form a cycle, the one the finding
  about the claim and the deletion shows, but only of exactly two requests: a
  claim holds its token and wants the User row, whose holder wants that token.
  This is why `DeadlockAbort` needs to know of pairs only, with any number of
  requests. `NoLivelock`: every step but a tick of the clock takes one request to a
  later stage, an abort included, since nothing is retried.

### Identities

For every number of requests, residents, addresses and identities, under
`KeysAssumption` (addresses, identities, users and `None` are different things)
and `ResidentAssumption` (the unique indexes hold at the start, and a live
account has its address):

* `Typing`: types with `ControlOK`, as above.
* `Consistency`: the inductive invariant `LockOK /\ RowsOK`. `LockOK`: a
  transaction between its `user.create` and its end holds the address, a deletion
  holds the User row and, once it has deleted the Account rows, exactly the
  identities of that account. `RowsOK`: a live row has its first address and, by
  OAuth, its first identity, nobody else has them, a tombstone has neither, and
  while a transaction holds an address no committed row has it. Neither half is
  inductive alone: that two sign-ups never commit one address is the first half,
  and that a sign-up's key was free when it was taken is the second. One lemma
  says what keeps it over steps that write nothing (`QuietRows`), one over the
  end of a transaction (`Released`), one for each lock that is taken, and one for
  each kind of commit (`SignedUpRows`, `ClosedRows`).
* `NoOrphan` is then a consequence. `OwnAccountOnly`, `Truthful` and
  `ConflictExplained` rest on `Answering`: what a request has read, and will base
  its answer on, stays true because accounts only evolve (`Evolves`): they appear,
  keep the address and the identity they were created with as their history, and
  are deleted for good.
* `Refinement`: `Spec => ImplementsDirectory`. The commits of `CreateConsents`,
  `LinkAccount` and `Anonymize` are `Register`, `SignUp` and `Close`, all other
  steps stutter.
* `NoDeadlock`: whom a request waits for is at a later stage, so waits for unique keys
  and row locks never form a cycle, however many requests there are. It needs to know
  where a lock's holder can be (`HoldersInside`): who holds a key or a row is past the
  statement that takes it. `NoLivelock`: every step takes one request to a later
  stage, even a lost race, which is read again once and not tried again.

### Sessions

For every set of requests and users and every `MaxResets`, under
`InitialUsersAssumption` (no tombstones at the start, and only OAuth accounts
have no password):

* `Typing`: types with `ControlOK`.
* `AuditTrail`: every login that got past the password has its row in
  LoginAttempt until a deletion erases them.
* `CurrentSignIn` and `FollowTheAccount` rest on `SessionsOK`: an account
  that a login has seen verified is still so or deleted, a login past bcrypt has read
  the digest of the password it was given, and a session's digest is of the password
  presented. The model's row steps are classified once
  (`EveryRowsStep`), and only their monotonicity is used afterwards.

### RateLimiter

For every limit, window, sweep threshold, set of IP addresses and emails, under
`LimitAssumption`. The invariant `IInv` says of each key (`KeyFacts`): its history is
ordered and *spaced*, call `i + Limit` coming a whole window or more after call
`i`; the log in the Map is the newest part of the history and lacks only calls
that have left the window; and the last answer is 0 or the exact wait. It is
inductive where `NeverOverTheLimit` alone is not, because the limiter decides by
the log and the property is about the history. `Typing`, `NeverOver` and
`RetryExact` follow, and `WindowRefinement`: trimming a log or dropping one in a sweep
never changes an answer. The logs are
cut by filters on sequences; what is needed of them (`Alive`) is shown from the
ordering, by the least index that is still in the window, whose existence is the
well-foundedness of the naturals. `EmailBudget` counts: the grants of a limiter are a set
of numbered calls (`Grants`), the flows between the two limiters another (`Waiting`), and each
step changes one or two of these sets by one element (`CallGrants`), so that no bound on keys or flows is
needed; that a flow on its way has an email is `FlowsOK` of `IInv`.

### Onboarding

For every set of requests, accounts, forms and catalogue, under `CatalogueAssumption`,
`InputsAssumption` and `InitialUsersAssumption` (at the start an account has no form or a
whole one):

* `Typing`, and `Consistency`, the inductive invariant `LockOK /\ RowsOK`: a request
  between its `FOR UPDATE` and its end holds the account's lock and the account is
  an active traveler, and the two rows of a traveler hold one form, those of a
  tombstone nothing. The upsert after a deletion is impossible by the first
  half only.
* `SavedOffered`: what each query found on is in `live` ever after, so
  that after the third every entry of the form is.
* `SavedHome` and `HomeComplete` rest on `VisitsOK`: a User row that was seen
  filled in is still so or deleted when the profile is read, and an account whose
  form was saved stays complete or is deleted. That is why two statements of the dispatcher,
  with no transaction around them, are enough.
* `AnswersTell`, and `RecordRefinement`: `Spec => ImplementsRecord`; `CommitForm` is
  `Save`, `Anonymize` is `Close`, every other step a stutter, and `Torn` never occurs.
* `NoDeadlock`: the one lock is the User row's, and its holder waits for nobody.
  `NoRedirectLoop`: every step of a request takes it to a later stage, from the form
  to the dispatcher and from the dispatcher to the form's page, so that a browser is not sent to and fro,
  whatever operators switch off meanwhile.

### Storefront

Under `FormAssumption` (the first timezone of a country is one of its own; what is filled in
is a text, a number or nothing; `None` is neither a profile nor an answer) and
`ListingAssumption` (finitely many programs, ranked by numbers; the sort of a URL is
one of the known ones or unreadable):

* `Accepted` and `FilledForm`, for every catalogue, set of countries, limits, forms from
  elsewhere and ways of filling in a form. Neither is inductive: `FormInv` adds that the rows are what the database
  schema says (`Rows`), and that of a form on the screen (`FormOK`) the timezone is one of the chosen
  country's and what is checked is on offer. `AdmittedIsComplete` compares the two lists of
  conditions, of `validation.ts` and `completion.ts`: every condition of the second
  follows from the first together with the type of the rows. `FilledIsValid` is the
  other direction: what no rule of the schema can refuse on the form.
* `Redirects`: `ResolvedIsFixed` shows that parsing a canonical URL gives the query back, key by
  key (`RoundTrip`), so that the canonical form of any URL is its own.
* `Filters`: the choice agrees from the URL of a link to the page it opens (`FilterOK`), because a URL says
  all that a link's query has of filters (`LinkMeans`).
* `Walk`: `Places` shows that `orderBy` gives the `n` programs that match the places `0 .. n - 1`, each to
  one: of two programs one is before the other, what is before the first is before the second too,
  so places differ, and an injection of `n` programs into `n` places leaves none free. `WalkOK` is the
  invariant: a walk that has come to page `k` has seen exactly the programs at the places before it,
  and the page is not past the end. Page and pager are compared by `LastPage`, the division in `computePagination`.

### AccountPages

For every number of tabs, links, accounts and both languages, under `LinksAssumption`
and `PagesAssumption`: `InOrder`, the inductive invariant `PagesOK`: a tab with a
token is at the page of its link; a tab that follows a deletion link is at the
confirmation or at the login page that leads back to it, and the cookie for the
form of URL it was opened with is the link; who waits for a confirmation is on its page. `FormReached` (`OnlyLanguageLosesLink`)
and `HoldersSpend` are the two action properties. Every browser action of every page
is one of a few kinds of move (`Moves`), and the invariant is shown once for
each kind. `SessionsAreActive`: the account of the session is never unverified or
deleted. `RedirectsEnd`: `Left` counts the answers a waiting tab still has to get, at
most eight, from the page it asks for, its link, the session and the form of its URL; while the session stays,
every step lowers it or leaves the tab alone.

### What is left to TLC

Liveness (`EveryRequestAnswered`, `EveryNavigationEnds`), whose fairness and ENABLED are out of
the prover's reach, and the counterexamples. What liveness rests on is proved: waits are acyclic
(`NoDeadlock`) or in pairs that PostgreSQL resolves (`OnlyPairsDeadlock`), and every step
advances a bounded measure (`NoLivelock`, `NoRedirectLoop`, `RedirectsEnd`); that
somebody takes a step when one is possible is the fairness TLC assumes. Every invariant and action property of a
passing run, and every refinement, is a theorem. The proofs assume nothing but the
assumptions named; the bounds of the runs do not enter them except `MaxClock` and
`MaxResets`, which only stop a counter and are arbitrary.

## 5. Why the properties are not vacuous

For each property of a passing run a mutated definition stands in the module
beside the one it replaces, marked *Fault*: a plain `SELECT` for
`SELECT ... FOR UPDATE`, a `WHERE` without `usedAt: null` or without `expiresAt`, a
`blocked` returned instead of thrown, a transaction left open, an account linked
by its address, a digest taken from the row read last, a window one unit short, a
sweep that drops live keys, an update outside its transaction, errors that each query
starts anew, a timezone that stays when the country changes, a page counted from
0, a cookie path without the language, a GET that spends a link, a redirect that
does not look at the session. Replacing the definition violates the property in the
same run.

## 6. Findings

Four statements of the documentation are not what the code does; there the code may
be acceptable and the document too strong, and the run shows the behaviour. The
fifth is an error of the code.

1. `deletion_deadlock`: the deletion locks the User row and then token rows,
   `verifyEmail` and `resetPassword` a token row and then the User row. The
   decision record says the deletion cannot deadlock, comparing it with
   `replaceToken` only. One transaction is aborted, nothing is half done
   (`ImplementsSlots`), and the caller gets an error.
2. `tombstone_credentials`: a resend or reset request that read the user before a
   deletion commits issues its link afterwards, on the tombstone, and the link
   works: `emailVerified` or `passwordHash` return to the deleted row.
   `ImplementsSlots` holds nevertheless, because `TokenSlots` allows a link to be
   issued for a deleted account; the account stays DELETED, so nobody can log in.
3. `own_identity`: of two first callbacks of one identity with one address, the
   second is refused with `email-already-registered` when its Account lookup
   comes before and its address lookup after the first one's commit.
4. `erased_attempts`: a login that overlaps a deletion leaves a LoginAttempt row
   with the original address and `succeeded = true` after the deletion erased
   them.
5. `deletion_link_language`: a Korean deletion link, which has no prefix, is opened
   in a browser whose `NEXT_LOCALE` is `en`. The proxy puts the token into a cookie
   whose `Path` has no prefix (`deletion-token-cookie.ts:179-192`) and redirects to
   the same URL without the token; `intlProxy` redirects that one to `/en/...`, to
   which the browser does not send the cookie, and the page says that the link is
   missing, although it works and its owner is signed in. Opening it again does
   not help; switching the site to Korean does. The decision record describes the
   way from link to cookie to form without exception, and the comment at
   `deletion-token-cookie.ts:54-56` says that the `Path` has to match the URL.

## 7. Not modelled

* **Booking, payment, payout, messaging**: tables without code. The deletion's
  obligation counts, which read them, are nondeterministic at each count.
* **Favourites, notifications, quotes** that a deletion removes: nothing else in
  the repository writes them, so there is no state to relate; `Account deletion`
  is listed as partly modelled for this.
* **Seed data and scripts**: run by hand, alone, against an empty database.
* **Environment, errors, the Prisma client, request IP**: parsed once at start, or
  a pure function of one request.
* **Rendering, prices and dates, mail subjects and bodies**: no property is about
  them. The page, language and token of a mailed link are in `Browser`.
* **Count and page of the listing that disagree** while programs are published in
  between: the two reads are two steps in `ProgramListing`, but the comment at
  `programs/service.ts:148` accepts the difference, so no property forbids it.
