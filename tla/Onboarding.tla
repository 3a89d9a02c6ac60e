-------------------------------- MODULE Onboarding --------------------------------
(***************************************************************************)
(* The server side of onboarding: submits of the form, the post-login      *)
(* dispatcher and the gate of the onboarding page, run at once with each   *)
(* other, with deletions of the account and with operators who suspend     *)
(* accounts and switch categories and destinations on and off.             *)
(*                                                                         *)
(* Each request is a process and each database statement an action; user   *)
(* and profile hold the COMMITTED rows.  A transaction that has selected a *)
(* User row FOR UPDATE holds lock[u] to its end.  The catalogue is read    *)
(* with no lock at all, and so are the pages' two rows, one statement each.*)
(***************************************************************************)
EXTENDS Naturals

CONSTANTS
  Requests,       \* requests in flight; each is served once
  Users,          \* account ids
  None,           \* no row, no lock, a column that is null
  Categories,     \* slugs of the Category rows
  Cities,         \* slugs of the Destination rows
  Countries,      \* country codes of destinations
  CountryOf,      \* CountryOf[c], the countryCode of city c
  Inputs,         \* forms that passed onboardingSchema
  InitialUsers    \* what User and TravelerProfile may be at the start

Lists == {"travelPurposes", "preferredCities", "preferredCountries"}

Entries == Categories \cup Cities

ASSUME CatalogueAssumption ==
  /\ CountryOf \in [Cities -> Countries]
  /\ None \notin Requests \cup Users \cup Inputs

\* fullName, country, styles and the rest are given in every form that passed;
\* a form is whole and stands for all its fields.
ASSUME InputsAssumption ==
  \A i \in Inputs :
    /\ i.travelPurposes \in SUBSET Categories
    /\ i.preferredCities \in SUBSET Cities
    /\ i.preferredCountries \in SUBSET Countries

VARIABLES
  user,           \* committed User rows
  profile,        \* committed TravelerProfile rows: the form they hold, or None
  active,         \* the categories and destinations that are switched on
  lock,           \* transaction that has the User row FOR UPDATE
  pc,             \* where each request is; an element of Answers at its end
  arg,            \* what a request has read, was sent and has done
  live            \* entries that were on at some time of a request's transaction

rows == <<user, profile>>
vars == <<user, profile, active, lock, pc, arg, live>>

-------------------------------------------------------------------------------
(* Values *)

\* basics is the form fullName, country, timezone, language, currency, nickname
\* and phone came from; None when fullName and country are null.
User == [role   : {"TRAVELER", "EXPERT", "ADMIN"},
         status : {"ACTIVE", "SUSPENDED", "DELETED"},
         basics : Inputs \cup {None}]

ASSUME InitialUsersAssumption ==
  \A r \in InitialUsers : r.user \in User /\ r.user.status # "DELETED"
    /\ r.profile = IF r.user.role = "TRAVELER" THEN r.user.basics ELSE None

\* saved remembers that the request's form was committed.
Argument == [uid    : Users \cup {None},
             page   : {"post-login", "onboarding"},
             seen   : User \cup {None},
             input  : Inputs \cup {None},
             errors : BOOLEAN,
             saved  : BOOLEAN]

Answers == {"home", "login", "form", "invalid", "error", "deleted", "not-deleted"}

\* Inside a transaction the pc names the next statement.
Transaction == Lists \cup {"update", "upsert", "commit", "anonymize"}

Steps == {"idle", "lock", "lock-deletion", "session", "user", "profile"}
         \cup Transaction \cup Answers

Init ==
  /\ \E start \in [Users -> InitialUsers] :
       /\ user = [u \in Users |-> start[u].user]
       /\ profile = [u \in Users |-> start[u].profile]
  /\ active = Entries
  /\ lock = [u \in Users |-> None]
  /\ pc = [p \in Requests |-> "idle"]
  /\ arg = [p \in Requests |-> [uid |-> None, page |-> "post-login", seen |-> None,
                                input |-> None, errors |-> FALSE, saved |-> FALSE]]
  /\ live = [p \in Requests |-> {}]

-------------------------------------------------------------------------------
(* Helpers of the actions *)

Goto(p, from, to) ==
  /\ pc[p] = from
  /\ pc' = [pc EXCEPT ![p] = to]

Take(p) ==
  /\ lock[arg[p].uid] = None
  /\ lock' = [lock EXCEPT ![arg[p].uid] = p]

\* The end of p's transaction, by commit or rollback.
Release(p) == lock' = [u \in Users |-> IF lock[u] = p THEN None ELSE lock[u]]

\* The row of p's account, as it is committed.
Row(p) == user[arg[p].uid]

ActiveTraveler(row) == row.status = "ACTIVE" /\ row.role = "TRAVELER"

\* What a form may name of a list when these entries are on; a country is
\* offered by the destinations in it.
Offered(list, on) ==
  CASE list = "travelPurposes"     -> on \cap Categories
    [] list = "preferredCities"    -> on \cap Cities
    [] list = "preferredCountries" -> {CountryOf[c] : c \in on \cap Cities}

\* isTravelerOnboardingComplete
Complete(basics, prefs) ==
  /\ basics # None
  /\ prefs # None
  /\ prefs.travelPurposes # {}
  /\ prefs.preferredCountries # {} \/ prefs.preferredCities # {}

\* Fault: EXPERT and TRAVELER alike go home.
DestinationByStatus(row, prefs) == IF row.status # "ACTIVE" THEN "login" ELSE "home"

\* resolvePostLoginDestination
Destination(row, prefs) ==
  CASE row.status # "ACTIVE" -> "login"
    [] ActiveTraveler(row) /\ ~ Complete(row.basics, prefs) -> "onboarding"
    [] OTHER -> "home"

-------------------------------------------------------------------------------
(* The dispatcher and the page, which read the same way                     *)

Visit(p, u, page) ==
  /\ Goto(p, "idle", "session")
  /\ arg' = [arg EXCEPT ![p] = [@ EXCEPT !.uid = u, !.page = page]]
  /\ UNCHANGED <<rows, active, lock, live>>

\* No session for an account that is not active (Sessions).
ReadSession(p) ==
  /\ Goto(p, "session", IF Row(p).status = "ACTIVE" THEN "user" ELSE "login")
  /\ UNCHANGED <<rows, active, lock, arg, live>>

\* loadPostLoginState: the User row, then the TravelerProfile related to it
ReadUser(p) ==
  /\ Goto(p, "user", "profile")
  /\ arg' = [arg EXCEPT ![p] = [@ EXCEPT !.seen = Row(p)]]
  /\ UNCHANGED <<rows, active, lock, live>>

\* Fault: the gate sends every visitor on, and those who lack the form back to
\* the dispatcher.
ReadProfileAndLoop(p) ==
  LET to == Destination(arg[p].seen, profile[arg[p].uid])
      other == IF arg[p].page = "onboarding" THEN "post-login" ELSE "onboarding"
  IN  /\ Goto(p, "profile", IF to = "onboarding" THEN "session" ELSE to)
      /\ arg' = [arg EXCEPT ![p] = [@ EXCEPT !.page = other, !.seen = None]]
      /\ UNCHANGED <<rows, active, lock, live>>

\* A redirect to the page that is on show is none: it shows the form.
ReadProfile(p) ==
  LET to == Destination(arg[p].seen, profile[arg[p].uid]) IN
    /\ pc[p] = "profile"
    /\ \/ /\ to = "onboarding" /\ arg[p].page = "post-login"
          /\ pc' = [pc EXCEPT ![p] = "session"]
          /\ arg' = [arg EXCEPT ![p] = [@ EXCEPT !.page = "onboarding", !.seen = None]]
       \/ /\ to = "onboarding" /\ arg[p].page = "onboarding"
          /\ pc' = [pc EXCEPT ![p] = "form"]
          /\ arg' = [arg EXCEPT ![p] = [@ EXCEPT !.seen = None]]
       \/ /\ to # "onboarding"
          /\ pc' = [pc EXCEPT ![p] = to]
          /\ arg' = [arg EXCEPT ![p] = [@ EXCEPT !.seen = None]]
    /\ UNCHANGED <<rows, active, lock, live>>

-------------------------------------------------------------------------------
(* submitOnboardingAction and completeTravelerOnboarding                    *)

\* The session is read, then the form is parsed.
Submit(p, u, input) ==
  /\ Goto(p, "idle", IF user[u].status = "ACTIVE" THEN "lock" ELSE "login")
  /\ arg' = [arg EXCEPT ![p] = [@ EXCEPT !.uid = u, !.input = input]]
  /\ UNCHANGED <<rows, active, lock, live>>

\* The form does not pass onboardingSchema (OnboardingForm).
SubmitUnparsable(p) ==
  /\ Goto(p, "idle", "invalid")
  /\ UNCHANGED <<rows, active, lock, arg, live>>

\* Fault: the row is read with no FOR UPDATE.
RecheckUnlocked(p) ==
  /\ Goto(p, "lock", "travelPurposes")
  /\ ActiveTraveler(Row(p))
  /\ live' = [live EXCEPT ![p] = active]
  /\ UNCHANGED <<rows, active, lock, arg>>

\* Statements (3) and (4): not-authorized sends the browser to /post-login.
LockAndRecheck(p) ==
  /\ pc[p] = "lock"
  /\ \/ /\ ActiveTraveler(Row(p))
        /\ Take(p)
        /\ pc' = [pc EXCEPT ![p] = "travelPurposes"]
        /\ live' = [live EXCEPT ![p] = active]
     \/ /\ ~ ActiveTraveler(Row(p))
        /\ lock[arg[p].uid] = None
        /\ pc' = [pc EXCEPT ![p] = "session"]
        /\ UNCHANGED <<lock, live>>
  /\ UNCHANGED <<rows, active, arg>>

\* The statement after the reading of a list
After(list) ==
  CASE list = "travelPurposes"     -> "preferredCities"
    [] list = "preferredCities"    -> "preferredCountries"
    [] list = "preferredCountries" -> "update"

\* Fault: every answer of a findMany starts the errors anew.
CheckLast(p) ==
  LET list == pc[p]
      errors == ~ (arg[p].input[list] \subseteq Offered(list, active))
  IN  /\ list \in Lists
      /\ arg' = [arg EXCEPT ![p] = [@ EXCEPT !.errors = errors]]
      /\ \/ /\ After(list) = "update" /\ errors
            /\ pc' = [pc EXCEPT ![p] = "invalid"]
            /\ Release(p)
         \/ /\ ~ (After(list) = "update" /\ errors)
            /\ pc' = [pc EXCEPT ![p] = After(list)]
            /\ UNCHANGED lock
      /\ UNCHANGED <<rows, active, live>>

\* Statements (5) and (6): fieldErrors end the transaction after the third.
CheckList(p) ==
  LET list == pc[p]
      errors == arg[p].errors \/ ~ (arg[p].input[list] \subseteq Offered(list, active))
  IN  /\ list \in Lists
      /\ arg' = [arg EXCEPT ![p] = [@ EXCEPT !.errors = errors]]
      /\ \/ /\ After(list) = "update" /\ errors
            /\ pc' = [pc EXCEPT ![p] = "invalid"]
            /\ Release(p)
         \/ /\ ~ (After(list) = "update" /\ errors)
            /\ pc' = [pc EXCEPT ![p] = After(list)]
            /\ UNCHANGED lock
      /\ UNCHANGED <<rows, active, live>>

\* Fault: user.update is not part of the transaction.
UpdateOutside(p) ==
  /\ Goto(p, "update", "upsert")
  /\ user' = [user EXCEPT ![arg[p].uid] = [@ EXCEPT !.basics = arg[p].input]]
  /\ UNCHANGED <<profile, active, lock, arg, live>>

\* Statement (7), seen by nobody until the commit
UpdateUser(p) ==
  /\ Goto(p, "update", "upsert")
  /\ UNCHANGED <<rows, active, lock, arg, live>>

\* Statement (8), and (9)(10): a form that leaves the account incomplete is
\* undone and answered invalid.
UpsertProfile(p) ==
  /\ pc[p] = "upsert"
  /\ \/ /\ Complete(arg[p].input, arg[p].input)
        /\ pc' = [pc EXCEPT ![p] = "commit"]
        /\ UNCHANGED lock
     \/ /\ ~ Complete(arg[p].input, arg[p].input)
        /\ pc' = [pc EXCEPT ![p] = "invalid"]
        /\ Release(p)
  /\ UNCHANGED <<rows, active, arg, live>>

\* Fault: the profile is updated and never created.
CommitUpdateOnly(p) ==
  LET u == arg[p].uid IN
    /\ Goto(p, "commit", "session")
    /\ user' = [user EXCEPT ![u] = [@ EXCEPT !.basics = arg[p].input]]
    /\ profile' = IF profile[u] = None THEN profile
                  ELSE [profile EXCEPT ![u] = arg[p].input]
    /\ arg' = [arg EXCEPT ![p] = [@ EXCEPT !.saved = TRUE]]
    /\ Release(p)
    /\ UNCHANGED <<active, live>>

\* Fault: a list that may be empty is not written.
CommitWithoutCities(p) ==
  LET u == arg[p].uid IN
    /\ Goto(p, "commit", "session")
    /\ user' = [user EXCEPT ![u] = [@ EXCEPT !.basics = arg[p].input]]
    /\ profile' = [profile EXCEPT ![u] = [arg[p].input EXCEPT !.preferredCities = {}]]
    /\ arg' = [arg EXCEPT ![p] = [@ EXCEPT !.saved = TRUE]]
    /\ Release(p)
    /\ UNCHANGED <<active, live>>

\* Both rows at once; then the browser is sent to /post-login.
CommitForm(p) ==
  LET u == arg[p].uid IN
    /\ Goto(p, "commit", "session")
    /\ user' = [user EXCEPT ![u] = [@ EXCEPT !.basics = arg[p].input]]
    /\ profile' = [profile EXCEPT ![u] = arg[p].input]
    /\ arg' = [arg EXCEPT ![p] = [@ EXCEPT !.saved = TRUE]]
    /\ Release(p)
    /\ UNCHANGED <<active, live>>

\* A statement fails, or the connection: everything is undone.
Abort(p) ==
  /\ pc[p] \notin {"idle"} \cup Answers
  /\ pc' = [pc EXCEPT ![p] = "error"]
  /\ Release(p)
  /\ UNCHANGED <<rows, active, arg, live>>

-------------------------------------------------------------------------------
(* The account meanwhile *)

\* A confirmed deletion of the account (AccountTokens)
Delete(p, u) ==
  /\ Goto(p, "idle", "lock-deletion")
  /\ arg' = [arg EXCEPT ![p] = [@ EXCEPT !.uid = u]]
  /\ UNCHANGED <<rows, active, lock, live>>

\* Its token or the obligations of the account may speak against it.
LockForDeletion(p) ==
  /\ pc[p] = "lock-deletion"
  /\ \/ /\ ActiveTraveler(Row(p))
        /\ Take(p)
        /\ pc' = [pc EXCEPT ![p] = "anonymize"]
     \/ /\ lock[arg[p].uid] = None
        /\ pc' = [pc EXCEPT ![p] = "not-deleted"]
        /\ UNCHANGED lock
  /\ UNCHANGED <<rows, active, arg, live>>

\* travelerProfile.deleteMany, the tombstone and the commit
Anonymize(p) ==
  LET u == arg[p].uid IN
    /\ Goto(p, "anonymize", "deleted")
    /\ user' = [user EXCEPT ![u] = [@ EXCEPT !.status = "DELETED", !.basics = None]]
    /\ profile' = [profile EXCEPT ![u] = None]
    /\ Release(p)
    /\ UNCHANGED <<active, arg, live>>

\* An operator suspends or reinstates an account in the database.
Moderate(u) ==
  /\ lock[u] = None
  /\ user[u].status # "DELETED"
  /\ \E status \in {"ACTIVE", "SUSPENDED"} \ {user[u].status} :
       user' = [user EXCEPT ![u] = [@ EXCEPT !.status = status]]
  /\ UNCHANGED <<profile, active, lock, pc, arg, live>>

\* An operator switches a category or a destination off or on.
Switch(entry) ==
  /\ active' = IF entry \in active THEN active \ {entry} ELSE active \cup {entry}
  /\ live' = [p \in Requests |->
       IF pc[p] \in Transaction THEN live[p] \cup active' ELSE live[p]]
  /\ UNCHANGED <<rows, lock, pc, arg>>

-------------------------------------------------------------------------------
(* Specification *)

Begin(p) ==
  \/ SubmitUnparsable(p)
  \/ \E u \in Users :
       \/ \E page \in {"post-login", "onboarding"} : Visit(p, u, page)
       \/ \E input \in Inputs : Submit(p, u, input)
       \/ Delete(p, u)

Continue(p) ==
  \/ ReadSession(p)
  \/ ReadUser(p)
  \/ ReadProfile(p)
  \/ LockAndRecheck(p)
  \/ CheckList(p)
  \/ UpdateUser(p)
  \/ UpsertProfile(p)
  \/ CommitForm(p)
  \/ LockForDeletion(p)
  \/ Anonymize(p)

\* Every request has been served; the server waits.
Served ==
  /\ \A p \in Requests : pc[p] \in Answers
  /\ UNCHANGED vars

Next ==
  \/ Served
  \/ \E p \in Requests : Begin(p) \/ Continue(p) \/ Abort(p)
  \/ \E u \in Users : Moderate(u)
  \/ \E entry \in Entries : Switch(entry)

Spec == Init /\ [][Next]_vars

\* Node runs a started request to its end and the database the statements it
\* is given.
FairSpec == Spec /\ \A p \in Requests : WF_vars(Continue(p))

-------------------------------------------------------------------------------
(* Properties *)

\* Every variable keeps to the rows and program points above.
TypeOK ==
  /\ user \in [Users -> User]
  /\ profile \in [Users -> Inputs \cup {None}]
  /\ active \in SUBSET Entries
  /\ lock \in [Users -> Requests \cup {None}]
  /\ pc \in [Requests -> Steps]
  /\ arg \in [Requests -> Argument]
  /\ live \in [Requests -> SUBSET Entries]

\* Requests that say in this step that they saved their form for account u
Savers(u) == {p \in Requests : arg[p].uid = u /\ arg'[p].saved /\ ~ arg[p].saved}

AnswerTellsTheRecord ==
  \A u \in Users :
    /\ \A p \in Savers(u) : user'[u].basics = arg[p].input /\ profile'[u] = arg[p].input
    /\ Savers(u) = {} /\ user'[u].status # "DELETED" =>
         user'[u].basics = user[u].basics /\ profile'[u] = profile[u]

\* The rows an account has change only by a deletion or as a request says it
\* saved its form, and then both hold that form: a form that was refused or
\* failed half way leaves no trace, and none is confirmed and lost.
AnswersTellTheRecord == [][AnswerTellsTheRecord]_vars

\* Whatever was switched off meanwhile, a saved form names nothing that was
\* off during the whole of its transaction.
SavedWasOffered ==
  \A p \in Requests : arg[p].saved =>
    \A list \in Lists : arg[p].input[list] \subseteq Offered(list, live[p])

\* Who has just saved the form is never shown it again, although the
\* dispatcher reads the two rows in two statements; only the deletion of the
\* account in between leads there, and on to the login page.
SavedGoesHome ==
  \A p \in Requests :
    arg[p].saved /\ pc[p] \notin Transaction /\ arg[p].page = "onboarding" =>
      user[arg[p].uid].status = "DELETED" /\ pc[p] # "form"

WayHome ==
  \A p \in Requests : pc[p] # "home" /\ pc'[p] = "home" =>
    \/ Row(p).role # "TRAVELER" \/ Row(p).status = "DELETED"
    \/ Complete(Row(p).basics, profile[arg[p].uid])

\* No traveler gets home past the form: the account was complete, unless it
\* has since been deleted.
HomeMeansComplete == [][WayHome]_vars

\* Every request is answered: a submit waits for the locks of others but not
\* for ever, and the redirects from page to page come to an end.
EveryRequestAnswered ==
  \A p \in Requests : pc[p] # "idle" ~> pc[p] \in Answers
===============================================================================
