------------------------------- MODULE AccountPages -------------------------------
(***************************************************************************)
(* The pages and server actions of accounts, in one browser: registration, *)
(* verification, sign-in, password reset and deletion.  A page is rendered *)
(* by a GET that reads what its cookies say at that moment; an action is   *)
(* the POST of a form that was rendered earlier.                           *)
(*                                                                         *)
(* The services behind the actions are here by their answers and by what   *)
(* they change; AccountTokens, Identities, Sessions and Onboarding have    *)
(* their statements.  A POST is one step, but for the confirmation of a    *)
(* deletion: its answer writes the cookie of which it has read a copy.     *)
(***************************************************************************)
EXTENDS Browser, Naturals

CONSTANTS
  Users,
  Travelers,      \* users whose role is TRAVELER
  Onboarded,      \* travelers whose onboarding is complete
  Registrants,    \* users who have no account yet
  Expiring,       \* links that may expire before they are used
  Bouncing,       \* links whose mail may not go out
  Habits          \* Habits[t], the pages that are gone to by hand in tab t, the
                  \* URLs of links opened in it and whether its language is switched

VARIABLES
  account,        \* "none", "unverified", "active" or "deleted"
  state,          \* "unsent", "live", "expired", "used" or "gone", of each link,
                  \* or "lost": its token was issued, and no mail has it
  session,        \* whose session the browser's session cookie is, or None
  post            \* confirmations under way: the cookies they carry and the
                  \* language of their URL

accountVars == <<account, state, session>>

vars == <<browser, accountVars, post>>

Pages == {"home", "onboarding", "login", "register", "verify-sent", "verify-email",
          "verify-result", "forgot", "reset-password", "account", "delete", "sent",
          "confirm", "result", "post-login"}

ASSUME LinksAssumption ==
  /\ \A l \in Links : l.of \in Users /\ l.n \in Nat
  /\ \A l \in Links \cup {Mangled} : l.kind \in DOMAIN Pathname /\ l.in \in Locales
  /\ Mangled \notin Links /\ Mangled.kind = "delete"
  /\ None \notin Links \cup {Mangled} \cup Users
  /\ None \notin {"page", "form", "rejected", "done", "missing", "unsupported", "pending",
                  "error", "invalid", "expired", "blocked"}

ASSUME PagesAssumption ==
  /\ Expiring \subseteq Links /\ Bouncing \subseteq Links
  /\ \A t \in Tabs : Habits[t].pages \subseteq Pages
  /\ \A t \in Tabs : \A url \in Habits[t].links :
       url.link \in Links \cup {Mangled} /\ url.in \in Spellings(url.link.in)

\* How many links there are differs: one that is lost from the start is one
\* that is never asked for.
Init ==
  /\ InitBrowser
  /\ account = [u \in Users |-> IF u \in Registrants THEN "none" ELSE "active"]
  /\ state \in [Links -> {"unsent", "lost"}]
  /\ session = None
  /\ post = [t \in Tabs |-> None]

Of(u, kind) == {l \in Links : l.of = u /\ l.kind = kind}

\* A new link takes the place of one that is not used.
Replaced(new, outcome) ==
  [l \in Links |-> CASE l = new -> outcome
                     [] l \in Of(new.of, new.kind) /\ state[l] \in {"live", "expired"} -> "gone"
                     [] OTHER -> state[l]]

\* replaceToken, and sendAuthEmail, which keeps a failure to itself.  Links are
\* mailed in the order of their numbers, as long as there are any.
Issue(u, kind) ==
  LET unsent == {l \in Of(u, kind) : state[l] = "unsent"} IN
    \/ unsent = {} /\ UNCHANGED state
    \/ \E new \in unsent :
         /\ \A l \in unsent : new.n <= l.n
         /\ \/ state' = Replaced(new, "live")
            \/ new \in Bouncing /\ state' = Replaced(new, "lost")

\* Sessions of u, whoever carries them, are no longer accepted.
Revoke(u) ==
  /\ session' = IF session = u THEN None ELSE session
  /\ post' = [t \in Tabs |-> IF post[t] # None /\ post[t].session = u
                             THEN [post[t] EXCEPT !.session = None] ELSE post[t]]

Quiet == UNCHANGED <<accountVars, post>>

-------------------------------------------------------------------------------
(* Pages of everybody *)

Destination(u) ==
  IF account[u] # "active" THEN "login"
  ELSE IF u \in Travelers /\ u \notin Onboarded THEN "onboarding"
  ELSE "home"

HomePage(t) == Reaches(t, "home") /\ Show(t, "page") /\ Quiet

PostLoginPage(t) ==
  /\ Reaches(t, "post-login")
  /\ Redirect(t, IF session = None THEN "login" ELSE Destination(session), None)
  /\ Quiet

OnboardingPage(t) ==
  /\ Reaches(t, "onboarding")
  /\ LET to == IF session = None THEN "login" ELSE Destination(session) IN
       IF to = "onboarding" THEN Show(t, "page") ELSE Redirect(t, to, None)
  /\ Quiet

\* Fault: whoever comes from the confirmation is sent back to it.
LoginPageAlwaysBack(t) ==
  /\ Reaches(t, "login")
  /\ IF tab[t].with = "delete-confirm" THEN Redirect(t, "confirm", None)
     ELSE IF session # None THEN Redirect(t, "post-login", None)
     ELSE Show(t, "form")
  /\ Quiet

LoginPage(t) ==
  /\ Reaches(t, "login")
  /\ IF session = None THEN Show(t, "form")
     ELSE Redirect(t, IF tab[t].with = "delete-confirm" THEN "confirm" ELSE "post-login", None)
  /\ Quiet

LoginForm(t) == On(t, "login", {"form", "rejected"})

LogIn(t) ==
  /\ LoginForm(t)
  /\ \/ /\ \E u \in Users :
             /\ account[u] = "active"
             /\ session' = u
        /\ Redirect(t, IF tab[t].with = "delete-confirm" THEN "confirm" ELSE "post-login", None)
     \/ /\ Show(t, "rejected")
        /\ UNCHANGED session
  /\ UNCHANGED <<account, state, post>>

\* The buttons of login and register pages; login's carry next.
ProviderButtons(t) == LoginForm(t) \/ On(t, "register", {"form", "rejected"})

\* A provider that fails leads to the login page without next, and so does one
\* that is switched off.
ContinueWithProvider(t) ==
  /\ ProviderButtons(t)
  /\ \/ /\ \E u \in Users : account[u] = "active" /\ session' = u
        /\ Redirect(t, IF tab[t].with = "delete-confirm" THEN "confirm" ELSE "post-login", None)
     \/ /\ Visit(t, "login", None) \/ VisitUnprefixed(t, "login", "error")
        /\ UNCHANGED session
  /\ UNCHANGED <<account, state, post>>

LogOutButton(t) == Idle(t) /\ session # None

LogOut(t) ==
  /\ LogOutButton(t)
  /\ session' = None
  /\ Visit(t, "home", None)
  /\ UNCHANGED <<account, state, post>>

-------------------------------------------------------------------------------
(* Registration and verification *)

RegisterPage(t) ==
  /\ Reaches(t, "register")
  /\ IF session = None THEN Show(t, "form") ELSE Redirect(t, "post-login", None)
  /\ Quiet

RegisterForm(t) == On(t, "register", {"form", "rejected"})

Register(t) ==
  /\ RegisterForm(t)
  /\ \/ \E u \in Users :
          /\ IF account[u] = "none"
             THEN /\ account' = [account EXCEPT ![u] = "unverified"]
                  /\ Issue(u, "verify")
             ELSE UNCHANGED <<account, state>>
          /\ Visit(t, "verify-sent", None)
     \/ /\ Show(t, "rejected")
        /\ UNCHANGED <<account, state>>
  /\ UNCHANGED <<session, post>>

VerifySentPage(t) == Reaches(t, "verify-sent") /\ Show(t, "form") /\ Quiet

ResendForm(t) == On(t, "verify-sent", {"form", "done", "rejected"})

Resend(t) ==
  /\ ResendForm(t)
  /\ \/ \E u \in Users :
          /\ IF account[u] = "unverified" THEN Issue(u, "verify") ELSE UNCHANGED state
          /\ Show(t, "done")
     \/ Show(t, "rejected") /\ UNCHANGED state
  /\ UNCHANGED <<account, session, post>>

\* The token of the link stays in the form of the page.
VerifyPage(t) ==
  /\ Reaches(t, "verify-email")
  /\ Show(t, IF tab[t].token = None THEN "missing" ELSE "form")
  /\ Quiet

\* The action has no answer to an exception: the browser gets the error page.
Verify(t) ==
  /\ On(t, "verify-email", {"form"})
  /\ LET link == tab[t].token
         status == CASE state[link] = "live"    -> "verified"
                     [] state[link] = "expired" -> "expired"
                     [] state[link] = "used"    -> "already-verified"
                     [] OTHER                   -> "invalid"
     IN  \/ /\ IF status = "verified"
               THEN /\ account' = [account EXCEPT ![link.of] = "active"]
                    /\ state' = [state EXCEPT ![link] = "used"]
               ELSE UNCHANGED <<account, state>>
            /\ Visit(t, "verify-result", status)
         \/ Show(t, "error") /\ UNCHANGED <<account, state>>
  /\ UNCHANGED <<session, post>>

VerifyResultPage(t) == Reaches(t, "verify-result") /\ Show(t, "page") /\ Quiet

-------------------------------------------------------------------------------
(* Password reset *)

ForgotPage(t) == Reaches(t, "forgot") /\ Show(t, "form") /\ Quiet

ForgotForm(t) == On(t, "forgot", {"form", "done", "rejected"})

Forgot(t) ==
  /\ ForgotForm(t)
  /\ \/ \E u \in Users :
          /\ IF account[u] \in {"unverified", "active"} THEN Issue(u, "reset") ELSE UNCHANGED state
          /\ Show(t, "done")
     \/ Show(t, "rejected") /\ UNCHANGED state
  /\ UNCHANGED <<account, session, post>>

ResetPage(t) ==
  /\ Reaches(t, "reset-password")
  /\ Show(t, IF tab[t].token = None THEN "missing" ELSE "form")
  /\ Quiet

ResetForm(t) == On(t, "reset-password", {"form", "rejected"})

Reset(t) ==
  /\ ResetForm(t)
  /\ LET link == tab[t].token IN
       \/ /\ state[link] = "live"
          /\ state' = [state EXCEPT ![link] = "used"]
          /\ Revoke(link.of)
          /\ Visit(t, "login", "reset")
       \/ /\ Show(t, "rejected")
          /\ UNCHANGED <<state, session, post>>
  /\ UNCHANGED account

-------------------------------------------------------------------------------
(* Deletion *)

\* A page that is for those who are signed in
Private(t, at, shows) ==
  /\ Reaches(t, at)
  /\ IF session = None THEN Redirect(t, "login", None) ELSE Show(t, shows)
  /\ Quiet

AccountPage(t) == Private(t, "account", "page")

DeletePage(t) == Private(t, "delete", IF session \in Travelers THEN "form" ELSE "unsupported")

SentPage(t) == Private(t, "sent", "page")

ResultPage(t) == Private(t, "result", "page")

RequestForm(t) == On(t, "delete", {"form", "rejected"})

\* requestAccountDeletion; it may still find obligations.
MayRequest(u) == u \in Travelers /\ account[u] = "active"

RequestDeletion(t) ==
  /\ RequestForm(t)
  /\ \/ /\ session = None
        /\ Visit(t, "login", None)
        /\ UNCHANGED state
     \/ /\ MayRequest(session)
        /\ Issue(session, "delete")
        /\ Visit(t, "sent", None)
     \/ /\ session # None
        /\ Show(t, "rejected")
        /\ UNCHANGED state
  /\ UNCHANGED <<account, session, post>>

\* getAccountDeletionPreflight.  Obligations come and go.
Preflight(u, link) ==
  IF link.of # u \/ state[link] \notin {"live", "expired"} THEN {"invalid"}
  ELSE IF state[link] = "expired" THEN {"expired"}
  ELSE IF u \notin Travelers THEN {"blocked"}
  ELSE {"form", "blocked"}

\* Fault: the page takes the link's word for it.
ConfirmPageSpends(t) ==
  /\ Reaches(t, "confirm")
  /\ LET cookie == jar[tab[t].in] IN
       CASE session = None -> Redirect(t, "login", "delete-confirm") /\ UNCHANGED state
         [] session # None /\ cookie = None -> Show(t, "missing") /\ UNCHANGED state
         [] OTHER ->
              \E what \in Preflight(session, cookie) :
                /\ Show(t, what)
                /\ state' = IF what = "form" THEN [state EXCEPT ![cookie] = "used"] ELSE state
  /\ UNCHANGED <<account, session, post>>

ConfirmPage(t) ==
  /\ Reaches(t, "confirm")
  /\ LET cookie == jar[tab[t].in] IN
       CASE session = None                  -> Redirect(t, "login", "delete-confirm")
         [] session # None /\ cookie = None -> Show(t, "missing")
         [] OTHER -> \E what \in Preflight(session, cookie) : Show(t, what)
  /\ Quiet

ConfirmForm(t) == On(t, "confirm", {"form"})

\* The POST, too, is sent on to the language that is found for its URL.
SubmitConfirmation(t) ==
  /\ ConfirmForm(t)
  /\ post' = [post EXCEPT ![t] = [session |-> session, cookie |-> jar[Language(t)],
                                  in |-> Language(t)]]
  /\ tab' = [tab EXCEPT ![t].shows = "pending"]
  /\ UNCHANGED <<jar, preference, trail, accountVars>>

\* deleteAndAnonymizeTravelerAccount; "error" is an exception, and the role is
\* looked at before the link.
Outcomes(u, link) ==
  IF u \notin Travelers THEN {"blocked", "error"}
  ELSE IF link.of # u \/ state[link] \notin {"live", "expired"} THEN {"invalid", "error"}
  ELSE IF state[link] = "expired" THEN {"expired", "error"}
  ELSE {"deleted", "blocked", "error"}

Answered(t) == post' = [post EXCEPT ![t] = None]

\* The session has ended, the word is not DELETE, or there were too many.
TurnDown(t) ==
  /\ post[t] # None
  /\ \/ post[t].session = None /\ RedirectIn(t, post[t].in, "login", "delete-confirm")
     \/ post[t].session # None /\ ShowIn(t, post[t].in, "form")
  /\ Answered(t)
  /\ UNCHANGED accountVars

\* The answer clears the cookie of the request's language, whatever is in it.
ClearCookie(t, at, with) ==
  LET path == CookiePath(post[t].in) IN
    /\ jar' = [jar EXCEPT ![path] = None]
    /\ tab' = Elsewhere(t, at, post[t].in, with)
    /\ preference' = post[t].in
    /\ trail' = [TrailsBut(path) EXCEPT ![t] = None]

Refuse(t) ==
  /\ post[t] # None /\ post[t].session # None
  /\ \E status \in IF post[t].cookie = None THEN {"invalid"}
                   ELSE Outcomes(post[t].session, post[t].cookie) \ {"deleted"} :
       ClearCookie(t, "result", status)
  /\ Answered(t)
  /\ UNCHANGED accountVars

\* signOut clears the session cookie, too, whosever it is by now.
Delete(t) ==
  /\ post[t] # None /\ post[t].session # None /\ post[t].cookie # None
  /\ LET u == post[t].session IN
       /\ "deleted" \in Outcomes(u, post[t].cookie)
       /\ account' = [account EXCEPT ![u] = "deleted"]
       /\ state' = [l \in Links |-> IF l.of = u /\ state[l] \notin {"unsent", "lost"}
                                    THEN "gone" ELSE state[l]]
       /\ post' = [s \in Tabs |-> IF s = t THEN None
                                  ELSE IF post[s] # None /\ post[s].session = u
                                       THEN [post[s] EXCEPT !.session = None] ELSE post[s]]
  /\ session' = None
  /\ ClearCookie(t, "login", "deleted")

-------------------------------------------------------------------------------
(* Next *)

Serve(t) ==
  \/ (Exchange(t) \/ Localise(t)) /\ Quiet
  \/ HomePage(t) \/ PostLoginPage(t) \/ OnboardingPage(t) \/ LoginPage(t)
  \/ RegisterPage(t) \/ VerifySentPage(t) \/ VerifyPage(t) \/ VerifyResultPage(t)
  \/ ForgotPage(t) \/ ResetPage(t)
  \/ AccountPage(t) \/ DeletePage(t) \/ SentPage(t) \/ ResultPage(t) \/ ConfirmPage(t)
  \/ TurnDown(t) \/ Refuse(t) \/ Delete(t)

Browse(t) ==
  /\ \/ \E at \in Habits[t].pages : GoTo(t, at)
     \/ Habits[t].switches /\ SwitchLanguage(t)
     \/ \E url \in Habits[t].links :
          /\ url.link \in Links => state[url.link] \notin {"unsent", "lost"}
          /\ OpenLink(t, url.link, url.in)
  /\ Quiet

SendForm(t) ==
  \/ LogIn(t) \/ ContinueWithProvider(t) \/ LogOut(t)
  \/ Register(t) \/ Resend(t) \/ Verify(t) \/ Forgot(t) \/ Reset(t)
  \/ RequestDeletion(t) \/ SubmitConfirmation(t)

Expire(link) ==
  /\ state[link] = "live"
  /\ state' = [state EXCEPT ![link] = "expired"]
  /\ UNCHANGED <<browser, account, session, post>>

CookieEnds(locale) == LoseCookie(locale) /\ Quiet

\* A suspension, a password reset on another device, or the session's maxAge
SessionEnds ==
  /\ session # None
  /\ Revoke(session)
  /\ UNCHANGED <<browser, account, state>>

Next ==
  \/ \E t \in Tabs : Serve(t) \/ Browse(t) \/ SendForm(t)
  \/ \E link \in Expiring : Expire(link)
  \/ \E locale \in Locales : CookieEnds(locale)
  \/ SessionEnds

Spec == Init /\ [][Next]_vars

\* The server answers; nobody has to do anything.
Fairness == \A t \in Tabs : WF_vars(Serve(t))

FairSpec == Spec /\ Fairness

-------------------------------------------------------------------------------
(* Properties *)

\* A tab that was led on from a deletion link, by redirects and by signing in,
\* is answered with a page, while the link works and its owner is signed in.
Arrives(t) ==
  /\ trail[t] # None
  /\ tab[t].shows = None /\ tab'[t].shows # None
  /\ session = trail[t].link.of /\ state[trail[t].link] = "live"

\* The form, or the notice that obligations stand against it
FormShown(t) == tab[t].at = "confirm" /\ tab'[t].shows \in {"form", "blocked"}

\* What the decision on account deletion says of the way from the mail to the
\* form: the link's token goes into a cookie, and the form's page finds it
\* there, before or after signing in.
LinkReachesForm == [][\A t \in Tabs : Arrives(t) => FormShown(t)]_vars

\* What holds of it: only the language stands between a link that works and its
\* form.  Unless the languages' redirects have led the tab to a URL of another
\* form than the one in which the cookie was set, the cookie is where the page
\* looks, the sign-in leads back to it, and whatever became of earlier
\* confirmations the link is only to be opened again, as long as no other tab
\* touches the cookie.
OnlyLanguageLosesLink ==
  [][\A t \in Tabs : Arrives(t) =>
        FormShown(t) \/ (tab[t].at = "confirm" /\ tab[t].in # trail[t].in)]_vars

Spending ==
  \A l \in Links : state[l] = "live" /\ state'[l] \in {"used", "gone"} =>
    \/ \E k \in Of(l.of, l.kind) : state[k] = "unsent" /\ state'[k] \in {"live", "lost"}
    \/ \E t \in Tabs :
         /\ tab[t].at = Pathname[l.kind] /\ tab[t].at # "confirm"
         /\ tab[t].shows \in {"form", "rejected"} /\ tab[t].token = l
         /\ tab'[t].at \in {"verify-result", "login"}
    \/ \E t \in Tabs :
         /\ post[t] # None /\ post'[t] = None /\ post[t].session = l.of
         /\ post[t].cookie # None /\ post[t].cookie.of = l.of
         /\ state[post[t].cookie] = "live"

\* Opening pages and links spends nothing.  A link stops working early only
\* because a newer one was issued, because the form of its own page was sent
\* and accepted, or because its owner's session confirmed a deletion with a
\* link of theirs.
SpentByItsHolder == [][Spending]_vars

\* Redirects end: a tab comes to show a page, unless sessions begin and end
\* for ever.
EveryNavigationEnds ==
  \A t \in Tabs : []<>(tab[t].shows # None /\ post[t] = None)
                    \/ []<><<session' # session>>_vars
===============================================================================
