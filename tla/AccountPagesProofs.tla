---------------------------- MODULE AccountPagesProofs ----------------------------
(***************************************************************************)
(* Theorems about AccountPages and their proofs.                           *)
(***************************************************************************)
EXTENDS AccountPages, TLAPS

-------------------------------------------------------------------------------
(* Types *)

Keywords == {"delete-confirm", "error", "reset", "deleted", "verified", "expired",
             "already-verified", "invalid", "blocked"}

Shown == {"page", "form", "rejected", "done", "missing", "unsupported", "pending", "error",
          "invalid", "expired", "blocked"}

Spaces == Locales \cup {Explicit}

Tab == [at : Pages, in : Spaces, token : Links \cup {Mangled, None},
        with : Keywords \cup {None}, shows : Shown \cup {None}]

Carried == [session : Users \cup {None}, cookie : Links \cup {None}, in : Locales]

Trail == [link : Links, in : Spaces]

States == {"unsent", "live", "lost", "expired", "used", "gone"}

BrowserTypes ==
  /\ tab \in [Tabs -> Tab]
  /\ jar \in [Locales -> Links \cup {None}]
  /\ preference \in Locales
  /\ trail \in [Tabs -> Trail \cup {None}]

ServerTypes ==
  /\ account \in [Users -> {"none", "unverified", "active", "deleted"}]
  /\ state \in [Links -> States]
  /\ session \in Users \cup {None}
  /\ post \in [Tabs -> Carried \cup {None}]

-------------------------------------------------------------------------------
(* The invariant *)

\* A token stays on the page of its link, which has a form only with a token.
TokensOK ==
  \A t \in Tabs :
    /\ tab[t].token # None => tab[t].at = Pathname[tab[t].token.kind]
    /\ tab[t].at \in {"verify-email", "reset-password"} /\ tab[t].shows \in {"form", "rejected"}
         => tab[t].token # None

\* Who waits for the answer to a confirmation is on its page.
PostsOK == \A t \in Tabs : post[t] # None => tab[t].at = "confirm" /\ tab[t].shows = "pending"

\* A tab that follows a deletion link is on the page of the link, or signing in
\* for it, and the link is the cookie for URLs like the one it was opened with,
\* if pages have such URLs.
TrailOK(t) ==
  trail[t] # None =>
    /\ tab[t].token = None
    /\ tab[t].at = "confirm" \/ (tab[t].at = "login" /\ tab[t].with = "delete-confirm")
    /\ trail[t].in \in Locales => jar[trail[t].in] = trail[t].link

TrailsOK == \A t \in Tabs : TrailOK(t)

BrowserOK == BrowserTypes /\ TokensOK /\ TrailsOK

PagesOK == BrowserOK /\ ServerTypes /\ PostsOK

-------------------------------------------------------------------------------
(* Moves of the browser *)

\* Tab t comes to show what the page is.
Shows(t) ==
  \E what \in Shown :
    /\ tab[t].shows = None /\ ~ CarriesToken(t)
    /\ tab[t].at \in {"verify-email", "reset-password"} /\ what = "form" => tab[t].token # None
    /\ what # "rejected"
    /\ Show(t, what)

\* The form that was sent is shown again, with or without an error, or the
\* confirmation is sent.
Stays(t) ==
  \E what \in Shown :
    /\ \/ tab[t].shows \in {"form", "rejected"}
       \/ tab[t].at \notin {"verify-email", "reset-password"}
    /\ tab[t].shows \in {"form", "rejected", "done", "pending"}
    /\ tab' = [tab EXCEPT ![t].shows = what]
    /\ preference' \in Locales
    /\ UNCHANGED <<jar, trail>>

\* A redirect takes a tab with a trail back to the page of its link, or to the
\* login page that leads back there.
Redirects(t) ==
  \E at \in Pages, with \in Keywords \cup {None}, locale \in Locales :
    /\ trail[t] # None => at = "confirm" \/ (at = "login" /\ with = "delete-confirm")
    /\ RedirectIn(t, locale, at, with)

Leaves(t) ==
  \/ \E at \in Pages, with \in Keywords \cup {None}, in \in Locales : Leave(t, at, in, with)
  \/ \E at \in Pages : GoTo(t, at)
  \/ \E link \in Links \cup {Mangled} : \E in \in Spellings(link.in) : OpenLink(t, link, in)
  \/ SwitchLanguage(t)

\* The answer to a confirmation takes the cookie of its language away.
Loses(t) ==
  \E at \in Pages, with \in Keywords, locale \in Locales :
    /\ tab' = Elsewhere(t, at, locale, with)
    /\ jar' = [jar EXCEPT ![locale] = None]
    /\ preference' = locale
    /\ trail' = [TrailsBut(locale) EXCEPT ![t] = None]

\* What an action of tab t does to the browser
Moves(t) ==
  Shows(t) \/ Stays(t) \/ Redirects(t) \/ Leaves(t) \/ Exchange(t) \/ Localise(t) \/ Loses(t)

LEMMA LinkFacts ==
  /\ \A l \in Links : l \in Links \cup {Mangled} /\ l # Mangled /\ l # None /\ l.of \in Users
  /\ \A l \in Links \cup {Mangled} : l.kind \in {"verify", "reset", "delete"} /\ l.in \in Locales
  /\ Mangled # None /\ Mangled.kind = "delete"
  /\ \A l \in Links \cup {Mangled} :
       Pathname[l.kind] \in Pages /\ (Pathname[l.kind] = "confirm" <=> l.kind = "delete")
BY LinksAssumption DEF Pathname, Pages

\* A language is found for every request, and links are spelled like URLs.
LEMMA Languages ==
  ASSUME BrowserTypes, NEW t \in Tabs
  PROVE  /\ Language(t) \in Locales
         /\ \A locale \in Locales : Spellings(locale) \subseteq Spaces
         /\ ~ Misplaced(t) => tab[t].in \in Locales /\ tab[t].in = Language(t)
BY DEF BrowserTypes, Tab, Language, Spellings, Spaces, Locales, DefaultLocale, Explicit, Misplaced

\* Every move of a tab keeps the browser in order.
LEMMA MoveTypes ==
  ASSUME BrowserTypes, NEW t \in Tabs, Moves(t)
  PROVE  BrowserTypes'
<1> USE DEF BrowserTypes, Tab
<1> USE Languages
<1>1. \A path : TrailsBut(path) \in [Tabs -> Trail \cup {None}]
  BY DEF TrailsBut
<1>2. CASE Shows(t)
  BY <1>2 DEF Shows, Show, ShowIn
<1>3. CASE Stays(t)
  BY <1>3 DEF Stays
<1>4. CASE Redirects(t)
  BY <1>4 DEF Redirects, RedirectIn, Elsewhere, Spaces
<1>5. CASE Leaves(t)
  <2>1. CASE \E at \in Pages, with \in Keywords \cup {None}, in \in Locales : Leave(t, at, in, with)
    BY <2>1 DEF Leave, Elsewhere, Spaces
  <2>2. CASE \E at \in Pages : GoTo(t, at)
    BY <2>2 DEF GoTo, Elsewhere
  <2>3. CASE \E link \in Links \cup {Mangled} : \E in \in Spellings(link.in) : OpenLink(t, link, in)
    <3>1. PICK link \in Links \cup {Mangled}, in \in Spaces : OpenLink(t, link, in)
      BY <2>3, LinkFacts
    <3>2. QED
      BY <3>1, LinkFacts DEF OpenLink
  <2>4. CASE SwitchLanguage(t)
    <3>1. PICK locale \in Locales, in \in Spaces :
            /\ tab' = Elsewhere(t, tab[t].at, in, None)
            /\ preference' = locale
      BY <2>4 DEF SwitchLanguage
    <3>2. trail' = [trail EXCEPT ![t] = None] /\ UNCHANGED jar
      BY <2>4 DEF SwitchLanguage
    <3>3. QED
      BY <3>1, <3>2 DEF Elsewhere
  <2>5. QED
    BY <1>5, <2>1, <2>2, <2>3, <2>4 DEF Leaves
<1>6. CASE Exchange(t)
  <2>1. tab[t].token \in Links \cup {Mangled} /\ tab[t].in \in Spaces
    BY <1>6 DEF Exchange, CarriesToken
  <2>2. PICK path, in \in Spaces, link \in Links \cup {Mangled} :
          path = CookiePath(tab[t].in) /\ link = tab[t].token /\ in = tab[t].in
    BY <2>1 DEF CookiePath
  <2>3. /\ jar' = [l \in Locales |-> IF l # path THEN jar[l] ELSE IF link = Mangled THEN None ELSE link]
        /\ trail' = [TrailsBut(path) EXCEPT ![t] =
             IF link = Mangled THEN None ELSE [link |-> link, in |-> in]]
        /\ tab' = [tab EXCEPT ![t].token = None]
        /\ UNCHANGED preference
    BY <1>6, <2>2 DEF Exchange
  <2>4. jar' \in [Locales -> Links \cup {None}]
    BY <2>2, <2>3
  <2>5. trail' \in [Tabs -> Trail \cup {None}]
    BY <1>1, <2>2, <2>3 DEF Trail
  <2>6. tab' \in [Tabs -> Tab]
    BY <2>3
  <2>7. QED
    BY <2>3, <2>4, <2>5, <2>6
<1>7. CASE Localise(t)
  BY <1>7 DEF Localise, Spaces
<1>8. CASE Loses(t)
  BY <1>1, <1>8 DEF Loses, Elsewhere, Spaces
<1>9. QED
  BY <1>2, <1>3, <1>4, <1>5, <1>6, <1>7, <1>8 DEF Moves

\* What becomes of the URL of a tab that moves, the others staying where they are
LEMMA MovedTab ==
  ASSUME BrowserTypes, NEW t \in Tabs, Moves(t)
  PROVE  /\ \A s \in Tabs \ {t} : tab'[s] = tab[s]
         /\ \/ /\ Shows(t) \/ Stays(t)
               /\ tab'[t].at = tab[t].at /\ tab'[t].in = tab[t].in
               /\ tab'[t].token = tab[t].token /\ tab'[t].with = tab[t].with
            \/ /\ Redirects(t) \/ Leaves(t) \/ Exchange(t) \/ Loses(t)
               /\ tab'[t].token = None /\ tab'[t].shows = None
            \/ \E link \in Links \cup {Mangled} :
                 /\ \E in : OpenLink(t, link, in)
                 /\ tab'[t].token = link /\ tab'[t].at = Pathname[link.kind]
                 /\ tab'[t].shows = None
            \/ /\ Localise(t)
               /\ tab'[t].at = tab[t].at /\ tab'[t].token = tab[t].token
               /\ tab'[t].shows = tab[t].shows
<1> USE DEF BrowserTypes, Tab
<1>1. CASE Shows(t)
  <2>1. PICK what : tab' = [tab EXCEPT ![t].shows = what]
    BY <1>1 DEF Shows, Show, ShowIn
  <2>2. /\ \A s \in Tabs \ {t} : tab'[s] = tab[s]
        /\ tab'[t].at = tab[t].at /\ tab'[t].in = tab[t].in
        /\ tab'[t].token = tab[t].token /\ tab'[t].with = tab[t].with
    BY <2>1
  <2>3. QED
    BY <1>1, <2>2
<1>2. CASE Stays(t)
  BY <1>2 DEF Stays
<1>3. CASE Redirects(t)
  <2>1. /\ \A s \in Tabs \ {t} : tab'[s] = tab[s]
        /\ tab'[t].token = None /\ tab'[t].shows = None
    BY <1>3 DEF Redirects, RedirectIn, Elsewhere
  <2>2. QED
    BY <1>3, <2>1
<1>4. CASE Leaves(t)
  <2>1. CASE \E at \in Pages, with \in Keywords \cup {None}, in \in Locales : Leave(t, at, in, with)
    <3>1. /\ \A s \in Tabs \ {t} : tab'[s] = tab[s]
          /\ tab'[t].token = None /\ tab'[t].shows = None
      BY <2>1 DEF Leave, Elsewhere
    <3>2. QED
      BY <1>4, <3>1
  <2>2. CASE \E at \in Pages : GoTo(t, at)
    <3>1. /\ \A s \in Tabs \ {t} : tab'[s] = tab[s]
          /\ tab'[t].token = None /\ tab'[t].shows = None
      BY <2>2 DEF GoTo, Elsewhere
    <3>2. QED
      BY <1>4, <3>1
  <2>3. CASE \E link \in Links \cup {Mangled} : \E in : OpenLink(t, link, in)
    <3>1. PICK link \in Links \cup {Mangled} : \E in : OpenLink(t, link, in)
      BY <2>3
    <3>2. /\ \A s \in Tabs \ {t} : tab'[s] = tab[s]
          /\ tab'[t].token = link /\ tab'[t].at = Pathname[link.kind]
          /\ tab'[t].shows = None
      BY <3>1 DEF OpenLink
    <3>3. QED
      BY <3>1, <3>2
  <2>4. CASE SwitchLanguage(t)
    <3>1. /\ \A s \in Tabs \ {t} : tab'[s] = tab[s]
          /\ tab'[t].token = None /\ tab'[t].shows = None
      BY <2>4 DEF SwitchLanguage, Elsewhere
    <3>2. QED
      BY <1>4, <3>1
  <2>5. QED
    BY <1>4, <2>1, <2>2, <2>3, <2>4 DEF Leaves
<1>5. CASE Exchange(t)
  <2>1. tab' = [tab EXCEPT ![t].token = None] /\ tab[t].shows = None
    BY <1>5 DEF Exchange
  <2>2. /\ \A s \in Tabs \ {t} : tab'[s] = tab[s]
        /\ tab'[t].token = None /\ tab'[t].shows = None
    BY <2>1
  <2>3. QED
    BY <1>5, <2>2
<1>6. CASE Localise(t)
  BY <1>6 DEF Localise
<1>7. CASE Loses(t)
  <2>1. /\ \A s \in Tabs \ {t} : tab'[s] = tab[s]
        /\ tab'[t].token = None /\ tab'[t].shows = None
    BY <1>7 DEF Loses, Elsewhere
  <2>2. QED
    BY <1>7, <2>1
<1>8. QED
  BY <1>1, <1>2, <1>3, <1>4, <1>5, <1>6, <1>7 DEF Moves

LEMMA MoveTokens ==
  ASSUME BrowserTypes, TokensOK, NEW t \in Tabs, Moves(t)
  PROVE  TokensOK'
<1>1. \A s \in Tabs \ {t} : tab'[s] = tab[s]
  BY MovedTab
<1>2. \A s \in Tabs \ {t} :
        /\ tab'[s].token # None => tab'[s].at = Pathname[tab'[s].token.kind]
        /\ tab'[s].at \in {"verify-email", "reset-password"}
             /\ tab'[s].shows \in {"form", "rejected"} => tab'[s].token # None
  BY <1>1 DEF TokensOK
<1>3. /\ tab'[t].token # None => tab'[t].at = Pathname[tab'[t].token.kind]
      /\ tab'[t].at \in {"verify-email", "reset-password"}
           /\ tab'[t].shows \in {"form", "rejected"} => tab'[t].token # None
  <2>1. CASE /\ Shows(t) \/ Stays(t)
             /\ tab'[t].at = tab[t].at /\ tab'[t].in = tab[t].in
             /\ tab'[t].token = tab[t].token /\ tab'[t].with = tab[t].with
    <3>1. tab'[t].at \in {"verify-email", "reset-password"}
            /\ tab'[t].shows \in {"form", "rejected"} => tab'[t].token # None
      <4>1. CASE Shows(t)
        BY <2>1, <4>1 DEF Shows, Show, ShowIn, BrowserTypes, Tab
      <4>2. CASE Stays(t)
        BY <2>1, <4>2 DEF Stays, TokensOK
      <4>3. QED
        BY <2>1, <4>1, <4>2
    <3>2. QED
      BY <2>1, <3>1 DEF TokensOK
  <2>2. CASE tab'[t].token = None /\ tab'[t].shows = None
    BY <2>2, LinksAssumption
  <2>3. CASE \E link \in Links \cup {Mangled} :
               /\ tab'[t].token = link /\ tab'[t].at = Pathname[link.kind]
               /\ tab'[t].shows = None
    BY <2>3, LinksAssumption
  <2>4. CASE /\ Localise(t)
             /\ tab'[t].at = tab[t].at /\ tab'[t].token = tab[t].token
             /\ tab'[t].shows = tab[t].shows
    BY <2>4 DEF Localise, TokensOK
  <2>5. QED
    BY <2>1, <2>2, <2>3, <2>4, MovedTab
<1>4. QED
  BY <1>2, <1>3 DEF TokensOK

\* A move that leaves the trail of another tab leaves its cookie.
LEMMA MoveTrails ==
  ASSUME BrowserOK, NEW t \in Tabs, Moves(t)
  PROVE  TrailsOK'
<1> USE DEF BrowserOK, BrowserTypes
<1>1. ASSUME NEW s \in Tabs \ {t}, trail'[s] # None
      PROVE  /\ trail'[s] = trail[s]
             /\ trail[s].in \in Locales => jar'[trail[s].in] = jar[trail[s].in]
  <2>1. CASE Shows(t) \/ Stays(t) \/ Redirects(t) \/ Leaves(t) \/ Localise(t)
    BY <2>1
    DEF Shows, Show, ShowIn, Stays, Redirects, RedirectIn, Leaves, Leave, GoTo, OpenLink,
        SwitchLanguage, Localise
  <2>2. CASE Exchange(t)
    BY <1>1, <2>2 DEF Exchange, TrailsBut
  <2>3. CASE Loses(t)
    BY <1>1, <2>3 DEF Loses, TrailsBut
  <2>4. QED
    BY <2>1, <2>2, <2>3 DEF Moves
<1>2. ASSUME NEW s \in Tabs \ {t}
      PROVE  TrailOK(s)'
  BY <1>1, <1>2, MovedTab DEF TrailsOK, TrailOK
<1>3. TrailOK(t)'
  <2> USE DEF TrailOK, TrailsOK, Tab
  <2>1. CASE Shows(t) \/ Stays(t)
    BY <2>1 DEF Shows, Show, ShowIn, Stays
  <2>2. CASE Redirects(t)
    BY <2>2 DEF Redirects, RedirectIn, Elsewhere
  <2>3. CASE Leaves(t) \/ Loses(t)
    <3>1. trail'[t] = None
      BY <2>3 DEF Leaves, Leave, GoTo, OpenLink, SwitchLanguage, Loses, TrailsBut
    <3>2. QED
      BY <3>1
  <2>4. CASE Exchange(t)
    <3>1. PICK link, in : link = tab[t].token /\ in = tab[t].in
      OBVIOUS
    <3>2. trail'[t] # None => trail'[t] = [link |-> link, in |-> in] /\ link # Mangled
      BY <2>4, <3>1 DEF Exchange, TrailsBut
    <3>3. link # Mangled /\ in \in Locales => jar'[in] = link
      BY <2>4, <3>1 DEF Exchange, CookiePath
    <3>4. tab'[t].at = "confirm" /\ tab'[t].token = None
      BY <2>4 DEF Exchange, CarriesToken
    <3>5. QED
      BY <3>2, <3>3, <3>4
  <2>5. CASE Localise(t)
    BY <2>5 DEF Localise
  <2>6. QED
    BY <2>1, <2>2, <2>3, <2>4, <2>5 DEF Moves
<1>4. QED
  BY <1>2, <1>3 DEF TrailsOK

-------------------------------------------------------------------------------
(* Actions *)

\* An action of tab t moves that tab alone, and leaves it waiting for an answer
\* only when it has sent the form of the confirmation.
Acts(t) ==
  /\ Moves(t)
  /\ ServerTypes'
  /\ \A s \in Tabs \ {t} : post[s] = None => post'[s] = None
  /\ post'[t] # None => tab'[t].at = "confirm" /\ tab'[t].shows = "pending"

LEMMA ActKeeps ==
  ASSUME PagesOK, NEW t \in Tabs, Acts(t)
  PROVE  PagesOK'
<1>1. BrowserOK'
  BY MoveTypes, MoveTokens, MoveTrails DEF Acts, PagesOK, BrowserOK
<1>2. \A s \in Tabs \ {t} : tab'[s] = tab[s]
  BY MovedTab DEF Acts, PagesOK, BrowserOK
<1>3. PostsOK'
  BY <1>2 DEF Acts, PagesOK, PostsOK
<1>4. QED
  BY <1>1, <1>3 DEF Acts, PagesOK

\* Nobody waits who sees a form or for whose page the browser waits.
LEMMA NotWaiting ==
  ASSUME PagesOK, NEW t \in Tabs, tab[t].shows # "pending"
  PROVE  post[t] = None
BY DEF PagesOK, PostsOK

LEMMA NothingIsShown ==
  None \notin Shown /\ None \notin {"form", "rejected", "done", "pending"}
BY LinksAssumption DEF Shown

\* A page is shown or leads elsewhere.
LEMMA PageActs ==
  ASSUME PagesOK, NEW t \in Tabs, tab[t].shows = None, Moves(t), Quiet
  PROVE  Acts(t)
<1>1. post[t] = None
  BY NotWaiting, NothingIsShown
<1>2. QED
  BY <1>1 DEF Acts, Quiet, accountVars, PagesOK, ServerTypes

LEMMA ShowMoves ==
  ASSUME PagesOK, NEW t \in Tabs, NEW at \in Pages, Reaches(t, at), NEW what \in Shown,
         what # "rejected",
         at \in {"verify-email", "reset-password"} /\ what = "form" => tab[t].token # None,
         Show(t, what)
  PROVE  Moves(t)
BY DEF Moves, Shows, Reaches

LEMMA RedirectMoves ==
  ASSUME PagesOK, NEW t \in Tabs, NEW to \in Pages, NEW with \in Keywords \cup {None},
         \/ tab[t].at \notin {"confirm", "login"}
         \/ tab[t].at = "login" /\ tab[t].with # "delete-confirm"
         \/ to = "confirm"
         \/ to = "login" /\ with = "delete-confirm",
         NEW locale \in Locales, RedirectIn(t, locale, to, with)
  PROVE  Moves(t)
BY DEF Moves, Redirects, PagesOK, BrowserOK, TrailsOK, TrailOK

LEMMA RedirectsOn ==
  ASSUME PagesOK, NEW t \in Tabs, NEW to \in Pages, NEW with \in Keywords \cup {None},
         \/ tab[t].at \notin {"confirm", "login"}
         \/ tab[t].at = "login" /\ tab[t].with # "delete-confirm"
         \/ to = "confirm"
         \/ to = "login" /\ with = "delete-confirm",
         Redirect(t, to, with)
  PROVE  Moves(t)
BY RedirectMoves, Languages DEF Redirect, PagesOK, BrowserOK

LEMMA ServePage ==
  ASSUME PagesOK, NEW t \in Tabs,
         \/ (Exchange(t) \/ Localise(t)) /\ Quiet
         \/ HomePage(t) \/ PostLoginPage(t) \/ OnboardingPage(t) \/ LoginPage(t)
         \/ RegisterPage(t) \/ VerifySentPage(t) \/ VerifyPage(t) \/ VerifyResultPage(t)
         \/ ForgotPage(t) \/ ResetPage(t)
         \/ AccountPage(t) \/ DeletePage(t) \/ SentPage(t) \/ ResultPage(t) \/ ConfirmPage(t)
  PROVE  tab[t].shows = None /\ Moves(t) /\ Quiet
<1> USE DEF Pages, Shown, Keywords
<1>1. CASE (Exchange(t) \/ Localise(t)) /\ Quiet
  BY <1>1 DEF Exchange, Localise, Moves
<1>2. CASE HomePage(t)
  BY <1>2, ShowMoves DEF HomePage, Reaches
<1>3. CASE PostLoginPage(t)
  <2>1. \A u : Destination(u) \in {"login", "onboarding", "home"}
    BY DEF Destination
  <2>2. QED
    BY <1>3, <2>1, RedirectsOn DEF PostLoginPage, Reaches
<1>4. CASE OnboardingPage(t)
  <2>1. \A u : Destination(u) \in {"login", "onboarding", "home"}
    BY DEF Destination
  <2>2. QED
    BY <1>4, <2>1, RedirectsOn, ShowMoves DEF OnboardingPage, Reaches
<1>5. CASE LoginPage(t)
  BY <1>5, RedirectsOn, ShowMoves DEF LoginPage, Reaches
<1>6. CASE RegisterPage(t)
  BY <1>6, RedirectsOn, ShowMoves DEF RegisterPage, Reaches
<1>7. CASE VerifySentPage(t)
  BY <1>7, ShowMoves DEF VerifySentPage, Reaches
<1>8. CASE VerifyPage(t)
  BY <1>8, ShowMoves DEF VerifyPage, Reaches
<1>9. CASE VerifyResultPage(t)
  BY <1>9, ShowMoves DEF VerifyResultPage, Reaches
<1>10. CASE ForgotPage(t)
  BY <1>10, ShowMoves DEF ForgotPage, Reaches
<1>11. CASE ResetPage(t)
  BY <1>11, ShowMoves DEF ResetPage, Reaches
<1>12. CASE AccountPage(t)
  BY <1>12, RedirectsOn, ShowMoves DEF AccountPage, Private, Reaches
<1>13. CASE DeletePage(t)
  BY <1>13, RedirectsOn, ShowMoves DEF DeletePage, Private, Reaches
<1>14. CASE SentPage(t)
  BY <1>14, RedirectsOn, ShowMoves DEF SentPage, Private, Reaches
<1>15. CASE ResultPage(t)
  BY <1>15, RedirectsOn, ShowMoves DEF ResultPage, Private, Reaches
<1>16. CASE ConfirmPage(t)
  <2>1. \A u, link : Preflight(u, link) \subseteq {"invalid", "expired", "blocked", "form"}
    BY DEF Preflight
  <2>2. Quiet /\ Reaches(t, "confirm")
    BY <1>16 DEF ConfirmPage
  <2>3. CASE session = None
    BY <1>16, <2>2, <2>3, RedirectsOn DEF ConfirmPage, Reaches
  <2>4. CASE session # None
    <3>1. PICK what : what \in {"missing", "invalid", "expired", "blocked", "form"} /\ Show(t, what)
      BY <1>16, <2>1, <2>4 DEF ConfirmPage
    <3>2. QED
      BY <2>2, <3>1, ShowMoves DEF Reaches
  <2>5. QED
    BY <2>3, <2>4
<1>17. QED
  BY <1>1, <1>2, <1>3, <1>4, <1>5, <1>6, <1>7, <1>8, <1>9, <1>10, <1>11, <1>12, <1>13, <1>14,
    <1>15, <1>16

LEMMA IssueType ==
  ASSUME ServerTypes, NEW u, NEW kind, Issue(u, kind)
  PROVE  state' \in [Links -> States]
BY DEF ServerTypes, Issue, Replaced, States

LEMMA StayMoves ==
  ASSUME PagesOK, NEW t \in Tabs, NEW what \in Shown,
         \E locale \in Locales : ShowIn(t, locale, what),
         \/ tab[t].shows \in {"form", "rejected"}
         \/ tab[t].shows \in {"done", "pending"} /\ tab[t].at \notin {"verify-email", "reset-password"}
  PROVE  Moves(t)
BY DEF Moves, Stays, ShowIn

LEMMA ShowsAgain ==
  ASSUME PagesOK, NEW t \in Tabs, NEW what \in Shown, Show(t, what),
         \/ tab[t].shows \in {"form", "rejected"}
         \/ tab[t].shows \in {"done", "pending"} /\ tab[t].at \notin {"verify-email", "reset-password"}
  PROVE  Moves(t)
BY StayMoves, Languages DEF Show, PagesOK, BrowserOK

LEMMA VisitMoves ==
  ASSUME PagesOK, NEW t \in Tabs, NEW at \in Pages, NEW with \in Keywords \cup {None},
         Visit(t, at, with) \/ VisitUnprefixed(t, at, with)
  PROVE  Moves(t)
<1>1. Language(t) \in Locales /\ DefaultLocale \in Locales
  BY Languages DEF PagesOK, BrowserOK, Locales, DefaultLocale
<1>2. QED
  BY <1>1 DEF Moves, Leaves, Visit, VisitUnprefixed

\* Of a form, and of a page that lets somebody go elsewhere
LEMMA FormActs ==
  ASSUME PagesOK, NEW t \in Tabs, tab[t].shows # "pending", Moves(t), UNCHANGED post,
         account' \in [Users -> {"none", "unverified", "active", "deleted"}],
         state' \in [Links -> States],
         session' \in Users \cup {None}
  PROVE  Acts(t)
BY NotWaiting DEF Acts, PagesOK, ServerTypes

LEMMA BrowseActs ==
  ASSUME PagesOK, NEW t \in Tabs, Browse(t)
  PROVE  Acts(t)
<1>1. /\ Habits[t].pages \subseteq Pages
      /\ \A url \in Habits[t].links :
           url.link \in Links \cup {Mangled} /\ url.in \in Spellings(url.link.in)
  BY PagesAssumption
<1>2. Idle(t) /\ Quiet
  BY DEF Browse, GoTo, SwitchLanguage, OpenLink
<1>3. Moves(t)
  BY <1>1 DEF Browse, Moves, Leaves
<1>4. QED
  BY <1>2, <1>3, FormActs DEF Idle, Quiet, accountVars, PagesOK, ServerTypes

\* Sessions that end take nothing else with them.
LEMMA RevokeTypes ==
  ASSUME ServerTypes, NEW u, Revoke(u)
  PROVE  /\ session' \in Users \cup {None}
         /\ post' \in [Tabs -> Carried \cup {None}]
         /\ \A s \in Tabs : post[s] = None => post'[s] = None
BY DEF ServerTypes, Revoke, Carried

LEMMA SendActs ==
  ASSUME PagesOK, NEW t \in Tabs, SendForm(t)
  PROVE  Acts(t)
<1> USE DEF Pages, Shown, Keywords
<1>1. /\ account \in [Users -> {"none", "unverified", "active", "deleted"}]
      /\ state \in [Links -> States]
      /\ session \in Users \cup {None}
      /\ \A u, kind : Issue(u, kind) => state' \in [Links -> States]
  BY IssueType DEF PagesOK, ServerTypes
<1>2. CASE LogIn(t)
  <2>1. On(t, "login", {"form", "rejected"}) /\ UNCHANGED <<account, state, post>>
    BY <1>2 DEF LogIn, LoginForm
  <2>2. session' \in Users \cup {None}
    BY <1>1, <1>2 DEF LogIn
  <2>3. Moves(t)
    BY <1>2, <2>1, RedirectsOn, ShowsAgain DEF LogIn, On
  <2>4. QED
    BY <1>1, <2>1, <2>2, <2>3, FormActs DEF On
<1>3. CASE ContinueWithProvider(t)
  <2>1. tab[t].at \in {"login", "register"} /\ tab[t].shows \in {"form", "rejected"}
        /\ UNCHANGED <<account, state, post>>
    BY <1>3 DEF ContinueWithProvider, ProviderButtons, LoginForm, On
  <2>2. session' \in Users \cup {None}
    BY <1>1, <1>3 DEF ContinueWithProvider
  <2>3. Moves(t)
    BY <1>3, <2>1, RedirectsOn, VisitMoves DEF ContinueWithProvider
  <2>4. QED
    BY <1>1, <2>1, <2>2, <2>3, FormActs
<1>4. CASE LogOut(t)
  BY <1>1, <1>4, VisitMoves, FormActs DEF LogOut, LogOutButton, Idle
<1>5. CASE Register(t)
  <2>1. On(t, "register", {"form", "rejected"}) /\ UNCHANGED <<session, post>>
    BY <1>5 DEF Register, RegisterForm
  <2>2. /\ account' \in [Users -> {"none", "unverified", "active", "deleted"}]
        /\ state' \in [Links -> States]
    BY <1>1, <1>5 DEF Register
  <2>3. Moves(t)
    BY <1>5, <2>1, VisitMoves, ShowsAgain DEF Register, On
  <2>4. QED
    BY <1>1, <2>1, <2>2, <2>3, FormActs DEF On
<1>6. CASE Resend(t)
  <2>1. On(t, "verify-sent", {"form", "done", "rejected"}) /\ UNCHANGED <<account, session, post>>
    BY <1>6 DEF Resend, ResendForm
  <2>2. state' \in [Links -> States]
    BY <1>1, <1>6 DEF Resend
  <2>3. Moves(t)
    BY <1>6, <2>1, ShowsAgain DEF Resend, On
  <2>4. QED
    BY <1>1, <2>1, <2>2, <2>3, FormActs DEF On
<1>7. CASE Verify(t)
  <2>1. On(t, "verify-email", {"form"}) /\ UNCHANGED <<session, post>>
    BY <1>7 DEF Verify
  <2>2. /\ account' \in [Users -> {"none", "unverified", "active", "deleted"}]
        /\ state' \in [Links -> States]
    BY <1>1, <1>7 DEF Verify, States
  <2>3. Moves(t)
    <3>1. CASE Show(t, "error")
      BY <2>1, <3>1, ShowsAgain DEF On
    <3>2. CASE \E status \in {"verified", "expired", "already-verified", "invalid"} :
                 Visit(t, "verify-result", status)
      BY <3>2, VisitMoves
    <3>3. QED
      BY <1>7, <3>1, <3>2 DEF Verify
  <2>4. QED
    BY <1>1, <2>1, <2>2, <2>3, FormActs DEF On
<1>8. CASE Forgot(t)
  <2>1. On(t, "forgot", {"form", "done", "rejected"}) /\ UNCHANGED <<account, session, post>>
    BY <1>8 DEF Forgot, ForgotForm
  <2>2. state' \in [Links -> States]
    BY <1>1, <1>8 DEF Forgot
  <2>3. Moves(t)
    BY <1>8, <2>1, ShowsAgain DEF Forgot, On
  <2>4. QED
    BY <1>1, <2>1, <2>2, <2>3, FormActs DEF On
<1>9. CASE Reset(t)
  <2>1. On(t, "reset-password", {"form", "rejected"}) /\ UNCHANGED account
    BY <1>9 DEF Reset, ResetForm
  <2>2. post[t] = None
    BY <2>1, NotWaiting DEF On
  <2>3. Moves(t)
    BY <1>9, <2>1, VisitMoves, ShowsAgain DEF Reset, On
  <2>4. state' \in [Links -> States]
    BY <1>1, <1>9 DEF Reset, States
  <2>5. /\ session' \in Users \cup {None}
        /\ post' \in [Tabs -> Carried \cup {None}]
        /\ \A s \in Tabs : post[s] = None => post'[s] = None
    <3>1. ServerTypes
      BY DEF PagesOK
    <3>2. CASE \E u : Revoke(u)
      BY <3>1, <3>2, RevokeTypes
    <3>3. CASE UNCHANGED <<session, post>>
      BY <3>1, <3>3 DEF ServerTypes
    <3>4. QED
      BY <1>9, <3>2, <3>3 DEF Reset
  <2>6. QED
    BY <1>1, <2>1, <2>2, <2>3, <2>4, <2>5 DEF Acts, ServerTypes
<1>10. CASE RequestDeletion(t)
  <2>1. On(t, "delete", {"form", "rejected"}) /\ UNCHANGED <<account, session, post>>
    BY <1>10 DEF RequestDeletion, RequestForm
  <2>2. state' \in [Links -> States]
    BY <1>1, <1>10 DEF RequestDeletion
  <2>3. Moves(t)
    BY <1>10, <2>1, VisitMoves, ShowsAgain DEF RequestDeletion, On
  <2>4. QED
    BY <1>1, <2>1, <2>2, <2>3, FormActs DEF On
<1>11. CASE SubmitConfirmation(t)
  <2>1. /\ On(t, "confirm", {"form"}) /\ UNCHANGED <<jar, preference, trail, accountVars>>
        /\ tab' = [tab EXCEPT ![t].shows = "pending"]
    BY <1>11 DEF SubmitConfirmation, ConfirmForm
  <2>2. Moves(t)
    BY <2>1 DEF On, Moves, Stays, PagesOK, BrowserOK, BrowserTypes
  <2>3. tab'[t].at = "confirm" /\ tab'[t].shows = "pending"
    BY <2>1 DEF On, PagesOK, BrowserOK, BrowserTypes, Tab
  <2>4. Language(t) \in Locales /\ jar[Language(t)] \in Links \cup {None}
    BY Languages DEF PagesOK, BrowserOK, BrowserTypes
  <2>5. post' \in [Tabs -> Carried \cup {None}] /\ \A s \in Tabs \ {t} : post'[s] = post[s]
    <3>1. PICK carried : carried = [session |-> session, cookie |-> jar[Language(t)],
                                    in |-> Language(t)]
      OBVIOUS
    <3>2. carried \in Carried
      BY <1>1, <2>4, <3>1 DEF Carried
    <3>3. post' = [post EXCEPT ![t] = carried]
      BY <1>11, <3>1 DEF SubmitConfirmation
    <3>4. QED
      BY <3>2, <3>3 DEF PagesOK, ServerTypes
  <2>6. QED
    BY <1>1, <2>1, <2>2, <2>3, <2>5 DEF Acts, ServerTypes, accountVars
<1>12. QED
  BY <1>2, <1>3, <1>4, <1>5, <1>6, <1>7, <1>8, <1>9, <1>10, <1>11 DEF SendForm

LEMMA ClearMoves ==
  ASSUME PagesOK, NEW t \in Tabs, post[t] # None
  PROVE  \A at \in Pages, with \in Keywords : ClearCookie(t, at, with) => Moves(t)
<1>1. PICK locale \in Locales : locale = post[t].in
  BY DEF PagesOK, ServerTypes, Carried
<1>2. ASSUME NEW at \in Pages, NEW with \in Keywords, ClearCookie(t, at, with)
      PROVE  Loses(t)
  <2>1. /\ tab' = Elsewhere(t, at, locale, with)
        /\ jar' = [jar EXCEPT ![locale] = None]
        /\ preference' = locale
        /\ trail' = [TrailsBut(locale) EXCEPT ![t] = None]
    BY <1>1, <1>2 DEF ClearCookie, CookiePath
  <2>2. QED
    BY <2>1 DEF Loses
<1>3. QED
  BY <1>2 DEF Moves

LEMMA ServeActs ==
  ASSUME PagesOK, NEW t \in Tabs, Serve(t)
  PROVE  Acts(t)
<1> USE DEF Pages, Shown, Keywords
<1>1. CASE post[t] # None /\ (TurnDown(t) \/ Refuse(t) \/ Delete(t))
  <2>1. tab[t].at = "confirm" /\ tab[t].shows = "pending"
    BY <1>1 DEF PagesOK, PostsOK
  <2> DEFINE locale == post[t].in
  <2> HIDE DEF locale
  <2>6. locale \in Locales
    BY <1>1 DEF locale, PagesOK, ServerTypes, Carried
  <2>7. \A at \in Pages, with \in Keywords : ClearCookie(t, at, with) => Moves(t)
    BY <1>1, ClearMoves
  <2>2. CASE TurnDown(t)
    <3>1. Moves(t)
      BY <2>1, <2>2, <2>6, RedirectMoves, StayMoves DEF TurnDown, locale
    <3>2. post' = [post EXCEPT ![t] = None] /\ UNCHANGED accountVars
      BY <2>2 DEF TurnDown, Answered
    <3>3. QED
      BY <3>1, <3>2 DEF Acts, PagesOK, ServerTypes, accountVars
  <2>3. CASE Refuse(t)
    <3>1. Moves(t)
      BY <2>3, <2>7 DEF Refuse, Outcomes
    <3>2. post' = [post EXCEPT ![t] = None] /\ UNCHANGED accountVars
      BY <2>3 DEF Refuse, Answered
    <3>3. QED
      BY <3>1, <3>2 DEF Acts, PagesOK, ServerTypes, accountVars
  <2>4. CASE Delete(t)
    <3>1. Moves(t)
      BY <2>4, <2>7 DEF Delete
    <3>2. /\ account' \in [Users -> {"none", "unverified", "active", "deleted"}]
          /\ state' \in [Links -> States]
          /\ session' = None
      BY <2>4 DEF Delete, PagesOK, ServerTypes, States
    <3>3. /\ post' \in [Tabs -> Carried \cup {None}] /\ post'[t] = None
          /\ \A s \in Tabs \ {t} : post[s] = None => post'[s] = None
      BY <2>4 DEF Delete, PagesOK, ServerTypes, Carried
    <3>4. QED
      BY <3>1, <3>2, <3>3 DEF Acts, ServerTypes
  <2>5. QED
    BY <1>1, <2>2, <2>3, <2>4
<1>2. CASE ~ (TurnDown(t) \/ Refuse(t) \/ Delete(t))
  BY <1>2, ServePage, PageActs DEF Serve
<1>3. QED
  BY <1>1, <1>2 DEF TurnDown, Refuse, Delete

-------------------------------------------------------------------------------
(* Every reachable state is in order                                       *)

LEMMA PagesInit == Init => PagesOK
<1> SUFFICES ASSUME Init PROVE PagesOK
  OBVIOUS
<1>1. BrowserTypes
  BY DEF Init, InitBrowser, BrowserTypes, Tab, Pages, Spaces, Locales, DefaultLocale, Shown
<1>2. TokensOK /\ TrailsOK /\ PostsOK
  BY DEF Init, InitBrowser, TokensOK, TrailsOK, TrailOK, PostsOK
<1>3. ServerTypes
  BY DEF Init, ServerTypes, States
<1>4. QED
  BY <1>1, <1>2, <1>3 DEF PagesOK, BrowserOK

\* What happens to accounts and cookies with no tab doing anything
LEMMA ElsewhereKeeps ==
  ASSUME PagesOK,
         \/ \E link \in Expiring : Expire(link)
         \/ \E locale \in Locales : CookieEnds(locale)
         \/ SessionEnds
         \/ UNCHANGED vars
  PROVE  PagesOK' /\ UNCHANGED tab
<1> USE DEF PagesOK, BrowserOK, BrowserTypes, TokensOK, TrailsOK, PostsOK, ServerTypes
<1>1. CASE \E link \in Expiring : Expire(link)
  <2>1. state' \in [Links -> States]
    BY <1>1 DEF Expire, States
  <2>2. UNCHANGED <<tab, jar, preference, trail, account, session, post>>
    BY <1>1 DEF Expire, browser
  <2>3. QED
    BY <2>1, <2>2 DEF TrailOK
<1>2. CASE \E locale \in Locales : CookieEnds(locale)
  <2>1. PICK locale \in Locales : CookieEnds(locale)
    BY <1>2
  <2>2. /\ jar' = [jar EXCEPT ![locale] = None] /\ trail' = TrailsBut(locale)
        /\ UNCHANGED <<tab, preference, account, state, session, post>>
    BY <2>1 DEF CookieEnds, LoseCookie, Quiet, accountVars
  <2>3. ASSUME NEW t \in Tabs
        PROVE  TrailOK(t)'
    BY <2>2 DEF TrailsBut, TrailOK
  <2>4. BrowserTypes'
    BY <2>2 DEF TrailsBut
  <2>5. TokensOK' /\ PostsOK' /\ ServerTypes'
    BY <2>2
  <2>6. QED
    BY <2>2, <2>3, <2>4, <2>5
<1>3. CASE SessionEnds
  <2>1. /\ session' \in Users \cup {None}
        /\ post' \in [Tabs -> Carried \cup {None}]
        /\ \A s \in Tabs : post[s] = None => post'[s] = None
    BY <1>3, RevokeTypes DEF SessionEnds
  <2>2. UNCHANGED <<tab, jar, preference, trail, account, state>>
    BY <1>3 DEF SessionEnds, browser
  <2>3. QED
    BY <2>1, <2>2 DEF TrailOK
<1>4. CASE UNCHANGED vars
  BY <1>4 DEF vars, browser, accountVars, TrailOK
<1>5. QED
  BY <1>1, <1>2, <1>3, <1>4

LEMMA PagesStep == PagesOK /\ [Next]_vars => PagesOK'
<1> SUFFICES ASSUME PagesOK, [Next]_vars PROVE PagesOK'
  OBVIOUS
<1>1. CASE \E t \in Tabs : Serve(t) \/ Browse(t) \/ SendForm(t)
  BY <1>1, ServeActs, BrowseActs, SendActs, ActKeeps
<1>2. CASE ~ \E t \in Tabs : Serve(t) \/ Browse(t) \/ SendForm(t)
  BY <1>2, ElsewhereKeeps DEF Next
<1>3. QED
  BY <1>1, <1>2

\* Tabs, cookies, trails and confirmations under way are as TokensOK, TrailsOK
\* and PostsOK say, and of their types.
THEOREM InOrder == Spec => []PagesOK
BY PagesInit, PagesStep, PTL DEF Spec

-------------------------------------------------------------------------------
(* Deletion links                                                          *)

\* Of the pages a tab with a trail can be on, the login page shows nothing to
\* the owner of the link, and the other one its form, in the language of the
\* cookie.
LEMMA TrailArrives ==
  ASSUME PagesOK, NEW t \in Tabs, Serve(t) \/ Browse(t) \/ SendForm(t), Arrives(t)
  PROVE  tab[t].at = "confirm" /\ (tab'[t].shows \in {"form", "blocked"} \/ tab[t].in # trail[t].in)
<1>1. /\ trail[t] \in Trail /\ trail[t].link \in Links
      /\ session = trail[t].link.of /\ session # None /\ state[trail[t].link] = "live"
      /\ tab[t].shows = None /\ tab'[t].shows # None
  BY LinksAssumption DEF Arrives, Trail, PagesOK, BrowserOK, BrowserTypes
<1>2. /\ tab[t].at = "confirm" \/ (tab[t].at = "login" /\ tab[t].with = "delete-confirm")
      /\ trail[t].in \in Locales => jar[trail[t].in] = trail[t].link
      /\ tab[t].token = None
  BY DEF Arrives, PagesOK, BrowserOK, TrailsOK, TrailOK
<1>3. post[t] = None
  BY <1>1, NotWaiting, NothingIsShown
<1>4. Acts(t)
  BY ServeActs, BrowseActs, SendActs
<1>5. Shows(t)
  BY <1>1, <1>4, MovedTab, NothingIsShown DEF Acts, Stays, PagesOK, BrowserOK
<1>6. tab[t].shows \notin {"form", "rejected", "done"}
  BY <1>1, NothingIsShown
<1>7. ~ SendForm(t)
  BY <1>1, <1>6 DEF SendForm, LogIn, ContinueWithProvider, ProviderButtons, LoginForm, LogOut,
    LogOutButton, Idle, Register, RegisterForm, Resend, ResendForm, Verify, Forgot, ForgotForm,
    Reset, ResetForm, RequestDeletion, RequestForm, SubmitConfirmation, ConfirmForm, On
<1>8. ~ Browse(t)
  BY <1>1 DEF Browse, GoTo, OpenLink, SwitchLanguage, Idle
<1>9. ~ (Exchange(t) \/ Localise(t))
  <2>1. tab[t] \in Tab /\ DOMAIN tab = Tabs
    BY DEF PagesOK, BrowserOK, BrowserTypes
  <2>2. Exchange(t) \/ Localise(t) => tab'[t].shows = tab[t].shows
    BY <2>1 DEF Exchange, Localise, Tab
  <2>3. QED
    BY <1>1, <2>2
<1>10. CASE LoginPage(t)
  <2>1. \E at, with : RedirectIn(t, Language(t), at, with)
    BY <1>1, <1>10 DEF LoginPage, Redirect
  <2>2. tab'[t].shows = None
    BY <2>1 DEF RedirectIn, Elsewhere, PagesOK, BrowserOK, BrowserTypes
  <2>3. QED
    BY <1>1, <2>2
<1>11. CASE ConfirmPage(t)
  <2>1. tab[t].at = "confirm" /\ tab[t].in \in Locales
    BY <1>11, Languages DEF ConfirmPage, Reaches, PagesOK, BrowserOK
  <2>2. CASE tab[t].in = trail[t].in
    <3>1. PICK link \in Links : link = trail[t].link /\ jar[tab[t].in] = link
      BY <1>1, <1>2, <2>1, <2>2
    <3>2. PICK what \in Preflight(session, link) : Show(t, what)
      BY <1>1, <1>11, <3>1, LinksAssumption DEF ConfirmPage
    <3>3. what \in {"form", "blocked"}
      BY <1>1, <3>1, <3>2 DEF Preflight
    <3>4. tab'[t].shows = what
      BY <3>2 DEF Show, ShowIn, PagesOK, BrowserOK, BrowserTypes, Tab
    <3>5. QED
      BY <2>1, <3>3, <3>4
  <2>3. QED
    BY <2>1, <2>2
<1>12. CASE ~ LoginPage(t) /\ ~ ConfirmPage(t)
  BY <1>2, <1>3, <1>7, <1>8, <1>9, <1>12 DEF Serve, HomePage, PostLoginPage, OnboardingPage,
    RegisterPage, VerifySentPage, VerifyPage, VerifyResultPage, ForgotPage, ResetPage,
    AccountPage, DeletePage, SentPage, ResultPage, Private, Reaches, TurnDown, Refuse, Delete
<1>13. QED
  BY <1>10, <1>11, <1>12

\* Only the language stands between a link that works and its form: a tab that
\* was led on from a deletion link, its owner signed in and no other tab having
\* touched the cookie, ends at the form or at the notice of obligations, unless
\* the languages' redirects have led it to a URL of another form than the one
\* in which the cookie was set.
THEOREM FormReached == Spec => OnlyLanguageLosesLink
<1> DEFINE Arrived ==
      \A t \in Tabs : Arrives(t) =>
        FormShown(t) \/ (tab[t].at = "confirm" /\ tab[t].in # trail[t].in)
<1>1. PagesOK /\ [Next]_vars => Arrived
  <2> SUFFICES ASSUME PagesOK, [Next]_vars, NEW t \in Tabs, Arrives(t)
               PROVE  FormShown(t) \/ (tab[t].at = "confirm" /\ tab[t].in # trail[t].in)
    OBVIOUS
  <2>1. CASE \E s \in Tabs : Serve(s) \/ Browse(s) \/ SendForm(s)
    <3>1. PICK s \in Tabs : Serve(s) \/ Browse(s) \/ SendForm(s)
      BY <2>1
    <3>2. Acts(s)
      BY <3>1, ServeActs, BrowseActs, SendActs
    <3>3. s = t
      BY <3>2, MovedTab DEF Acts, Arrives, PagesOK, BrowserOK
    <3>4. QED
      BY <3>1, <3>3, TrailArrives DEF FormShown
  <2>2. CASE ~ \E s \in Tabs : Serve(s) \/ Browse(s) \/ SendForm(s)
    <3>1. UNCHANGED tab
      BY <2>2, ElsewhereKeeps DEF Next
    <3>2. QED
      BY <3>1 DEF Arrives
  <2>3. QED
    BY <2>1, <2>2
<1>2. QED
  BY <1>1, InOrder, PTL DEF Spec, OnlyLanguageLosesLink

-------------------------------------------------------------------------------
(* What spends a link                                                      *)

\* A link that is issued puts an end only to those it takes the place of.
LEMMA IssueSpends ==
  ASSUME ServerTypes, NEW u, NEW kind, Issue(u, kind), NEW l \in Links,
         state[l] = "live", state'[l] \in {"used", "gone"}
  PROVE  \E k \in Of(l.of, l.kind) : state[k] = "unsent" /\ state'[k] \in {"live", "lost"}
<1>1. PICK new \in Of(u, kind), outcome \in {"live", "lost"} :
        state[new] = "unsent" /\ state' = Replaced(new, outcome)
  BY DEF Issue
<1>2. l # new /\ l \in Of(new.of, new.kind) /\ new \in Links
  BY <1>1 DEF Replaced, Of
<1>3. state'[new] = outcome /\ new \in Of(l.of, l.kind)
  BY <1>1, <1>2 DEF Replaced, Of
<1>4. QED
  BY <1>1, <1>3

\* Opening pages and links spends nothing.  A link stops working early only
\* because a newer one was issued, because the form of its own page was sent
\* and accepted, or because its owner's session confirmed a deletion with a
\* link of theirs.
THEOREM HoldersSpend == Spec => SpentByItsHolder
<1>1. PagesOK /\ [Next]_vars => Spending
  <2> SUFFICES ASSUME PagesOK, [Next]_vars, NEW l \in Links,
                      state[l] = "live", state'[l] \in {"used", "gone"}
               PROVE  \/ \E k \in Of(l.of, l.kind) : state[k] = "unsent" /\ state'[k] \in {"live", "lost"}
                      \/ \E t \in Tabs :
                           /\ tab[t].at = Pathname[l.kind] /\ tab[t].at # "confirm"
                           /\ tab[t].shows \in {"form", "rejected"} /\ tab[t].token = l
                           /\ tab'[t].at \in {"verify-result", "login"}
                      \/ \E t \in Tabs :
                           /\ post[t] # None /\ post'[t] = None /\ post[t].session = l.of
                           /\ post[t].cookie # None /\ post[t].cookie.of = l.of
                           /\ state[post[t].cookie] = "live"
    BY DEF Spending
  <2>1. ServerTypes /\ state' # state
    BY DEF PagesOK
  <2>2. CASE \E t \in Tabs : Register(t) \/ Resend(t) \/ Forgot(t) \/ RequestDeletion(t)
    <3>1. \E u, kind : Issue(u, kind)
      BY <2>1, <2>2 DEF Register, Resend, Forgot, RequestDeletion
    <3>2. QED
      BY <2>1, <3>1, IssueSpends
  <2>3. CASE \E t \in Tabs : Verify(t) \/ Reset(t)
    <3>1. PICK t \in Tabs : Verify(t) \/ Reset(t)
      BY <2>3
    <3>2. /\ tab[t].at \in {"verify-email", "reset-password"}
          /\ tab[t].shows \in {"form", "rejected"}
          /\ state' = [state EXCEPT ![tab[t].token] = "used"]
          /\ \E at \in {"verify-result", "login"} : \E with : Visit(t, at, with)
      BY <2>1, <3>1 DEF Verify, Reset, ResetForm, On
    <3>3. l = tab[t].token
      BY <2>1, <3>2 DEF ServerTypes
    <3>4. tab[t].at = Pathname[l.kind]
      BY <3>3, LinksAssumption DEF PagesOK, BrowserOK, TokensOK
    <3>5. tab'[t].at \in {"verify-result", "login"} /\ tab[t].at # "confirm"
      BY <3>2 DEF Visit, Leave, Elsewhere, PagesOK, BrowserOK, BrowserTypes
    <3>6. QED
      BY <3>2, <3>3, <3>4, <3>5
  <2>4. CASE \E t \in Tabs : Delete(t)
    <3>1. PICK t \in Tabs : Delete(t)
      BY <2>4
    <3>2. /\ post[t] # None /\ post[t].cookie # None
          /\ "deleted" \in Outcomes(post[t].session, post[t].cookie)
          /\ l.of = post[t].session /\ post'[t] = None
      BY <2>1, <3>1 DEF Delete, ServerTypes
    <3>3. post[t].cookie.of = post[t].session /\ state[post[t].cookie] = "live"
      <4>1. PICK u, link : u = post[t].session /\ link = post[t].cookie
        OBVIOUS
      <4>2. "deleted" \in Outcomes(u, link)
        BY <3>2, <4>1
      <4>3. link.of = u /\ state[link] = "live"
        BY <4>2 DEF Outcomes
      <4>4. QED
        BY <4>1, <4>3
    <3>4. QED
      BY <3>2, <3>3
  <2>5. CASE ~ \E t \in Tabs : \/ Register(t) \/ Resend(t) \/ Forgot(t) \/ RequestDeletion(t)
                                \/ Verify(t) \/ Reset(t) \/ Delete(t)
    <3>1. CASE \E t \in Tabs : Serve(t) \/ Browse(t) \/ SendForm(t)
      <4>1. UNCHANGED state
        BY <2>5, <3>1, ServePage DEF Serve, Browse, SendForm, Quiet, accountVars, LogIn,
          ContinueWithProvider, LogOut, SubmitConfirmation, TurnDown, Refuse
      <4>2. QED
        BY <2>1, <4>1
    <3>2. CASE \E link \in Expiring : Expire(link)
      BY <2>1, <3>2 DEF Expire, ServerTypes
    <3>3. CASE \/ \E locale \in Locales : CookieEnds(locale)
               \/ SessionEnds
               \/ UNCHANGED vars
      BY <2>1, <3>3 DEF CookieEnds, Quiet, accountVars, SessionEnds, vars
    <3>4. QED
      BY <3>1, <3>2, <3>3 DEF Next
  <2>6. QED
    BY <2>2, <2>3, <2>4, <2>5
<1>2. QED
  BY <1>1, InOrder, PTL DEF Spec, SpentByItsHolder
-------------------------------------------------------------------------------
(* Redirects come to an end                                                  *)

\* Pages that send away whoever is not signed in
ForSignedIn == {"account", "delete", "sent", "result", "confirm", "onboarding", "post-login"}

\* The requests it takes at most from page at to a page that is shown, while
\* the session stays as it is.
Hops(at) ==
  CASE session = None /\ at \in ForSignedIn -> 2
    [] session # None /\ at = "onboarding" -> 2
    [] session # None /\ at = "post-login" -> 3
    [] session # None /\ at \in {"login", "register"} -> 4
    [] OTHER -> 1

\* A URL of the default language may be redirected once or twice.
Detours(in) == CASE in = Explicit -> 2 [] in = DefaultLocale -> 1 [] OTHER -> 0

\* The answers that tab t is still to get: one for the token in its URL, those
\* for its language, and one for every page on the way.
Left(t) ==
  IF tab[t].shows = "pending" THEN 8
  ELSE IF tab[t].shows # None THEN 0
  ELSE Hops(tab[t].at) + (IF CarriesToken(t) THEN 1 ELSE 0) + Detours(tab[t].in)

\* While a tab waits and the session stays, every step leaves the tab alone or
\* brings it nearer to a page.
NearerToAPage ==
  \A t \in Tabs : Left(t) > 0 /\ session' = session =>
    \/ Left(t)' < Left(t)
    \/ Left(t)' = Left(t) /\ tab'[t] = tab[t]

\* Nobody is signed in to an account that is not active.
SessionOK == session # None => account[session] = "active"

\* A session is never that of an account that is not active: a sign-in takes
\* the cookie of an active one, and the deletion ends every session with it.
THEOREM SessionsAreActive == Spec => []SessionOK
<1>1. Init => SessionOK
  BY DEF Init, SessionOK
<1>2. PagesOK /\ SessionOK /\ [Next]_vars => SessionOK'
  <2> SUFFICES ASSUME PagesOK, SessionOK, [Next]_vars PROVE SessionOK'
    OBVIOUS
  <2>1. CASE UNCHANGED <<account, session>>
    BY <2>1 DEF SessionOK
  <2>2. CASE account' = account /\ (session' = None \/ account[session'] = "active")
    BY <2>2 DEF SessionOK
  <2>3. ASSUME NEW t \in Tabs, Serve(t) \/ Browse(t)
        PROVE  UNCHANGED <<account, session>> \/ session' = None
    <3>1. CASE Quiet
      BY <3>1 DEF Quiet, accountVars
    <3>2. CASE TurnDown(t) \/ Refuse(t)
      BY <3>2 DEF TurnDown, Refuse, accountVars
    <3>3. CASE Delete(t)
      BY <3>3 DEF Delete
    <3>4. QED
      BY <2>3, <3>1, <3>2, <3>3, ServePage DEF Serve, Browse
  <2>4. ASSUME NEW t \in Tabs, SendForm(t)
        PROVE  SessionOK'
    <3>1. CASE LogIn(t) \/ ContinueWithProvider(t) \/ LogOut(t)
      BY <2>2, <3>1 DEF LogIn, ContinueWithProvider, LogOut, SessionOK
    <3>2. ASSUME Register(t) \/ Verify(t), session # None
          PROVE  session' = session /\ account'[session] = "active"
      <4>1. account \in [Users -> {"none", "unverified", "active", "deleted"}]
            /\ session \in Users /\ account[session] = "active" /\ session' = session
        BY <3>2 DEF PagesOK, ServerTypes, SessionOK, Register, Verify
      <4>2. CASE Register(t)
        BY <4>1, <4>2 DEF Register
      <4>3. CASE Verify(t)
        BY <4>1, <4>3 DEF Verify
      <4>4. QED
        BY <3>2, <4>2, <4>3
    <3>3. CASE Register(t) \/ Verify(t)
      BY <3>2, <3>3 DEF SessionOK, Register, Verify
    <3>4. CASE Reset(t)
      BY <2>1, <2>2, <3>4 DEF Reset, Revoke, SessionOK
    <3>5. CASE Resend(t) \/ Forgot(t) \/ RequestDeletion(t) \/ SubmitConfirmation(t)
      BY <2>1, <3>5 DEF Resend, Forgot, RequestDeletion, SubmitConfirmation, accountVars
    <3>6. QED
      BY <2>4, <3>1, <3>3, <3>4, <3>5 DEF SendForm
  <2>5. CASE SessionEnds
    BY <2>5 DEF SessionEnds, Revoke, SessionOK
  <2>6. CASE (\E link \in Expiring : Expire(link)) \/ (\E locale \in Locales : CookieEnds(locale))
             \/ UNCHANGED vars
    BY <2>1, <2>6 DEF Expire, CookieEnds, Quiet, vars, accountVars
  <2>7. QED
    BY <2>1, <2>3, <2>4, <2>5, <2>6 DEF Next, SessionOK
<1>3. QED
  BY <1>1, <1>2, InOrder, PTL DEF Spec

\* A tab that is not waiting for a confirmation has seven answers to get at
\* most, and none when it shows a page.
LEMMA LeftRange ==
  ASSUME NEW t \in Tabs
  PROVE  /\ Left(t) \in 0 .. 8
         /\ tab[t].shows # "pending" => Left(t) \in 0 .. 7
         /\ tab[t].shows \notin {None, "pending"} => Left(t) = 0
         /\ tab[t].shows = None => Left(t) > 0
<1>1. Hops(tab[t].at) \in 1 .. 4 /\ Detours(tab[t].in) \in 0 .. 2
  BY DEF Hops, Detours
<1>2. QED
  BY <1>1, NothingIsShown DEF Left

LEMMA LeftRangeNext ==
  ASSUME NEW t \in Tabs
  PROVE  /\ (tab'[t].shows # "pending" => Left(t)' \in 0 .. 7)
         /\ (tab'[t].shows \notin {None, "pending"} => Left(t)' = 0)
<1>1. Hops(tab[t].at)' \in 1 .. 4 /\ Detours(tab'[t].in) \in 0 .. 2
  BY DEF Hops, Detours
<1>2. QED
  BY <1>1, NothingIsShown DEF Left, Detours

\* The page is shown, and nothing is left.
LEMMA ShowEnds ==
  ASSUME PagesOK, NEW t \in Tabs, tab[t].shows = None,
         NEW what \in Shown \ {"pending"}, Show(t, what)
  PROVE  Left(t)' < Left(t)
<1>1. tab'[t].shows = what
  BY DEF Show, ShowIn, PagesOK, BrowserOK, BrowserTypes, Tab
<1>2. what \notin {None, "pending"}
  BY NothingIsShown
<1>3. QED
  BY <1>1, <1>2, LeftRange, LeftRangeNext

\* A redirect to a page that has fewer ahead of it.
LEMMA RedirectNears ==
  ASSUME PagesOK, NEW t \in Tabs, NEW at \in Pages, Reaches(t, at), session' = session,
         NEW to \in Pages, NEW with, Redirect(t, to, with), Hops(to) < Hops(at)
  PROVE  Left(t)' < Left(t)
<1>1. /\ tab'[t].at = to /\ tab'[t].in = tab[t].in
      /\ tab'[t].token = None /\ tab'[t].shows = None
  BY Languages DEF Redirect, RedirectIn, Elsewhere, Reaches, PagesOK, BrowserOK, BrowserTypes
<1>2. Left(t) = Hops(at) + Detours(tab[t].in)
  BY NothingIsShown DEF Left, Reaches, Hops, Detours
<1>3. Hops(tab[t].at)' = Hops(to)
  BY <1>1 DEF Hops
<1>4. Left(t)' = Hops(to) + Detours(tab[t].in)
  <2>1. tab'[t].shows # "pending" /\ ~ CarriesToken(t)'
    BY <1>1, NothingIsShown DEF CarriesToken
  <2>2. QED
    BY <1>1, <1>3, <2>1 DEF Left, Hops, Detours
<1>5. Hops(to) \in Nat /\ Hops(at) \in Nat /\ Detours(tab[t].in) \in Nat
  BY DEF Hops, Detours
<1>6. QED
  BY <1>2, <1>4, <1>5

\* Whatever the server answers, the tab is nearer to a page.
LEMMA ServeNears ==
  ASSUME PagesOK, SessionOK, NEW t \in Tabs, Serve(t), session' = session
  PROVE  Left(t)' < Left(t)
<1> USE DEF Pages, Shown
<1>1. CASE TurnDown(t) \/ Refuse(t) \/ Delete(t)
  <2>1. post[t] # None
    BY <1>1 DEF TurnDown, Refuse, Delete
  <2>2. tab[t].shows = "pending"
    BY <2>1 DEF PagesOK, PostsOK
  <2>3. tab'[t].shows \in {None, "form"}
    <3>1. tab \in [Tabs -> Tab]
      BY DEF PagesOK, BrowserOK, BrowserTypes
    <3>2. CASE TurnDown(t)
      BY <3>1, <3>2 DEF TurnDown, RedirectIn, ShowIn, Elsewhere, Tab
    <3>3. CASE \E at, with : ClearCookie(t, at, with)
      BY <3>1, <3>3 DEF ClearCookie, Elsewhere
    <3>4. QED
      BY <1>1, <3>2, <3>3 DEF Refuse, Delete
  <2>4. Left(t) = 8 /\ Left(t)' \in 0 .. 7
    BY <2>2, <2>3, LeftRangeNext, NothingIsShown DEF Left
  <2>5. QED
    BY <2>4
<1>2. CASE Exchange(t) /\ Quiet
  <2>1. /\ tab[t].shows = None /\ CarriesToken(t)
        /\ tab'[t].at = tab[t].at /\ tab'[t].in = tab[t].in
        /\ tab'[t].shows = None /\ ~ CarriesToken(t)'
    BY <1>2 DEF Exchange, PagesOK, BrowserOK, BrowserTypes, Tab, CarriesToken
  <2>2. Hops(tab[t].at)' = Hops(tab[t].at) /\ Hops(tab[t].at) \in Nat
    BY <2>1 DEF Hops
  <2>3. Detours(tab'[t].in) = Detours(tab[t].in) /\ Detours(tab[t].in) \in Nat
    BY <2>1 DEF Detours
  <2>4. QED
    BY <2>1, <2>2, <2>3, NothingIsShown DEF Left, Detours
<1>3. CASE Localise(t) /\ Quiet
  <2>1. /\ tab[t].shows = None /\ ~ CarriesToken(t) /\ ~ CarriesToken(t)'
        /\ tab'[t].at = tab[t].at /\ tab'[t].shows = None
        /\ tab'[t].in = Language(t) /\ tab[t].in # Language(t)
    BY <1>3 DEF Localise, Misplaced, PagesOK, BrowserOK, BrowserTypes, Tab, CarriesToken
  <2>2. Hops(tab[t].at)' = Hops(tab[t].at) /\ Hops(tab[t].at) \in Nat
    BY <2>1 DEF Hops
  <2>3. /\ Detours(Language(t)) < Detours(tab[t].in)
        /\ Detours(Language(t)) \in Nat /\ Detours(tab[t].in) \in Nat
    BY <2>1 DEF Detours, Language, Explicit, DefaultLocale, Locales, PagesOK, BrowserOK, BrowserTypes
  <2>4. QED
    BY <2>1, <2>2, <2>3, NothingIsShown DEF Left, Detours
<1>4. CASE HomePage(t) \/ VerifySentPage(t) \/ VerifyResultPage(t) \/ ForgotPage(t)
           \/ VerifyPage(t) \/ ResetPage(t)
  BY <1>4, ShowEnds
  DEF HomePage, VerifySentPage, VerifyResultPage, ForgotPage, VerifyPage, ResetPage, Reaches
<1>5. CASE PostLoginPage(t) \/ OnboardingPage(t)
  <2>1. session # None => Destination(session) \in {"onboarding", "home"}
    BY DEF Destination, SessionOK
  <2>2. CASE PostLoginPage(t)
    <3>1. PICK to \in {"login", "onboarding", "home"} :
            /\ Redirect(t, to, None) /\ Reaches(t, "post-login")
            /\ session = None <=> to = "login"
      BY <2>1, <2>2 DEF PostLoginPage
    <3>2. Hops(to) < Hops("post-login")
      BY <3>1 DEF Hops, ForSignedIn
    <3>3. QED
      BY <3>1, <3>2, RedirectNears
  <2>3. CASE OnboardingPage(t)
    <3>1. CASE session # None /\ Destination(session) = "onboarding"
      BY <2>3, <3>1, ShowEnds DEF OnboardingPage, Reaches
    <3>2. CASE ~ (session # None /\ Destination(session) = "onboarding")
      <4>1. PICK to \in {"login", "home"} :
              /\ Redirect(t, to, None) /\ Reaches(t, "onboarding")
              /\ session = None <=> to = "login"
        BY <2>1, <2>3, <3>2 DEF OnboardingPage
      <4>2. Hops(to) < Hops("onboarding")
        BY <4>1 DEF Hops, ForSignedIn
      <4>3. QED
        BY <4>1, <4>2, RedirectNears
    <3>3. QED
      BY <3>1, <3>2
  <2>4. QED
    BY <1>5, <2>2, <2>3
<1>6. CASE LoginPage(t)
  <2>1. CASE session = None
    BY <1>6, <2>1, ShowEnds DEF LoginPage, Reaches
  <2>2. CASE session # None
    <3>1. PICK to \in {"confirm", "post-login"} : Redirect(t, to, None) /\ Reaches(t, "login")
      BY <1>6, <2>2 DEF LoginPage
    <3>2. Hops(to) < Hops("login")
      BY <2>2, <3>1 DEF Hops, ForSignedIn
    <3>3. QED
      BY <3>1, <3>2, RedirectNears
  <2>3. QED
    BY <2>1, <2>2
<1>7. CASE RegisterPage(t)
  <2>1. CASE session = None
    BY <1>7, <2>1, ShowEnds DEF RegisterPage, Reaches
  <2>2. CASE session # None
    <3>1. Redirect(t, "post-login", None) /\ Reaches(t, "register")
      BY <1>7, <2>2 DEF RegisterPage
    <3>2. Hops("post-login") < Hops("register")
      BY <2>2 DEF Hops, ForSignedIn
    <3>3. QED
      BY <3>1, <3>2, RedirectNears
  <2>3. QED
    BY <2>1, <2>2
<1>8. CASE AccountPage(t) \/ DeletePage(t) \/ SentPage(t) \/ ResultPage(t)
  <2>1. PICK at \in {"account", "delete", "sent", "result"}, shows \in {"page", "form", "unsupported"} :
          Private(t, at, shows)
    BY <1>8 DEF AccountPage, DeletePage, SentPage, ResultPage
  <2>2. CASE session = None
    <3>1. Redirect(t, "login", None) /\ Reaches(t, at)
      BY <2>1, <2>2 DEF Private
    <3>2. Hops("login") < Hops(at)
      BY <2>2 DEF Hops, ForSignedIn
    <3>3. QED
      BY <3>1, <3>2, RedirectNears
  <2>3. CASE session # None
    BY <2>1, <2>3, ShowEnds DEF Private, Reaches
  <2>4. QED
    BY <2>2, <2>3
<1>9. CASE ConfirmPage(t)
  <2>1. CASE session = None
    <3>1. Redirect(t, "login", "delete-confirm") /\ Reaches(t, "confirm")
      BY <1>9, <2>1 DEF ConfirmPage
    <3>2. Hops("login") < Hops("confirm")
      BY <2>1 DEF Hops, ForSignedIn
    <3>3. QED
      BY <3>1, <3>2, RedirectNears
  <2>2. CASE session # None
    <3>1. \A u, link : Preflight(u, link) \subseteq {"invalid", "expired", "blocked", "form"}
      BY DEF Preflight
    <3>2. PICK what \in {"missing", "invalid", "expired", "blocked", "form"} : Show(t, what)
      BY <1>9, <2>2, <3>1 DEF ConfirmPage
    <3>3. tab[t].shows = None
      BY <1>9 DEF ConfirmPage, Reaches
    <3>4. QED
      BY <3>2, <3>3, ShowEnds
  <2>3. QED
    BY <2>1, <2>2
<1>10. QED
  BY <1>1, <1>2, <1>3, <1>4, <1>5, <1>6, <1>7, <1>8, <1>9 DEF Serve

\* Only who sees a page can leave it.
LEMMA NobodyLeavesEarly ==
  ASSUME NEW t \in Tabs, Browse(t) \/ SendForm(t)
  PROVE  Left(t) = 0
<1>1. tab[t].shows \notin {None, "pending"}
  <2>1. CASE Browse(t)
    BY <2>1 DEF Browse, GoTo, SwitchLanguage, OpenLink, Idle
  <2>2. CASE SendForm(t)
    BY <2>2, NothingIsShown
    DEF SendForm, LogIn, LoginForm, ContinueWithProvider, ProviderButtons, LogOut, LogOutButton,
        Register, RegisterForm, Resend, ResendForm, Verify, Forgot, ForgotForm, Reset, ResetForm,
        RequestDeletion, RequestForm, SubmitConfirmation, ConfirmForm, On, Idle
  <2>3. QED
    BY <2>1, <2>2
<1>2. QED
  BY <1>1, LeftRange

\* No redirect leads in a circle: from any link, form or address, with or without
\* a session, in either language, a tab shows a page after eight answers at most,
\* as long as nobody signs in or out meanwhile.
THEOREM RedirectsEnd == Spec => [][NearerToAPage]_vars
<1>1. PagesOK /\ SessionOK /\ [Next]_vars => NearerToAPage
  <2> SUFFICES ASSUME PagesOK, SessionOK, [Next]_vars, NEW t \in Tabs, Left(t) > 0,
                      session' = session
               PROVE  Left(t)' < Left(t) \/ (Left(t)' = Left(t) /\ tab'[t] = tab[t])
    BY DEF NearerToAPage
  <2>1. CASE tab'[t] = tab[t]
    BY <2>1 DEF Left, Hops, CarriesToken, Detours
  <2>2. ASSUME NEW s \in Tabs \ {t}, Serve(s) \/ Browse(s) \/ SendForm(s)
        PROVE  tab'[t] = tab[t]
    <3>1. Acts(s)
      BY <2>2, ServeActs, BrowseActs, SendActs
    <3>2. QED
      BY <3>1, MovedTab DEF Acts, PagesOK, BrowserOK
  <2>3. CASE Serve(t)
    BY <2>3, ServeNears
  <2>4. CASE Browse(t) \/ SendForm(t)
    BY <2>4, NobodyLeavesEarly
  <2>5. CASE ~ \E s \in Tabs : Serve(s) \/ Browse(s) \/ SendForm(s)
    BY <2>1, <2>5, ElsewhereKeeps DEF Next
  <2>6. QED
    BY <2>1, <2>2, <2>3, <2>4, <2>5
<1>2. QED
  BY <1>1, InOrder, SessionsAreActive, PTL DEF Spec
===============================================================================
