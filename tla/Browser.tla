--------------------------------- MODULE Browser ---------------------------------
(***************************************************************************)
(* One browser with several tabs on the account pages: the redirects of    *)
(* the proxy, the languages of the URLs, and the cookie that takes the     *)
(* token of a deletion link out of the URL.                                *)
(*                                                                         *)
(* The cookie has a Path and so there is one for each form of URL: "ko" is *)
(* URLs without a prefix, "en" those under /en.  URLs under /ko are        *)
(* accepted, too, and redirected to those without a prefix, so that no     *)
(* page reads the cookie that has their Path.  Cookies and the preferred   *)
(* language belong to the browser, not to a tab.                           *)
(***************************************************************************)
CONSTANTS
  Tabs,
  Links,          \* links that are mailed: of, kind, in (its language) and n
  Mangled,        \* a deletion link whose token has lost a letter
  None

VARIABLES
  tab,            \* the URL of each tab, with the token or the keyword in its
                  \* query, and what it shows: None while the request is under way
  jar,            \* the deletion cookie for each language, or None
  preference,     \* the language in the cookie NEXT_LOCALE
  trail           \* history: the deletion link whose redirects a tab follows and
                  \* the form of the URL it was opened with, while no other tab
                  \* does anything to its cookie

browser == <<tab, jar, preference, trail>>

Locales == {"ko", "en"}

DefaultLocale == "ko"

Pathname == [verify |-> "verify-email", reset |-> "reset-password", delete |-> "confirm"]

InitBrowser ==
  /\ tab = [t \in Tabs |-> [at |-> "home", in |-> DefaultLocale, token |-> None, with |-> None,
                        shows |-> "page"]]
  /\ jar = [l \in Locales |-> None]
  /\ preference \in Locales
  /\ trail = [t \in Tabs |-> None]

\* The default language may be spelled out.
Explicit == "/ko"

Spellings(locale) == IF locale = DefaultLocale THEN {locale, Explicit} ELSE {locale}

\* The language next-intl finds for a request from tab t: of the prefix, or
\* else the preferred one.
Language(t) ==
  CASE tab[t].in = Explicit      -> DefaultLocale
    [] tab[t].in = DefaultLocale -> preference
    [] OTHER                     -> tab[t].in

\* The trails that another tab, or nobody, breaks off.
TrailsBut(path) ==
  [t \in Tabs |-> IF trail[t] # None /\ trail[t].in = path THEN None ELSE trail[t]]

\* A request ends on a page, or a form that was sent is shown again.  Whatever
\* is answered through intlProxy makes its language the preferred one.
ShowIn(t, locale, what) ==
  /\ tab' = [tab EXCEPT ![t].shows = what]
  /\ preference' = locale
  /\ UNCHANGED <<jar, trail>>

Show(t, what) == ShowIn(t, Language(t), what)

Elsewhere(t, at, in, with) ==
  [tab EXCEPT ![t] = [at |-> at, in |-> in, token |-> None, with |-> with, shows |-> None]]

\* redirect() of i18n/navigation keeps the language of the request.
RedirectIn(t, locale, at, with) ==
  /\ tab' = Elsewhere(t, at, locale, with)
  /\ preference' = locale
  /\ UNCHANGED <<jar, trail>>

Redirect(t, at, with) == RedirectIn(t, Language(t), at, with)

\* A redirect that is no part of following a deletion link.  Auth.js knows of
\* no languages: its own redirects have no prefix.
Leave(t, at, in, with) ==
  /\ tab' = Elsewhere(t, at, in, with)
  /\ preference' = Language(t)
  /\ trail' = [trail EXCEPT ![t] = None]
  /\ UNCHANGED jar

Visit(t, at, with) == Leave(t, at, Language(t), with)

VisitUnprefixed(t, at, with) == Leave(t, at, DefaultLocale, with)

Idle(t) == tab[t].shows \notin {None, "pending"}

On(t, at, what) == tab[t].at = at /\ tab[t].shows \in what

-------------------------------------------------------------------------------
(* What the proxy does before any page *)

CarriesToken(t) == tab[t].at = "confirm" /\ tab[t].token # None

\* Fault: the cookie is always for URLs without a prefix.
CookiePathUnprefixed(in) == DefaultLocale

\* deletionCookiePath, and the Path of matchDeletionConfirmPath
CookiePath(in) == in

\* describeDeletionTokenExchange: the token goes into the cookie, or a token
\* that is not well formed takes the cookie away.  The proxy answers before
\* intlProxy is asked.
Exchange(t) ==
  /\ tab[t].shows = None /\ CarriesToken(t)
  /\ LET link == tab[t].token
         path == CookiePath(tab[t].in)
     IN  /\ jar' = [l \in Locales |->
                     IF l # path THEN jar[l] ELSE IF link = Mangled THEN None ELSE link]
         /\ trail' = [TrailsBut(path) EXCEPT ![t] =
                        IF link = Mangled THEN None ELSE [link |-> link, in |-> tab[t].in]]
  /\ tab' = [tab EXCEPT ![t].token = None]
  /\ UNCHANGED preference

Misplaced(t) == tab[t].in # Language(t)

\* intlProxy sends a URL without a prefix to the preferred language, and one
\* with the prefix of the default language to that without.
Localise(t) ==
  /\ tab[t].shows = None /\ ~ CarriesToken(t) /\ Misplaced(t)
  /\ tab' = [tab EXCEPT ![t].in = Language(t)]
  /\ preference' = Language(t)
  /\ UNCHANGED <<jar, trail>>

\* A request that reaches its page.
Reaches(t, at) ==
  /\ tab[t].at = at /\ tab[t].shows = None
  /\ ~ CarriesToken(t) /\ ~ Misplaced(t)

-------------------------------------------------------------------------------
(* What a person does *)

\* absoluteAuthUrl, whose URL may be typed with the other spelling
OpenLink(t, link, in) ==
  /\ Idle(t)
  /\ tab' = [tab EXCEPT ![t] = [at |-> Pathname[link.kind], in |-> in,
                                token |-> link, with |-> None, shows |-> None]]
  /\ trail' = [trail EXCEPT ![t] = None]
  /\ UNCHANGED <<jar, preference>>

\* A link on the page, or the address bar
GoTo(t, at) ==
  /\ Idle(t)
  /\ tab' = Elsewhere(t, at, tab[t].in, None)
  /\ trail' = [trail EXCEPT ![t] = None]
  /\ UNCHANGED <<jar, preference>>

\* LocaleSwitcher leads to the same pathname without the query.  next-intl's
\* Link sets the cookie, and spells the default language out or not.
SwitchLanguage(t) ==
  /\ Idle(t)
  /\ \E locale \in Locales \ {tab[t].in} : \E in \in Spellings(locale) :
       /\ tab' = Elsewhere(t, tab[t].at, in, None)
       /\ preference' = locale
  /\ trail' = [trail EXCEPT ![t] = None]
  /\ UNCHANGED jar

\* Its maxAge is over.
LoseCookie(locale) ==
  /\ jar[locale] # None
  /\ jar' = [jar EXCEPT ![locale] = None]
  /\ trail' = TrailsBut(locale)
  /\ UNCHANGED <<tab, preference>>
===============================================================================
