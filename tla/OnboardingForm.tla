------------------------------ MODULE OnboardingForm ------------------------------
(***************************************************************************)
(* The onboarding form from end to end: what the page offers and fills in, *)
(* what the browser's form does with it, what is posted, the schema that   *)
(* admits it and the rows it becomes, for one account that stays an active *)
(* traveler; Onboarding has the transaction and its neighbours.            *)
(*                                                                         *)
(* Blank, absent and null are all None: emptyToUndefined makes them so on  *)
(* the way in and ?? '' on the way out.  A list of checkboxes is the set   *)
(* cleanStringArray makes of it.                                           *)
(* The fields whose every choice on the form is valid by itself, language, *)
(* currency and the two single checkboxes, are left out.                   *)
(***************************************************************************)
EXTENDS Catalogue

CONSTANTS
  Residences,     \* SUPPORTED_COUNTRIES
  TimezonesOf,    \* SUPPORTED_COUNTRY_TIMEZONES
  FirstTimezone,  \* FirstTimezone[c], the first of them
  NewTimezone,    \* the timezone of a new User row
  Styles,         \* TRAVEL_STYLES
  Languages,      \* PREFERRED_LANGUAGES
  Most,           \* Most[l], how many entries list l may have
  BudgetMax, GroupMax,
  Fillings,       \* ways to fill in the fields but the two of the region
  Posts           \* forms that come from elsewhere

VARIABLES
  row,            \* the User row and, as profile, the TravelerProfile row of the
                  \* traveler; None when nobody is signed in
  form,           \* the form on the screen, or what there is of it while its
                  \* page is rendered, or None
  answer          \* what the last post was answered

formVars == <<row, form, answer>>

Lists == {"travelPurposes", "preferredCities", "preferredCountries", "travelStyles",
          "preferredLanguages"}

\* A text is too long, or fits; the odd one has letters no telephone number has.
Texts == {"fits", "odd", "long"}

\* The fields of a TravelerProfile row
ProfileFields ==
  Lists \cup {"nickname", "phone", "accessibilityNeeds", "budgetMin", "budgetMax", "groupSize"}

Profiles ==
  [nickname : Texts \cup {None}, phone : Texts \cup {None},
   accessibilityNeeds : Texts \cup {None},
   budgetMin : Nat \cup {None}, budgetMax : Nat \cup {None}, groupSize : Nat,
   travelPurposes : SUBSET Categories, preferredCities : SUBSET Cities,
   preferredCountries : SUBSET CountriesOf(Cities),
   travelStyles : SUBSET Styles, preferredLanguages : SUBSET Languages]

Answers == {"saved", "invalid", "unavailable", "incomplete"}

\* What is filled in is a text, a number or nothing, where the field has one.
FieldsTyped(f) ==
  /\ {f.fullName, f.nickname, f.phone, f.accessibilityNeeds} \subseteq Texts \cup {None}
  /\ {f.budgetMin, f.budgetMax, f.groupSize} \subseteq Nat \cup {None}

ASSUME FormAssumption ==
  /\ \A c \in Residences : FirstTimezone[c] \in TimezonesOf[c]
  /\ \A f \in Fillings \cup Posts : FieldsTyped(f)
  /\ None \notin Profiles \cup Answers \cup Texts

-------------------------------------------------------------------------------
(* onboardingSchema *)

TextsValid(post) ==
  /\ post.fullName \in {"fits", "odd"}
  /\ post.nickname # "long" /\ post.accessibilityNeeds # "long"
  /\ post.phone \in {None, "fits"}

NumbersValid(post) ==
  /\ post.budgetMin \in 0 .. BudgetMax \cup {None}
  /\ post.budgetMax \in 0 .. BudgetMax \cup {None}
  /\ post.groupSize \in 1 .. GroupMax \cup {None}

ListsValid(post) ==
  /\ \A l \in Lists : Cardinality(post[l]) <= Most[l]
  /\ post.travelPurposes # {}
  /\ post.travelStyles # {} /\ post.travelStyles \subseteq Styles
  /\ post.preferredLanguages \subseteq Languages

BudgetInOrder(post) ==
  post.budgetMin = None \/ post.budgetMax = None \/ post.budgetMin <= post.budgetMax

\* Fault: no destination is asked for.
PairsValidAnywhere(post) == post.timezone \in TimezonesOf[post.country] /\ BudgetInOrder(post)

\* The refinements, each of two fields
PairsValid(post) ==
  /\ post.timezone \in TimezonesOf[post.country]
  /\ post.preferredCountries \cup post.preferredCities # {}
  /\ BudgetInOrder(post)

Valid(post) ==
  /\ TextsValid(post)
  /\ NumbersValid(post)
  /\ ListsValid(post)
  /\ post.country \in Residences
  /\ PairsValid(post)

-------------------------------------------------------------------------------
(* completeTravelerOnboarding, with nobody else about *)

AllOn(post) ==
  /\ post.travelPurposes \subseteq on \cap Categories
  /\ post.preferredCities \subseteq on \cap Cities
  /\ post.preferredCountries \subseteq CountriesOf(on \cap Cities)

\* isTravelerOnboardingComplete
Complete(r) ==
  /\ r.fullName # None
  /\ r.country \in Residences
  /\ r.profile # None
  /\ r.profile.travelPurposes # {}
  /\ r.profile.preferredCountries # {} \/ r.profile.preferredCities # {}
  /\ r.profile.travelStyles # {}

\* user.update and travelerProfile.upsert; profile holds nickname and phone too.
Stored(post) ==
  [row EXCEPT !.fullName = post.fullName, !.country = post.country,
     !.timezone = post.timezone,
     !.profile = [f \in ProfileFields |->
                    IF f = "groupSize" /\ post[f] = None THEN 1 ELSE post[f]]]

Outcome(post) ==
  IF ~ Valid(post) THEN "invalid"
  ELSE IF ~ AllOn(post) THEN "unavailable"
  ELSE IF ~ Complete(Stored(post)) THEN "incomplete"
  ELSE "saved"

Save(post) ==
  /\ answer' = Outcome(post)
  /\ row' = IF Outcome(post) = "saved" THEN Stored(post) ELSE row

-------------------------------------------------------------------------------
(* The page and its form *)

NewRows == [name : {None, "fits"}, fullName : {None}, country : {None},
            timezone : {NewTimezone}, profile : {None}]

InitForm == row = None /\ form = None /\ answer = None

SignIn ==
  /\ row = None
  /\ row' \in NewRows
  /\ UNCHANGED <<form, answer>>

SignOut ==
  /\ row # None
  /\ row' = None /\ form' = None /\ answer' = None

\* What the checkboxes of a list stand for when these rows were on
Offered(l, options) ==
  CASE l = "travelPurposes"     -> options \cap Categories
    [] l = "preferredCities"    -> options \cap Cities
    [] l = "preferredCountries" -> CountriesOf(options \cap Cities)
    [] l = "travelStyles"       -> Styles
    [] l = "preferredLanguages" -> Languages

\* initialTimezone, and the timezone onCountryChange sets
TimezoneFor(country, draft) ==
  IF country = None THEN None
  ELSE IF draft.timezone \in TimezonesOf[country] THEN draft.timezone
  ELSE FirstTimezone[country]

\* loadOnboardingDraft: name is the display name an OAuth provider gave.
Draft(r) ==
  [f \in ProfileFields \cup {"fullName"} |->
     CASE f = "fullName"   -> IF r.fullName = None THEN r.name ELSE r.fullName
       [] f \in ProfileFields /\ r.profile # None -> r.profile[f]
       [] f \in Lists /\ r.profile = None -> {}
       [] f = "groupSize" /\ r.profile = None -> 1
       [] OTHER            -> None]

\* The defaults of the fields; what is not on offer has no checkbox.
FirstFilling(r, options) ==
  [f \in DOMAIN Draft(r) |->
     IF f \in Lists THEN Draft(r)[f] \cap Offered(f, options) ELSE Draft(r)[f]]

\* getOnboardingFormOptions and loadOnboardingDraft are three reads that the
\* database answers in any order.
ReadBy == [categories |-> Categories, destinations |-> Cities, draft |-> {}]

\* The gate lets nobody pass whose rows are complete (Onboarding).
PassGate ==
  /\ row # None /\ form = None
  /\ ~ Complete(row)
  /\ form' = [unread |-> DOMAIN ReadBy, options |-> {}, draft |-> None]
  /\ answer' = None
  /\ UNCHANGED row

\* The form as it is first rendered
Shown(options, draft) ==
  [unread |-> {}, options |-> options, draft |-> draft, country |-> draft.country,
   timezone |-> TimezoneFor(draft.country, draft), filling |-> FirstFilling(draft, options)]

\* One read after the gate, which may be of a row that is complete by now; with
\* the last one the form is shown.
LoadForm(read) ==
  /\ form # None /\ read \in form.unread
  /\ LET unread  == form.unread \ {read}
         options == form.options \cup (on \cap ReadBy[read])
         draft   == IF read = "draft" THEN row ELSE form.draft
     IN  form' = IF unread = {} THEN Shown(options, draft)
                 ELSE [unread |-> unread, options |-> options, draft |-> draft]
  /\ UNCHANGED <<row, answer>>

OnShow == form # None /\ form.unread = {}

\* Fault: the timezone stays.
ChangeCountryOnly(country) ==
  /\ OnShow
  /\ form' = [form EXCEPT !.country = country,
       !.timezone = IF @ = None THEN TimezoneFor(country, form.draft) ELSE @]
  /\ UNCHANGED <<row, answer>>

\* onCountryChange
ChangeCountry(country) ==
  /\ OnShow
  /\ form' = [form EXCEPT !.country = country, !.timezone = TimezoneFor(country, form.draft)]
  /\ UNCHANGED <<row, answer>>

ChangeTimezone(timezone) ==
  /\ OnShow /\ form.country # None /\ timezone \in TimezonesOf[form.country]
  /\ form' = [form EXCEPT !.timezone = timezone]
  /\ UNCHANGED <<row, answer>>

FillIn(filling) ==
  /\ OnShow
  /\ \A l \in Lists : filling[l] \subseteq Offered(l, form.options)
  /\ form' = [form EXCEPT !.filling = filling]
  /\ UNCHANGED <<row, answer>>

\* The FormData of the form
Sent ==
  [f \in ProfileFields \cup {"fullName", "country", "timezone"} |->
     CASE f = "country" -> form.country [] f = "timezone" -> form.timezone
       [] OTHER -> form.filling[f]]

\* React resets the fields it does not control once the action has answered.
SubmitForm ==
  /\ OnShow
  /\ Save(Sent)
  /\ form' = IF answer' = "saved" THEN None
             ELSE [form EXCEPT !.filling = FirstFilling(form.draft, form.options)]

\* From another tab of the user, which may show other options, or from a client
\* that has no form: the schema has the last word.
PostElsewhere(post) ==
  /\ row # None
  /\ Save(post)
  /\ UNCHANGED form

FormStep ==
  \/ SignIn
  \/ SignOut
  \/ PassGate
  \/ \E read \in DOMAIN ReadBy : LoadForm(read)
  \/ \E c \in Residences : ChangeCountry(c)
  \/ \E c \in Residences : \E z \in TimezonesOf[c] : ChangeTimezone(z)
  \/ \E f \in Fillings : FillIn(f)
  \/ SubmitForm
  \/ \E post \in Posts : PostElsewhere(post)

-------------------------------------------------------------------------------
(* Properties *)

\* The answer that names no field, for a form that passed the schema and yet
\* leaves the account incomplete, is never given: validation.ts and
\* completion.ts, two lists of conditions, do not drift apart.
AcceptedIsComplete == answer # "incomplete"

\* All the fields with an asterisk are given and the others make sense.
FilledIn ==
  /\ form.filling.fullName # None /\ form.country # None
  /\ form.filling.travelPurposes # {} /\ form.filling.travelStyles # {}
  /\ form.filling.preferredCountries \cup form.filling.preferredCities # {}
  /\ TextsValid(form.filling) /\ NumbersValid(form.filling) /\ BudgetInOrder(form.filling)
  /\ \A l \in Lists : Cardinality(form.filling[l]) <= Most[l]

\* Whatever country was looked at before, a form that is filled in from what it
\* offers is accepted, unless something it names has been switched off since.
FilledFormIsAccepted ==
  OnShow =>
    (FilledIn /\ AllOn(form.filling) => Outcome(Sent) = "saved")
===============================================================================
