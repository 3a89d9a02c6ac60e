-------------------------------- MODULE FormProofs --------------------------------
(***************************************************************************)
(* Theorems about the onboarding form of Storefront and their proofs.      *)
(***************************************************************************)
EXTENDS Storefront, TLAPS

-------------------------------------------------------------------------------
(* The inductive invariant                                                 *)

\* A User row and its TravelerProfile row
Rows ==
  [name : {None, "fits"}, fullName : Texts \cup {None}, country : Residences \cup {None},
   timezone : {NewTimezone} \cup UNION {TimezonesOf[c] : c \in Residences},
   profile : Profiles \cup {None}]

\* The timezone of a form is one of its country's, and what is checked was on offer.
FormOK ==
  /\ form = [unread |-> {}, options |-> form.options, draft |-> form.draft,
             country |-> form.country, timezone |-> form.timezone, filling |-> form.filling]
  /\ form.draft \in Rows /\ FieldsTyped(form.filling)
  /\ form.country # None =>
       form.country \in Residences /\ form.timezone \in TimezonesOf[form.country]
  /\ \A l \in Lists : form.filling[l] \subseteq Offered(l, form.options)

FormInv ==
  /\ row \in Rows \/ (row = None /\ form = None)
  /\ OnShow => FormOK
  /\ form # None /\ "draft" \notin form.unread => form.draft \in Rows
  /\ AcceptedIsComplete

-------------------------------------------------------------------------------
(* What is posted and what becomes of it                                   *)

\* The row of a form that passed the schema, with choices that are on, is a row as
\* the schema of the database has it, and complete.
LEMMA AdmittedIsComplete ==
  ASSUME row \in Rows, NEW post, FieldsTyped(post), Valid(post), AllOn(post)
  PROVE  Stored(post) \in Rows /\ Complete(Stored(post))
<1>1. PICK profile : profile = [f \in ProfileFields |->
        IF f = "groupSize" /\ post[f] = None THEN 1 ELSE post[f]]
  OBVIOUS
<1>2. PICK r : r = Stored(post)
  OBVIOUS
<1>3. r = [row EXCEPT !.fullName = post.fullName, !.country = post.country,
             !.timezone = post.timezone, !.profile = profile]
  BY <1>1, <1>2 DEF Stored
<1>4. /\ post.nickname \in Texts \cup {None} /\ post.phone \in Texts \cup {None}
      /\ post.accessibilityNeeds \in Texts \cup {None} /\ post.fullName \in Texts \cup {None}
      /\ post.budgetMin \in Nat \cup {None} /\ post.budgetMax \in Nat \cup {None}
      /\ post.groupSize \in Nat \cup {None}
  BY DEF FieldsTyped
<1>5. /\ post.travelPurposes \subseteq Categories /\ post.preferredCities \subseteq Cities
      /\ post.preferredCountries \subseteq CountriesOf(Cities)
      /\ post.travelStyles \subseteq Styles /\ post.preferredLanguages \subseteq Languages
  BY DEF AllOn, CountriesOf, Valid, ListsValid
<1>6. /\ DOMAIN profile = ProfileFields
      /\ \A f \in ProfileFields \ {"groupSize"} : profile[f] = post[f]
      /\ profile.groupSize \in Nat
  BY <1>1, <1>4 DEF ProfileFields
<1>7. profile \in Profiles
  BY <1>1, <1>4, <1>5, <1>6 DEF Profiles, ProfileFields, Lists
<1>8. /\ post.fullName \in {"fits", "odd"} /\ post.country \in Residences
      /\ post.timezone \in TimezonesOf[post.country]
      /\ post.travelPurposes # {} /\ post.travelStyles # {}
      /\ post.preferredCountries \cup post.preferredCities # {}
  BY DEF Valid, TextsValid, ListsValid, PairsValid
<1>9. /\ r \in Rows
      /\ r.fullName = post.fullName /\ r.country = post.country /\ r.profile = profile
  BY <1>3, <1>4, <1>7, <1>8 DEF Rows
<1>10. /\ profile.travelPurposes = post.travelPurposes
       /\ profile.travelStyles = post.travelStyles
       /\ profile.preferredCountries = post.preferredCountries
       /\ profile.preferredCities = post.preferredCities
  BY <1>6 DEF ProfileFields, Lists
<1>11. r.fullName # None /\ profile # None
  BY <1>7, <1>8, <1>9, FormAssumption DEF Texts
<1>12. Complete(r)
  BY <1>8, <1>9, <1>10, <1>11 DEF Complete
<1>13. QED
  BY <1>2, <1>9, <1>12

LEMMA Posted ==
  ASSUME row \in Rows, NEW post, FieldsTyped(post)
  PROVE  /\ Outcome(post) # "incomplete"
         /\ Outcome(post) = "saved" => Stored(post) \in Rows
         /\ Valid(post) /\ AllOn(post) => Outcome(post) = "saved"
<1>1. CASE ~ Valid(post)
  BY <1>1 DEF Outcome
<1>2. CASE Valid(post) /\ ~ AllOn(post)
  BY <1>2 DEF Outcome
<1>3. CASE Valid(post) /\ AllOn(post)
  <2>1. Stored(post) \in Rows /\ Complete(Stored(post))
    BY <1>3, AdmittedIsComplete
  <2>2. Outcome(post) = "saved"
    BY <1>3, <2>1 DEF Outcome
  <2>3. QED
    BY <2>1, <2>2
<1>4. QED
  BY <1>1, <1>2, <1>3

LEMMA SaveKeeps ==
  ASSUME row \in Rows, NEW post, FieldsTyped(post), Save(post)
  PROVE  row' \in Rows /\ answer' # "incomplete"
BY Posted DEF Save

-------------------------------------------------------------------------------
(* The form                                                                *)

\* The first filling of a form has nothing that it does not offer.
LEMMA FirstOK ==
  ASSUME NEW r \in Rows, NEW options
  PROVE  /\ FieldsTyped(FirstFilling(r, options))
         /\ \A l \in Lists : FirstFilling(r, options)[l] \subseteq Offered(l, options)
<1>1. PICK d, f : d = Draft(r) /\ f = FirstFilling(r, options)
  OBVIOUS
<1>2. DOMAIN d = ProfileFields \cup {"fullName"}
  BY <1>1 DEF Draft
<1>3. f = [x \in ProfileFields \cup {"fullName"} |->
             IF x \in Lists THEN d[x] \cap Offered(x, options) ELSE d[x]]
  BY <1>1, <1>2 DEF FirstFilling
<1>4. d.fullName \in Texts \cup {None}
  BY <1>1 DEF Draft, Rows, Texts, ProfileFields, Lists
<1>5. /\ d.nickname \in Texts \cup {None} /\ d.phone \in Texts \cup {None}
      /\ d.accessibilityNeeds \in Texts \cup {None}
      /\ d.budgetMin \in Nat \cup {None} /\ d.budgetMax \in Nat \cup {None}
      /\ d.groupSize \in Nat \cup {None}
  <2>1. r.profile # None => r.profile \in Profiles
    BY DEF Rows
  <2>2. CASE r.profile = None
    BY <1>1, <2>2 DEF Draft, ProfileFields, Lists
  <2>3. CASE r.profile # None
    <3>1. \A x \in ProfileFields : d[x] = r.profile[x]
      BY <1>1, <2>3 DEF Draft, ProfileFields, Lists
    <3>2. QED
      BY <2>1, <2>3, <3>1 DEF Profiles, ProfileFields
  <2>4. QED
    BY <2>2, <2>3
<1>6. {f.fullName, f.nickname, f.phone, f.accessibilityNeeds} \subseteq Texts \cup {None}
  BY <1>3, <1>4, <1>5 DEF ProfileFields, Lists
<1>7. {f.budgetMin, f.budgetMax, f.groupSize} \subseteq Nat \cup {None}
  BY <1>3, <1>5 DEF ProfileFields, Lists
<1>8. \A l \in Lists : f[l] \subseteq Offered(l, options)
  BY <1>3 DEF ProfileFields
<1>9. QED
  BY <1>1, <1>6, <1>7, <1>8 DEF FieldsTyped

LEMMA ZoneOK ==
  ASSUME NEW country \in Residences, country # None, NEW draft
  PROVE  TimezoneFor(country, draft) \in TimezonesOf[country]
BY FormAssumption DEF TimezoneFor

LEMMA SentFields ==
  /\ Sent.country = form.country /\ Sent.timezone = form.timezone
  /\ \A f \in ProfileFields \cup {"fullName"} : Sent[f] = form.filling[f]
BY DEF Sent, ProfileFields, Lists

LEMMA SentTyped == FieldsTyped(form.filling) => FieldsTyped(Sent)
BY SentFields DEF FieldsTyped, ProfileFields

\* A form that is filled in passes the schema.
LEMMA FilledIsValid ==
  ASSUME FormOK, FilledIn
  PROVE  Valid(Sent)
<1>1. /\ Sent.country = form.country /\ Sent.timezone = form.timezone
      /\ \A f \in ProfileFields \cup {"fullName"} : Sent[f] = form.filling[f]
  BY SentFields
<1>2. TextsValid(Sent)
  BY <1>1 DEF FilledIn, TextsValid, ProfileFields
<1>3. NumbersValid(Sent)
  BY <1>1 DEF FilledIn, NumbersValid, ProfileFields
<1>4. BudgetInOrder(Sent)
  BY <1>1 DEF FilledIn, BudgetInOrder, ProfileFields
<1>5. form.filling.travelStyles \subseteq Styles /\ form.filling.preferredLanguages \subseteq Languages
  <2>1. /\ form.filling["travelStyles"] \subseteq Offered("travelStyles", form.options)
        /\ form.filling["preferredLanguages"] \subseteq Offered("preferredLanguages", form.options)
    BY DEF FormOK, Lists
  <2>2. /\ Offered("travelStyles", form.options) = Styles
        /\ Offered("preferredLanguages", form.options) = Languages
    BY DEF Offered
  <2>3. QED
    BY <2>1, <2>2
<1>6. ListsValid(Sent)
  <2>1. \A l \in Lists : Cardinality(Sent[l]) <= Most[l]
    BY <1>1 DEF FilledIn, ProfileFields
  <2>2. /\ Sent.travelPurposes = form.filling.travelPurposes
        /\ Sent.travelStyles = form.filling.travelStyles
        /\ Sent.preferredLanguages = form.filling.preferredLanguages
    BY <1>1 DEF ProfileFields, Lists
  <2>3. QED
    BY <1>5, <2>1, <2>2 DEF FilledIn, ListsValid
<1>7. /\ Sent.country \in Residences /\ Sent.timezone \in TimezonesOf[Sent.country]
      /\ Sent.preferredCountries \cup Sent.preferredCities # {}
  BY <1>1 DEF FormOK, FilledIn, ProfileFields, Lists
<1>8. QED
  BY <1>2, <1>3, <1>4, <1>6, <1>7 DEF Valid, PairsValid

\* The same filling is admitted with the same choices on.
LEMMA FilledIsSaved ==
  ASSUME row \in Rows, FormOK, FilledIn, AllOn(form.filling)
  PROVE  Outcome(Sent) = "saved"
<1>1. FieldsTyped(Sent)
  BY SentTyped DEF FormOK
<1>2. AllOn(Sent)
  BY SentFields DEF AllOn, ProfileFields, Lists
<1>3. QED
  BY <1>1, <1>2, FilledIsValid, Posted

-------------------------------------------------------------------------------
(* The steps                                                               *)

LEMMA FormInitOK == Init => FormInv
BY FormAssumption DEF Init, InitForm, FormInv, OnShow, AcceptedIsComplete, Answers

LEMMA SignInKeeps == FormInv /\ SignIn => FormInv'
<1> SUFFICES ASSUME FormInv, SignIn PROVE FormInv'
  OBVIOUS
<1>1. NewRows \subseteq Rows
  BY DEF NewRows, Rows
<1>2. row' \in Rows /\ form' = form /\ answer' = answer
  BY <1>1 DEF SignIn
<1>3. QED
  BY <1>2 DEF FormInv, OnShow, FormOK, AcceptedIsComplete

\* A form is shown as FormOK has it.
LEMMA ShownOK ==
  ASSUME NEW options, NEW draft \in Rows, form' = Shown(options, draft)
  PROVE  FormOK' /\ form'.unread = {} /\ form'.draft = draft
<1>1. PICK f : f = FirstFilling(draft, options)
  OBVIOUS
<1>2. FieldsTyped(f) /\ \A l \in Lists : f[l] \subseteq Offered(l, options)
  BY <1>1, FirstOK
<1>3. form' = [unread |-> {}, options |-> options, draft |-> draft, country |-> draft.country,
               timezone |-> TimezoneFor(draft.country, draft), filling |-> f]
  BY <1>1 DEF Shown
<1>4. draft.country # None =>
        /\ draft.country \in Residences
        /\ TimezoneFor(draft.country, draft) \in TimezonesOf[draft.country]
  BY ZoneOK DEF Rows
<1>5. QED
  BY <1>2, <1>3, <1>4 DEF FormOK

LEMMA LoadKeeps ==
  ASSUME FormInv, NEW read \in DOMAIN ReadBy, LoadForm(read)
  PROVE  FormInv'
<1>1. row \in Rows /\ row' = row /\ answer' = answer
  BY DEF FormInv, LoadForm
<1>2. PICK unread, options, draft :
        /\ unread = form.unread \ {read}
        /\ draft = IF read = "draft" THEN row ELSE form.draft
        /\ form' = IF unread = {} THEN Shown(options, draft)
                   ELSE [unread |-> unread, options |-> options, draft |-> draft]
  BY DEF LoadForm
<1>3. "draft" \notin unread => draft \in Rows
  BY <1>1, <1>2 DEF FormInv, LoadForm
<1>4. CASE unread = {}
  <2>1. FormOK' /\ form'.unread = {} /\ form'.draft = draft
    BY <1>2, <1>3, <1>4, ShownOK
  <2>2. QED
    BY <1>1, <1>3, <1>4, <2>1 DEF FormInv, AcceptedIsComplete
<1>5. CASE unread # {}
  <2>1. form'.unread = unread /\ form'.draft = draft
    BY <1>2, <1>5
  <2>2. QED
    BY <1>1, <1>3, <1>5, <2>1 DEF FormInv, OnShow, AcceptedIsComplete
<1>6. QED
  BY <1>4, <1>5

LEMMA RegionKeeps ==
  ASSUME FormInv, OnShow, NEW c, NEW z, c # None => c \in Residences /\ z \in TimezonesOf[c],
         form' = [form EXCEPT !.country = c, !.timezone = z], UNCHANGED <<row, answer>>
  PROVE  FormInv'
<1>1. FormOK /\ row \in Rows
  BY DEF FormInv, OnShow
<1>2. PICK o, d, e, y, f :
        form = [unread |-> {}, options |-> o, draft |-> d, country |-> e, timezone |-> y,
                filling |-> f]
  BY <1>1 DEF FormOK
<1>3. form' = [unread |-> {}, options |-> o, draft |-> d, country |-> c, timezone |-> z,
               filling |-> f]
  BY <1>2
<1>4. FormOK'
  BY <1>1, <1>2, <1>3 DEF FormOK
<1>5. form'.draft \in Rows
  BY <1>4 DEF FormOK
<1>6. QED
  BY <1>1, <1>4, <1>5 DEF FormInv, AcceptedIsComplete

LEMMA FillingKeeps ==
  ASSUME FormInv, OnShow, NEW f, FieldsTyped(f),
         \A l \in Lists : f[l] \subseteq Offered(l, form.options),
         form' = [form EXCEPT !.filling = f], row' \in Rows, answer' # "incomplete"
  PROVE  FormInv'
<1>1. FormOK
  BY DEF FormInv
<1>2. /\ form'.country = form.country /\ form'.timezone = form.timezone
      /\ form'.options = form.options /\ form'.draft = form.draft /\ form'.filling = f
      /\ form' = [unread |-> {}, options |-> form'.options, draft |-> form'.draft,
                  country |-> form'.country, timezone |-> form'.timezone,
                  filling |-> form'.filling]
  BY <1>1 DEF FormOK
<1>3. FormOK'
  BY <1>1, <1>2 DEF FormOK
<1>4. form'.draft \in Rows
  BY <1>3 DEF FormOK
<1>5. QED
  BY <1>3, <1>4 DEF FormInv, AcceptedIsComplete

LEMMA SubmitKeeps == FormInv /\ SubmitForm => FormInv'
<1> SUFFICES ASSUME FormInv, SubmitForm PROVE FormInv'
  OBVIOUS
<1>1. OnShow /\ Save(Sent) /\ FormOK /\ row \in Rows
  BY DEF SubmitForm, FormInv, OnShow
<1>2. row' \in Rows /\ answer' # "incomplete"
  BY <1>1, SentTyped, SaveKeeps DEF FormOK
<1>3. CASE answer' = "saved"
  BY <1>2, <1>3 DEF SubmitForm, FormInv, OnShow, AcceptedIsComplete
<1>4. CASE answer' # "saved"
  <2>1. form' = [form EXCEPT !.filling = FirstFilling(form.draft, form.options)]
    BY <1>4 DEF SubmitForm
  <2>2. form.draft \in Rows
    BY <1>1 DEF FormOK
  <2>3. QED
    BY <1>1, <1>2, <2>1, <2>2, FirstOK, FillingKeeps
<1>5. QED
  BY <1>3, <1>4

LEMMA FormStands == FormInv /\ UNCHANGED formVars => FormInv'
BY DEF FormInv, OnShow, FormOK, AcceptedIsComplete, formVars

LEMMA FormKeeps == FormInv /\ [Next]_vars => FormInv'
<1> SUFFICES ASSUME FormInv, [Next]_vars PROVE FormInv'
  OBVIOUS
<1>1. CASE AtForm
  <2>1. FormStep
    BY <1>1 DEF AtForm
  <2>2. CASE SignIn
    BY <2>2, SignInKeeps
  <2>3. CASE SignOut
    BY <2>3, FormAssumption DEF SignOut, FormInv, OnShow, AcceptedIsComplete, Answers
  <2>4. CASE PassGate
    <3>1. /\ row \in Rows /\ row' = row /\ answer' = None
          /\ form'.unread = DOMAIN ReadBy
      BY <2>4 DEF PassGate, FormInv
    <3>2. "draft" \in form'.unread
      BY <3>1 DEF ReadBy
    <3>3. QED
      BY <3>1, <3>2, FormAssumption DEF FormInv, OnShow, AcceptedIsComplete, Answers
  <2>5. CASE \E read \in DOMAIN ReadBy : LoadForm(read)
    BY <2>5, LoadKeeps
  <2>6. CASE \E c \in Residences : ChangeCountry(c)
    <3>1. PICK c \in Residences : ChangeCountry(c)
      BY <2>6
    <3>2. c # None => TimezoneFor(c, form.draft) \in TimezonesOf[c]
      BY ZoneOK
    <3>3. QED
      BY <3>1, <3>2, RegionKeeps DEF ChangeCountry
  <2>7. CASE \E c \in Residences : \E z \in TimezonesOf[c] : ChangeTimezone(z)
    <3>1. PICK z : ChangeTimezone(z)
      BY <2>7
    <3>2. FormOK
      BY <3>1 DEF ChangeTimezone, FormInv
    <3>3. form' = [form EXCEPT !.country = form.country, !.timezone = z]
      BY <3>1, <3>2 DEF ChangeTimezone, FormOK
    <3>4. form.country # None => form.country \in Residences
      BY <3>2 DEF FormOK
    <3>5. QED
      BY <3>1, <3>3, <3>4, RegionKeeps DEF ChangeTimezone
  <2>8. CASE \E f \in Fillings : FillIn(f)
    <3>1. PICK f \in Fillings : FillIn(f)
      BY <2>8
    <3>2. FieldsTyped(f)
      BY FormAssumption
    <3>3. row' \in Rows /\ answer' # "incomplete"
      BY <3>1 DEF FillIn, FormInv, OnShow, AcceptedIsComplete
    <3>4. QED
      BY <3>1, <3>2, <3>3, FillingKeeps DEF FillIn
  <2>9. CASE SubmitForm
    BY <2>9, SubmitKeeps
  <2>10. CASE \E post \in Posts : PostElsewhere(post)
    <3>1. PICK post \in Posts : PostElsewhere(post)
      BY <2>10
    <3>2. row \in Rows /\ FieldsTyped(post)
      BY <3>1, FormAssumption DEF PostElsewhere, FormInv
    <3>3. row' \in Rows /\ answer' # "incomplete" /\ form' = form
      BY <3>1, <3>2, SaveKeeps DEF PostElsewhere
    <3>4. QED
      BY <3>3 DEF FormInv, OnShow, FormOK, AcceptedIsComplete
  <2>11. QED
    BY <2>1, <2>2, <2>3, <2>4, <2>5, <2>6, <2>7, <2>8, <2>9, <2>10 DEF FormStep
<1>2. CASE UNCHANGED formVars
  BY <1>2, FormStands
<1>3. AtForm \/ UNCHANGED formVars
  BY DEF Next, AtListing, LeaveListing, SwitchEntry, PublishOrWithdraw, vars
<1>4. QED
  BY <1>1, <1>2, <1>3

LEMMA FormInvariant == Spec => []FormInv
BY FormInitOK, FormKeeps, PTL DEF Spec

-------------------------------------------------------------------------------
(* Theorems                                                                *)

\* The answer that names no field, for a form that passed the schema and yet
\* leaves the account incomplete, is never given: validation.ts and
\* completion.ts, two lists of conditions, do not drift apart.
THEOREM Accepted == Spec => []AcceptedIsComplete
<1>1. FormInv => AcceptedIsComplete
  BY DEF FormInv
<1>2. QED
  BY <1>1, FormInvariant, PTL

\* Whatever country was looked at before, a form that is filled in from what it
\* offers is accepted, unless something it names has been switched off since.
THEOREM FilledForm == Spec => []FilledFormIsAccepted
<1>1. FormInv => FilledFormIsAccepted
  <2> SUFFICES ASSUME FormInv, OnShow, FilledIn, AllOn(form.filling)
               PROVE  Outcome(Sent) = "saved"
    BY DEF FilledFormIsAccepted
  <2>1. row \in Rows /\ FormOK
    BY DEF FormInv, OnShow
  <2>2. QED
    BY <2>1, FilledIsSaved
<1>2. QED
  BY <1>1, FormInvariant, PTL
===============================================================================
