-------------------------------- MODULE Storefront --------------------------------
(***************************************************************************)
(* One browser: a traveler who signs in and fills in the onboarding form,  *)
(* or a visitor at the list of programs, while operators change the        *)
(* catalogue both choose from.                                             *)
(***************************************************************************)
EXTENDS OnboardingForm, ProgramListing

vars == <<on, formVars, listingVars>>

Init == on = Entries /\ InitForm /\ InitListing

AtForm ==
  /\ stage = "blank"
  /\ FormStep
  /\ UNCHANGED <<on, listingVars>>

AtListing ==
  /\ row = None
  /\ ListingStep
  /\ UNCHANGED <<on, formVars>>

LeaveListing ==
  /\ CloseListing
  /\ UNCHANGED <<on, formVars>>

\* What an operator does ends the steadiness of a walk.
SwitchEntry(entry) ==
  /\ Switch(entry)
  /\ visit' = [visit EXCEPT !.steady = FALSE]
  /\ UNCHANGED <<public, url, stage, query, total, items, facets, redirects, formVars>>

PublishOrWithdraw(p) ==
  /\ public' = IF p \in public THEN public \ {p} ELSE public \cup {p}
  /\ visit' = [visit EXCEPT !.steady = FALSE]
  /\ UNCHANGED <<on, url, stage, query, total, items, facets, redirects, formVars>>

Next ==
  \/ AtForm
  \/ AtListing
  \/ LeaveListing
  \/ \E entry \in Switchable : SwitchEntry(entry)
  \/ \E p \in Withdrawable : PublishOrWithdraw(p)

Spec == Init /\ [][Next]_vars
===============================================================================
