------------------------------ MODULE MCOnboarding ------------------------------
(***************************************************************************)
(* Onboarding on small instances: one account; a form that names a city    *)
(* and one that names its country.                                         *)
(***************************************************************************)
EXTENDS OnboardingRecord

CONSTANTS u1, c1, d1, kr

MCCountryOf == [c \in Cities |-> kr]

ByCity == [travelPurposes |-> {c1}, preferredCities |-> {d1}, preferredCountries |-> {}]

MCInputs == {ByCity, [ByCity EXCEPT !.preferredCities = {}, !.preferredCountries = {kr}]}

Newcomer == [role |-> "TRAVELER", status |-> "ACTIVE", basics |-> None]

MCNewcomer == {[user |-> Newcomer, profile |-> None]}

\* new, complete as the seeded traveler is, or not a traveler
MCAnyone ==
  MCNewcomer
  \cup {[user |-> [Newcomer EXCEPT !.basics = ByCity], profile |-> ByCity],
        [user |-> [Newcomer EXCEPT !.role = "EXPERT"], profile |-> None]}
===============================================================================
