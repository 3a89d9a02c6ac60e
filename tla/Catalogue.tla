-------------------------------- MODULE Catalogue --------------------------------
(***************************************************************************)
(* The categories and destinations that operators switch on and off, and   *)
(* that the onboarding form and the program listing choose from.           *)
(***************************************************************************)
EXTENDS Naturals, FiniteSets

CONSTANTS
  Categories,     \* slugs of the Category rows
  Cities,         \* slugs of the Destination rows
  Countries,      \* country codes of destinations
  CountryOf,      \* CountryOf[c], the countryCode of city c
  Switchable,     \* entries that operators switch on and off meanwhile
  None            \* a column that is null, a field that is not given

VARIABLE
  on              \* the rows whose active is true

Entries == Categories \cup Cities

\* A country is offered by the destinations in it.
CountriesOf(cities) == {CountryOf[c] : c \in cities}

Switch(entry) == on' = IF entry \in on THEN on \ {entry} ELSE on \cup {entry}
===============================================================================
