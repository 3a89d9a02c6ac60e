------------------------------ MODULE MCStorefront ------------------------------
(***************************************************************************)
(* Storefront on a small instance: two destinations in two countries, one  *)
(* category, five programs, most of the same rank, two to a page.           *)
(***************************************************************************)
EXTENDS Storefront, TLC

CONSTANTS c1, d1, d2, kr, th, us, seoul, east, west, s1, s2, l1

MCCountryOf == (d1 :> kr) @@ (d2 :> th)

MCTimezonesOf == (kr :> {seoul}) @@ (us :> {east, west})

MCFirstTimezone == (kr :> seoul) @@ (us :> east)

MCMost == [travelPurposes |-> 1, preferredCities |-> 2, preferredCountries |-> 2,
           travelStyles |-> 1, preferredLanguages |-> 1]

Filled ==
  [fullName |-> "fits", nickname |-> None, phone |-> "fits", accessibilityNeeds |-> None,
   budgetMin |-> 1, budgetMax |-> None, groupSize |-> 1,
   travelPurposes |-> {c1}, preferredCities |-> {d1}, preferredCountries |-> {},
   travelStyles |-> {s1}, preferredLanguages |-> {l1}]

MCFillings ==
  {Filled,
   [Filled EXCEPT !.preferredCities = {}, !.preferredCountries = {th}, !.budgetMax = 0],
   [Filled EXCEPT !.travelStyles = {s1, s2}, !.groupSize = None]}

Post == [country |-> us, timezone |-> west] @@ Filled

MCPosts ==
  {Post,
   [Post EXCEPT !.preferredCities = {}],
   [Post EXCEPT !.timezone = seoul],
   [Post EXCEPT !.travelPurposes = {}],
   [Post EXCEPT !.fullName = None]}

MCRank == [featured |-> (1 :> 1) @@ (2 :> 1) @@ (3 :> 0) @@ (4 :> 1) @@ (5 :> 1),
           price    |-> (1 :> 2) @@ (2 :> 1) @@ (3 :> 3) @@ (4 :> 1) @@ (5 :> 0)]

MCCityIn == (1 :> d1) @@ (2 :> d1) @@ (3 :> d2) @@ (4 :> d2) @@ (5 :> d2)

MCCategoryIn == [p \in Programs |-> c1]

Url == Canonical(Default)

Misspelled(value) == [reads |-> value, exact |-> FALSE]

MCUrls ==
  {Url,
   [Url EXCEPT !.sort = <<Spelled("price"), Spelled("featured")>>,
               !.page = <<Misspelled(2)>>],
   [Url EXCEPT !.country = <<Misspelled(kr)>>, !.destination = <<Spelled(d2)>>,
               !.page = <<Spelled(4)>>],
   [Url EXCEPT !.category = <<Misspelled(None)>>, !.sort = <<Spelled("featured")>>,
               !.page = <<Spelled(3)>>]}
===============================================================================
