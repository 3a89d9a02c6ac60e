------------------------------ MODULE ProgramListing ------------------------------
(***************************************************************************)
(* The public list of programs: a URL is brought to its canonical form,    *)
(* the programs are counted and then read a page at a time, and filters,   *)
(* sort order and pager lead to the next URL.  Count, page and facets are  *)
(* queries of their own, and the catalogue may change between any two.     *)
(***************************************************************************)
EXTENDS Catalogue, Sequences

CONSTANTS
  Programs,       \* ids, which are numbers
  CityIn, CategoryIn,  \* the destination and the category of a program
  Withdrawable,   \* programs that operators publish and withdraw meanwhile
  Rank,           \* Rank[s][p], the sort key of p under sort s, smaller first
  DefaultSort,
  PageSize,       \* PAGE_SIZE
  PageMax,        \* PAGE_MAX
  Urls            \* what visitors type in or come with

VARIABLES
  public,         \* programs that are published, by an approved expert
  url,            \* the parameters of the request
  stage,          \* how far the request is; "blank" when the list is not open
  query, total, items, facets,  \* what the page has found and shows
  redirects,      \* history: redirects since the visitor asked for a URL
  visit           \* history: what the visitor has typed and seen

listing == <<url, stage, query, total, items, facets, redirects, visit>>
listingVars == <<public, listing>>

Keys == {"country", "destination", "category", "sort", "page"}

Sorts == DOMAIN Rank

\* In a URL a key has a sequence of values, for it may be repeated.  A value
\* has what the parser reads in it, None if that is nothing, and whether it
\* is spelled the way it would be written.
Spelled(value) == [reads |-> value, exact |-> TRUE]

Default ==
  [country |-> None, destination |-> None, category |-> None, sort |-> DefaultSort, page |-> 1]

ASSUME ListingAssumption ==
  /\ Programs \subseteq Nat /\ IsFiniteSet(Programs) /\ Withdrawable \subseteq Programs
  /\ CityIn \in [Programs -> Cities] /\ CategoryIn \in [Programs -> Categories]
  /\ \A s \in Sorts : Rank[s] \in [Programs -> Nat]
  /\ DefaultSort \in Sorts /\ PageSize \in Nat \ {0} /\ PageMax \in Nat \ {0}
  /\ DOMAIN Default = Keys /\ None \notin Sorts \cup Nat
  /\ \A params \in Urls :
       params.sort # <<>> => Head(params.sort).reads \in Sorts \cup {None}

-------------------------------------------------------------------------------
(* query.ts *)

\* parseProgramListQuery, with the fallbacks of programListParamsSchema
Parse(params) ==
  LET values(k) == IF params[k] = <<>> THEN {} ELSE {Head(params[k]).reads} \ {None}
      allowed(k) == IF k = "page" THEN values(k) \cap 1 .. PageMax ELSE values(k)
  IN  [k \in Keys |-> IF allowed(k) = {} THEN Default[k] ELSE CHOOSE v \in allowed(k) : TRUE]

\* toCanonicalSearchParams
Canonical(q) == [k \in Keys |-> IF q[k] = Default[k] THEN <<>> ELSE <<Spelled(q[k])>>]

\* Fault: the canonical URL keeps the known keys of the request too.
ResolvedKeepingAll(params) ==
  [k \in Keys |-> IF Canonical(Parse(params))[k] = <<>> THEN <<>>
                  ELSE Canonical(Parse(params))[k] \o params[k]]

\* resolveCanonicalQuery; unknown keys are in both URLs alike.
Resolved(params) == Canonical(Parse(params))

-------------------------------------------------------------------------------
(* service.ts *)

\* buildListWhere
Matches(p, q) ==
  /\ p \in public /\ CityIn[p] \in on /\ CategoryIn[p] \in on
  /\ q.country # None => CountryOf[CityIn[p]] = q.country
  /\ q.destination # None => CityIn[p] = q.destination
  /\ q.category # None => CategoryIn[p] = q.category

Matching(q) == {p \in Programs : Matches(p, q)}

\* buildOrderBy: the id breaks ties.
Before(p, r, sort) ==
  \/ Rank[sort][p] < Rank[sort][r]
  \/ Rank[sort][p] = Rank[sort][r] /\ p < r

Position(p, q) == Cardinality({r \in Matching(q) : Before(r, p, q.sort)})

TotalPages(count) == (count + PageSize - 1) \div PageSize

\* Fault: pages are counted from 0.
PageFromZero(q) ==
  {p \in Matching(q) : Position(p, q) \in q.page * PageSize .. q.page * PageSize + PageSize - 1}

\* skip and take of computePagination
Page(q) ==
  LET skip == (q.page - 1) * PageSize IN
    {p \in Matching(q) : Position(p, q) \in skip .. skip + PageSize - 1}

-------------------------------------------------------------------------------
(* A request *)

\* typed: the filters were once typed in.  A walk is a visit to page 1 and the
\* pages its Next links lead to: the programs it has seen, whether one of them
\* twice, and whether nothing has changed since it began.
NoWalk(typed) == [typed |-> typed, seen |-> {}, twice |-> FALSE, steady |-> FALSE]

Leave(typed) == visit' = NoWalk(typed)

InitListing ==
  /\ public = Programs
  /\ url = Canonical(Default)
  /\ stage = "blank"
  /\ query = Default
  /\ total = 0 /\ items = {} /\ facets = None
  /\ redirects = 0
  /\ visit = NoWalk(FALSE)

Idle == stage \in {"blank", "shown"}

\* What the page before showed is gone.
Open(params, next) ==
  /\ url' = params
  /\ stage' = next
  /\ query' = Default /\ total' = 0 /\ items' = {} /\ facets' = None
  /\ redirects' = 0
  /\ UNCHANGED public

Request(params) == Open(params, "asked")

CloseListing ==
  /\ Idle
  /\ Open(Canonical(Default), "blank")
  /\ Leave(FALSE)

Enter ==
  /\ Idle
  /\ \E params \in Urls : Request(params) /\ Leave(Parse(params) # Default)

Resolve ==
  /\ stage = "asked"
  /\ \/ /\ Resolved(url) = url
        /\ query' = Parse(url)
        /\ stage' = "count"
        /\ UNCHANGED <<url, redirects>>
     \/ /\ Resolved(url) # url
        /\ url' = Resolved(url)
        /\ redirects' = redirects + 1
        /\ UNCHANGED <<query, stage>>
  /\ UNCHANGED <<public, total, items, facets, visit>>

\* A walk begins on page 1, and begins again there after page PAGE_MAX: the
\* Next link of that page leads to one that does not parse.
BeginWalk ==
  visit' = IF query.page # 1 THEN visit
           ELSE [visit EXCEPT !.seen = {}, !.twice = FALSE, !.steady = TRUE]

\* listPublicPrograms: program.count, and no second query for nothing
Count ==
  /\ stage = "count"
  /\ total' = Cardinality(Matching(query))
  /\ stage' = IF total' = 0 THEN "found" ELSE "find"
  /\ BeginWalk
  /\ UNCHANGED <<public, url, query, items, facets, redirects>>

\* program.findMany
Find ==
  /\ stage = "find"
  /\ items' = Page(query)
  /\ stage' = "found"
  /\ UNCHANGED <<public, url, query, total, facets, redirects, visit>>

\* getProgramListFacets, at any time meanwhile
LoadFacets ==
  /\ stage \in {"count", "find", "found"} /\ facets = None
  /\ facets' = on
  /\ UNCHANGED <<public, url, stage, query, total, items, redirects, visit>>

Show ==
  /\ stage = "found" /\ facets # None
  /\ stage' = "shown"
  /\ visit' = [visit EXCEPT !.seen = @ \cup items,
                            !.twice = @ \/ visit.seen \cap items # {}]
  /\ UNCHANGED <<public, url, query, total, items, facets, redirects>>

-------------------------------------------------------------------------------
(* The controls of the page *)

\* buildListHref
Follow(q) == Request(Canonical(q))

\* Fault: the destination of another country stays.
PickCountryOnly(country) ==
  /\ country \in CountriesOf(facets \cap Cities) \cup {None}
  /\ Follow([query EXCEPT !.country = country, !.page = 1])
  /\ Leave(visit.typed)

PickCountry(country) ==
  /\ country \in CountriesOf(facets \cap Cities) \cup {None}
  /\ Follow([query EXCEPT !.country = country, !.destination = None, !.page = 1])
  /\ Leave(visit.typed)

PickCity(city) ==
  /\ city # None => city \in facets /\ query.country \in {None, CountryOf[city]}
  /\ Follow([query EXCEPT !.destination = city, !.page = 1])
  /\ Leave(visit.typed)

PickCategory(category) ==
  /\ category \in (facets \cap Categories) \cup {None}
  /\ Follow([query EXCEPT !.category = category, !.page = 1])
  /\ Leave(visit.typed)

PickSort(sort) ==
  /\ Follow([query EXCEPT !.sort = sort, !.page = 1])
  /\ Leave(visit.typed)

ClearFilters ==
  /\ <<query.country, query.destination, query.category>> # <<None, None, None>>
  /\ Follow([Default EXCEPT !.sort = query.sort])
  /\ Leave(FALSE)

\* The link of the empty list, back to /programs
ResetList ==
  /\ items = {}
  /\ Follow(Default)
  /\ Leave(FALSE)

\* The pager counts from the page of the URL, or from 1 when nothing matches.
HasNext == TotalPages(total) > 1 /\ query.page < TotalPages(total)

FollowNext ==
  /\ HasNext
  /\ Follow([query EXCEPT !.page = @ + 1])
  /\ UNCHANGED visit

FollowPrevious ==
  /\ TotalPages(total) > 1 /\ query.page > 1
  /\ Follow([query EXCEPT !.page = @ - 1])
  /\ Leave(visit.typed)

Control ==
  \/ \E country \in Countries \cup {None} : PickCountry(country)
  \/ \E city \in Cities \cup {None} : PickCity(city)
  \/ \E category \in Categories \cup {None} : PickCategory(category)
  \/ \E sort \in Sorts : PickSort(sort)
  \/ ClearFilters
  \/ ResetList
  \/ FollowNext
  \/ FollowPrevious

ListingStep ==
  \/ Enter
  \/ Resolve
  \/ Count
  \/ Find
  \/ LoadFacets
  \/ Show
  \/ stage = "shown" /\ Control

-------------------------------------------------------------------------------
(* Properties *)

\* A URL is brought to its canonical form by one redirect at most: no
\* request goes in circles, repeated, misspelled and unknown values or not.
OneRedirect ==
  redirects <= 1

\* While nothing changes, the Next links lead from page 1 past every program that
\* matches, none twice and no page empty, although each page counts and sorts anew
\* and many programs may have the same rank.  From page PAGE_MAX they lead to
\* page 1, where a new walk begins.
WalkSeesAll ==
  stage = "shown" /\ visit.steady =>
    /\ ~ visit.twice
    /\ items = {} => Matching(query) = {}
    /\ ~ HasNext => visit.seen = Matching(query)

\* The controls alone never lead to a destination outside the chosen country.
FiltersAgree ==
  stage = "shown" /\ ~ visit.typed /\ query.country # None /\ query.destination # None =>
    CountryOf[query.destination] = query.country
===============================================================================
