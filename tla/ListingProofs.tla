------------------------------ MODULE ListingProofs ------------------------------
(***************************************************************************)
(* Theorems about the list of programs of Storefront and their proofs.     *)
(***************************************************************************)
EXTENDS Storefront, FiniteSetTheorems, TLAPS

-------------------------------------------------------------------------------
(* URLs                                                                    *)

LEMMA DefaultIs ==
  /\ Default.country = None /\ Default.destination = None /\ Default.category = None
  /\ Default.sort = DefaultSort /\ Default.page = 1
  /\ DOMAIN Default = Keys
BY DEF Default, Keys

\* What the parser makes of one key.
LEMMA ParseOne ==
  ASSUME NEW params, NEW k \in Keys, NEW r, r = Head(params[k]).reads
  PROVE  Parse(params)[k] =
           IF params[k] = <<>> \/ r = None \/ (k = "page" /\ r \notin 1 .. PageMax)
             THEN Default[k] ELSE r
<1>1. PICK vals : vals = IF params[k] = <<>> THEN {} ELSE {r} \ {None}
  OBVIOUS
<1>2. PICK ok : ok = IF k = "page" THEN vals \cap 1 .. PageMax ELSE vals
  OBVIOUS
<1>3. Parse(params)[k] = IF ok = {} THEN Default[k] ELSE CHOOSE v \in ok : TRUE
  BY <1>1, <1>2 DEF Parse
<1>4. CASE params[k] = <<>> \/ r = None \/ (k = "page" /\ r \notin 1 .. PageMax)
  <2>1. ok = {}
    BY <1>1, <1>2, <1>4
  <2>2. QED
    BY <1>3, <1>4, <2>1
<1>5. CASE ~ (params[k] = <<>> \/ r = None \/ (k = "page" /\ r \notin 1 .. PageMax))
  <2>1. ok = {r}
    BY <1>1, <1>2, <1>5
  <2>2. (CHOOSE v \in ok : TRUE) = r
    BY <2>1
  <2>3. QED
    BY <1>3, <1>5, <2>1, <2>2
<1>6. QED
  BY <1>4, <1>5

\* Canonical form and parsing undo each other, but for what no URL can say.
LEMMA RoundTrip ==
  ASSUME NEW q, NEW k \in Keys
  PROVE  Parse(Canonical(q))[k] =
           IF q[k] = None \/ (k = "page" /\ q[k] \notin 1 .. PageMax)
             THEN Default[k] ELSE q[k]
<1>1. PICK u : u = Canonical(q)
  OBVIOUS
<1>2. u[k] = IF q[k] = Default[k] THEN <<>> ELSE <<Spelled(q[k])>>
  BY <1>1 DEF Canonical
<1>3. CASE q[k] = Default[k]
  BY <1>1, <1>2, <1>3, ParseOne
<1>4. CASE q[k] # Default[k]
  <2>1. u[k] # <<>> /\ Head(u[k]).reads = q[k]
    BY <1>2, <1>4 DEF Spelled
  <2>2. QED
    BY <1>1, <2>1, ParseOne
<1>5. QED
  BY <1>3, <1>4

LEMMA ParseIsQuery ==
  ASSUME NEW params
  PROVE  /\ DOMAIN Parse(params) = Keys
         /\ Parse(params) = [k \in Keys |-> Parse(params)[k]]
         /\ Parse(params).page \in 1 .. PageMax
         /\ \A k \in Keys : Parse(params)[k] # None \/ Parse(params)[k] = Default[k]
<1>1. Parse(params) = [k \in Keys |-> Parse(params)[k]]
  BY DEF Parse
<1>2. "page" \in Keys /\ 1 \in 1 .. PageMax
  BY ListingAssumption DEF Keys
<1>3. Parse(params)["page"] \in 1 .. PageMax
  BY <1>2, ParseOne, DefaultIs
<1>4. \A k \in Keys : Parse(params)[k] # None \/ Parse(params)[k] = Default[k]
  BY ParseOne
<1>5. QED
  BY <1>1, <1>3, <1>4

\* The canonical form of a URL means the same and is its own canonical form.
LEMMA ResolvedIsFixed ==
  ASSUME NEW params
  PROVE  /\ Parse(Resolved(params)) = Parse(params)
         /\ Resolved(Resolved(params)) = Resolved(params)
<1>1. PICK q : q = Parse(params)
  OBVIOUS
<1>2. /\ q = [k \in Keys |-> q[k]] /\ q["page"] \in 1 .. PageMax
      /\ \A k \in Keys : q[k] # None \/ q[k] = Default[k]
  BY <1>1, ParseIsQuery
<1>3. \A k \in Keys : Parse(Canonical(q))[k] = q[k]
  BY <1>2, RoundTrip
<1>4. Parse(Canonical(q)) = [k \in Keys |-> Parse(Canonical(q))[k]]
  BY ParseIsQuery
<1>5. Parse(Canonical(q)) = q
  BY <1>2, <1>3, <1>4
<1>6. QED
  BY <1>1, <1>5 DEF Resolved

-------------------------------------------------------------------------------
(* The order of the list                                                   *)

\* buildOrderBy puts the programs that match in one order, each at a place of
\* its own, and no place is left free.
LEMMA Places ==
  ASSUME NEW q, q.sort \in Sorts, NEW n, n = Cardinality(Matching(q))
  PROVE  /\ n \in Nat /\ (n = 0 <=> Matching(q) = {})
         /\ \A p \in Matching(q) : Position(p, q) \in 0 .. n - 1
         /\ \A i \in 0 .. n - 1 : \E p \in Matching(q) : Position(p, q) = i
<1>1. PICK M : M = Matching(q)
  OBVIOUS
<1>2. M \subseteq Programs /\ IsFiniteSet(M) /\ n \in Nat /\ (n = 0 <=> M = {})
  BY <1>1, ListingAssumption, FS_Subset, FS_CardinalityType, FS_EmptySet DEF Matching
<1>3. PICK pred : pred = [p \in M |-> {r \in M : Before(r, p, q.sort)}]
  OBVIOUS
<1>4. \A p \in M : Position(p, q) = Cardinality(pred[p]) /\ pred[p] \subseteq M \ {p}
  <2>1. ASSUME NEW p \in M
        PROVE  Position(p, q) = Cardinality(pred[p]) /\ pred[p] \subseteq M \ {p}
    <3>1. Position(p, q) = Cardinality(pred[p])
      BY <1>1, <1>3 DEF Position
    <3>2. p \in Nat /\ Rank[q.sort][p] \in Nat
      BY <1>2, ListingAssumption
    <3>3. ~ Before(p, p, q.sort)
      BY <3>2 DEF Before
    <3>4. QED
      BY <1>3, <3>1, <3>3
  <2>2. QED
    BY <2>1
<1>5. \A p \in M : IsFiniteSet(pred[p]) /\ Cardinality(pred[p]) \in Nat
  BY <1>2, <1>4, FS_Subset, FS_CardinalityType
<1>6. ASSUME NEW p \in M
      PROVE  Position(p, q) \in 0 .. n - 1
  <2>1. IsFiniteSet(M \ {p}) /\ Cardinality(M \ {p}) = n - 1
    BY <1>1, <1>2, FS_RemoveElement
  <2>2. Cardinality(pred[p]) <= n - 1
    BY <1>4, <2>1, FS_Subset
  <2>3. QED
    BY <1>2, <1>4, <1>5, <2>2
<1>7. ASSUME NEW p \in M, NEW r \in M, Before(p, r, q.sort)
      PROVE  Position(p, q) < Position(r, q)
  <2>1. ASSUME NEW s \in pred[p]
        PROVE  s \in pred[r]
    <3>1. s \in M /\ Before(s, p, q.sort)
      BY <1>3, <2>1
    <3>2. /\ s \in Nat /\ p \in Nat /\ r \in Nat /\ Rank[q.sort][s] \in Nat
          /\ Rank[q.sort][p] \in Nat /\ Rank[q.sort][r] \in Nat
      BY <1>2, <3>1, ListingAssumption
    <3>3. Before(s, r, q.sort)
      BY <1>7, <3>1, <3>2 DEF Before
    <3>4. QED
      BY <1>3, <3>1, <3>3
  <2>2. pred[p] \cup {p} \subseteq pred[r] /\ p \notin pred[p]
    BY <1>3, <1>4, <1>7, <2>1
  <2>3. Cardinality(pred[p] \cup {p}) = Cardinality(pred[p]) + 1
    BY <1>5, <2>2, FS_AddElement
  <2>4. Cardinality(pred[p] \cup {p}) <= Cardinality(pred[r])
    BY <1>5, <2>2, FS_Subset
  <2>5. QED
    BY <1>4, <1>5, <2>3, <2>4
<1>8. ASSUME NEW p \in M, NEW r \in M, p # r
      PROVE  Before(p, r, q.sort) \/ Before(r, p, q.sort)
  <2>1. p \in Nat /\ r \in Nat /\ Rank[q.sort][p] \in Nat /\ Rank[q.sort][r] \in Nat
    BY <1>2, ListingAssumption
  <2>2. QED
    BY <1>8, <2>1 DEF Before
<1>9. PICK place : place = [p \in M |-> Position(p, q)]
  OBVIOUS
<1>10. place \in [M -> 0 .. n - 1]
  BY <1>6, <1>9
<1>11. \A p, r \in M : place[p] = place[r] => p = r
  <2>1. \A p \in M : place[p] \in Int /\ place[p] = Position(p, q)
    BY <1>9, <1>10
  <2>2. QED
    BY <1>7, <1>8, <2>1
<1>12. place \in Injection(M, 0 .. n - 1)
  BY <1>10, <1>11 DEF Injection, IsInjective
<1>13. IsFiniteSet(0 .. n - 1) /\ Cardinality(0 .. n - 1) = n
  <2>1. 0 \in Int /\ n - 1 \in Int
    BY <1>2
  <2>2. IsFiniteSet(0 .. n - 1)
        /\ Cardinality(0 .. n - 1) = IF 0 > n - 1 THEN 0 ELSE n - 1 - 0 + 1
    BY <2>1, FS_Interval, Zenon
  <2>3. QED
    BY <1>2, <2>2
<1>14. place \in Surjection(M, 0 .. n - 1)
  BY <1>1, <1>12, <1>13, FS_Injection
<1>15. \A i \in 0 .. n - 1 : \E p \in M : place[p] = i
  BY <1>14 DEF Surjection
<1>16. QED
  BY <1>1, <1>2, <1>6, <1>9, <1>15

\* Page counts at the boundaries
LEMMA LastPage ==
  ASSUME NEW n \in Nat, NEW k \in Nat
  PROVE  /\ k < TotalPages(n) => k * PageSize < n
         /\ k >= TotalPages(n) => k * PageSize >= n
<1>1. PICK s, t : s = PageSize /\ t = TotalPages(n)
  OBVIOUS
<1>2. s \in Nat \ {0} /\ t = (n + s - 1) \div s
  BY <1>1, ListingAssumption DEF TotalPages
<1>3. PICK m \in Nat : m = n + s - 1
  BY <1>2
<1>4. t \in Int /\ t * s <= m /\ m < t * s + s
  BY <1>2, <1>3
<1>5. ASSUME k < t
      PROVE  k * s < n
  <2>1. PICK d \in Nat : t = k + 1 + d
    BY <1>4, <1>5
  <2>2. t * s = k * s + s + d * s /\ d * s >= 0
    BY <1>2, <2>1
  <2>3. k * s \in Int /\ d * s \in Int /\ t * s \in Int
    BY <1>2, <1>4, <2>1
  <2>4. QED
    BY <1>2, <1>3, <1>4, <2>2, <2>3
<1>6. ASSUME k >= t
      PROVE  k * s >= n
  <2>1. PICK d \in Nat : k = t + d
    BY <1>4, <1>6
  <2>2. k * s = t * s + d * s /\ d * s >= 0
    BY <1>2, <1>4, <2>1
  <2>3. k * s \in Int /\ d * s \in Int /\ t * s \in Int
    BY <1>2, <1>4, <2>1
  <2>4. QED
    BY <1>2, <1>3, <1>4, <2>2, <2>3
<1>7. QED
  BY <1>1, <1>5, <1>6

-------------------------------------------------------------------------------
(* The inductive invariant                                                 *)

Stages == {"blank", "asked", "count", "find", "found", "shown"}

Visits == [typed : BOOLEAN, seen : SUBSET Programs, twice : BOOLEAN, steady : BOOLEAN]

\* The query a request is about, before and after its URL is resolved
Meant == IF stage = "asked" THEN Parse(url) ELSE query

ListingTyped ==
  /\ stage \in Stages /\ visit \in Visits /\ items \subseteq Programs
  /\ DOMAIN query = Keys /\ query.page \in 1 .. PageMax /\ Meant.sort \in Sorts
  /\ stage \in {"blank", "asked", "count", "find"} => items = {}

\* Once redirected, a request is at the canonical form of a URL.
RedirectOK ==
  redirects = 0 \/ (redirects = 1 /\ (stage = "asked" => Resolved(url) = url))

Agree(q) ==
  q.country # None /\ q.destination # None => CountryOf[q.destination] = q.country

FilterOK == stage # "blank" /\ ~ visit.typed => Agree(Meant)

\* What is in front of a page, or of the place k
Front(q, k) == {p \in Matching(q) : Position(p, q) < k}

Skipped(q) == (q.page - 1) * PageSize

\* The visitor has come to page q by the pages before it.
Walked(q) == ~ visit.twice /\ visit.seen = Front(q, Skipped(q))

NotPastEnd(q) == Matching(q) # {} => Skipped(q) < Cardinality(Matching(q))

WalkOK ==
  visit.steady =>
    /\ stage # "blank"
    /\ stage \in {"asked", "count"} => Meant.page = 1 \/ Walked(Meant)
    /\ stage \in {"find", "found"} => Walked(query)
    /\ NotPastEnd(Meant)
    /\ stage \in {"find", "found", "shown"} => total = Cardinality(Matching(query))
    /\ stage \in {"found", "shown"} => items = Page(query)
    /\ stage = "shown" => ~ visit.twice /\ visit.seen = Front(query, query.page * PageSize)

ListingInv == ListingTyped /\ RedirectOK /\ FilterOK /\ WalkOK

LEMMA InitOK == Init => ListingInv
<1> SUFFICES ASSUME Init PROVE ListingInv
  OBVIOUS
<1>1. /\ stage = "blank" /\ visit = NoWalk(FALSE) /\ query = Default /\ items = {}
      /\ redirects = 0 /\ Meant = Default
  BY DEF Init, InitListing, Meant
<1>2. visit \in Visits /\ ~ visit.steady
  BY <1>1 DEF NoWalk, Visits
<1>3. Default.sort \in Sorts /\ Default.page \in 1 .. PageMax
  BY DefaultIs, ListingAssumption
<1>4. ListingTyped
  BY <1>1, <1>2, <1>3, DefaultIs DEF ListingTyped, Stages
<1>5. QED
  BY <1>1, <1>2, <1>4 DEF ListingInv, RedirectOK, FilterOK, WalkOK

\* While programs and catalogue stay, so does what matches and its order.
LEMMA SameList ==
  ASSUME UNCHANGED <<on, public>>, NEW q
  PROVE  /\ Matching(q)' = Matching(q) /\ Page(q)' = Page(q)
         /\ \A k : Front(q, k)' = Front(q, k)
<1>1. \A p : Matches(p, q)' = Matches(p, q)
  BY DEF Matches
<1>2. Matching(q)' = Matching(q)
  BY <1>1 DEF Matching
<1>3. \A p : Position(p, q)' = Position(p, q)
  BY <1>2 DEF Position
<1>4. QED
  BY <1>2, <1>3 DEF Page, Front

\* A request: one that is not on a walk, or begins one, or is at the next page.
LEMMA RequestKeeps ==
  ASSUME ListingInv, NEW params, Request(params), UNCHANGED on, Parse(params).sort \in Sorts,
         visit' \in Visits, ~ visit'.typed => Agree(Parse(params)),
         visit'.steady => /\ Parse(params).page = 1 \/ Walked(Parse(params))'
                          /\ NotPastEnd(Parse(params))
  PROVE  ListingInv'
<1>1. /\ url' = params /\ stage' = "asked" /\ query' = Default /\ items' = {}
      /\ redirects' = 0 /\ UNCHANGED public
  BY DEF Request, Open
<1>2. Meant' = Parse(params)
  BY <1>1 DEF Meant
<1>3. ListingTyped'
  BY <1>1, <1>2, DefaultIs, ListingAssumption DEF ListingTyped, Stages
<1>4. RedirectOK' /\ FilterOK'
  BY <1>1, <1>2 DEF RedirectOK, FilterOK, Agree
<1>5. WalkOK'
  <2>1. SUFFICES ASSUME visit'.steady PROVE WalkOK'
    BY DEF WalkOK
  <2>2. NotPastEnd(Parse(params))'
    BY <1>1, <2>1, SameList DEF NotPastEnd, Skipped
  <2>3. QED
    BY <1>1, <1>2, <2>1, <2>2 DEF WalkOK
<1>6. QED
  BY <1>3, <1>4, <1>5 DEF ListingInv


LEMMA EnterKeeps == ListingInv /\ Enter /\ UNCHANGED on => ListingInv'
<1> SUFFICES ASSUME ListingInv, Enter, UNCHANGED on PROVE ListingInv'
  OBVIOUS
<1>1. PICK params \in Urls : Request(params) /\ Leave(Parse(params) # Default)
  BY DEF Enter
<1>2. /\ visit' \in Visits /\ ~ visit'.steady
      /\ visit'.typed <=> Parse(params) # Default
  BY <1>1 DEF Leave, NoWalk, Visits
<1>3. Parse(params).sort \in Sorts
  BY <1>1, ParseOne, DefaultIs, ListingAssumption DEF Keys
<1>4. Agree(Default)
  BY DefaultIs DEF Agree
<1>5. QED
  BY <1>1, <1>2, <1>3, <1>4, RequestKeeps

\* The query a link of the page leads to.
LEMMA LinkMeans ==
  ASSUME NEW q, q.sort \in Sorts, NEW r, r = Parse(Canonical(q))
  PROVE  /\ r.country = q.country /\ r.destination = q.destination
         /\ r.category = q.category /\ r.sort = q.sort
         /\ r.page = IF q.page \in 1 .. PageMax THEN q.page ELSE 1
         /\ Agree(r) <=> Agree(q)
<1>1. {"country", "destination", "category", "sort", "page"} \subseteq Keys
  BY DEF Keys
<1>2. None \notin Sorts /\ None \notin 1 .. PageMax
  BY ListingAssumption
<1>3. /\ r["country"] = q["country"] /\ r["destination"] = q["destination"]
      /\ r["category"] = q["category"] /\ r["sort"] = q["sort"]
  BY <1>1, <1>2, RoundTrip, DefaultIs
<1>4. r["page"] = IF q["page"] \in 1 .. PageMax THEN q["page"] ELSE 1
  BY <1>1, <1>2, RoundTrip, DefaultIs
<1>5. QED
  BY <1>3, <1>4 DEF Agree

\* A link that ends the walk
LEMMA LinkKeeps ==
  ASSUME ListingInv, stage = "shown", UNCHANGED on, NEW q, q.sort \in Sorts, Follow(q),
         NEW typed \in BOOLEAN, Leave(typed), ~ typed => Agree(q)
  PROVE  ListingInv'
<1>1. visit' \in Visits /\ ~ visit'.steady /\ visit'.typed = typed
  BY DEF Leave, NoWalk, Visits
<1>2. Parse(Canonical(q)).sort \in Sorts /\ (~ typed => Agree(Parse(Canonical(q))))
  BY LinkMeans
<1>3. QED
  BY <1>1, <1>2, RequestKeeps DEF Follow

\* Page and sort order have no say in what matches.
LEMMA SameQuery ==
  ASSUME NEW q, NEW r, r.country = q.country, r.destination = q.destination,
         r.category = q.category, r.sort = q.sort
  PROVE  /\ Matching(r) = Matching(q)
         /\ \A k : Front(r, k) = Front(q, k)
<1>1. Matching(r) = Matching(q)
  BY DEF Matching, Matches
<1>2. \A p : Position(p, r) = Position(p, q)
  BY <1>1 DEF Position
<1>3. QED
  BY <1>1, <1>2 DEF Front

\* Nothing is in front of the first page, and it is past no end.
LEMMA FirstPage ==
  ASSUME NEW q, q.sort \in Sorts, q.page = 1
  PROVE  Front(q, Skipped(q)) = {} /\ NotPastEnd(q)
<1>1. Skipped(q) = 0
  BY ListingAssumption DEF Skipped
<1>2. PICK n : n = Cardinality(Matching(q))
  OBVIOUS
<1>3. n \in Nat /\ (n = 0 <=> Matching(q) = {})
  BY <1>2, Places
<1>4. \A p \in Matching(q) : Position(p, q) \in 0 .. n - 1
  BY <1>2, Places
<1>5. \A p \in Matching(q) : ~ (Position(p, q) < 0)
  BY <1>3, <1>4
<1>6. QED
  BY <1>1, <1>2, <1>3, <1>5 DEF Front, NotPastEnd

\* A page follows what is in front of it.
LEMMA PageFollows ==
  ASSUME NEW q, q.sort \in Sorts, q.page \in 1 .. PageMax
  PROVE  /\ Front(q, Skipped(q)) \cup Page(q) = Front(q, q.page * PageSize)
         /\ Front(q, Skipped(q)) \cap Page(q) = {}
<1>1. PICK n, k : n = Cardinality(Matching(q)) /\ k = Skipped(q)
  OBVIOUS
<1>2. \A p \in Matching(q) : Position(p, q) \in 0 .. n - 1
  BY <1>1, Places
<1>3. k \in Int /\ q.page * PageSize = k + PageSize /\ PageSize \in Nat \ {0}
  BY <1>1, ListingAssumption DEF Skipped
<1>4. Page(q) = {p \in Matching(q) : Position(p, q) \in k .. k + PageSize - 1}
  BY <1>1 DEF Page, Skipped
<1>5. \A p \in Matching(q) :
        /\ Position(p, q) < k \/ Position(p, q) \in k .. k + PageSize - 1
             <=> Position(p, q) < k + PageSize
        /\ ~ (Position(p, q) < k /\ Position(p, q) \in k .. k + PageSize - 1)
  BY <1>2, <1>3
<1>6. QED
  BY <1>1, <1>3, <1>4, <1>5 DEF Front

LEMMA NextKeeps == ListingInv /\ stage = "shown" /\ FollowNext /\ UNCHANGED on => ListingInv'
<1> SUFFICES ASSUME ListingInv, stage = "shown", FollowNext, UNCHANGED on PROVE ListingInv'
  OBVIOUS
<1>1. PICK q, r : q = [query EXCEPT !.page = @ + 1] /\ r = Parse(Canonical(q))
  OBVIOUS
<1>2. /\ DOMAIN query = Keys /\ query.page \in 1 .. PageMax /\ query.page \in Nat
      /\ query.sort \in Sorts /\ visit \in Visits /\ visit' = visit /\ Meant = query
  BY DEF ListingInv, ListingTyped, FollowNext, Meant
<1>3. /\ q.country = query.country /\ q.destination = query.destination
      /\ q.category = query.category /\ q.sort = query.sort /\ q.page = query.page + 1
  BY <1>1, <1>2 DEF Keys
<1>4. /\ r.country = query.country /\ r.destination = query.destination
      /\ r.category = query.category /\ r.sort = query.sort
      /\ r.page = query.page + 1 \/ r.page = 1
      /\ Agree(r) <=> Agree(query)
  <2>1. /\ r.country = q.country /\ r.destination = q.destination
        /\ r.category = q.category /\ r.sort = q.sort
        /\ r.page = IF q.page \in 1 .. PageMax THEN q.page ELSE 1
        /\ Agree(r) <=> Agree(q)
    BY <1>1, <1>2, <1>3, LinkMeans
  <2>2. Agree(q) <=> Agree(query)
    BY <1>3 DEF Agree
  <2>3. QED
    BY <1>3, <2>1, <2>2
<1>5. Request(Canonical(q))
  BY <1>1 DEF FollowNext, Follow
<1>6. UNCHANGED <<on, public>>
  BY <1>5 DEF Request, Open
<1>7. ASSUME visit.steady
      PROVE  (r.page = 1 \/ Walked(r)') /\ NotPastEnd(r)
  <2>1. CASE r.page = 1
    BY <1>2, <1>4, <2>1, FirstPage
  <2>2. CASE r.page = query.page + 1
    <3>1. Skipped(r) = query.page * PageSize
      BY <1>2, <2>2, ListingAssumption DEF Skipped
    <3>2. /\ ~ visit.twice /\ visit.seen = Front(query, query.page * PageSize)
          /\ total = Cardinality(Matching(query))
      BY <1>7 DEF ListingInv, WalkOK
    <3>3. Walked(r)
      BY <1>4, <3>1, <3>2, SameQuery DEF Walked
    <3>4. Walked(r)'
      <4>1. Front(r, Skipped(r))' = Front(r, Skipped(r))
        BY <1>6, SameList DEF Skipped
      <4>2. QED
        BY <1>2, <3>3, <4>1 DEF Walked
    <3>5. total \in Nat
      BY <1>2, <3>2, Places
    <3>6. query.page * PageSize < total
      BY <1>2, <3>5, LastPage DEF FollowNext, HasNext
    <3>7. NotPastEnd(r)
      BY <1>4, <3>1, <3>2, <3>6, SameQuery DEF NotPastEnd
    <3>8. QED
      BY <3>4, <3>7
  <2>3. QED
    BY <1>4, <2>1, <2>2
<1>8. ~ visit'.typed => Agree(r)
  BY <1>2, <1>4 DEF ListingInv, FilterOK
<1>9. QED
  BY <1>1, <1>2, <1>4, <1>5, <1>7, <1>8, RequestKeeps

LEMMA ControlKeeps == ListingInv /\ stage = "shown" /\ Control /\ UNCHANGED on => ListingInv'
<1> SUFFICES ASSUME ListingInv, stage = "shown", Control, UNCHANGED on PROVE ListingInv'
  OBVIOUS
<1>1. /\ DOMAIN query = Keys /\ query.sort \in Sorts /\ visit.typed \in BOOLEAN
      /\ Meant = query /\ (~ visit.typed => Agree(query))
  BY DEF ListingInv, ListingTyped, FilterOK, Meant, Visits
<1>2. {"country", "destination", "category", "sort", "page"} = Keys
  BY DEF Keys
<1>3. CASE \E country \in Countries \cup {None} : PickCountry(country)
  <2>1. PICK country \in Countries \cup {None} : PickCountry(country)
    BY <1>3
  <2>2. PICK q : q = [query EXCEPT !.country = country, !.destination = None, !.page = 1]
    OBVIOUS
  <2>3. q.sort \in Sorts /\ Agree(q)
    BY <1>1, <1>2, <2>2 DEF Agree
  <2>4. QED
    BY <1>1, <2>1, <2>2, <2>3, LinkKeeps DEF PickCountry
<1>4. CASE \E city \in Cities \cup {None} : PickCity(city)
  <2>1. PICK city \in Cities \cup {None} : PickCity(city)
    BY <1>4
  <2>2. PICK q : q = [query EXCEPT !.destination = city, !.page = 1]
    OBVIOUS
  <2>3. q.sort \in Sorts /\ Agree(q)
    BY <1>1, <1>2, <2>1, <2>2 DEF Agree, PickCity
  <2>4. QED
    BY <1>1, <2>1, <2>2, <2>3, LinkKeeps DEF PickCity
<1>5. CASE \E category \in Categories \cup {None} : PickCategory(category)
  <2>1. PICK category \in Categories \cup {None} : PickCategory(category)
    BY <1>5
  <2>2. PICK q : q = [query EXCEPT !.category = category, !.page = 1]
    OBVIOUS
  <2>3. q.sort \in Sorts /\ (Agree(q) <=> Agree(query))
    BY <1>1, <1>2, <2>2 DEF Agree
  <2>4. QED
    BY <1>1, <2>1, <2>2, <2>3, LinkKeeps DEF PickCategory
<1>6. CASE \E sort \in Sorts : PickSort(sort)
  <2>1. PICK sort \in Sorts : PickSort(sort)
    BY <1>6
  <2>2. PICK q : q = [query EXCEPT !.sort = sort, !.page = 1]
    OBVIOUS
  <2>3. q.sort \in Sorts /\ (Agree(q) <=> Agree(query))
    BY <1>1, <1>2, <2>2 DEF Agree
  <2>4. QED
    BY <1>1, <2>1, <2>2, <2>3, LinkKeeps DEF PickSort
<1>7. CASE ClearFilters
  <2>1. PICK q : q = [Default EXCEPT !.sort = query.sort]
    OBVIOUS
  <2>2. q.sort \in Sorts /\ Agree(q)
    BY <1>1, <1>2, <2>1, DefaultIs DEF Agree
  <2>3. QED
    BY <1>1, <1>7, <2>1, <2>2, LinkKeeps DEF ClearFilters
<1>8. CASE ResetList
  <2>1. Default.sort \in Sorts /\ Agree(Default)
    BY DefaultIs, ListingAssumption DEF Agree
  <2>2. QED
    BY <1>1, <1>8, <2>1, LinkKeeps DEF ResetList
<1>9. CASE FollowNext
  BY <1>9, NextKeeps
<1>10. CASE FollowPrevious
  <2>1. PICK q : q = [query EXCEPT !.page = @ - 1]
    OBVIOUS
  <2>2. q.sort \in Sorts /\ (Agree(q) <=> Agree(query))
    BY <1>1, <1>2, <2>1 DEF Agree
  <2>3. QED
    BY <1>1, <1>10, <2>1, <2>2, LinkKeeps DEF FollowPrevious
<1>11. QED
  BY <1>3, <1>4, <1>5, <1>6, <1>7, <1>8, <1>9, <1>10 DEF Control

LEMMA ResolveKeeps == ListingInv /\ Resolve /\ UNCHANGED on => ListingInv'
<1> SUFFICES ASSUME ListingInv, Resolve, UNCHANGED on PROVE ListingInv'
  OBVIOUS
<1>1. /\ stage = "asked" /\ Meant = Parse(url) /\ visit' = visit /\ items' = items
      /\ UNCHANGED <<on, public>>
  BY DEF Resolve, Meant
<1>2. \/ query' = Parse(url) /\ stage' = "count" /\ redirects' = redirects
      \/ /\ Resolved(url) # url /\ url' = Resolved(url) /\ redirects' = redirects + 1
         /\ UNCHANGED <<query, stage>>
  BY DEF Resolve
<1>3. Meant' = Meant
  BY <1>1, <1>2, ResolvedIsFixed DEF Meant
<1>4. ListingTyped'
  BY <1>1, <1>2, <1>3, ParseIsQuery DEF ListingInv, ListingTyped, Stages
<1>5. RedirectOK'
  BY <1>1, <1>2, ResolvedIsFixed DEF ListingInv, RedirectOK
<1>6. FilterOK'
  BY <1>1, <1>2, <1>3 DEF ListingInv, FilterOK, Agree
<1>7. WalkOK'
  <2>1. SUFFICES ASSUME visit.steady PROVE WalkOK'
    BY <1>1 DEF WalkOK
  <2>2. PICK q : q = Meant
    OBVIOUS
  <2>3. (q.page = 1 \/ Walked(q)) /\ NotPastEnd(q)
    BY <1>1, <2>1, <2>2 DEF ListingInv, WalkOK
  <2>4. (Walked(q) => Walked(q)') /\ NotPastEnd(q)'
    <3>1. Front(q, Skipped(q))' = Front(q, Skipped(q)) /\ Matching(q)' = Matching(q)
      BY <1>1, SameList DEF Skipped
    <3>2. QED
      BY <1>1, <2>3, <3>1 DEF Walked, NotPastEnd, Skipped
  <2>5. QED
    BY <1>1, <1>2, <1>3, <2>1, <2>2, <2>3, <2>4 DEF WalkOK
<1>8. QED
  BY <1>4, <1>5, <1>6, <1>7 DEF ListingInv

\* The count begins a walk on page 1 and goes on with it on any other.
LEMMA CountKeeps == ListingInv /\ Count /\ UNCHANGED on => ListingInv'
<1> SUFFICES ASSUME ListingInv, Count, UNCHANGED on PROVE ListingInv'
  OBVIOUS
<1>1. /\ stage = "count" /\ Meant = query /\ items = {} /\ visit \in Visits
      /\ query.sort \in Sorts /\ query.page \in 1 .. PageMax
      /\ UNCHANGED <<on, public, url, query, items, redirects>>
      /\ stage' \in {"find", "found"} /\ Meant' = query
      /\ total' = Cardinality(Matching(query)) /\ (stage' = "found" => total' = 0)
  BY DEF Count, ListingInv, ListingTyped, Meant
<1>2. visit' = IF query.page # 1 THEN visit
               ELSE [visit EXCEPT !.seen = {}, !.twice = FALSE, !.steady = TRUE]
  BY DEF Count, BeginWalk
<1>3. visit' \in Visits /\ visit'.typed = visit.typed
  BY <1>1, <1>2 DEF Visits
<1>4. ListingTyped' /\ RedirectOK' /\ FilterOK'
  BY <1>1, <1>3 DEF ListingInv, ListingTyped, RedirectOK, FilterOK, Stages, Agree
<1>5. WalkOK'
  <2>1. SUFFICES ASSUME visit'.steady PROVE WalkOK'
    BY DEF WalkOK
  <2>2. /\ Matching(query)' = Matching(query) /\ Page(query)' = Page(query)
        /\ Front(query, Skipped(query))' = Front(query, Skipped(query))
    BY <1>1, SameList DEF Skipped
  <2>3. Walked(query)' /\ NotPastEnd(query)
    <3>1. CASE query.page = 1
      <4>1. ~ visit'.twice /\ visit'.seen = {}
        BY <1>1, <1>2, <3>1 DEF Visits
      <4>2. QED
        BY <1>1, <2>2, <3>1, <4>1, FirstPage DEF Walked
    <3>2. CASE query.page # 1
      <4>1. visit' = visit
        BY <1>2, <3>2
      <4>2. Walked(query) /\ NotPastEnd(query)
        BY <1>1, <2>1, <3>2, <4>1 DEF ListingInv, WalkOK
      <4>3. QED
        BY <2>2, <4>1, <4>2 DEF Walked
    <3>3. QED
      BY <3>1, <3>2
  <2>4. NotPastEnd(query)'
    BY <1>1, <2>2, <2>3 DEF NotPastEnd, Skipped
  <2>5. stage' = "found" => items' = Page(query)'
    <3>1. SUFFICES ASSUME stage' = "found" PROVE Page(query) = {}
      BY <1>1, <2>2
    <3>2. Matching(query) = {}
      BY <1>1, <3>1, Places
    <3>3. QED
      BY <3>2 DEF Page
  <2>6. QED
    BY <1>1, <2>2, <2>3, <2>4, <2>5 DEF WalkOK
<1>6. QED
  BY <1>4, <1>5 DEF ListingInv

LEMMA FindKeeps == ListingInv /\ Find /\ UNCHANGED on => ListingInv'
<1> SUFFICES ASSUME ListingInv, Find, UNCHANGED on PROVE ListingInv'
  OBVIOUS
<1>1. /\ stage = "find" /\ stage' = "found" /\ items' = Page(query)
      /\ UNCHANGED <<on, public, url, query, total, redirects, visit>>
      /\ Meant = query /\ Meant' = query
  BY DEF Find, Meant
<1>2. Page(query) \subseteq Programs
  BY DEF Page, Matching
<1>3. ListingTyped' /\ RedirectOK' /\ FilterOK'
  BY <1>1, <1>2 DEF ListingInv, ListingTyped, RedirectOK, FilterOK, Stages, Agree
<1>4. /\ Matching(query)' = Matching(query) /\ Page(query)' = Page(query)
      /\ Front(query, Skipped(query))' = Front(query, Skipped(query))
  BY <1>1, SameList DEF Skipped
<1>5. WalkOK'
  BY <1>1, <1>4 DEF ListingInv, WalkOK, Walked, NotPastEnd, Skipped
<1>6. QED
  BY <1>3, <1>5 DEF ListingInv

\* The page is what comes next in the list, and none of it was seen before.
LEMMA ShowKeeps == ListingInv /\ Show /\ UNCHANGED on => ListingInv'
<1> SUFFICES ASSUME ListingInv, Show, UNCHANGED on PROVE ListingInv'
  OBVIOUS
<1>1. /\ stage = "found" /\ stage' = "shown"
      /\ UNCHANGED <<on, public, url, query, total, items, redirects>>
      /\ Meant = query /\ Meant' = query /\ query.sort \in Sorts
      /\ visit \in Visits /\ items \subseteq Programs /\ query.page \in 1 .. PageMax
  BY DEF Show, Meant, ListingInv, ListingTyped
<1>2. visit' = [visit EXCEPT !.seen = @ \cup items,
                             !.twice = @ \/ visit.seen \cap items # {}]
  BY DEF Show
<1>3. /\ visit' \in Visits /\ visit'.typed = visit.typed /\ visit'.steady = visit.steady
      /\ visit'.seen = visit.seen \cup items
      /\ visit'.twice <=> visit.twice \/ visit.seen \cap items # {}
  BY <1>1, <1>2 DEF Visits
<1>4. ListingTyped' /\ RedirectOK' /\ FilterOK'
  BY <1>1, <1>3 DEF ListingInv, ListingTyped, RedirectOK, FilterOK, Stages, Agree
<1>5. WalkOK'
  <2>1. SUFFICES ASSUME visit.steady PROVE WalkOK'
    BY <1>3 DEF WalkOK
  <2>2. /\ Walked(query) /\ NotPastEnd(query) /\ total = Cardinality(Matching(query))
        /\ items = Page(query)
    BY <1>1, <2>1 DEF ListingInv, WalkOK
  <2>3. ~ visit'.twice /\ visit'.seen = Front(query, query.page * PageSize)
    BY <1>1, <1>3, <2>2, PageFollows DEF Walked
  <2>4. /\ Matching(query)' = Matching(query) /\ Page(query)' = Page(query)
        /\ Front(query, query.page * PageSize)' = Front(query, query.page * PageSize)
    BY <1>1, SameList
  <2>5. QED
    BY <1>1, <2>2, <2>3, <2>4 DEF WalkOK, NotPastEnd, Skipped
<1>6. QED
  BY <1>4, <1>5 DEF ListingInv

LEMMA ListingStands ==
  ListingInv /\ UNCHANGED <<on, public, url, stage, query, total, items, redirects, visit>>
    => ListingInv'
<1> SUFFICES ASSUME ListingInv,
                    UNCHANGED <<on, public, url, stage, query, total, items, redirects, visit>>
             PROVE  ListingInv'
  OBVIOUS
<1>1. Meant' = Meant
  BY DEF Meant
<1>2. ListingTyped' /\ RedirectOK' /\ FilterOK'
  BY <1>1 DEF ListingInv, ListingTyped, RedirectOK, FilterOK, Agree
<1>3. \A q : /\ Matching(q)' = Matching(q) /\ Page(q)' = Page(q)
             /\ \A k : Front(q, k)' = Front(q, k)
  BY SameList
<1>4. \A q : (Walked(q)' <=> Walked(q)) /\ (NotPastEnd(q)' <=> NotPastEnd(q))
  BY <1>3 DEF Walked, NotPastEnd, Skipped
<1>5. WalkOK'
  BY <1>1, <1>3, <1>4 DEF ListingInv, WalkOK
<1>6. QED
  BY <1>2, <1>5 DEF ListingInv

\* What operators do ends the walk and nothing else.
LEMMA ChangeKeeps ==
  ListingInv /\ UNCHANGED <<url, stage, query, total, items, redirects>>
    /\ visit' = [visit EXCEPT !.steady = FALSE] => ListingInv'
<1> SUFFICES ASSUME ListingInv, UNCHANGED <<url, stage, query, total, items, redirects>>,
                    visit' = [visit EXCEPT !.steady = FALSE]
             PROVE  ListingInv'
  OBVIOUS
<1>1. Meant' = Meant /\ visit \in Visits
  BY DEF Meant, ListingInv, ListingTyped
<1>2. visit' \in Visits /\ visit'.typed = visit.typed /\ ~ visit'.steady
  BY <1>1 DEF Visits
<1>3. QED
  BY <1>1, <1>2 DEF ListingInv, ListingTyped, RedirectOK, FilterOK, Agree, WalkOK

LEMMA CloseKeeps == ListingInv /\ CloseListing => ListingInv'
<1> SUFFICES ASSUME ListingInv, CloseListing PROVE ListingInv'
  OBVIOUS
<1>1. /\ stage' = "blank" /\ query' = Default /\ items' = {} /\ redirects' = 0
      /\ visit' \in Visits /\ ~ visit'.steady
  BY DEF CloseListing, Open, Leave, NoWalk, Visits
<1>2. Meant' = Default
  BY <1>1 DEF Meant
<1>3. ListingTyped'
  BY <1>1, <1>2, DefaultIs, ListingAssumption DEF ListingTyped, Stages
<1>4. QED
  BY <1>1, <1>3 DEF ListingInv, RedirectOK, FilterOK, WalkOK

LEMMA ListingKeeps == ListingInv /\ [Next]_vars => ListingInv'
<1> SUFFICES ASSUME ListingInv, [Next]_vars PROVE ListingInv'
  OBVIOUS
<1>1. CASE AtForm
  BY <1>1, ListingStands DEF AtForm, listingVars, listing
<1>2. CASE AtListing
  <2>1. ListingStep /\ UNCHANGED on
    BY <1>2 DEF AtListing
  <2>2. LoadFacets => ListingInv'
    BY <2>1, ListingStands DEF LoadFacets
  <2>3. QED
    BY <2>1, <2>2, EnterKeeps, ResolveKeeps, CountKeeps, FindKeeps, ShowKeeps, ControlKeeps
       DEF ListingStep
<1>3. CASE LeaveListing
  BY <1>3, CloseKeeps DEF LeaveListing
<1>4. CASE \E entry \in Switchable : SwitchEntry(entry)
  BY <1>4, ChangeKeeps DEF SwitchEntry
<1>5. CASE \E p \in Withdrawable : PublishOrWithdraw(p)
  BY <1>5, ChangeKeeps DEF PublishOrWithdraw
<1>6. CASE UNCHANGED vars
  BY <1>6, ListingStands DEF vars, listingVars, listing
<1>7. QED
  BY <1>1, <1>2, <1>3, <1>4, <1>5, <1>6 DEF Next

LEMMA ListingInvariant == Spec => []ListingInv
BY InitOK, ListingKeeps, PTL DEF Spec

-------------------------------------------------------------------------------
(* Theorems                                                                *)

\* A URL is brought to its canonical form by one redirect at most: no
\* request goes in circles, repeated, misspelled and unknown values or not.
THEOREM Redirects == Spec => []OneRedirect
<1>1. ListingInv => OneRedirect
  BY DEF ListingInv, RedirectOK, OneRedirect
<1>2. QED
  BY <1>1, ListingInvariant, PTL

\* The controls alone never lead to a destination outside the chosen country.
THEOREM Filters == Spec => []FiltersAgree
<1>1. ListingInv => FiltersAgree
  BY DEF ListingInv, FilterOK, Agree, Meant, FiltersAgree
<1>2. QED
  BY <1>1, ListingInvariant, PTL

\* While nothing changes, the Next links lead from page 1 past every program that
\* matches, none twice and no page empty, although each page counts and sorts anew
\* and many programs may have the same rank.  From page PAGE_MAX they lead to
\* page 1, where a new walk begins.
THEOREM Walk == Spec => []WalkSeesAll
<1>1. ListingInv => WalkSeesAll
  <2> SUFFICES ASSUME ListingInv, stage = "shown", visit.steady
               PROVE  /\ ~ visit.twice
                      /\ items = {} => Matching(query) = {}
                      /\ ~ HasNext => visit.seen = Matching(query)
    BY DEF WalkSeesAll
  <2>1. PICK n : n = Cardinality(Matching(query))
    OBVIOUS
  <2>2. /\ query.sort \in Sorts /\ query.page \in 1 .. PageMax /\ Meant = query
        /\ PageSize \in Nat \ {0}
    BY ListingAssumption DEF ListingInv, ListingTyped, Meant
  <2>3. /\ ~ visit.twice /\ visit.seen = Front(query, query.page * PageSize)
        /\ total = n /\ items = Page(query) /\ NotPastEnd(query)
    BY <2>1, <2>2 DEF ListingInv, WalkOK
  <2>4. n \in Nat /\ \A p \in Matching(query) : Position(p, query) \in 0 .. n - 1
    BY <2>1, <2>2, Places
  <2>5. ASSUME Matching(query) # {}
        PROVE  items # {}
    <3>1. Skipped(query) \in 0 .. n - 1
      BY <2>1, <2>2, <2>3, <2>4, <2>5 DEF NotPastEnd, Skipped
    <3>2. PICK p \in Matching(query) : Position(p, query) = Skipped(query)
      BY <2>1, <2>2, <3>1, Places
    <3>3. p \in Page(query)
      BY <2>2, <3>1, <3>2 DEF Page, Skipped
    <3>4. QED
      BY <2>3, <3>3
  <2>6. ASSUME ~ HasNext
        PROVE  visit.seen = Matching(query)
    <3>1. TotalPages(n) \in Int
      BY <2>2, <2>4 DEF TotalPages
    <3>2. query.page >= TotalPages(n)
      BY <2>2, <2>3, <2>6, <3>1 DEF HasNext
    <3>3. query.page * PageSize >= n
      BY <2>2, <2>4, <3>2, LastPage
    <3>4. query.page * PageSize \in Int
      BY <2>2
    <3>5. \A p \in Matching(query) : Position(p, query) < query.page * PageSize
      BY <2>4, <3>3, <3>4
    <3>6. QED
      BY <2>3, <3>5 DEF Front
  <2>7. QED
    BY <2>3, <2>5, <2>6
<1>2. QED
  BY <1>1, ListingInvariant, PTL
===============================================================================
