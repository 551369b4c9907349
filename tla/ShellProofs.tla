----------------------------- MODULE ShellProofs -----------------------------
(***************************************************************************)
(* Proofs about Shell, for any catalog, any pages, days and addresses and  *)
(* any number of loads in flight: the address tells the route, no click    *)
(* changes a filter, and the view on the screen is the one of the route    *)
(* unless an earlier load answered after the last one.                     *)
(*                                                                         *)
(* Of the addresses UrlIsTrue assumes that the application wrote them: one *)
(* that names days beside a preset (only somebody who types it can make    *)
(* it) is opened without them, and the address is not corrected.           *)
(***************************************************************************)
EXTENDS Shell, TLAPS

Written(u) == u \in Routes /\ SerializeRouteState(u) = u

AddressesWritten == \A u \in Addresses : Written(u)

------------------------------------------------------------------------------
(* The route, its address, the addresses behind it and the catalog.        *)
ShellTypes ==
  /\ today \in 2 .. LastDay
  /\ route \in Routes
  /\ Written(url)
  /\ past \in Seq(Routes) /\ \A i \in DOMAIN past : Written(past[i])
  /\ boot \in {"waiting", "ready", "dead"}
  /\ pages \in {Listed, <<>>}

RouteInv == ShellTypes /\ UrlTellsTheRoute

(* What holds of the route wherever the application was opened: it fits    *)
(* the catalog.                                                            *)
Fits(r, known) == /\ r.page \in ToSet(known) \cup {NoPage}
                  /\ known # <<>> => r.page # NoPage
                  /\ r.compare \subseteq ToSet(known)

FitInv ==
  /\ today \in 2 .. LastDay
  /\ route \in Routes /\ url \in Routes /\ past \in Seq(Routes)
  /\ pages \in {Listed, <<>>}
  /\ boot = "ready" => Fits(route, pages)

(* What the last load begun was asked for is still what the route asks     *)
(* for, while it is in flight.                                             *)
ToShow == IF route.view \notin Control /\ route.page = NoPage THEN Screen("no page")
          ELSE Request(route, pages)

LoadTrue(l) ==
  \/ l = Idle
  \/ /\ boot = "ready"
     /\ \/ /\ l.stage = "view" /\ route.view \notin Control /\ route.page # NoPage
           /\ l.of = Request(route, pages)
        \/ l.stage = "pages" /\ route.view \in Control
        \/ l.stage = "health" /\ route.view = "operations"

LoadInv ==
  /\ load = [i \in Loads |-> load[i]]
  /\ \A i \in Loads \ behind : LoadTrue(load[i])
  /\ (/\ boot = "ready"
      /\ \A i \in Loads \ behind : load[i] = Idle
      /\ ~failed
      /\ ~overtaken) => html = ToShow

------------------------------------------------------------------------------
(* The operators on routes.                                                *)
LEMMA RangeTyped ==
  ASSUME today \in 2 .. LastDay, NEW slice, NEW chosen \in Days \cup {NoDay}
  PROVE  RangeOf(slice, chosen) \in Days \cup {NoDay} /\ Yesterday \in Days
BY ShellConstants DEF RangeOf, Yesterday, Days

LEMMA SerializedTyped ==
  ASSUME NEW r \in Routes
  PROVE  Written(SerializeRouteState(r))
<1>1. SerializeRouteState(r) \in Routes
  BY DEF SerializeRouteState, Routes
<1>2. SerializeRouteState(r).slice = r.slice
  BY DEF SerializeRouteState, Routes
<1>3. SerializeRouteState(SerializeRouteState(r)) = SerializeRouteState(r)
  BY <1>1, <1>2 DEF SerializeRouteState, Routes
<1> QED BY <1>1, <1>3 DEF Written

LEMMA ParsedRoute ==
  ASSUME today \in 2 .. LastDay, NEW u \in Routes
  PROVE  ParseRouteState(u) \in Routes
<1>1. PICK days : days = IF u.range = NoDay THEN Yesterday ELSE u.range
  OBVIOUS
<1>2. days \in Days \cup {NoDay}
  BY <1>1, RangeTyped DEF Routes
<1>3. PICK range \in Days \cup {NoDay} : range = RangeOf(u.slice, days)
  BY <1>2, RangeTyped
<1>4. ParseRouteState(u) = [u EXCEPT !.range = range]
  BY <1>1, <1>3 DEF ParseRouteState
<1> QED BY <1>4 DEF Routes

LEMMA ParsedTyped ==
  ASSUME today \in 2 .. LastDay, NEW u, Written(u)
  PROVE  /\ ParseRouteState(u) \in Routes
         /\ SerializeRouteState([ParseRouteState(u) EXCEPT !.range = u.range]) = u
         /\ u.range # NoDay => ParseRouteState(u).range = u.range
<1> DEFINE r == ParseRouteState(u)
<1>1. u \in Routes /\ (u.slice # "custom" => u.range = NoDay)
  BY DEF Written, SerializeRouteState, Routes
<1>2. r \in Routes
  BY <1>1, ParsedRoute
<1>3. [r EXCEPT !.range = u.range] = u
  BY <1>1 DEF ParseRouteState, Routes
<1>4. u.range # NoDay => r.range = u.range
  BY <1>1 DEF ParseRouteState, Routes, RangeOf
<1> QED BY <1>2, <1>3, <1>4 DEF Written

(* An address written from a route tells it.                               *)
Tells(u, r) == /\ SerializeRouteState([r EXCEPT !.range = u.range]) = u
               /\ u.range # NoDay => r.range = u.range

LEMMA SerializedTells ==
  ASSUME NEW r \in Routes
  PROVE  Tells(SerializeRouteState(r), r)
<1>1. CASE r.slice = "custom"
  BY <1>1 DEF Tells, SerializeRouteState, Routes
<1>2. CASE r.slice # "custom"
  BY <1>2 DEF Tells, SerializeRouteState, Routes
<1> QED BY <1>1, <1>2

(* Reconciling changes page and comparison only, and one that would not    *)
(* change the address changes nothing.                                     *)
LEMMA CatalogPages ==
  ASSUME NEW known \in {Listed, <<>>}
  PROVE  /\ ToSet(known) \subseteq Pages /\ NoPage \notin ToSet(known)
         /\ known # <<>> => known[1] \in ToSet(known)
<1>1. known \in Seq(Pages)
  <2>1. Listed \in Seq(Pages) /\ <<>> \in Seq(Pages)
    BY ShellConstants
  <2> QED BY <2>1
<1>2. ToSet(known) \subseteq Pages
  BY <1>1 DEF ToSet
<1>3. ASSUME known # <<>> PROVE known[1] \in ToSet(known)
  <2>1. Len(known) # 0
    BY <1>1, <1>3
  <2>2. 1 \in DOMAIN known
    BY <1>1, <2>1
  <2> QED BY <2>2 DEF ToSet
<1> QED BY <1>2, <1>3, ShellConstants

LEMMA ReconciledTyped ==
  ASSUME NEW known \in {Listed, <<>>}, NEW r \in Routes
  PROVE  /\ Reconcile(r, known) \in Routes
         /\ Fits(Reconcile(r, known), known)
         /\ Fits(r, known) => Reconcile(r, known) = r
         /\ SerializeRouteState(Reconcile(r, known)) = SerializeRouteState(r)
              => Reconcile(r, known) = r
<1> DEFINE page == IF r.page \in ToSet(known) THEN r.page
                   ELSE IF known = <<>> THEN NoPage ELSE known[1]
           next == Reconcile(r, known)
<1>1. page \in Pages \cup {NoPage}
  BY CatalogPages
<1>2. page \in ToSet(known) \cup {NoPage} /\ (known # <<>> => page # NoPage)
  BY CatalogPages
<1>3. Fits(r, known) => page = r.page
  <2>1. CASE r.page \in ToSet(known)
    BY <2>1
  <2>2. CASE known = <<>>
    BY <2>2 DEF Fits, ToSet
  <2> QED BY <2>1, <2>2 DEF Fits
<1>4. next = [r EXCEPT !.page = page, !.compare = r.compare \cap ToSet(known)]
  BY DEF Reconcile
<1> HIDE DEF page
<1>5. next \in Routes
  BY <1>1, <1>4 DEF Routes
<1>6. next.page = page /\ next.compare = r.compare \cap ToSet(known)
  BY <1>4 DEF Routes
<1>7. Fits(next, known)
  BY <1>2, <1>6 DEF Fits
<1>8. page = r.page /\ r.compare \cap ToSet(known) = r.compare => next = r
  BY <1>4 DEF Routes
<1>9. Fits(r, known) => next = r
  BY <1>3, <1>8 DEF Fits
<1>10. SerializeRouteState(next) = SerializeRouteState(r) => next.page = r.page /\ next.compare = r.compare
  BY <1>5 DEF SerializeRouteState, Routes
<1> HIDE DEF next
<1> QED BY <1>5, <1>6, <1>7, <1>8, <1>9, <1>10 DEF next

LEMMA ComparisonFits ==
  ASSUME NEW chosen, NEW known
  PROVE  NormalizeComparePageIds(chosen, known) \subseteq ToSet(known)
BY DEF NormalizeComparePageIds, ToSet

------------------------------------------------------------------------------
(* The route and the catalog.                                              *)

(* A link names another view and nothing else.                             *)
LEMMA LinkKeepsFilters ==
  ASSUME FitInv, boot = "ready", NEW v \in Views
  PROVE  /\ Reconcile(MergeRouteSearch(v), pages) = [route EXCEPT !.view = v]
         /\ [route EXCEPT !.view = v] \in Routes
         /\ Fits([route EXCEPT !.view = v], pages)
<1>1. route \in Routes /\ pages \in {Listed, <<>>} /\ Fits(route, pages)
  BY DEF FitInv
<1>2. [route EXCEPT !.view = v] \in Routes
  BY <1>1 DEF Routes
<1>3. Fits([route EXCEPT !.view = v], pages)
  BY <1>1 DEF Fits, Routes
<1>4. PICK known \in {Listed, <<>>} : known = pages
  BY <1>1
<1>5. Reconcile([route EXCEPT !.view = v], known) = [route EXCEPT !.view = v]
  BY <1>2, <1>3, <1>4, ReconciledTyped
<1> QED BY <1>2, <1>3, <1>4, <1>5 DEF MergeRouteSearch

(* What the forms of the two dashboards send.                              *)
LEMMA FormRoute ==
  ASSUME FitInv, boot = "ready", NEW f, f.page \in ToSet(pages) \/ f.page = route.page,
         f.slice \in Slices, f.range \in Days \cup {NoDay}, f.snapshot \in Snapshots,
         f.rest \in Rest
  PROVE  /\ ApplyBusinessFilters(route, f) \in Routes
         /\ Fits(ApplyBusinessFilters(route, f), pages)
<1>1. /\ route \in Routes /\ pages \in {Listed, <<>>} /\ Fits(route, pages)
      /\ today \in 2 .. LastDay
  BY DEF FitInv
<1>2. RangeOf(f.slice, f.range) \in Days \cup {NoDay}
  BY <1>1, RangeTyped
<1>3. PICK range \in Days \cup {NoDay} : range = RangeOf(f.slice, f.range)
  BY <1>2
<1>4. f.page \in Pages \cup {NoPage} /\ f.page \in ToSet(pages) \cup {NoPage}
      /\ (pages # <<>> => f.page # NoPage)
  BY <1>1, CatalogPages DEF Fits, Routes
<1>5. ApplyBusinessFilters(route, f) =
        [route EXCEPT !.page = f.page, !.slice = f.slice, !.range = range,
                      !.snapshot = f.snapshot, !.rest = f.rest]
  BY <1>3 DEF ApplyBusinessFilters
<1>6. ApplyBusinessFilters(route, f) \in Routes
  BY <1>1, <1>4, <1>5 DEF Routes
<1>7. /\ ApplyBusinessFilters(route, f).page = f.page
      /\ ApplyBusinessFilters(route, f).compare = route.compare
  BY <1>1, <1>5 DEF Routes
<1> QED BY <1>1, <1>4, <1>6, <1>7 DEF Fits

(* Every step keeps the route fitted to the catalog.                       *)
LEMMA InitFitInv == Init => FitInv
<1> SUFFICES ASSUME Init PROVE FitInv
  OBVIOUS
<1>1. today \in 2 .. LastDay /\ url \in Routes
  BY ShellConstants DEF Init
<1>2. route \in Routes
  BY <1>1, ParsedRoute DEF Init
<1> QED BY <1>1, <1>2 DEF Init, FitInv

LEMMA CatalogFit ==
  ASSUME FitInv, NEW i \in Loads, CatalogArrives(i)
  PROVE  FitInv'
<1>1. PICK known \in {Listed, <<>>} : known = pages'
  BY DEF CatalogArrives
<1>2. route' = Reconcile(route, known) /\ route \in Routes /\ UNCHANGED <<today, past>>
  BY <1>1 DEF CatalogArrives, FitInv, Replace
<1>3. route' \in Routes /\ Fits(route', known)
  BY <1>2, ReconciledTyped
<1>4. url' \in Routes
  BY <1>3, SerializedTyped DEF CatalogArrives, Replace, Written, FitInv
<1> QED BY <1>1, <1>2, <1>3, <1>4 DEF FitInv

LEMMA NavigateFit ==
  ASSUME FitInv, NEW i \in Loads, NEW v \in Views, Navigate(i, v)
  PROVE  FitInv' /\ route' = [route EXCEPT !.view = v]
<1>1. /\ boot = "ready" /\ UNCHANGED <<today, pages>>
      /\ route' = Reconcile(MergeRouteSearch(v), pages)
      /\ url' = SerializeRouteState(route') /\ past' = Append(past, url)
  BY DEF Navigate, Push
<1>2. route' = [route EXCEPT !.view = v] /\ route' \in Routes /\ Fits(route', pages)
  BY <1>1, LinkKeepsFilters
<1>3. url' \in Routes
  BY <1>1, <1>2, SerializedTyped DEF Written
<1>4. past' \in Seq(Routes)
  BY <1>1 DEF FitInv
<1> QED BY <1>1, <1>2, <1>3, <1>4 DEF FitInv

LEMMA FiltersFit ==
  ASSUME FitInv, NEW i \in Loads, ChooseFilters(i)
  PROVE  FitInv'
<1>1. PICK f \in [page : IF pages = <<>> THEN {route.page} ELSE ToSet(pages), slice : Slices,
                  range : IF route.slice = "custom" THEN Entered ELSE {route.range},
                  snapshot : Snapshots, rest : Rest] :
        route' = ApplyBusinessFilters(route, f)
  BY DEF ChooseFilters
<1>2. boot = "ready" /\ UNCHANGED <<today, pages, past>> /\ url' = SerializeRouteState(route')
  BY DEF ChooseFilters, Replace
<1>3. /\ f.page \in ToSet(pages) \/ f.page = route.page
      /\ f.slice \in Slices /\ f.snapshot \in Snapshots /\ f.rest \in Rest
  BY <1>1
<1>4. f.range \in Days \cup {NoDay}
  BY <1>1, ShellConstants DEF Routes, FitInv
<1>5. route' \in Routes /\ Fits(route', pages)
  BY <1>1, <1>2, <1>3, <1>4, FormRoute
<1> QED BY <1>2, <1>5, SerializedTyped DEF FitInv, Written

LEMMA ComparisonFit ==
  ASSUME FitInv, NEW i \in Loads, ChooseComparison(i)
  PROVE  FitInv'
<1>1. PICK chosen \in SUBSET ToSet(pages), slice \in Slices, snapshot \in Snapshots,
           range \in IF route.slice = "custom" THEN Entered ELSE {route.range} :
        route' = [ApplyBusinessFilters(route, [page |-> route.page, slice |-> slice,
                    range |-> range, snapshot |-> snapshot, rest |-> route.rest])
                  EXCEPT !.compare = NormalizeComparePageIds(chosen, pages)]
  BY DEF ChooseComparison
<1>2. boot = "ready" /\ UNCHANGED <<today, pages, past>> /\ url' = SerializeRouteState(route')
  BY DEF ChooseComparison, Replace
<1>3. route \in Routes /\ pages \in {Listed, <<>>}
  BY DEF FitInv
<1>4. PICK f : f = [page |-> route.page, slice |-> slice, range |-> range,
                    snapshot |-> snapshot, rest |-> route.rest]
  OBVIOUS
<1>5. /\ f.page = route.page /\ f.slice \in Slices /\ f.snapshot \in Snapshots
      /\ f.rest \in Rest /\ f.range = range
  BY <1>3, <1>4 DEF Routes
<1>6. f.range \in Days \cup {NoDay}
  BY <1>3, <1>5, ShellConstants DEF Routes
<1>7. PICK r : r = ApplyBusinessFilters(route, f)
  OBVIOUS
<1>8. r \in Routes /\ Fits(r, pages)
  BY <1>2, <1>5, <1>6, <1>7, FormRoute
<1>9. PICK compare : compare = NormalizeComparePageIds(chosen, pages)
  OBVIOUS
<1>10. compare \subseteq ToSet(pages) /\ compare \subseteq Pages
  BY <1>3, <1>9, ComparisonFits, CatalogPages
<1>11. route' = [r EXCEPT !.compare = compare]
  BY <1>1, <1>4, <1>7, <1>9
<1>12. route' \in Routes /\ route'.page = r.page /\ route'.compare = compare
  BY <1>8, <1>10, <1>11 DEF Routes
<1>13. Fits(route', pages)
  BY <1>8, <1>10, <1>12 DEF Fits
<1> QED BY <1>2, <1>12, <1>13, SerializedTyped DEF FitInv, Written

LEMMA BackFit ==
  ASSUME FitInv, NEW i \in Loads, Back(i)
  PROVE  FitInv'
<1>1. PICK there : there = past[Len(past)]
  OBVIOUS
<1>2. PICK parsed : parsed = ParseRouteState(there)
  OBVIOUS
<1>3. /\ UNCHANGED <<today, pages>> /\ past # <<>> /\ route' = Reconcile(parsed, pages)
      /\ url' \in {SerializeRouteState(route'), there}
      /\ past' = SubSeq(past, 1, Len(past) - 1)
  BY <1>1, <1>2 DEF Back
<1>4. past \in Seq(Routes) /\ today \in 2 .. LastDay
  BY DEF FitInv
<1>5. Len(past) \in Nat /\ Len(past) # 0
  BY <1>3, <1>4
<1>6. there \in Routes /\ past' \in Seq(Routes)
  BY <1>1, <1>3, <1>4, <1>5
<1>7. parsed \in Routes
  BY <1>2, <1>4, <1>6, ParsedRoute
<1>8. PICK known \in {Listed, <<>>} : known = pages
  BY DEF FitInv
<1>9. route' \in Routes /\ Fits(route', pages)
  BY <1>3, <1>7, <1>8, ReconciledTyped
<1> QED BY <1>3, <1>6, <1>9, SerializedTyped DEF FitInv, Written

LEMMA FitInvStep == FitInv /\ [Next]_vars => FitInv'
<1> SUFFICES ASSUME FitInv, [Next]_vars PROVE FitInv'
  OBVIOUS
<1>1. CASE UNCHANGED vars
  BY <1>1 DEF FitInv, vars, routeVars
<1>2. CASE Midnight
  BY <1>2, ShellConstants DEF FitInv, Midnight, routeVars
<1>3. CASE CatalogFails
  BY <1>3 DEF FitInv, CatalogFails, routeVars
<1>4. ASSUME NEW i \in Loads,
             Reload(i) \/ ViewArrives(i) \/ PagesArrive(i) \/ HealthArrives(i) \/ LoadFails(i)
      PROVE  FitInv'
  BY <1>4 DEF FitInv, Reload, ViewArrives, PagesArrive, HealthArrives, LoadFails, routeVars
<1> QED BY <1>1, <1>2, <1>3, <1>4, CatalogFit, NavigateFit, FiltersFit, ComparisonFit,
           BackFit DEF Next

(* No click on a link changes a filter: a link names another view, and the *)
(* rest of the route fits the catalog already.                             *)
THEOREM FiltersStay == Spec => FiltersPersist
<1> DEFINE Kept == Len(past') > Len(past) => route' = [route EXCEPT !.view = route'.view]
<1>1. FitInv /\ [Next]_vars => Kept
  <2> SUFFICES ASSUME FitInv, [Next]_vars, Len(past') > Len(past)
               PROVE  route' = [route EXCEPT !.view = route'.view]
    OBVIOUS
  <2>1. past \in Seq(Routes) /\ Len(past) \in Nat
    BY DEF FitInv
  <2>2. \A i \in Loads : ~Back(i)
    BY <2>1 DEF Back
  <2>3. past' # past
    BY <2>1
  <2>4. PICK i \in Loads, v \in Views : Navigate(i, v)
    BY <2>2, <2>3 DEF Next, vars, routeVars, Midnight, CatalogFails, CatalogArrives,
       ChooseFilters, ChooseComparison, Replace, Reload, ViewArrives, PagesArrive,
       HealthArrives, LoadFails
  <2>5. route' = [route EXCEPT !.view = v] /\ route \in Routes
    BY <2>4, NavigateFit DEF FitInv
  <2> QED BY <2>5 DEF Routes
<1> QED BY <1>1, InitFitInv, FitInvStep, PTL DEF Spec, FiltersPersist

------------------------------------------------------------------------------
(* The route and its address.                                              *)
LEMMA InitRouteInv == AddressesWritten /\ Init => RouteInv
<1> SUFFICES ASSUME AddressesWritten, Init PROVE RouteInv
  OBVIOUS
<1>1. today \in 2 .. LastDay
  BY ShellConstants DEF Init
<1>2. Written(url) /\ route = ParseRouteState(url)
  BY DEF Init, AddressesWritten
<1>3. /\ route \in Routes
      /\ SerializeRouteState([route EXCEPT !.range = url.range]) = url
      /\ url.range # NoDay => route.range = url.range
  BY <1>1, <1>2, ParsedTyped
<1>4. boot = "waiting" /\ pages = <<>> /\ past = <<>>
  BY DEF Init
<1> QED BY <1>1, <1>2, <1>3, <1>4 DEF RouteInv, ShellTypes, UrlTellsTheRoute

(* A step that leaves the route alone.                                     *)
LEMMA RouteStays ==
  ASSUME RouteInv, today' \in 2 .. LastDay, UNCHANGED <<routeVars, pages>>,
         boot' \in {boot, "dead"}
  PROVE  RouteInv'
BY DEF RouteInv, ShellTypes, UrlTellsTheRoute, routeVars, Written

(* A step that gives the application another route, and an address that    *)
(* tells it.                                                               *)
LEMMA RouteMoves ==
  ASSUME RouteInv, UNCHANGED <<today, pages>>, boot' = "ready",
         route' \in Routes, Written(url'), Tells(url', route'), Fits(route', pages),
         \/ UNCHANGED past
         \/ past' = Append(past, url)
         \/ past # <<>> /\ past' = SubSeq(past, 1, Len(past) - 1)
  PROVE  RouteInv'
<1>1. past \in Seq(Routes) /\ (\A i \in DOMAIN past : Written(past[i])) /\ Written(url)
  BY DEF RouteInv, ShellTypes
<1>2. past' \in Seq(Routes) /\ \A i \in DOMAIN past' : Written(past'[i])
  <2>1. CASE UNCHANGED past
    BY <1>1, <2>1
  <2>2. CASE past' = Append(past, url)
    <3>1. url \in Routes
      BY <1>1 DEF Written
    <3> QED BY <1>1, <2>2, <3>1
  <2>3. CASE past # <<>> /\ past' = SubSeq(past, 1, Len(past) - 1)
    <3>1. Len(past) \in Nat /\ Len(past) # 0
      BY <1>1, <2>3
    <3>2. /\ DOMAIN past' = 1 .. (Len(past) - 1)
          /\ \A i \in DOMAIN past' : past'[i] = past[i] /\ i \in DOMAIN past
      BY <1>1, <2>3, <3>1
    <3>3. past' \in Seq(Routes)
      BY <1>1, <2>3, <3>1
    <3> QED BY <1>1, <3>2, <3>3
  <2> QED BY <2>1, <2>2, <2>3
<1>3. ShellTypes'
  BY <1>2 DEF RouteInv, ShellTypes, Written
<1>4. UrlTellsTheRoute'
  BY DEF UrlTellsTheRoute, Tells, Fits
<1> QED BY <1>3, <1>4 DEF RouteInv

LEMMA RouteFits == RouteInv => FitInv
BY DEF RouteInv, ShellTypes, UrlTellsTheRoute, Written, FitInv, Fits

LEMMA CatalogStep ==
  ASSUME RouteInv, NEW i \in Loads, CatalogArrives(i)
  PROVE  RouteInv'
<1>1. /\ boot' = "ready" /\ pages' \in {Listed, <<>>} /\ route' = Reconcile(route, pages')
      /\ UNCHANGED today
  BY DEF CatalogArrives
<1>2. route \in Routes /\ Written(url) /\ Tells(url, route)
  BY DEF RouteInv, ShellTypes, UrlTellsTheRoute, Tells
<1>3. PICK known \in {Listed, <<>>} : known = pages'
  BY <1>1
<1>4. route' \in Routes /\ Fits(route', pages')
  BY <1>1, <1>2, <1>3, ReconciledTyped
<1>5. Written(url') /\ Tells(url', route') /\ UNCHANGED past
  <2>1. CASE SerializeRouteState(route') # SerializeRouteState(route)
    <3>1. url' = SerializeRouteState(route') /\ UNCHANGED past
      BY <2>1 DEF CatalogArrives, Replace
    <3> QED BY <1>4, <3>1, SerializedTyped, SerializedTells
  <2>2. CASE SerializeRouteState(route') = SerializeRouteState(route)
    <3>1. UNCHANGED <<url, past>>
      BY <2>2 DEF CatalogArrives
    <3>2. route' = route
      BY <1>1, <1>2, <1>3, <2>2, ReconciledTyped
    <3> QED BY <1>2, <3>1, <3>2
  <2> QED BY <2>1, <2>2
<1>6. ShellTypes'
  BY <1>1, <1>4, <1>5 DEF RouteInv, ShellTypes, Written
<1>7. UrlTellsTheRoute'
  BY <1>4, <1>5 DEF UrlTellsTheRoute, Tells, Fits
<1> QED BY <1>6, <1>7 DEF RouteInv

(* A link or a form writes the address anew.                               *)
LEMMA WrittenStep ==
  ASSUME RouteInv, NEW i \in Loads,
         (\E v \in Views : Navigate(i, v)) \/ ChooseFilters(i) \/ ChooseComparison(i)
  PROVE  RouteInv'
<1>1. /\ boot' = "ready" /\ UNCHANGED <<today, pages>> /\ url' = SerializeRouteState(route')
      /\ UNCHANGED past \/ past' = Append(past, url)
  BY DEF Navigate, ChooseFilters, ChooseComparison, Replace, Push
<1>2. route' \in Routes /\ Fits(route', pages)
  BY <1>1, RouteFits, NavigateFit, FiltersFit, ComparisonFit DEF FitInv
<1> QED BY <1>1, <1>2, SerializedTyped, SerializedTells, RouteMoves

LEMMA BackStep ==
  ASSUME RouteInv, NEW i \in Loads, Back(i)
  PROVE  RouteInv'
<1>1. PICK there : there = past[Len(past)]
  OBVIOUS
<1>2. PICK parsed : parsed = ParseRouteState(there)
  OBVIOUS
<1>3. /\ boot = "ready" /\ boot' = "ready" /\ UNCHANGED <<today, pages>> /\ past # <<>>
      /\ route' = Reconcile(parsed, pages)
      /\ url' = IF SerializeRouteState(route') # SerializeRouteState(parsed)
                THEN SerializeRouteState(route') ELSE there
      /\ past' = SubSeq(past, 1, Len(past) - 1)
  BY <1>1, <1>2 DEF Back
<1>4. past \in Seq(Routes) /\ (\A j \in DOMAIN past : Written(past[j]))
      /\ today \in 2 .. LastDay /\ pages \in {Listed, <<>>}
  BY DEF RouteInv, ShellTypes
<1>5. Len(past) \in DOMAIN past
  <2>1. Len(past) \in Nat /\ Len(past) # 0
    BY <1>3, <1>4
  <2> QED BY <1>4, <2>1
<1>6. Written(there)
  BY <1>1, <1>4, <1>5
<1>7. parsed \in Routes /\ Tells(there, parsed)
  BY <1>2, <1>4, <1>6, ParsedTyped DEF Tells
<1>8. PICK known \in {Listed, <<>>} : known = pages
  BY <1>4
<1>9. route' \in Routes /\ Fits(route', pages)
  BY <1>3, <1>7, <1>8, ReconciledTyped
<1>10. Written(url') /\ Tells(url', route')
  <2>1. CASE SerializeRouteState(route') # SerializeRouteState(parsed)
    BY <1>3, <1>9, <2>1, SerializedTyped, SerializedTells
  <2>2. CASE SerializeRouteState(route') = SerializeRouteState(parsed)
    <3>1. route' = parsed
      BY <1>3, <1>7, <1>8, <2>2, ReconciledTyped
    <3> QED BY <1>3, <1>6, <1>7, <2>2, <3>1
  <2> QED BY <2>1, <2>2
<1> QED BY <1>3, <1>9, <1>10, RouteMoves

LEMMA RouteInvStep == RouteInv /\ [Next]_vars => RouteInv'
<1> SUFFICES ASSUME RouteInv, [Next]_vars PROVE RouteInv'
  OBVIOUS
<1>1. today \in 2 .. LastDay /\ LastDay \in Nat
  BY ShellConstants DEF RouteInv, ShellTypes
<1>2. CASE UNCHANGED vars
  BY <1>1, <1>2, RouteStays DEF vars
<1>3. CASE Midnight
  BY <1>1, <1>3, RouteStays DEF Midnight
<1>4. CASE CatalogFails
  BY <1>1, <1>4, RouteStays DEF CatalogFails
<1>5. ASSUME NEW i \in Loads,
             Reload(i) \/ ViewArrives(i) \/ PagesArrive(i) \/ HealthArrives(i) \/ LoadFails(i)
      PROVE  RouteInv'
  BY <1>1, <1>5, RouteStays DEF Reload, ViewArrives, PagesArrive, HealthArrives, LoadFails
<1> QED BY <1>2, <1>3, <1>4, <1>5, CatalogStep, WrittenStep, BackStep DEF Next

(* The route, its address and the catalog agree, whatever the operator     *)
(* clicks, enters or goes back to, from any address the application wrote. *)
THEOREM UrlIsTrue == AddressesWritten => (Spec => []UrlTellsTheRoute)
<1> SUFFICES ASSUME AddressesWritten PROVE Spec => []UrlTellsTheRoute
  OBVIOUS
<1>1. Init => RouteInv
  BY InitRouteInv
<1>2. RouteInv => UrlTellsTheRoute
  BY DEF RouteInv
<1> QED BY <1>1, <1>2, RouteInvStep, PTL DEF Spec


------------------------------------------------------------------------------
(* The view, and the loads in flight.                                      *)

(* What the screens of the control plane are asked for is what they show.  *)
LEMMA ControlRequest ==
  ASSUME NEW r, NEW known, r.view \in Control
  PROVE  ControlScreen(r.view) = Request(r, known)
BY DEF ControlScreen, Request, Control

(* The last load begun makes good for its route, whatever the others were  *)
(* begun for: they are all behind it.                                      *)
LEMMA BegunLoad ==
  ASSUME LoadInv, NEW i \in Loads, Begin(i, route', pages'), boot' = "ready"
  PROVE  LoadInv'
<1>1. \A j \in Loads \ behind' : j # i => load[j] = Idle
  BY DEF Begin
<1>2. Idle.stage = "idle"
  BY DEF Idle
<1>3. load[i] = Idle /\ load = [j \in Loads |-> load[j]]
  BY DEF Begin, LoadInv
<1>4. LoadCurrentView(i, route', pages')
  BY DEF Begin
<1>5. ASSUME html' = ToShow', UNCHANGED load PROVE LoadInv'
  <2>1. \A j \in Loads \ behind' : load'[j] = Idle
    BY <1>1, <1>3, <1>5
  <2> QED BY <1>3, <1>5, <2>1 DEF LoadInv, LoadTrue
<1>6. ASSUME NEW stage, NEW of, Asks(i, stage, of), stage # "idle",
             \/ /\ stage = "view" /\ route'.view \notin Control /\ route'.page # NoPage
                /\ of = Request(route', pages')
             \/ stage = "pages" /\ route'.view \in Control
             \/ stage = "health" /\ route'.view = "operations"
      PROVE  LoadInv'
  <2>1. PICK l : l = [stage |-> stage, of |-> of]
    OBVIOUS
  <2>2. load' = [load EXCEPT ![i] = l]
    BY <1>6, <2>1 DEF Asks, Waits
  <2>3. load'[i] = l /\ load' = [j \in Loads |-> load'[j]]
    BY <1>3, <2>2
  <2>4. l.stage = stage /\ l.of = of /\ l # Idle
    BY <1>2, <1>6, <2>1
  <2>5. LoadTrue(l)'
    BY <1>6, <2>4 DEF LoadTrue
  <2>6. \A j \in Loads \ behind' : j # i => load'[j] = Idle
    BY <1>1, <1>3, <2>2
  <2>7. i \notin behind'
    BY <1>3 DEF Begin
  <2> QED BY <2>3, <2>4, <2>5, <2>6, <2>7 DEF LoadInv, LoadTrue
<1>7. CASE route'.view \notin Control /\ route'.page = NoPage
  BY <1>4, <1>5, <1>7 DEF LoadCurrentView, Control, ToShow, Shows
<1>8. CASE route'.view \notin Control /\ route'.page # NoPage
  BY <1>4, <1>6, <1>8 DEF LoadCurrentView
<1>9. CASE route'.view \in Control /\ ~connected
  BY <1>4, <1>6, <1>9 DEF LoadCurrentView
<1>10. CASE route'.view = "operations" /\ connected
  BY <1>4, <1>6, <1>10 DEF LoadCurrentView, Control
<1>11. CASE route'.view \in Control \ {"operations"} /\ connected
  <2>1. html' = ControlScreen(route'.view) /\ UNCHANGED load
    BY <1>4, <1>11 DEF LoadCurrentView, Shows
  <2>2. html' = Request(route', pages')
    BY <1>11, <2>1, ControlRequest
  <2> QED BY <1>5, <1>11, <2>1, <2>2 DEF ToShow
<1> QED BY <1>7, <1>8, <1>9, <1>10, <1>11

(* A load ends with the view of the route, behind another, or in error.    *)
LEMMA EndedLoad ==
  ASSUME LoadInv, NEW i \in Loads, Ends(i), UNCHANGED <<route, pages, boot>>,
         html' = ToShow \/ failed' = TRUE \/ overtaken' = TRUE
  PROVE  LoadInv'
<1>1. load' = [load EXCEPT ![i] = Idle] /\ load = [j \in Loads |-> load[j]]
  BY DEF Ends, LoadInv
<1>2. /\ load' = [j \in Loads |-> load'[j]]
      /\ \A j \in Loads \ behind' : load'[j] = Idle \/ (j \notin behind /\ load'[j] = load[j])
  BY <1>1 DEF Ends
<1>3. UNCHANGED ToShow
  BY DEF ToShow
<1> QED BY <1>2, <1>3 DEF LoadInv, LoadTrue

LEMMA AnsweredLoad ==
  ASSUME LoadInv, NEW i \in Loads,
         ViewArrives(i) \/ PagesArrive(i) \/ HealthArrives(i) \/ LoadFails(i)
  PROVE  LoadInv'
<1>1. /\ UNCHANGED <<route, pages, boot>> /\ load = [j \in Loads |-> load[j]]
      /\ i \notin behind => LoadTrue(load[i])
  BY DEF ViewArrives, PagesArrive, HealthArrives, LoadFails, routeVars, LoadInv
<1>2. Idle.stage = "idle"
  BY DEF Idle
<1>3. CASE ViewArrives(i)
  <2>1. i \notin behind =>
          html' = Request(route, pages) /\ route.view \notin Control /\ route.page # NoPage
    BY <1>1, <1>2, <1>3 DEF ViewArrives, LoadTrue, Shows
  <2>2. i \in behind => overtaken' = TRUE
    BY <1>3 DEF ViewArrives, Shows
  <2> QED BY <1>1, <1>3, <2>1, <2>2, EndedLoad DEF ViewArrives, ToShow
<1>4. CASE HealthArrives(i)
  <2>1. i \notin behind => html' = ControlScreen(route.view) /\ route.view \in Control
    BY <1>1, <1>2, <1>4 DEF HealthArrives, LoadTrue, Shows, Control
  <2>2. i \in behind => overtaken' = TRUE
    BY <1>4 DEF HealthArrives, Shows
  <2> QED BY <1>1, <1>4, <2>1, <2>2, ControlRequest, EndedLoad DEF HealthArrives, ToShow
<1>5. CASE PagesArrive(i)
  <2>1. i \notin behind => route.view \in Control /\ boot = "ready"
    BY <1>1, <1>2, <1>5 DEF PagesArrive, LoadTrue
  <2>2. CASE route.view = "operations"
    <3>1. PICK l : l = [stage |-> "health", of |-> NoView]
      OBVIOUS
    <3>2. /\ load' = [load EXCEPT ![i] = l] /\ l.stage = "health" /\ l # Idle
          /\ UNCHANGED <<html, failed, behind, overtaken>>
      BY <1>2, <1>5, <2>2, <3>1 DEF PagesArrive, Waits
    <3>3. load'[i] = l /\ load' = [j \in Loads |-> load'[j]]
          /\ \A j \in Loads : j # i => load'[j] = load[j]
      BY <1>1, <3>2
    <3>4. i \notin behind => LoadTrue(l)'
      BY <1>1, <2>1, <2>2, <3>2 DEF LoadTrue
    <3>5. ASSUME NEW j \in Loads \ behind' PROVE LoadTrue(load[j])'
      <4>1. CASE j = i
        BY <3>2, <3>3, <3>4, <4>1 DEF LoadTrue
      <4>2. CASE j # i
        <5>1. load'[j] = load[j] /\ LoadTrue(load[j])
          BY <3>2, <3>3, <4>2 DEF LoadInv
        <5> QED BY <1>1, <5>1 DEF LoadTrue
      <4> QED BY <4>1, <4>2
    <3>6. UNCHANGED ToShow
      BY <1>1 DEF ToShow
    <3>7. (\A j \in Loads \ behind' : load'[j] = Idle) => i \in behind /\
             \A j \in Loads \ behind : load[j] = Idle
      BY <3>2, <3>3
    <3> QED BY <1>1, <3>2, <3>3, <3>5, <3>6, <3>7 DEF LoadInv
  <2>3. CASE route.view # "operations"
    <3>1. Ends(i) /\ html' = ControlScreen(route.view) /\ (i \in behind => overtaken' = TRUE)
      BY <1>5, <2>3 DEF PagesArrive, Shows
    <3> QED BY <1>1, <2>1, <3>1, ControlRequest, EndedLoad DEF ToShow
  <2> QED BY <2>2, <2>3
<1>6. CASE LoadFails(i)
  BY <1>1, <1>6, EndedLoad DEF LoadFails
<1> QED BY <1>3, <1>4, <1>5, <1>6

LEMMA LoadInvStep == LoadInv /\ [Next]_vars => LoadInv'
<1> SUFFICES ASSUME LoadInv, [Next]_vars PROVE LoadInv'
  OBVIOUS
<1>1. ASSUME UNCHANGED <<route, pages, viewVars>>, boot' = boot \/ (boot = "waiting" /\ boot' = "dead")
      PROVE  LoadInv'
  BY <1>1 DEF LoadInv, LoadTrue, ToShow, viewVars, auxVars
<1>2. CASE UNCHANGED vars \/ Midnight
  BY <1>1, <1>2 DEF vars, Midnight, routeVars
<1>3. CASE CatalogFails
  <2>1. /\ UNCHANGED <<route, pages, viewVars>> /\ boot = "waiting" /\ boot' = "dead"
    BY <1>3 DEF CatalogFails, routeVars
  <2> QED BY <1>1, <2>1
<1>4. ASSUME NEW i \in Loads,
             \/ CatalogArrives(i) \/ ChooseFilters(i) \/ ChooseComparison(i) \/ Back(i)
             \/ Reload(i) \/ \E v \in Views : Navigate(i, v)
      PROVE  LoadInv'
  <2>1. Begin(i, route', pages') /\ boot' = "ready"
    BY <1>4 DEF CatalogArrives, ChooseFilters, ChooseComparison, Back, Reload, Navigate, routeVars
  <2> QED BY <2>1, BegunLoad
<1> QED BY <1>2, <1>3, <1>4, AnsweredLoad DEF Next

(* However many loads are in flight at a time: when none is left and the   *)
(* last did not fail, the view on the screen is the one of the route,      *)
(* unless the answer of an earlier load came after that of the last one.   *)
THEOREM ScreenIsTrue == Spec => []ShownUnlessOvertaken
<1>1. Init => LoadInv
  BY DEF Init, LoadInv, LoadTrue
<1>2. LoadInv => ShownUnlessOvertaken
  BY DEF LoadInv, ShownUnlessOvertaken, ToShow
<1> QED BY <1>1, <1>2, LoadInvStep, PTL DEF Spec
=============================================================================
