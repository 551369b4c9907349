-------------------------------- MODULE Shell --------------------------------
(***************************************************************************)
(* The shell of the operator frontend (FrontendApp, app/query-state): the  *)
(* route, the address it is written to, and the view that is loaded for    *)
(* it.                                                                     *)
(*                                                                         *)
(* A click, a filter or the back button changes the route at once and      *)
(* starts to load its view; nothing is locked or cancelled meanwhile, so   *)
(* the next one may come before the answer.  The screens of the control    *)
(* plane make several calls one after the other and look at the route      *)
(* again between them.                                                     *)
(*                                                                         *)
(* "overview" stands for the views of one page, "yesterday" for the        *)
(* presets, a range is named by its last day, and rest is any one of the   *)
(* remaining filters.  The tabs of a view, and the thread of the history,  *)
(* are left out.                                                           *)
(***************************************************************************)
EXTENDS Naturals, Sequences, SequencesExt, FiniteSets

CONSTANTS Pages,     \* page ids that an address may name
          Listed,    \* the catalog: a sequence of pages, in the order it lists them
          Snapshots, \* what the snapshot filter offers
          Addresses, \* addresses the operator may open the application with
          Loads,     \* bound: view loads in flight at a time
          LastDay,   \* bound: days are 1 .. LastDay
          MaxPast,   \* bound: pages of the browser's history
          Entered,   \* bound: what the operator enters as days, or NoDay to clear them
          NoPage, NoDay

Days == 1 .. LastDay
Control == {"operations", "configuration"}
Views == {"overview", "page-comparison"} \cup Control
Slices == {"yesterday", "custom"}
Rest == {"all", "some"}

Routes == [view : Views, page : Pages \cup {NoPage}, slice : Slices,
           range : Days \cup {NoDay}, snapshot : Snapshots, rest : Rest,
           compare : SUBSET Pages]

ASSUME ShellConstants ==
  /\ NoPage \notin Pages /\ NoDay \notin Days
  /\ Listed \in Seq(Pages)
  /\ Addresses \subseteq Routes
  /\ Entered \subseteq Days \cup {NoDay}
  /\ LastDay \in Nat /\ LastDay >= 2 /\ MaxPast \in Nat

VARIABLES
  today,     \* the day the browser's clock shows
  route,     \* FrontendApp.route
  url,       \* the address: a route in which a range that is not written is NoDay
  past,      \* the addresses behind it in the browser's history
  boot,      \* "waiting" for the catalog, "ready", or "dead" without it
  pages,     \* the pages of the catalog
  connected, \* whether the list of connected pages has been loaded and is not empty
  html,      \* currentViewHtml: what was asked for to get it
  load,      \* loads in flight
  failed,    \* whether the last load that ended did so with an error
  behind,    \* auxiliary: the loads in flight that are not the last one begun
  overtaken  \* auxiliary: whether, since that one began, an earlier load was the last shown

routeVars == <<route, url, past>>
auxVars == <<behind, overtaken>>
viewVars == <<html, load, failed, auxVars>>
vars == <<today, routeVars, boot, pages, connected, viewVars>>

------------------------------------------------------------------------------
(* Dates and addresses. *)
Yesterday == today - 1

(* What defaultDateRange gives for the slice. *)
RangeOf(slice, chosen) == IF slice = "custom" THEN chosen ELSE Yesterday

SerializeRouteState(r) == [r EXCEPT !.range = IF r.slice = "custom" THEN r.range ELSE NoDay]

ParseRouteState(u) ==
  [u EXCEPT !.range = RangeOf(u.slice, IF u.range = NoDay THEN Yesterday ELSE u.range)]

ApplyBusinessFilters(r, f) ==
  [r EXCEPT !.page = f.page, !.slice = f.slice, !.range = RangeOf(f.slice, f.range),
            !.snapshot = f.snapshot, !.rest = f.rest]

ReconcilePageOnly(r, known) ==  \* mutant: stale pages of the comparison stay
  [r EXCEPT !.page = IF r.page \in ToSet(known) THEN r.page
                     ELSE IF known = <<>> THEN NoPage ELSE known[1]]

(* reconcileRouteStateWithCatalog *)
Reconcile(r, known) ==
  [r EXCEPT !.page = IF r.page \in ToSet(known) THEN r.page
                     ELSE IF known = <<>> THEN NoPage ELSE known[1],
            !.compare = r.compare \cap ToSet(known)]

(* normalizeComparePageIds: two pages at least, as far as there are two. *)
NormalizeComparePageIds(chosen, known) ==
  LET valid == chosen \cap ToSet(known)
      others == {i \in DOMAIN known : known[i] \notin valid}
      first(n) == {i \in others : Cardinality({j \in others : j < i}) < n}
  IN IF Cardinality(valid) >= 2 \/ Len(known) < 2 THEN valid
     ELSE valid \cup {known[i] : i \in first(2 - Cardinality(valid))}

------------------------------------------------------------------------------
(* Loading a view. *)
NoView == [view |-> "none", pages |-> {}, range |-> NoDay, snapshot |-> "none", rest |-> "all"]
Screen(v) == [NoView EXCEPT !.view = v]

(* What is asked of the backend to show a route: a comparison is of its    *)
(* own pages, and of no filter but range and snapshot.                     *)
Request(r, known) ==
  CASE r.view \in Control -> Screen(r.view)
    [] r.view = "page-comparison" ->
         [view |-> r.view, pages |-> NormalizeComparePageIds(r.compare, known),
          range |-> r.range, snapshot |-> r.snapshot, rest |-> "all"]
    [] OTHER ->
         [view |-> r.view, pages |-> {r.page}, range |-> r.range,
          snapshot |-> r.snapshot, rest |-> r.rest]

(* What a screen of the control plane shows once its calls are answered:   *)
(* whatever is not the operations screen by then is taken for the other.   *)
ControlScreen(v) == Screen(IF v = "operations" THEN "operations" ELSE "configuration")

Idle == [stage |-> "idle", of |-> NoView]
Shows(view, late) == html' = view /\ failed' = FALSE /\ overtaken' = late
Waits(i, stage, of) ==
  /\ load' = [load EXCEPT ![i] = [stage |-> stage, of |-> of]]
  /\ UNCHANGED html
Asks(i, stage, of) == Waits(i, stage, of) /\ failed' = FALSE /\ overtaken' = FALSE
Ends(i) == load' = [load EXCEPT ![i] = Idle] /\ behind' = behind \ {i}

StaleLoad(i, r, known) ==  \* mutant: the view of the route before the click is loaded
  IF r.view \in Control \/ r.page = NoPage
  THEN Shows(Request(route, known), FALSE) /\ UNCHANGED load
  ELSE Asks(i, "view", Request(route, known))

(* loadCurrentView up to its first await.                                  *)
LoadCurrentView(i, r, known) ==
  CASE r.view \notin Control /\ r.page = NoPage ->
         Shows(Screen("no page"), FALSE) /\ UNCHANGED load
    [] r.view \notin Control /\ r.page # NoPage ->
         Asks(i, "view", Request(r, known))
    [] r.view \in Control /\ ~connected ->
         Asks(i, "pages", NoView)
    [] r.view = "operations" /\ connected ->
         Asks(i, "health", NoView)
    [] OTHER -> Shows(ControlScreen(r.view), FALSE) /\ UNCHANGED load

Begin(i, r, known) ==
  /\ load[i] = Idle
  /\ LoadCurrentView(i, r, known)
  /\ behind' = {j \in Loads : load[j] # Idle}

(* The answer for a view of the dashboard is shown whatever the route is   *)
(* by then, and whichever loads were begun since.                          *)
ViewArrives(i) ==
  /\ load[i].stage = "view"
  /\ Shows(load[i].of, i \in behind) /\ Ends(i)
  /\ UNCHANGED <<today, routeVars, boot, pages, connected>>

(* The connected pages: none may be there.  The route is looked at again.  *)
PagesArrive(i) ==
  /\ load[i].stage = "pages"
  /\ connected' \in BOOLEAN
  /\ IF route.view = "operations"
     THEN Waits(i, "health", NoView) /\ UNCHANGED <<failed, behind, overtaken>>
     ELSE Shows(ControlScreen(route.view), i \in behind) /\ Ends(i)
  /\ UNCHANGED <<today, routeVars, boot, pages>>

(* The health summary.  The route is looked at once more.                  *)
HealthArrives(i) ==
  /\ load[i].stage = "health"
  /\ Shows(ControlScreen(route.view), i \in behind) /\ Ends(i)
  /\ UNCHANGED <<today, routeVars, boot, pages, connected>>

(* A call that fails leaves the view as it was.                            *)
LoadFails(i) ==
  /\ load[i] # Idle
  /\ failed' = TRUE /\ Ends(i)
  /\ UNCHANGED <<today, routeVars, boot, pages, connected, html, overtaken>>

------------------------------------------------------------------------------
(* Changing the route. *)
Replace(r) == url' = SerializeRouteState(r) /\ UNCHANGED past
Push(r) == url' = SerializeRouteState(r) /\ past' = Append(past, url)

Init ==
  /\ today = 2
  /\ url \in Addresses
  /\ route = ParseRouteState(url)
  /\ past = <<>>
  /\ boot = "waiting" /\ pages = <<>> /\ connected = FALSE
  /\ html = NoView /\ load = [i \in Loads |-> Idle] /\ failed = FALSE
  /\ behind = {} /\ overtaken = FALSE

Midnight ==
  /\ today < LastDay
  /\ today' = today + 1
  /\ UNCHANGED <<routeVars, boot, pages, connected, viewVars>>

(* init once the catalog is there: the route is brought in line with it,   *)
(* and the address if that changes anything.  Without a catalog the        *)
(* application stays at its loading notice.                                *)
CatalogArrives(i) ==
  /\ boot = "waiting"
  /\ boot' = "ready"
  /\ pages' \in {Listed, <<>>}
  /\ route' = Reconcile(route, pages')
  /\ IF SerializeRouteState(route') # SerializeRouteState(route)
     THEN Replace(route') ELSE UNCHANGED <<url, past>>
  /\ Begin(i, route', pages')
  /\ UNCHANGED <<today, connected>>

CatalogFails ==
  /\ boot = "waiting"
  /\ boot' = "dead"
  /\ UNCHANGED <<today, routeVars, pages, connected, viewVars>>

MergeDefaults(v) ==  \* mutant: a click on another view starts from the defaults
  [ParseRouteState(SerializeRouteState(route)) EXCEPT !.view = v, !.rest = "all"]

(* mergeRouteSearch, for the links the views render: they name a view.     *)
MergeRouteSearch(v) == [route EXCEPT !.view = v]

(* onClick on a link. *)
Navigate(i, v) ==
  /\ boot = "ready"
  /\ Len(past) < MaxPast
  /\ route' = Reconcile(MergeRouteSearch(v), pages)
  /\ Push(route')
  /\ Begin(i, route', pages)
  /\ UNCHANGED <<today, boot, pages, connected>>

(* onChange and onSubmit of the filters of the dashboard.  The page is one *)
(* of the list; the days are on the form only while the slice is custom,   *)
(* and may be cleared.                                                     *)
ChooseFilters(i) ==
  /\ boot = "ready" /\ route.view = "overview"
  /\ \E f \in [page : IF pages = <<>> THEN {route.page} ELSE ToSet(pages), slice : Slices,
               range : IF route.slice = "custom" THEN Entered ELSE {route.range},
               snapshot : Snapshots, rest : Rest] :
       route' = ApplyBusinessFilters(route, f)
  /\ Replace(route')
  /\ Begin(i, route', pages)
  /\ UNCHANGED <<today, boot, pages, connected>>

(* onChange and onSubmit of the filters of the comparison.                 *)
ChooseComparison(i) ==
  /\ boot = "ready" /\ route.view = "page-comparison"
  /\ \E chosen \in SUBSET ToSet(pages), slice \in Slices, snapshot \in Snapshots,
        range \in IF route.slice = "custom" THEN Entered ELSE {route.range} :
       route' = [ApplyBusinessFilters(route, [page |-> route.page, slice |-> slice,
                   range |-> range, snapshot |-> snapshot, rest |-> route.rest])
                 EXCEPT !.compare = NormalizeComparePageIds(chosen, pages)]
  /\ Replace(route')
  /\ Begin(i, route', pages)
  /\ UNCHANGED <<today, boot, pages, connected>>

(* restoreFromLocation, on the back button.                                *)
Back(i) ==
  /\ boot = "ready"
  /\ past # <<>>
  /\ LET there == past[Len(past)]
         parsed == ParseRouteState(there)
         next == Reconcile(parsed, pages)
     IN /\ route' = next
        /\ url' = IF SerializeRouteState(next) # SerializeRouteState(parsed)
                  THEN SerializeRouteState(next) ELSE there
        /\ past' = SubSeq(past, 1, Len(past) - 1)
  /\ Begin(i, route', pages)
  /\ UNCHANGED <<today, boot, pages, connected>>

(* withPending: a handler of one of the screens ends by loading the view   *)
(* that is current then.                                                   *)
Reload(i) ==
  /\ boot = "ready"
  /\ Begin(i, route, pages)
  /\ UNCHANGED <<today, routeVars, boot, pages, connected>>

Next ==
  \/ Midnight
  \/ CatalogFails
  \/ \E i \in Loads :
       \/ CatalogArrives(i)
       \/ \E v \in Views : Navigate(i, v)
       \/ ChooseFilters(i)
       \/ ChooseComparison(i)
       \/ Back(i)
       \/ Reload(i)
       \/ ViewArrives(i)
       \/ PagesArrive(i)
       \/ HealthArrives(i)
       \/ LoadFails(i)

Spec == Init /\ [][Next]_vars

------------------------------------------------------------------------------
(* Properties. *)

(* The route, its address and the catalog agree.  The address says what    *)
(* the route is: opened again it gives the same view, page and filters,    *)
(* and the same days wherever it names days; only presets, and days that   *)
(* were cleared, are worked out anew.  And once the catalog is there the   *)
(* route names only its pages, wherever it came from: a link, a form, the  *)
(* back button or an old address.                                          *)
UrlTellsTheRoute ==
  /\ SerializeRouteState([route EXCEPT !.range = url.range]) = url
  /\ url.range # NoDay => route.range = url.range
  /\ boot = "ready" => /\ route.page \in ToSet(pages) \cup {NoPage}
                       /\ pages # <<>> => route.page # NoPage
                       /\ route.compare \subseteq ToSet(pages)

(* The view on the screen is the one of the route whenever nothing is in   *)
(* flight and the last load did not fail, however many loads overlapped,   *)
(* unless the answer of an earlier load came after that of the last one:   *)
(* such an answer is shown, and it is the only way to a screen that is not *)
(* what the address asks for.                                             *)
ShownUnlessOvertaken ==
  (/\ boot = "ready"
   /\ \A i \in Loads : load[i] = Idle
   /\ ~failed
   /\ ~overtaken)
  => html = IF route.view \notin Control /\ route.page = NoPage THEN Screen("no page")
            ELSE Request(route, pages)

(* "These filters must persist from one business view to another": no      *)
(* click on a link changes a filter, also by way of the comparison, which  *)
(* asks without most of them, and of the screens that have none.           *)
FiltersPersist ==
  [][Len(past') > Len(past) => route' = [route EXCEPT !.view = route'.view]]_vars
=============================================================================
