---------------------------- MODULE ConsoleRows ----------------------------
(***************************************************************************)
(* The rows and the selection of a list of the console (ManagedList inside *)
(* AdminApp).  The location hash names the page, the enterprise and the    *)
(* query; the list is mounted anew for every enterprise.  Answers arrive   *)
(* in any order, and what was selected survives leaving the page.          *)
(***************************************************************************)
EXTENDS Integers, FiniteSets

CONSTANTS
  Tenants,    \* the enterprises the operator may choose
  Filters,    \* filterKey of a query
  PagesOf,    \* the pages of rows
  RowIds,     \* the rows an operator may select
  MaxLoads,   \* bound: loads of one mounted list
  MaxMoves    \* bound: changes of the location

ASSUME RowsAssumption == MaxLoads \in Nat /\ MaxMoves \in Nat /\ 1 \in PagesOf

VARIABLES
  place,       \* the location hash
  views,       \* pageViews: the hash the list page was left with
  list,        \* the mounted list: its enterprise and query, or NoList
  picked,      \* selected, with the scope the operator picked it in
  selections,  \* the selections kept for the next mount, by path
  rowsOf,      \* the enterprise and query the rows shown are of
  loading, loadError,
  loads,       \* sequence of the list
  fetches,     \* loads on the network
  moves

rowVars == <<place, views, list, picked, selections, rowsOf, loading, loadError,
             loads, fetches, moves>>

QuerySet == [filter: Filters, page: PagesOf]
FirstQuery == [filter |-> CHOOSE f \in Filters : TRUE, page |-> 1]
Hash(p, t, q) == [page |-> p, tenant |-> t, query |-> q]
NoList == [tenant |-> "none", query |-> FirstQuery]
NoPick == [ids |-> {}, tenant |-> "none", filter |-> "none", stale |-> FALSE]
NoSelection == [key |-> FirstQuery.filter, pick |-> NoPick]

RowsInit ==
  \E t \in Tenants :
    /\ place = Hash("other", t, FirstQuery)
    /\ views = Hash("none", t, FirstQuery)
    /\ list = NoList /\ picked = NoPick
    /\ selections = [u \in Tenants |-> NoSelection]
    /\ rowsOf = NoList /\ loading = FALSE /\ loadError = FALSE
    /\ loads = 0 /\ fetches = {} /\ moves = 0

-----------------------------------------------------------------------------
(* reload(): the load before is aborted. *)
Reload(l) ==
  /\ loads' = loads + 1 /\ loading' = TRUE
  /\ fetches' = fetches \cup {[seq |-> loads + 1, for |-> l]}

(* The effect that keeps the selection for the next mount. *)
Keep(l, pick) ==
  selections' = [selections EXCEPT ![l.tenant] = [key |-> l.query.filter, pick |-> pick]]

(* Mutant: the selection survives a new filter. *)
PickAlways(l, pick, next) == pick
(* clear() when the filter is another one. *)
PickFor(l, pick, next) == IF next.query.filter # l.query.filter THEN NoPick ELSE pick

(* The list is mounted with the query of the hash; a kept selection returns
   when its filter is the same. *)
Shown(h) ==
  LET l == [tenant |-> h.tenant, query |-> h.query]
      kept == selections[h.tenant] IN
  /\ list' = l
  /\ picked' = IF kept.key = h.query.filter THEN kept.pick ELSE NoPick
  /\ rowsOf' = NoList /\ loadError' = FALSE
  /\ Reload(l) /\ UNCHANGED selections

(* The cleanup of the effect aborts the load; a sequence is never used again. *)
Hide ==
  /\ list' = NoList /\ picked' = NoPick /\ rowsOf' = NoList
  /\ loading' = FALSE /\ loadError' = FALSE
  /\ loads' = loads + 1 /\ UNCHANGED fetches

(* The location becomes h: navigate() to the view that was left, in the same
   enterprise only; selectEnterprise() with a clean query; or the browser goes
   to any hash.  A change of enterprise drops every selection. *)
MoveTo(h) ==
  /\ moves < MaxMoves /\ loads < MaxLoads /\ moves' = moves + 1
  /\ place' = h
  /\ views' = IF h.page = "list" THEN h ELSE views
  /\ IF h.tenant # place.tenant
     THEN /\ selections' = [t \in Tenants |-> NoSelection]
          /\ IF h.page = "list"
             THEN /\ list' = [tenant |-> h.tenant, query |-> h.query] /\ picked' = NoPick
                  /\ rowsOf' = NoList /\ loadError' = FALSE
                  /\ Reload([tenant |-> h.tenant, query |-> h.query])
             ELSE Hide
     ELSE CASE h.page = "other" -> Hide /\ UNCHANGED selections
            [] h.page = "list" /\ list = NoList -> Shown(h)
            [] OTHER ->
                 LET next == [list EXCEPT !.query = h.query] IN
                 /\ list' = next
                 /\ picked' = PickFor(list, picked, next) /\ Keep(next, picked')
                 /\ UNCHANGED <<rowsOf, loadError>>
                 /\ IF next = list THEN UNCHANGED <<loads, loading, fetches>> ELSE Reload(next)

Navigate(p) ==
  /\ p # place.page
  /\ MoveTo(IF p = "list" /\ views.page = "list" /\ views.tenant = place.tenant
            THEN views ELSE Hash(p, place.tenant, FirstQuery))
SelectEnterprise(t) == t # place.tenant /\ MoveTo(Hash(place.page, t, FirstQuery))
ChangeQuery(q) == place.page = "list" /\ q # list.query /\ MoveTo(Hash("list", place.tenant, q))
Browse(h) == MoveTo(h)

(* toggle() of a row on screen. *)
Toggle(id) ==
  /\ list # NoList /\ ~loading /\ rowsOf # NoList
  /\ LET ids == IF id \in picked.ids THEN picked.ids \ {id} ELSE picked.ids \cup {id} IN
       picked' = IF ids = {} THEN NoPick
                 ELSE [ids |-> ids, tenant |-> rowsOf.tenant, filter |-> rowsOf.query.filter,
                       stale |-> picked.stale \/ loadError]
  /\ Keep(list, picked')
  /\ UNCHANGED <<place, views, list, rowsOf, loading, loadError, loads, fetches, moves>>

(* refresh(), or the revision an action has moved. *)
RefreshRows ==
  /\ list # NoList /\ loads < MaxLoads /\ Reload(list)
  /\ UNCHANGED <<place, views, list, picked, selections, rowsOf, loadError, moves>>

(* The answer of a load: the newest one only.  A page that no longer exists is
   answered with one that does, which the list then takes over and loads. *)
Loaded(f) ==
  /\ list # NoList /\ f.seq = loads
  /\ \/ /\ rowsOf' = f.for /\ loading' = FALSE /\ fetches' = fetches \ {f}
        /\ UNCHANGED <<place, list, loads>>
     \/ /\ f.for.query.page # 1 /\ loads < MaxLoads
        /\ LET adjusted == [f.for EXCEPT !.query.page = 1] IN
             /\ rowsOf' = adjusted /\ list' = adjusted
             /\ place' = [place EXCEPT !.query = adjusted.query]
             /\ loads' = loads + 1 /\ loading' = TRUE
             /\ fetches' = (fetches \ {f}) \cup {[seq |-> loads + 1, for |-> adjusted]}
  /\ loadError' = FALSE
  /\ UNCHANGED <<views, picked, selections, moves>>

LoadFails(f) ==
  /\ list # NoList /\ f.seq = loads
  /\ loadError' = TRUE /\ loading' = FALSE /\ fetches' = fetches \ {f}
  /\ UNCHANGED <<place, views, list, picked, selections, rowsOf, loads, moves>>

(* The answer of an aborted load. *)
LoadDropped(f) ==
  /\ f.seq # loads /\ fetches' = fetches \ {f}
  /\ UNCHANGED <<place, views, list, picked, selections, rowsOf, loading, loadError, loads, moves>>

RowsNext ==
  \/ \E p \in {"list", "other"} : Navigate(p)
  \/ \E t \in Tenants : SelectEnterprise(t)
  \/ \E q \in QuerySet : ChangeQuery(q)
  \/ \E h \in [page: {"list", "other"}, tenant: Tenants, query: QuerySet] : Browse(h)
  \/ \E id \in RowIds : Toggle(id)
  \/ RefreshRows
  \/ \E f \in fetches : Loaded(f) \/ LoadFails(f) \/ LoadDropped(f)

RowsSpec == RowsInit /\ [][RowsNext]_rowVars

-----------------------------------------------------------------------------
(* Rows that are neither loading nor marked stale are those of the enterprise
   and the query on screen, whatever order the answers came in (reload). *)
RowsAreCurrent ==
  list # NoList /\ ~loading /\ ~loadError => rowsOf = list

(* What is selected was picked from rows of this enterprise and this filter,
   whether the list stayed on screen or the selection was kept for it.  Apart
   from a pick among rows that are marked as stale because a load failed: they
   may be those of the filter before. *)
SelectionIsInScope ==
  list # NoList /\ picked.ids # {} =>
    picked.tenant = list.tenant /\ (~picked.stale => picked.filter = list.query.filter)

RowsAreSafe == RowsAreCurrent /\ SelectionIsInScope
=============================================================================
