--------------------------- MODULE CatalogRouting ---------------------------
(***************************************************************************)
(* From the catalogue to the tenant.  Administrators edit service_catalog  *)
(* in the control plane (catalog_admin.go, store.go); the edge copies the  *)
(* enabled services into a snapshot at its start and every 15 seconds      *)
(* (catalog_cache.go), routes a request by the path in that snapshot, and  *)
(* then asks the database, one statement at a time, whether the subject is *)
(* granted the service and where its tenant runs (server.go, resolver.go). *)
(* Everything may change between two of these.                             *)
(*                                                                         *)
(* One subject: rows of different subjects share nothing here.  The bearer *)
(* token is the subject of OAuthSession; here it fits the route or not.    *)
(***************************************************************************)
EXTENDS Integers, FiniteSets, SequencesExt

CONSTANTS
  Services,        \* service ids
  Paths,           \* public paths that are asked for, as sequences of segments
  NoPath,          \* no row, or not in the snapshot
  Inherited,       \* builtin rows of an earlier release and their paths
  Reserved,        \* first segments that belong to the edge itself
  Visits,          \* requests in flight at the edge
  MaxOrders,       \* BOUND: changes by administrators and the reconciler
  MaxEdgeFaults    \* BOUND: refreshes that fail, crashes of the edge

ASSUME RoutingConstants ==
  /\ Services # {}
  /\ Paths \subseteq Seq(STRING) \ {<<>>} /\ NoPath \notin Paths
  /\ DOMAIN Inherited \subseteq Services
  /\ \A s \in DOMAIN Inherited : Inherited[s] \in Paths
  /\ \A s, t \in DOMAIN Inherited : IsPrefix(Inherited[s], Inherited[t]) => s = t
  /\ MaxOrders \in Nat /\ MaxEdgeFaults \in Nat

VARIABLES
  catalog,     \* service_catalog, by service id
  granted,     \* services the subject holds a grant for
  ready,       \* services whose tenant is enabled and ready for the subject
  up,          \* does the edge run?
  cache,       \* CatalogCache.snapshot: the path of each service in it
  visit,       \* the requests of the subject
  orders, edgeFaults

routeVars == <<catalog, granted, ready, up, cache, visit, orders, edgeFaults>>

NoEntry == [path |-> NoPath, enabled |-> FALSE, builtin |-> FALSE]
NoVisit == [pc |-> "rest", service |-> CHOOSE s \in Services : TRUE,
            entitled |-> FALSE, served |-> FALSE]
Empty == [s \in Services |-> NoPath]

RouteTypeOK ==
  /\ catalog \in [Services -> [path : Paths \cup {NoPath}, enabled : BOOLEAN, builtin : BOOLEAN]]
  /\ \A s \in Services : catalog[s].path = NoPath => catalog[s] = NoEntry
  /\ granted \subseteq Services /\ ready \subseteq Services
  /\ up \in BOOLEAN /\ cache \in [Services -> Paths \cup {NoPath}]
  /\ visit \in [Visits -> [pc : {"rest", "routed", "allowed", "resolved", "forwarded"},
                           service : Services, entitled : BOOLEAN, served : BOOLEAN]]
  /\ orders \in 0 .. MaxOrders /\ edgeFaults \in 0 .. MaxEdgeFaults

RouteInit ==
  /\ catalog = [s \in Services |->
       IF s \in DOMAIN Inherited
         THEN [path |-> Inherited[s], enabled |-> TRUE, builtin |-> TRUE] ELSE NoEntry]
  /\ granted = Services /\ ready = Services
  /\ up = FALSE /\ cache = Empty
  /\ visit = [v \in Visits |-> NoVisit]
  /\ orders = 0 /\ edgeFaults = 0
-----------------------------------------------------------------------------
(* The administrators                                                      *)

Overlap(p, q) == IsPrefix(p, q) \/ IsPrefix(q, p)

\* Mutation: the list of the control plane lacks one of the edge's own routes.
ReservedForControlPlaneBar(p) == Head(p) \in {"v1"} \cup (Reserved \ {"oauth"})

\* publicPathReservedForControlPlane, and publicPathReserved of the edge
ReservedForControlPlane(p) == Head(p) \in Reserved \cup {"v1"}
ReservedForEdge(p) == Head(p) \in Reserved

\* Mutation: only an equal path is in conflict.
ConflictEqual(s, p) == \E t \in Services \ {s} : catalog[t].path = p

\* ensureNoPublicPathConflict looks at enabled entries, UNIQUE (public_path) at all
Conflict(s, p) ==
  \E t \in Services \ {s} : \/ catalog[t].enabled /\ Overlap(p, catalog[t].path)
                            \/ catalog[t].path = p

EntitledBy(rows, grants) == {s \in grants : rows[s].enabled}

\* History: what has become true of the service of a request while it was in flight
Noted == [v \in Visits |->
  IF visit[v].pc = "rest" THEN visit[v]
  ELSE [visit[v] EXCEPT !.entitled = @ \/ visit[v].service \in EntitledBy(catalog', granted'),
                        !.served = @ \/ visit[v].service \in ready']]

Order == orders < MaxOrders /\ orders' = orders + 1

UpsertAdminServiceCatalogEntry(s, p) ==
  /\ Order
  /\ ~ReservedForControlPlane(p)
  /\ ~catalog[s].builtin /\ ~Conflict(s, p)
  /\ catalog' = [catalog EXCEPT ![s] = [path |-> p, enabled |-> TRUE, builtin |-> FALSE]]
  /\ UNCHANGED <<granted, ready, up, cache, edgeFaults>>
  /\ visit' = Noted

DisableServiceCatalogEntry(s) ==
  /\ Order
  /\ catalog[s].path # NoPath /\ ~catalog[s].builtin
  /\ catalog' = [catalog EXCEPT ![s].enabled = FALSE]
  /\ UNCHANGED <<granted, ready, up, cache, visit, edgeFaults>>

\* The release has no builtin service: the startup of a control plane disables
\* those of an earlier one, and nothing enables them again.
SeedServiceCatalog ==
  /\ \E s \in Services : catalog[s].builtin /\ catalog[s].enabled
  /\ catalog' = [s \in Services |->
       [catalog[s] EXCEPT !.enabled = @ /\ ~catalog[s].builtin]]
  /\ UNCHANGED <<granted, ready, up, cache, visit, orders, edgeFaults>>

ChangeGranted(s) ==
  /\ Order
  /\ granted' = IF s \in granted THEN granted \ {s} ELSE granted \cup {s}
  /\ UNCHANGED <<catalog, ready, up, cache, edgeFaults>>
  /\ visit' = Noted

\* suspended, resumed, degraded, observed to be ready
ChangeTenant(s) ==
  /\ Order
  /\ ready' = IF s \in ready THEN ready \ {s} ELSE ready \cup {s}
  /\ UNCHANGED <<catalog, granted, up, cache, edgeFaults>>
  /\ visit' = Noted
-----------------------------------------------------------------------------
(* The edge and its snapshot                                               *)

Enabled == {s \in Services : catalog[s].enabled}
EnabledPaths == [s \in Services |-> IF s \in Enabled THEN catalog[s].path ELSE NoPath]

\* newCatalogSnapshot: one bad entry, and there is no snapshot
Loadable ==
  /\ \A s \in Enabled : ~ReservedForEdge(catalog[s].path)
  /\ \A s, t \in Enabled : catalog[s].path = catalog[t].path => s = t

\* NewServerWithStateStore refuses to start without an enabled service, and is
\* started again.
Start ==
  /\ ~up
  /\ IF Loadable /\ Enabled # {} THEN up' = TRUE /\ cache' = EnabledPaths
                                ELSE UNCHANGED <<up, cache>>
  /\ UNCHANGED <<catalog, granted, ready, visit, orders, edgeFaults>>

\* Refresh; a list that does not load leaves the last good snapshot
Refresh ==
  /\ up
  /\ cache' = IF Loadable THEN EnabledPaths ELSE cache
  /\ UNCHANGED <<catalog, granted, ready, up, visit, orders, edgeFaults>>

\* A refresh that fails changes nothing: it delays the next one. What is left to
\* count is the edge that dies, with its requests and its snapshot.
EdgeCrash ==
  /\ up /\ edgeFaults < MaxEdgeFaults /\ edgeFaults' = edgeFaults + 1
  /\ up' = FALSE /\ cache' = Empty
  /\ visit' = [v \in Visits |-> NoVisit]
  /\ UNCHANGED <<catalog, granted, ready, orders>>
-----------------------------------------------------------------------------
(* A request                                                               *)

\* MatchPublicPath: the longest public path that the path lies under
Matches(p) == {s \in Services : cache[s] # NoPath /\ IsPrefix(cache[s], p)}
MatchPublicPath(p) == CHOOSE s \in Matches(p) : \A t \in Matches(p) : Len(cache[t]) <= Len(cache[s])

Goes(v, pc) == visit' = [visit EXCEPT ![v].pc = pc]
Ends(v) == visit' = [visit EXCEPT ![v] = NoVisit]
Elsewhere == UNCHANGED <<catalog, granted, ready, up, cache, orders, edgeFaults>>

\* ResolveByPublicPath, and a token whose scope and resource are those of the route
Route(v, p) ==
  /\ up /\ visit[v].pc = "rest" /\ Matches(p) # {}
  /\ LET s == MatchPublicPath(p) IN
     visit' = [visit EXCEPT ![v] = [pc |-> "routed", service |-> s,
                                    entitled |-> s \in EntitledBy(catalog, granted), served |-> s \in ready]]
  /\ Elsewhere

\* Mutation: the catalogue that counts is the one in memory.
AllowedGrantOnly(s) == s \in granted

\* AllowedServiceGrant joins the catalogue
AllowedServiceGrant(s) == s \in granted /\ catalog[s].enabled

Allowed(v) ==
  /\ visit[v].pc = "routed"
  /\ IF AllowedServiceGrant(visit[v].service) THEN Goes(v, "allowed") ELSE Ends(v)
  /\ Elsewhere

\* DatabaseResolver.Resolve looks the service up in the snapshot there is by now,
ResolveService(v) ==
  /\ visit[v].pc = "allowed"
  /\ IF cache[visit[v].service] # NoPath THEN Goes(v, "resolved") ELSE Ends(v)
  /\ Elsewhere

\* and then its tenant in the database.
GetTenantUpstream(v) ==
  /\ visit[v].pc = "resolved"
  /\ IF visit[v].service \in ready THEN Goes(v, "forwarded") ELSE Ends(v)
  /\ Elsewhere

\* the proxied request is over, or the client or a statement fails before it is forwarded
EndVisit(v) == visit[v].pc # "rest" /\ Ends(v) /\ Elsewhere

RouteNext ==
  \/ \E s \in Services : \/ \E p \in Paths : UpsertAdminServiceCatalogEntry(s, p)
                         \/ DisableServiceCatalogEntry(s)
                         \/ ChangeGranted(s) \/ ChangeTenant(s)
  \/ SeedServiceCatalog \/ Start \/ Refresh \/ EdgeCrash
  \/ \E v \in Visits : \/ \E p \in Paths : Route(v, p)
                       \/ Allowed(v) \/ ResolveService(v) \/ GetTenantUpstream(v) \/ EndVisit(v)

\* The supervisor starts the edge again, the ticker of the cache fires, and a
\* control plane starts one day.
RouteFairness == WF_routeVars(Start) /\ WF_routeVars(Refresh) /\ WF_routeVars(SeedServiceCatalog)

RouteSpec == RouteInit /\ [][RouteNext]_routeVars /\ RouteFairness
-----------------------------------------------------------------------------
(* What is to hold                                                         *)

\* Whatever snapshot it was routed by, a request is forwarded only if, while it
\* was being handled, there was a moment when the service was enabled and granted
\* to the subject, and one when the subject's tenant was ready: what was taken
\* away before a request arrived is refused, however old the snapshot is.
ForwardsAreLawful ==
  \A v \in Visits : visit[v].pc = "forwarded" => visit[v].entitled /\ visit[v].served

\* A path leads to one service: neither the order of edits, nor re-enabling what
\* was disabled, nor a snapshot in between makes the order of the list decide.
RoutingIsUnambiguous ==
  \A p \in Paths : Cardinality(Matches(p)) <= 1

\* Once the catalogue is left alone, the edge comes to serve exactly what is
\* enabled: the control plane admits nothing that keeps the edge from loading.
CatalogReachesEdge == <>[](Enabled # {} => up /\ cache = EnabledPaths)
=============================================================================
