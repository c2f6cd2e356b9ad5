-------------------------- MODULE EdgeRoutingProofs -------------------------
(***************************************************************************)
(* Proofs about two parts of the edge that share no state: the way of a    *)
(* request by the catalogue (CatalogRouting), and the sessions of the SSE  *)
(* bridge (SSEBridge).                                                     *)
(***************************************************************************)
EXTENDS CatalogRouting, SSEBridge, FiniteSetTheorems, SequenceTheorems, TLAPS
-----------------------------------------------------------------------------
(***************************************************************************)
(* For any services, paths, requests and number of edits: the snapshot of  *)
(* the edge leads a path to one service at most, and what is forwarded was *)
(* granted and ready while its request was in flight.                      *)
(*                                                                         *)
(* The first needs that enabled services never overlap (EntriesApart), which the  *)
(* snapshot inherits; the second that a request has noted whatever is true *)
(* of its service now (Aware).                                             *)
(***************************************************************************)

EntriesApart ==
  \A s, t \in Services :
    catalog[s].enabled /\ catalog[t].enabled /\ Overlap(catalog[s].path, catalog[t].path) => s = t

CacheApart ==
  \A s, t \in Services :
    cache[s] # NoPath /\ cache[t] # NoPath /\ Overlap(cache[s], cache[t]) => s = t

\* An enabled service has a path.
Pathed == \A s \in Services : catalog[s].enabled => catalog[s].path # NoPath

Aware(v) ==
  visit[v].pc # "rest" =>
    /\ visit[v].service \in EntitledBy(catalog, granted) => visit[v].entitled
    /\ visit[v].service \in ready => visit[v].served

\* What the statements of a request have established so far
Checked(v) ==
  /\ visit[v].pc \in {"allowed", "resolved", "forwarded"} => visit[v].entitled
  /\ visit[v].pc = "forwarded" => visit[v].served

RInv ==
  /\ RouteTypeOK
  /\ Pathed /\ EntriesApart /\ CacheApart
  /\ \A v \in Visits : Aware(v) /\ Checked(v)

VisitRecords ==
  [pc : {"rest", "routed", "allowed", "resolved", "forwarded"},
   service : Services, entitled : BOOLEAN, served : BOOLEAN]

Entries == [path : Paths \cup {NoPath}, enabled : BOOLEAN, builtin : BOOLEAN]
-----------------------------------------------------------------------------
\* Of two prefixes of one path the shorter is a prefix of the longer.
LEMMA PrefixesOverlap ==
  ASSUME NEW p \in Paths, NEW q \in Paths, NEW r \in Paths, IsPrefix(p, r), IsPrefix(q, r)
  PROVE  Overlap(p, q)
<1>1. /\ p \in Seq(STRING) /\ q \in Seq(STRING) /\ r \in Seq(STRING)
      /\ Len(p) \in Nat /\ Len(q) \in Nat /\ Len(r) \in Nat
  BY RoutingConstants
<1>2. ASSUME NEW x \in Seq(STRING), NEW y \in Seq(STRING), Len(x) <= Len(y),
             IsPrefix(x, r), IsPrefix(y, r)
      PROVE  IsPrefix(x, y)
  <2>1. Len(x) \in Nat /\ Len(y) \in Nat
    OBVIOUS
  <2>2. SubSeq(x, 1, Len(x)) = x /\ SubSeq(y, 1, Len(y)) = y
    BY SubSeqFull
  <2>3. x = SubSeq(r, 1, Len(x)) /\ y = SubSeq(r, 1, Len(y)) /\ Len(y) <= Len(r)
    BY <1>2, <2>2 DEF IsPrefix
  <2>4. CASE Len(x) = 0
    <3>1. SubSeq(y, 1, Len(x)) = <<>> /\ SubSeq(x, 1, Len(x)) = <<>>
      BY <2>4, SubSeqEmpty
    <3> QED BY <3>1, <1>2 DEF IsPrefix
  <2>5. CASE Len(x) # 0
    <3>1. /\ 1 \in 1 .. Len(r) /\ Len(y) \in 1 .. Len(r)
          /\ 1 \in 1 .. Len(y) - 1 + 1 /\ Len(x) \in 1 .. Len(y) - 1 + 1
      BY <2>1, <2>3, <2>5, <1>1, <1>2
    <3>2. SubSeq(SubSeq(r, 1, Len(y)), 1, Len(x)) = SubSeq(r, 1, Len(x))
      <4>1. SubSeq(SubSeq(r, 1, Len(y)), 1, Len(x)) = SubSeq(r, 1 + 1 - 1, 1 + Len(x) - 1)
        BY <3>1, <1>1, SubSeqOfSubSeq
      <4>2. 1 + 1 - 1 = 1 /\ 1 + Len(x) - 1 = Len(x)
        BY <2>1
      <4> QED BY <4>1, <4>2
    <3> QED BY <3>2, <2>2, <2>3, <1>2 DEF IsPrefix
  <2> QED BY <2>4, <2>5
<1>3. Len(p) <= Len(q) \/ Len(q) <= Len(p)
  BY <1>1
<1> QED BY <1>1, <1>2, <1>3 DEF Overlap

\* A set without two different members is empty or a singleton.
LEMMA AtMostOne ==
  ASSUME NEW S, \A x, y \in S : x = y
  PROVE  Cardinality(S) <= 1
<1>1. CASE S = {}
  BY <1>1, FS_EmptySet
<1>2. CASE S # {}
  <2>1. PICK x \in S : S = {x}
    BY <1>2
  <2> QED BY <2>1, FS_Singleton
<1> QED BY <1>1, <1>2
-----------------------------------------------------------------------------
\* Whatever administrators do, the requests in flight note what has become true.
LEMMA NotedIsAware ==
  ASSUME RInv, visit' = Noted
  PROVE  /\ visit' \in [Visits -> VisitRecords]
         /\ \A v \in Visits : Aware(v)' /\ Checked(v)'
<1>1. \A v \in Visits : visit[v] \in VisitRecords
  BY DEF RInv, RouteTypeOK, VisitRecords
<1>2. ASSUME NEW v \in Visits
      PROVE  visit'[v] \in VisitRecords /\ Aware(v)' /\ Checked(v)'
  <2> DEFINE r == [visit[v] EXCEPT
        !.entitled = @ \/ visit[v].service \in EntitledBy(catalog', granted'),
        !.served = @ \/ visit[v].service \in ready']
  <2>1. visit'[v] = IF visit[v].pc = "rest" THEN visit[v] ELSE r
    BY DEF Noted
  <2>2. /\ r \in VisitRecords /\ r.pc = visit[v].pc /\ r.service = visit[v].service
        /\ r.entitled = (visit[v].entitled \/ visit[v].service \in EntitledBy(catalog', granted'))
        /\ r.served = (visit[v].served \/ visit[v].service \in ready')
    BY <1>1 DEF VisitRecords
  <2> HIDE DEF r
  <2>3. Checked(v)
    BY DEF RInv
  <2>4. CASE visit[v].pc = "rest"
    BY <2>1, <2>4, <1>1 DEF Aware, Checked
  <2>5. CASE visit[v].pc # "rest"
    <3>1. visit'[v] = r
      BY <2>1, <2>5
    <3>2. Aware(v)'
      BY <3>1, <2>2 DEF Aware
    <3>3. Checked(v)'
      BY <3>1, <2>2, <2>3 DEF Checked
    <3> QED BY <3>1, <3>2, <3>3, <2>2
  <2> QED BY <2>4, <2>5
<1> QED BY <1>2 DEF Noted

\* A service whose path was tested takes its place among the enabled ones.
LEMMA UpsertStep ==
  ASSUME RInv, NEW s \in Services, NEW p \in Paths, UpsertAdminServiceCatalogEntry(s, p)
  PROVE  RInv'
<1> DEFINE e == [path |-> p, enabled |-> TRUE, builtin |-> FALSE]
<1>1. e \in Entries /\ e.path = p /\ e.enabled /\ p # NoPath
  BY RoutingConstants DEF Entries
<1>2. /\ catalog' = [catalog EXCEPT ![s] = e] /\ ~Conflict(s, p) /\ visit' = Noted
      /\ orders' \in 0 .. MaxOrders /\ UNCHANGED <<granted, ready, up, cache, edgeFaults>>
  BY RoutingConstants DEF UpsertAdminServiceCatalogEntry, Order, RInv, RouteTypeOK
<1> HIDE DEF e
<1>3. /\ catalog' \in [Services -> Entries] /\ catalog'[s] = e
      /\ \A t \in Services \ {s} : catalog'[t] = catalog[t]
  BY <1>1, <1>2 DEF RInv, RouteTypeOK, Entries
<1>4. RouteTypeOK'
  BY <1>1, <1>2, <1>3, NotedIsAware DEF RInv, RouteTypeOK, Entries, VisitRecords
<1>5. Pathed'
  BY <1>1, <1>3 DEF RInv, Pathed
<1>6. \A t \in Services \ {s} : catalog[t].enabled =>
        ~Overlap(p, catalog[t].path) /\ ~Overlap(catalog[t].path, p)
  BY <1>2 DEF Conflict, Overlap
<1>7. EntriesApart'
  BY <1>1, <1>3, <1>6 DEF RInv, EntriesApart
<1> QED BY <1>2, <1>4, <1>5, <1>7, NotedIsAware DEF RInv, CacheApart

\* Disabling and seeding only take from the enabled services.
LEMMA FewerEnabled ==
  ASSUME RInv, catalog' \in [Services -> Entries],
         \A s \in Services : /\ catalog'[s].path = catalog[s].path
                             /\ catalog'[s].enabled => catalog[s].enabled
                             /\ catalog'[s].path = NoPath => catalog'[s] = catalog[s],
         UNCHANGED <<granted, ready, up, cache, visit, edgeFaults>>,
         orders' \in 0 .. MaxOrders
  PROVE  RInv'
<1>1. RouteTypeOK'
  BY DEF RInv, RouteTypeOK, Entries, VisitRecords
<1>2. Pathed' /\ EntriesApart' /\ CacheApart'
  BY DEF RInv, Pathed, EntriesApart, CacheApart
<1>3. ASSUME NEW v \in Visits PROVE Aware(v)' /\ Checked(v)'
  <2>1. visit[v].service \in Services
    BY DEF RInv, RouteTypeOK
  <2>2. (visit[v].service \in EntitledBy(catalog, granted))' =>
          visit[v].service \in EntitledBy(catalog, granted)
    BY <2>1 DEF EntitledBy
  <2> QED BY <2>2 DEF RInv, Aware, Checked
<1> QED BY <1>1, <1>2, <1>3 DEF RInv

LEMMA SeedStep ==
  ASSUME RInv, SeedServiceCatalog
  PROVE  RInv'
<1>1. ASSUME NEW s \in Services
      PROVE  /\ catalog'[s] \in Entries /\ catalog'[s].path = catalog[s].path
             /\ catalog'[s].enabled => catalog[s].enabled
             /\ catalog'[s].path = NoPath => catalog'[s] = catalog[s]
  <2> DEFINE r == [catalog[s] EXCEPT !.enabled = @ /\ ~catalog[s].builtin]
  <2>1. catalog[s] \in Entries
    BY DEF RInv, RouteTypeOK, Entries
  <2>2. catalog'[s] = r
    BY DEF SeedServiceCatalog
  <2>3. /\ r \in Entries /\ r.path = catalog[s].path
        /\ r.enabled = (catalog[s].enabled /\ ~catalog[s].builtin)
    BY <2>1 DEF Entries
  <2>4. catalog[s].builtin = FALSE => r = catalog[s]
    BY <2>1 DEF Entries
  <2> HIDE DEF r
  <2>5. catalog[s].path = NoPath => catalog[s].builtin = FALSE
    BY DEF RInv, RouteTypeOK, NoEntry
  <2> QED BY <2>2, <2>3, <2>4, <2>5
<1>2. catalog' \in [Services -> Entries]
  BY <1>1 DEF SeedServiceCatalog
<1>3. /\ UNCHANGED <<granted, ready, up, cache, visit, edgeFaults>>
      /\ orders' \in 0 .. MaxOrders
  BY DEF SeedServiceCatalog, RInv, RouteTypeOK
<1> QED BY <1>1, <1>2, <1>3, FewerEnabled

LEMMA DisableStep ==
  ASSUME RInv, NEW s \in Services, DisableServiceCatalogEntry(s)
  PROVE  RInv'
<1> DEFINE r == [catalog[s] EXCEPT !.enabled = FALSE]
<1>1. catalog[s] \in Entries
  BY DEF RInv, RouteTypeOK, Entries
<1>2. r \in Entries /\ r.path = catalog[s].path /\ r.enabled = FALSE /\ r.path # NoPath
  BY <1>1 DEF Entries, DisableServiceCatalogEntry
<1>3. /\ catalog' = [catalog EXCEPT ![s] = r] /\ orders' \in 0 .. MaxOrders
      /\ UNCHANGED <<granted, ready, up, cache, visit, edgeFaults>>
  BY RoutingConstants DEF DisableServiceCatalogEntry, Order, RInv, RouteTypeOK
<1> HIDE DEF r
<1>4. /\ catalog' \in [Services -> Entries] /\ catalog'[s] = r
      /\ \A t \in Services \ {s} : catalog'[t] = catalog[t]
  BY <1>2, <1>3 DEF RInv, RouteTypeOK, Entries
<1> QED BY <1>2, <1>3, <1>4, FewerEnabled

\* Grants and tenants change beside the requests.
LEMMA ChangeStep ==
  ASSUME RInv, NEW s \in Services, ChangeGranted(s) \/ ChangeTenant(s)
  PROVE  RInv'
<1>1. /\ visit' = Noted /\ UNCHANGED <<catalog, up, cache, edgeFaults>>
      /\ granted' \subseteq Services /\ ready' \subseteq Services
      /\ orders' \in 0 .. MaxOrders
  BY RoutingConstants DEF ChangeGranted, ChangeTenant, Order, RInv, RouteTypeOK
<1>2. RouteTypeOK'
  BY <1>1, NotedIsAware DEF RInv, RouteTypeOK, VisitRecords
<1>3. Pathed' /\ EntriesApart' /\ CacheApart'
  BY <1>1 DEF RInv, Pathed, EntriesApart, CacheApart
<1> QED BY <1>1, <1>2, <1>3, NotedIsAware DEF RInv

\* The snapshot is copied from services that do not overlap, kept, or lost.
LEMMA EdgeStep ==
  ASSUME RInv, Start \/ Refresh \/ EdgeCrash
  PROVE  RInv'
<1>0. /\ up \in BOOLEAN /\ MaxEdgeFaults \in Nat
      /\ edgeFaults \in 0 .. MaxEdgeFaults
  BY RoutingConstants DEF RInv, RouteTypeOK
<1>1. /\ UNCHANGED <<catalog, granted, ready, orders>> /\ up' \in BOOLEAN
      /\ cache' \in {cache, EnabledPaths, Empty}
      /\ edgeFaults' \in 0 .. MaxEdgeFaults
      /\ visit' \in {visit, [v \in Visits |-> NoVisit]}
  <2>1. CASE Start
    <3>1. up' \in BOOLEAN /\ cache' \in {cache, EnabledPaths}
      BY <1>0, <2>1 DEF Start
    <3> QED BY <1>0, <2>1, <3>1 DEF Start
  <2>2. CASE Refresh
    <3>1. cache' \in {cache, EnabledPaths}
      BY <2>2 DEF Refresh
    <3> QED BY <1>0, <2>2, <3>1 DEF Refresh
  <2>3. CASE EdgeCrash
    <3>1. edgeFaults < MaxEdgeFaults /\ edgeFaults' = edgeFaults + 1
      BY <2>3 DEF EdgeCrash
    <3>2. edgeFaults' \in 0 .. MaxEdgeFaults
      BY <1>0, <3>1
    <3>3. /\ cache' \in {cache, EnabledPaths, Empty}
          /\ visit' \in {visit, [v \in Visits |-> NoVisit]}
          /\ up' \in BOOLEAN /\ UNCHANGED <<catalog, granted, ready, orders>>
      BY <2>3 DEF EdgeCrash
    <3> QED BY <3>2, <3>3
  <2> QED BY <2>1, <2>2, <2>3
<1>2. NoVisit \in VisitRecords /\ NoVisit.pc = "rest"
  BY RoutingConstants DEF NoVisit, VisitRecords
<1>3. cache' \in [Services -> Paths \cup {NoPath}] /\ CacheApart'
  <2>1. CASE cache' = cache
    BY <2>1 DEF RInv, RouteTypeOK, CacheApart
  <2>2. CASE cache' = EnabledPaths
    BY <2>2 DEF RInv, RouteTypeOK, CacheApart, EntriesApart, EnabledPaths, Enabled
  <2>3. CASE cache' = Empty
    BY <2>3 DEF Empty, CacheApart
  <2> QED BY <1>1, <2>1, <2>2, <2>3
<1>4. /\ visit' \in [Visits -> VisitRecords]
      /\ \A v \in Visits : Aware(v)' /\ Checked(v)'
  <2>1. CASE visit' = visit
    BY <1>1, <2>1 DEF RInv, RouteTypeOK, VisitRecords, Aware, Checked, EntitledBy
  <2>2. CASE visit' = [v \in Visits |-> NoVisit]
    BY <1>2, <2>2 DEF Aware, Checked
  <2> QED BY <1>1, <2>1, <2>2
<1>5. RouteTypeOK'
  BY <1>1, <1>3, <1>4 DEF RInv, RouteTypeOK, VisitRecords
<1>6. Pathed' /\ EntriesApart'
  BY <1>1 DEF RInv, Pathed, EntriesApart
<1> QED BY <1>3, <1>4, <1>5, <1>6 DEF RInv

\* A step of one request
LEMMA VisitMoves ==
  ASSUME RInv, NEW v \in Visits, NEW r \in VisitRecords, Elsewhere,
         visit' = [visit EXCEPT ![v] = r],
         r.pc # "rest" =>
           /\ r.service \in EntitledBy(catalog, granted) => r.entitled
           /\ r.service \in ready => r.served,
         r.pc \in {"allowed", "resolved", "forwarded"} => r.entitled,
         r.pc = "forwarded" => r.served
  PROVE  RInv'
<1>1. /\ visit' \in [Visits -> VisitRecords] /\ visit'[v] = r
      /\ \A u \in Visits \ {v} : visit'[u] = visit[u]
  BY DEF RInv, RouteTypeOK, VisitRecords
<1>2. RouteTypeOK'
  BY <1>1 DEF RInv, RouteTypeOK, VisitRecords, Elsewhere
<1>3. Pathed' /\ EntriesApart' /\ CacheApart'
  BY DEF RInv, Pathed, EntriesApart, CacheApart, Elsewhere
<1>4. \A u \in Visits : Aware(u)' /\ Checked(u)'
  BY <1>1 DEF RInv, Aware, Checked, Elsewhere, EntitledBy
<1> QED BY <1>2, <1>3, <1>4 DEF RInv

LEMMA VisitStep ==
  ASSUME RInv, NEW v \in Visits,
         \/ \E p \in Paths : Route(v, p)
         \/ Allowed(v) \/ ResolveService(v) \/ GetTenantUpstream(v) \/ EndVisit(v)
  PROVE  RInv'
<1>1. visit[v] \in VisitRecords /\ Aware(v) /\ Checked(v)
  BY DEF RInv, RouteTypeOK, VisitRecords
<1>2. NoVisit \in VisitRecords /\ NoVisit.pc = "rest"
  BY RoutingConstants DEF NoVisit, VisitRecords
<1>3. ASSUME Elsewhere, Ends(v) PROVE RInv'
  BY <1>2, <1>3, VisitMoves DEF Ends
<1>4. ASSUME Elsewhere, NEW pc \in {"allowed", "resolved", "forwarded"}, Goes(v, pc),
             visit[v].pc # "rest", visit[v].entitled, pc = "forwarded" => visit[v].served
      PROVE  RInv'
  <2> DEFINE r == [visit[v] EXCEPT !.pc = pc]
  <2>1. /\ r \in VisitRecords /\ r.pc = pc /\ r.service = visit[v].service
        /\ r.entitled = visit[v].entitled /\ r.served = visit[v].served
    BY <1>1 DEF VisitRecords
  <2>2. visit' = [visit EXCEPT ![v] = r]
    BY <1>4 DEF Goes
  <2> HIDE DEF r
  <2> QED BY <1>1, <1>4, <2>1, <2>2, VisitMoves DEF Aware
<1>5. ASSUME NEW p \in Paths, Route(v, p) PROVE RInv'
  <2> DEFINE s == MatchPublicPath(p)
             r == [pc |-> "routed", service |-> s,
                   entitled |-> s \in EntitledBy(catalog, granted), served |-> s \in ready]
  <2>1. s \in Services
    <3>1. /\ Matches(p) # {} /\ Matches(p) \subseteq Services
          /\ \A x, y \in Matches(p) : x = y
      <4>1. \A x, y \in Matches(p) : x = y
        BY PrefixesOverlap DEF Matches, RInv, RouteTypeOK, CacheApart
      <4> QED BY <1>5, <4>1 DEF Route, Matches
    <3>2. PICK x \in Matches(p) : Matches(p) = {x}
      BY <3>1
    <3>3. Len(cache[x]) <= Len(cache[x])
      <4>1. cache[x] \in Paths
        BY <3>2 DEF Matches, RInv, RouteTypeOK
      <4>2. Len(cache[x]) \in Nat
        BY <4>1, RoutingConstants
      <4> QED BY <4>2
    <3>4. \E y \in Matches(p) : \A t \in Matches(p) : Len(cache[t]) <= Len(cache[y])
      BY <3>2, <3>3
    <3>5. MatchPublicPath(p) \in Matches(p)
      BY <3>4 DEF MatchPublicPath
    <3> QED BY <3>1, <3>5
  <2>2. visit' = [visit EXCEPT ![v] = r] /\ Elsewhere
    BY <1>5 DEF Route
  <2> HIDE DEF s
  <2>3. /\ r \in VisitRecords /\ r.pc = "routed"
        /\ r.service \in EntitledBy(catalog, granted) => r.entitled
        /\ r.service \in ready => r.served
    <3>1. (s \in EntitledBy(catalog, granted)) \in BOOLEAN /\ (s \in ready) \in BOOLEAN
      OBVIOUS
    <3> QED BY <2>1, <3>1 DEF VisitRecords
  <2> HIDE DEF r
  <2> QED BY <2>2, <2>3, VisitMoves
<1>6. ASSUME Allowed(v) PROVE RInv'
  <2>1. CASE AllowedServiceGrant(visit[v].service)
    <3>1. visit[v].pc = "routed" /\ visit[v].entitled
      BY <1>1, <1>6, <2>1 DEF Allowed, AllowedServiceGrant, Aware, EntitledBy
    <3> QED BY <1>4, <1>6, <2>1, <3>1 DEF Allowed
  <2>2. CASE ~AllowedServiceGrant(visit[v].service)
    BY <1>3, <1>6, <2>2 DEF Allowed
  <2> QED BY <2>1, <2>2
<1>7. ASSUME ResolveService(v) PROVE RInv'
  <2>1. visit[v].pc = "allowed" /\ visit[v].entitled /\ Elsewhere
    BY <1>1, <1>7 DEF ResolveService, Checked
  <2>2. CASE Goes(v, "resolved")
    BY <1>4, <2>1, <2>2
  <2>3. CASE Ends(v)
    BY <1>3, <2>1, <2>3
  <2> QED BY <1>7, <2>2, <2>3 DEF ResolveService
<1>8. ASSUME GetTenantUpstream(v) PROVE RInv'
  <2>1. visit[v].pc = "resolved" /\ visit[v].entitled /\ Elsewhere
    BY <1>1, <1>8 DEF GetTenantUpstream, Checked
  <2>2. CASE visit[v].service \in ready
    <3>1. visit[v].served /\ Goes(v, "forwarded")
      BY <1>1, <1>8, <2>1, <2>2 DEF GetTenantUpstream, Aware
    <3> QED BY <1>4, <2>1, <3>1
  <2>3. CASE visit[v].service \notin ready
    BY <1>3, <1>8, <2>1, <2>3 DEF GetTenantUpstream
  <2> QED BY <2>2, <2>3
<1>9. ASSUME EndVisit(v) PROVE RInv'
  BY <1>3, <1>9 DEF EndVisit
<1> QED BY <1>5, <1>6, <1>7, <1>8, <1>9
-----------------------------------------------------------------------------
\* The invariant holds at the start, ...
LEMMA RouteInitially == RouteInit => RInv
<1> SUFFICES ASSUME RouteInit PROVE RInv
  OBVIOUS
<1>1. NoVisit \in VisitRecords /\ NoVisit.pc = "rest"
  BY RoutingConstants DEF NoVisit, VisitRecords
<1>2. RouteTypeOK
  <2>1. catalog \in [Services -> Entries]
    BY RoutingConstants DEF RouteInit, NoEntry, Entries
  <2>2. \A s \in Services : catalog[s].path = NoPath => catalog[s] = NoEntry
    BY RoutingConstants DEF RouteInit
  <2>3. visit \in [Visits -> VisitRecords] /\ cache \in [Services -> Paths \cup {NoPath}]
    BY <1>1 DEF RouteInit, Empty
  <2>4. orders \in 0 .. MaxOrders /\ edgeFaults \in 0 .. MaxEdgeFaults
    BY RoutingConstants DEF RouteInit
  <2> QED BY <2>1, <2>2, <2>3, <2>4 DEF RouteInit, RouteTypeOK, Entries, VisitRecords
<1>3. Pathed /\ EntriesApart /\ CacheApart
  BY RoutingConstants DEF RouteInit, Pathed, EntriesApart, CacheApart, Overlap, NoEntry, Empty
<1>4. \A v \in Visits : Aware(v) /\ Checked(v)
  BY <1>1 DEF RouteInit, Aware, Checked
<1> QED BY <1>2, <1>3, <1>4 DEF RInv

\* ... and every step keeps it.
LEMMA RouteNextKeeps == RInv /\ [RouteNext]_routeVars => RInv'
<1> SUFFICES ASSUME RInv, [RouteNext]_routeVars PROVE RInv'
  OBVIOUS
<1>1. CASE RouteNext
  BY <1>1, UpsertStep, SeedStep, DisableStep, ChangeStep, EdgeStep, VisitStep DEF RouteNext
<1>2. CASE UNCHANGED routeVars
  BY <1>2 DEF routeVars, RInv, RouteTypeOK, Pathed, EntriesApart, CacheApart, Aware, Checked, EntitledBy
<1> QED BY <1>1, <1>2

\* The invariant holds at the start and is kept by every step.
THEOREM RoutingInductive == RouteSpec => []RInv
BY RouteInitially, RouteNextKeeps, PTL DEF RouteSpec

\* Every reachable state is well typed; no entry without a path is enabled.
THEOREM RoutingTyped == RouteSpec => []RouteTypeOK
<1>1. RInv => RouteTypeOK
  BY DEF RInv
<1> QED BY <1>1, RoutingInductive, PTL

\* A path leads to one service (MatchPublicPath of catalog_cache.go), because
\* ensureNoPublicPathConflict keeps the enabled services apart.
THEOREM OneServicePerPath == RouteSpec => []RoutingIsUnambiguous
<1>1. RInv => RoutingIsUnambiguous
  <2> SUFFICES ASSUME RInv, NEW p \in Paths PROVE Cardinality(Matches(p)) <= 1
    BY DEF RoutingIsUnambiguous
  <2>1. \A s, t \in Matches(p) : s = t
    BY PrefixesOverlap DEF Matches, RInv, RouteTypeOK, CacheApart
  <2> QED BY <2>1, AtMostOne
<1> QED BY <1>1, RoutingInductive, PTL

\* What is forwarded was entitled and served while its request was in flight
\* (the order of the checks in handleServiceRoute).
THEOREM LawfulForwards == RouteSpec => []ForwardsAreLawful
<1>1. RInv => ForwardsAreLawful
  BY DEF RInv, Checked, ForwardsAreLawful
<1> QED BY <1>1, RoutingInductive, PTL
-----------------------------------------------------------------------------
(***************************************************************************)
(* For any number of requests, sessions and streams: every open stream is  *)
(* in the table, or somebody has it who will close or enter it, and nobody *)
(* has more than a table's worth.                                          *)
(*                                                                         *)
(* What has been taken from the table is closed after the unlock, so a     *)
(* stream goes from hand to hand (Accounted), and those to be closed are   *)
(* no more than were in the table (Counts). A stream about to enter is     *)
(* nobody else's: not in the table, not told to a client, of no other      *)
(* request and nobody's to close (InHandIsOwn), so no close meets it.      *)
(***************************************************************************)

PostRecords ==
  [pc : Stages, session : 0 .. MaxStreams, closing : SUBSET Sessions]

Entering == {"endpoint", "insert"}
Streamless    == {"rest", "connect", "delete"}

\* A request deals with a stream that exists, once it has looked for one.
Placed(p) ==
  /\ post[p].session \in 0 .. streams /\ post[p].closing \subseteq 1 .. streams
  /\ post[p].pc \notin Streamless => post[p].session # 0

InHandIsOwn(p) ==
  post[p].pc \in Entering =>
    /\ post[p].session \in open \ (table \cup told \cup ending) /\ post[p].closing = {}
    /\ \A q \in Posts \ {p} :
         post[q].session # post[p].session /\ post[p].session \notin post[q].closing

Accounted == open \subseteq table \cup ending \cup UNION {Keeps(p) : p \in Posts}

Counts ==
  /\ Cardinality(table) <= TableLimit /\ Cardinality(ending) <= TableLimit
  /\ \A p \in Posts : Cardinality(post[p].closing) <= TableLimit

BInv ==
  /\ BridgeTypeOK
  /\ \A p \in Posts : Placed(p)
  /\ \A p \in Posts : InHandIsOwn(p)
  /\ Accounted
  /\ Counts
  /\ shut \/ ending = {}
-----------------------------------------------------------------------------
(* Counting                                                                *)

LEMMA Counted ==
  ASSUME NEW sessions, sessions \subseteq Sessions
  PROVE  IsFiniteSet(sessions) /\ Cardinality(sessions) \in Nat
<1>1. IsFiniteSet(Sessions)
  BY FS_Interval, BridgeConstants DEF Sessions
<1> QED BY <1>1, FS_Subset, FS_CardinalityType

LEMMA Tabled ==
  ASSUME BridgeTypeOK
  PROVE  /\ 1 .. streams \subseteq Sessions /\ streams \in Nat
         /\ table \subseteq Sessions /\ open \subseteq Sessions /\ ending \subseteq Sessions
<1>1. streams \in 0 .. MaxStreams /\ MaxStreams \in Nat
  BY BridgeConstants DEF BridgeTypeOK
<1>2. 1 .. streams \subseteq Sessions /\ streams \in Nat
  BY <1>1 DEF Sessions
<1> QED BY <1>2 DEF BridgeTypeOK

LEMMA ExcessOf ==
  ASSUME NEW n \in Int
  PROVE  Max({0, n}) = IF n > 0 THEN n ELSE 0
<1>1. \E x \in {0, n} : \A y \in {0, n} : x >= y
  BY SMT
<1>2. Max({0, n}) \in {0, n} /\ \A y \in {0, n} : Max({0, n}) >= y
  BY <1>1 DEF Max
<1> QED BY <1>2

\* What evictOldestLocked leaves is no more than the table takes.
LEMMA Evicted ==
  ASSUME NEW sessions, sessions \subseteq Sessions, NEW gone \in Evictions(sessions)
  PROVE  gone \subseteq sessions /\ Cardinality(sessions \ gone) <= TableLimit
<1>1. gone \subseteq sessions /\ Cardinality(gone) = Max({0, Cardinality(sessions) - TableLimit})
  BY DEF Evictions
<1>2. IsFiniteSet(sessions) /\ Cardinality(sessions) \in Nat /\ TableLimit \in Nat
  BY Counted, BridgeConstants
<1>3. sessions \cap gone = gone
  BY <1>1
<1>4. Cardinality(sessions \ gone) = Cardinality(sessions) - Cardinality(gone)
  BY <1>2, <1>3, FS_Difference
<1>5. Max({0, Cardinality(sessions) - TableLimit}) =
        IF Cardinality(sessions) - TableLimit > 0 THEN Cardinality(sessions) - TableLimit ELSE 0
  BY <1>2, ExcessOf
<1> QED BY <1>1, <1>2, <1>4, <1>5

\* Whoever has a part of what held no more than a table's worth has no more either.
LEMMA Fewer ==
  ASSUME NEW S, S \subseteq Sessions, Cardinality(S) <= TableLimit, NEW T, T \subseteq S
  PROVE  Cardinality(T) <= TableLimit
<1>1. IsFiniteSet(S) /\ Cardinality(S) \in Nat
  BY Counted
<1>2. Cardinality(T) <= Cardinality(S) /\ Cardinality(T) \in Nat
  BY <1>1, FS_Subset, FS_CardinalityType
<1> QED BY <1>1, <1>2, BridgeConstants

LEMMA OneIsFew ==
  ASSUME NEW s, NEW T, T \subseteq {s}
  PROVE  Cardinality(T) <= TableLimit
<1>1. IsFiniteSet({s}) /\ Cardinality({s}) = 1
  BY FS_Singleton
<1>2. Cardinality(T) <= 1 /\ Cardinality(T) \in Nat
  BY <1>1, FS_Subset, FS_CardinalityType
<1> QED BY <1>2, BridgeConstants

\* Two sets together have no more elements than one and the other.
LEMMA CountUnion ==
  ASSUME NEW S, IsFiniteSet(S), NEW T, IsFiniteSet(T)
  PROVE  /\ IsFiniteSet(S \cup T) /\ Cardinality(S \cup T) \in Nat
         /\ Cardinality(S) \in Nat /\ Cardinality(T) \in Nat
         /\ Cardinality(S \cup T) <= Cardinality(S) + Cardinality(T)
<1>1. /\ IsFiniteSet(S \cup T)
      /\ Cardinality(S \cup T) = Cardinality(S) + Cardinality(T) - Cardinality(S \cap T)
  BY FS_Union
<1>2. IsFiniteSet(S \cap T)
  BY FS_Intersection
<1>3. /\ Cardinality(S \cup T) \in Nat /\ Cardinality(S \cap T) \in Nat
      /\ Cardinality(S) \in Nat /\ Cardinality(T) \in Nat
  BY <1>1, <1>2, FS_CardinalityType
<1> QED BY <1>1, <1>3

\* If each of P has at most n, all have at most n times as many as they are.
LEMMA UnionBound ==
  ASSUME NEW P, IsFiniteSet(P), NEW K, NEW n \in Nat,
         \A p \in P : IsFiniteSet(K[p]) /\ Cardinality(K[p]) <= n
  PROVE  /\ IsFiniteSet(UNION {K[p] : p \in P})
         /\ Cardinality(UNION {K[p] : p \in P}) <= Cardinality(P) * n
<1> DEFINE all == UNION {K[p] : p \in P}
           num(p) == CHOOSE g : g \in Bijection(1 .. Cardinality(K[p]), K[p])
           who(s) == CHOOSE p \in P : s \in K[p]
           place(s) == CHOOSE i \in 1 .. n : num(who(s))[i] = s
           f == [s \in all |-> <<who(s), place(s)>>]
<1>1. ASSUME NEW p \in P
      PROVE  num(p) \in Bijection(1 .. Cardinality(K[p]), K[p]) /\ Cardinality(K[p]) \in Nat
  BY FS_CardinalityType DEF ExistsBijection
<1>2. ASSUME NEW s \in all
      PROVE  who(s) \in P /\ place(s) \in 1 .. n /\ num(who(s))[place(s)] = s
  <2>1. \E p \in P : s \in K[p]
    OBVIOUS
  <2>2. who(s) \in P /\ s \in K[who(s)]
    BY <2>1
  <2> HIDE DEF who, num
  <2>3. PICK i \in 1 .. Cardinality(K[who(s)]) : num(who(s))[i] = s
    BY <1>1, <2>2 DEF Bijection, Surjection
  <2>4. i \in 1 .. n
    BY <1>1, <2>2, <2>3
  <2>5. place(s) \in 1 .. n /\ num(who(s))[place(s)] = s
    BY <2>3, <2>4
  <2> QED BY <2>2, <2>5
<1> HIDE DEF who, num, place, all
<1>3. f \in [all -> P \X (1 .. n)]
  BY <1>2
<1>4. ASSUME NEW s \in all, NEW t \in all, f[s] = f[t]
      PROVE  s = t
  <2>1. who(s) = who(t) /\ place(s) = place(t)
    BY <1>4
  <2> QED BY <1>2, <2>1
<1> HIDE DEF f
<1>5. f \in Injection(all, P \X (1 .. n))
  BY <1>3, <1>4, Zenon DEF Injection, IsInjective
<1>6. IsFiniteSet(1 .. n) /\ Cardinality(1 .. n) = n
  <2>1. 1 \in Int /\ n \in Int /\ (IF 1 > n THEN 0 ELSE n - 1 + 1) = n
    OBVIOUS
  <2> QED BY <2>1, FS_Interval
<1>7. /\ IsFiniteSet(P \X (1 .. n))
      /\ Cardinality(P \X (1 .. n)) = Cardinality(P) * n
  BY <1>6, FS_Product
<1>8. IsFiniteSet(all) /\ Cardinality(all) <= Cardinality(P) * n
  BY <1>5, <1>7, FS_Injection
<1> QED BY <1>8 DEF all
-----------------------------------------------------------------------------
(* Whose a stream is                                                       *)

OwnerFits ==
  /\ owner \in [Sessions -> Posts \cup {NoPost}]
  /\ \A s \in Sessions : owner[s] # NoPost =>
       post[owner[s]].pc \in Holding /\ post[owner[s]].session = s

LEMMA PostTyped ==
  ASSUME BInv
  PROVE  /\ post \in [Posts -> PostRecords] /\ OwnerFits /\ streams \in Nat
         /\ table \subseteq 1 .. streams /\ told \subseteq 1 .. streams
         /\ open \subseteq 1 .. streams /\ ending \subseteq 1 .. streams
         /\ 0 .. streams \subseteq 0 .. MaxStreams /\ 1 .. streams \subseteq Sessions
         /\ 0 \in 0 .. streams /\ 0 \notin 1 .. streams /\ 1 .. streams \subseteq 0 .. streams
         /\ Quiet \in PostRecords
<1>1. streams \in 0 .. MaxStreams /\ MaxStreams \in Nat
  BY BridgeConstants DEF BInv, BridgeTypeOK
<1>2. /\ 0 .. streams \subseteq 0 .. MaxStreams /\ 1 .. streams \subseteq Sessions
      /\ 1 .. streams \subseteq 0 .. streams
  BY <1>1 DEF Sessions
<1>3. 0 \in 0 .. streams /\ 0 \in 0 .. MaxStreams /\ 0 \notin 1 .. streams /\ streams \in Nat
  BY <1>1
<1>4. Quiet \in PostRecords
  BY <1>3 DEF Quiet, PostRecords, Stages
<1> QED BY <1>2, <1>3, <1>4 DEF BInv, BridgeTypeOK, PostRecords, OwnerFits

\* A stream about to enter is no other request's, and not to be closed.
LEMMA HandsApart ==
  ASSUME BInv, NEW p \in Posts, post[p].pc \in Entering
  PROVE  /\ post[p].session \in open \ (table \cup told \cup ending) /\ post[p].session # 0
         /\ \A q \in Posts \ {p} :
              post[q].session # post[p].session /\ post[p].session \notin post[q].closing
BY PostTyped DEF BInv, InHandIsOwn

\* Any state that is typed, and whose records are.
LEMMA TypedAgain ==
  ASSUME post' \in [Posts -> PostRecords], OwnerFits', (\A q \in Posts : Placed(q))',
         streams' \in 0 .. MaxStreams, uptime' \in 0 .. MaxUptime, shut' \in BOOLEAN,
         lastUsed' \in [Sessions -> 0 .. MaxUptime],
         table' \subseteq 1 .. streams', open' \subseteq 1 .. streams',
         told' \subseteq 1 .. streams', ending' \subseteq 1 .. streams'
  PROVE  BridgeTypeOK'
BY DEF BridgeTypeOK, OwnerFits, PostRecords
-----------------------------------------------------------------------------
(* A request that has nothing in hand                                      *)

\* p is served on, to r: it may take sessions from the table, has to close
\* what it took, and may close what it had taken or its own.
Handles(p, r) ==
  /\ Serves(p, r) /\ r \in PostRecords
  /\ post[p].pc \notin Entering /\ r.pc \notin Entering
  /\ r.session \in {post[p].session, 0} \cup told
  /\ r.pc \notin Streamless => r.session # 0
  /\ r.closing \subseteq post[p].closing \cup table \cup ({post[p].session} \ {0})
  /\ Cardinality(r.closing) <= TableLimit
  /\ table' \subseteq table /\ table \ table' \subseteq r.closing \cup table'
  /\ open' \subseteq open /\ open \ open' \subseteq post[p].closing \cup {post[p].session}
  /\ open' \cap post[p].closing \subseteq r.closing
  /\ told' \subseteq told \cup ({post[p].session} \ {0})
  /\ UNCHANGED <<streams, ending, uptime, shut>>
  /\ lastUsed' \in [Sessions -> 0 .. MaxUptime]
  /\ OwnerFits'

LEMMA HandlesKeeps ==
  ASSUME BInv, NEW p \in Posts, NEW r, Handles(p, r)
  PROVE  BInv'
<1>1. /\ post' \in [Posts -> PostRecords] /\ post'[p] = r
      /\ \A q \in Posts \ {p} : post'[q] = post[q]
  BY PostTyped DEF Handles, Serves
<1>2. /\ post[p].session \in 0 .. streams /\ post[p].closing \subseteq 1 .. streams
      /\ {post[p].session} \ {0} \subseteq 1 .. streams
  <2>1. post[p].session \in 0 .. streams /\ post[p].closing \subseteq 1 .. streams /\ streams \in Nat
    BY PostTyped DEF BInv, Placed
  <2> QED BY <2>1
<1>3. (\A q \in Posts : Placed(q))'
  <2> SUFFICES ASSUME NEW q \in Posts PROVE Placed(q)'
    OBVIOUS
  <2>1. CASE q = p
    <3>1. r.session \in 0 .. streams /\ r.closing \subseteq 1 .. streams
      BY <1>2, PostTyped DEF Handles
    <3> QED BY <1>1, <2>1, <3>1 DEF Handles, Placed
  <2>2. CASE q # p
    BY <1>1, <2>2 DEF BInv, Placed, Handles
  <2> QED BY <2>1, <2>2
<1>4. BridgeTypeOK'
  <2>1. /\ streams' \in 0 .. MaxStreams /\ uptime' \in 0 .. MaxUptime /\ shut' \in BOOLEAN
    BY DEF Handles, BInv, BridgeTypeOK
  <2>2. /\ table' \subseteq 1 .. streams' /\ open' \subseteq 1 .. streams'
        /\ told' \subseteq 1 .. streams' /\ ending' \subseteq 1 .. streams'
    BY <1>2, PostTyped DEF Handles
  <2>3. OwnerFits' /\ lastUsed' \in [Sessions -> 0 .. MaxUptime]
    BY DEF Handles
  <2> QED BY <1>1, <1>3, <2>1, <2>2, <2>3, TypedAgain
<1>5. ASSUME NEW h \in Posts PROVE InHandIsOwn(h)'
  <2> SUFFICES ASSUME post'[h].pc \in Entering
               PROVE  /\ post'[h].session \in open' \ (table' \cup told' \cup ending')
                      /\ post'[h].closing = {}
                      /\ \A q \in Posts \ {h} : /\ post'[q].session # post'[h].session
                                                /\ post'[h].session \notin post'[q].closing
    BY DEF InHandIsOwn
  <2>1. h # p /\ post'[h] = post[h] /\ post[h].pc \in Entering
    BY <1>1 DEF Handles
  <2>2. /\ post[h].session \in open \ (table \cup told \cup ending) /\ post[h].session # 0
        /\ post[h].closing = {}
        /\ \A q \in Posts \ {h} :
             post[q].session # post[h].session /\ post[h].session \notin post[q].closing
    BY <2>1, HandsApart DEF BInv, InHandIsOwn
  <2>3. post[h].session # post[p].session /\ post[h].session \notin post[p].closing
    BY <2>1, <2>2
  <2>4. post[h].session \in open' \ (table' \cup told' \cup ending')
    BY <2>2, <2>3 DEF Handles
  <2>5. r.session # post[h].session /\ post[h].session \notin r.closing
    BY <2>2, <2>3 DEF Handles
  <2>6. \A q \in Posts \ {h} : /\ post'[q].session # post[h].session
                               /\ post[h].session \notin post'[q].closing
    BY <1>1, <2>2, <2>5
  <2> QED BY <2>1, <2>2, <2>4, <2>6
<1>6. Accounted'
  <2> SUFFICES ASSUME NEW s \in open', s \notin table', s \notin ending'
               PROVE  \E q \in Posts : s \in Keeps(q)'
    BY DEF Accounted
  <2>1. s \in open /\ s \notin ending
    BY DEF Handles
  <2>2. CASE s \in table
    <3>1. s \in r.closing
      BY <2>2 DEF Handles
    <3> QED BY <1>1, <3>1 DEF Keeps
  <2>3. ASSUME NEW q \in Posts, s \in Keeps(q)
        PROVE  \E o \in Posts : s \in Keeps(o)'
    <3>1. CASE q = p
      <4>1. s \in post[p].closing
        BY <2>3, <3>1 DEF Keeps, InHand, Entering, Handles
      <4>2. s \in r.closing
        BY <4>1 DEF Handles
      <4> QED BY <1>1, <4>2 DEF Keeps
    <3>2. CASE q # p
      BY <1>1, <2>3, <3>2 DEF Keeps, InHand
    <3> QED BY <3>1, <3>2
  <2> QED BY <2>1, <2>2, <2>3 DEF BInv, Accounted
<1>7. Counts'
  <2>1. Cardinality(table') <= TableLimit
    BY Tabled, Fewer DEF BInv, Counts, Handles
  <2>2. ASSUME NEW q \in Posts PROVE Cardinality(post'[q].closing) <= TableLimit
    BY <1>1 DEF BInv, Counts, Handles
  <2> QED BY <2>1, <2>2 DEF BInv, Counts, Handles
<1> QED BY <1>3, <1>4, <1>5, <1>6, <1>7 DEF BInv, Handles

\* A request that does not hold session.mu, or goes on holding it, changes no owner.
LEMMA OwnerKept ==
  ASSUME BInv, NEW p \in Posts, NEW r \in PostRecords, Serves(p, r), owner' = owner,
         \/ post[p].pc \notin Holding
         \/ r.pc \in Holding /\ r.session = post[p].session
  PROVE  OwnerFits'
<1>1. post' = [post EXCEPT ![p] = r] /\ post \in [Posts -> PostRecords] /\ OwnerFits
  BY PostTyped DEF Serves
<1> QED BY <1>1, BridgeConstants DEF OwnerFits

LEMMA OwnerFreed ==
  ASSUME BInv, NEW p \in Posts, NEW r \in PostRecords, Serves(p, r), Unlocks(p)
  PROVE  OwnerFits'
<1>1. post' = [post EXCEPT ![p] = r] /\ post \in [Posts -> PostRecords] /\ OwnerFits
  BY PostTyped DEF Serves
<1>2. owner' = [owner EXCEPT ![post[p].session] = NoPost]
  BY DEF Unlocks
<1> QED BY <1>1, <1>2, BridgeConstants DEF OwnerFits

\* What a request is like.
LEMMA Record ==
  ASSUME BInv, NEW p \in Posts
  PROVE  /\ post[p] \in PostRecords /\ Placed(p) /\ InHandIsOwn(p)
         /\ Cardinality(post[p].closing) <= TableLimit /\ Cardinality({}) <= TableLimit
         /\ lastUsed \in [Sessions -> 0 .. MaxUptime] /\ uptime \in 0 .. MaxUptime
BY PostTyped, FS_EmptySet, BridgeConstants DEF BInv, Counts, BridgeTypeOK
-----------------------------------------------------------------------------
(* The steps of a request                                                  *)

LEMMA HandlePostStep ==
  ASSUME BInv, NEW p \in Posts, NEW s \in told \cup {0}, HandlePost(p, s)
  PROVE  BInv'
<1> DEFINE r == [pc |-> IF s = 0 THEN "connect" ELSE "lookup", session |-> s, closing |-> Idlers]
<1>1. Idlers \subseteq table /\ s \in 0 .. MaxStreams
  BY PostTyped DEF Idlers
<1>2. /\ r \in PostRecords /\ r.session = s /\ r.closing = Idlers
      /\ r.pc \notin Entering /\ (r.pc \notin Streamless => s # 0)
  BY <1>1, PostTyped DEF PostRecords, Stages, Entering, Streamless
<1>3. Serves(p, r) /\ post[p].pc = "rest" /\ post[p].closing = {} /\ table' = table \ Idlers
      /\ UNCHANGED <<uptime, streams, lastUsed, open, owner, told, shut, ending>>
  BY DEF HandlePost, At
<1> HIDE DEF r
<1>4. OwnerFits'
  BY <1>2, <1>3, OwnerKept DEF Holding
<1>5. Cardinality(Idlers) <= TableLimit
  BY <1>1, Tabled, Fewer DEF BInv, Counts
<1>6. Handles(p, r)
  BY <1>1, <1>2, <1>3, <1>4, <1>5, Record DEF Handles, Entering
<1> QED BY <1>6, HandlesKeeps

LEMMA HandleDeleteStep ==
  ASSUME BInv, NEW p \in Posts, NEW s \in told, HandleDelete(p, s)
  PROVE  BInv'
<1> DEFINE r == [Quiet EXCEPT !.pc = "delete", !.closing = {s} \cap table]
<1>1. /\ r \in PostRecords /\ r.session = 0 /\ r.closing = {s} \cap table /\ r.pc = "delete"
  BY PostTyped DEF Quiet, PostRecords, Stages
<1>2. /\ Serves(p, r) /\ post[p].pc = "rest" /\ post[p].closing = {} /\ table' = table \ {s}
      /\ UNCHANGED <<uptime, streams, lastUsed, open, owner, told, shut, ending>>
  BY DEF HandleDelete, At
<1> HIDE DEF r
<1>3. OwnerFits'
  BY <1>1, <1>2, OwnerKept DEF Holding
<1>4. Cardinality(r.closing) <= TableLimit
  BY <1>1, OneIsFew
<1>5. Handles(p, r)
  BY <1>1, <1>2, <1>3, <1>4, Record DEF Handles, Entering, Streamless
<1> QED BY <1>5, HandlesKeeps

LEMMA CloseTakenStep ==
  ASSUME BInv, NEW p \in Posts, CloseTaken(p)
  PROVE  BInv'
<1>1. PICK s \in post[p].closing :
        /\ open' = open \ {s}
        /\ Serves(p, [post[p] EXCEPT !.closing = post[p].closing \ {s}])
        /\ UNCHANGED <<uptime, streams, table, lastUsed, owner, told, shut, ending>>
  BY DEF CloseTaken
<1> DEFINE r == [post[p] EXCEPT !.closing = post[p].closing \ {s}]
<1>2. /\ r \in PostRecords /\ r.pc = post[p].pc /\ r.session = post[p].session
      /\ r.closing = post[p].closing \ {s}
  BY Record DEF PostRecords
<1>3. Serves(p, r)
  BY <1>1
<1> HIDE DEF r
<1>4. OwnerFits'
  BY <1>1, <1>2, <1>3, OwnerKept
<1>5. post[p].pc \notin Entering
  BY <1>1, Record DEF InHandIsOwn
<1>6. Cardinality(r.closing) <= TableLimit
  BY <1>2, Record, PostTyped, Fewer DEF Placed
<1>7. Handles(p, r)
  BY <1>1, <1>2, <1>3, <1>4, <1>5, <1>6, Record DEF Handles, Placed
<1> QED BY <1>7, HandlesKeeps

\* A request that has nothing to close goes from pc to pc2, and no table changes.
LEMMA GoesOn ==
  ASSUME BInv, NEW p \in Posts, NEW pc \in {"queue", "post", "await", "fail"}, GoesTo(p, pc),
         post[p].closing = {}, post[p].pc \notin Streamless \cup Entering,
         UNCHANGED <<uptime, streams, shut, table, told, ending>>, OwnerFits',
         open' \subseteq open, open \ open' \subseteq {post[p].session},
         lastUsed' \in [Sessions -> 0 .. MaxUptime]
  PROVE  BInv'
<1> DEFINE r == [post[p] EXCEPT !.pc = pc]
<1>1. r \in PostRecords /\ r.pc = pc /\ r.session = post[p].session /\ r.closing = {}
  BY Record DEF PostRecords, Stages
<1>2. Serves(p, r)
  BY DEF GoesTo
<1> HIDE DEF r
<1>3. Handles(p, r)
  BY <1>1, <1>2, Record DEF Handles, Placed, Entering, Streamless
<1> QED BY <1>3, HandlesKeeps

\* A request that has nothing to close is over.
LEMMA ComesToRest ==
  ASSUME BInv, NEW p \in Posts, Serves(p, Quiet), post[p].closing = {}, post[p].pc \notin Entering,
         told' \subseteq told \cup ({post[p].session} \ {0}),
         UNCHANGED <<uptime, streams, shut, table, open, ending, lastUsed>>, OwnerFits'
  PROVE  BInv'
<1>1. Quiet \in PostRecords /\ Quiet.pc = "rest" /\ Quiet.session = 0 /\ Quiet.closing = {}
  BY PostTyped DEF Quiet
<1>2. Handles(p, Quiet)
  BY <1>1, Record DEF Handles, Entering, Streamless
<1> QED BY <1>2, HandlesKeeps

LEMMA FindSessionStep ==
  ASSUME BInv, NEW p \in Posts, FindSession(p)
  PROVE  BInv'
<1>0. /\ post[p].pc = "lookup" /\ post[p].closing = {}
      /\ UNCHANGED <<uptime, streams, table, open, owner, told, shut, ending>>
  BY DEF FindSession, At
<1>1. CASE Serves(p, Quiet) /\ UNCHANGED lastUsed
  <2>1. OwnerFits'
    BY <1>0, <1>1, OwnerKept, PostTyped DEF Holding
  <2> QED BY <1>0, <1>1, <2>1, ComesToRest DEF Entering
<1>2. CASE lastUsed' = [lastUsed EXCEPT ![post[p].session] = uptime] /\ GoesTo(p, "queue")
  <2>1. lastUsed' \in [Sessions -> 0 .. MaxUptime]
    BY <1>2, Record
  <2>2. [post[p] EXCEPT !.pc = "queue"] \in PostRecords
    BY Record DEF PostRecords, Stages
  <2>3. OwnerFits'
    BY <1>0, <1>2, <2>2, OwnerKept DEF Holding, GoesTo
  <2> QED BY <1>0, <1>2, <2>1, <2>3, GoesOn DEF Entering, Streamless
<1> QED BY <1>1, <1>2 DEF FindSession

LEMMA TakeSessionStep ==
  ASSUME BInv, NEW p \in Posts, TakeSession(p)
  PROVE  BInv'
<1>1. /\ post[p].pc = "queue" /\ post[p].closing = {} /\ owner[post[p].session] = NoPost
      /\ owner' = [owner EXCEPT ![post[p].session] = p]
      /\ GoesTo(p, "post")
      /\ UNCHANGED <<uptime, streams, table, lastUsed, open, told, shut, ending>>
  BY DEF TakeSession, At
<1>2. OwnerFits'
  <2>1. /\ post' = [post EXCEPT ![p] = [post[p] EXCEPT !.pc = "post"]]
        /\ post \in [Posts -> PostRecords] /\ OwnerFits
    BY <1>1, PostTyped DEF Serves, GoesTo
  <2>2. /\ post'[p].pc = "post" /\ post'[p].session = post[p].session
        /\ \A q \in Posts \ {p} : post'[q] = post[q]
    BY <2>1 DEF PostRecords
  <2>3. owner' \in [Sessions -> Posts \cup {NoPost}]
    BY <1>1, <2>1 DEF OwnerFits
  <2>4. ASSUME NEW s \in Sessions, owner'[s] # NoPost
        PROVE  post'[owner'[s]].pc \in Holding /\ post'[owner'[s]].session = s
    <3>1. CASE s = post[p].session
      BY <1>1, <2>1, <2>2, <3>1 DEF OwnerFits, Holding
    <3>2. CASE s # post[p].session
      <4>1. owner'[s] = owner[s] /\ owner[s] \in Posts
        BY <1>1, <2>1, <2>4, <3>2 DEF OwnerFits
      <4>2. post[owner[s]].pc \in Holding /\ post[owner[s]].session = s
        BY <2>1, <2>4, <4>1 DEF OwnerFits
      <4>3. owner[s] # p
        BY <1>1, <4>2 DEF Holding
      <4> QED BY <2>2, <4>1, <4>2, <4>3
    <3> QED BY <3>1, <3>2
  <2> QED BY <2>3, <2>4 DEF OwnerFits
<1>3. lastUsed' \in [Sessions -> 0 .. MaxUptime]
  BY <1>1, Record
<1> QED BY <1>1, <1>2, <1>3, GoesOn DEF Entering, Streamless

\* The exchange goes on: the request waits on the stream, or has waited too long.
LEMMA WaitStep ==
  ASSUME BInv, NEW p \in Posts, Await(p) \/ TimesOut(p)
  PROVE  BInv'
<1>1. PICK pc \in {"await", "fail"} : GoesTo(p, pc)
  BY DEF Await, TimesOut
<1>2. /\ post[p].pc \in {"post", "await"} /\ post[p].closing = {}
      /\ open' \subseteq open /\ open \ open' \subseteq {post[p].session}
      /\ UNCHANGED <<uptime, streams, table, lastUsed, owner, told, shut, ending>>
  BY DEF Await, TimesOut, At
<1> DEFINE r == [post[p] EXCEPT !.pc = pc]
<1>3. r \in PostRecords /\ r.pc \in Holding /\ r.session = post[p].session /\ Serves(p, r)
  BY <1>1, Record DEF PostRecords, Stages, Holding, GoesTo
<1> HIDE DEF r
<1>4. OwnerFits'
  BY <1>2, <1>3, OwnerKept
<1>5. lastUsed' \in [Sessions -> 0 .. MaxUptime]
  BY <1>2, Record
<1> QED BY <1>1, <1>2, <1>4, <1>5, GoesOn DEF Entering, Streamless

\* The exchange ends with an answer, good or bad.
LEMMA AnswerStep ==
  ASSUME BInv, NEW p \in Posts, ForwardDone(p) \/ StreamAnswers(p) \/ FailureAnswered(p)
  PROVE  BInv'
<1>1. /\ Answers(p) /\ Unlocks(p) /\ post[p].pc \in {"post", "await", "drop"}
      /\ post[p].closing = {}
      /\ UNCHANGED <<uptime, streams, table, lastUsed, open, shut, ending>>
  BY DEF ForwardDone, StreamAnswers, FailureAnswered, At
<1>2. Serves(p, Quiet) /\ told' = told \cup ({post[p].session} \ {0})
  BY <1>1 DEF Answers
<1>3. OwnerFits'
  BY <1>1, <1>2, PostTyped, OwnerFreed
<1> QED BY <1>1, <1>2, <1>3, ComesToRest DEF Entering

LEMMA DeleteAnsweredStep ==
  ASSUME BInv, NEW p \in Posts, DeleteAnswered(p)
  PROVE  BInv'
<1>1. /\ Serves(p, Quiet) /\ post[p].pc = "delete" /\ post[p].closing = {}
      /\ UNCHANGED <<uptime, streams, table, lastUsed, open, owner, told, shut, ending>>
  BY DEF DeleteAnswered, At
<1>2. OwnerFits'
  BY <1>1, OwnerKept, PostTyped DEF Holding
<1> QED BY <1>1, <1>2, ComesToRest DEF Entering

LEMMA ForwardFailsStep ==
  ASSUME BInv, NEW p \in Posts, ForwardFails(p)
  PROVE  BInv'
<1> DEFINE s == post[p].session
           r == [post[p] EXCEPT !.pc = "drop", !.closing = {s}]
<1>1. /\ post[p].pc \in {"post", "await", "fail"} /\ post[p].closing = {}
      /\ table' = table \ {s} /\ Serves(p, r)
      /\ UNCHANGED <<uptime, streams, lastUsed, open, owner, told, shut, ending>>
  BY DEF ForwardFails, At
<1>2. s # 0 /\ {s} \subseteq Sessions
  <2>1. s # 0 /\ s \in 0 .. streams
    BY <1>1, Record DEF Placed, Streamless
  <2>2. s \in 1 .. streams
    BY <2>1, PostTyped
  <2> QED BY <2>1, <2>2, PostTyped
<1>3. r \in PostRecords /\ r.pc = "drop" /\ r.session = s /\ r.closing = {s}
  BY <1>2, Record DEF PostRecords, Stages
<1>4. Cardinality({s}) <= TableLimit
  BY OneIsFew
<1> HIDE DEF r
<1>5. OwnerFits'
  BY <1>1, <1>3, OwnerKept DEF Holding
<1>6. Handles(p, r)
  BY <1>1, <1>2, <1>3, <1>4, <1>5, Record DEF Handles, Entering, Streamless
<1> QED BY <1>6, HandlesKeeps
-----------------------------------------------------------------------------
(* Opening a stream and entering it                                        *)

\* The service answers with a stream that nobody has seen before.
LEMMA ConnectStep ==
  ASSUME BInv, NEW p \in Posts, Connect(p)
  PROVE  BInv'
<1>0. /\ post[p].pc = "connect" /\ post[p].closing = {}
      /\ UNCHANGED <<uptime, table, lastUsed, owner, told, shut, ending>>
  BY DEF Connect, At
<1>1. CASE Serves(p, Quiet) /\ UNCHANGED <<streams, open>>
  <2>1. OwnerFits'
    BY <1>0, <1>1, OwnerKept, PostTyped DEF Holding
  <2> QED BY <1>0, <1>1, <2>1, ComesToRest DEF Entering
<1>2. CASE /\ streams < MaxStreams /\ streams' = streams + 1
           /\ open' = open \cup {streams + 1}
           /\ Serves(p, [post[p] EXCEPT !.pc = "endpoint", !.session = streams + 1])
  <2> DEFINE n == streams + 1
             r == [post[p] EXCEPT !.pc = "endpoint", !.session = n]
  <2>1. /\ n \in 1 .. MaxStreams /\ n \in 1 .. n /\ n \in 0 .. n /\ n \notin 0 .. streams
        /\ 0 .. streams \subseteq 0 .. n /\ 1 .. streams \subseteq 1 .. n
        /\ n \notin 1 .. streams /\ n # 0 /\ n \in 0 .. MaxStreams
    BY <1>2, PostTyped, BridgeConstants
  <2>2. Serves(p, r) /\ streams' = n /\ open' = open \cup {n}
    BY <1>2
  <2> HIDE DEF n
  <2>3. r \in PostRecords /\ r.pc = "endpoint" /\ r.session = n /\ r.closing = {}
    BY <1>0, <2>1, Record DEF PostRecords, Stages
  <2> HIDE DEF r
  <2>4. /\ post' \in [Posts -> PostRecords] /\ post'[p] = r
        /\ \A q \in Posts \ {p} : post'[q] = post[q]
    BY <2>2, <2>3, PostTyped DEF Serves
  <2>5. OwnerFits'
    BY <1>0, <2>2, <2>3, OwnerKept DEF Holding
  <2>6. ASSUME NEW q \in Posts PROVE Placed(q)'
    <3>1. CASE q = p
      BY <2>1, <2>2, <2>3, <2>4, <3>1 DEF Placed
    <3>2. CASE q # p
      BY <2>1, <2>2, <2>4, <3>2 DEF BInv, Placed
    <3> QED BY <3>1, <3>2
  <2>7. BridgeTypeOK'
    <3>1. /\ streams' \in 0 .. MaxStreams /\ table' \subseteq 1 .. streams'
          /\ open' \subseteq 1 .. streams' /\ told' \subseteq 1 .. streams'
          /\ ending' \subseteq 1 .. streams'
      BY <1>0, <2>1, <2>2, PostTyped
    <3>2. /\ uptime' \in 0 .. MaxUptime /\ shut' \in BOOLEAN
          /\ lastUsed' \in [Sessions -> 0 .. MaxUptime]
      BY <1>0 DEF BInv, BridgeTypeOK
    <3> QED BY <2>4, <2>5, <2>6, <3>1, <3>2, TypedAgain
  <2>8. \A q \in Posts : post[q].session # n /\ n \notin post[q].closing
    BY <2>1 DEF BInv, Placed
  <2>9. n \notin told /\ n \notin table /\ n \notin ending
    BY <2>1, PostTyped
  <2>10. ASSUME NEW q \in Posts PROVE InHandIsOwn(q)'
    <3>1. CASE q = p
      BY <1>0, <2>2, <2>3, <2>4, <2>8, <2>9, <3>1 DEF InHandIsOwn
    <3>2. CASE q # p
      BY <1>0, <2>2, <2>3, <2>4, <2>8, <3>2 DEF BInv, InHandIsOwn
    <3> QED BY <3>1, <3>2
  <2>11. Accounted'
    <3>1. Keeps(p) = {} /\ n \in Keeps(p)'
      BY <1>0, <2>3, <2>4 DEF Keeps, InHand
    <3>2. \A q \in Posts \ {p} : Keeps(q)' = Keeps(q)
      BY <2>4 DEF Keeps, InHand
    <3>3. (UNION {Keeps(q) : q \in Posts}) \cup {n} \subseteq UNION {Keeps(q)' : q \in Posts}
      BY <3>1, <3>2
    <3> QED BY <1>0, <2>2, <3>3 DEF BInv, Accounted
  <2>12. Counts'
    <3>1. \A q \in Posts : Cardinality(post'[q].closing) <= TableLimit
      BY <2>3, <2>4, Record DEF BInv, Counts
    <3> QED BY <1>0, <3>1 DEF BInv, Counts
  <2> QED BY <1>0, <2>6, <2>7, <2>10, <2>11, <2>12 DEF BInv
<1> QED BY <1>1, <1>2 DEF Connect

\* The stream stays in hand, or is closed by the request that opened it.
LEMMA EndpointStep ==
  ASSUME BInv, NEW p \in Posts, EndpointFound(p) \/ EndpointMissing(p)
  PROVE  BInv'
<1> DEFINE s == post[p].session
<1>1. /\ post[p].pc = "endpoint" /\ post[p].closing = {}
      /\ UNCHANGED <<uptime, streams, table, owner, told, shut, ending>>
  BY DEF EndpointFound, EndpointMissing, At
<1>2. PICK r \in PostRecords :
        /\ Serves(p, r) /\ r.closing = {} /\ r.pc \in {"insert", "rest"}
        /\ r.pc = "insert" => r.session = s /\ open' = open
        /\ r.pc = "rest" => r.session = 0 /\ open' = open \ {s}
  <2>1. CASE EndpointFound(p)
    <3> DEFINE r == [post[p] EXCEPT !.pc = "insert"]
    <3>1. r \in PostRecords /\ r.pc = "insert" /\ r.session = s /\ r.closing = {}
      BY <1>1, Record DEF PostRecords, Stages
    <3>2. Serves(p, r) /\ open' = open
      BY <2>1 DEF EndpointFound, GoesTo
    <3> HIDE DEF r
    <3> QED BY <3>1, <3>2
  <2>2. CASE EndpointMissing(p)
    <3>1. Quiet \in PostRecords /\ Quiet.pc = "rest" /\ Quiet.session = 0 /\ Quiet.closing = {}
      BY PostTyped DEF Quiet
    <3>2. Serves(p, Quiet) /\ open' = open \ {s}
      BY <2>2 DEF EndpointMissing
    <3> QED BY <3>1, <3>2
  <2> QED BY <2>1, <2>2
<1>3. /\ s \in open \ (table \cup told \cup ending) /\ s # 0
      /\ \A q \in Posts \ {p} : post[q].session # s /\ s \notin post[q].closing
  BY <1>1, HandsApart DEF Entering
<1>4. /\ post' \in [Posts -> PostRecords] /\ post'[p] = r
      /\ \A q \in Posts \ {p} : post'[q] = post[q]
  BY <1>2, PostTyped DEF Serves
<1>5. OwnerFits'
  BY <1>1, <1>2, OwnerKept DEF Holding
<1>6. open' \subseteq open /\ open \ open' \subseteq {s}
  BY <1>2
<1>7. ASSUME NEW q \in Posts PROVE Placed(q)'
  <2>1. CASE q = p
    BY <1>1, <1>2, <1>4, <2>1, Record, PostTyped DEF Placed, Streamless
  <2>2. CASE q # p
    BY <1>1, <1>4, <2>2 DEF BInv, Placed
  <2> QED BY <2>1, <2>2
<1>8. BridgeTypeOK'
  <2>1. lastUsed' \in [Sessions -> 0 .. MaxUptime]
    BY Record DEF EndpointFound, EndpointMissing
  <2>2. /\ table' \subseteq 1 .. streams' /\ open' \subseteq 1 .. streams'
        /\ told' \subseteq 1 .. streams' /\ ending' \subseteq 1 .. streams'
    BY <1>1, <1>6, PostTyped
  <2>3. streams' \in 0 .. MaxStreams /\ uptime' \in 0 .. MaxUptime /\ shut' \in BOOLEAN
    BY <1>1 DEF BInv, BridgeTypeOK
  <2> QED BY <1>4, <1>5, <1>7, <2>1, <2>2, <2>3, TypedAgain
<1>9. ASSUME NEW h \in Posts PROVE InHandIsOwn(h)'
  <2> SUFFICES ASSUME post'[h].pc \in Entering
               PROVE  /\ post'[h].session \in open' \ (table' \cup told' \cup ending')
                      /\ post'[h].closing = {}
                      /\ \A q \in Posts \ {h} : /\ post'[q].session # post'[h].session
                                                /\ post'[h].session \notin post'[q].closing
    BY DEF InHandIsOwn
  <2>1. CASE h = p
    BY <1>1, <1>2, <1>3, <1>4, <2>1 DEF Entering
  <2>2. CASE h # p
    <3>1. post'[h] = post[h] /\ post[h].closing = {}
      BY <1>4, <2>2 DEF BInv, InHandIsOwn
    <3>2. /\ post[h].session \in open \ (table \cup told \cup ending) /\ post[h].session # 0
          /\ \A q \in Posts \ {h} :
               post[q].session # post[h].session /\ post[h].session \notin post[q].closing
      BY <3>1, HandsApart
    <3>3. post[h].session # s
      BY <1>3, <2>2
    <3>4. \A q \in Posts \ {h} : /\ post'[q].session # post[h].session
                                 /\ post[h].session \notin post'[q].closing
      BY <1>2, <1>4, <3>2, <3>3
    <3> QED BY <1>1, <1>6, <3>1, <3>2, <3>3, <3>4
  <2> QED BY <2>1, <2>2
<1>10. Accounted'
  <2>1. \A q \in Posts \ {p} : Keeps(q)' = Keeps(q)
    BY <1>4 DEF Keeps, InHand
  <2>2. Keeps(p) = {s} /\ Keeps(p)' = (IF r.pc = "insert" THEN {s} ELSE {})
    BY <1>1, <1>2, <1>4 DEF Keeps, InHand
  <2>3. CASE r.pc = "insert"
    <3>1. UNION {Keeps(q) : q \in Posts} \subseteq UNION {Keeps(q)' : q \in Posts}
      BY <2>1, <2>2, <2>3
    <3> QED BY <1>1, <1>2, <2>3, <3>1 DEF BInv, Accounted
  <2>4. CASE r.pc = "rest"
    <3>1. UNION {Keeps(q) : q \in Posts} \subseteq (UNION {Keeps(q)' : q \in Posts}) \cup {s}
      BY <2>1, <2>2
    <3> QED BY <1>1, <1>2, <2>4, <3>1 DEF BInv, Accounted
  <2> QED BY <1>2, <2>3, <2>4
<1>11. Counts'
  <2>1. \A q \in Posts : Cardinality(post'[q].closing) <= TableLimit
    BY <1>2, <1>4, Record DEF BInv, Counts
  <2> QED BY <1>1, <2>1 DEF BInv, Counts
<1> QED BY <1>1, <1>7, <1>8, <1>9, <1>10, <1>11 DEF BInv

\* The stream goes from the hand to the table, or is closed with the others that
\* are too many.
LEMMA InsertStep ==
  ASSUME BInv, NEW p \in Posts, Insert(p)
  PROVE  BInv'
<1> DEFINE s == post[p].session
           r == [post[p] EXCEPT !.pc = "queue"]
<1>1. PICK gone \in Evictions(table \cup {s}) :
         table' = (table \cup {s}) \ gone /\ open' = open \ gone
  BY DEF Insert, Inserted
<1>2. /\ post[p].pc = "insert" /\ post[p].closing = {} /\ Serves(p, r)
      /\ UNCHANGED <<uptime, streams, lastUsed, owner, told, shut, ending>>
  BY DEF Insert, At, GoesTo
<1>3. /\ s \in open \ (table \cup told \cup ending) /\ s # 0
      /\ \A q \in Posts \ {p} : post[q].session # s /\ s \notin post[q].closing
  BY <1>2, HandsApart DEF Entering
<1>4. table \cup {s} \subseteq Sessions /\ s \in 1 .. streams
  BY <1>3, PostTyped
<1>5. gone \subseteq table \cup {s} /\ Cardinality(table') <= TableLimit
  BY <1>1, <1>4, Evicted
<1>6. r \in PostRecords /\ r.pc = "queue" /\ r.session = s /\ r.closing = {}
  BY <1>2, Record DEF PostRecords, Stages
<1> HIDE DEF r, s
<1>7. /\ post' \in [Posts -> PostRecords] /\ post'[p] = r
      /\ \A q \in Posts \ {p} : post'[q] = post[q]
  BY <1>2, <1>6, PostTyped DEF Serves
<1>8. OwnerFits'
  BY <1>2, <1>6, OwnerKept DEF Holding
<1>9. ASSUME NEW q \in Posts PROVE Placed(q)'
  <2>1. CASE q = p
    BY <1>2, <1>3, <1>4, <1>6, <1>7, <2>1, PostTyped DEF Placed
  <2>2. CASE q # p
    BY <1>2, <1>7, <2>2 DEF BInv, Placed
  <2> QED BY <2>1, <2>2
<1>10. BridgeTypeOK'
  <2>1. /\ table' \subseteq 1 .. streams' /\ open' \subseteq 1 .. streams'
        /\ told' \subseteq 1 .. streams' /\ ending' \subseteq 1 .. streams'
    BY <1>1, <1>2, <1>4, PostTyped
  <2>2. /\ streams' \in 0 .. MaxStreams /\ uptime' \in 0 .. MaxUptime /\ shut' \in BOOLEAN
        /\ lastUsed' \in [Sessions -> 0 .. MaxUptime]
    BY <1>2 DEF BInv, BridgeTypeOK
  <2> QED BY <1>7, <1>8, <1>9, <2>1, <2>2, TypedAgain
<1>11. ASSUME NEW h \in Posts PROVE InHandIsOwn(h)'
  <2>1. CASE h = p
    BY <1>6, <1>7, <2>1 DEF InHandIsOwn, Entering
  <2>2. CASE h # p
    <3> SUFFICES ASSUME post[h].pc \in Entering
                 PROVE  /\ post[h].session \in open' \ (table' \cup told' \cup ending')
                        /\ post[h].closing = {}
                        /\ \A q \in Posts \ {h} : /\ post'[q].session # post[h].session
                                                  /\ post[h].session \notin post'[q].closing
      BY <1>7, <2>2 DEF InHandIsOwn
    <3>1. /\ post[h].session \in open \ (table \cup told \cup ending) /\ post[h].session # 0
          /\ post[h].closing = {}
          /\ \A q \in Posts \ {h} :
               post[q].session # post[h].session /\ post[h].session \notin post[q].closing
      BY HandsApart DEF BInv, InHandIsOwn
    <3>2. post[h].session # s
      BY <1>3, <2>2
    <3>3. \A q \in Posts \ {h} : /\ post'[q].session # post[h].session
                                 /\ post[h].session \notin post'[q].closing
      BY <1>6, <1>7, <3>1, <3>2
    <3> QED BY <1>1, <1>2, <1>5, <3>1, <3>2, <3>3
  <2> QED BY <2>1, <2>2
<1>12. Accounted'
  <2>1. \A q \in Posts \ {p} : Keeps(q)' = Keeps(q)
    BY <1>7 DEF Keeps, InHand
  <2>2. Keeps(p) = {s}
    BY <1>2 DEF Keeps, InHand, s
  <2>3. UNION {Keeps(q) : q \in Posts} \subseteq (UNION {Keeps(q)' : q \in Posts}) \cup {s}
    BY <2>1, <2>2
  <2> QED BY <1>1, <1>2, <2>3 DEF BInv, Accounted
<1>13. Counts'
  <2>1. \A q \in Posts : Cardinality(post'[q].closing) <= TableLimit
    BY <1>6, <1>7, Record DEF BInv, Counts
  <2> QED BY <1>2, <1>5, <2>1 DEF BInv, Counts
<1> QED BY <1>2, <1>9, <1>10, <1>11, <1>12, <1>13 DEF BInv
-----------------------------------------------------------------------------
(* The clock, and Close                                                    *)

\* What Close takes from the table is Close's to close.
LEMMA BridgeWorldStep ==
  ASSUME BInv, BridgeTick \/ BridgeClose \/ CloseNext
  PROVE  BInv'
<1>1. UNCHANGED <<post, owner, told, streams, lastUsed>>
  BY DEF BridgeTick, BridgeClose, CloseNext
<1>2. /\ table' \subseteq table /\ ending' \subseteq ending \cup table
      /\ open' \subseteq open /\ open \ open' \subseteq ending
      /\ open' \cap (table \cup ending) \subseteq table' \cup ending'
      /\ Cardinality(table') <= TableLimit /\ Cardinality(ending') <= TableLimit
      /\ shut' \/ ending' = {}
  <2>1. CASE BridgeTick
    BY <2>1 DEF BridgeTick, BInv, Counts
  <2>2. CASE BridgeClose
    <3>1. table' = {} /\ ending' = table /\ open' = open /\ ending = {} /\ shut'
      BY <2>2 DEF BridgeClose, BInv
    <3>2. Cardinality({}) <= TableLimit
      BY FS_EmptySet, BridgeConstants
    <3> QED BY <3>1, <3>2 DEF BInv, Counts
  <2>3. CASE CloseNext
    <3>1. PICK s \in ending :
            open' = open \ {s} /\ ending' = ending \ {s} /\ table' = table /\ shut' = shut
      BY <2>3 DEF CloseNext
    <3>2. Cardinality(ending') <= TableLimit
      BY <3>1, Tabled, Fewer DEF BInv, Counts
    <3> QED BY <3>1, <3>2 DEF BInv, Counts
  <2> QED BY <2>1, <2>2, <2>3
<1>3. uptime' \in 0 .. MaxUptime /\ shut' \in BOOLEAN
  <2>1. uptime \in 0 .. MaxUptime /\ MaxUptime \in Nat /\ shut \in BOOLEAN
    BY BridgeConstants DEF BInv, BridgeTypeOK
  <2>2. uptime' = uptime \/ (uptime < MaxUptime /\ uptime' = uptime + 1)
    BY DEF BridgeTick, BridgeClose, CloseNext
  <2>3. shut' \in BOOLEAN
    BY <2>1, Zenon DEF BridgeTick, BridgeClose, CloseNext
  <2>4. uptime' \in 0 .. MaxUptime
    BY <2>1, <2>2
  <2> QED BY <2>3, <2>4
<1>4. (\A q \in Posts : Placed(q))'
  BY <1>1 DEF BInv, Placed
<1>5. BridgeTypeOK'
  <2>1. /\ table' \subseteq 1 .. streams' /\ open' \subseteq 1 .. streams'
        /\ told' \subseteq 1 .. streams' /\ ending' \subseteq 1 .. streams'
    BY <1>1, <1>2, PostTyped
  <2>2. /\ post' \in [Posts -> PostRecords] /\ OwnerFits' /\ streams' \in 0 .. MaxStreams
        /\ lastUsed' \in [Sessions -> 0 .. MaxUptime]
    BY <1>1, PostTyped DEF BInv, BridgeTypeOK, OwnerFits
  <2> QED BY <1>3, <1>4, <2>1, <2>2, TypedAgain
<1>6. (\A h \in Posts : InHandIsOwn(h))'
  BY <1>1, <1>2 DEF BInv, InHandIsOwn
<1>7. Accounted'
  <2>1. \A q \in Posts : Keeps(q)' = Keeps(q)
    BY <1>1 DEF Keeps, InHand
  <2> QED BY <1>2, <2>1 DEF BInv, Accounted
<1>8. Counts'
  BY <1>1, <1>2 DEF BInv, Counts
<1> QED BY <1>2, <1>4, <1>5, <1>6, <1>7, <1>8 DEF BInv
-----------------------------------------------------------------------------
LEMMA BridgeInitially == BridgeInit => BInv
<1> SUFFICES ASSUME BridgeInit PROVE BInv
  OBVIOUS
<1>1. /\ 0 \in 0 .. MaxUptime /\ 0 \in 0 .. MaxStreams /\ 0 \in 0 .. 0
      /\ Cardinality({}) <= TableLimit
  BY FS_EmptySet, BridgeConstants
<1>2. BridgeTypeOK
  BY <1>1 DEF BridgeInit, BridgeTypeOK, Quiet, Stages
<1>3. \A p \in Posts : Placed(p) /\ InHandIsOwn(p)
  BY <1>1 DEF BridgeInit, Quiet, Placed, InHandIsOwn, Entering, Streamless
<1>4. Accounted /\ Counts
  BY <1>1 DEF BridgeInit, Quiet, Accounted, Counts
<1> QED BY <1>2, <1>3, <1>4 DEF BridgeInit, BInv

\* Every step of the bridge keeps the invariant.
LEMMA BridgeNextKeeps == BInv /\ [BridgeNext]_bridgeVars => BInv'
<1> SUFFICES ASSUME BInv, [BridgeNext]_bridgeVars PROVE BInv'
  OBVIOUS
<1>1. CASE BridgeTick \/ BridgeClose \/ CloseNext
  BY <1>1, BridgeWorldStep
<1>2. ASSUME NEW p \in Posts, Serve(p)
      PROVE  BInv'
  BY <1>2, HandlePostStep, FindSessionStep, ConnectStep, EndpointStep, InsertStep,
     TakeSessionStep, AnswerStep, WaitStep, ForwardFailsStep, CloseTakenStep,
     HandleDeleteStep, DeleteAnsweredStep
     DEF Serve
<1>3. CASE UNCHANGED bridgeVars
  BY <1>3 DEF bridgeVars, BInv, BridgeTypeOK, Placed, InHandIsOwn, Accounted, Counts, Keeps, InHand
<1> QED BY <1>1, <1>2, <1>3 DEF BridgeNext

\* Every reachable state is well typed, nobody has more than a table's worth, and
\* what is about to enter is nobody else's.
THEOREM BridgeInductive == BridgeSpec => []BInv
BY BridgeNextKeeps, BridgeInitially, PTL DEF BridgeSpec

\* Nobody has more than a table's worth of streams.
LEMMA KeepsFew ==
  ASSUME BInv, NEW p \in Posts
  PROVE  IsFiniteSet(Keeps(p)) /\ Cardinality(Keeps(p)) <= TableLimit
<1>1. CASE post[p].pc \in Entering
  <2>1. Keeps(p) = {post[p].session}
    BY <1>1, Record DEF Keeps, InHand, InHandIsOwn, Entering
  <2> QED BY <2>1, FS_Singleton, OneIsFew
<1>2. CASE post[p].pc \notin Entering
  <2>1. Keeps(p) = post[p].closing
    BY <1>2 DEF Keeps, InHand, Entering
  <2>2. Keeps(p) \subseteq Sessions
    BY <2>1, Record, PostTyped DEF Placed
  <2> QED BY <2>1, <2>2, Record, Counted
<1> QED BY <1>1, <1>2

\* Every stream open at the service is in the table, or somebody has it who will close
\* or enter it, although what leaves the table is closed only after the unlock
\* (pruneIdleSessions, handleDelete, removeSession and Close of proxy.go); nobody
\* has more than a table's worth, and what enters is open.
THEOREM NoStreamIsLost == BridgeSpec => []StreamsAreAccountedFor
<1>1. BInv => StreamsAreAccountedFor
  <2> SUFFICES ASSUME BInv PROVE StreamsAreAccountedFor
    OBVIOUS
  <2>1. open \subseteq table \cup ending \cup UNION {Keeps(p) : p \in Posts}
    BY DEF BInv, Accounted
  <2>2. \A held \in {table, ending} \cup {Keeps(p) : p \in Posts} : Cardinality(held) <= TableLimit
    BY KeepsFew DEF BInv, Counts
  <2>3. \A p \in Posts : InHand(p) \subseteq open \ table
    BY DEF BInv, InHandIsOwn, InHand, Entering
  <2> QED BY <2>1, <2>2, <2>3 DEF StreamsAreAccountedFor
<1> QED BY <1>1, BridgeInductive, PTL

\* So the streams open at the service are bounded, though not by the limit of the table:
\* it may be full, and each request that prunes, and Close, may hold as many that have
\* left it and are not closed yet, while other requests fill it again.
THEOREM StreamsAreBounded ==
  BridgeSpec => [](Cardinality(open) <= (Cardinality(Posts) + 2) * TableLimit)
<1>1. BInv => Cardinality(open) <= (Cardinality(Posts) + 2) * TableLimit
  <2> SUFFICES ASSUME BInv PROVE Cardinality(open) <= (Cardinality(Posts) + 2) * TableLimit
    OBVIOUS
  <2> DEFINE kept == UNION {Keeps(p) : p \in Posts}
             K == [p \in Posts |-> Keeps(p)]
  <2>1. IsFiniteSet(kept) /\ Cardinality(kept) <= Cardinality(Posts) * TableLimit
    <3>1. \A p \in Posts : IsFiniteSet(K[p]) /\ Cardinality(K[p]) <= TableLimit
      BY KeepsFew
    <3>2. kept = UNION {K[p] : p \in Posts}
      OBVIOUS
    <3> HIDE DEF K, kept
    <3> QED BY <3>1, <3>2, UnionBound, BridgeConstants
  <2>2. open \subseteq (table \cup ending) \cup kept
    BY DEF BInv, Accounted
  <2> HIDE DEF kept
  <2>3. /\ IsFiniteSet(table) /\ Cardinality(table) \in Nat
        /\ IsFiniteSet(ending) /\ Cardinality(ending) \in Nat
    BY Tabled, Counted DEF BInv
  <2>4. /\ IsFiniteSet(table \cup ending)
        /\ Cardinality(table \cup ending) <= Cardinality(table) + Cardinality(ending)
    BY <2>3, CountUnion
  <2>5. Cardinality(table \cup ending) \in Nat /\ Cardinality(kept) \in Nat
    BY <2>1, <2>4, FS_CardinalityType
  <2>6. /\ IsFiniteSet((table \cup ending) \cup kept)
        /\ Cardinality((table \cup ending) \cup kept) <= Cardinality(table \cup ending) + Cardinality(kept)
    BY <2>1, <2>4, CountUnion
  <2>7. Cardinality(open) <= Cardinality((table \cup ending) \cup kept) /\ Cardinality(open) \in Nat
        /\ Cardinality((table \cup ending) \cup kept) \in Nat
    BY <2>2, <2>6, FS_Subset, FS_CardinalityType
  <2>8. /\ Cardinality(table) <= TableLimit /\ Cardinality(ending) <= TableLimit
        /\ TableLimit \in Nat /\ Cardinality(Posts) \in Nat
    BY BridgeConstants, FS_CardinalityType DEF BInv, Counts
  <2>9. /\ (Cardinality(Posts) + 2) * TableLimit
             = Cardinality(Posts) * TableLimit + TableLimit + TableLimit
        /\ Cardinality(Posts) * TableLimit \in Nat
    BY <2>8
  <2> QED BY <2>1, <2>3, <2>4, <2>5, <2>6, <2>7, <2>8, <2>9
<1> QED BY <1>1, BridgeInductive, PTL
=============================================================================
