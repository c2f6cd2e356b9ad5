-------------------------- MODULE MCPlatformParts --------------------------
(***************************************************************************)
(* Six parts of the platform that share no state, checked in one run: a    *)
(* behaviour is a behaviour of the part it has chosen at the start, and    *)
(* leaves the variables of the others as they are.                         *)
(***************************************************************************)
EXTENDS GrantSync, CatalogRouting, MemoryBankShares, CredentialStore, SSEBridge, StdioRelay, TLC

VARIABLE part

Parts == {"grants", "routing", "shares", "credential", "bridge", "relay"}

vars == <<part, grantVars, routeVars, shareVars, credentialVars, bridgeVars, relayVars>>

\* The paths: two that overlap, one apart, and one under a route of the edge
MCPaths == {<<"a">>, <<"a", "b">>, <<"c">>, <<"oauth", "x">>}

\* The catalogue that a fresh control plane seeds
MCInherited == "s1" :> <<"a">>
-----------------------------------------------------------------------------
Init ==
  /\ part \in Parts
  /\ GrantInit /\ RouteInit /\ ShareInit /\ CredentialInit /\ BridgeInit /\ RelayInit

GrantPart == part = "grants" /\
  UNCHANGED <<part, routeVars, shareVars, credentialVars, bridgeVars, relayVars>>
RoutePart == part = "routing" /\
  UNCHANGED <<part, grantVars, shareVars, credentialVars, bridgeVars, relayVars>>
SharePart == part = "shares" /\
  UNCHANGED <<part, grantVars, routeVars, credentialVars, bridgeVars, relayVars>>
CredentialPart == part = "credential" /\
  UNCHANGED <<part, grantVars, routeVars, shareVars, bridgeVars, relayVars>>
BridgePart == part = "bridge" /\
  UNCHANGED <<part, grantVars, routeVars, shareVars, credentialVars, relayVars>>
RelayPart == part = "relay" /\
  UNCHANGED <<part, grantVars, routeVars, shareVars, credentialVars, bridgeVars>>

Next ==
  \/ GrantPart /\ GrantNext
  \/ RoutePart /\ RouteNext
  \/ SharePart /\ ShareNext
  \/ CredentialPart /\ CredentialNext
  \/ BridgePart /\ BridgeNext
  \/ RelayPart /\ RelayNext

\* The fairness that the modules state, part by part
Fairness ==
  /\ \A c \in Syncs : WF_vars(GrantPart /\ SyncStore(c))
  /\ WF_vars(RoutePart /\ Start) /\ WF_vars(RoutePart /\ Refresh)
  /\ WF_vars(RoutePart /\ SeedServiceCatalog)
  /\ WF_vars(RelayPart /\ TakeSlot) /\ WF_vars(RelayPart /\ SomeAnswered)

Spec == Init /\ [][Next]_vars /\ Fairness
-----------------------------------------------------------------------------
\* Every part is well typed.
TypesOK ==
  /\ GrantTypeOK /\ RouteTypeOK /\ ShareTypeOK
  /\ CredentialTypeOK /\ BridgeTypeOK /\ RelayTypeOK

\* What CatalogReachesEdge says, of the behaviours in which the edge runs at all.
RoutedCatalogReachesEdge == part = "routing" => CatalogReachesEdge
=============================================================================
