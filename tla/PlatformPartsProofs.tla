------------------------ MODULE PlatformPartsProofs ------------------------
(***************************************************************************)
(* The six parts side by side: a step of one of them leaves the others as  *)
(* they are, so that what was proved of each part holds of all of them     *)
(* together, for every value of their constants.                           *)
(***************************************************************************)
EXTENDS MCPlatformParts, ControlPlaneAdminProofs, EdgeRoutingProofs, CredentialBridgeProofs

\* The inductive invariants of the parts.
PartsInv == GrantTypeOK /\ RInv /\ SInv /\ CInv /\ BInv /\ RelayInv
-----------------------------------------------------------------------------
\* They hold at the start, ...
LEMMA PartsInitially == Init => PartsInv
BY GrantInitially, RouteInitially, ShareInitially, CredentialInitially, BridgeInitially,
   RelayInitially DEF Init, PartsInv

\* Every step is a step of each part, or leaves that part alone.
LEMMA StepsOfParts ==
  ASSUME [Next]_vars
  PROVE  /\ [GrantNext]_grantVars /\ [RouteNext]_routeVars /\ [ShareNext]_shareVars
         /\ [CredentialNext]_credentialVars /\ [BridgeNext]_bridgeVars /\ [RelayNext]_relayVars
<1>1. CASE GrantPart /\ GrantNext
  BY <1>1, Zenon DEF GrantPart
<1>2. CASE RoutePart /\ RouteNext
  BY <1>2, Zenon DEF RoutePart
<1>3. CASE SharePart /\ ShareNext
  BY <1>3, Zenon DEF SharePart
<1>4. CASE CredentialPart /\ CredentialNext
  BY <1>4, Zenon DEF CredentialPart
<1>5. CASE BridgePart /\ BridgeNext
  BY <1>5, Zenon DEF BridgePart
<1>6. CASE RelayPart /\ RelayNext
  BY <1>6, Zenon DEF RelayPart
<1>7. CASE UNCHANGED vars
  <2>1. /\ UNCHANGED grantVars /\ UNCHANGED routeVars /\ UNCHANGED shareVars
        /\ UNCHANGED credentialVars /\ UNCHANGED bridgeVars /\ UNCHANGED relayVars
    BY <1>7 DEF vars
  <2> QED
    BY <2>1, Zenon
<1> QED
  BY <1>1, <1>2, <1>3, <1>4, <1>5, <1>6, <1>7 DEF Next

\* ... and every step keeps them.
LEMMA PartsNextKeeps == PartsInv /\ [Next]_vars => PartsInv'
<1> SUFFICES ASSUME PartsInv, [Next]_vars PROVE PartsInv'
  OBVIOUS
<1>1. /\ [GrantNext]_grantVars /\ [RouteNext]_routeVars /\ [ShareNext]_shareVars
      /\ [CredentialNext]_credentialVars /\ [BridgeNext]_bridgeVars /\ [RelayNext]_relayVars
  BY StepsOfParts
<1> QED
  BY <1>1, GrantNextKeeps, RouteNextKeeps, NextKeeps, CredentialNextKeeps, BridgeNextKeeps,
     RelayNextKeeps DEF PartsInv

\* The inductive invariants of the parts hold of all of them together.
THEOREM PartsInductive == Spec => []PartsInv
BY PartsInitially, PartsNextKeeps, PTL DEF Spec

\* Every state that the parts reach together is well typed, whatever their sizes.
THEOREM PartsTyped == Spec => []TypesOK
<1>1. PartsInv => TypesOK
  BY DEF PartsInv, RInv, SInv, CInv, BInv, RelayInv, TypesOK
<1> QED
  BY <1>1, PartsInductive, PTL
=============================================================================
