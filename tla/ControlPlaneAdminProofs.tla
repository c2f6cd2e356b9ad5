----------------------- MODULE ControlPlaneAdminProofs ----------------------
(***************************************************************************)
(* Proofs about two parts of the control plane that share no state:        *)
(* the grants (GrantSync) and the memory bank (MemoryBankShares).          *)
(***************************************************************************)
EXTENDS GrantSync, MemoryBankShares, TLAPS
-----------------------------------------------------------------------------
(***************************************************************************)
(* For any people, services, overlapping synchronisations and faults: the  *)
(* table of effective grants is always the projection of its sources, and  *)
(* a grant given by hand goes only by hand.                                *)
(***************************************************************************)

Snapshots ==
  [pc : {"rest", "users", "groups", "store"}, services : SUBSET Products,
   users : [People -> Standing], groups : SUBSET (People \X Groups)]

Rows == People \X Products \X (Groups \cup {Manual})

\* What is derived from a snapshot are rows, none of them a manual one.
LEMMA DerivedRows ==
  ASSUME NEW snap \in Snapshots
  PROVE  /\ Derived(snap) \subseteq Rows
         /\ \A row \in Derived(snap) : row[3] # Manual
<1> SUFFICES ASSUME NEW row \in Derived(snap) PROVE row \in Rows /\ row[3] # Manual
  OBVIOUS
<1>1. PICK x \in People \X snap.services : row = <<x[1], x[2], Group(x[1], x[2], snap.groups)>>
  BY DEF Derived
<1>2. snap.services \subseteq Products
  BY DEF Snapshots
<1>3. Group(x[1], x[2], snap.groups) \in Groups
  BY <1>1, <1>2 DEF Group, Groups
<1>4. Manual \notin Groups
  BY GrantConstants DEF Groups, Manual, Admins
<1> QED BY <1>1, <1>2, <1>3, <1>4 DEF Rows

\* A synchronisation keeps the manual rows whatever its snapshot says.
LEMMA SyncedRows ==
  ASSUME NEW rows \in SUBSET Rows, NEW snap \in Snapshots
  PROVE  /\ Synced(rows, snap) \subseteq Rows
         /\ \A row \in rows : row[3] = Manual => row \in Synced(rows, snap)
BY DerivedRows DEF Synced, Unsynced, Purged

\* A rewritten table is projected in the same transaction.
LEMMA Rewritten ==
  ASSUME NEW rows \in SUBSET Rows, Rewrite(rows)
  PROVE  /\ sources' \subseteq Rows
         /\ effective' = {<<row[1], row[2]>> : row \in sources'}
BY DEF Rewrite, Projected

\* A synchronisation takes its next reading.
LEMMA SnapshotMoves ==
  ASSUME GrantTypeOK, NEW c \in Syncs, NEW r \in Snapshots, sync' = [sync EXCEPT ![c] = r]
  PROVE  sync' \in [Syncs -> Snapshots]
BY DEF GrantTypeOK, Snapshots
-----------------------------------------------------------------------------
LEMMA EditStep ==
  ASSUME GrantTypeOK,
         \/ \E p \in People : ChangeAccount(p)
         \/ \E p \in People, g \in Groups : ChangeMembership(p, g)
         \/ \E s \in Products : ChangeOffer(s)
         \/ \E p \in People, s \in Products :
              UpsertManualServiceGrant(p, s) \/ DeleteManualServiceGrant(p, s)
  PROVE  GrantTypeOK'
<1>1. ASSUME Edit PROVE edits' \in 0 .. MaxEdits
  BY <1>1, GrantConstants DEF Edit, GrantTypeOK
<1>2. ASSUME NEW p \in People, ChangeAccount(p) PROVE GrantTypeOK'
  BY <1>1, <1>2 DEF ChangeAccount, GrantTypeOK
<1>3. ASSUME NEW p \in People, NEW g \in Groups, ChangeMembership(p, g) PROVE GrantTypeOK'
  BY <1>1, <1>3 DEF ChangeMembership, GrantTypeOK
<1>4. ASSUME NEW s \in Products, ChangeOffer(s) PROVE GrantTypeOK'
  BY <1>1, <1>4 DEF ChangeOffer, GrantTypeOK
<1>5. ASSUME NEW p \in People, NEW s \in Products,
             UpsertManualServiceGrant(p, s) \/ DeleteManualServiceGrant(p, s)
      PROVE  GrantTypeOK'
  <2>1. PICK rows \in SUBSET Rows : Rewrite(rows)
    BY <1>5 DEF UpsertManualServiceGrant, DeleteManualServiceGrant, GrantTypeOK, Rows
  <2>2. /\ sources' \subseteq Rows
        /\ effective' = {<<row[1], row[2]>> : row \in sources'}
    BY <2>1, Rewritten
  <2>3. edits' \in 0 .. MaxEdits /\ UNCHANGED <<accounts, membership, offered, sync, syncFaults>>
    BY <1>1, <1>5 DEF UpsertManualServiceGrant, DeleteManualServiceGrant
  <2> QED BY <2>2, <2>3 DEF GrantTypeOK, Rows
<1> QED BY <1>2, <1>3, <1>4, <1>5

LEMMA SyncStep ==
  ASSUME GrantTypeOK, NEW c \in Syncs, SyncStore(c) \/ SyncFails(c)
  PROVE  GrantTypeOK'
<1>1. sync[c] \in Snapshots /\ sources \subseteq Rows
  BY DEF GrantTypeOK, Snapshots, Rows
<1>2. NoSync \in Snapshots
  BY DEF NoSync, Unread, Standing, Snapshots
<1>3. CASE SyncServices(c)
  <2> DEFINE r == [[sync[c] EXCEPT !.pc = "users"] EXCEPT !.services = offered]
  <2>1. r \in Snapshots
    BY <1>1 DEF GrantTypeOK, Snapshots
  <2>2. sync' = [sync EXCEPT ![c] = r]
    BY <1>1, <1>3 DEF SyncServices, GrantTypeOK
  <2> HIDE DEF r
  <2>3. sync' \in [Syncs -> Snapshots]
    BY <2>1, <2>2, SnapshotMoves
  <2> QED BY <1>3, <2>3 DEF SyncServices, GrantTypeOK, Snapshots
<1>4. CASE ListUsers(c)
  <2> DEFINE r == [[sync[c] EXCEPT !.pc = "groups"] EXCEPT !.users = accounts]
  <2>1. r \in Snapshots
    BY <1>1 DEF GrantTypeOK, Snapshots
  <2>2. sync' = [sync EXCEPT ![c] = r]
    BY <1>1, <1>4 DEF ListUsers, GrantTypeOK
  <2> HIDE DEF r
  <2>3. sync' \in [Syncs -> Snapshots]
    BY <2>1, <2>2, SnapshotMoves
  <2> QED BY <1>4, <2>3 DEF ListUsers, GrantTypeOK, Snapshots
<1>5. CASE ListGroups(c)
  <2> DEFINE r == [[sync[c] EXCEPT !.pc = "store"] EXCEPT !.groups = membership]
  <2>1. r \in Snapshots
    BY <1>1 DEF GrantTypeOK, Snapshots
  <2>2. sync' = [sync EXCEPT ![c] = r]
    BY <1>1, <1>5 DEF ListGroups, GrantTypeOK
  <2> HIDE DEF r
  <2>3. sync' \in [Syncs -> Snapshots]
    BY <2>1, <2>2, SnapshotMoves
  <2> QED BY <1>5, <2>3 DEF ListGroups, GrantTypeOK, Snapshots
<1>6. CASE SyncSubjectGrantSnapshot(c)
  <2>1. sync' \in [Syncs -> Snapshots]
    BY <1>2, <1>6, SnapshotMoves DEF SyncSubjectGrantSnapshot
  <2>2. /\ sources' \subseteq Rows
        /\ effective' = {<<row[1], row[2]>> : row \in sources'}
    BY <1>1, <1>6, SyncedRows, Rewritten DEF SyncSubjectGrantSnapshot
  <2> QED BY <1>6, <2>1, <2>2 DEF SyncSubjectGrantSnapshot, GrantTypeOK, Snapshots, Rows
<1>7. CASE SyncFails(c)
  <2>1. sync' \in [Syncs -> Snapshots]
    BY <1>2, <1>7, SnapshotMoves DEF SyncFails
  <2>2. syncFaults' \in 0 .. MaxSyncFaults
    BY <1>7, GrantConstants DEF SyncFails, GrantTypeOK
  <2> QED BY <1>7, <2>1, <2>2 DEF SyncFails, GrantTypeOK, Snapshots
<1> QED BY <1>3, <1>4, <1>5, <1>6, <1>7 DEF SyncStore
-----------------------------------------------------------------------------
\* The first state is well typed, ...
LEMMA GrantInitially == GrantInit => GrantTypeOK
BY GrantConstants DEF GrantInit, GrantTypeOK, NoSync, Unread, Standing

\* ... and every step keeps it so.
LEMMA GrantNextKeeps == GrantTypeOK /\ [GrantNext]_grantVars => GrantTypeOK'
<1> SUFFICES ASSUME GrantTypeOK, [GrantNext]_grantVars PROVE GrantTypeOK'
  OBVIOUS
<1>1. CASE GrantNext
  BY <1>1, EditStep, SyncStep DEF GrantNext
<1>2. CASE UNCHANGED grantVars
  BY <1>2 DEF grantVars, GrantTypeOK
<1> QED BY <1>1, <1>2

\* Every reachable state is well typed; service_grants is what
\* rebuildEffectiveServiceGrants makes of the sources, at every moment.
THEOREM GrantsTyped == GrantSpec => []GrantTypeOK
BY GrantInitially, GrantNextKeeps, PTL DEF GrantSpec

\* A manual grant leaves the sources only by DeleteManualServiceGrant.
THEOREM ManualGrantsStay == GrantSpec => ManualGrantsSurvive
<1> DEFINE ByHand == \A row \in sources \ sources' : row[3] = Manual =>
             DeleteManualServiceGrant(row[1], row[2])
<1>1. GrantTypeOK /\ [GrantNext]_grantVars => [ByHand]_grantVars
  <2> SUFFICES ASSUME GrantTypeOK, GrantNext, NEW row \in sources, row \notin sources', row[3] = Manual
               PROVE  DeleteManualServiceGrant(row[1], row[2])
    OBVIOUS
  <2>1. ASSUME NEW c \in Syncs, SyncSubjectGrantSnapshot(c) PROVE FALSE
    <3>1. sync[c] \in Snapshots /\ sources \subseteq Rows
      BY DEF GrantTypeOK, Snapshots, Rows
    <3> QED BY <2>1, <3>1, SyncedRows DEF SyncSubjectGrantSnapshot, Rewrite
  <2>2. ASSUME NEW p \in People, NEW s \in Products, UpsertManualServiceGrant(p, s) PROVE FALSE
    BY <2>2 DEF UpsertManualServiceGrant, Rewrite
  <2>3. ASSUME NEW p \in People, NEW s \in Products, DeleteManualServiceGrant(p, s)
        PROVE  DeleteManualServiceGrant(row[1], row[2])
    <3>1. row = <<p, s, Manual>>
      BY <2>3 DEF DeleteManualServiceGrant, Rewrite
    <3>2. row[1] = p /\ row[2] = s
      BY <3>1
    <3> QED BY <2>3, <3>2
  <2>4. sources' # sources
    OBVIOUS
  <2> QED BY <2>1, <2>2, <2>3, <2>4 DEF GrantNext, ChangeAccount, ChangeMembership, ChangeOffer,
             SyncStore, SyncServices, ListUsers, ListGroups, SyncFails
<1> QED BY <1>1, GrantsTyped, PTL DEF GrantSpec, ManualGrantsSurvive
-----------------------------------------------------------------------------
(***************************************************************************)
(* For any shares, persons, requests in flight and length of history: the  *)
(* handlers implement ProjectSharing, and refuse as a conflict only what   *)
(* conflicts with a share that was still good.                             *)
(***************************************************************************)

Requests ==
  [pc : {"rest", "put", "invite", "insert", "refused", "accept", "activate", "list", "revoke"},
   owner : 0 .. MaxTenants, archive : BOOLEAN, share : ShareRecords, id : Shares, now : Times]

\* What a request carries from one statement to the next.
Carries(r) ==
  /\ r.now <= time
  /\ r.pc \in {"invite", "insert"} =>
       /\ r.owner # 0
       /\ r.share.state = "pending" /\ r.share.person \in Persons
  /\ r.pc \in {"insert", "refused"} => Unexpired(r.share.until, r.now)

SInv == ShareTypeOK /\ \A d \in Desks : Carries(desk[d])

LEMMA Basics ==
  /\ NoShare \in ShareRecords /\ AtRest \in Requests
  /\ 0 \in Times /\ Times \subseteq Nat /\ Always \notin Times
  /\ 0 \in 0 .. MaxTenants
<1>1. 0 \in Times /\ Times \subseteq Nat /\ Always \notin Times /\ 0 \in 0 .. MaxTenants
  BY ShareConstants DEF Times
<1>2. NoShare \in ShareRecords
  BY DEF NoShare, ShareRecords, Untils
<1>3. (CHOOSE s \in Shares : TRUE) \in Shares
  BY ShareConstants
<1>4. AtRest \in Requests
  BY <1>1, <1>2, <1>3 DEF AtRest, Requests
<1> QED BY <1>1, <1>2, <1>4

\* A request at rest carries nothing.
LEMMA RestCarries == SInv => Carries(AtRest)
<1> SUFFICES ASSUME SInv PROVE Carries(AtRest)
  OBVIOUS
<1>1. AtRest.pc = "rest" /\ AtRest.now = 0
  BY DEF AtRest
<1>2. time \in Nat
  BY Basics DEF SInv, ShareTypeOK
<1> QED BY <1>1, <1>2 DEF Carries

\* One request moves on while the clock stands still.
LEMMA DeskMoves ==
  ASSUME SInv, NEW d \in Desks, NEW r \in Requests, Becomes(d, r), Carries(r), time' = time
  PROVE  /\ desk' \in [Desks -> Requests]
         /\ (\A e \in Desks : Carries(desk[e]))'
<1>1. desk \in [Desks -> Requests]
  BY DEF SInv, ShareTypeOK, Requests
<1>2. desk' = [desk EXCEPT ![d] = r]
  BY DEF Becomes
<1>3. desk' \in [Desks -> Requests]
  BY <1>1, <1>2
<1>4. ASSUME NEW e \in Desks PROVE Carries(desk[e])'
  <2>1. Carries(desk'[e])
    BY <1>1, <1>2 DEF SInv
  <2> QED BY <2>1 DEF Carries, Unexpired
<1> QED BY <1>3, <1>4

LEMMA SweptShares ==
  ASSUME ShareTypeOK, NEW now \in Times
  PROVE  /\ Swept(now) \in [Shares -> ShareRecords]
         /\ project.owner = 0 => \A s \in Shares : Swept(now)[s] = NoShare
<1>1. ASSUME NEW s \in Shares PROVE Swept(now)[s] \in ShareRecords
  BY DEF Swept, ShareTypeOK, ShareRecords
<1>2. ASSUME project.owner = 0, NEW s \in Shares PROVE Swept(now)[s] = NoShare
  <2>1. share[s] = NoShare /\ NoShare.state = "none"
    BY <1>2 DEF ShareTypeOK, NoShare
  <2> QED BY <2>1 DEF Swept, IsOpen
<1>3. Swept(now) = [s \in Shares |-> Swept(now)[s]]
  BY DEF Swept
<1> QED BY <1>1, <1>2, <1>3

\* What a sweep leaves open is not over.
LEMMA LeftOpen ==
  ASSUME ShareTypeOK, NEW now \in Times, NEW s \in Shares,
         Swept(now)[s].state \in {"pending", "active"}
  PROVE  Swept(now)[s] = share[s] /\ Unexpired(share[s].until, now)
<1>1. share[s] \in ShareRecords
  BY DEF ShareTypeOK
<1>2. ~(IsOpen(s) /\ Overdue(share[s].until, now))
  <2> SUFFICES ASSUME IsOpen(s), Overdue(share[s].until, now) PROVE FALSE
    OBVIOUS
  <2>1. Swept(now)[s] = [share[s] EXCEPT !.state = "expired"]
    BY DEF Swept
  <2>2. Swept(now)[s].state = "expired"
    BY <1>1, <2>1 DEF ShareRecords
  <2> QED BY <2>2
<1>3. Swept(now)[s] = share[s]
  BY <1>2 DEF Swept
<1>4. ~Overdue(share[s].until, now)
  BY <1>2, <1>3 DEF IsOpen
<1>5. share[s].until \in Times \cup {Always}
  BY <1>1 DEF ShareRecords, Untils
<1> QED BY <1>3, <1>4, <1>5, Basics DEF Overdue, Unexpired
-----------------------------------------------------------------------------
\* Time and the owner's tenant: no request moves.
LEMMA ShareWorldStep ==
  ASSUME SInv, ShareTick \/ MakeTenant \/ RemoveTenant
  PROVE  SInv'
<1>1. CASE ShareTick
  <2>1. time \in Nat /\ time' \in Nat /\ time' \in Times /\ time < time'
    BY <1>1, ShareConstants DEF ShareTick, SInv, ShareTypeOK, Times
  <2>2. ShareTypeOK'
    BY <1>1, <2>1 DEF ShareTick, SInv, ShareTypeOK, Tables, Untils, ShareRecords
  <2>3. ASSUME NEW d \in Desks PROVE Carries(desk[d])'
    <3>1. desk[d].now \in Nat /\ Carries(desk[d]) /\ desk' = desk
      BY <1>1, Basics DEF ShareTick, SInv, ShareTypeOK
    <3> QED BY <2>1, <3>1 DEF Carries, Unexpired
  <2> QED BY <2>2, <2>3 DEF SInv
<1>2. CASE MakeTenant
  <2>1. tenants' \in 0 .. MaxTenants /\ tenant' = tenants' /\ project.owner = 0
    BY <1>2, ShareConstants DEF MakeTenant, SInv, ShareTypeOK
  <2>2. ShareTypeOK'
    BY <1>2, <2>1 DEF MakeTenant, SInv, ShareTypeOK
  <2> QED BY <1>2, <2>2 DEF MakeTenant, SInv, Carries
<1>3. CASE RemoveTenant
  <2>1. NoProject \in [owner : 0 .. MaxTenants, archived : BOOLEAN] /\ NoProject.owner = 0
    BY Basics DEF NoProject
  <2>2. ShareTypeOK'
    BY <1>3, <2>1, Basics DEF RemoveTenant, SInv, ShareTypeOK
  <2> QED BY <1>3, <2>2 DEF RemoveTenant, SInv, Carries
<1> QED BY <1>1, <1>2, <1>3

\* A request reads or gives up, and writes no table.
LEMMA ReadStep ==
  ASSUME SInv, NEW d \in Desks, NEW r \in Requests,
         Becomes(d, r), Carries(r), UNCHANGED <<time, Tables>>
  PROVE  SInv'
<1>1. /\ desk' \in [Desks -> Requests]
      /\ (\A e \in Desks : Carries(desk[e]))'
  BY DeskMoves
<1> QED BY <1>1 DEF SInv, ShareTypeOK, Tables, Requests

\* A request writes a table of shares that fits, and ends or moves on.
LEMMA TableWriteStep ==
  ASSUME SInv, NEW d \in Desks, NEW r \in Requests, Becomes(d, r), Carries(r),
         UNCHANGED <<time, tenant, tenants, project>>,
         share' \in [Shares -> ShareRecords],
         project.owner = 0 => \A s \in Shares : share'[s] = NoShare
  PROVE  SInv'
<1>1. /\ desk' \in [Desks -> Requests]
      /\ (\A e \in Desks : Carries(desk[e]))'
  BY DeskMoves
<1> QED BY <1>1 DEF SInv, ShareTypeOK, Requests
-----------------------------------------------------------------------------
\* Requests begin, read the clock, or end without a statement.
LEMMA ReadsKeep ==
  ASSUME SInv, NEW d \in Desks,
         \/ \E archive \in BOOLEAN : PutLoad(d, archive)
         \/ \E p \in Persons, until \in Untils : InviteLoad(d, p, until)
         \/ \E s \in Shares : AcceptStamp(d, s) \/ RevokeLoad(d, s)
         \/ InviteStamp(d) \/ ListStamp(d) \/ ShareAbort(d)
  PROVE  SInv'
<1>0. /\ time \in Times /\ time \in Nat /\ tenant \in 0 .. MaxTenants
      /\ project.owner \in 0 .. MaxTenants /\ desk[d] \in Requests /\ Carries(desk[d])
  BY Basics DEF SInv, ShareTypeOK, Requests
<1>1. ASSUME NEW archive \in BOOLEAN, PutLoad(d, archive) PROVE SInv'
  <2> DEFINE r == [AtRest EXCEPT !.pc = "put", !.owner = tenant, !.archive = archive]
  <2>1. r \in Requests /\ r.pc = "put" /\ r.now = 0
    BY <1>0, Basics DEF Requests, AtRest
  <2>2. Becomes(d, r) /\ UNCHANGED <<time, Tables>>
    BY <1>1 DEF PutLoad, Begins
  <2> HIDE DEF r
  <2>3. Carries(r)
    BY <1>0, <2>1 DEF Carries
  <2> QED BY <2>1, <2>2, <2>3, ReadStep
<1>2. ASSUME NEW p \in Persons, NEW until \in Untils, InviteLoad(d, p, until) PROVE SInv'
  <2> DEFINE offer == [state |-> "pending", person |-> p, until |-> until]
             r == [AtRest EXCEPT !.pc = "invite", !.owner = project.owner, !.share = offer]
  <2>1. offer \in ShareRecords /\ offer.state = "pending" /\ offer.person = p
    BY DEF ShareRecords
  <2>2. Becomes(d, r) /\ UNCHANGED <<time, Tables>> /\ project.owner # 0
    BY <1>2 DEF InviteLoad, Begins
  <2> HIDE DEF offer
  <2>3. r \in Requests /\ r.pc = "invite" /\ r.now = 0 /\ r.owner = project.owner /\ r.share = offer
    BY <1>0, <2>1, Basics DEF Requests, AtRest
  <2> HIDE DEF r
  <2>4. Carries(r)
    BY <1>0, <2>1, <2>2, <2>3 DEF Carries
  <2> QED BY <2>2, <2>3, <2>4, ReadStep
<1>3. ASSUME NEW s \in Shares, AcceptStamp(d, s) PROVE SInv'
  <2> DEFINE r == [AtRest EXCEPT !.pc = "accept", !.id = s, !.now = time]
  <2>1. r \in Requests /\ r.pc = "accept" /\ r.now = time
    BY <1>0, Basics DEF Requests, AtRest
  <2>2. Becomes(d, r) /\ UNCHANGED <<time, Tables>>
    BY <1>3 DEF AcceptStamp, Begins
  <2> HIDE DEF r
  <2>3. Carries(r)
    BY <1>0, <2>1 DEF Carries
  <2> QED BY <2>1, <2>2, <2>3, ReadStep
<1>4. ASSUME NEW s \in Shares, RevokeLoad(d, s) PROVE SInv'
  <2> DEFINE r == [AtRest EXCEPT !.pc = "revoke", !.id = s]
  <2>1. r \in Requests /\ r.pc = "revoke" /\ r.now = 0
    BY <1>0, Basics DEF Requests, AtRest
  <2>2. Becomes(d, r) /\ UNCHANGED <<time, Tables>>
    BY <1>4 DEF RevokeLoad, Begins
  <2> HIDE DEF r
  <2>3. Carries(r)
    BY <1>0, <2>1 DEF Carries
  <2> QED BY <2>1, <2>2, <2>3, ReadStep
<1>5. ASSUME InviteStamp(d), Unexpired(desk[d].share.until, time) PROVE SInv'
  <2> DEFINE r == [desk[d] EXCEPT !.pc = "insert", !.now = time]
  <2>1. /\ r \in Requests /\ r.pc = "insert" /\ r.now = time
        /\ r.owner = desk[d].owner /\ r.share = desk[d].share
    BY <1>0 DEF Requests
  <2>2. Becomes(d, r) /\ UNCHANGED <<time, Tables>> /\ desk[d].pc = "invite"
    BY <1>5 DEF InviteStamp
  <2> HIDE DEF r
  <2>3. Carries(r)
    BY <1>0, <1>5, <2>1, <2>2 DEF Carries
  <2> QED BY <2>1, <2>2, <2>3, ReadStep
<1>6. ASSUME Leaves(d), UNCHANGED <<time, Tables>> PROVE SInv'
  BY <1>6, Basics, RestCarries, ReadStep DEF Leaves
<1>7. ASSUME ListStamp(d) PROVE SInv'
  <2> DEFINE r == [AtRest EXCEPT !.pc = "list", !.now = time]
  <2>1. r \in Requests /\ r.pc = "list" /\ r.now = time
    BY <1>0, Basics DEF Requests, AtRest
  <2>2. Becomes(d, r) /\ UNCHANGED <<time, Tables>>
    BY <1>7 DEF ListStamp, Begins
  <2> HIDE DEF r
  <2>3. Carries(r)
    BY <1>0, <2>1 DEF Carries
  <2> QED BY <2>1, <2>2, <2>3, ReadStep
<1>8. ASSUME InviteStamp(d), ~Unexpired(desk[d].share.until, time) PROVE SInv'
  BY <1>6, <1>8 DEF InviteStamp
<1>9. ASSUME ShareAbort(d) PROVE SInv'
  BY <1>6, <1>9 DEF ShareAbort
<1> QED BY <1>1, <1>2, <1>3, <1>4, <1>5, <1>7, <1>8, <1>9

LEMMA UpsertKeeps ==
  ASSUME SInv, NEW d \in Desks, UpsertMemoryBankProject(d)
  PROVE  SInv'
<1>1. /\ desk' \in [Desks -> Requests]
      /\ (\A e \in Desks : Carries(desk[e]))'
  BY DeskMoves, Basics, RestCarries DEF UpsertMemoryBankProject, Leaves
<1>2. /\ project' \in [owner : 0 .. MaxTenants, archived : BOOLEAN]
      /\ project'.owner \in {0, tenant}
      /\ project'.owner = 0 => project.owner = 0
  BY Basics DEF UpsertMemoryBankProject, SInv, ShareTypeOK
<1> QED BY <1>1, <1>2 DEF UpsertMemoryBankProject, SInv, ShareTypeOK, Requests

\* The transaction of an invitation that succeeds.
Offered(d, s) ==
  /\ share[s] = NoShare
  /\ share' = [Swept(desk[d].now) EXCEPT ![s] = desk[d].share]
  /\ \A o \in Shares : Swept(desk[d].now)[o].state \in {"pending", "active"} =>
        Swept(desk[d].now)[o].person # desk[d].share.person

LEMMA CreateSplits ==
  ASSUME SInv, NEW d \in Desks, CreateMemoryBankProjectShare(d)
  PROVE  \/ /\ Shareable(desk[d].owner) /\ Leaves(d)
            /\ \E s \in Shares : Offered(d, s)
         \/ /\ share' = share
            /\ \E s \in Shares : /\ Swept(desk[d].now)[s].state \in {"pending", "active"}
                                 /\ Becomes(d, [desk[d] EXCEPT !.pc = "refused",
                                                  !.share = Swept(desk[d].now)[s]])
         \/ share' = share /\ Leaves(d)
BY DEF CreateMemoryBankProjectShare, Offered

LEMMA CreateKeeps ==
  ASSUME SInv, NEW d \in Desks, CreateMemoryBankProjectShare(d)
  PROVE  SInv'
<1>0. /\ desk[d] \in Requests /\ Carries(desk[d]) /\ desk[d].pc = "insert"
      /\ desk[d].now \in Times /\ desk[d].share \in ShareRecords
      /\ UNCHANGED <<time, tenant, tenants, project>>
      /\ share \in [Shares -> ShareRecords]
      /\ project.owner = 0 => \A s \in Shares : share[s] = NoShare
  BY DEF SInv, ShareTypeOK, Requests, CreateMemoryBankProjectShare
<1>1. CASE Shareable(desk[d].owner) /\ Leaves(d) /\ \E s \in Shares : Offered(d, s)
  <2>1. PICK s \in Shares : Offered(d, s)
    BY <1>1
  <2>2. share' \in [Shares -> ShareRecords]
    BY <1>0, <2>1, SweptShares DEF Offered, SInv
  <2>3. project.owner # 0
    BY <1>0, <1>1 DEF Carries, Shareable
  <2> QED BY <1>0, <1>1, <2>2, <2>3, TableWriteStep, Basics, RestCarries DEF Leaves
<1>2. ASSUME NEW s \in Shares, share' = share,
             Swept(desk[d].now)[s].state \in {"pending", "active"},
             Becomes(d, [desk[d] EXCEPT !.pc = "refused", !.share = Swept(desk[d].now)[s]])
      PROVE  SInv'
  <2> DEFINE r == [desk[d] EXCEPT !.pc = "refused", !.share = Swept(desk[d].now)[s]]
  <2>1. Swept(desk[d].now)[s] = share[s] /\ Unexpired(share[s].until, desk[d].now)
    BY <1>0, <1>2, LeftOpen DEF SInv
  <2>2. r \in Requests /\ r.pc = "refused" /\ r.now = desk[d].now /\ r.share = share[s]
    BY <1>0, <2>1 DEF Requests
  <2>3. Becomes(d, r)
    BY <1>2
  <2> HIDE DEF r
  <2>4. Carries(r)
    BY <1>0, <2>1, <2>2 DEF Carries
  <2> QED BY <1>0, <1>2, <2>2, <2>3, <2>4, TableWriteStep
<1>3. CASE share' = share /\ Leaves(d)
  BY <1>0, <1>3, TableWriteStep, Basics, RestCarries DEF Leaves
<1> QED BY <1>1, <1>2, <1>3, CreateSplits

LEMMA ExpireKeeps ==
  ASSUME SInv, NEW d \in Desks, ExpireMemoryBankProjectShares(d)
  PROVE  SInv'
<1>0. /\ desk[d] \in Requests /\ Carries(desk[d]) /\ desk[d].now \in Times
      /\ UNCHANGED <<time, tenant, tenants, project>> /\ share' = Swept(desk[d].now)
  BY DEF SInv, ShareTypeOK, Requests, ExpireMemoryBankProjectShares
<1>1. /\ share' \in [Shares -> ShareRecords]
      /\ project.owner = 0 => \A s \in Shares : share'[s] = NoShare
  BY <1>0, SweptShares DEF SInv
<1>2. ASSUME Becomes(d, [desk[d] EXCEPT !.pc = "activate"]) PROVE SInv'
  <2> DEFINE r == [desk[d] EXCEPT !.pc = "activate"]
  <2>1. r \in Requests /\ r.pc = "activate" /\ r.now = desk[d].now
    BY <1>0 DEF Requests
  <2>2. Becomes(d, r)
    BY <1>2
  <2> HIDE DEF r
  <2>3. Carries(r)
    BY <1>0, <2>1 DEF Carries
  <2> QED BY <1>0, <1>1, <2>1, <2>2, <2>3, TableWriteStep
<1>3. ASSUME Leaves(d) PROVE SInv'
  BY <1>0, <1>1, <1>3, TableWriteStep, Basics, RestCarries DEF Leaves
<1> QED BY <1>2, <1>3 DEF ExpireMemoryBankProjectShares

LEMMA CloseKeeps ==
  ASSUME SInv, NEW d \in Desks,
         ActivateMemoryBankProjectShare(d) \/ RevokeMemoryBankProjectShare(d)
  PROVE  SInv'
<1>1. /\ UNCHANGED <<time, tenant, tenants, project>> /\ Leaves(d)
      /\ \/ share' = share
         \/ /\ share[desk[d].id].state # "none"
            /\ \E state \in {"active", "revoked"} :
                 share' = [share EXCEPT ![desk[d].id].state = state]
  BY DEF ActivateMemoryBankProjectShare, RevokeMemoryBankProjectShare, Activatable, IsOpen
<1>2. desk[d].id \in Shares /\ NoShare.state = "none"
  BY DEF SInv, ShareTypeOK, NoShare
<1>3. share' \in [Shares -> ShareRecords]
  BY <1>1, <1>2 DEF SInv, ShareTypeOK, ShareRecords
<1>4. project.owner = 0 => \A s \in Shares : share'[s] = NoShare
  BY <1>1, <1>2 DEF SInv, ShareTypeOK
<1> QED BY <1>1, <1>3, <1>4, TableWriteStep, Basics, RestCarries DEF Leaves
-----------------------------------------------------------------------------
\* What every reachable state satisfies.
LEMMA ShareInitially == ShareInit => SInv
<1> SUFFICES ASSUME ShareInit PROVE SInv
  OBVIOUS
<1>1. ShareTypeOK
  BY Basics, ShareConstants DEF ShareInit, ShareTypeOK, NoProject, Requests
<1>2. ASSUME NEW d \in Desks PROVE Carries(desk[d])
  BY <1>2, ShareConstants DEF ShareInit, AtRest, Carries
<1> QED BY <1>1, <1>2 DEF SInv

LEMMA NextKeeps == SInv /\ [ShareNext]_shareVars => SInv'
<1> SUFFICES ASSUME SInv, [ShareNext]_shareVars PROVE SInv'
  OBVIOUS
<1>1. CASE ShareTick \/ MakeTenant \/ RemoveTenant
  BY <1>1, ShareWorldStep
<1>2. ASSUME NEW d \in Desks,
             \/ \E archive \in BOOLEAN : PutLoad(d, archive)
             \/ \E p \in Persons, until \in Untils : InviteLoad(d, p, until)
             \/ \E s \in Shares : AcceptStamp(d, s) \/ RevokeLoad(d, s)
             \/ InviteStamp(d) \/ ListStamp(d) \/ ShareAbort(d)
      PROVE  SInv'
  BY <1>2, ReadsKeep
<1>3. ASSUME NEW d \in Desks,
             \/ UpsertMemoryBankProject(d) \/ CreateMemoryBankProjectShare(d)
             \/ ExpireMemoryBankProjectShares(d)
             \/ ActivateMemoryBankProjectShare(d) \/ RevokeMemoryBankProjectShare(d)
      PROVE  SInv'
  BY <1>3, UpsertKeeps, CreateKeeps, ExpireKeeps, CloseKeeps
<1>4. CASE UNCHANGED shareVars
  BY <1>4 DEF shareVars, SInv, ShareTypeOK, Carries
<1> QED BY <1>1, <1>2, <1>3, <1>4 DEF ShareNext

\* Every reachable state is well typed, a removed project has no shares, and a
\* request in flight carries what it has checked.
THEOREM SharingInductive == ShareSpec => []SInv
BY ShareInitially, NextKeeps, PTL DEF ShareSpec

\* An invitation is refused only because of a share that was still good at the
\* clock of that request: CreateMemoryBankProjectShare sweeps before it looks.
THEOREM RealConflicts == ShareSpec => []ConflictsAreReal
<1>1. SInv => ConflictsAreReal
  BY DEF SInv, Carries, ConflictsAreReal
<1> QED BY <1>1, SharingInductive, PTL
-----------------------------------------------------------------------------
(* The handlers keep the promise: every step is one of it, or none         *)

Promised == Promise!Next \/ UNCHANGED <<time, project.owner # 0 /\ ~project.archived, share>>

LEMMA SameSweep == ASSUME NEW now PROVE Promise!After(share, now) = Swept(now)
BY DEF Promise!After, Promise!IsOpen, Swept, IsOpen, Overdue

\* A step that leaves time and project alone leaves the project as live as it was.
LEMMA PromisedWorld ==
  ASSUME SInv, ShareTick \/ MakeTenant \/ RemoveTenant
  PROVE  Promised
<1>1. CASE ShareTick
  BY <1>1 DEF ShareTick, Tables, Promised, Promise!Next, Promise!TimePasses
<1>2. CASE MakeTenant
  BY <1>2 DEF MakeTenant, Promised
<1>3. CASE RemoveTenant
  <2>1. Promise!ProjectChanges
    BY <1>3 DEF RemoveTenant, NoProject, NoShare, Promise!ProjectChanges, Promise!None
  <2> QED BY <2>1 DEF Promised, Promise!Next
<1> QED BY <1>1, <1>2, <1>3

LEMMA PromisedReads ==
  ASSUME UNCHANGED <<time, Tables>>
  PROVE  Promised
BY DEF Tables, Promised

LEMMA PromisedUpsert ==
  ASSUME SInv, NEW d \in Desks, UpsertMemoryBankProject(d)
  PROVE  Promised
<1>1. Promise!ProjectChanges
  BY DEF UpsertMemoryBankProject, Promise!ProjectChanges
<1> QED BY <1>1 DEF Promised, Promise!Next

LEMMA PromisedCreate ==
  ASSUME SInv, NEW d \in Desks, CreateMemoryBankProjectShare(d)
  PROVE  Promised
<1>0. /\ Carries(desk[d]) /\ desk[d].pc = "insert"
      /\ desk[d].now \in Times /\ desk[d].share \in ShareRecords
      /\ UNCHANGED <<time, tenant, tenants, project>>
  BY DEF SInv, ShareTypeOK, CreateMemoryBankProjectShare
<1>1. CASE Shareable(desk[d].owner) /\ \E s \in Shares : Offered(d, s)
  <2>1. PICK s \in Shares : Offered(d, s)
    BY <1>1
  <2>2. project.owner # 0 /\ ~project.archived
    BY <1>0, <1>1 DEF Carries, Shareable
  <2>3. /\ desk[d].share.person \in Persons /\ desk[d].share.until \in Times \cup {Always}
        /\ desk[d].share = [state |-> "pending", person |-> desk[d].share.person,
                            until |-> desk[d].share.until]
        /\ desk[d].now <= time /\ Unexpired(desk[d].share.until, desk[d].now)
    BY <1>0 DEF Carries, ShareRecords, Untils
  <2>4. Promise!Offer(s, desk[d].share.person)
    <3> DEFINE t == desk[d].now
               person == desk[d].share.person
               until == desk[d].share.until
               offer == [state |-> "pending", person |-> person, until |-> until]
    <3>1. share[s].state = "none"
      BY <2>1 DEF Offered, NoShare
    <3>2. until = Always \/ until > t
      BY <2>3 DEF Unexpired
    <3>3. \A o \in Shares : Promise!IsOpen(Swept(t), o) => Swept(t)[o].person # person
      BY <2>1 DEF Offered, Promise!IsOpen
    <3>4. share' = [Swept(t) EXCEPT ![s] = offer]
      BY <2>1, <2>3 DEF Offered
    <3>5. t \in Times /\ person \in Persons /\ until \in Times \cup {Always} /\ t <= time
      BY <1>0, <2>3
    <3>6. Promise!After(share, t) = Swept(t)
      BY SameSweep
    <3> HIDE DEF t, person, until, offer
    <3> QED BY <1>0, <2>2, <3>1, <3>2, <3>3, <3>4, <3>5, <3>6 DEF Promise!Offer, offer, person
  <2> QED BY <2>3, <2>4 DEF Promised, Promise!Next
<1>2. CASE share' = share
  BY <1>0, <1>2 DEF Promised
<1> QED BY <1>1, <1>2, CreateSplits

LEMMA PromisedExpire ==
  ASSUME SInv, NEW d \in Desks, ExpireMemoryBankProjectShares(d)
  PROVE  Promised
<1>1. /\ desk[d].now \in Times /\ desk[d].now <= time
      /\ UNCHANGED <<time, project>> /\ share' = Swept(desk[d].now)
  BY DEF SInv, ShareTypeOK, Carries, ExpireMemoryBankProjectShares
<1>2. Promise!Lapse
  BY <1>1, SameSweep DEF Promise!Lapse
<1> QED BY <1>2 DEF Promised, Promise!Next

LEMMA PromisedActivate ==
  ASSUME SInv, NEW d \in Desks, ActivateMemoryBankProjectShare(d)
  PROVE  Promised
<1>0. /\ UNCHANGED <<time, project>>
      /\ desk[d].id \in Shares /\ desk[d].now \in Times /\ desk[d].now <= time
      /\ project.owner = 0 => \A s \in Shares : share[s] = NoShare
      /\ share[desk[d].id].until \in Times \cup {Always}
  BY DEF SInv, ShareTypeOK, Carries, ActivateMemoryBankProjectShare, ShareRecords, Untils
<1>1. CASE Activatable(desk[d].id, desk[d].now)
  <2>1. share' = [share EXCEPT ![desk[d].id].state = "active"]
    BY <1>1 DEF ActivateMemoryBankProjectShare
  <2>2. project.owner # 0 /\ ~project.archived
    BY <1>0, <1>1 DEF Activatable, IsOpen, NoShare
  <2>3. Promise!IsOpen(share, desk[d].id)
    BY <1>1 DEF Activatable, IsOpen, Promise!IsOpen
  <2>4. share[desk[d].id].until = Always \/ desk[d].now < share[desk[d].id].until
    <3>1. desk[d].now \in Nat
      BY <1>0, Basics
    <3> QED BY <1>0, <1>1, <3>1, Basics DEF Activatable, Unexpired
  <2>5. Promise!Accept(desk[d].id)
    BY <1>0, <2>1, <2>2, <2>3, <2>4 DEF Promise!Accept
  <2> QED BY <1>0, <2>5 DEF Promised, Promise!Next
<1>2. CASE ~Activatable(desk[d].id, desk[d].now)
  BY <1>0, <1>2 DEF ActivateMemoryBankProjectShare, Promised
<1> QED BY <1>1, <1>2

LEMMA PromisedRevoke ==
  ASSUME SInv, NEW d \in Desks, RevokeMemoryBankProjectShare(d)
  PROVE  Promised
<1>1. desk[d].id \in Shares /\ UNCHANGED <<time, project>>
  BY DEF SInv, ShareTypeOK, RevokeMemoryBankProjectShare
<1>2. CASE share[desk[d].id].state \notin {"none", "revoked"}
  <2>1. Promise!Revoke(desk[d].id)
    BY <1>1, <1>2 DEF RevokeMemoryBankProjectShare, Promise!Revoke
  <2> QED BY <1>1, <2>1 DEF Promised, Promise!Next
<1>3. CASE share[desk[d].id].state \in {"none", "revoked"}
  BY <1>1, <1>3 DEF RevokeMemoryBankProjectShare, Promised
<1> QED BY <1>2, <1>3

LEMMA PromisedNext == SInv /\ [ShareNext]_shareVars => Promised
<1> SUFFICES ASSUME SInv, [ShareNext]_shareVars PROVE Promised
  OBVIOUS
<1>1. CASE ShareTick \/ MakeTenant \/ RemoveTenant
  BY <1>1, PromisedWorld
<1>2. ASSUME NEW d \in Desks,
             \/ \E archive \in BOOLEAN : PutLoad(d, archive)
             \/ \E p \in Persons, until \in Untils : InviteLoad(d, p, until)
             \/ \E s \in Shares : AcceptStamp(d, s) \/ RevokeLoad(d, s)
             \/ InviteStamp(d) \/ ListStamp(d) \/ ShareAbort(d)
      PROVE  Promised
  BY <1>2, PromisedReads DEF PutLoad, InviteLoad, AcceptStamp, RevokeLoad, InviteStamp,
     ListStamp, ShareAbort
<1>3. ASSUME NEW d \in Desks,
             \/ UpsertMemoryBankProject(d) \/ CreateMemoryBankProjectShare(d)
             \/ ExpireMemoryBankProjectShares(d)
             \/ ActivateMemoryBankProjectShare(d) \/ RevokeMemoryBankProjectShare(d)
      PROVE  Promised
  BY <1>3, PromisedUpsert, PromisedCreate, PromisedExpire, PromisedActivate, PromisedRevoke
<1>4. CASE UNCHANGED shareVars
  BY <1>4 DEF shareVars, Promised
<1> QED BY <1>1, <1>2, <1>3, <1>4 DEF ShareNext

\* The handlers, statement by statement, implement the promise of ProjectSharing:
\* the guards of Insert- and ActivateMemoryBankProjectShare look at the tables of
\* their own moment and at the clock of the request, and that is enough.
THEOREM SharingIsImplemented == ShareSpec => ImplementsSharing
<1>1. ShareInit => Promise!Init
  BY DEF ShareInit, NoProject, NoShare, Promise!Init, Promise!None
<1>2. SInv /\ [ShareNext]_shareVars =>
        [Promise!Next]_<<time, project.owner # 0 /\ ~project.archived, share>>
  BY PromisedNext DEF Promised
<1> QED BY <1>1, <1>2, SharingInductive, PTL DEF ShareSpec, ImplementsSharing, Promise!Spec
=============================================================================
