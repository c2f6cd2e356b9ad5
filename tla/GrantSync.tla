----------------------------- MODULE GrantSync ------------------------------
(***************************************************************************)
(* Who may use which service.  Authentik knows the people and their        *)
(* groups; every reconcile cycle of a control plane copies what follows    *)
(* from them into service_grant_sources, beside the grants an              *)
(* administrator gives by hand, and service_grants is rebuilt from the     *)
(* sources in the same transaction: authentik_client.go, grants_admin.go   *)
(* and store.go of src/internal/controlplane.                              *)
(*                                                                         *)
(* A synchronisation is slow: the services, the people and the groups are  *)
(* read one after the other and written at the end, while all of them and  *)
(* the grants given by hand go on changing.  It does not ask for the lease *)
(* again before it writes, so two of them may overlap.                     *)
(***************************************************************************)
EXTENDS Integers, FiniteSets

CONSTANTS
  People,          \* subjects
  Products,        \* service ids of the catalogue
  Syncs,           \* control planes that may be inside a synchronisation
  MaxEdits,        \* BOUND: changes made by administrators
  MaxSyncFaults    \* BOUND: listings that fail, processes that crash

Admins == "mcp-admin"
Manual == "manual"

ASSUME GrantConstants ==
  /\ Admins \notin Products /\ Manual \notin Products
  /\ MaxEdits \in Nat /\ MaxSyncFaults \in Nat

\* "mcp-service-X" is the group X
Groups == Products \cup {Admins}

VARIABLES
  accounts,    \* Authentik's users: who is there, and who is active
  membership,  \* Authentik's groups: <<person, group>>
  offered,     \* service_catalog: the services that are enabled
  sources,     \* service_grant_sources: <<person, service, source_group>>
  effective,   \* service_grants: <<person, service>>
  sync,        \* the synchronisation each control plane is in
  edits, syncFaults

grantVars == <<accounts, membership, offered, sources, effective, sync, edits, syncFaults>>

Standing == {"absent", "inactive", "active"}
Unread == [p \in People |-> "absent"]
NoSync == [pc |-> "rest", services |-> {}, users |-> Unread, groups |-> {}]

GrantTypeOK ==
  /\ accounts \in [People -> Standing]
  /\ membership \subseteq People \X Groups
  /\ offered \subseteq Products
  /\ sources \subseteq People \X Products \X (Groups \cup {Manual})
  /\ effective = {<<row[1], row[2]>> : row \in sources}
  /\ sync \in [Syncs -> [pc : {"rest", "users", "groups", "store"}, services : SUBSET Products,
                         users : [People -> Standing], groups : SUBSET (People \X Groups)]]
  /\ edits \in 0 .. MaxEdits /\ syncFaults \in 0 .. MaxSyncFaults

GrantInit ==
  /\ accounts = [p \in People |-> "active"]
  /\ membership = {} /\ offered = Products
  /\ sources = {} /\ effective = {}
  /\ sync = [c \in Syncs |-> NoSync]
  /\ edits = 0 /\ syncFaults = 0
-----------------------------------------------------------------------------
(* What is derived from what                                               *)

\* rebuildEffectiveServiceGrants: a pair is granted if any source grants it
Projected(rows) == {<<row[1], row[2]>> : row \in rows}

\* deriveServiceGrants: the group of the service names the source if the person
\* is in it, else the administrators' group; unknown services are ignored.
Group(p, s, groups) == IF <<p, s>> \in groups THEN s ELSE Admins
Derived(snap) ==
  {<<x[1], x[2], Group(x[1], x[2], snap.groups)>> : x \in
     {y \in People \X snap.services : /\ snap.users[y[1]] = "active"
                                      /\ <<y[1], Group(y[1], y[2], snap.groups)>> \in snap.groups}}

Listed(snap) == {p \in People : snap.users[p] # "absent"}

\* Mutation: an empty listing clears the table.
PurgedAll(rows, people) ==
  {row \in rows : people # {} /\ (row[3] = Manual \/ row[1] \in people)}

\* DeleteStaleServiceGrants, or DeleteAllServiceGrants if nobody is listed
Purged(rows, people) == {row \in rows : row[3] = Manual \/ row[1] \in people}

\* Mutation: the grants of those who are listed are only added to.
UnsyncedNone(rows, people) == rows

\* DeleteSubjectSyncedGrantSources, for each of the people listed
Unsynced(rows, people) == {row \in rows : row[3] = Manual \/ row[1] \notin people}

\* SyncSubjectGrantSnapshot
Synced(rows, snap) ==
  Unsynced(Purged(rows, Listed(snap)), Listed(snap)) \cup Derived(snap)
-----------------------------------------------------------------------------
(* The administrators of Authentik and of the control plane                *)

Edit == edits < MaxEdits /\ edits' = edits + 1

ChangeAccount(p) ==
  /\ Edit
  /\ \E a \in Standing \ {accounts[p]} : accounts' = [accounts EXCEPT ![p] = a]
  /\ UNCHANGED <<membership, offered, sources, effective, sync, syncFaults>>

ChangeMembership(p, g) ==
  /\ Edit
  /\ membership' = IF <<p, g>> \in membership THEN membership \ {<<p, g>>}
                                              ELSE membership \cup {<<p, g>>}
  /\ UNCHANGED <<accounts, offered, sources, effective, sync, syncFaults>>

\* UpsertAdminServiceCatalogEntry and DisableServiceCatalogEntry; grants are left alone
ChangeOffer(s) ==
  /\ Edit
  /\ offered' = IF s \in offered THEN offered \ {s} ELSE offered \cup {s}
  /\ UNCHANGED <<accounts, membership, sources, effective, sync, syncFaults>>

Rewrite(rows) == sources' = rows /\ effective' = Projected(rows)

UpsertManualServiceGrant(p, s) ==
  /\ Edit /\ s \in offered
  /\ Rewrite(sources \cup {<<p, s, Manual>>})
  /\ UNCHANGED <<accounts, membership, offered, sync, syncFaults>>

DeleteManualServiceGrant(p, s) ==
  /\ Edit /\ <<p, s, Manual>> \in sources
  /\ Rewrite(sources \ {<<p, s, Manual>>})
  /\ UNCHANGED <<accounts, membership, offered, sync, syncFaults>>
-----------------------------------------------------------------------------
(* SyncStore                                                               *)

SyncServices(c) ==
  /\ sync[c].pc = "rest"
  /\ sync' = [sync EXCEPT ![c].pc = "users", ![c].services = offered]
  /\ UNCHANGED <<accounts, membership, offered, sources, effective, edits, syncFaults>>

ListUsers(c) ==
  /\ sync[c].pc = "users"
  /\ sync' = [sync EXCEPT ![c].pc = "groups", ![c].users = accounts]
  /\ UNCHANGED <<accounts, membership, offered, sources, effective, edits, syncFaults>>

ListGroups(c) ==
  /\ sync[c].pc = "groups"
  /\ sync' = [sync EXCEPT ![c].pc = "store", ![c].groups = membership]
  /\ UNCHANGED <<accounts, membership, offered, sources, effective, edits, syncFaults>>

SyncSubjectGrantSnapshot(c) ==
  /\ sync[c].pc = "store"
  /\ Rewrite(Synced(sources, sync[c]))
  /\ sync' = [sync EXCEPT ![c] = NoSync]
  /\ UNCHANGED <<accounts, membership, offered, edits, syncFaults>>

\* A page, a statement or the commit fails, or the process dies: nothing is written.
SyncFails(c) ==
  /\ sync[c].pc # "rest"
  /\ syncFaults < MaxSyncFaults /\ syncFaults' = syncFaults + 1
  /\ sync' = [sync EXCEPT ![c] = NoSync]
  /\ UNCHANGED <<accounts, membership, offered, sources, effective, edits>>

SyncStore(c) ==
  SyncServices(c) \/ ListUsers(c) \/ ListGroups(c) \/ SyncSubjectGrantSnapshot(c)

GrantNext ==
  \/ \E p \in People : ChangeAccount(p)
  \/ \E p \in People, g \in Groups : ChangeMembership(p, g)
  \/ \E s \in Products : ChangeOffer(s)
  \/ \E p \in People, s \in Products :
       UpsertManualServiceGrant(p, s) \/ DeleteManualServiceGrant(p, s)
  \/ \E c \in Syncs : SyncStore(c) \/ SyncFails(c)

\* The ticker of the reconcile loop fires again and again and Authentik's client
\* has a timeout, so every synchronisation moves on.
GrantFairness == \A c \in Syncs : WF_grantVars(SyncStore(c))

GrantSpec == GrantInit /\ [][GrantNext]_grantVars /\ GrantFairness
-----------------------------------------------------------------------------
(* What is to hold                                                         *)

\* A grant given by hand stays until it is taken back by hand, whatever a
\* synchronisation that overlaps it has read, and even if it listed nobody.
ManualGrantsSurvive ==
  [][\A row \in sources \ sources' : row[3] = Manual =>
       DeleteManualServiceGrant(row[1], row[2])]_grantVars

\* What ought to be granted now
Due == {row \in sources : row[3] = Manual}
         \cup Derived([services |-> offered, users |-> accounts, groups |-> membership])

\* Once Authentik, the catalogue and the grants given by hand stay as they are,
\* the effective grants come to be exactly what follows from them, for good,
\* although services, people and groups were read at three different times,
\* listings failed, and an older synchronisation may have written last.
GrantsConverge == <>[](effective = Projected(Due))
=============================================================================
