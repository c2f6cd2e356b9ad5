-------------------------- MODULE MemoryBankShares --------------------------
(***************************************************************************)
(* Projects of a memory bank and the shares of one of them, as the         *)
(* administrative handlers of the control plane keep them:                 *)
(* memory_bank_admin.go and store.go of src/internal/controlplane.  A      *)
(* handler is a few statements with a clock read among them; the expiry of *)
(* shares is a sweep that creating, accepting and listing make first, each *)
(* with the clock of its own request.                                      *)
(*                                                                         *)
(* One project key of one owner; the project lives and dies with the       *)
(* tenant of its owner (ON DELETE CASCADE).                                *)
(***************************************************************************)
EXTENDS Integers, FiniteSets

CONSTANTS
  Shares,          \* share ids that may be drawn
  Persons,         \* collaborators
  NoPerson,
  Always,          \* expires_at IS NULL
  Desks,           \* administrative requests in flight
  MaxTime,         \* BOUND: length of the explored history
  MaxTenants       \* BOUND: tenants the owner has one after the other

ASSUME ShareConstants ==
  /\ Shares # {}
  /\ NoPerson \notin Persons /\ Always \notin Nat
  /\ MaxTime \in Nat /\ MaxTenants \in Nat

VARIABLES
  time,
  tenant,      \* the owner's tenant: 0, or the number of it
  tenants,     \* how many there were
  project,     \* memory_bank_projects: the tenant it belongs to, and archived_at
  share,       \* memory_bank_project_shares
  desk         \* the requests

shareVars == <<time, tenant, tenants, project, share, desk>>

Times == 0 .. MaxTime
Untils == Times \cup {Always}
NoProject == [owner |-> 0, archived |-> FALSE]
NoShare == [state |-> "none", person |-> NoPerson, until |-> Always]
AtRest == [pc |-> "rest", owner |-> 0, archive |-> FALSE, share |-> NoShare,
           id |-> CHOOSE s \in Shares : TRUE, now |-> 0]
ShareRecords == [state : {"none", "pending", "active", "expired", "revoked"},
                 person : Persons \cup {NoPerson}, until : Untils]

ShareTypeOK ==
  /\ time \in Times
  /\ tenants \in 0 .. MaxTenants /\ tenant \in {0, tenants}
  /\ project \in [owner : 0 .. MaxTenants, archived : BOOLEAN]
  /\ project.owner \in {0, tenant}
  /\ share \in [Shares -> ShareRecords]
  /\ project.owner = 0 => \A s \in Shares : share[s] = NoShare
  /\ desk \in [Desks -> [pc : {"rest", "put", "invite", "insert", "refused", "accept",
                               "activate", "list", "revoke"},
                         owner : 0 .. MaxTenants, archive : BOOLEAN, share : ShareRecords,
                         id : Shares, now : Times]]

ShareInit ==
  /\ time = 0 /\ tenant = 0 /\ tenants = 0
  /\ project = NoProject /\ share = [s \in Shares |-> NoShare]
  /\ desk = [d \in Desks |-> AtRest]
-----------------------------------------------------------------------------
(* The tables                                                              *)

IsOpen(s) == share[s].state \in {"pending", "active"}

\* Mutation: a share is swept one instant after its expiry.
OverdueLate(until, now) == until # Always /\ until < now

\* ExpireMemoryBankProjectShares
Overdue(until, now) == until # Always /\ until <= now
Swept(now) ==
  [s \in Shares |-> IF IsOpen(s) /\ Overdue(share[s].until, now)
                      THEN [share[s] EXCEPT !.state = "expired"] ELSE share[s]]

Unexpired(until, now) == until = Always \/ until > now

\* Mutation: the statement trusts the project that the handler has loaded.
ShareableSeen(owner) == project.owner = owner

\* The guard of InsertMemoryBankProjectShare; the id of a project that went with
\* its tenant never comes back.
Shareable(owner) == project.owner = owner /\ ~project.archived

Tables == <<tenant, tenants, project, share>>
-----------------------------------------------------------------------------
(* Time, and the tenant of the owner                                       *)

ShareTick == time < MaxTime /\ time' = time + 1 /\ UNCHANGED <<Tables, desk>>

MakeTenant ==
  /\ tenant = 0 /\ tenants < MaxTenants
  /\ tenants' = tenants + 1 /\ tenant' = tenants + 1
  /\ UNCHANGED <<time, project, share, desk>>

\* DeleteTenantInstance cascades
RemoveTenant ==
  /\ tenant # 0 /\ tenant' = 0
  /\ project' = NoProject /\ share' = [s \in Shares |-> NoShare]
  /\ UNCHANGED <<time, tenants, desk>>
-----------------------------------------------------------------------------
(* The handlers                                                            *)

Becomes(d, r) == desk' = [desk EXCEPT ![d] = r]
Begins(d, r) == desk[d].pc = "rest" /\ Becomes(d, r)
Leaves(d) == Becomes(d, AtRest)

\* handleMemoryBankProjectPut: GetTenantInstanceBySubjectService,
PutLoad(d, archive) ==
  /\ tenant # 0
  /\ Begins(d, [AtRest EXCEPT !.pc = "put", !.owner = tenant, !.archive = archive])
  /\ UNCHANGED <<time, Tables>>

\* then the upsert, whose foreign key fails if that tenant is gone. archived_at
\* is set or kept, never cleared.
UpsertMemoryBankProject(d) ==
  /\ desk[d].pc = "put"
  /\ project' = IF desk[d].owner = tenant
                  THEN [owner |-> tenant, archived |-> project.archived \/ desk[d].archive]
                  ELSE project
  /\ Leaves(d)
  /\ UNCHANGED <<time, tenant, tenants, share>>

\* handleMemoryBankProjectShareCreate: GetMemoryBankProjectByOwnerKey,
InviteLoad(d, p, until) ==
  /\ project.owner # 0 /\ ~project.archived
  /\ Begins(d, [AtRest EXCEPT !.pc = "invite", !.owner = project.owner,
                  !.share = [state |-> "pending", person |-> p, until |-> until]])
  /\ UNCHANGED <<time, Tables>>

\* the clock,
InviteStamp(d) ==
  /\ desk[d].pc = "invite"
  /\ IF Unexpired(desk[d].share.until, time)
       THEN Becomes(d, [desk[d] EXCEPT !.pc = "insert", !.now = time]) ELSE Leaves(d)
  /\ UNCHANGED <<time, Tables>>

\* and the transaction: sweep and insert, or neither.
CreateMemoryBankProjectShare(d) ==
  LET swept == Swept(desk[d].now)
      rivals == {s \in Shares : /\ swept[s].state \in {"pending", "active"}
                                /\ swept[s].person = desk[d].share.person}
  IN
  /\ desk[d].pc = "insert"
  /\ \/ /\ Shareable(desk[d].owner) /\ rivals = {}
        /\ \E s \in Shares : /\ share[s] = NoShare
                             /\ share' = [swept EXCEPT ![s] = desk[d].share]
        /\ Leaves(d)
     \/ /\ Shareable(desk[d].owner)
        /\ \E s \in rivals :
             Becomes(d, [desk[d] EXCEPT !.pc = "refused", !.share = swept[s]])
        /\ UNCHANGED share
     \/ ~Shareable(desk[d].owner) /\ Leaves(d) /\ UNCHANGED share
  /\ UNCHANGED <<time, tenant, tenants, project>>

\* Accepting and listing read the clock
AcceptStamp(d, s) ==
  /\ share[s] # NoShare
  /\ Begins(d, [AtRest EXCEPT !.pc = "accept", !.id = s, !.now = time])
  /\ UNCHANGED <<time, Tables>>

ListStamp(d) ==
  /\ Begins(d, [AtRest EXCEPT !.pc = "list", !.now = time])
  /\ UNCHANGED <<time, Tables>>

\* and sweep.
ExpireMemoryBankProjectShares(d) ==
  /\ desk[d].pc \in {"accept", "list"}
  /\ share' = Swept(desk[d].now)
  /\ IF desk[d].pc = "accept" THEN Becomes(d, [desk[d] EXCEPT !.pc = "activate"]) ELSE Leaves(d)
  /\ UNCHANGED <<time, tenant, tenants, project>>

\* Mutation: the project is not looked at.
ActivatableAnyProject(s, now) == IsOpen(s) /\ Unexpired(share[s].until, now)

\* The guard of ActivateMemoryBankProjectShare. It also asks for the collaborator of the
\* share; who accepts is left open here, which only lets more acceptances through.
Activatable(s, now) == IsOpen(s) /\ Unexpired(share[s].until, now) /\ ~project.archived

ActivateMemoryBankProjectShare(d) ==
  /\ desk[d].pc = "activate"
  /\ share' = IF Activatable(desk[d].id, desk[d].now)
                THEN [share EXCEPT ![desk[d].id].state = "active"] ELSE share
  /\ Leaves(d)
  /\ UNCHANGED <<time, tenant, tenants, project>>

\* handleMemoryBankShareDelete loads the share and its project,
RevokeLoad(d, s) ==
  /\ share[s] # NoShare
  /\ Begins(d, [AtRest EXCEPT !.pc = "revoke", !.id = s])
  /\ UNCHANGED <<time, Tables>>

\* then revokes what is not revoked, an expired share as well.
RevokeMemoryBankProjectShare(d) ==
  LET s == desk[d].id IN
  /\ desk[d].pc = "revoke"
  /\ share' = IF share[s].state \notin {"none", "revoked"}
                THEN [share EXCEPT ![s].state = "revoked"] ELSE share
  /\ Leaves(d)
  /\ UNCHANGED <<time, tenant, tenants, project>>

\* The client hangs up, a statement fails, or a conflict is answered. A statement that
\* fails is answered with 409 too (memory_bank_admin.go:225), as an archived project is;
\* "refused" stands only for the 409 that the unique index on open shares causes.
ShareAbort(d) == desk[d].pc # "rest" /\ Leaves(d) /\ UNCHANGED <<time, Tables>>

ShareNext ==
  \/ ShareTick \/ MakeTenant \/ RemoveTenant
  \/ \E d \in Desks :
       \/ \E archive \in BOOLEAN : PutLoad(d, archive)
       \/ \E p \in Persons, until \in Untils : InviteLoad(d, p, until)
       \/ \E s \in Shares : AcceptStamp(d, s) \/ RevokeLoad(d, s)
       \/ UpsertMemoryBankProject(d) \/ InviteStamp(d) \/ CreateMemoryBankProjectShare(d)
       \/ ListStamp(d) \/ ExpireMemoryBankProjectShares(d)
       \/ ActivateMemoryBankProjectShare(d) \/ RevokeMemoryBankProjectShare(d)
       \/ ShareAbort(d)

ShareSpec == ShareInit /\ [][ShareNext]_shareVars
-----------------------------------------------------------------------------
(* What is to hold                                                         *)

Promise == INSTANCE ProjectSharing WITH
  now <- time, live <- project.owner # 0 /\ ~project.archived, book <- share

\* The handlers, statement by statement, keep the promise: no person has two open
\* shares, nothing is offered or accepted once the project is archived (whatever a
\* request in flight has seen of it), an acceptance lies before the expiry, and no
\* late acceptance opens what a sweep or an owner has closed.
ImplementsSharing == Promise!Spec

\* The index of open shares refuses an invitation only because of a share that was
\* still good at the clock of that request: one that is over never blocks its
\* successor, although nobody may have listed or accepted anything since it ended.
ConflictsAreReal ==
  \A d \in Desks :
    desk[d].pc = "refused" => Unexpired(desk[d].share.until, desk[d].now)
=============================================================================
