-------------------------- MODULE TenantLifecycle --------------------------
(***************************************************************************)
(* One tenant (a subject's instance of a service) from grant to deletion:  *)
(* src/internal/controlplane/{store,reconciler,tenant_runtime,server}.go   *)
(* and src/db/queries/controlplane.sql.                                    *)
(*                                                                         *)
(* Administrators change the row with single statements.  A reconciler     *)
(* works on a copy of the row: it calls Coolify, which runs the service,   *)
(* and writes back field by field.  A reconciler that lost the lease still *)
(* finishes what it does until it is asked for the lease again.            *)
(***************************************************************************)
EXTENDS Naturals, FiniteSets

CONSTANTS
  Reconcilers,   \* control-plane processes
  Uuids,         \* ids that Coolify may give to services
  URLs,          \* what administrators bind as static upstream
  None,
  Builtin,       \* the service is in DefaultCatalogV1 (empty in this release)
  Template,      \* templatesByID has the service (empty in this release)
  RequeueAfter,  \* deleteRequeueInterval in reconcile cycles
  MaxOps,        \* BOUND: decisions of administrators and of Authentik
  MaxFaults      \* BOUND: failed calls and statements, changes of leader

ASSUME TenantConstants ==
  /\ Reconcilers # {} /\ IsFiniteSet(Uuids)
  /\ None \notin Uuids \cup URLs /\ "internal" \notin URLs
  /\ {Builtin, Template} \subseteq BOOLEAN
  /\ RequeueAfter \in Nat \ {0} /\ MaxOps \in Nat /\ MaxFaults \in Nat

VARIABLES
  row,       \* the row of tenant_instances
  enabled,   \* the service is enabled in the catalog
  granted,   \* the subject has the service grant
  leader,    \* the process that Held answers yes to
  recon,     \* the reconcilers
  coolify,   \* the services Coolify runs
  dying,     \* the ones whose deletion is queued
  ops, faults,
  issued,    \* how many tenant ids were drawn
  bound,     \* history: the upstream that was registered last
  doomed     \* history: tenants that ReconcileDesiredTenants marked deleted

admin == <<enabled, granted, ops, bound>>          \* what administrators write
cloud == <<coolify, dying>>
rows  == <<row, issued, doomed>>
vars  == <<row, enabled, granted, leader, recon, coolify, dying, ops, faults,
           issued, bound, doomed>>
-----------------------------------------------------------------------------
Ids     == 1 .. MaxOps + 1      \* every INSERT draws a new tenant_id
Runtime == {"provisioning", "ready", "degraded", "disabled", "deleting"}

\* age: cycles since last_reconciled_at, RequeueAfter also when it is NULL.
Rows == [id : Ids, desired : {"enabled", "disabled", "deleted"}, runtime : Runtime,
         resource : Uuids \cup {None}, upstream : URLs \cup {"internal", None},
         static : BOOLEAN, age : 0 .. RequeueAfter]

Absent == [id |-> 0, desired |-> "none", runtime |-> "none", resource |-> None,
           upstream |-> None, static |-> FALSE, age |-> 0]

Calls == {"get", "create", "uncreate", "configure", "provision", "start", "started",
          "probe", "observe", "stop", "disable", "lookup", "queue", "condemn"}
PCs   == {"idle", "desire", "askList", "list", "askApply", "apply", "askRecord",
          "record", "finish"} \cup Calls

\* snap: the tenant as listed; uuid: the service at hand; health: what the probe
\* saw; outcome: what is left to do once the run is recorded.
Resting == [pc |-> "idle", snap |-> Absent, uuid |-> None, health |-> "none",
            outcome |-> "mark"]

TypeOK ==
  /\ row \in Rows \cup {Absent}
  /\ enabled \in BOOLEAN /\ granted \in BOOLEAN
  /\ leader \in Reconcilers
  /\ recon \in [Reconcilers -> [pc : PCs, snap : Rows \cup {Absent}, uuid : Uuids \cup {None},
                                health : {"none", "ready", "degraded"},
                                outcome : {"mark", "skip", "remove"}]]
  /\ coolify \in [Uuids -> {"absent", "stopped", "running"}]
  /\ dying \in SUBSET Uuids
  /\ ops \in 0 .. MaxOps /\ faults \in 0 .. MaxFaults
  /\ issued \in 0 .. MaxOps + 1
  /\ bound \in URLs \cup {None} /\ doomed \in SUBSET Ids

\* A tenant that an earlier release provisioned, or none.
Inherited(u) == [id |-> 1, desired |-> "enabled", runtime |-> "ready", resource |-> u,
                 upstream |-> "internal", static |-> FALSE, age |-> RequeueAfter]

Init ==
  /\ row \in {Absent} \cup {Inherited(u) : u \in Uuids}
  /\ enabled = TRUE /\ granted = TRUE
  /\ leader \in Reconcilers
  /\ recon = [r \in Reconcilers |-> Resting]
  /\ coolify = [u \in Uuids |-> IF u = row.resource THEN "running" ELSE "absent"]
  /\ dying = {}
  /\ ops = 0 /\ faults = 0
  /\ issued = row.id /\ bound = None /\ doomed = {}
-----------------------------------------------------------------------------
Op    == ops < MaxOps /\ ops' = ops + 1
Fault == faults < MaxFaults /\ faults' = faults + 1

\* A row that an INSERT of this statement makes.
Inserted(runtime, upstream, static) ==
  [id |-> issued + 1, desired |-> "enabled", runtime |-> runtime, resource |-> None,
   upstream |-> upstream, static |-> static, age |-> RequeueAfter]
-----------------------------------------------------------------------------
(* What administrators and Authentik decide                                  *)

\* handleStaticUpstreamPut; its checks are repeated in the transaction
Bind(url) ==
  /\ Op /\ enabled /\ granted
  /\ IF row = Absent
       THEN row' = Inserted("ready", url, TRUE) /\ issued' = issued + 1
       ELSE /\ row' = [row EXCEPT !.desired = "enabled", !.runtime = "ready",
                                  !.resource = None, !.upstream = url, !.static = TRUE]
            /\ UNCHANGED issued
  /\ bound' = url
  /\ UNCHANGED <<enabled, granted, leader, recon, cloud, faults, doomed>>

\* Mutation: the UPDATE does not ask for desired_state <> 'deleted'.
SuspendableAlways == row # Absent

Suspendable == row # Absent /\ row.desired # "deleted"

Suspend ==
  /\ Op /\ Suspendable
  /\ row' = [row EXCEPT !.desired = "disabled"]
  /\ UNCHANGED <<enabled, granted, leader, recon, cloud, faults, issued, bound, doomed>>

Resume ==
  /\ Op /\ row.desired \notin {"none", "deleted"} /\ granted /\ enabled
  /\ row' = [row EXCEPT !.desired = "enabled"]
  /\ UNCHANGED <<enabled, granted, leader, recon, cloud, faults, issued, bound, doomed>>

\* by hand, or a synchronisation of the reconcile cycle
ChangeGrant ==
  /\ Op /\ granted' = ~granted
  /\ UNCHANGED <<row, enabled, leader, recon, cloud, faults, issued, bound, doomed>>

ChangeCatalog ==
  /\ Op /\ ~Builtin /\ enabled' = ~enabled
  /\ UNCHANGED <<row, granted, leader, recon, cloud, faults, issued, bound, doomed>>
-----------------------------------------------------------------------------
(* runReconcileCycle                                                         *)

At(r, pc) == recon[r].pc = pc
To(r, pc) == recon' = [recon EXCEPT ![r].pc = pc]
Rest(r)   == recon' = [recon EXCEPT ![r] = Resting]
Done(r, outcome) == recon' = [recon EXCEPT ![r].pc = "askRecord", ![r].outcome = outcome]

BeginCycle(r) ==
  /\ At(r, "idle") /\ leader = r
  /\ To(r, "desire")
  /\ row' = IF row.age < RequeueAfter /\ row # Absent THEN [row EXCEPT !.age = @ + 1] ELSE row
  /\ UNCHANGED <<admin, leader, cloud, faults, issued, doomed>>

Wanted == Builtin /\ enabled /\ granted

\* Mutation: a tenant that is wanted again is enabled although it is being deleted.
ReconciledRevived ==
  IF Wanted
    THEN IF row = Absent THEN Inserted("provisioning", None, FALSE)
                         ELSE [row EXCEPT !.desired = "enabled"]
    ELSE IF row = Absent \/ row.static THEN row ELSE [row EXCEPT !.desired = "deleted"]

Reconciled ==
  IF Wanted
    THEN IF row = Absent THEN Inserted("provisioning", None, FALSE) ELSE row
    ELSE IF row = Absent \/ row.static THEN row ELSE [row EXCEPT !.desired = "deleted"]

\* ReconcileDesiredTenants; the second way is a subject whose key has changed
Desire(r) ==
  /\ At(r, "desire")
  /\ \/ row' = Reconciled /\ UNCHANGED ops
     \/ Op /\ Wanted /\ row.desired = "enabled" /\ row' = [row EXCEPT !.runtime = "degraded"]
  /\ issued' = IF row'.id > issued THEN row'.id ELSE issued
  /\ doomed' = IF row'.desired = "deleted" THEN doomed \cup {row.id} ELSE doomed
  /\ To(r, "askList")
  /\ UNCHANGED <<enabled, granted, bound, leader, cloud, faults>>

\* Every question whether the lease is still held, and what is done after a yes.
After == [askList |-> "list", askApply |-> "apply", askRecord |-> "record"]

Ask(r) ==
  /\ recon[r].pc \in DOMAIN After
  /\ IF leader = r THEN To(r, After[recon[r].pc]) ELSE Rest(r)
  /\ UNCHANGED <<rows, admin, leader, cloud, faults>>

List(r) ==
  /\ At(r, "list")
  /\ IF row = Absent
       THEN Rest(r)
       ELSE recon' = [recon EXCEPT ![r] = [Resting EXCEPT !.pc = "askApply", !.snap = row]]
  /\ UNCHANGED <<rows, admin, leader, cloud, faults>>
-----------------------------------------------------------------------------
(* Apply: what to do with the tenant as it was listed                        *)

PlanEnabled(t) ==
  CASE t.runtime \in {"ready", "deleting"} -> "noop"
    [] t.runtime = "disabled"              -> "enable"
    [] OTHER                               -> "ensure"

\* Mutation: a tenant that is not ready does not need to be stopped.
PlanTenantActionLazy(t) ==
  CASE t.desired = "enabled"  -> PlanEnabled(t)
    [] t.desired = "disabled" -> IF t.runtime # "ready" THEN "noop" ELSE "disable"
    [] OTHER                  -> "delete"

PlanTenantAction(t) ==
  CASE t.desired = "enabled"  -> PlanEnabled(t)
    [] t.desired = "disabled" -> IF t.runtime = "disabled" THEN "noop" ELSE "disable"
    [] OTHER                  -> "delete"

Loaded == Builtin \/ enabled                    \* loadService
Ensure(t) == IF ~Template THEN "askRecord"      \* renderTenant fails
             ELSE IF t.resource = None THEN "create" ELSE "get"

\* The first call on a tenant that Coolify runs, and on a static upstream.
FirstCall(t) ==
  LET action == PlanTenantAction(t) IN
  CASE ~Loaded            -> "askRecord"
    [] action = "noop"    -> IF t.runtime = "ready" THEN "probe" ELSE "askRecord"
    [] action = "ensure"  -> Ensure(t)
    [] action = "enable"  -> IF t.resource = None THEN Ensure(t) ELSE "start"
    [] action = "disable" -> IF t.resource = None THEN "disable" ELSE "stop"
    [] action = "delete"  -> IF t.resource = None THEN "askRecord" ELSE "lookup"

\* Mutation: a static upstream is observed only when it is not waited for.
FirstStaticCallQuiet(t) ==
  LET action == PlanTenantAction(t) IN
  CASE action = "delete" \/ ~Loaded -> "askRecord"
    [] action = "disable"           -> "disable"
    [] OTHER -> IF t.upstream = None \/ t.runtime = "deleting" THEN "askRecord" ELSE "probe"

FirstStaticCall(t) ==
  LET action == PlanTenantAction(t) IN
  CASE action = "delete" \/ ~Loaded -> "askRecord"
    [] action = "disable"           -> "disable"
    [] OTHER                        -> IF t.upstream = None THEN "askRecord" ELSE "probe"

\* There is nothing to take down.
Gone(t) == /\ PlanTenantAction(t) = "delete"
           /\ t.static \/ (Loaded /\ t.resource = None)

Apply(r) ==
  /\ At(r, "apply")
  /\ LET t == recon[r].snap IN
     recon' = [recon EXCEPT ![r].pc = IF t.static THEN FirstStaticCall(t) ELSE FirstCall(t),
                            ![r].uuid = IF t.static THEN None ELSE t.resource,
                            ![r].outcome = IF Gone(t) THEN "remove" ELSE "mark"]
  /\ UNCHANGED <<rows, admin, leader, cloud, faults>>
-----------------------------------------------------------------------------
(* Calls of Coolify.  A call may fail after it took effect.                  *)

Exists(u) == coolify[u] # "absent"
Tenant(r) == recon[r].snap

\* Go on, or have the answer fail and give up.
Proceed(r, pc) == \/ To(r, pc) /\ UNCHANGED faults
                  \/ Done(r, "mark") /\ Fault

GetService(r) ==
  /\ At(r, "get")
  /\ To(r, IF Exists(recon[r].uuid) THEN "configure" ELSE "create")
  /\ UNCHANGED <<rows, admin, leader, cloud, faults>>

\* Coolify does not give out an id again that somebody still remembers.
Known == {row.resource} \cup {recon[r].uuid : r \in Reconcilers}
           \cup {Tenant(r).resource : r \in Reconcilers}

CreateService(r) ==
  /\ At(r, "create")
  /\ \/ \E u \in Uuids \ Known :
          /\ ~Exists(u)
          /\ coolify' = [coolify EXCEPT ![u] = "running"]
          /\ \/ /\ recon' = [recon EXCEPT ![r].pc = "configure", ![r].uuid = u]
                /\ UNCHANGED faults
             \/ To(r, "uncreate") /\ Fault
     \/ To(r, "uncreate") /\ Fault /\ UNCHANGED coolify
  /\ UNCHANGED <<rows, admin, leader, dying>>

\* Read the service, correct what has drifted, restart it if anything had.
Configure(r) ==
  /\ At(r, "configure")
  /\ LET u == recon[r].uuid IN
     IF Exists(u)
       THEN /\ Proceed(r, "provision")
            /\ coolify' \in {coolify, [coolify EXCEPT ![u] = "running"]}
       ELSE Done(r, "mark") /\ UNCHANGED <<coolify, faults>>
  /\ UNCHANGED <<rows, admin, leader, dying>>

StartService(r) ==
  /\ At(r, "start")
  /\ LET u == recon[r].uuid IN
     IF Exists(u)
       THEN Proceed(r, "started") /\ coolify' = [coolify EXCEPT ![u] = "running"]
       ELSE To(r, Ensure(Tenant(r))) /\ UNCHANGED <<coolify, faults>>
  /\ UNCHANGED <<rows, admin, leader, dying>>

StopService(r) ==
  /\ At(r, "stop")
  /\ LET u == recon[r].uuid IN
     /\ Proceed(r, "disable")
     /\ coolify' = IF Exists(u) THEN [coolify EXCEPT ![u] = "stopped"] ELSE coolify
  /\ UNCHANGED <<rows, admin, leader, dying>>

ShouldQueue(t) == t.runtime # "deleting" \/ t.age >= RequeueAfter

\* Mutation: waiting for a deletion counts as having reconciled the tenant.
WaitingMarks == "mark"

Waiting == "skip"                    \* SkipReconcileMark

LookUp(r) ==
  /\ At(r, "lookup")
  /\ CASE ~Exists(recon[r].uuid)  -> Done(r, "remove")
       [] ShouldQueue(Tenant(r)) -> To(r, "queue")
       [] OTHER -> recon' = [recon EXCEPT ![r].pc = "condemn", ![r].outcome = Waiting]
  /\ UNCHANGED <<rows, admin, leader, cloud, faults>>

DeleteService(r) ==
  /\ At(r, "queue")
  /\ IF Exists(recon[r].uuid)
       THEN Proceed(r, "condemn") /\ dying' = dying \cup {recon[r].uuid}
       ELSE Done(r, "remove") /\ UNCHANGED <<dying, faults>>
  /\ UNCHANGED <<rows, admin, leader, coolify>>

\* The upstream answers its health check; the name of a tenant leads to its service.
Target(t)  == IF t.upstream = None THEN "internal" ELSE t.upstream
Answers(t) == Target(t) = "internal" => \E u \in Uuids : coolify[u] = "running"

Probe(r) ==
  /\ At(r, "probe")
  /\ \E health \in {"ready", "degraded"} :
       /\ recon' = [recon EXCEPT ![r].pc = "observe", ![r].health = health]
       /\ IF (health = "ready") <=> Answers(Tenant(r))
            THEN UNCHANGED faults
            ELSE health = "degraded" /\ Fault
  /\ UNCHANGED <<rows, admin, leader, cloud>>
-----------------------------------------------------------------------------
(* Statements on the row that was listed, whatever it says by now            *)

\* Mutation: a status without a service clears the one of the row.
UpdateTenantRuntimeStatusBare(t, runtime, uuid, upstream) ==
  IF row.id # t.id THEN row
  ELSE [row EXCEPT !.runtime = runtime, !.resource = uuid,
                   !.upstream = IF upstream = None THEN @ ELSE upstream]

\* Mutation: the statement finds the row of another tenant, or makes one.
UpdateTenantRuntimeStatusUpsert(t, runtime, uuid, upstream) ==
  [row EXCEPT !.runtime = runtime,
              !.resource = IF uuid = None THEN @ ELSE uuid,
              !.upstream = IF upstream = None THEN @ ELSE upstream]

UpdateTenantRuntimeStatus(t, runtime, uuid, upstream) ==
  IF row.id # t.id THEN row
  ELSE [row EXCEPT !.runtime = runtime,
                   !.resource = IF uuid = None THEN @ ELSE uuid,
                   !.upstream = IF upstream = None THEN @ ELSE upstream]

ClearRuntimeReferences(t) ==
  IF row.id # t.id THEN row
  ELSE [row EXCEPT !.runtime = "degraded", !.resource = None, !.upstream = None]

\* What each statement writes and what follows it.
Written(r) ==
  LET t == Tenant(r) IN
  CASE At(r, "provision") -> UpdateTenantRuntimeStatus(t, "provisioning", recon[r].uuid, "internal")
    [] At(r, "started")   -> UpdateTenantRuntimeStatus(t, "provisioning", None, None)
    [] At(r, "observe")   -> UpdateTenantRuntimeStatus(t, recon[r].health, recon[r].uuid, Target(t))
    [] At(r, "disable")   -> UpdateTenantRuntimeStatus(t, "disabled", None, None)
    [] At(r, "condemn")   -> UpdateTenantRuntimeStatus(t, "deleting", None, None)
    [] At(r, "uncreate")  -> ClearRuntimeReferences(t)

Write(r) ==
  /\ recon[r].pc \in {"provision", "started", "observe", "disable", "condemn", "uncreate"}
  /\ row' = Written(r)
  /\ IF recon[r].pc \in {"provision", "started"}
       THEN To(r, "probe") ELSE To(r, "askRecord")
  /\ UNCHANGED <<admin, leader, cloud, faults, issued, doomed>>

\* Anything but CreateService fails without effect, and Apply returns the error.
Fails(r) ==
  /\ recon[r].pc \in Calls \ {"create", "probe"} /\ Fault
  /\ Done(r, "mark")
  /\ UNCHANGED <<rows, admin, leader, cloud>>
-----------------------------------------------------------------------------
(* The rest of RunOnce for this tenant                                       *)

\* RecordReconcileRun: reconcile_runs refers to the tenant
Record(r) ==
  /\ At(r, "record")
  /\ \/ /\ IF row.id = Tenant(r).id THEN To(r, "finish") ELSE Rest(r)
        /\ UNCHANGED faults
     \/ Rest(r) /\ Fault
  /\ UNCHANGED <<rows, admin, leader, cloud>>

\* Mutation: the row is deleted by subject and service.
RemovedByKey(t) == Absent

Removed(t) == IF row.id = t.id THEN Absent ELSE row

Marked(t) == IF row.id = t.id THEN [row EXCEPT !.age = 0] ELSE row

Finish(r) ==
  /\ At(r, "finish")
  /\ \/ /\ row' = CASE recon[r].outcome = "remove" -> Removed(Tenant(r))
                    [] recon[r].outcome = "mark"   -> Marked(Tenant(r))
                    [] recon[r].outcome = "skip"   -> row
        /\ UNCHANGED faults
     \/ Fault /\ UNCHANGED row
  /\ Rest(r)
  /\ UNCHANGED <<admin, leader, cloud, issued, doomed>>
-----------------------------------------------------------------------------
(* Crashes, a change of leader, and Coolify                                  *)

Crash(r) ==
  /\ ~At(r, "idle") /\ Fault /\ Rest(r)
  /\ UNCHANGED <<rows, admin, leader, cloud>>

TakeOver(r) ==
  /\ leader # r /\ leader' = r /\ Fault
  /\ UNCHANGED <<rows, admin, recon, cloud>>

CoolifyDeletes(u) ==
  /\ u \in dying
  /\ coolify' = [coolify EXCEPT ![u] = "absent"] /\ dying' = dying \ {u}
  /\ UNCHANGED <<rows, admin, leader, recon, faults>>

CoolifyForgets(u) ==
  /\ u \in dying /\ Fault /\ dying' = dying \ {u}
  /\ UNCHANGED <<rows, admin, leader, recon, coolify>>

\* Somebody deletes the service in Coolify itself.
CoolifyLoses(u) ==
  /\ Exists(u) /\ Fault
  /\ coolify' = [coolify EXCEPT ![u] = "absent"] /\ dying' = dying \ {u}
  /\ UNCHANGED <<rows, admin, leader, recon>>

Administer ==
  \/ \E url \in URLs : Bind(url)
  \/ Suspend \/ Resume \/ ChangeGrant \/ ChangeCatalog

Reconcile(r) ==
  \/ BeginCycle(r) \/ Desire(r) \/ Ask(r) \/ List(r) \/ Apply(r)
  \/ GetService(r) \/ CreateService(r) \/ Configure(r) \/ StartService(r) \/ StopService(r)
  \/ LookUp(r) \/ DeleteService(r) \/ Probe(r) \/ Write(r) \/ Fails(r)
  \/ Record(r) \/ Finish(r)

Next ==
  \/ Administer
  \/ \E r \in Reconcilers : Reconcile(r) \/ Crash(r) \/ TakeOver(r)
  \/ \E u \in Uuids : CoolifyDeletes(u) \/ CoolifyForgets(u) \/ CoolifyLoses(u)

Spec == Init /\ [][Next]_vars

\* The tickers of a process that runs go on, and Coolify works off its queue.
FairSpec ==
  /\ Spec
  /\ \A r \in Reconcilers : WF_vars(Reconcile(r))
  /\ \A u \in Uuids : WF_vars(CoolifyDeletes(u))
-----------------------------------------------------------------------------
(* Properties                                                                *)

\* Deletion is decided once: nothing but a new static binding turns back a tenant
\* that ReconcileDesiredTenants marked deleted, and then only into a static one.
DeletedIsTerminal ==
  [][row.desired = "deleted" => row' = Absent \/ row'.desired = "deleted" \/ row'.static]_vars

\* Nothing is torn down by mistake, also by a reconciler that lost the lease: a row is
\* removed, and a deletion queued in Coolify, only for a tenant that was marked deleted.
OnlyTheDoomedGo ==
  [][/\ row.id # row'.id => row = Absent \/ row.id \in doomed
     /\ \A u \in dying' \ dying :
          \E r \in Reconcilers : Tenant(r).resource = u /\ Tenant(r).id \in doomed]_vars

\* PlanTenantAction waits for a deletion "before re-enable can occur": a tenant that
\* nobody deletes never waits, unless it is static and is observed all the same.
NobodyWaitsInVain ==
  row.runtime = "deleting" /\ row.desired # "deleted" => row.static

\* A service that no row and no reconciler knows of, and that nobody will delete.
Orphans == {u \in Uuids : Exists(u) /\ u \notin dying /\ u # row.resource
                          /\ \A r \in Reconcilers : u # recon[r].uuid}

\* Services leak only by failures, at most two for each, as long as nobody binds the tenant.
EveryLeakIsAFault == Cardinality(Orphans) <= 2 * faults

\* A tenant that was marked deleted goes, also when Coolify forgets the deletion: it is
\* asked again because waiting does not count as reconciling.
DeletionsComplete == []<>(row.desired # "deleted")

\* When administrators are done, the service of a suspended tenant is not running. Faults
\* are excluded: PlanTenantAction takes runtime_state disabled as proof that nothing runs,
\* which is wrong when StartService took effect and its answer was lost.
SuspensionStopsCompute ==
  [](faults = 0) =>
    <>[](row.desired = "disabled" /\ row.resource # None => coolify[row.resource] # "running")

\* When administrators are done, an enabled tenant of an enabled service can be used.
EnabledBecomesReady == <>[](row.desired = "enabled" /\ Loaded => row.runtime = "ready")

\* The upstream of a static tenant is the one that was registered last.
BindingIsTheLastOne == row.static => row.upstream = bound

\* What is removed is what is to be deleted at that moment.
RemovedWhileDeleted == [][row.id # row'.id => row = Absent \/ row.desired = "deleted"]_vars
=============================================================================
