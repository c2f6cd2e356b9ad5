----------------------- MODULE TenantLifecycleProofs -----------------------
(* Proofs about TenantLifecycle.                                             *)
(*                                                                           *)
(* The inductive invariant says what a reconciler may rely on while it works *)
(* on a copy of the row: the copy is a tenant, and whoever is about to take  *)
(* something down holds the copy of a tenant that was marked deleted.  That  *)
(* the ids suffice is a counting argument: a tenant is made anew only after  *)
(* the grant was taken and given back, or by a binding.                      *)
(*                                                                           *)
(* That services leak only by failures is another counting argument, in the  *)
(* second half: an account of what is live and what may still come of it.    *)
EXTENDS TenantLifecycle, FiniteSetTheorems, TLAPS

Early  == {"idle", "desire", "askList", "list"}
Teardown == {"lookup", "queue"}
Onward == PCs \ (Teardown \cup {"observe"})

Cycles == [pc : PCs, snap : Rows \cup {Absent}, uuid : Uuids \cup {None},
           health : {"none", "ready", "degraded"}, outcome : {"mark", "skip", "remove"}]

\* What holds of every reconciler c, where D are the doomed tenants.
Local(D, c) ==
  /\ c \in Cycles
  /\ c.pc \notin Early => c.snap \in Rows
  /\ c.snap.desired = "deleted" => c.snap.id \in D
  /\ c.outcome = "remove" \/ c.pc \in Teardown => c.snap.desired = "deleted"
  /\ c.pc \in Teardown => c.uuid = c.snap.resource /\ c.uuid \in Uuids
  /\ c.pc = "observe" => c.health # "none"

Steady == recon \in [Reconcilers -> Cycles] /\ \A r \in Reconcilers : Local(doomed, recon[r])

\* What holds of the row: its id was drawn, and a row to be deleted is doomed.
Numbered ==
  /\ row # Absent => row.id \in 1 .. issued
  /\ row.desired = "deleted" => row.id \in doomed
  /\ doomed \in SUBSET (1 .. issued)

\* Where a tenant may be made anew, one more decision than ids is used up.
Counted ==
  /\ issued <= ops + 1
  /\ Wanted /\ (row = Absent \/ row.id \in doomed) => issued <= ops

IInv == TypeOK /\ Steady /\ Numbered /\ Counted
-----------------------------------------------------------------------------
(* One reconciler                                                            *)

\* A reconciler that goes on with its copy keeps what holds of it.
LEMMA LocalTo ==
  ASSUME NEW D, NEW c, Local(D, c), NEW pc \in Onward,
         pc \notin Early => c.snap \in Rows
  PROVE  Local(D, [c EXCEPT !.pc = pc])
BY DEF Onward, Local, Cycles

\* So does one whose tenant is finished with some outcome.
LEMMA LocalDone ==
  ASSUME NEW D, NEW c, Local(D, c), c.snap \in Rows,
         NEW pc \in {"askRecord", "condemn"}, NEW o \in {"mark", "skip", "remove"},
         o = "remove" => c.snap.desired = "deleted"
  PROVE  Local(D, [c EXCEPT !.pc = pc, !.outcome = o])
<1>1. pc \in PCs /\ pc \notin Teardown
  BY DEF Onward, PCs, Calls, Teardown
<1> QED BY <1>1 DEF Local, Cycles

\* One that rests holds nothing.
LEMMA LocalResting ==
  ASSUME NEW D
  PROVE  Local(D, Resting)
<1>1. Absent.desired = "none"
  BY DEF Absent
<1>2. Resting \in Cycles
  BY DEF Cycles, Resting, PCs
<1>3. Resting.pc = "idle" /\ Resting.outcome = "mark" /\ Resting.snap = Absent
  BY DEF Resting
<1> QED BY <1>1, <1>2, <1>3 DEF Local, Early, Teardown

\* Tenants that are doomed later do not disturb a reconciler.
LEMMA LocalMonotone ==
  ASSUME NEW D, NEW E, D \subseteq E, NEW c, Local(D, c)
  PROVE  Local(E, c)
BY DEF Local

\* A step of one reconciler leaves the others alone.
LEMMA SteadyStep ==
  ASSUME Steady, NEW r \in Reconcilers, NEW c, Local(doomed', c),
         recon' = [recon EXCEPT ![r] = c], doomed \subseteq doomed'
  PROVE  Steady'
<1>1. c \in Cycles
  BY DEF Local
<1>2. recon' \in [Reconcilers -> Cycles]
  BY <1>1 DEF Steady
<1>3. ASSUME NEW q \in Reconcilers
      PROVE  Local(doomed', recon'[q])
  <2>1. CASE q = r
    BY <2>1 DEF Steady
  <2>2. CASE q # r
    <3>1. recon'[q] = recon[q]
      BY <2>2 DEF Steady
    <3> QED BY <3>1, LocalMonotone DEF Steady
  <2> QED BY <2>1, <2>2
<1> QED BY <1>2, <1>3 DEF Steady

\* The same for reconcilers that nobody touches.
LEMMA SteadyStutter ==
  ASSUME Steady, UNCHANGED recon, doomed \subseteq doomed'
  PROVE  Steady'
BY LocalMonotone DEF Steady

\* Going on with the tenant.
LEMMA SteadyTo ==
  ASSUME Steady, NEW r \in Reconcilers, NEW pc \in Onward, To(r, pc),
         pc \notin Early => Tenant(r) \in Rows, doomed \subseteq doomed'
  PROVE  Steady'
<1>1. recon' = [recon EXCEPT ![r] = [recon[r] EXCEPT !.pc = pc]]
  BY DEF To
<1>2. Local(doomed', recon[r])
  BY LocalMonotone DEF Steady
<1>3. Local(doomed', [recon[r] EXCEPT !.pc = pc])
  BY <1>2, LocalTo DEF Tenant
<1> QED BY <1>1, <1>3, SteadyStep

\* Giving the tenant up, with some outcome.
LEMMA SteadyDone ==
  ASSUME Steady, NEW r \in Reconcilers, NEW o \in {"mark", "skip", "remove"}, Done(r, o),
         Tenant(r) \in Rows, o = "remove" => Tenant(r).desired = "deleted", UNCHANGED doomed
  PROVE  Steady'
<1>1. recon' = [recon EXCEPT ![r] = [recon[r] EXCEPT !.pc = "askRecord", !.outcome = o]]
  BY DEF Done
<1>2. Local(doomed', [recon[r] EXCEPT !.pc = "askRecord", !.outcome = o])
  BY LocalDone DEF Steady, Tenant
<1> QED BY <1>1, <1>2, SteadyStep

\* Resting.
LEMMA SteadyRest ==
  ASSUME Steady, NEW r \in Reconcilers, Rest(r), UNCHANGED doomed
  PROVE  Steady'
BY LocalResting, SteadyStep DEF Rest

\* Going on, or giving up because the answer fails.
LEMMA SteadyProceed ==
  ASSUME Steady, NEW r \in Reconcilers, NEW pc \in Onward, Proceed(r, pc),
         Tenant(r) \in Rows, UNCHANGED doomed
  PROVE  Steady'
BY SteadyTo, SteadyDone DEF Proceed

\* Past the listing, a reconciler has a tenant.
LEMMA HasTenant ==
  ASSUME Steady, NEW r \in Reconcilers, recon[r].pc \notin Early
  PROVE  Tenant(r) \in Rows
BY DEF Steady, Local, Tenant
-----------------------------------------------------------------------------
(* What a reconciler does with its tenant                                    *)

\* Only a tenant that is to be deleted is looked up to be taken down.
LEMMA FirstCalls ==
  ASSUME NEW t \in Rows
  PROVE  /\ FirstCall(t) \in PCs \ {"queue", "observe", "condemn"}
         /\ FirstStaticCall(t) \in Onward \ {"condemn"}
         /\ FirstCall(t) = "lookup" => t.desired = "deleted" /\ t.resource # None
         /\ Gone(t) => t.desired = "deleted"
<1> DEFINE action == PlanTenantAction(t)
<1>1. t.desired \in {"enabled", "disabled", "deleted"}
  BY DEF Rows
<1>2. PlanEnabled(t) \in {"noop", "enable", "ensure"}
  BY DEF PlanEnabled
<1>3. action \in {"noop", "enable", "ensure", "disable", "delete"}
  BY <1>1, <1>2 DEF PlanTenantAction
<1>4. action = "delete" => t.desired = "deleted"
  BY <1>1, <1>2 DEF PlanTenantAction
<1>5. Ensure(t) \in {"askRecord", "create", "get"}
  BY DEF Ensure
<1>6. FirstCall(t) \in {"askRecord", "probe", "create", "get", "start", "disable", "stop", "lookup"}
  <2> HIDE DEF action
  <2> QED BY <1>3, <1>5 DEF FirstCall, action
<1>7. FirstCall(t) = "lookup" => action = "delete" /\ t.resource # None
  <2> HIDE DEF action
  <2> QED BY <1>3, <1>5 DEF FirstCall, action
<1>8. FirstStaticCall(t) \in {"askRecord", "disable", "probe"}
  BY DEF FirstStaticCall
<1>9. Gone(t) => action = "delete"
  BY DEF Gone
<1> HIDE DEF action
<1> QED BY <1>4, <1>6, <1>7, <1>8, <1>9 DEF Onward, PCs, Calls, Teardown

\* Taking up the tenant as it was listed.
LEMMA ApplySteady ==
  ASSUME Steady, NEW r \in Reconcilers, Apply(r)
  PROVE  Steady'
<1> DEFINE t == recon[r].snap
           c == [recon[r] EXCEPT !.pc = IF t.static THEN FirstStaticCall(t) ELSE FirstCall(t),
                                 !.uuid = IF t.static THEN None ELSE t.resource,
                                 !.outcome = IF Gone(t) THEN "remove" ELSE "mark"]
<1>1. t \in Rows
  BY HasTenant DEF Apply, At, Early, Tenant
<1>2. recon[r] \in Cycles /\ Local(doomed, recon[r])
  BY DEF Steady
<1>3. recon' = [recon EXCEPT ![r] = c] /\ UNCHANGED doomed
  BY DEF Apply, rows
<1>4. /\ c.pc = IF t.static THEN FirstStaticCall(t) ELSE FirstCall(t)
      /\ c.uuid = IF t.static THEN None ELSE t.resource
      /\ c.outcome = IF Gone(t) THEN "remove" ELSE "mark"
      /\ c.snap = t /\ c.health = recon[r].health
  BY <1>2 DEF Cycles
<1>5. c.pc \in PCs \ {"queue", "observe"} /\ (c.pc = "lookup" => ~t.static)
  BY <1>1, <1>4, FirstCalls DEF Onward, Teardown
<1>6. c \in Cycles
  <2>1. t.resource \in Uuids \cup {None}
    BY <1>1 DEF Rows
  <2>2. (IF t.static THEN None ELSE t.resource) \in Uuids \cup {None}
    BY <2>1
  <2>3. (IF t.static THEN FirstStaticCall(t) ELSE FirstCall(t)) \in PCs
    BY <1>4, <1>5
  <2> QED BY <1>2, <2>2, <2>3 DEF Cycles
<1>7. c.pc = "lookup" => /\ t.desired = "deleted" /\ t.resource # None /\ c.uuid = t.resource
                         /\ t.resource \in Uuids
  <2>1. t.resource \in Uuids \cup {None}
    BY <1>1 DEF Rows
  <2> QED BY <1>1, <1>4, <1>5, <2>1, FirstCalls
<1>8. c.outcome = "remove" => t.desired = "deleted"
  BY <1>1, <1>4, FirstCalls
<1>9. Local(doomed, c)
  <2>1. c.snap.desired = "deleted" => c.snap.id \in doomed
    BY <1>2, <1>4 DEF Local
  <2> HIDE DEF c, t
  <2> QED BY <1>1, <1>4, <1>5, <1>6, <1>7, <1>8, <2>1 DEF Local, Teardown
<1> HIDE DEF c
<1> QED BY <1>3, <1>9, SteadyStep

\* Looking up the service of a tenant that is to be deleted.
LEMMA LookUpSteady ==
  ASSUME Steady, NEW r \in Reconcilers, LookUp(r)
  PROVE  Steady'
<1>1. Tenant(r) \in Rows /\ UNCHANGED doomed /\ Local(doomed, recon[r]) /\ recon[r].pc = "lookup"
  BY HasTenant DEF LookUp, At, Early, rows, Steady
<1>2. Tenant(r).desired = "deleted"
  BY <1>1 DEF Local, Teardown, Tenant
<1>3. CASE Done(r, "remove")
  BY <1>1, <1>2, <1>3, SteadyDone
<1>4. CASE To(r, "queue")
  <2> DEFINE c == [recon[r] EXCEPT !.pc = "queue"]
  <2>1. recon' = [recon EXCEPT ![r] = c]
    BY <1>4 DEF To
  <2>2. "queue" \in PCs
    BY DEF PCs, Calls
  <2>3. Local(doomed', c)
    BY <1>1, <2>2 DEF Local, Cycles, Teardown, Tenant
  <2> QED BY <1>1, <2>1, <2>3, SteadyStep
<1>5. CASE recon' = [recon EXCEPT ![r].pc = "condemn", ![r].outcome = Waiting]
  <2> DEFINE c == [recon[r] EXCEPT !.pc = "condemn", !.outcome = "skip"]
  <2>1. recon' = [recon EXCEPT ![r] = c]
    BY <1>5 DEF Waiting
  <2>2. Local(doomed', c)
    BY <1>1, LocalDone DEF Tenant
  <2> HIDE DEF c
  <2> QED BY <1>1, <2>1, <2>2, SteadyStep
<1>6. \/ Done(r, "remove") \/ To(r, "queue")
      \/ recon' = [recon EXCEPT ![r].pc = "condemn", ![r].outcome = Waiting]
  BY Zenon DEF LookUp
<1> QED BY <1>3, <1>4, <1>5, <1>6

\* Having the service deleted.
LEMMA DeleteServiceSteady ==
  ASSUME Steady, NEW r \in Reconcilers, DeleteService(r)
  PROVE  Steady'
<1>1. Tenant(r) \in Rows /\ UNCHANGED doomed /\ Local(doomed, recon[r]) /\ recon[r].pc = "queue"
  BY HasTenant DEF DeleteService, At, Early, rows, Steady
<1>2. Tenant(r).desired = "deleted"
  BY <1>1 DEF Local, Teardown, Tenant
<1>3. "condemn" \in Onward
  BY DEF Onward, PCs, Calls, Teardown
<1> QED BY <1>1, <1>2, <1>3, SteadyProceed, SteadyDone DEF DeleteService

\* Making a service.
LEMMA CreateServiceSteady ==
  ASSUME Steady, NEW r \in Reconcilers, CreateService(r)
  PROVE  Steady'
<1>1. Tenant(r) \in Rows /\ UNCHANGED doomed /\ Local(doomed, recon[r])
  BY HasTenant DEF CreateService, At, Early, rows, Steady
<1>2. {"configure", "uncreate"} \subseteq Onward
  BY DEF Onward, PCs, Calls, Teardown
<1>3. CASE To(r, "uncreate")
  BY <1>1, <1>2, <1>3, SteadyTo
<1>4. ASSUME NEW u \in Uuids, recon' = [recon EXCEPT ![r].pc = "configure", ![r].uuid = u]
      PROVE  Steady'
  <2> DEFINE c == [recon[r] EXCEPT !.pc = "configure", !.uuid = u]
  <2>1. recon' = [recon EXCEPT ![r] = c]
    BY <1>4
  <2>2. Local(doomed', c)
    BY <1>1, <1>2 DEF Onward, Local, Cycles, Tenant
  <2> HIDE DEF c
  <2> QED BY <1>1, <2>1, <2>2, SteadyStep
<1> QED BY <1>3, <1>4 DEF CreateService

\* Listing the tenants.
LEMMA ListSteady ==
  ASSUME TypeOK, Steady, Numbered, NEW r \in Reconcilers, List(r)
  PROVE  Steady'
<1>1. UNCHANGED doomed
  BY DEF List, rows
<1>2. CASE row = Absent
  BY <1>1, <1>2, SteadyRest DEF List
<1>3. CASE row # Absent
  <2> DEFINE c == [Resting EXCEPT !.pc = "askApply", !.snap = row]
  <2>1. recon' = [recon EXCEPT ![r] = c]
    BY <1>3 DEF List
  <2>2. row \in Rows
    BY <1>3 DEF TypeOK
  <2>3. Resting \in Cycles /\ Resting.outcome = "mark" /\ "askApply" \in Onward
    BY LocalResting DEF Local, Resting, Onward, PCs, Teardown, Calls
  <2>4. /\ c \in Cycles /\ c.snap = row /\ c.pc = "askApply" /\ c.outcome = "mark"
    BY <2>2, <2>3 DEF Onward, Cycles
  <2> HIDE DEF c
  <2>5. Local(doomed', c)
    BY <1>1, <2>2, <2>3, <2>4 DEF Onward, Local, Numbered
  <2> QED BY <2>1, <2>5, <1>1, SteadyStep
<1> QED BY <1>2, <1>3

\* Reading the upstream's health.
LEMMA ProbeSteady ==
  ASSUME Steady, NEW r \in Reconcilers, Probe(r)
  PROVE  Steady'
<1>1. UNCHANGED doomed /\ Tenant(r) \in Rows /\ Local(doomed, recon[r])
  BY HasTenant DEF Probe, At, Early, rows, Steady
<1>2. PICK health \in {"ready", "degraded"} :
        recon' = [recon EXCEPT ![r].pc = "observe", ![r].health = health]
  BY DEF Probe
<1> DEFINE c == [recon[r] EXCEPT !.pc = "observe", !.health = health]
<1>3. recon' = [recon EXCEPT ![r] = c]
  BY <1>2
<1>4. "observe" \in PCs \ Teardown
  BY DEF PCs, Calls, Teardown
<1>5. Local(doomed', c)
  BY <1>1, <1>4 DEF Local, Cycles, Tenant
<1> HIDE DEF c
<1> QED BY <1>1, <1>3, <1>5, SteadyStep

\* The other steps of a reconciler: it goes on, gives its tenant up, or rests.
LEMMA ReconcileSteady ==
  ASSUME TypeOK, Steady, Numbered, NEW r \in Reconcilers,
         Reconcile(r) \/ Crash(r), doomed \subseteq doomed'
  PROVE  Steady'
<1>1. recon[r].pc \notin Early => Tenant(r) \in Rows
  BY HasTenant
<1>2. ASSUME BeginCycle(r) \/ Desire(r)  PROVE Steady'
  <2>1. {"desire", "askList"} \subseteq Onward
    BY DEF Onward, PCs, Calls, Teardown
  <2>2. {"desire", "askList"} \subseteq Early
    BY DEF Early
  <2> QED BY <1>2, <2>1, <2>2, SteadyTo DEF BeginCycle, Desire
<1>3. ASSUME Ask(r)  PROVE Steady'
  <2>1. UNCHANGED doomed
    BY <1>3 DEF Ask, rows
  <2>2. CASE leader # r
    BY <1>3, <2>1, <2>2, SteadyRest DEF Ask
  <2>3. CASE leader = r
    <3>1. To(r, After[recon[r].pc]) /\ recon[r].pc \in {"askList", "askApply", "askRecord"}
      BY <1>3, <2>3 DEF Ask, After
    <3>2. After[recon[r].pc] \in Onward
      BY <3>1 DEF After, Onward, PCs, Teardown
    <3>3. After[recon[r].pc] \notin Early => Tenant(r) \in Rows
      BY <1>1, <3>1 DEF After, Early
    <3> QED BY <3>1, <3>2, <3>3, SteadyTo
  <2> QED BY <2>2, <2>3
<1>4. ASSUME GetService(r) \/ Configure(r) \/ StartService(r) \/ StopService(r) \/ Write(r)
      PROVE  Steady'
  <2>1. UNCHANGED doomed /\ recon[r].pc \notin Early
    BY <1>4 DEF GetService, Configure, StartService, StopService, Write, rows, At, Early
  <2>2. {"configure", "create", "provision", "started", "disable", "probe", "askRecord", "get"}
          \subseteq Onward
    BY DEF Onward, PCs, Calls, Teardown
  <2>3. Ensure(Tenant(r)) \in Onward
    BY <2>2 DEF Ensure
  <2>4. CASE GetService(r)
    BY <1>1, <2>1, <2>2, <2>4, SteadyTo DEF GetService
  <2>5. CASE Configure(r)
    BY <1>1, <2>1, <2>2, <2>5, SteadyProceed, SteadyDone DEF Configure
  <2>6. CASE StartService(r)
    BY <1>1, <2>1, <2>2, <2>3, <2>6, SteadyTo, SteadyProceed DEF StartService
  <2>7. CASE StopService(r)
    BY <1>1, <2>1, <2>2, <2>7, SteadyProceed DEF StopService
  <2>8. CASE Write(r)
    BY <1>1, <2>1, <2>2, <2>8, SteadyTo DEF Write
  <2> QED BY <1>4, <2>4, <2>5, <2>6, <2>7, <2>8
<1>5. ASSUME Fails(r)  PROVE Steady'
  <2>1. recon[r].pc \notin Early /\ UNCHANGED doomed /\ Done(r, "mark")
    BY <1>5 DEF Fails, rows, Early, Calls
  <2> QED BY <1>1, <2>1, SteadyDone
<1>6. ASSUME Record(r) \/ Finish(r) \/ Crash(r)  PROVE Steady'
  <2>1. UNCHANGED doomed
    BY <1>6 DEF Record, Finish, Crash, rows
  <2>2. CASE Rest(r)
    BY <2>1, <2>2, SteadyRest
  <2>3. CASE Record(r) /\ To(r, "finish")
    <3>1. "finish" \in Onward
      BY DEF Onward, PCs, Teardown
    <3>2. recon[r].pc \notin Early
      BY <2>3 DEF Record, At, Early
    <3> QED BY <1>1, <2>1, <2>3, <3>1, <3>2, SteadyTo
  <2> QED BY <1>6, <2>2, <2>3 DEF Record, Finish, Crash
<1> QED BY <1>2, <1>3, <1>4, <1>5, <1>6, ApplySteady, LookUpSteady, DeleteServiceSteady,
           CreateServiceSteady, ListSteady, ProbeSteady DEF Reconcile
-----------------------------------------------------------------------------
(* The row                                                                   *)

\* The row x is that of the same tenant as before, with the same desired state.
Kept(x) ==
  /\ x \in Rows \cup {Absent} /\ (x = Absent <=> row = Absent)
  /\ x.id = row.id /\ x.desired = row.desired

\* No tenant has the id of an absent row.
LEMMA AbsentRow ==
  /\ Absent.id = 0 /\ Absent.desired = "none" /\ Absent.static = FALSE /\ Absent \notin Rows
  /\ \A t \in Rows : t.id \in Ids /\ t.id > 0 /\ t.desired \in {"enabled", "disabled", "deleted"}
<1>1. Absent.id = 0 /\ Absent.desired = "none" /\ Absent.static = FALSE
  BY DEF Absent
<1>2. ASSUME NEW t \in Rows
      PROVE  t.id \in Ids /\ t.id > 0 /\ t.desired \in {"enabled", "disabled", "deleted"}
  BY TenantConstants DEF Rows, Ids
<1> QED BY <1>1, <1>2

\* Writing a status touches neither the tenant's id nor what is desired of it.
LEMMA StatusKeeps ==
  ASSUME row \in Rows \cup {Absent}, NEW t \in Rows, NEW runtime \in Runtime,
         NEW uuid \in Uuids \cup {None}, NEW upstream \in URLs \cup {"internal", None}
  PROVE  Kept(UpdateTenantRuntimeStatus(t, runtime, uuid, upstream))
<1>1. CASE row.id # t.id
  BY <1>1 DEF UpdateTenantRuntimeStatus, Kept
<1>2. CASE row.id = t.id
  <2>1. row \in Rows /\ row # Absent
    BY <1>2, AbsentRow
  <2> DEFINE x == [row EXCEPT !.runtime = runtime,
                              !.resource = IF uuid = None THEN @ ELSE uuid,
                              !.upstream = IF upstream = None THEN @ ELSE upstream]
  <2>2. x \in Rows
    BY <2>1 DEF Rows
  <2>3. x.id = row.id /\ x.desired = row.desired
    BY <2>1 DEF Rows
  <2>4. UpdateTenantRuntimeStatus(t, runtime, uuid, upstream) = x
    BY <1>2 DEF UpdateTenantRuntimeStatus
  <2> HIDE DEF x
  <2> QED BY <2>1, <2>2, <2>3, <2>4, AbsentRow DEF Kept
<1> QED BY <1>1, <1>2

\* Nor does clearing what is known of its service.
LEMMA ClearKeeps ==
  ASSUME row \in Rows \cup {Absent}, NEW t \in Rows
  PROVE  Kept(ClearRuntimeReferences(t))
<1>1. CASE row.id # t.id
  BY <1>1 DEF ClearRuntimeReferences, Kept
<1>2. CASE row.id = t.id
  <2>1. row \in Rows /\ row # Absent
    BY <1>2, AbsentRow
  <2> DEFINE x == [row EXCEPT !.runtime = "degraded", !.resource = None, !.upstream = None]
  <2>2. x \in Rows
    BY <2>1 DEF Rows, Runtime
  <2>3. x.id = row.id /\ x.desired = row.desired
    BY <2>1 DEF Rows
  <2>4. ClearRuntimeReferences(t) = x
    BY <1>2 DEF ClearRuntimeReferences
  <2> HIDE DEF x
  <2> QED BY <2>1, <2>2, <2>3, <2>4, AbsentRow DEF Kept
<1> QED BY <1>1, <1>2

\* Whatever a reconciler writes, the row stays that of the same tenant.
LEMMA WriteKeeps ==
  ASSUME TypeOK, Steady, NEW r \in Reconcilers, Write(r)
  PROVE  Kept(row')
<1> DEFINE t == Tenant(r)
           c == recon[r]
<1>1. t \in Rows
  BY HasTenant DEF Write, Early
<1>2. row \in Rows \cup {Absent} /\ c.uuid \in Uuids \cup {None}
  BY DEF TypeOK, Steady, Cycles
<1>3. Target(t) \in URLs \cup {"internal", None}
  BY <1>1 DEF Target, Rows
<1>4. {"provisioning", "disabled", "deleting", "ready", "degraded"} \subseteq Runtime
  BY DEF Runtime
<1>5. CASE c.pc = "provision"
  <2>1. row' = UpdateTenantRuntimeStatus(t, "provisioning", c.uuid, "internal")
    BY <1>5 DEF Write, Written, At
  <2> QED BY <1>1, <1>2, <1>4, <2>1, StatusKeeps
<1>6. CASE c.pc = "started"
  <2>1. row' = UpdateTenantRuntimeStatus(t, "provisioning", None, None)
    BY <1>6 DEF Write, Written, At
  <2> QED BY <1>1, <1>2, <1>4, <2>1, StatusKeeps
<1>7. CASE c.pc = "observe"
  <2>1. row' = UpdateTenantRuntimeStatus(t, c.health, c.uuid, Target(t))
    BY <1>7 DEF Write, Written, At
  <2>2. c.health \in {"ready", "degraded"}
    BY <1>7 DEF Steady, Local, Cycles
  <2> QED BY <1>1, <1>2, <1>3, <1>4, <2>1, <2>2, StatusKeeps
<1>8. CASE c.pc = "disable"
  <2>1. row' = UpdateTenantRuntimeStatus(t, "disabled", None, None)
    BY <1>8 DEF Write, Written, At
  <2> QED BY <1>1, <1>2, <1>4, <2>1, StatusKeeps
<1>9. CASE c.pc = "condemn"
  <2>1. row' = UpdateTenantRuntimeStatus(t, "deleting", None, None)
    BY <1>9 DEF Write, Written, At
  <2> QED BY <1>1, <1>2, <1>4, <2>1, StatusKeeps
<1>10. CASE c.pc = "uncreate"
  <2>1. row' = ClearRuntimeReferences(t)
    BY <1>10 DEF Write, Written, At
  <2> QED BY <1>1, <1>2, <2>1, ClearKeeps
<1> QED BY <1>5, <1>6, <1>7, <1>8, <1>9, <1>10 DEF Write

\* A cycle that begins only ages the row.
LEMMA BeginCycleKeeps ==
  ASSUME TypeOK, NEW r \in Reconcilers, BeginCycle(r)
  PROVE  Kept(row')
<1>1. CASE row.age < RequeueAfter /\ row # Absent
  <2>1. row \in Rows
    BY <1>1 DEF TypeOK
  <2>2. row.age \in 0 .. RequeueAfter /\ RequeueAfter \in Nat
    BY <2>1, TenantConstants DEF Rows
  <2>3. row.age + 1 \in 0 .. RequeueAfter
    BY <1>1, <2>2
  <2>4. row' = [row EXCEPT !.age = row.age + 1]
    BY <1>1 DEF BeginCycle
  <2>5. row' \in Rows /\ row'.id = row.id /\ row'.desired = row.desired
    BY <2>1, <2>3, <2>4 DEF Rows
  <2> QED BY <1>1, <2>5, AbsentRow DEF Kept
<1>2. CASE ~(row.age < RequeueAfter /\ row # Absent)
  BY <1>2 DEF BeginCycle, Kept, TypeOK
<1> QED BY <1>1, <1>2

\* A run that ends keeps the row, or removes that of a doomed tenant.
LEMMA FinishRow ==
  ASSUME TypeOK, Steady, NEW r \in Reconcilers, Finish(r)
  PROVE  Kept(row') \/ (row' = Absent /\ row # Absent /\ row.id \in doomed)
<1> DEFINE t == Tenant(r)
           c == recon[r]
<1>1. t \in Rows /\ row \in Rows \cup {Absent}
  BY HasTenant DEF Finish, At, Early, TypeOK
<1>2. c.outcome = "remove" => t.id \in doomed
  BY DEF Steady, Local, Tenant
<1>3. c.outcome \in {"mark", "skip", "remove"}
  BY DEF Steady, Cycles
<1>4. CASE UNCHANGED row
  BY <1>1, <1>4 DEF Kept
<1>5. CASE row' = Removed(t) /\ c.outcome = "remove"
  <2>1. CASE row.id = t.id
    BY <1>1, <1>2, <1>5, <2>1, AbsentRow DEF Removed
  <2>2. CASE row.id # t.id
    BY <1>1, <1>5, <2>2 DEF Removed, Kept
  <2> QED BY <2>1, <2>2
<1>6. CASE row' = Marked(t)
  <2>1. CASE row.id = t.id
    <3>1. row \in Rows
      BY <1>1, <2>1, AbsentRow
    <3>2. 0 \in 0 .. RequeueAfter
      BY TenantConstants
    <3>3. row' = [row EXCEPT !.age = 0]
      BY <1>6, <2>1 DEF Marked
    <3>4. row' \in Rows /\ row'.id = row.id /\ row'.desired = row.desired
      BY <3>1, <3>2, <3>3 DEF Rows
    <3> QED BY <3>1, <3>4, AbsentRow DEF Kept
  <2>2. CASE row.id # t.id
    BY <1>1, <1>6, <2>2 DEF Marked, Kept
  <2> QED BY <2>1, <2>2
<1>7. \/ UNCHANGED row
      \/ row' = Removed(t) /\ c.outcome = "remove"
      \/ row' = Marked(t)
  BY <1>3 DEF Finish
<1> QED BY <1>4, <1>5, <1>6, <1>7

\* Where only the row changes and its tenant stays, ids and decisions stay counted.
LEMMA KeptCounts ==
  ASSUME Numbered, Counted, Kept(row'), UNCHANGED <<issued, doomed, enabled, granted, ops>>
  PROVE  Numbered' /\ Counted'
BY DEF Kept, Numbered, Counted, Wanted

\* A removed row was doomed: a new one was paid for by another decision.
LEMMA RemovalCounts ==
  ASSUME Numbered, Counted, row' = Absent, row.id \in doomed,
         UNCHANGED <<issued, doomed, enabled, granted, ops>>
  PROVE  Numbered' /\ Counted'
BY AbsentRow DEF Numbered, Counted, Wanted

\* The typing of what a reconciler changes besides the row and itself.
LEMMA ReconcileTyped ==
  ASSUME TypeOK, Steady, Steady', NEW r \in Reconcilers,
         Reconcile(r) \/ Crash(r) \/ TakeOver(r), ~Desire(r), row' \in Rows \cup {Absent}
  PROVE  TypeOK' /\ UNCHANGED <<issued, doomed, enabled, granted, ops>>
<1>1. MaxFaults \in Nat /\ (Fault => faults' \in 0 .. MaxFaults)
  BY TenantConstants DEF Fault, TypeOK
<1>2. recon' \in [Reconcilers -> Cycles]
  BY DEF Steady
<1>3. UNCHANGED <<enabled, granted, ops, bound, issued, doomed>>
  BY DEF Reconcile, BeginCycle, Ask, List, Apply, GetService, CreateService, Configure,
         StartService, StopService, LookUp, DeleteService, Probe, Write, Fails, Record, Finish,
         Crash, TakeOver, admin, rows
<1>4. leader' \in Reconcilers
  BY DEF Reconcile, BeginCycle, Ask, List, Apply, GetService, CreateService, Configure,
         StartService, StopService, LookUp, DeleteService, Probe, Write, Fails, Record, Finish,
         Crash, TakeOver, TypeOK
<1>5. faults' \in 0 .. MaxFaults
  BY <1>1 DEF Reconcile, BeginCycle, Ask, List, Apply, GetService, CreateService, Configure,
         StartService, StopService, LookUp, DeleteService, Probe, Write, Fails, Record, Finish,
         Crash, TakeOver, Proceed, TypeOK
<1>6. coolify' \in [Uuids -> {"absent", "stopped", "running"}]
  BY DEF Reconcile, BeginCycle, Ask, List, Apply, GetService, CreateService, Configure,
         StartService, StopService, LookUp, DeleteService, Probe, Write, Fails, Record, Finish,
         Crash, TakeOver, TypeOK, cloud
<1>7. dying' \in SUBSET Uuids
  <2>1. CASE DeleteService(r)
    <3>1. recon[r].uuid \in Uuids
      BY <2>1 DEF DeleteService, At, Steady, Local, Teardown
    <3> QED BY <2>1, <3>1 DEF DeleteService, TypeOK
  <2>2. CASE ~DeleteService(r)
    BY <2>2 DEF Reconcile, BeginCycle, Ask, List, Apply, GetService, CreateService, Configure,
           StartService, StopService, LookUp, Probe, Write, Fails, Record, Finish,
           Crash, TakeOver, TypeOK, cloud
  <2> QED BY <2>1, <2>2
<1> QED BY <1>2, <1>3, <1>4, <1>5, <1>6, <1>7 DEF TypeOK, Cycles

\* A new tenant has an id that nobody has.
LEMMA InsertedRow ==
  ASSUME issued \in Nat, issued <= MaxOps, NEW runtime \in Runtime,
         NEW upstream \in URLs \cup {"internal", None}, NEW static \in BOOLEAN
  PROVE  LET x == Inserted(runtime, upstream, static) IN
         x \in Rows /\ x.id = issued + 1 /\ x.desired = "enabled" /\ x.static = static
<1>1. issued + 1 \in Ids /\ RequeueAfter \in 0 .. RequeueAfter
  BY TenantConstants DEF Ids
<1> QED BY <1>1 DEF Inserted, Rows

\* The transaction that compares grants and tenants.
LEMMA DesireStep ==
  ASSUME TypeOK, Numbered, Counted, NEW r \in Reconcilers, Desire(r)
  PROVE  /\ row' \in Rows \cup {Absent} /\ issued' \in 0 .. MaxOps + 1 /\ ops' \in 0 .. MaxOps
         /\ doomed \subseteq doomed' /\ doomed' \in SUBSET Ids
         /\ Numbered' /\ Counted'
         /\ row.id # row'.id => row = Absent
         /\ row.desired = "deleted" => row' = row
<1>1. /\ MaxOps \in Nat /\ ops \in 0 .. MaxOps /\ issued \in 0 .. MaxOps + 1
      /\ row \in Rows \cup {Absent} /\ doomed \in SUBSET Ids
      /\ ops \in Nat /\ issued \in Nat
  BY TenantConstants DEF TypeOK
<1>2. row # Absent => row \in Rows /\ row.id \in Ids /\ row.id \in 1 .. issued
  BY <1>1, AbsentRow DEF Numbered
<1>3. UNCHANGED <<enabled, granted>>
  BY DEF Desire
<1>4. CASE row' = row
  <2>1. issued' = issued /\ (doomed' = doomed)
    BY <1>1, <1>2, <1>4, AbsentRow DEF Desire, Numbered
  <2>2. (ops' = ops \/ ops' = ops + 1) /\ ops' \in 0 .. MaxOps
    BY <1>1 DEF Desire, Op
  <2>3. issued' <= ops' + 1 /\ (issued <= ops => issued' <= ops')
    <3>1. issued \in Nat /\ ops \in Nat /\ issued <= ops + 1
      BY <1>1 DEF Counted
    <3>2. issued <= ops + 2 /\ (issued <= ops => issued <= ops + 1)
      BY <3>1
    <3>3. CASE ops' = ops
      BY <2>1, <3>1, <3>3
    <3>4. CASE ops' = ops + 1
      BY <2>1, <3>1, <3>2, <3>4
    <3> QED BY <2>2, <3>3, <3>4
  <2>4. Counted'
    BY <1>3, <1>4, <2>1, <2>3 DEF Counted, Wanted
  <2> QED BY <1>1, <1>4, <2>1, <2>2, <2>4 DEF Numbered
<1>5. CASE Wanted /\ row = Absent /\ row' = Inserted("provisioning", None, FALSE) /\ UNCHANGED ops
  <2>1. issued <= ops
    BY <1>5 DEF Counted
  <2>2. issued \in Nat /\ issued <= MaxOps
    BY <1>1, <2>1
  <2>3. row' \in Rows /\ row'.id = issued + 1 /\ row'.desired = "enabled"
    BY <1>5, <2>2, InsertedRow DEF Runtime
  <2>4. issued' = issued + 1 /\ doomed' = doomed
    BY <2>2, <2>3 DEF Desire
  <2>5. row' # Absent /\ row'.id \notin doomed'
    BY <2>2, <2>3, <2>4, AbsentRow DEF Numbered
  <2>6. Numbered'
    BY <2>2, <2>3, <2>4 DEF Numbered
  <2>7. issued' <= ops' + 1 /\ issued' \in 0 .. MaxOps + 1
    BY <1>1, <1>5, <2>1, <2>2, <2>4
  <2>8. Counted'
    BY <2>5, <2>7 DEF Counted
  <2>9. row.desired # "deleted"
    BY <1>5, AbsentRow
  <2> QED BY <1>1, <1>5, <2>3, <2>4, <2>6, <2>7, <2>8, <2>9
<1>6. CASE ~Wanted /\ row # Absent /\ row' = [row EXCEPT !.desired = "deleted"] /\ UNCHANGED ops
  <2>1. row' \in Rows /\ row'.id = row.id /\ row'.desired = "deleted"
    BY <1>2, <1>6 DEF Rows
  <2>2. ~(row'.id > issued) /\ row.id \in 1 .. issued
    BY <1>1, <1>2, <1>6, <2>1
  <2>3. issued' = issued /\ doomed' = doomed \cup {row.id}
    BY <2>1, <2>2 DEF Desire
  <2>4. Numbered'
    BY <2>1, <2>2, <2>3 DEF Numbered
  <2>5. Counted'
    BY <1>3, <1>6, <2>3 DEF Counted, Wanted
  <2>6. row.desired = "deleted" => row' = row
    BY <1>2, <1>6 DEF Rows
  <2> QED BY <1>1, <1>2, <1>6, <2>1, <2>3, <2>4, <2>5, <2>6
<1>7. CASE Op /\ row.desired = "enabled" /\ row' = [row EXCEPT !.runtime = "degraded"]
  <2>1. row \in Rows
    BY <1>1, <1>7, AbsentRow
  <2>2. row' \in Rows /\ row'.id = row.id /\ row'.desired = "enabled"
    BY <1>7, <2>1 DEF Rows, Runtime
  <2>3. issued' = issued /\ doomed' = doomed /\ ops' = ops + 1 /\ ops < MaxOps
    BY <1>1, <1>2, <1>7, <2>1, <2>2, AbsentRow DEF Desire, Op
  <2>4. Numbered' /\ Counted'
    BY <1>1, <1>2, <2>1, <2>2, <2>3, AbsentRow DEF Numbered, Counted
  <2> QED BY <1>1, <1>7, <2>2, <2>3, <2>4
<1>8. \/ row' = Reconciled /\ UNCHANGED ops
      \/ Op /\ row.desired = "enabled" /\ row' = [row EXCEPT !.runtime = "degraded"]
  BY DEF Desire
<1> QED BY <1>4, <1>5, <1>6, <1>7, <1>8 DEF Reconciled

\* A decision of an administrator or of Authentik.
LEMMA AdministerStep ==
  ASSUME TypeOK, Numbered, Counted, Administer
  PROVE  /\ TypeOK' /\ Numbered' /\ Counted' /\ UNCHANGED <<recon, doomed, dying>>
         /\ row.id # row'.id => row = Absent
         /\ row.desired = "deleted" => row'.desired = "deleted" \/ row'.static
<1>1. /\ MaxOps \in Nat /\ ops \in 0 .. MaxOps /\ issued \in 0 .. MaxOps + 1
      /\ row \in Rows \cup {Absent} /\ doomed \in SUBSET Ids
      /\ ops \in Nat /\ issued \in Nat
  BY TenantConstants DEF TypeOK
<1>2. row # Absent => row \in Rows /\ row.id \in Ids /\ row.id \in 1 .. issued
  BY <1>1, AbsentRow DEF Numbered
<1>3. ops' = ops + 1 /\ ops' \in 0 .. MaxOps /\ ops' \in Nat /\ ops < MaxOps
  <2>1. Op
    BY DEF Administer, Bind, Suspend, Resume, ChangeGrant, ChangeCatalog
  <2> QED BY <1>1, <2>1 DEF Op
<1>4. ASSUME NEW url \in URLs, Bind(url), row = Absent
      PROVE  /\ row' \in Rows /\ issued' \in 0 .. MaxOps + 1 /\ row'.id = issued + 1
             /\ Numbered' /\ Counted'
  <2>1. issued \in Nat /\ issued <= MaxOps /\ issued <= ops + 1
    BY <1>1, <1>3 DEF Counted
  <2>2. row' = Inserted("ready", url, TRUE) /\ issued' = issued + 1 /\ UNCHANGED doomed
    BY <1>4 DEF Bind
  <2>3. row' \in Rows /\ row'.id = issued + 1 /\ row'.desired = "enabled"
    BY <2>1, <2>2, InsertedRow DEF Runtime
  <2>4. Numbered'
    <3>1. row'.id \in 1 .. issued'
      <4>1. issued + 1 \in 1 .. issued + 1
        BY <2>1
      <4> QED BY <2>2, <2>3, <4>1
    <3>2. 1 .. issued \subseteq 1 .. issued'
      BY <2>1, <2>2
    <3>3. doomed' \in SUBSET (1 .. issued')
      BY <2>2, <3>2 DEF Numbered
    <3> QED BY <2>3, <3>1, <3>3 DEF Numbered
  <2>5. row' # Absent /\ row'.id \notin doomed'
    <3>1. issued + 1 \notin 1 .. issued
      BY <2>1
    <3>2. doomed' = doomed /\ doomed \subseteq 1 .. issued
      BY <2>2 DEF Numbered
    <3> QED BY <2>3, <3>1, <3>2, AbsentRow
  <2>6. issued' <= ops' + 1 /\ issued' \in 0 .. MaxOps + 1
    BY <1>1, <1>3, <2>1, <2>2
  <2>7. Counted'
    BY <2>5, <2>6 DEF Counted
  <2> QED BY <2>3, <2>4, <2>6, <2>7
<1>5. ASSUME NEW url \in URLs, Bind(url), row # Absent
      PROVE  row' \in Rows /\ row'.id = row.id /\ row'.desired = "enabled" /\ row'.static
             /\ UNCHANGED <<issued, doomed>>
  BY <1>2, <1>5 DEF Bind, Rows, Runtime
<1>6. ASSUME Suspend
      PROVE  /\ row' \in Rows /\ row'.id = row.id /\ row'.desired # "deleted"
             /\ row # Absent /\ row.desired # "deleted" /\ UNCHANGED <<issued, doomed>>
  <2>1. row \in Rows /\ row.desired # "deleted" /\ row' = [row EXCEPT !.desired = "disabled"]
    BY <1>2, <1>6 DEF Suspend, Suspendable
  <2> QED BY <1>6, <2>1, AbsentRow DEF Rows, Suspend
<1>7. ASSUME Resume
      PROVE  /\ row' \in Rows /\ row'.id = row.id /\ row'.desired # "deleted"
             /\ row # Absent /\ row.desired # "deleted" /\ UNCHANGED <<issued, doomed>>
  <2>1. row \in Rows /\ row.desired # "deleted" /\ row' = [row EXCEPT !.desired = "enabled"]
    BY <1>1, <1>7, AbsentRow DEF Resume
  <2> QED BY <1>7, <2>1, AbsentRow DEF Rows, Resume
<1>8. ASSUME row # Absent, row' \in Rows, row'.id = row.id, row'.desired # "deleted",
             UNCHANGED <<issued, doomed>>
      PROVE  Numbered' /\ Counted'
  BY <1>1, <1>2, <1>3, <1>8, AbsentRow DEF Numbered, Counted
<1>9. ASSUME ChangeGrant \/ ChangeCatalog
      PROVE  Numbered' /\ Counted' /\ UNCHANGED <<row, issued, doomed>>
  <2>1. UNCHANGED <<row, issued, doomed>>
    BY <1>9 DEF ChangeGrant, ChangeCatalog
  <2>2. issued' <= ops' /\ issued' <= ops' + 1
    BY <1>1, <1>3, <2>1 DEF Counted
  <2> QED BY <2>1, <2>2 DEF Numbered, Counted
<1>10. /\ row' \in Rows \cup {Absent} /\ issued' \in 0 .. MaxOps + 1 /\ Numbered' /\ Counted'
       /\ row.id # row'.id => row = Absent
       /\ row.desired = "deleted" => row'.desired = "deleted" \/ row'.static
  BY <1>1, <1>4, <1>5, <1>6, <1>7, <1>8, <1>9, AbsentRow DEF Administer
<1>11. UNCHANGED <<recon, leader, coolify, dying, faults, doomed>>
  BY DEF Administer, Bind, Suspend, Resume, ChangeGrant, ChangeCatalog, cloud
<1>12. enabled' \in BOOLEAN /\ granted' \in BOOLEAN /\ bound' \in URLs \cup {None}
  BY DEF Administer, Bind, Suspend, Resume, ChangeGrant, ChangeCatalog, TypeOK
<1> QED BY <1>3, <1>10, <1>11, <1>12 DEF TypeOK
-----------------------------------------------------------------------------
(* The inductive invariant                                                   *)

\* Apart from the transaction of the cycle, a reconciler leaves the tenant of
\* the row as it is, or removes a doomed one.
LEMMA ReconcileRow ==
  ASSUME TypeOK, Steady, NEW r \in Reconcilers,
         Reconcile(r) \/ Crash(r) \/ TakeOver(r), ~Desire(r)
  PROVE  Kept(row') \/ (row' = Absent /\ row # Absent /\ row.id \in doomed)
<1>1. CASE BeginCycle(r)
  BY <1>1, BeginCycleKeeps
<1>2. CASE Write(r)
  BY <1>2, WriteKeeps
<1>3. CASE Finish(r)
  BY <1>3, FinishRow
<1>4. CASE UNCHANGED row
  BY <1>4 DEF Kept, TypeOK
<1>5. BeginCycle(r) \/ Write(r) \/ Finish(r) \/ UNCHANGED row
  BY DEF Reconcile, Ask, List, Apply, GetService, CreateService, Configure, StartService,
         StopService, LookUp, DeleteService, Probe, Fails, Record, Crash, TakeOver, rows
<1> QED BY <1>1, <1>2, <1>3, <1>4, <1>5

\* What Coolify does by itself.
LEMMA CoolifyStep ==
  ASSUME TypeOK, NEW u \in Uuids, CoolifyDeletes(u) \/ CoolifyForgets(u) \/ CoolifyLoses(u)
  PROVE  TypeOK' /\ UNCHANGED <<rows, admin, recon>> /\ dying' \subseteq dying
<1>1. UNCHANGED <<row, issued, doomed, enabled, granted, ops, bound, recon, leader>>
  BY DEF CoolifyDeletes, CoolifyForgets, CoolifyLoses, rows, admin
<1>2. faults' \in 0 .. MaxFaults
  BY TenantConstants DEF CoolifyDeletes, CoolifyForgets, CoolifyLoses, Fault, TypeOK
<1>3. coolify' \in [Uuids -> {"absent", "stopped", "running"}] /\ dying' \subseteq dying
  BY DEF CoolifyDeletes, CoolifyForgets, CoolifyLoses, TypeOK
<1> QED BY <1>1, <1>2, <1>3 DEF TypeOK, rows, admin

\* The inductive invariant holds at the start.
LEMMA InitIInv ==
  Init => IInv
<1> SUFFICES ASSUME Init PROVE IInv
  OBVIOUS
<1>1. /\ MaxOps \in Nat /\ MaxFaults \in Nat /\ RequeueAfter \in Nat
      /\ 0 \in 0 .. MaxOps /\ 0 \in 0 .. MaxFaults /\ 1 \in Ids /\ RequeueAfter \in 0 .. RequeueAfter
  BY TenantConstants DEF Ids
<1>2. row = Absent \/ (row \in Rows /\ row.id = 1 /\ row.desired = "enabled")
  <2>1. ASSUME NEW u \in Uuids
        PROVE  LET x == Inherited(u) IN x \in Rows /\ x.id = 1 /\ x.desired = "enabled"
    BY <1>1 DEF Inherited, Rows, Runtime
  <2> QED BY <2>1 DEF Init
<1>3. row.id \in {0, 1} /\ row.desired # "deleted" /\ (row # Absent => row.id = 1)
  BY <1>2, AbsentRow
<1>4. issued \in 0 .. MaxOps + 1 /\ (row # Absent => row.id \in 1 .. issued)
  BY <1>1, <1>2, <1>3 DEF Init
<1>5. Steady
  BY LocalResting DEF Init, Steady, Local
<1>6. TypeOK
  BY <1>1, <1>2, <1>4, <1>5 DEF Init, TypeOK, Steady, Cycles
<1>7. Numbered
  BY <1>3, <1>4 DEF Init, Numbered
<1>8. Counted
  <2>1. CASE row = Absent
    BY <2>1, AbsentRow DEF Init, Counted
  <2>2. CASE row # Absent
    BY <1>3, <2>2 DEF Init, Counted
  <2> QED BY <2>1, <2>2
<1> QED BY <1>5, <1>6, <1>7, <1>8 DEF IInv

\* Every step keeps it, one case per kind of action.
LEMMA NextIInv ==
  IInv /\ [Next]_vars => IInv'
<1> SUFFICES ASSUME IInv, [Next]_vars PROVE IInv'
  OBVIOUS
<1> USE DEF IInv
<1>1. CASE Administer
  <2>1. TypeOK' /\ Numbered' /\ Counted' /\ UNCHANGED <<recon, doomed>>
    BY <1>1, AdministerStep
  <2> QED BY <2>1, SteadyStutter
<1>2. ASSUME NEW r \in Reconcilers, Desire(r)  PROVE IInv'
  <2>1. /\ row' \in Rows \cup {Absent} /\ issued' \in 0 .. MaxOps + 1 /\ ops' \in 0 .. MaxOps
        /\ doomed \subseteq doomed' /\ doomed' \in SUBSET Ids /\ Numbered' /\ Counted'
    BY <1>2, DesireStep
  <2>2. Steady'
    BY <1>2, <2>1, ReconcileSteady DEF Reconcile
  <2>3. TypeOK'
    BY <1>2, <2>1, <2>2 DEF Desire, TypeOK, Steady, Cycles, cloud
  <2> QED BY <2>1, <2>2, <2>3
<1>3. ASSUME NEW r \in Reconcilers, Reconcile(r) \/ Crash(r) \/ TakeOver(r), ~Desire(r)
      PROVE  IInv'
  <2>1. Kept(row') \/ (row' = Absent /\ row # Absent /\ row.id \in doomed)
    BY <1>3, ReconcileRow
  <2>2. row' \in Rows \cup {Absent}
    BY <2>1 DEF Kept
  <2>3. UNCHANGED doomed
    BY <1>3 DEF Reconcile, BeginCycle, Ask, List, Apply, GetService, CreateService, Configure,
           StartService, StopService, LookUp, DeleteService, Probe, Write, Fails, Record, Finish,
           Crash, TakeOver, rows
  <2>4. Steady'
    <3>1. CASE TakeOver(r)
      BY <2>3, <3>1, SteadyStutter DEF TakeOver
    <3> QED BY <1>3, <2>3, <3>1, ReconcileSteady
  <2>5. TypeOK' /\ UNCHANGED <<issued, doomed, enabled, granted, ops>>
    BY <1>3, <2>2, <2>4, ReconcileTyped
  <2>6. Numbered' /\ Counted'
    BY <2>1, <2>5, KeptCounts, RemovalCounts
  <2> QED BY <2>4, <2>5, <2>6
<1>4. ASSUME NEW u \in Uuids, CoolifyDeletes(u) \/ CoolifyForgets(u) \/ CoolifyLoses(u)
      PROVE  IInv'
  <2>1. TypeOK' /\ UNCHANGED <<rows, admin, recon>>
    BY <1>4, CoolifyStep
  <2> QED BY <2>1, SteadyStutter DEF rows, admin, Numbered, Counted, Wanted
<1>5. CASE UNCHANGED vars
  BY <1>5, SteadyStutter DEF vars, TypeOK, Numbered, Counted, Wanted
<1> QED BY <1>1, <1>2, <1>3, <1>4, <1>5 DEF Next

\* The inductive invariant holds in every reachable state.
THEOREM Invariance == Spec => []IInv
BY InitIInv, NextIInv, PTL DEF Spec

\* Every reachable state is well typed, and ids do not run out, whatever the number
\* of reconcilers, decisions and faults.
THEOREM TypeCorrectness == Spec => []TypeOK
<1>1. IInv => TypeOK
  BY DEF IInv
<1> QED BY <1>1, Invariance, PTL

\* Nothing is torn down by mistake: rows are removed and deletions queued only for
\* tenants that ReconcileDesiredTenants marked deleted, with any number of stale leaders.
THEOREM TeardownIsDeserved == Spec => OnlyTheDoomedGo
<1> DEFINE A == /\ row.id # row'.id => row = Absent \/ row.id \in doomed
                /\ \A u \in dying' \ dying :
                     \E r \in Reconcilers : Tenant(r).resource = u /\ Tenant(r).id \in doomed
<1>1. ASSUME IInv, [Next]_vars  PROVE [A]_vars
  <2> USE <1>1 DEF IInv
  <2>1. CASE Administer
    BY <2>1, AdministerStep
  <2>2. ASSUME NEW r \in Reconcilers, Desire(r)  PROVE A
    BY <2>2, DesireStep DEF Desire, cloud
  <2>3. ASSUME NEW r \in Reconcilers, Reconcile(r) \/ Crash(r) \/ TakeOver(r), ~Desire(r)
        PROVE  A
    <3>1. row.id # row'.id => row.id \in doomed
      BY <2>3, ReconcileRow DEF Kept
    <3>2. CASE DeleteService(r)
      <4>1. dying' \ dying \subseteq {recon[r].uuid}
        BY <3>2 DEF DeleteService
      <4>2. recon[r].uuid = Tenant(r).resource /\ Tenant(r).id \in doomed
        BY <3>2 DEF DeleteService, At, Steady, Local, Teardown, Tenant
      <4> QED BY <3>1, <4>1, <4>2
    <3>3. CASE ~DeleteService(r)
      <4>1. dying' = dying
        BY <2>3, <3>3 DEF Reconcile, BeginCycle, Ask, List, Apply, GetService, CreateService,
               Configure, StartService, StopService, LookUp, Probe, Write, Fails, Record,
               Finish, Crash, TakeOver, cloud
      <4> QED BY <3>1, <4>1
    <3> QED BY <3>2, <3>3
  <2>4. ASSUME NEW u \in Uuids, CoolifyDeletes(u) \/ CoolifyForgets(u) \/ CoolifyLoses(u)
        PROVE  A
    BY <2>4, CoolifyStep DEF rows
  <2>5. CASE UNCHANGED vars
    BY <2>5
  <2> QED BY <2>1, <2>2, <2>3, <2>4, <2>5 DEF Next
<1> QED BY <1>1, Invariance, PTL DEF Spec, OnlyTheDoomedGo

\* A tenant that is to be deleted stays so until it is gone or bound to a static
\* upstream: no status of a stale reconciler, suspension or resumption revives it.
THEOREM DeletionIsFinal == Spec => DeletedIsTerminal
<1> DEFINE A == row.desired = "deleted" =>
                  row' = Absent \/ row'.desired = "deleted" \/ row'.static
<1>1. ASSUME IInv, [Next]_vars  PROVE [A]_vars
  <2> USE <1>1 DEF IInv
  <2>1. CASE Administer
    BY <2>1, AdministerStep
  <2>2. ASSUME NEW r \in Reconcilers, Desire(r)  PROVE A
    BY <2>2, DesireStep
  <2>3. ASSUME NEW r \in Reconcilers, Reconcile(r) \/ Crash(r) \/ TakeOver(r), ~Desire(r)
        PROVE  A
    BY <2>3, ReconcileRow DEF Kept
  <2>4. ASSUME NEW u \in Uuids, CoolifyDeletes(u) \/ CoolifyForgets(u) \/ CoolifyLoses(u)
        PROVE  A
    BY <2>4, CoolifyStep DEF rows
  <2>5. CASE UNCHANGED vars
    BY <2>5
  <2> QED BY <2>1, <2>2, <2>3, <2>4, <2>5 DEF Next
<1> QED BY <1>1, Invariance, PTL DEF Spec, DeletedIsTerminal
-----------------------------------------------------------------------------
(* Nobody waits for a deletion that nobody asked for                         *)

\* A doomed tenant is to be deleted for good, unless a binding made it static.
Lasting == row.id \in doomed => row.desired = "deleted" \/ row.static

\* Whoever is about to note that a tenant is being deleted holds a doomed one.
Condemning ==
  \A r \in Reconcilers : recon[r].pc = "condemn" => Tenant(r).desired = "deleted"

WaitInv == Lasting /\ Condemning /\ NobodyWaitsInVain

\* The row x is as static as it was, and is waited for only if it was or is doomed.
Undisturbed(x) ==
  /\ x.static = row.static
  /\ x.runtime = "deleting" => row.runtime = "deleting" \/ row.id \in doomed

\* A row that is kept and not disturbed is waited for no more than before.
LEMMA UndisturbedWaits ==
  ASSUME Lasting, NobodyWaitsInVain, Kept(row'), Undisturbed(row'), UNCHANGED doomed
  PROVE  Lasting' /\ NobodyWaitsInVain'
BY DEF Lasting, NobodyWaitsInVain, Kept, Undisturbed

\* Neither waits a row that is not there.
LEMMA AbsentWaits ==
  ASSUME row' = Absent, doomed' \in SUBSET Ids
  PROVE  Lasting' /\ NobodyWaitsInVain'
<1>1. Absent.id = 0 /\ Absent.runtime # "deleting" /\ 0 \notin Ids
  BY DEF Absent, Ids
<1> QED BY <1>1 DEF Lasting, NobodyWaitsInVain

\* The statements that write a status: only that of a doomed tenant says "deleting".
LEMMA StatusUndisturbed ==
  ASSUME row \in Rows \cup {Absent}, NEW t \in Rows, NEW runtime \in Runtime,
         NEW uuid, NEW upstream, runtime = "deleting" => t.id \in doomed
  PROVE  Undisturbed(UpdateTenantRuntimeStatus(t, runtime, uuid, upstream))
<1>1. CASE row.id # t.id
  BY <1>1 DEF UpdateTenantRuntimeStatus, Undisturbed
<1>2. CASE row.id = t.id
  <2>1. row \in Rows
    BY <1>2, AbsentRow
  <2> DEFINE x == [row EXCEPT !.runtime = runtime,
                              !.resource = IF uuid = None THEN @ ELSE uuid,
                              !.upstream = IF upstream = None THEN @ ELSE upstream]
  <2>2. x.static = row.static /\ x.runtime = runtime
    BY <2>1 DEF Rows
  <2>3. UpdateTenantRuntimeStatus(t, runtime, uuid, upstream) = x
    BY <1>2 DEF UpdateTenantRuntimeStatus
  <2> HIDE DEF x
  <2> QED BY <1>2, <2>2, <2>3 DEF Undisturbed
<1> QED BY <1>1, <1>2

\* Whatever a reconciler writes.
LEMMA WriteUndisturbed ==
  ASSUME TypeOK, Steady, Condemning, NEW r \in Reconcilers, Write(r)
  PROVE  Undisturbed(row')
<1> DEFINE t == Tenant(r)
           c == recon[r]
<1>1. t \in Rows /\ row \in Rows \cup {Absent}
  BY HasTenant DEF Write, Early, TypeOK
<1>2. /\ {"provisioning", "disabled", "deleting", "ready", "degraded"} \subseteq Runtime
      /\ "deleting" \notin {"provisioning", "disabled", "ready", "degraded"}
  BY DEF Runtime
<1>3. CASE c.pc = "provision"
  <2>1. row' = UpdateTenantRuntimeStatus(t, "provisioning", c.uuid, "internal")
    BY <1>3 DEF Write, Written, At
  <2> QED BY <1>1, <1>2, <2>1, StatusUndisturbed
<1>4. CASE c.pc = "started"
  <2>1. row' = UpdateTenantRuntimeStatus(t, "provisioning", None, None)
    BY <1>4 DEF Write, Written, At
  <2> QED BY <1>1, <1>2, <2>1, StatusUndisturbed
<1>5. CASE c.pc = "observe"
  <2>1. row' = UpdateTenantRuntimeStatus(t, c.health, c.uuid, Target(t))
    BY <1>5 DEF Write, Written, At
  <2>2. c.health \in {"ready", "degraded"}
    BY <1>5 DEF Steady, Local, Cycles
  <2> QED BY <1>1, <1>2, <2>1, <2>2, StatusUndisturbed
<1>6. CASE c.pc = "disable"
  <2>1. row' = UpdateTenantRuntimeStatus(t, "disabled", None, None)
    BY <1>6 DEF Write, Written, At
  <2> QED BY <1>1, <1>2, <2>1, StatusUndisturbed
<1>7. CASE c.pc = "condemn"
  <2>1. row' = UpdateTenantRuntimeStatus(t, "deleting", None, None)
    BY <1>7 DEF Write, Written, At
  <2>2. t.id \in doomed
    BY <1>7 DEF Condemning, Steady, Local, Tenant
  <2> QED BY <1>1, <1>2, <2>1, <2>2, StatusUndisturbed
<1>8. CASE c.pc = "uncreate"
  <2>1. row' = ClearRuntimeReferences(t)
    BY <1>8 DEF Write, Written, At
  <2>2. CASE row.id = t.id
    <3>1. row \in Rows
      BY <1>1, <2>2, AbsentRow
    <3> QED BY <2>1, <2>2, <3>1 DEF ClearRuntimeReferences, Undisturbed, Rows
  <2>3. CASE row.id # t.id
    BY <2>1, <2>3 DEF ClearRuntimeReferences, Undisturbed
  <2> QED BY <2>2, <2>3
<1> QED BY <1>3, <1>4, <1>5, <1>6, <1>7, <1>8 DEF Write

\* A cycle that begins, and a run that ends without removing the row.
LEMMA AgingUndisturbed ==
  ASSUME TypeOK, Steady, NEW r \in Reconcilers, BeginCycle(r) \/ Finish(r)
  PROVE  Undisturbed(row') \/ row' = Absent
<1>1. CASE UNCHANGED row
  BY <1>1 DEF Undisturbed
<1>2. CASE \E age \in Nat : row \in Rows /\ row' = [row EXCEPT !.age = age]
  BY <1>2 DEF Undisturbed, Rows
<1>3. CASE BeginCycle(r) /\ ~UNCHANGED row
  <2>1. row # Absent /\ row' = [row EXCEPT !.age = row.age + 1]
    BY <1>3 DEF BeginCycle
  <2>2. row \in Rows /\ row.age + 1 \in Nat
    BY <2>1, TenantConstants DEF TypeOK, Rows
  <2> QED BY <1>2, <2>1, <2>2
<1>4. CASE Finish(r) /\ ~UNCHANGED row
  <2>1. row' = Removed(Tenant(r)) \/ row' = Marked(Tenant(r))
    BY <1>4 DEF Finish, Steady, Cycles
  <2>2. CASE row' = Removed(Tenant(r))
    BY <1>4, <2>2 DEF Removed
  <2>3. CASE row' = Marked(Tenant(r))
    <3>1. row.id = Tenant(r).id /\ row' = [row EXCEPT !.age = 0]
      BY <1>4, <2>3 DEF Marked
    <3>2. Tenant(r) \in Rows
      BY HasTenant, <1>4 DEF Finish, At, Early
    <3>3. row \in Rows
      BY <3>1, <3>2, AbsentRow DEF TypeOK
    <3> QED BY <1>2, <3>1, <3>3
  <2> QED BY <2>1, <2>2, <2>3
<1> QED BY <1>1, <1>3, <1>4

\* Only what is looked up to be taken down comes to be condemned.
LEMMA ReconcileCondemns ==
  ASSUME Steady, Condemning, NEW r \in Reconcilers, Reconcile(r) \/ Crash(r) \/ TakeOver(r)
  PROVE  Condemning'
<1> DEFINE c == recon'[r]
<1>1. recon \in [Reconcilers -> Cycles]
  BY DEF Steady
<1>2. CASE UNCHANGED recon
  BY <1>2 DEF Condemning, Tenant
<1>3. \A q \in Reconcilers \ {r} : recon'[q] = recon[q]
  BY <1>1 DEF Reconcile, BeginCycle, Desire, Ask, List, Apply, GetService, CreateService,
     Configure, StartService, StopService, LookUp, DeleteService, Probe, Write, Fails, Record,
     Finish, Crash, TakeOver, To, Rest, Done, Proceed
<1>4. ASSUME c.pc = "condemn" => c.snap.desired = "deleted"
      PROVE  Condemning'
  BY <1>3, <1>4 DEF Condemning, Tenant
<1>5. CASE LookUp(r) \/ DeleteService(r)
  <2>1. Tenant(r).desired = "deleted"
    BY <1>5 DEF LookUp, DeleteService, At, Steady, Local, Teardown, Tenant
  <2>2. c.snap = Tenant(r)
    BY <1>1, <1>5 DEF LookUp, DeleteService, To, Done, Proceed, Tenant, Cycles
  <2> QED BY <1>4, <2>1, <2>2
<1>6. CASE Apply(r)
  <2>1. recon[r].snap \in Rows
    BY <1>6, HasTenant DEF Apply, At, Early, Tenant
  <2>2. c.pc = (IF recon[r].snap.static THEN FirstStaticCall(recon[r].snap)
                                        ELSE FirstCall(recon[r].snap))
    BY <1>1, <1>6 DEF Apply, Cycles
  <2> QED BY <1>4, <2>1, <2>2, FirstCalls
<1>7. CASE Ask(r)
  <2>1. c.pc # "condemn"
    BY <1>1, <1>7 DEF Ask, After, To, Rest, Resting, Cycles
  <2> QED BY <1>4, <2>1
<1>8. CASE \E pc \in PCs \ {"condemn"} : To(r, pc) \/ \E o \in {"mark"} : Done(r, o)
  <2>1. c.pc # "condemn"
    BY <1>1, <1>8 DEF To, Done, Cycles
  <2> QED BY <1>4, <2>1
<1>9. CASE Rest(r)
  <2>1. c.pc # "condemn"
    BY <1>1, <1>9 DEF Rest, Resting
  <2> QED BY <1>4, <2>1
<1>10. {"desire", "askList", "configure", "create", "uncreate", "provision", "started", "disable",
        "probe", "askRecord", "finish", "get"} \subseteq PCs \ {"condemn"}
  BY DEF PCs, Calls
<1>11. CASE BeginCycle(r) \/ Desire(r) \/ GetService(r) \/ Write(r)
  BY <1>8, <1>10, <1>11 DEF BeginCycle, Desire, GetService, Write
<1>12. CASE Configure(r) \/ StartService(r) \/ StopService(r)
  <2>1. Ensure(Tenant(r)) \in PCs \ {"condemn"}
    BY <1>10 DEF Ensure
  <2> QED BY <1>8, <1>10, <1>12, <2>1 DEF Configure, StartService, StopService, Proceed
<1>13. CASE Fails(r) \/ Record(r) \/ Finish(r) \/ Crash(r)
  BY <1>8, <1>9, <1>10, <1>13 DEF Fails, Record, Finish, Crash
<1>14. CASE List(r) \/ CreateService(r) \/ Probe(r)
  <2>1. CASE Rest(r)
    BY <1>9, <2>1
  <2>2. CASE To(r, "uncreate")
    BY <1>8, <1>10, <2>2
  <2>3. CASE ~Rest(r) /\ ~To(r, "uncreate")
    <3>1. \/ recon' = [recon EXCEPT ![r] = [Resting EXCEPT !.pc = "askApply", !.snap = row]]
          \/ \E u \in Uuids : recon' = [recon EXCEPT ![r].pc = "configure", ![r].uuid = u]
          \/ \E h \in {"ready", "degraded"} :
               recon' = [recon EXCEPT ![r].pc = "observe", ![r].health = h]
      BY <1>14, <2>3 DEF List, CreateService, Probe
    <3>2. c.pc \in {"askApply", "configure", "observe"}
      BY <1>1, <3>1 DEF Resting, Cycles
    <3> QED BY <1>4, <3>2
  <2> QED BY <2>1, <2>2, <2>3
<1> QED BY <1>2, <1>5, <1>6, <1>7, <1>11, <1>12, <1>13, <1>14 DEF Reconcile, TakeOver

\* It holds at the start.
LEMMA InitWaits ==
  Init => WaitInv
<1> SUFFICES ASSUME Init PROVE WaitInv
  OBVIOUS
<1>1. row.runtime # "deleting"
  BY DEF Init, Inherited, Absent
<1>2. \A r \in Reconcilers : recon[r].pc = "idle"
  BY DEF Init, Resting
<1> QED BY <1>1, <1>2 DEF Init, WaitInv, Lasting, Condemning, NobodyWaitsInVain

\* What administrators decide: a binding makes the row static, and who may suspend or
\* resume a tenant finds one that is not to be deleted.
LEMMA AdministerWaits ==
  ASSUME IInv, Lasting, NobodyWaitsInVain, Administer
  PROVE  Lasting' /\ NobodyWaitsInVain'
<1>1. doomed' = doomed /\ row \in Rows \cup {Absent}
  BY AdministerStep DEF IInv, TypeOK
<1>2. CASE \E url \in URLs : Bind(url)
  <2>1. row'.static = TRUE
    <3>1. CASE row = Absent
      BY <1>2, <3>1 DEF Bind, Inserted
    <3>2. CASE row \in Rows
      BY <1>2, <3>2, AbsentRow DEF Bind, Rows
    <3> QED BY <1>1, <3>1, <3>2
  <2> QED BY <2>1 DEF Lasting, NobodyWaitsInVain
<1>3. CASE Suspend \/ Resume
  <2>1. row \in Rows /\ row.desired # "deleted"
    BY <1>1, <1>3, AbsentRow DEF Suspend, Suspendable, Resume
  <2>2. row'.id = row.id /\ row'.static = row.static /\ row'.runtime = row.runtime
    BY <1>3, <2>1 DEF Suspend, Resume, Rows
  <2> QED BY <1>1, <2>1, <2>2 DEF Lasting, NobodyWaitsInVain
<1>4. CASE UNCHANGED row
  BY <1>1, <1>4 DEF Lasting, NobodyWaitsInVain
<1> QED BY <1>2, <1>3, <1>4 DEF Administer, ChangeGrant, ChangeCatalog

\* The transaction that compares grants and tenants inserts rows with new ids.
LEMMA DesireWaits ==
  ASSUME IInv, Lasting, NobodyWaitsInVain, NEW r \in Reconcilers, Desire(r)
  PROVE  Lasting' /\ NobodyWaitsInVain'
<1>1. row \in Rows \cup {Absent} /\ issued \in Nat /\ issued <= ops + 1 /\ MaxOps \in Nat /\ ops \in 0 .. MaxOps
  BY TenantConstants DEF IInv, TypeOK, Counted
<1>2. CASE row' = row
  <2>1. row.desired = "deleted" => row.id \in doomed
    BY DEF IInv, Numbered
  <2>2. doomed' = doomed
    BY <1>2, <2>1 DEF Desire
  <2> QED BY <1>2, <2>2 DEF Lasting, NobodyWaitsInVain
<1>3. CASE row' = Inserted("provisioning", None, FALSE)
  <2>1. row'.id = issued + 1 /\ row'.runtime = "provisioning" /\ row'.desired = "enabled"
    BY <1>3 DEF Inserted
  <2>2. doomed' = doomed /\ doomed \subseteq 1 .. issued
    BY <2>1 DEF Desire, IInv, Numbered
  <2>3. row'.id \notin doomed'
    BY <1>1, <2>1, <2>2
  <2> QED BY <2>1, <2>3 DEF Lasting, NobodyWaitsInVain
<1>4. CASE row \in Rows /\ row' = [row EXCEPT !.desired = "deleted"]
  <2>1. row'.desired = "deleted"
    BY <1>4 DEF Rows
  <2> QED BY <2>1 DEF Lasting, NobodyWaitsInVain
<1>5. CASE row \in Rows /\ row.desired = "enabled" /\ row' = [row EXCEPT !.runtime = "degraded"]
  <2>1. /\ row'.id = row.id /\ row'.static = row.static /\ row'.runtime = "degraded"
        /\ row'.desired = "enabled"
    BY <1>5 DEF Rows
  <2>2. doomed' = doomed
    BY <2>1 DEF Desire
  <2> QED BY <1>5, <2>1, <2>2 DEF Lasting, NobodyWaitsInVain
<1>6. \/ row' = row \/ row' = Inserted("provisioning", None, FALSE)
      \/ row # Absent /\ row' = [row EXCEPT !.desired = "deleted"]
      \/ row.desired = "enabled" /\ row' = [row EXCEPT !.runtime = "degraded"]
  BY DEF Desire, Reconciled
<1> QED BY <1>1, <1>2, <1>3, <1>4, <1>5, <1>6, AbsentRow

\* Every step keeps it.
LEMMA NextWaits ==
  IInv /\ IInv' /\ WaitInv /\ [Next]_vars => WaitInv'
<1> SUFFICES ASSUME IInv, IInv', WaitInv, [Next]_vars PROVE WaitInv'
  OBVIOUS
<1> USE DEF WaitInv
<1>1. TypeOK /\ Steady /\ Numbered /\ Counted /\ doomed' \in SUBSET Ids
  BY DEF IInv, TypeOK
<1>2. CASE Administer
  <2>1. UNCHANGED recon
    BY <1>1, <1>2, AdministerStep
  <2> QED BY <1>2, <2>1, AdministerWaits DEF Condemning, Tenant
<1>3. ASSUME NEW r \in Reconcilers, Desire(r)  PROVE WaitInv'
  BY <1>1, <1>3, DesireWaits, ReconcileCondemns DEF Reconcile
<1>4. ASSUME NEW r \in Reconcilers, Reconcile(r) \/ Crash(r) \/ TakeOver(r), ~Desire(r)
      PROVE  WaitInv'
  <2>1. Condemning'
    BY <1>1, <1>4, ReconcileCondemns
  <2>2. CASE row' = Absent
    BY <1>1, <2>1, <2>2, AbsentWaits
  <2>3. CASE row' # Absent
    <3>1. Kept(row') /\ UNCHANGED doomed
      <4>1. Kept(row')
        BY <1>1, <1>4, <2>3, ReconcileRow
      <4>2. row' \in Rows \cup {Absent} /\ Steady'
        BY DEF IInv, TypeOK
      <4> QED BY <1>1, <1>4, <4>1, <4>2, ReconcileTyped
    <3>2. Undisturbed(row')
      <4>1. CASE Write(r)
        BY <1>1, <4>1, WriteUndisturbed
      <4>2. CASE BeginCycle(r) \/ Finish(r)
        BY <1>1, <2>3, <4>2, AgingUndisturbed
      <4>3. CASE UNCHANGED row
        BY <4>3 DEF Undisturbed
      <4> QED BY <1>4, <4>1, <4>2, <4>3 DEF Reconcile, Ask, List, Apply, GetService,
             CreateService, Configure, StartService, StopService, LookUp, DeleteService, Probe,
             Fails, Record, Crash, TakeOver, rows
    <3> QED BY <2>1, <3>1, <3>2, UndisturbedWaits
  <2> QED BY <2>2, <2>3
<1>5. ASSUME NEW u \in Uuids, CoolifyDeletes(u) \/ CoolifyForgets(u) \/ CoolifyLoses(u)
      PROVE  WaitInv'
  <2>1. UNCHANGED <<row, doomed, recon>>
    BY <1>1, <1>5, CoolifyStep DEF rows
  <2> QED BY <2>1 DEF Lasting, Condemning, NobodyWaitsInVain, Tenant
<1>6. CASE UNCHANGED vars
  BY <1>6 DEF vars, Lasting, Condemning, NobodyWaitsInVain, Tenant
<1> QED BY <1>2, <1>3, <1>4, <1>5, <1>6 DEF Next

\* A tenant that nobody deletes never waits for a deletion, however many stale leaders
\* still write what they found: PlanTenantAction does nothing for one that waits.
THEOREM WaitingEnds == Spec => []NobodyWaitsInVain
<1>1. WaitInv => NobodyWaitsInVain
  BY DEF WaitInv
<1> QED BY <1>1, InitWaits, NextWaits, Invariance, PTL DEF Spec
-----------------------------------------------------------------------------
(* The account of leaks: what is live, what the leader still has to make and *)
(* what the others can still take from the row cost at most two a failure.   *)

Existing == {u \in Uuids : Exists(u)}
Live     == Existing \ dying

Writing == {"configure", "provision", "started", "probe", "observe"}
Planned == {"get", "create", "start", "lookup", "queue"}
Ending  == {"askRecord", "record", "finish"}

\* c writes the row with a service that it has made itself.
Own(c) == c.pc \in Writing /\ c.uuid # c.snap.resource

\* The plan for the tenant is not yet carried out, or it says to remove the row.
Planning(c) == \/ c.pc \in {"askApply", "apply"} \cup Planned
               \/ c.pc \in Ending /\ c.outcome = "remove"

\* The service that the plan is about.
Hand(c) == IF c.pc \in {"askApply", "apply"} THEN c.snap.resource ELSE c.uuid

\* c can still take a live service from the row, and can do so a second time.
Once(c)        == c.pc \in Writing \cup {"uncreate", "list"} \/ Planning(c)
Twice(c, live) == \/ c.pc = "list" \/ Planning(c)
                  \/ c.pc \in {"configure", "provision"} /\ (Own(c) => c.uuid \notin live)

Num(b) == IF b THEN 1 ELSE 0
Price(c, live) == Num(Once(c)) + Num(Twice(c, live))

\* The leader c makes a service, and one more if it is to follow an outdated plan first,
\* before there is a live one in the row x.
Vacant(c, x, live) ==
  IF c.snap.id = x.id
    THEN \/ c.pc = "uncreate"
         \/ c.pc \in Writing /\ c.uuid \notin live
         \/ Planning(c) /\ Hand(c) \notin live
         \/ ~Own(c) /\ x.resource \notin live
    ELSE x.resource \notin live
Redo(c, x, live) == c.snap.id # x.id /\ Planning(c) /\ Hand(c) \notin live
Owed(c, x, live) == Num(Vacant(c, x, live)) + Num(Redo(c, x, live))

Stale1 == {r \in Reconcilers : r # leader /\ Once(recon[r])}
Stale2 == {r \in Reconcilers : r # leader /\ Twice(recon[r], Live)}

Sum == Cardinality(Live) + Owed(recon[leader], row, Live)
         + Cardinality(Stale1) + Cardinality(Stale2)

Account == IsFiniteSet(Stale1) /\ IsFiniteSet(Stale2) /\ Sum <= 2 * faults + 1

\* What a reconciler relies on: the service that it is to replace does not exist, and
\* does not come back, because ids that somebody remembers are not given out again.
Careful(c) ==
  /\ ~c.snap.static
  /\ c.pc \in Planned => c.uuid = c.snap.resource
  /\ c.pc = "create" \/ c.outcome = "remove" => c.uuid \notin Existing
  /\ c.outcome = "remove" => c.pc \in Ending

\* Nobody else knows the service that r has made and not yet recorded.
Private(r) ==
  recon[r].pc \in {"configure", "provision"} /\ Own(recon[r]) =>
    /\ recon[r].uuid \in Uuids \ {row.resource}
    /\ \A q \in Reconcilers \ {r} :
         recon[r].uuid \notin {recon[q].uuid, recon[q].snap.resource}

Secluded == /\ ~row.static /\ dying \subseteq Existing
            /\ \A r \in Reconcilers : Careful(recon[r]) /\ Private(r)

LeakInv == IInv /\ Secluded /\ Account
-----------------------------------------------------------------------------
(* Counting                                                                  *)

\* Sets that differ in one element differ by one in number.
LEMMA CountAt ==
  ASSUME NEW S, IsFiniteSet(S), NEW T, NEW e, T \ {e} = S \ {e}
  PROVE  /\ IsFiniteSet(T) /\ Cardinality(S) \in Nat /\ Cardinality(T) \in Nat
         /\ Cardinality(T) = Cardinality(S) + Num(e \in T) - Num(e \in S)
<1>1. Cardinality(S) \in Nat
  BY FS_CardinalityType
<1>2. CASE e \in S /\ e \in T
  <2>1. T = S
    BY <1>2
  <2> QED BY <1>1, <1>2, <2>1 DEF Num
<1>3. CASE e \notin S /\ e \notin T
  <2>1. T = S
    BY <1>3
  <2> QED BY <1>1, <1>3, <2>1 DEF Num
<1>4. CASE e \notin S /\ e \in T
  <2>1. T = S \cup {e}
    BY <1>4
  <2>2. IsFiniteSet(T) /\ Cardinality(T) = Cardinality(S) + 1
    BY <1>4, <2>1, FS_AddElement
  <2> QED BY <1>1, <1>4, <2>2 DEF Num
<1>5. CASE e \in S /\ e \notin T
  <2>1. T = S \ {e}
    BY <1>5
  <2>2. IsFiniteSet(T) /\ Cardinality(T) = Cardinality(S) - 1
    BY <1>5, <2>1, FS_RemoveElement
  <2>3. Cardinality(T) \in Nat
    BY <2>2, FS_CardinalityType
  <2> QED BY <1>1, <1>5, <2>2, <2>3 DEF Num
<1> QED BY <1>2, <1>3, <1>4, <1>5

\* Fewer elements are not more in number.
LEMMA CountFewer ==
  ASSUME NEW S, IsFiniteSet(S), NEW T, T \subseteq S
  PROVE  IsFiniteSet(T) /\ Cardinality(T) \in Nat /\ Cardinality(T) <= Cardinality(S)
BY FS_Subset, FS_CardinalityType

-----------------------------------------------------------------------------
(* What the leader owes                                                      *)

\* Two at most, and one if the plan is up to date.
LEMMA OwedRange ==
  ASSUME NEW c, NEW x, NEW live
  PROVE  /\ Owed(c, x, live) \in 0 .. 2
         /\ c.snap.id = x.id \/ ~Planning(c) => Owed(c, x, live) = Num(Vacant(c, x, live))
<1>1. Num(Vacant(c, x, live)) \in {0, 1} /\ Num(Redo(c, x, live)) \in {0, 1}
  BY DEF Num
<1>2. c.snap.id = x.id \/ ~Planning(c) => Num(Redo(c, x, live)) = 0
  BY DEF Num, Redo
<1> QED BY <1>1, <1>2 DEF Owed

\* What is implied, counts no more.
LEMMA OwedLess ==
  ASSUME NEW c, NEW x, NEW live, NEW d, NEW y, NEW more,
         Vacant(d, y, more) => Vacant(c, x, live), Redo(d, y, more) => Redo(c, x, live)
  PROVE  Owed(d, y, more) <= Owed(c, x, live)
<1>1. Num(Vacant(d, y, more)) <= Num(Vacant(c, x, live))
  BY DEF Num
<1>2. Num(Redo(d, y, more)) <= Num(Redo(c, x, live))
  BY DEF Num
<1>3. /\ Num(Vacant(c, x, live)) \in {0, 1} /\ Num(Redo(c, x, live)) \in {0, 1}
      /\ Num(Vacant(d, y, more)) \in {0, 1} /\ Num(Redo(d, y, more)) \in {0, 1}
  BY DEF Num
<1> QED BY <1>1, <1>2, <1>3 DEF Owed

\* As long as the row is that of the same tenant, one more may become owed.
LEMMA OwedSameTenant ==
  ASSUME NEW c, NEW x, NEW live, NEW y, y.id = x.id
  PROVE  /\ Owed(c, y, live) <= Owed(c, x, live) + 1
         /\ y.resource = x.resource \/ y.resource \in live => Owed(c, y, live) <= Owed(c, x, live)
<1>1. Redo(c, y, live) <=> Redo(c, x, live)
  BY DEF Redo
<1>2. y.resource = x.resource \/ y.resource \in live
        => (Vacant(c, y, live) => Vacant(c, x, live))
  BY DEF Vacant
<1>3. Num(Redo(c, y, live)) = Num(Redo(c, x, live)) /\ Num(Redo(c, x, live)) \in {0, 1}
  BY <1>1 DEF Num
<1>4. Num(Vacant(c, y, live)) \in {0, 1} /\ Num(Vacant(c, x, live)) \in {0, 1}
  BY DEF Num
<1>5. Owed(c, y, live) <= Owed(c, x, live) + 1
  BY <1>3, <1>4 DEF Owed
<1> QED BY <1>1, <1>2, <1>5, OwedLess

\* More live services do not make it more.
LEMMA OwedAntitone ==
  ASSUME NEW c, NEW x, NEW live, NEW more, live \subseteq more
  PROVE  Owed(c, x, more) <= Owed(c, x, live)
<1>1. Vacant(c, x, more) => Vacant(c, x, live)
  BY DEF Vacant
<1>2. Redo(c, x, more) => Redo(c, x, live)
  BY DEF Redo
<1> QED BY <1>1, <1>2, OwedLess

\* A tenant that is made anew has no service, as little as an absent one.
LEMMA OwedInserted ==
  ASSUME NEW c, NEW x, NEW live, NEW y, x.resource \notin live, y.resource \notin live,
         c.snap.id = x.id => c.pc \in Early
  PROVE  Owed(c, y, live) <= Owed(c, x, live)
<1>1. CASE c.snap.id = x.id
  <2>1. ~Planning(c) /\ ~Own(c)
    BY <1>1 DEF Planning, Planned, Ending, Own, Writing, Early
  <2>2. Vacant(c, x, live)
    BY <1>1, <2>1 DEF Vacant
  <2>3. ~Redo(c, y, live)
    BY <2>1 DEF Redo
  <2> QED BY <2>2, <2>3, OwedLess
<1>2. CASE c.snap.id # x.id
  <2>1. Vacant(c, x, live)
    BY <1>2 DEF Vacant
  <2>2. Redo(c, y, live) => Redo(c, x, live)
    BY <1>2 DEF Redo
  <2> QED BY <2>1, <2>2, OwedLess
<1> QED BY <1>1, <1>2

\* A leader that is set aside takes along at most what it owes and two more, and what the
\* new one owes was counted before.
LEMMA OwedPrice ==
  ASSUME NEW c, NEW x, NEW live
  PROVE  /\ Price(c, live) \in 0 .. 2
         /\ Owed(c, x, live) <= Num(x.resource \notin live) + Price(c, live)
         /\ Num(x.resource \notin live) + Price(c, live) <= Owed(c, x, live) + 2
<1> DEFINE b == x.resource \notin live
<1>1. /\ Num(Once(c)) \in {0, 1} /\ Num(Twice(c, live)) \in {0, 1} /\ Num(b) \in {0, 1}
      /\ Num(Vacant(c, x, live)) \in {0, 1} /\ Num(Redo(c, x, live)) \in {0, 1}
  BY DEF Num
<1>2. Vacant(c, x, live) => b \/ Once(c)
  BY DEF Vacant, Once
<1>3. Num(Vacant(c, x, live)) <= Num(b) + Num(Once(c))
  BY <1>2 DEF Num
<1>4. Redo(c, x, live) => Twice(c, live)
  BY DEF Redo, Twice
<1>5. Num(Redo(c, x, live)) <= Num(Twice(c, live))
  BY <1>4 DEF Num
<1>6. b => Vacant(c, x, live) \/ ~Twice(c, live)
  BY DEF Vacant, Twice, Own, Writing, Planning, Planned, Ending
<1>7. Num(b) + Num(Twice(c, live)) <= Num(Vacant(c, x, live)) + 1
  BY <1>6 DEF Num
<1> HIDE DEF b
<1>8. Owed(c, x, live) <= Num(b) + Price(c, live)
  BY <1>1, <1>3, <1>5 DEF Owed, Price
<1>9. Num(b) + Price(c, live) <= Owed(c, x, live) + 2
  BY <1>1, <1>7 DEF Owed, Price
<1>10. Price(c, live) \in 0 .. 2
  BY <1>1 DEF Price
<1> QED BY <1>8, <1>9, <1>10 DEF b
-----------------------------------------------------------------------------
(* The sum after a step                                                      *)

\* No reconciler but r is touched.
Others(r) == leader' = leader /\ \A q \in Reconcilers \ {r} : recon'[q] = recon[q]

\* The same bound where other elements may also go.
LEMMA CountAtMost ==
  ASSUME NEW S, IsFiniteSet(S), NEW T, NEW e, T \ {e} \subseteq S
  PROVE  /\ IsFiniteSet(T) /\ Cardinality(S) \in Nat /\ Cardinality(T) \in Nat
         /\ Cardinality(T) <= Cardinality(S) + Num(e \in T) - Num(e \in S)
<1> DEFINE U == (S \ {e}) \cup (T \cap {e})
<1>1. U \ {e} = S \ {e} /\ (e \in U <=> e \in T) /\ T \subseteq U
  OBVIOUS
<1> HIDE DEF U
<1>2. /\ IsFiniteSet(U) /\ Cardinality(S) \in Nat /\ Cardinality(U) \in Nat
      /\ Cardinality(U) = Cardinality(S) + Num(e \in U) - Num(e \in S)
  BY <1>1, CountAt
<1>3. IsFiniteSet(T) /\ Cardinality(T) \in Nat /\ Cardinality(T) <= Cardinality(U)
  BY <1>1, <1>2, CountFewer
<1>4. Num(e \in U) = Num(e \in T)
  BY <1>1 DEF Num
<1>5. Num(e \in T) \in {0, 1} /\ Num(e \in S) \in {0, 1}
  BY DEF Num
<1> QED BY <1>2, <1>3, <1>4, <1>5

\* There are finitely many services.
LEMMA LiveCount ==
  ASSUME NEW live \in SUBSET Uuids
  PROVE  IsFiniteSet(live) /\ Cardinality(live) \in Nat
BY TenantConstants, FS_Subset, FS_CardinalityType

\* What is live is a service.
LEMMA LiveSubset == Live \subseteq Uuids
BY DEF Live, Existing

\* What others can still do to the row does not grow by a step of r.
LEMMA StaleCount ==
  ASSUME Account, NEW r \in Reconcilers, Others(r),
         \A q \in Reconcilers \ {r} : Twice(recon[q], Live') => Twice(recon[q], Live)
  PROVE  /\ IsFiniteSet(Stale1') /\ IsFiniteSet(Stale2')
         /\ Cardinality(Stale1) \in Nat /\ Cardinality(Stale2) \in Nat
         /\ Cardinality(Stale1') \in Nat /\ Cardinality(Stale2') \in Nat
         /\ r = leader => Cardinality(Stale1') + Cardinality(Stale2')
                            <= Cardinality(Stale1) + Cardinality(Stale2)
         /\ r # leader => Cardinality(Stale1') + Cardinality(Stale2') + Price(recon[r], Live)
                            <= Cardinality(Stale1) + Cardinality(Stale2) + Price(recon'[r], Live')
<1>1. IsFiniteSet(Stale1) /\ IsFiniteSet(Stale2)
  BY DEF Account
<1>2. Stale1' \ {r} \subseteq Stale1 /\ Stale2' \ {r} \subseteq Stale2
  <2>1. ASSUME NEW q \in Reconcilers \ {r}
        PROVE  recon'[q] = recon[q] /\ (q # leader' <=> q # leader)
    BY DEF Others
  <2>2. Stale1' \ {r} \subseteq Stale1
    BY <2>1 DEF Stale1
  <2>3. Stale2' \ {r} \subseteq Stale2
    BY <2>1 DEF Stale2
  <2> QED BY <2>2, <2>3
<1>3. /\ IsFiniteSet(Stale1') /\ Cardinality(Stale1) \in Nat /\ Cardinality(Stale1') \in Nat
      /\ Cardinality(Stale1') <= Cardinality(Stale1) + Num(r \in Stale1') - Num(r \in Stale1)
  BY <1>1, <1>2, CountAtMost
<1>4. /\ IsFiniteSet(Stale2') /\ Cardinality(Stale2) \in Nat /\ Cardinality(Stale2') \in Nat
      /\ Cardinality(Stale2') <= Cardinality(Stale2) + Num(r \in Stale2') - Num(r \in Stale2)
  BY <1>1, <1>2, CountAtMost
<1>5. CASE r = leader
  <2>1. r \notin Stale1 /\ r \notin Stale2 /\ r \notin Stale1' /\ r \notin Stale2'
    BY <1>5 DEF Stale1, Stale2, Others
  <2> QED BY <1>3, <1>4, <1>5, <2>1 DEF Num
<1>6. CASE r # leader
  <2>1. /\ r \in Stale1 <=> Once(recon[r])
        /\ r \in Stale2 <=> Twice(recon[r], Live)
    BY <1>6 DEF Stale1, Stale2
  <2>2. /\ r \in Stale1' <=> Once(recon'[r])
        /\ r \in Stale2' <=> Twice(recon'[r], Live')
    BY <1>6 DEF Stale1, Stale2, Others
  <2>3. /\ Num(r \in Stale1) = Num(Once(recon[r]))
        /\ Num(r \in Stale2) = Num(Twice(recon[r], Live))
        /\ Num(r \in Stale1') = Num(Once(recon'[r]))
        /\ Num(r \in Stale2') = Num(Twice(recon'[r], Live'))
    BY <2>1, <2>2 DEF Num
  <2>4. /\ Num(Once(recon[r])) \in {0, 1} /\ Num(Twice(recon[r], Live)) \in {0, 1}
        /\ Num(Once(recon'[r])) \in {0, 1} /\ Num(Twice(recon'[r], Live')) \in {0, 1}
    BY DEF Num
  <2> QED BY <1>3, <1>4, <1>6, <2>3, <2>4 DEF Price
<1> QED BY <1>1, <1>3, <1>4, <1>5, <1>6

\* A step of the leader keeps the account if what it owes makes up for what is live.
LEMMA LeaderSettles ==
  ASSUME Account, faults \in Nat, faults' \in Nat, NEW r \in Reconcilers, r = leader, Others(r),
         \A q \in Reconcilers \ {r} : Twice(recon[q], Live') => Twice(recon[q], Live),
         Cardinality(Live') + Owed(recon'[r], row', Live') + 2 * faults
           <= Cardinality(Live) + Owed(recon[r], row, Live) + 2 * faults'
  PROVE  Account'
<1>1. Cardinality(Live) \in Nat
  BY LiveSubset, LiveCount
<1>2. Cardinality(Live') \in Nat
  <2>1. Live' \in SUBSET Uuids
    BY DEF Live, Existing
  <2> QED BY <2>1, LiveCount
<1>3. Owed(recon'[r], row', Live') \in 0 .. 2 /\ Owed(recon[r], row, Live) \in 0 .. 2
  BY OwedRange
<1>4. /\ Sum = Cardinality(Live) + Owed(recon[r], row, Live)
                 + Cardinality(Stale1) + Cardinality(Stale2)
      /\ Sum' = Cardinality(Live') + Owed(recon'[r], row', Live')
                 + Cardinality(Stale1') + Cardinality(Stale2')
  BY DEF Sum, Others
<1>5. /\ IsFiniteSet(Stale1') /\ IsFiniteSet(Stale2')
      /\ Cardinality(Stale1) \in Nat /\ Cardinality(Stale2) \in Nat
      /\ Cardinality(Stale1') \in Nat /\ Cardinality(Stale2') \in Nat
      /\ Cardinality(Stale1') + Cardinality(Stale2') <= Cardinality(Stale1) + Cardinality(Stale2)
  BY StaleCount
<1>6. Sum <= 2 * faults + 1
  BY DEF Account
<1>7. Sum' <= 2 * faults' + 1
  BY <1>1, <1>2, <1>3, <1>4, <1>5, <1>6
<1> QED BY <1>5, <1>7 DEF Account

\* A step of another one does if the price of what it can still do makes up for it.
LEMMA StaleSettles ==
  ASSUME Account, faults \in Nat, faults' \in Nat, NEW r \in Reconcilers, r # leader, Others(r),
         leader \in Reconcilers,
         \A q \in Reconcilers \ {r} : Twice(recon[q], Live') => Twice(recon[q], Live),
         Cardinality(Live') + Owed(recon[leader], row', Live') + Price(recon'[r], Live') + 2 * faults
           <= Cardinality(Live) + Owed(recon[leader], row, Live) + Price(recon[r], Live) + 2 * faults'
  PROVE  Account'
<1>1. Cardinality(Live) \in Nat
  BY LiveSubset, LiveCount
<1>2. Cardinality(Live') \in Nat
  <2>1. Live' \in SUBSET Uuids
    BY DEF Live, Existing
  <2> QED BY <2>1, LiveCount
<1>3. /\ Owed(recon[leader], row', Live') \in 0 .. 2 /\ Owed(recon[leader], row, Live) \in 0 .. 2
      /\ Price(recon[r], Live) \in 0 .. 2 /\ Price(recon'[r], Live') \in 0 .. 2
  BY OwedRange, OwedPrice
<1>4. /\ Sum = Cardinality(Live) + Owed(recon[leader], row, Live)
                 + Cardinality(Stale1) + Cardinality(Stale2)
      /\ Sum' = Cardinality(Live') + Owed(recon[leader], row', Live')
                 + Cardinality(Stale1') + Cardinality(Stale2')
  BY DEF Sum, Others
<1>5. /\ IsFiniteSet(Stale1') /\ IsFiniteSet(Stale2')
      /\ Cardinality(Stale1) \in Nat /\ Cardinality(Stale2) \in Nat
      /\ Cardinality(Stale1') \in Nat /\ Cardinality(Stale2') \in Nat
      /\ Cardinality(Stale1') + Cardinality(Stale2') + Price(recon[r], Live)
            <= Cardinality(Stale1) + Cardinality(Stale2) + Price(recon'[r], Live')
  BY StaleCount
<1>6. Sum <= 2 * faults + 1
  BY DEF Account
<1>7. Sum' <= 2 * faults' + 1
  BY <1>1, <1>2, <1>3, <1>4, <1>5, <1>6
<1> QED BY <1>5, <1>7 DEF Account

\* A step that neither makes nor deletes a service, and that does not fail.
LEMMA QuietSettles ==
  ASSUME Account, faults \in Nat, leader \in Reconcilers, NEW r \in Reconcilers, Others(r),
         Live' = Live, faults' = faults,
         r = leader => Owed(recon'[r], row', Live) <= Owed(recon[r], row, Live),
         r # leader => Owed(recon[leader], row', Live) + Price(recon'[r], Live)
                         <= Owed(recon[leader], row, Live) + Price(recon[r], Live)
  PROVE  Account'
<1>1. Cardinality(Live) \in Nat
  BY LiveSubset, LiveCount
<1>2. /\ Owed(recon'[r], row', Live) \in 0 .. 2 /\ Owed(recon[r], row, Live) \in 0 .. 2
      /\ Owed(recon[leader], row', Live) \in 0 .. 2 /\ Owed(recon[leader], row, Live) \in 0 .. 2
      /\ Price(recon[r], Live) \in 0 .. 2 /\ Price(recon'[r], Live) \in 0 .. 2
  BY OwedRange, OwedPrice
<1>3. CASE r = leader
  <2>1. Cardinality(Live') + Owed(recon'[r], row', Live') + 2 * faults
           <= Cardinality(Live) + Owed(recon[r], row, Live) + 2 * faults'
    BY <1>1, <1>2, <1>3
  <2> QED BY <1>3, <2>1, LeaderSettles
<1>4. CASE r # leader
  <2>1. Cardinality(Live') + Owed(recon[leader], row', Live') + Price(recon'[r], Live') + 2 * faults
           <= Cardinality(Live) + Owed(recon[leader], row, Live) + Price(recon[r], Live) + 2 * faults'
    BY <1>1, <1>2, <1>4
  <2> QED BY <1>4, <2>1, StaleSettles
<1> QED BY <1>3, <1>4

\* A step that fails pays for whatever the leader then owes.
LEMMA FaultSettles ==
  ASSUME Account, faults \in Nat, leader \in Reconcilers, NEW r \in Reconcilers, Others(r),
         Live' = Live, faults' = faults + 1, row' = row,
         r # leader => Price(recon'[r], Live) <= Price(recon[r], Live)
  PROVE  Account'
<1>1. Cardinality(Live) \in Nat
  BY LiveSubset, LiveCount
<1>2. /\ Owed(recon'[r], row', Live) \in 0 .. 2 /\ Owed(recon[r], row, Live) \in 0 .. 2
      /\ Owed(recon[leader], row, Live) \in 0 .. 2
      /\ Price(recon[r], Live) \in 0 .. 2 /\ Price(recon'[r], Live) \in 0 .. 2
  BY OwedRange, OwedPrice
<1>3. CASE r = leader
  <2>1. Cardinality(Live') + Owed(recon'[r], row', Live') + 2 * faults
           <= Cardinality(Live) + Owed(recon[r], row, Live) + 2 * faults'
    BY <1>1, <1>2, <1>3
  <2> QED BY <1>3, <2>1, LeaderSettles
<1>4. CASE r # leader
  <2>1. Cardinality(Live') + Owed(recon[leader], row', Live') + Price(recon'[r], Live') + 2 * faults
           <= Cardinality(Live) + Owed(recon[leader], row, Live) + Price(recon[r], Live) + 2 * faults'
    BY <1>1, <1>2, <1>4
  <2> QED BY <1>4, <2>1, StaleSettles
<1> QED BY <1>3, <1>4

\* What a step of r leaves of its record: d is c but for the place, or but for the outcome too.
Moved(c, d, pc) == /\ d.pc = pc /\ d.snap = c.snap /\ d.uuid = c.uuid /\ d.outcome = c.outcome

\* Going on leaves the rest of the record as it is, and the other reconcilers.
LEMMA MovedTo ==
  ASSUME Steady, NEW r \in Reconcilers, NEW pc, To(r, pc), leader' = leader
  PROVE  Moved(recon[r], recon'[r], pc) /\ Others(r)
BY DEF To, Moved, Others, Steady, Cycles

\* Giving up leaves the tenant and the service at hand.
LEMMA MovedDone ==
  ASSUME Steady, NEW r \in Reconcilers, NEW o, Done(r, o), leader' = leader
  PROVE  /\ recon'[r].pc = "askRecord" /\ recon'[r].snap = recon[r].snap
         /\ recon'[r].uuid = recon[r].uuid /\ recon'[r].outcome = o /\ Others(r)
BY DEF Done, Others, Steady, Cycles

\* Resting leaves nothing.
LEMMA MovedRest ==
  ASSUME Steady, NEW r \in Reconcilers, Rest(r), leader' = leader
  PROVE  recon'[r] = Resting /\ Others(r)
BY DEF Rest, Others, Steady, Cycles

\* A reconciler that can no more write a service costs nothing, and owes one at most if
\* there is none in the row.
LEMMA Settled ==
  ASSUME NEW c, NEW x, NEW live, ~Once(c)
  PROVE  Price(c, live) = 0 /\ Owed(c, x, live) = Num(x.resource \notin live)
<1>1. ~Twice(c, live) /\ ~Planning(c)
  BY DEF Once, Twice, Writing
<1>2. Vacant(c, x, live) <=> x.resource \notin live
  BY DEF Vacant, Once, Own
<1>3. ~Redo(c, x, live)
  BY <1>1 DEF Redo
<1> QED BY <1>1, <1>2, <1>3 DEF Price, Owed, Num

\* One that rests can write nothing.
LEMMA RestingSettled == ~Once(Resting)
BY DEF Once, Resting, Writing, Planning, Planned, Ending

\* What it takes that a quiet step of r keeps the account, for the leader and for others.
LEMMA LeaderOwes ==
  ASSUME NEW c, NEW x, NEW live, NEW d, NEW y, ~Once(d),
         y.resource \notin live => Vacant(c, x, live)
  PROVE  Owed(d, y, live) <= Owed(c, x, live)
<1>1. ~Planning(d)
  BY DEF Once
<1>2. Vacant(d, y, live) => Vacant(c, x, live)
  BY DEF Vacant, Once, Own
<1>3. ~Redo(d, y, live)
  BY <1>1 DEF Redo
<1> QED BY <1>2, <1>3, OwedLess

\* Who can do less costs less.
LEMMA PriceLess ==
  ASSUME NEW c, NEW d, NEW live, Once(d) => Once(c), Twice(d, live) => Twice(c, live)
  PROVE  Price(d, live) <= Price(c, live)
<1>1. /\ Num(Once(d)) <= Num(Once(c)) /\ Num(Twice(d, live)) <= Num(Twice(c, live))
      /\ Num(Once(c)) \in {0, 1} /\ Num(Twice(c, live)) \in {0, 1}
      /\ Num(Once(d)) \in {0, 1} /\ Num(Twice(d, live)) \in {0, 1}
  BY DEF Num
<1> QED BY <1>1 DEF Price
-----------------------------------------------------------------------------
(* Steps that neither make nor delete a service                              *)

\* Services that nobody touches stay as they are.
LEMMA LiveSame ==
  ASSUME UNCHANGED cloud
  PROVE  Existing' = Existing /\ Live' = Live
BY DEF cloud, Existing, Live, Exists

\* Starting, stopping and restarting leave a service there.
LEMMA LiveRuns ==
  ASSUME coolify \in [Uuids -> {"absent", "stopped", "running"}], NEW u, Exists(u),
         NEW s \in {"stopped", "running"}, coolify' = [coolify EXCEPT ![u] = s]
  PROVE  Existing' = Existing /\ (dying' = dying => Live' = Live)
<1>1. ASSUME NEW v \in Uuids  PROVE Exists(v)' <=> Exists(v)
  BY DEF Exists
<1> QED BY <1>1 DEF Existing, Live

\* The tenant in the row, and the service it is bound to, stay the same.
SameTenant == row'.id = row.id /\ row'.resource = row.resource

\* A step that leaves the tenant its service keeps the account if nothing becomes
\* possible by it.
LEMMA SmallSettles ==
  ASSUME Account, faults \in Nat, leader \in Reconcilers, NEW r \in Reconcilers, Others(r),
         Live' = Live, SameTenant,
         faults' = faults \/ (faults' = faults + 1 /\ row' = row),
         r = leader /\ Vacant(recon'[r], row, Live) => Vacant(recon[r], row, Live),
         r = leader /\ Redo(recon'[r], row, Live) => Redo(recon[r], row, Live),
         r # leader /\ Once(recon'[r]) => Once(recon[r]),
         r # leader /\ Twice(recon'[r], Live) => Twice(recon[r], Live)
  PROVE  Account'
<1> DEFINE c == recon[r]
           d == recon'[r]
<1>1. /\ row'.resource = row.resource /\ row'.id = row.id
      /\ Owed(recon[leader], row', Live) = Owed(recon[leader], row, Live)
      /\ Owed(d, row', Live) = Owed(d, row, Live)
  BY DEF SameTenant, Owed, Vacant, Redo
<1>2. r = leader => Owed(d, row, Live) <= Owed(c, row, Live)
  BY OwedLess
<1>3. r # leader => Price(d, Live) <= Price(c, Live)
  BY PriceLess
<1>4. /\ Owed(recon[leader], row, Live) \in 0 .. 2
      /\ Price(c, Live) \in 0 .. 2 /\ Price(d, Live) \in 0 .. 2
  BY OwedRange, OwedPrice
<1>5. CASE faults' = faults
  <2>1. r # leader => Owed(recon[leader], row', Live) + Price(d, Live)
                        <= Owed(recon[leader], row, Live) + Price(c, Live)
    BY <1>1, <1>3, <1>4
  <2> QED BY <1>1, <1>2, <1>5, <2>1, QuietSettles
<1>6. CASE faults' = faults + 1 /\ row' = row
  BY <1>3, <1>6, FaultSettles
<1> QED BY <1>5, <1>6

\* Giving up: resting, or recording the run, with nothing left to write.
LEMMA GivesUp ==
  ASSUME Account, faults \in Nat, leader \in Reconcilers, NEW r \in Reconcilers, Others(r),
         Live' = Live, SameTenant, ~Once(recon'[r]),
         \/ faults' = faults /\ (r = leader /\ row.resource \notin Live => Vacant(recon[r], row, Live))
         \/ faults' = faults + 1 /\ row' = row
  PROVE  Account'
<1> DEFINE c == recon[r]
           d == recon'[r]
<1>1. ~Once(d) /\ ~Twice(d, Live) /\ ~Planning(d) /\ ~Redo(d, row, Live)
  BY DEF Once, Twice, Redo, Writing
<1>2. Vacant(d, row, Live) => row.resource \notin Live
  BY <1>1 DEF Vacant, Once, Own
<1>3. CASE faults' = faults /\ (r = leader /\ row.resource \notin Live => Vacant(c, row, Live))
  BY <1>1, <1>2, <1>3, SmallSettles
<1>4. CASE faults' = faults + 1 /\ row' = row
  <2>1. Price(d, Live) = 0 /\ Price(c, Live) \in 0 .. 2
    BY <1>1, Settled, OwedPrice
  <2> QED BY <1>4, <2>1, FaultSettles
<1> QED BY <1>3, <1>4

\* The record of the run without anything to remove.
LEMMA DoneSettled ==
  ASSUME NEW d, d.pc = "askRecord", d.outcome # "remove"
  PROVE  ~Once(d)
BY DEF Once, Writing, Planning, Planned

\* Where the reconciler has made nothing of its own, the row tells whether one is owed.
LEMMA VacantRow ==
  ASSUME NEW c, NEW x, NEW live, ~Own(c), x.resource \notin live
  PROVE  Vacant(c, x, live)
BY DEF Vacant

\* A cycle begins: the row only ages.
LEMMA BeginCycleAccount ==
  ASSUME TypeOK, Steady, Account, NEW r \in Reconcilers, BeginCycle(r)
  PROVE  Account'
<1> DEFINE c == recon[r]
           d == recon'[r]
<1>1. c.pc = "idle" /\ Moved(c, d, "desire") /\ Others(r)
  BY MovedTo DEF BeginCycle, At
<1>2. Live' = Live /\ faults' = faults /\ faults \in Nat /\ leader \in Reconcilers
  BY LiveSame DEF BeginCycle, TypeOK
<1>3. SameTenant
  BY DEF BeginCycle, SameTenant, TypeOK, Rows, Absent
<1>4. ~Once(d) /\ ~Own(c)
  BY <1>1 DEF Moved, Once, Own, Writing, Planning, Planned, Ending
<1> QED BY <1>1, <1>2, <1>3, <1>4, VacantRow, GivesUp

\* With the lease the plan is followed, without it nothing is.
LEMMA AskAccount ==
  ASSUME TypeOK, Steady, Account, NEW r \in Reconcilers, Ask(r)
  PROVE  Account'
<1> DEFINE c == recon[r]
           d == recon'[r]
<1>1. /\ Live' = Live /\ faults' = faults /\ faults \in Nat /\ leader \in Reconcilers
      /\ leader' = leader /\ SameTenant
  BY LiveSame DEF Ask, TypeOK, SameTenant, rows
<1>2. c.pc \in {"askList", "askApply", "askRecord"}
  BY DEF Ask, After
<1>3. CASE leader # r
  <2>1. Rest(r)
    BY <1>3 DEF Ask
  <2> QED BY <1>1, <1>3, <2>1, MovedRest, RestingSettled, GivesUp
<1>4. CASE leader = r
  <2>1. Moved(c, d, After[c.pc]) /\ Others(r)
    BY <1>1, <1>4, MovedTo DEF Ask
  <2>2. \/ c.pc = "askList" /\ d.pc = "list"
        \/ c.pc = "askApply" /\ d.pc = "apply"
        \/ c.pc = "askRecord" /\ d.pc = "record"
    BY <1>2, <2>1 DEF After, Moved
  <2>3. /\ Planning(d) <=> Planning(c)
        /\ Hand(d) = Hand(c) /\ ~Own(d) /\ ~Own(c) /\ d.snap = c.snap
    BY <2>1, <2>2 DEF Moved, Planning, Planned, Ending, Hand, Own, Writing
  <2>4. Vacant(d, row, Live) => Vacant(c, row, Live)
    BY <2>2, <2>3 DEF Vacant, Writing
  <2>5. Redo(d, row, Live) => Redo(c, row, Live)
    BY <2>3 DEF Redo
  <2> QED BY <1>1, <1>4, <2>1, <2>4, <2>5, SmallSettles
<1> QED BY <1>3, <1>4

\* The tenant is listed as it is.
LEMMA ListAccount ==
  ASSUME TypeOK, Steady, Account, NEW r \in Reconcilers, List(r)
  PROVE  Account'
<1> DEFINE c == recon[r]
           d == recon'[r]
<1>1. /\ Live' = Live /\ faults' = faults /\ faults \in Nat /\ leader \in Reconcilers
      /\ leader' = leader /\ SameTenant /\ c.pc = "list"
  BY LiveSame DEF List, TypeOK, SameTenant, rows, At
<1>2. ~Own(c) /\ Once(c) /\ Twice(c, Live)
  BY <1>1 DEF Own, Writing, Once, Twice
<1>3. CASE row = Absent
  <2>1. Rest(r)
    BY <1>3 DEF List
  <2> QED BY <1>1, <1>2, <2>1, MovedRest, RestingSettled, VacantRow, GivesUp
<1>4. CASE row # Absent
  <2>1. recon' = [recon EXCEPT ![r] = [Resting EXCEPT !.pc = "askApply", !.snap = row]]
    BY <1>4 DEF List
  <2>2. d = [Resting EXCEPT !.pc = "askApply", !.snap = row] /\ Others(r)
    BY <1>1, <2>1 DEF Steady, Others
  <2>3. d.pc = "askApply" /\ d.snap = row
    BY <2>2 DEF Resting
  <2> HIDE DEF d
  <2>4. Vacant(d, row, Live) => row.resource \notin Live
    BY <2>3 DEF Vacant, Writing, Hand
  <2>5. ~Redo(d, row, Live)
    BY <2>3 DEF Redo
  <2>6. Vacant(d, row, Live) => Vacant(c, row, Live)
    BY <1>2, <2>4, VacantRow
  <2> QED BY <1>1, <1>2, <2>2, <2>5, <2>6, SmallSettles DEF d
<1> QED BY <1>3, <1>4

\* The calls that a tenant that is not static can begin with.
LEMMA PlainCalls ==
  ASSUME NEW t \in Rows
  PROVE  /\ FirstCall(t) \in {"askRecord", "probe", "create", "get", "start", "disable", "stop",
                              "lookup"}
         /\ FirstCall(t) = "create" => t.resource = None
         /\ Gone(t) /\ ~t.static => FirstCall(t) = "askRecord" /\ t.resource = None
<1> DEFINE action == PlanTenantAction(t)
<1>1. action \in {"noop", "enable", "ensure", "disable", "delete"}
  BY DEF PlanTenantAction, PlanEnabled, Rows
<1>2. /\ Ensure(t) \in {"askRecord", "create", "get"}
      /\ Ensure(t) = "create" => t.resource = None
  BY DEF Ensure
<1>3. Gone(t) /\ ~t.static => action = "delete" /\ Loaded /\ t.resource = None
  BY DEF Gone
<1> HIDE DEF action
<1>4. FirstCall(t) \in {"askRecord", "probe", "create", "get", "start", "disable", "stop", "lookup"}
  BY <1>1, <1>2 DEF FirstCall, action
<1>5. FirstCall(t) = "create" => t.resource = None
  BY <1>1, <1>2 DEF FirstCall, action
<1>6. action = "delete" /\ Loaded /\ t.resource = None => FirstCall(t) = "askRecord"
  BY <1>1, <1>2 DEF FirstCall, action
<1> QED BY <1>3, <1>4, <1>5, <1>6

\* A reconciler that carries out its plan goes on with the service it has at hand.
LEMMA PlanSettles ==
  ASSUME Account, faults \in Nat, leader \in Reconcilers, NEW r \in Reconcilers, Others(r),
         Live' = Live, SameTenant, faults' = faults,
         recon'[r].snap = recon[r].snap, Planning(recon[r]), recon[r].pc \notin Writing,
         Planning(recon'[r]) => Hand(recon'[r]) = Hand(recon[r]),
         recon'[r].pc \in Writing => recon'[r].uuid = Hand(recon[r]) /\ ~Own(recon'[r]),
         recon'[r].pc # "uncreate"
  PROVE  Account'
<1> DEFINE c == recon[r]
           d == recon'[r]
<1>1. Once(c) /\ Twice(c, Live) /\ ~Own(c)
  BY DEF Once, Twice, Own
<1>2. Redo(d, row, Live) => Redo(c, row, Live)
  BY DEF Redo
<1>3. Vacant(d, row, Live) => Vacant(c, row, Live)
  <2>1. CASE c.snap.id = row.id
    BY <1>1, <2>1 DEF Vacant
  <2>2. CASE c.snap.id # row.id
    BY <1>1, <2>2 DEF Vacant
  <2> QED BY <2>1, <2>2
<1> QED BY <1>1, <1>2, <1>3, SmallSettles

\* The plan begins with the service of the tenant as it was listed.
LEMMA ApplyAccount ==
  ASSUME TypeOK, Steady, Account, NEW r \in Reconcilers, Careful(recon[r]), Apply(r)
  PROVE  Account'
<1> DEFINE c == recon[r]
           d == recon'[r]
           t == recon[r].snap
<1>1. /\ Live' = Live /\ faults' = faults /\ faults \in Nat /\ leader \in Reconcilers
      /\ leader' = leader /\ SameTenant /\ c.pc = "apply"
  BY LiveSame DEF Apply, TypeOK, SameTenant, rows, At
<1>2. /\ d.pc = FirstCall(t) /\ d.uuid = t.resource /\ d.snap = t
      /\ d.outcome = IF Gone(t) THEN "remove" ELSE "mark"
      /\ Others(r)
  <2>1. ~t.static
    BY DEF Careful
  <2> QED BY <1>1, <2>1 DEF Apply, Steady, Cycles, Others
<1>3. t \in Rows
  BY <1>1, HasTenant DEF Early, Tenant
<1>4. d.pc \in {"askRecord", "probe", "create", "get", "start", "disable", "stop", "lookup"}
  BY <1>2, <1>3, PlainCalls
<1>5. Hand(c) = t.resource /\ Planning(c) /\ c.pc \notin Writing
  BY <1>1 DEF Hand, Planning, Writing
<1>6. Planning(d) => Hand(d) = d.uuid
  BY <1>4 DEF Hand
<1>7. ~Own(d)
  BY <1>2 DEF Own
<1> HIDE DEF d
<1>8. d.snap = c.snap /\ d.pc # "uncreate"
  BY <1>2, <1>4
<1>9. /\ Planning(d) => Hand(d) = Hand(c)
      /\ d.pc \in Writing => d.uuid = Hand(c) /\ ~Own(d)
  BY <1>2, <1>5, <1>6, <1>7
<1> QED BY <1>1, <1>2, <1>5, <1>8, <1>9, PlanSettles DEF d

\* A service that does not exist is to be made anew.
LEMMA GetServiceAccount ==
  ASSUME TypeOK, Steady, Account, NEW r \in Reconcilers, Careful(recon[r]), GetService(r)
  PROVE  Account'
<1> DEFINE c == recon[r]
           d == recon'[r]
<1>1. /\ Live' = Live /\ faults' = faults /\ faults \in Nat /\ leader \in Reconcilers
      /\ leader' = leader /\ SameTenant /\ c.pc = "get"
  BY LiveSame DEF GetService, TypeOK, SameTenant, rows, At
<1>2. (Moved(c, d, "configure") \/ Moved(c, d, "create")) /\ Others(r)
  BY <1>1, MovedTo DEF GetService
<1>3. c.uuid = c.snap.resource
  BY <1>1 DEF Careful, Planned
<1>4. Planning(c) /\ Hand(c) = c.uuid /\ c.pc \notin Writing
  BY <1>1 DEF Planning, Planned, Hand, Writing
<1>5. /\ d.snap = c.snap /\ d.pc # "uncreate" /\ d.uuid = c.uuid /\ Hand(d) = d.uuid /\ ~Own(d)
  BY <1>2, <1>3 DEF Moved, Hand, Own
<1> QED BY <1>1, <1>2, <1>4, <1>5, PlanSettles

\* So is one that cannot be started because it does not exist.
LEMMA StartServiceAccount ==
  ASSUME TypeOK, Steady, Account, NEW r \in Reconcilers, Careful(recon[r]), StartService(r)
  PROVE  Account'
<1> DEFINE c == recon[r]
           d == recon'[r]
<1>1. /\ faults \in Nat /\ leader \in Reconcilers /\ leader' = leader /\ SameTenant
      /\ row' = row /\ dying' = dying /\ c.pc = "start"
  BY DEF StartService, TypeOK, SameTenant, rows, At
<1>2. c.uuid = c.snap.resource
  BY <1>1 DEF Careful, Planned
<1>3. c.outcome # "remove"
  BY <1>1 DEF Careful, Ending
<1>4. Planning(c) /\ Hand(c) = c.uuid /\ c.pc \notin Writing /\ Once(c)
  BY <1>1 DEF Planning, Planned, Hand, Writing, Once
<1>5. Live' = Live
  <2>1. CASE Exists(c.uuid)
    BY <1>1, <2>1, LiveRuns DEF StartService, TypeOK
  <2>2. CASE ~Exists(c.uuid)
    BY <1>1, <2>2, LiveSame DEF StartService, cloud
  <2> QED BY <2>1, <2>2
<1>6. CASE Done(r, "mark") /\ Fault
  <2>1. faults' = faults + 1
    BY <1>6 DEF Fault
  <2>2. ~Once(d) /\ Others(r)
    BY <1>1, <1>6, MovedDone, DoneSettled
  <2> QED BY <1>1, <1>5, <2>1, <2>2, GivesUp
<1>7. CASE /\ faults' = faults
           /\ \E pc \in {"started", "askRecord", "get", "create"} : To(r, pc)
  <2>1. PICK pc \in {"started", "askRecord", "get", "create"} : To(r, pc)
    BY <1>7
  <2>2. Moved(c, d, pc) /\ Others(r)
    BY <1>1, <2>1, MovedTo
  <2>3. /\ d.snap = c.snap /\ d.pc # "uncreate" /\ d.uuid = c.uuid /\ Hand(d) = d.uuid /\ ~Own(d)
    BY <1>2, <2>2 DEF Moved, Hand, Own
  <2> QED BY <1>1, <1>4, <1>5, <1>7, <2>2, <2>3, PlanSettles
<1>8. Ensure(Tenant(r)) \in {"askRecord", "get", "create"}
  BY DEF Ensure
<1> QED BY <1>6, <1>7, <1>8 DEF StartService, Proceed

\* A service that is to be deleted is looked up.
LEMMA LookUpAccount ==
  ASSUME TypeOK, Steady, Account, NEW r \in Reconcilers, Careful(recon[r]), LookUp(r)
  PROVE  Account'
<1> DEFINE c == recon[r]
           d == recon'[r]
<1>1. /\ Live' = Live /\ faults' = faults /\ faults \in Nat /\ leader \in Reconcilers
      /\ leader' = leader /\ SameTenant /\ c.pc = "lookup"
  BY LiveSame DEF LookUp, TypeOK, SameTenant, rows, At
<1>2. /\ d.pc \in {"askRecord", "queue", "condemn"} /\ d.uuid = c.uuid /\ d.snap = c.snap
      /\ Others(r)
  BY <1>1 DEF LookUp, Done, To, Others, Steady, Cycles
<1>3. Planning(c) /\ Hand(c) = c.uuid /\ c.pc \notin Writing
  BY <1>1 DEF Planning, Planned, Hand, Writing
<1>4. d.pc # "uncreate" /\ Hand(d) = d.uuid /\ d.pc \notin Writing
  BY <1>2 DEF Hand, Writing
<1> QED BY <1>1, <1>2, <1>3, <1>4, PlanSettles

\* A service is configured, or found lost.
LEMMA ConfigureAccount ==
  ASSUME TypeOK, Steady, Account, NEW r \in Reconcilers, Configure(r)
  PROVE  Account'
<1> DEFINE c == recon[r]
           d == recon'[r]
<1>1. /\ faults \in Nat /\ leader \in Reconcilers /\ leader' = leader /\ SameTenant
      /\ row' = row /\ dying' = dying /\ c.pc = "configure"
  BY DEF Configure, TypeOK, SameTenant, rows, At
<1>2. Live' = Live
  <2>1. CASE UNCHANGED coolify
    BY <1>1, <2>1, LiveSame DEF cloud
  <2>2. CASE Exists(c.uuid) /\ coolify' = [coolify EXCEPT ![c.uuid] = "running"]
    BY <1>1, <2>2, LiveRuns DEF TypeOK
  <2> QED BY <2>1, <2>2 DEF Configure
<1>3. CASE Done(r, "mark") /\ (Fault \/ (~Exists(c.uuid) /\ faults' = faults))
  <2>1. ~Once(d) /\ Others(r)
    BY <1>1, <1>3, MovedDone, DoneSettled
  <2>2. CASE Fault
    BY <1>1, <1>2, <2>1, <2>2, GivesUp DEF Fault
  <2>3. CASE ~Exists(c.uuid) /\ faults' = faults
    <3>1. row.resource \notin Live => Vacant(c, row, Live)
      BY <1>1, <2>3 DEF Vacant, Writing, Live, Existing
    <3> QED BY <1>1, <1>2, <2>1, <2>3, <3>1, GivesUp
  <2> QED BY <1>3, <2>2, <2>3
<1>4. CASE To(r, "provision") /\ faults' = faults
  <2>1. Moved(c, d, "provision") /\ Others(r)
    BY <1>1, <1>4, MovedTo
  <2>2. ~Planning(d) /\ (Own(d) <=> Own(c))
    BY <1>1, <2>1 DEF Moved, Planning, Planned, Ending, Own, Writing
  <2>3. ~Redo(d, row, Live) /\ Once(c)
    BY <1>1, <2>2 DEF Redo, Once, Writing
  <2>4. Vacant(d, row, Live) => Vacant(c, row, Live)
    BY <1>1, <2>1, <2>2 DEF Moved, Vacant, Writing
  <2>5. Twice(d, Live) => Twice(c, Live)
    BY <1>1, <2>1, <2>2 DEF Moved, Twice
  <2> QED BY <1>1, <1>2, <1>4, <2>1, <2>3, <2>4, <2>5, SmallSettles
<1> QED BY <1>3, <1>4 DEF Configure, Proceed

\* A service that is stopped is still there.
LEMMA StopServiceAccount ==
  ASSUME TypeOK, Steady, Account, NEW r \in Reconcilers, Careful(recon[r]), StopService(r)
  PROVE  Account'
<1> DEFINE c == recon[r]
           d == recon'[r]
<1>1. /\ faults \in Nat /\ leader \in Reconcilers /\ leader' = leader /\ SameTenant
      /\ row' = row /\ dying' = dying /\ c.pc = "stop"
  BY DEF StopService, TypeOK, SameTenant, rows, At
<1>2. Live' = Live
  <2>1. CASE ~Exists(c.uuid)
    BY <1>1, <2>1, LiveSame DEF cloud, StopService
  <2>2. CASE Exists(c.uuid)
    BY <1>1, <2>2, LiveRuns DEF TypeOK, StopService
  <2> QED BY <2>1, <2>2
<1>3. ~Own(c) /\ c.outcome # "remove"
  BY <1>1 DEF Own, Writing, Careful, Ending
<1>4. CASE Done(r, "mark") /\ Fault
  <2>1. ~Once(d) /\ Others(r)
    BY <1>1, <1>4, MovedDone, DoneSettled
  <2> QED BY <1>1, <1>2, <1>4, <2>1, GivesUp DEF Fault
<1>5. CASE To(r, "disable") /\ faults' = faults
  <2>1. Moved(c, d, "disable") /\ Others(r)
    BY <1>1, <1>5, MovedTo
  <2>2. ~Once(d)
    BY <1>3, <2>1 DEF Moved, Once, Writing, Planning, Planned
  <2> QED BY <1>1, <1>2, <1>3, <1>5, <2>1, <2>2, VacantRow, GivesUp
<1> QED BY <1>4, <1>5 DEF StopService, Proceed

\* What the probe sees changes nothing.
LEMMA ProbeAccount ==
  ASSUME TypeOK, Steady, Account, NEW r \in Reconcilers, Probe(r)
  PROVE  Account'
<1> DEFINE c == recon[r]
           d == recon'[r]
<1>1. /\ faults \in Nat /\ leader \in Reconcilers /\ leader' = leader /\ SameTenant
      /\ row' = row /\ Live' = Live /\ c.pc = "probe"
  BY LiveSame DEF Probe, TypeOK, SameTenant, rows, At
<1>2. /\ d.pc = "observe" /\ d.snap = c.snap /\ d.uuid = c.uuid /\ d.outcome = c.outcome
      /\ Others(r)
  BY <1>1 DEF Probe, Others, Steady, Cycles
<1>3. faults' = faults \/ (faults' = faults + 1 /\ row' = row)
  BY <1>1 DEF Probe, Fault
<1>4. ~Planning(d) /\ (Own(d) <=> Own(c))
  BY <1>1, <1>2 DEF Planning, Planned, Ending, Own, Writing
<1>5. ~Redo(d, row, Live) /\ Once(c) /\ ~Twice(d, Live)
  BY <1>1, <1>2, <1>4 DEF Redo, Once, Writing, Twice
<1>6. Vacant(d, row, Live) => Vacant(c, row, Live)
  BY <1>1, <1>2, <1>4 DEF Vacant, Writing
<1> QED BY <1>1, <1>2, <1>3, <1>5, <1>6, SmallSettles

\* A call that fails, a process that crashes.
LEMMA FailsAccount ==
  ASSUME TypeOK, Steady, Account, NEW r \in Reconcilers, Fails(r) \/ Crash(r)
  PROVE  Account'
<1>1. /\ faults \in Nat /\ leader \in Reconcilers /\ leader' = leader /\ SameTenant
      /\ row' = row /\ Live' = Live /\ faults' = faults + 1
  BY LiveSame DEF Fails, Crash, Fault, TypeOK, SameTenant, rows
<1>2. ~Once(recon'[r]) /\ Others(r)
  <2>1. CASE Done(r, "mark")
    BY <1>1, <2>1, MovedDone, DoneSettled
  <2>2. CASE Rest(r)
    BY <1>1, <2>2, MovedRest, RestingSettled
  <2> QED BY <2>1, <2>2 DEF Fails, Crash
<1> QED BY <1>1, <1>2, GivesUp

\* The run is recorded, and the tenant may still have to be removed.
LEMMA RecordAccount ==
  ASSUME TypeOK, Steady, Account, NEW r \in Reconcilers, Record(r)
  PROVE  Account'
<1> DEFINE c == recon[r]
           d == recon'[r]
<1>1. /\ faults \in Nat /\ leader \in Reconcilers /\ leader' = leader /\ SameTenant
      /\ row' = row /\ Live' = Live /\ c.pc = "record"
  BY LiveSame DEF Record, TypeOK, SameTenant, rows, At
<1>2. ~Own(c)
  BY <1>1 DEF Own, Writing
<1>3. CASE Rest(r)
  <2>1. ~Once(d) /\ Others(r)
    BY <1>1, <1>3, MovedRest, RestingSettled
  <2> QED BY <1>1, <1>2, <2>1, VacantRow, GivesUp DEF Record, Fault
<1>4. CASE To(r, "finish") /\ faults' = faults
  <2>1. Moved(c, d, "finish") /\ Others(r)
    BY <1>1, <1>4, MovedTo
  <2>2. /\ Planning(d) <=> Planning(c)
        /\ Hand(d) = Hand(c) /\ ~Own(d) /\ d.snap = c.snap
    BY <1>1, <2>1 DEF Moved, Planning, Planned, Ending, Hand, Own, Writing
  <2>3. /\ Vacant(d, row, Live) => Vacant(c, row, Live)
        /\ Redo(d, row, Live) => Redo(c, row, Live)
    BY <1>1, <1>2, <2>1, <2>2 DEF Moved, Vacant, Redo, Writing
  <2>4. /\ Once(d) => Once(c)
        /\ Twice(d, Live) => Twice(c, Live)
    BY <2>1, <2>2 DEF Moved, Once, Twice, Writing
  <2> QED BY <1>1, <1>4, <2>1, <2>3, <2>4, SmallSettles
<1> QED BY <1>3, <1>4 DEF Record
-----------------------------------------------------------------------------
(* Steps that write the row                                                  *)

\* What a status changes in the row, and what clearing it does.
LEMMA StatusFields ==
  ASSUME row \in Rows \cup {Absent}, NEW t, NEW runtime, NEW uuid, NEW upstream
  PROVE  LET x == UpdateTenantRuntimeStatus(t, runtime, uuid, upstream) IN
         /\ x.id = row.id /\ x.static = row.static
         /\ x.resource = IF row.id = t.id /\ uuid # None THEN uuid ELSE row.resource
<1>1. CASE row \in Rows
  BY <1>1 DEF UpdateTenantRuntimeStatus, Rows
<1>2. CASE row = Absent
  BY <1>2 DEF UpdateTenantRuntimeStatus, Absent
<1> QED BY <1>1, <1>2

\* Clearing takes the service from the row.
LEMMA ClearFields ==
  ASSUME row \in Rows \cup {Absent}, NEW t
  PROVE  LET x == ClearRuntimeReferences(t) IN
         /\ x.id = row.id /\ x.static = row.static
         /\ x.resource = IF row.id = t.id THEN None ELSE row.resource
<1>1. CASE row \in Rows
  BY <1>1 DEF ClearRuntimeReferences, Rows
<1>2. CASE row = Absent
  BY <1>2 DEF ClearRuntimeReferences, Absent
<1> QED BY <1>1, <1>2

\* The service that the row is bound to after a write.
LEMMA WrittenRow ==
  ASSUME TypeOK, NEW r \in Reconcilers, Write(r)
  PROVE  LET c == recon[r] IN
         /\ row'.id = row.id /\ row'.static = row.static
         /\ row.id # c.snap.id => row'.resource = row.resource
         /\ c.pc \in {"started", "disable", "condemn"} => row'.resource = row.resource
         /\ c.pc \in {"provision", "observe"} /\ row.id = c.snap.id
              => row'.resource = IF c.uuid = None THEN row.resource ELSE c.uuid
         /\ c.pc = "uncreate" /\ row.id = c.snap.id => row'.resource = None
<1> DEFINE t == Tenant(r)
           c == recon[r]
<1>1. row \in Rows \cup {Absent} /\ t = c.snap
  BY DEF TypeOK, Tenant
<1>2. CASE c.pc = "provision"
  <2>1. row' = UpdateTenantRuntimeStatus(t, "provisioning", c.uuid, "internal")
    BY <1>2 DEF Write, Written, At
  <2> QED BY <1>1, <1>2, <2>1, StatusFields
<1>3. CASE c.pc = "started"
  <2>1. row' = UpdateTenantRuntimeStatus(t, "provisioning", None, None)
    BY <1>3 DEF Write, Written, At
  <2> QED BY <1>1, <1>3, <2>1, StatusFields
<1>4. CASE c.pc = "observe"
  <2>1. row' = UpdateTenantRuntimeStatus(t, c.health, c.uuid, Target(t))
    BY <1>4 DEF Write, Written, At
  <2> QED BY <1>1, <1>4, <2>1, StatusFields
<1>5. CASE c.pc = "disable"
  <2>1. row' = UpdateTenantRuntimeStatus(t, "disabled", None, None)
    BY <1>5 DEF Write, Written, At
  <2> QED BY <1>1, <1>5, <2>1, StatusFields
<1>6. CASE c.pc = "condemn"
  <2>1. row' = UpdateTenantRuntimeStatus(t, "deleting", None, None)
    BY <1>6 DEF Write, Written, At
  <2> QED BY <1>1, <1>6, <2>1, StatusFields
<1>7. CASE c.pc = "uncreate"
  <2>1. row' = ClearRuntimeReferences(t)
    BY <1>7 DEF Write, Written, At
  <2> QED BY <1>1, <1>7, <2>1, ClearFields
<1> QED BY <1>2, <1>3, <1>4, <1>5, <1>6, <1>7 DEF Write

\* No service is called None.
LEMMA NoneNotLive == None \notin Live
BY TenantConstants DEF Live, Existing

\* The leader writes what it owes; a stale reconciler takes a service from the row and
\* can do so once less.
LEMMA WriteAccount ==
  ASSUME TypeOK, Steady, Account, NEW r \in Reconcilers, Careful(recon[r]), Write(r)
  PROVE  Account'
<1> DEFINE c == recon[r]
           d == recon'[r]
<1>1. /\ faults \in Nat /\ faults' = faults /\ leader \in Reconcilers /\ leader' = leader
      /\ Live' = Live
  BY LiveSame DEF Write, TypeOK
<1>2. c.pc \in {"provision", "started", "observe", "disable", "condemn", "uncreate"}
  BY DEF Write
<1>3. /\ IF c.pc \in {"provision", "started"} THEN Moved(c, d, "probe") ELSE Moved(c, d, "askRecord")
      /\ Others(r)
  BY <1>1, MovedTo DEF Write
<1>4. c.outcome # "remove" /\ d.outcome # "remove"
  BY <1>2, <1>3 DEF Careful, Ending, Moved
<1>5. ~Planning(d) /\ d.snap = c.snap /\ d.uuid = c.uuid
  BY <1>3, <1>4 DEF Planning, Planned, Moved
<1>6. /\ row'.id = row.id
      /\ row.id # c.snap.id => row'.resource = row.resource
      /\ c.pc \in {"started", "disable", "condemn"} => row'.resource = row.resource
      /\ c.pc \in {"provision", "observe"} /\ row.id = c.snap.id
           => row'.resource = IF c.uuid = None THEN row.resource ELSE c.uuid
      /\ c.pc = "uncreate" /\ row.id = c.snap.id => row'.resource = None
  BY WrittenRow
<1>7. ~Redo(d, row', Live)
  BY <1>5 DEF Redo
<1>8. Vacant(d, row', Live) => Vacant(c, row, Live)
  <2>1. CASE c.pc \in {"provision", "started"}
    <3>1. d.pc = "probe" /\ (Own(d) <=> Own(c))
      BY <1>3, <1>5, <2>1 DEF Moved, Own, Writing
    <3> QED BY <1>5, <1>6, <2>1, <3>1, NoneNotLive DEF Vacant, Writing
  <2>2. CASE c.pc \in {"observe", "uncreate", "disable", "condemn"}
    <3>1. d.pc = "askRecord" /\ ~Own(d)
      BY <1>3, <2>2 DEF Moved, Own, Writing
    <3>2. c.pc # "observe" => ~Own(c)
      BY <2>2 DEF Own, Writing
    <3> QED BY <1>5, <1>6, <2>2, <3>1, <3>2, NoneNotLive DEF Vacant, Writing
  <2> QED BY <1>2, <2>1, <2>2
<1>9. Owed(d, row', Live) <= Owed(c, row, Live)
  BY <1>7, <1>8, OwedLess
<1>10. ASSUME r # leader
       PROVE  Owed(recon[leader], row', Live) + Price(d, Live)
                <= Owed(recon[leader], row, Live) + Price(c, Live)
  <2>1. /\ Owed(recon[leader], row', Live) \in 0 .. 2 /\ Owed(recon[leader], row, Live) \in 0 .. 2
        /\ Price(c, Live) \in 0 .. 2 /\ Price(d, Live) \in 0 .. 2
    BY OwedRange, OwedPrice
  <2>2. /\ Once(d) => Once(c)
        /\ Twice(d, Live) => Twice(c, Live)
    BY <1>3, <1>5 DEF Once, Twice, Moved, Writing
  <2>3. Price(d, Live) <= Price(c, Live)
    BY <2>2, PriceLess
  <2>4. CASE row'.resource = row.resource \/ row'.resource \in Live
    <3>1. Owed(recon[leader], row', Live) <= Owed(recon[leader], row, Live)
      BY <1>6, <2>4, OwedSameTenant
    <3> QED BY <2>1, <2>3, <3>1
  <2>5. CASE row'.resource # row.resource /\ row'.resource \notin Live
    <3>1. Owed(recon[leader], row', Live) <= Owed(recon[leader], row, Live) + 1
      BY <1>6, OwedSameTenant
    <3>2. CASE c.pc = "provision"
      <4>1. c.uuid \notin Live
        BY <1>6, <2>5, <3>2
      <4>2. Once(c) /\ Twice(c, Live) /\ ~Twice(d, Live)
        BY <1>3, <1>5, <3>2, <4>1 DEF Once, Twice, Writing, Moved
      <4>3. Price(c, Live) = 2 /\ Price(d, Live) <= 1
        BY <4>2 DEF Price, Num
      <4> QED BY <2>1, <3>1, <4>3
    <3>3. CASE c.pc \in {"observe", "uncreate"}
      <4>1. Once(c) /\ ~Once(d)
        BY <1>3, <1>5, <3>3 DEF Once, Writing, Moved
      <4>2. Price(d, Live) = 0
        BY <4>1, Settled
      <4>3. Price(c, Live) >= 1
        BY <4>1 DEF Price, Num
      <4> QED BY <2>1, <3>1, <4>2, <4>3
    <3> QED BY <1>2, <1>6, <2>5, <3>2, <3>3
  <2> QED BY <2>4, <2>5
<1> QED BY <1>1, <1>3, <1>9, <1>10, QuietSettles

\* A removed tenant had no service left.
LEMMA FinishAccount ==
  ASSUME TypeOK, Steady, Account, NEW r \in Reconcilers, Careful(recon[r]), Finish(r)
  PROVE  Account'
<1> DEFINE c == recon[r]
           d == recon'[r]
<1>1. /\ faults \in Nat /\ leader \in Reconcilers /\ leader' = leader /\ Live' = Live
      /\ c.pc = "finish" /\ Rest(r) /\ row \in Rows \cup {Absent}
      /\ c.outcome \in {"mark", "skip", "remove"}
  BY LiveSame DEF Finish, TypeOK, At
<1>2. ~Once(d) /\ Others(r) /\ ~Own(c)
  BY <1>1, MovedRest, RestingSettled DEF Own, Writing
<1>3. CASE row' = row /\ Fault
  BY <1>1, <1>2, <1>3, GivesUp DEF SameTenant, Fault
<1>4. CASE SameTenant /\ faults' = faults
  BY <1>1, <1>2, <1>4, VacantRow, GivesUp
<1>5. CASE c.outcome = "remove" /\ row' = Removed(Tenant(r)) /\ faults' = faults /\ ~SameTenant
  <2>1. row.id = c.snap.id /\ row' = Absent
    BY <1>5 DEF Removed, SameTenant, Tenant
  <2>2. Planning(c) /\ Hand(c) = c.uuid /\ c.uuid \notin Live /\ Twice(c, Live) /\ Once(c)
    BY <1>1, <1>5 DEF Planning, Ending, Hand, Careful, Live, Once, Twice
  <2>3. Vacant(c, row, Live)
    BY <2>1, <2>2 DEF Vacant
  <2>4. Owed(d, row', Live) <= Owed(c, row, Live)
    BY <1>2, <2>3, LeaderOwes
  <2>5. Price(c, Live) = 2 /\ Price(d, Live) = 0
    BY <1>2, <2>2, Settled DEF Price, Num
  <2>6. Owed(recon[leader], row', Live) \in 0 .. 2 /\ Owed(recon[leader], row, Live) \in 0 .. 2
    BY OwedRange
  <2>7. Owed(recon[leader], row', Live) + Price(d, Live)
          <= Owed(recon[leader], row, Live) + Price(c, Live)
    BY <2>5, <2>6
  <2> QED BY <1>1, <1>2, <1>5, <2>4, <2>7, QuietSettles
<1>6. row' = Marked(Tenant(r)) => SameTenant
  <2>1. CASE row \in Rows
    BY <2>1 DEF Marked, SameTenant, Rows
  <2>2. CASE row = Absent
    BY <2>2 DEF Marked, SameTenant, Absent
  <2> QED BY <1>1, <2>1, <2>2
<1>7. row' = row => SameTenant
  BY DEF SameTenant
<1>8. \/ row' = row /\ Fault
      \/ faults' = faults /\ row' = Marked(Tenant(r))
      \/ faults' = faults /\ row' = row
      \/ faults' = faults /\ c.outcome = "remove" /\ row' = Removed(Tenant(r))
  BY <1>1 DEF Finish
<1> QED BY <1>3, <1>4, <1>5, <1>6, <1>7, <1>8

\* A tenant is made, marked deleted or degraded: none of that changes its service.
LEMMA DesireAccount ==
  ASSUME TypeOK, Steady, Numbered, Counted, Account, NEW r \in Reconcilers, Desire(r)
  PROVE  Account'
<1> DEFINE c == recon[r]
           d == recon'[r]
<1>1. /\ faults \in Nat /\ faults' = faults /\ leader \in Reconcilers /\ leader' = leader
      /\ Live' = Live /\ c.pc = "desire" /\ row \in Rows \cup {Absent}
  BY LiveSame DEF Desire, TypeOK, At
<1>2. Moved(c, d, "askList") /\ Others(r)
  BY <1>1, MovedTo DEF Desire
<1>3. ~Once(d) /\ ~Own(c)
  BY <1>1, <1>2 DEF Moved, Once, Own, Writing, Planning, Planned, Ending
<1>4. CASE SameTenant
  BY <1>1, <1>2, <1>3, <1>4, VacantRow, GivesUp
<1>5. CASE row = Absent /\ row'.resource = None
  <2>1. row.resource \notin Live /\ row'.resource \notin Live
    BY <1>5, NoneNotLive DEF Absent
  <2>2. Owed(d, row', Live) <= Owed(c, row, Live)
    BY <1>3, <2>1, VacantRow, LeaderOwes
  <2>3. recon[leader].snap.id = row.id => recon[leader].pc \in Early
    BY <1>1, <1>5, AbsentRow DEF Steady, Local
  <2>4. Owed(recon[leader], row', Live) <= Owed(recon[leader], row, Live)
    BY <2>1, <2>3, OwedInserted
  <2>5. /\ Owed(recon[leader], row', Live) \in 0 .. 2 /\ Owed(recon[leader], row, Live) \in 0 .. 2
        /\ Price(c, Live) \in 0 .. 2 /\ Price(d, Live) = 0
    BY <1>3, OwedRange, OwedPrice, Settled
  <2>6. Owed(recon[leader], row', Live) + Price(d, Live)
          <= Owed(recon[leader], row, Live) + Price(c, Live)
    BY <2>4, <2>5
  <2> QED BY <1>1, <1>2, <2>2, <2>6, QuietSettles
<1>6. SameTenant \/ (row = Absent /\ row'.resource = None)
  <2>1. CASE row = Absent
    <3>1. row' = Reconciled \/ row.desired = "enabled"
      BY DEF Desire
    <3>2. row' = Reconciled
      BY <2>1, <3>1, AbsentRow
    <3>3. row' = Absent \/ row' = Inserted("provisioning", None, FALSE)
      BY <2>1, <3>2 DEF Reconciled
    <3> QED BY <2>1, <3>3 DEF Inserted, SameTenant
  <2>2. CASE row # Absent
    <3>1. row \in Rows
      BY <1>1, <2>2
    <3>2. \/ row' = row \/ row' = [row EXCEPT !.desired = "deleted"]
          \/ row' = [row EXCEPT !.runtime = "degraded"]
      BY <2>2 DEF Desire, Reconciled
    <3> QED BY <3>1, <3>2 DEF Rows, SameTenant
  <2> QED BY <2>1, <2>2
<1> QED BY <1>4, <1>5, <1>6
-----------------------------------------------------------------------------
(* Steps that make and delete services, and a change of leader               *)

\* More live services leave less to do for the others.
LEMMA TwiceAntitone ==
  ASSUME NEW c, NEW live, NEW more, live \subseteq more, Twice(c, more)
  PROVE  Twice(c, live)
BY DEF Twice

\* A service that another reconciler knows of is none that q has made and not recorded.
LEMMA TwicePrivate ==
  ASSUME NEW q \in Reconcilers, Private(q), NEW p \in Reconcilers \ {q}, NEW live, NEW less,
         live \ {recon[p].uuid} \subseteq less, Twice(recon[q], less)
  PROVE  Twice(recon[q], live)
BY DEF Twice, Private

\* A service is given up when its deletion is queued.
LEMMA DeleteServiceAccount ==
  ASSUME TypeOK, Steady, Secluded, Account, NEW r \in Reconcilers, DeleteService(r)
  PROVE  Account'
<1> DEFINE c == recon[r]
           d == recon'[r]
<1>1. /\ faults \in Nat /\ leader \in Reconcilers /\ leader' = leader /\ SameTenant
      /\ row' = row /\ coolify' = coolify /\ c.pc = "queue"
  BY DEF DeleteService, TypeOK, SameTenant, rows, At
<1>2. Careful(c) /\ c.outcome # "remove"
  BY <1>1 DEF Secluded, Careful, Ending
<1>3. Planning(c) /\ Hand(c) = c.uuid /\ c.pc \notin Writing /\ Once(c) /\ Twice(c, Live) /\ ~Own(c)
  BY <1>1 DEF Planning, Planned, Hand, Writing, Once, Twice, Own
<1>4. CASE Done(r, "remove") /\ dying' = dying /\ faults' = faults
  <2>1. d.pc = "askRecord" /\ d.snap = c.snap /\ d.uuid = c.uuid /\ Others(r)
    BY <1>1, <1>4, MovedDone
  <2>2. Hand(d) = d.uuid /\ d.pc \notin Writing
    BY <2>1 DEF Hand, Writing
  <2>3. Live' = Live
    BY <1>1, <1>4, LiveSame DEF cloud
  <2> QED BY <1>1, <1>3, <1>4, <2>1, <2>2, <2>3, PlanSettles
<1>5. CASE Proceed(r, "condemn") /\ dying' = dying \cup {c.uuid}
  <2>1. ~Once(d) /\ Others(r)
    <3>1. CASE To(r, "condemn")
      BY <1>1, <1>2, <3>1, MovedTo DEF Moved, Once, Writing, Planning, Planned
    <3>2. CASE Done(r, "mark")
      BY <1>1, <3>2, MovedDone, DoneSettled
    <3> QED BY <1>5, <3>1, <3>2 DEF Proceed
  <2>2. faults' \in Nat /\ faults' >= faults /\ (faults' = faults \/ faults' = faults + 1)
    BY <1>1, <1>5 DEF Proceed, Fault
  <2>3. Live' = Live \ {c.uuid}
    BY <1>1, <1>5 DEF Live, Existing, Exists
  <2>4. CASE c.uuid \notin Live
    <3>1. Live' = Live
      BY <2>3, <2>4
    <3> QED BY <1>1, <1>3, <2>1, <2>2, <3>1, VacantRow, GivesUp
  <2>5. CASE c.uuid \in Live
    <3>1. Cardinality(Live') = Cardinality(Live) - 1 /\ Cardinality(Live) \in Nat
      BY <2>3, <2>5, LiveSubset, LiveCount, FS_RemoveElement
    <3>2. \A q \in Reconcilers \ {r} : Twice(recon[q], Live') => Twice(recon[q], Live)
      BY <2>3, TwicePrivate DEF Secluded
    <3>3. /\ Owed(d, row', Live') <= 1 /\ Owed(d, row', Live') \in 0 .. 2
          /\ Price(d, Live') = 0
      BY <2>1, Settled, OwedRange DEF Num
    <3>4. /\ Owed(c, row, Live) \in 0 .. 2
          /\ Owed(recon[leader], row', Live') \in 0 .. 2 /\ Owed(recon[leader], row, Live) \in 0 .. 2
      BY OwedRange
    <3>5. Price(c, Live) = 2
      BY <1>3 DEF Price, Num
    <3>6. CASE r = leader
      <4>1. Cardinality(Live') + Owed(d, row', Live') + 2 * faults
              <= Cardinality(Live) + Owed(c, row, Live) + 2 * faults'
        BY <1>1, <2>2, <3>1, <3>3, <3>4
      <4> QED BY <1>1, <2>1, <2>2, <3>2, <3>6, <4>1, LeaderSettles
    <3>7. CASE r # leader
      <4>1. Cardinality(Live') + Owed(recon[leader], row', Live') + Price(d, Live') + 2 * faults
              <= Cardinality(Live) + Owed(recon[leader], row, Live) + Price(c, Live) + 2 * faults'
        BY <1>1, <2>2, <3>1, <3>3, <3>4, <3>5
      <4> QED BY <1>1, <2>1, <2>2, <3>2, <3>7, <4>1, StaleSettles
    <3> QED BY <3>6, <3>7
  <2> QED BY <2>4, <2>5
<1> QED BY <1>4, <1>5 DEF DeleteService

\* A new service is one that nobody knows.
LEMMA NewService ==
  ASSUME TypeOK, Secluded, NEW u \in Uuids, ~Exists(u),
         coolify' = [coolify EXCEPT ![u] = "running"], dying' = dying
  PROVE  /\ Existing' = Existing \cup {u} /\ Live' = Live \cup {u} /\ u \notin Live
         /\ Cardinality(Live') = Cardinality(Live) + 1 /\ Cardinality(Live) \in Nat
<1>1. coolify' = [v \in Uuids |-> IF v = u THEN "running" ELSE coolify[v]]
  BY DEF TypeOK
<1>2. \A v \in Uuids : Exists(v)' <=> Exists(v) \/ v = u
  BY <1>1 DEF Exists
<1>3. Existing' = Existing \cup {u} /\ u \notin Existing
  BY <1>2 DEF Existing
<1>4. u \notin dying
  BY <1>3 DEF Secluded
<1>5. Live' = Live \cup {u} /\ u \notin Live
  BY <1>3, <1>4 DEF Live
<1> QED BY <1>3, <1>5, LiveSubset, LiveCount, FS_AddElement

\* The leader makes a service that it owed, a stale reconciler one that its price pays
\* for.
LEMMA CreateServiceAccount ==
  ASSUME TypeOK, Steady, Secluded, Account, NEW r \in Reconcilers, CreateService(r)
  PROVE  Account'
<1> DEFINE c == recon[r]
           d == recon'[r]
<1>1. /\ faults \in Nat /\ leader \in Reconcilers /\ leader' = leader
      /\ row' = row /\ dying' = dying /\ c.pc = "create"
  BY DEF CreateService, TypeOK, rows, At
<1>2. c.outcome # "remove" /\ c.uuid \notin Live
  BY <1>1 DEF Secluded, Careful, Ending, Live
<1>3. Planning(c) /\ Hand(c) = c.uuid /\ Once(c) /\ Twice(c, Live)
  BY <1>1 DEF Planning, Planned, Hand, Once, Twice
<1>4. Price(c, Live) = 2
  BY <1>3 DEF Price, Num
<1>5. CASE To(r, "uncreate") /\ Fault
  <2>1. Moved(c, d, "uncreate") /\ Others(r) /\ faults' = faults + 1
    BY <1>1, <1>5, MovedTo DEF Fault
  <2>2. ~Planning(d)
    BY <1>2, <2>1 DEF Moved, Planning, Planned
  <2>3. CASE coolify' = coolify
    <3>1. Price(d, Live) \in 0 .. 2 /\ Live' = Live
      BY <1>1, <2>3, OwedPrice, LiveSame DEF cloud
    <3> QED BY <1>1, <1>4, <2>1, <3>1, FaultSettles
  <2>4. ASSUME NEW u \in Uuids, ~Exists(u), coolify' = [coolify EXCEPT ![u] = "running"]
        PROVE  Account'
    <3>1. /\ Live' = Live \cup {u}
          /\ Cardinality(Live') = Cardinality(Live) + 1 /\ Cardinality(Live) \in Nat
      BY <1>1, <2>4, NewService
    <3>2. \A q \in Reconcilers \ {r} : Twice(recon[q], Live') => Twice(recon[q], Live)
      BY <3>1, TwiceAntitone
    <3>3. Owed(d, row', Live') <= 1 /\ Owed(d, row', Live') \in 0 .. 2
      BY <2>2, OwedRange DEF Num
    <3>4. ~Twice(d, Live')
      BY <2>1, <2>2 DEF Moved, Twice
    <3>5. Price(d, Live') \in 0 .. 1
      BY <3>4 DEF Price, Num
    <3>6. /\ Owed(c, row, Live) \in 0 .. 2 /\ Owed(recon[leader], row', Live') \in 0 .. 2
          /\ Owed(recon[leader], row, Live) \in 0 .. 2
          /\ Owed(recon[leader], row', Live') <= Owed(recon[leader], row, Live)
      BY <1>1, <3>1, OwedRange, OwedAntitone
    <3>7. CASE r = leader
      <4>1. Cardinality(Live') + Owed(d, row', Live') + 2 * faults
              <= Cardinality(Live) + Owed(c, row, Live) + 2 * faults'
        BY <1>1, <2>1, <3>1, <3>3, <3>6
      <4> QED BY <1>1, <2>1, <3>2, <3>7, <4>1, LeaderSettles
    <3>8. CASE r # leader
      <4>1. Cardinality(Live') + Owed(recon[leader], row', Live') + Price(d, Live') + 2 * faults
              <= Cardinality(Live) + Owed(recon[leader], row, Live) + Price(c, Live) + 2 * faults'
        BY <1>1, <1>4, <2>1, <3>1, <3>5, <3>6
      <4> QED BY <1>1, <2>1, <3>2, <3>8, <4>1, StaleSettles
    <3> QED BY <3>7, <3>8
  <2> QED BY <2>3, <2>4, <1>1, <1>5 DEF CreateService
<1>6. ASSUME NEW u \in Uuids \ Known, ~Exists(u), coolify' = [coolify EXCEPT ![u] = "running"],
             recon' = [recon EXCEPT ![r].pc = "configure", ![r].uuid = u], faults' = faults
      PROVE  Account'
  <2>1. d.pc = "configure" /\ d.uuid = u /\ d.snap = c.snap /\ Others(r)
    BY <1>1, <1>6 DEF Others, Steady, Cycles
  <2>2. /\ Live' = Live \cup {u}
        /\ Cardinality(Live') = Cardinality(Live) + 1 /\ Cardinality(Live) \in Nat
    BY <1>1, <1>6, NewService
  <2>3. u # c.snap.resource
    BY <1>6 DEF Known, Tenant
  <2>4. Own(d) /\ ~Planning(d) /\ ~Twice(d, Live')
    BY <2>1, <2>2, <2>3 DEF Own, Writing, Planning, Planned, Ending, Twice
  <2>5. \A q \in Reconcilers \ {r} : Twice(recon[q], Live') => Twice(recon[q], Live)
    BY <2>2, TwiceAntitone
  <2>6. Owed(d, row', Live') + 1 <= Owed(c, row, Live)
    <3>1. ~Redo(d, row', Live')
      BY <2>4 DEF Redo
    <3>2. CASE c.snap.id = row.id
      <4>1. Vacant(c, row, Live) /\ ~Vacant(d, row', Live')
        BY <1>1, <1>2, <1>3, <2>1, <2>2, <2>4, <3>2 DEF Vacant
      <4>2. Num(Redo(c, row, Live)) \in {0, 1}
        BY DEF Num
      <4> QED BY <3>1, <4>1, <4>2 DEF Owed, Num
    <3>3. CASE c.snap.id # row.id
      <4>1. Redo(c, row, Live)
        BY <1>2, <1>3, <3>3 DEF Redo
      <4>2. Vacant(d, row', Live') => Vacant(c, row, Live)
        BY <1>1, <2>1, <2>2, <3>3 DEF Vacant
      <4> QED BY <3>1, <4>1, <4>2 DEF Owed, Num
    <3> QED BY <3>2, <3>3
  <2>7. Price(d, Live') \in 0 .. 1
    BY <2>4 DEF Price, Num
  <2>8. /\ Owed(c, row, Live) \in 0 .. 2 /\ Owed(recon[leader], row', Live') \in 0 .. 2
        /\ Owed(d, row', Live') \in 0 .. 2 /\ Owed(recon[leader], row, Live) \in 0 .. 2
        /\ Owed(recon[leader], row', Live') <= Owed(recon[leader], row, Live)
    BY <1>1, <2>2, OwedRange, OwedAntitone
  <2>9. CASE r = leader
    <3>1. Cardinality(Live') + Owed(d, row', Live') + 2 * faults
            <= Cardinality(Live) + Owed(c, row, Live) + 2 * faults'
      BY <1>1, <1>6, <2>2, <2>6, <2>8
    <3> QED BY <1>1, <1>6, <2>1, <2>5, <2>9, <3>1, LeaderSettles
  <2>10. CASE r # leader
    <3>1. Cardinality(Live') + Owed(recon[leader], row', Live') + Price(d, Live') + 2 * faults
            <= Cardinality(Live) + Owed(recon[leader], row, Live) + Price(c, Live) + 2 * faults'
      BY <1>1, <1>4, <1>6, <2>2, <2>7, <2>8
    <3> QED BY <1>1, <1>6, <2>1, <2>5, <2>10, <3>1, StaleSettles
  <2> QED BY <2>9, <2>10
<1> QED BY <1>1, <1>5, <1>6 DEF CreateService

\* Coolify works off a deletion: the service was given up before.
LEMMA CoolifyDeletesAccount ==
  ASSUME TypeOK, Account, NEW u \in Uuids, CoolifyDeletes(u)
  PROVE  Account'
<1>1. \A v \in Uuids : Exists(v)' <=> Exists(v) /\ v # u
  BY DEF CoolifyDeletes, TypeOK, Exists
<1>2. Existing' = Existing \ {u}
  BY <1>1 DEF Existing
<1>3. Live' = Live
  BY <1>2 DEF CoolifyDeletes, Live
<1>4. UNCHANGED <<row, leader, recon, faults>>
  BY DEF CoolifyDeletes, rows
<1> QED BY <1>3, <1>4 DEF Account, Sum, Stale1, Stale2

\* A deletion that is forgotten leaves one more service, and it is a failure.
LEMMA CoolifyForgetsAccount ==
  ASSUME TypeOK, Account, NEW u \in Uuids, CoolifyForgets(u)
  PROVE  Account'
<1>1. /\ UNCHANGED <<row, leader, recon, coolify>> /\ faults' = faults + 1 /\ dying' = dying \ {u}
      /\ faults \in Nat /\ leader \in Reconcilers
  BY DEF CoolifyForgets, rows, Fault, TypeOK
<1>2. Existing' = Existing
  BY <1>1 DEF Existing, Exists
<1>3. Live \subseteq Live' /\ Live' \ {u} \subseteq Live
  BY <1>1, <1>2 DEF Live
<1>4. IsFiniteSet(Live) /\ Cardinality(Live) \in Nat
  BY LiveSubset, LiveCount
<1>5. Cardinality(Live') \in Nat /\ Cardinality(Live') <= Cardinality(Live) + 1
  <2>1. /\ Cardinality(Live') \in Nat
        /\ Cardinality(Live') <= Cardinality(Live) + Num(u \in Live') - Num(u \in Live)
    BY <1>3, <1>4, CountAtMost
  <2>2. Num(u \in Live') \in {0, 1} /\ Num(u \in Live) \in {0, 1}
    BY DEF Num
  <2> QED BY <1>4, <2>1, <2>2
<1>6. /\ Owed(recon[leader], row, Live') \in 0 .. 2 /\ Owed(recon[leader], row, Live) \in 0 .. 2
      /\ Owed(recon[leader], row, Live') <= Owed(recon[leader], row, Live)
  BY <1>3, OwedRange, OwedAntitone
<1>7. \A q \in Reconcilers \ {leader} : Twice(recon[q], Live') => Twice(recon[q], Live)
  BY <1>3, TwiceAntitone
<1>8. Cardinality(Live') + Owed(recon'[leader], row', Live') + 2 * faults
        <= Cardinality(Live) + Owed(recon[leader], row, Live) + 2 * faults'
  BY <1>1, <1>4, <1>5, <1>6
<1>9. Others(leader)
  BY <1>1 DEF Others
<1> QED BY <1>1, <1>7, <1>8, <1>9, LeaderSettles

\* A service that is lost may be made anew, by the leader and by the one that made it.
LEMMA CoolifyLosesAccount ==
  ASSUME TypeOK, Secluded, Account, NEW u \in Uuids, CoolifyLoses(u)
  PROVE  Account'
<1>1. /\ UNCHANGED <<row, leader, recon>> /\ faults' = faults + 1 /\ dying' = dying \ {u}
      /\ faults \in Nat /\ leader \in Reconcilers
      /\ coolify' = [coolify EXCEPT ![u] = "absent"]
  BY DEF CoolifyLoses, rows, Fault, TypeOK
<1>2. \A v \in Uuids : Exists(v)' <=> Exists(v) /\ v # u
  BY <1>1 DEF TypeOK, Exists
<1>3. Existing' = Existing \ {u}
  BY <1>2 DEF Existing
<1>4. Live' = Live \ {u}
  BY <1>1, <1>3 DEF Live
<1>5. CASE u \notin Live
  <2>1. Live' = Live
    BY <1>4, <1>5
  <2>2. Sum' = Sum /\ Stale1' = Stale1 /\ Stale2' = Stale2
    BY <1>1, <2>1 DEF Sum, Stale1, Stale2
  <2>3. Sum <= 2 * faults + 1 /\ IsFiniteSet(Stale1) /\ IsFiniteSet(Stale2)
    BY DEF Account
  <2>4. Sum \in Nat
    <3>1. Cardinality(Live) \in Nat /\ Cardinality(Stale1) \in Nat /\ Cardinality(Stale2) \in Nat
      BY <2>3, LiveSubset, LiveCount, FS_CardinalityType
    <3>2. Owed(recon[leader], row, Live) \in 0 .. 2
      BY OwedRange
    <3> QED BY <3>1, <3>2 DEF Sum
  <2>5. Sum' <= 2 * faults' + 1
    BY <1>1, <2>2, <2>3, <2>4
  <2> QED BY <2>2, <2>3, <2>5 DEF Account
<1>6. CASE u \in Live
  <2>1. Cardinality(Live') = Cardinality(Live) - 1 /\ Cardinality(Live) \in Nat
    BY <1>4, <1>6, LiveSubset, LiveCount, FS_RemoveElement
  <2>2. Stale1' = Stale1 /\ IsFiniteSet(Stale1) /\ IsFiniteSet(Stale2)
    BY <1>1 DEF Stale1, Account
  <2>3. \E p \in Reconcilers : Stale2' \ {p} \subseteq Stale2
    <3> DEFINE Made(q) == /\ recon[q].pc \in {"configure", "provision"} /\ Own(recon[q])
                          /\ recon[q].uuid = u
    <3>1. PICK p \in Reconcilers : (\E q \in Reconcilers : Made(q)) => Made(p)
      BY TenantConstants
    <3>2. \A q \in Reconcilers \ {p} : ~Made(q)
      BY <3>1 DEF Secluded, Private
    <3>3. ASSUME NEW q \in Reconcilers \ {p}, Twice(recon[q], Live')
          PROVE  Twice(recon[q], Live)
      BY <1>4, <3>2, <3>3 DEF Twice
    <3>4. Stale2' \ {p} \subseteq Stale2
      BY <1>1, <3>3 DEF Stale2
    <3> QED BY <3>4
  <2>4. PICK p \in Reconcilers : Stale2' \ {p} \subseteq Stale2
    BY <2>3
  <2>5. /\ IsFiniteSet(Stale2') /\ Cardinality(Stale2) \in Nat /\ Cardinality(Stale2') \in Nat
        /\ Cardinality(Stale2') <= Cardinality(Stale2) + 1
    <3>1. /\ IsFiniteSet(Stale2') /\ Cardinality(Stale2) \in Nat /\ Cardinality(Stale2') \in Nat
          /\ Cardinality(Stale2') <= Cardinality(Stale2) + Num(p \in Stale2') - Num(p \in Stale2)
      BY <2>2, <2>4, CountAtMost
    <3>2. Num(p \in Stale2') \in {0, 1} /\ Num(p \in Stale2) \in {0, 1}
      BY DEF Num
    <3> QED BY <3>1, <3>2
  <2>6. /\ Owed(recon[leader], row, Live') \in 0 .. 2 /\ Owed(recon[leader], row, Live) \in 0 .. 2
        /\ Cardinality(Stale1) \in Nat /\ Cardinality(Stale1') = Cardinality(Stale1)
    BY <2>2, OwedRange, FS_CardinalityType
  <2>7. /\ Sum = Cardinality(Live) + Owed(recon[leader], row, Live)
                   + Cardinality(Stale1) + Cardinality(Stale2)
        /\ Sum' = Cardinality(Live') + Owed(recon[leader], row, Live')
                   + Cardinality(Stale1') + Cardinality(Stale2')
    BY <1>1 DEF Sum
  <2>8. Sum <= 2 * faults + 1
    BY DEF Account
  <2>9. Sum' <= 2 * faults' + 1
    BY <1>1, <2>1, <2>5, <2>6, <2>7, <2>8
  <2> QED BY <2>2, <2>5, <2>9 DEF Account
<1> QED BY <1>5, <1>6

\* Another leader: the old one is stale now, and what the new one could do was counted.
LEMMA TakeOverAccount ==
  ASSUME TypeOK, Account, NEW r \in Reconcilers, TakeOver(r)
  PROVE  Account'
<1> DEFINE l == leader
           b == row.resource \notin Live
<1>1. /\ UNCHANGED <<row, recon, coolify, dying>> /\ faults' = faults + 1 /\ leader' = r /\ r # l
      /\ faults \in Nat /\ l \in Reconcilers
  BY DEF TakeOver, rows, cloud, Fault, TypeOK
<1>2. Live' = Live
  BY <1>1, LiveSame DEF cloud
<1>3. IsFiniteSet(Stale1) /\ IsFiniteSet(Stale2) /\ Sum <= 2 * faults + 1
  BY DEF Account
<1>4. /\ l \notin Stale1 /\ l \notin Stale2
      /\ r \in Stale1 <=> Once(recon[r])
      /\ r \in Stale2 <=> Twice(recon[r], Live)
  BY <1>1 DEF Stale1, Stale2
<1>5. /\ r \notin Stale1' /\ r \notin Stale2'
      /\ l \in Stale1' <=> Once(recon[l])
      /\ l \in Stale2' <=> Twice(recon[l], Live)
  BY <1>1, <1>2 DEF Stale1, Stale2
<1>6. Stale1' \ {l} = Stale1 \ {r} /\ Stale2' \ {l} = Stale2 \ {r}
  <2>1. ASSUME NEW q \in Reconcilers \ {l, r}
        PROVE  /\ q \in Stale1' <=> q \in Stale1
               /\ q \in Stale2' <=> q \in Stale2
    BY <1>1, <1>2 DEF Stale1, Stale2
  <2>2. Stale1 \subseteq Reconcilers /\ Stale2 \subseteq Reconcilers
    BY DEF Stale1, Stale2
  <2>3. Stale1' \subseteq Reconcilers /\ Stale2' \subseteq Reconcilers
    BY DEF Stale1, Stale2
  <2> QED BY <1>4, <1>5, <2>1, <2>2, <2>3
<1>7. ASSUME NEW S, NEW T, IsFiniteSet(S), T \ {l} = S \ {r}, l \notin S, r \notin T
      PROVE  /\ IsFiniteSet(T) /\ Cardinality(S) \in Nat /\ Cardinality(T) \in Nat
             /\ Cardinality(T) = Cardinality(S) + Num(l \in T) - Num(r \in S)
  <2> DEFINE U == S \ {r}
  <2>1. U \ {r} = S \ {r} /\ r \notin U /\ l \notin U /\ T \ {l} = U \ {l}
    BY <1>7
  <2> HIDE DEF U
  <2>2. /\ IsFiniteSet(U) /\ Cardinality(S) \in Nat /\ Cardinality(U) \in Nat
        /\ Cardinality(U) = Cardinality(S) + Num(r \in U) - Num(r \in S)
    BY <1>7, <2>1, CountAt
  <2>3. /\ IsFiniteSet(T) /\ Cardinality(T) \in Nat
        /\ Cardinality(T) = Cardinality(U) + Num(l \in T) - Num(l \in U)
    BY <2>1, <2>2, CountAt
  <2>4. Num(r \in U) = 0 /\ Num(l \in U) = 0
    BY <2>1 DEF Num
  <2>5. Num(l \in T) \in {0, 1} /\ Num(r \in S) \in {0, 1}
    BY DEF Num
  <2> QED BY <2>2, <2>3, <2>4, <2>5
<1>8. /\ IsFiniteSet(Stale1') /\ Cardinality(Stale1) \in Nat /\ Cardinality(Stale1') \in Nat
      /\ Cardinality(Stale1') = Cardinality(Stale1) + Num(l \in Stale1') - Num(r \in Stale1)
  BY <1>3, <1>4, <1>5, <1>6, <1>7
<1>9. /\ IsFiniteSet(Stale2') /\ Cardinality(Stale2) \in Nat /\ Cardinality(Stale2') \in Nat
      /\ Cardinality(Stale2') = Cardinality(Stale2) + Num(l \in Stale2') - Num(r \in Stale2)
  BY <1>3, <1>4, <1>5, <1>6, <1>7
<1>10. /\ Num(l \in Stale1') + Num(l \in Stale2') = Price(recon[l], Live)
       /\ Num(r \in Stale1) + Num(r \in Stale2) = Price(recon[r], Live)
       /\ Num(l \in Stale1') \in {0, 1} /\ Num(l \in Stale2') \in {0, 1}
       /\ Num(r \in Stale1) \in {0, 1} /\ Num(r \in Stale2) \in {0, 1}
  BY <1>4, <1>5 DEF Price, Num
<1>11. /\ Owed(recon[r], row, Live) <= Num(b) + Price(recon[r], Live)
       /\ Num(b) + Price(recon[l], Live) <= Owed(recon[l], row, Live) + 2
       /\ Num(b) \in {0, 1}
       /\ Price(recon[r], Live) \in 0 .. 2 /\ Price(recon[l], Live) \in 0 .. 2
       /\ Owed(recon[r], row, Live) \in 0 .. 2 /\ Owed(recon[l], row, Live) \in 0 .. 2
  BY OwedPrice, OwedRange DEF Num
<1>12. Cardinality(Live) \in Nat
  BY LiveSubset, LiveCount
<1>13. /\ Sum = Cardinality(Live) + Owed(recon[l], row, Live)
                  + Cardinality(Stale1) + Cardinality(Stale2)
       /\ Sum' = Cardinality(Live) + Owed(recon[r], row, Live)
                  + Cardinality(Stale1') + Cardinality(Stale2')
  BY <1>1, <1>2 DEF Sum
<1>14. Sum' <= 2 * faults' + 1
  <2> HIDE DEF b, l
  <2>1. Cardinality(Stale1') + Cardinality(Stale2') + Price(recon[r], Live)
          = Cardinality(Stale1) + Cardinality(Stale2) + Price(recon[l], Live)
    BY <1>8, <1>9, <1>10
  <2>2. Sum' <= Sum + 2
    BY <1>8, <1>9, <1>11, <1>12, <1>13, <2>1
  <2>3. Sum \in Nat /\ Sum' \in Nat
    BY <1>8, <1>9, <1>11, <1>12, <1>13
  <2> QED BY <1>1, <1>3, <2>2, <2>3
<1> QED BY <1>8, <1>9, <1>14 DEF Account

\* What administrators decide changes no tenant's service, as long as nobody binds one.
LEMMA AdministerAccount ==
  ASSUME URLs = {}, TypeOK, Account, Administer
  PROVE  Account'
<1>1. /\ UNCHANGED <<leader, recon, coolify, dying, faults>> /\ leader \in Reconcilers
      /\ faults \in Nat
  BY DEF Administer, Bind, Suspend, Resume, ChangeGrant, ChangeCatalog, cloud, TypeOK
<1>2. Live' = Live /\ Others(leader)
  BY <1>1, LiveSame DEF cloud, Others
<1>3. SameTenant
  BY DEF Administer, Suspend, Suspendable, Resume, ChangeGrant, ChangeCatalog, TypeOK, Rows,
         Absent, SameTenant
<1> QED BY <1>1, <1>2, <1>3, SmallSettles
-----------------------------------------------------------------------------
(* What reconcilers rely on                                                  *)

\* A step of r neither uses up what others rely on, nor tells anybody of their services.
LEMMA SecludedStep ==
  ASSUME Secluded, NEW r \in Reconcilers, \A q \in Reconcilers \ {r} : recon'[q] = recon[q],
         ~row'.static, dying' \subseteq Existing',
         Existing' \subseteq Existing \cup (Uuids \ Known),
         row'.resource \in {row.resource, recon[r].uuid, None},
         recon'[r].snap.resource \in {recon[r].snap.resource, row.resource, None},
         recon'[r].uuid \in {recon[r].uuid, recon[r].snap.resource, None} \cup (Uuids \ Known),
         Careful(recon[r])', Private(r)'
  PROVE  Secluded'
<1>1. ASSUME NEW q \in Reconcilers \ {r}
      PROVE  Careful(recon[q])'
  <2>1. recon[q].uuid \in Known
    BY DEF Known
  <2>2. Careful(recon[q]) /\ recon'[q] = recon[q]
    BY <1>1 DEF Secluded
  <2> QED BY <2>1, <2>2 DEF Careful
<1>2. ASSUME NEW q \in Reconcilers \ {r}
      PROVE  Private(q)'
  <2> SUFFICES ASSUME recon[q].pc \in {"configure", "provision"}, Own(recon[q])
               PROVE  /\ recon[q].uuid \in Uuids \ {row'.resource}
                      /\ \A p \in Reconcilers \ {q} :
                           recon[q].uuid \notin {recon'[p].uuid, recon'[p].snap.resource}
    BY <1>2 DEF Private
  <2>1. /\ recon[q].uuid \in Uuids \ {row.resource} /\ recon[q].uuid \in Known
        /\ \A p \in Reconcilers \ {q} :
             recon[q].uuid \notin {recon[p].uuid, recon[p].snap.resource}
    BY DEF Secluded, Private, Known
  <2>2. recon[q].uuid # None
    BY <2>1, TenantConstants
  <2>3. recon[q].uuid \notin {recon[r].uuid, recon[r].snap.resource}
    BY <1>2, <2>1
  <2>4. recon[q].uuid \notin {row'.resource, recon'[r].uuid, recon'[r].snap.resource}
    BY <2>1, <2>2, <2>3
  <2>5. ASSUME NEW p \in Reconcilers \ {q}
        PROVE  recon[q].uuid \notin {recon'[p].uuid, recon'[p].snap.resource}
    <3>1. CASE p = r
      BY <2>4, <3>1
    <3>2. CASE p # r
      BY <2>1, <3>2
    <3> QED BY <3>1, <3>2
  <2> QED BY <2>1, <2>4, <2>5
<1>3. \A q \in Reconcilers : Careful(recon[q])' /\ Private(q)'
  BY <1>1, <1>2
<1> QED BY <1>3 DEF Secluded

\* Most steps neither plan a call nor a removal, and have no service of their own.
LEMMA SecludedPlain ==
  ASSUME Secluded, NEW r \in Reconcilers, \A q \in Reconcilers \ {r} : recon'[q] = recon[q],
         ~row'.static, dying' \subseteq Existing',
         Existing' \subseteq Existing \cup (Uuids \ Known),
         row'.resource \in {row.resource, recon[r].uuid, None},
         recon'[r].snap.resource \in {recon[r].snap.resource, row.resource, None},
         recon'[r].uuid \in {recon[r].uuid, recon[r].snap.resource, None} \cup (Uuids \ Known),
         ~recon'[r].snap.static, recon'[r].outcome # "remove",
         recon'[r].pc \notin Planned \cup {"configure", "provision"}
  PROVE  Secluded'
<1>1. Careful(recon[r])'
  BY DEF Careful, Planned
<1>2. Private(r)'
  BY DEF Private
<1> QED BY <1>1, <1>2, SecludedStep

\* Others go on with the service at hand.
LEMMA SecludedOn ==
  ASSUME Secluded, NEW r \in Reconcilers, \A q \in Reconcilers \ {r} : recon'[q] = recon[q],
         row' = row, dying' = dying, Existing' = Existing,
         recon'[r].snap = recon[r].snap,
         recon'[r].uuid \in {recon[r].uuid, recon[r].snap.resource},
         recon'[r].pc \in Planned => recon'[r].uuid = recon[r].snap.resource,
         recon'[r].pc = "create" \/ recon'[r].outcome = "remove" => recon'[r].uuid \notin Existing,
         recon'[r].outcome = "remove" => recon'[r].pc \in Ending,
         \/ recon'[r].pc \notin {"configure", "provision"}
         \/ recon'[r].uuid = recon[r].snap.resource
         \/ recon[r].pc = "configure" /\ recon'[r].uuid = recon[r].uuid
  PROVE  Secluded'
<1>1. ~row.static /\ dying \subseteq Existing /\ Careful(recon[r]) /\ Private(r)
  BY DEF Secluded
<1>2. Careful(recon[r])'
  BY <1>1 DEF Careful
<1>3. Private(r)'
  <2>1. CASE recon'[r].pc \notin {"configure", "provision"} \/ recon'[r].uuid = recon[r].snap.resource
    BY <2>1 DEF Private, Own
  <2>2. CASE recon[r].pc = "configure" /\ recon'[r].uuid = recon[r].uuid
    BY <1>1, <2>2 DEF Private, Own, Writing
  <2> QED BY <2>1, <2>2
<1> QED BY <1>1, <1>2, <1>3, SecludedStep

\* The same for steps that touch no reconciler.
LEMMA SecludedStutter ==
  ASSUME Secluded, UNCHANGED recon, ~row'.static, row'.resource = row.resource,
         Existing' \subseteq Existing, dying' \subseteq Existing'
  PROVE  Secluded'
<1>1. ASSUME NEW r \in Reconcilers
      PROVE  Careful(recon[r])' /\ Private(r)'
  BY DEF Secluded, Careful, Private
<1> QED BY <1>1 DEF Secluded

\* The same, as the steps need it.
LEMMA CarefulKnows ==
  ASSUME Secluded, NEW r \in Reconcilers
  PROVE  /\ Careful(recon[r]) /\ ~row.static /\ ~recon[r].snap.static /\ dying \subseteq Existing
         /\ recon[r].outcome = "remove" => recon[r].pc \in Ending
         /\ recon[r].pc \in Planned => recon[r].uuid = recon[r].snap.resource
BY DEF Secluded, Careful

\* Steps that do not call Coolify.
LEMMA QuietSecluded ==
  ASSUME TypeOK, Steady, Secluded, NEW r \in Reconcilers,
         BeginCycle(r) \/ Desire(r) \/ List(r) \/ Probe(r) \/ Write(r) \/ Fails(r)
           \/ Finish(r) \/ Crash(r)
  PROVE  Secluded'
<1> DEFINE c == recon[r]
           d == recon'[r]
           Plain == /\ Others(r) /\ d.snap.resource \in {c.snap.resource, row.resource, None}
                    /\ d.uuid \in {c.uuid, None} /\ ~d.snap.static /\ d.outcome # "remove"
                    /\ d.pc \notin Planned \cup {"configure", "provision"}
<1>1. /\ Careful(c) /\ ~row.static /\ ~c.snap.static /\ dying \subseteq Existing
      /\ c.outcome = "remove" => c.pc \in Ending
  BY CarefulKnows
<1>2. UNCHANGED <<coolify, dying, leader>>
  BY DEF BeginCycle, Desire, List, Probe, Write, Fails, Finish, Crash, cloud
<1>3. Existing' = Existing
  BY <1>2, LiveSame DEF cloud
<1>4. row \in Rows \cup {Absent}
  BY DEF TypeOK
<1>5. /\ Absent.static = FALSE /\ Absent.resource = None /\ Resting.uuid = None
      /\ Resting.snap = Absent /\ Resting.outcome = "mark" /\ Resting.pc = "idle"
  BY DEF Absent, Resting
<1>6. ~row'.static /\ row'.resource \in {row.resource, c.uuid, None}
  <2>1. CASE row' = row
    BY <1>1, <2>1
  <2>2. CASE Write(r)
    <3>1. c.pc \in {"provision", "started", "observe", "disable", "condemn", "uncreate"}
      BY <2>2 DEF Write
    <3>2. row'.static = row.static
      BY <2>2, WrittenRow
    <3>3. row'.resource \in {row.resource, c.uuid, None}
      BY <2>2, <3>1, WrittenRow
    <3> QED BY <1>1, <3>2, <3>3
  <2>3. CASE row' # row /\ (BeginCycle(r) \/ Desire(r) \/ Finish(r))
    <3>1. \/ row' = Absent \/ row' = Inserted("provisioning", None, FALSE)
          \/ row' = [row EXCEPT !.age = @ + 1] \/ row' = [row EXCEPT !.age = 0]
          \/ row' = [row EXCEPT !.desired = "deleted"] \/ row' = [row EXCEPT !.runtime = "degraded"]
      <4>1. CASE BeginCycle(r)
        BY <2>3, <4>1 DEF BeginCycle
      <4>2. CASE Desire(r)
        BY <2>3, <4>2 DEF Desire, Reconciled
      <4>3. CASE Finish(r)
        <5>1. c.outcome \in {"mark", "skip", "remove"}
          BY DEF Steady, Cycles
        <5> QED BY <2>3, <4>3, <5>1 DEF Finish, Removed, Marked
      <4> QED BY <2>3, <4>1, <4>2, <4>3
    <3>2. CASE row \in Rows
      BY <1>1, <1>5, <3>1, <3>2 DEF Rows, Inserted
    <3>3. CASE row = Absent
      BY <1>1, <1>5, <3>1, <3>3 DEF Absent, Inserted
    <3> QED BY <1>4, <3>2, <3>3
  <2>4. row' = row \/ Write(r) \/ BeginCycle(r) \/ Desire(r) \/ Finish(r)
    BY DEF List, Probe, Fails, Crash, rows
  <2> QED BY <2>1, <2>2, <2>3, <2>4
<1>7. Plain
  <2>1. CASE Rest(r)
    BY <1>2, <1>5, <2>1, MovedRest DEF Planned
  <2>2. CASE Done(r, "mark")
    BY <1>1, <1>2, <2>2, MovedDone DEF Planned
  <2>3. ASSUME NEW pc \in {"desire", "askList", "probe", "askRecord"}, To(r, pc), c.pc \notin Ending
        PROVE  Plain
    BY <1>1, <1>2, <2>3, MovedTo DEF Moved, Planned
  <2>4. CASE Probe(r)
    <3>1. d.pc = "observe" /\ d.snap = c.snap /\ d.uuid = c.uuid /\ d.outcome = c.outcome /\ Others(r)
      BY <1>2, <2>4 DEF Probe, Others, Steady, Cycles
    <3>2. c.pc \notin Ending
      BY <2>4 DEF Probe, At, Ending
    <3> QED BY <1>1, <3>1, <3>2 DEF Planned
  <2>5. CASE List(r) /\ row # Absent
    <3>1. recon' = [recon EXCEPT ![r] = [Resting EXCEPT !.pc = "askApply", !.snap = row]]
      BY <2>5 DEF List
    <3>2. d = [Resting EXCEPT !.pc = "askApply", !.snap = row] /\ Others(r)
      BY <1>2, <3>1 DEF Steady, Others
    <3>3. d.pc = "askApply" /\ d.snap = row /\ d.uuid = None /\ d.outcome = "mark"
      BY <3>2 DEF Resting
    <3> HIDE DEF d
    <3> QED BY <1>1, <3>2, <3>3 DEF Planned
  <2>6. \/ Rest(r) \/ Done(r, "mark") \/ Probe(r) \/ (List(r) /\ row # Absent)
        \/ \E pc \in {"desire", "askList", "probe", "askRecord"} : To(r, pc) /\ c.pc \notin Ending
    BY DEF BeginCycle, Desire, List, Write, Fails, Finish, Crash, At, Ending
  <2> QED BY <2>1, <2>2, <2>3, <2>4, <2>5, <2>6
<1> QED BY <1>1, <1>2, <1>3, <1>6, <1>7, SecludedPlain DEF Others

\* Steps that ask whether the lease is held, plan, and record.
LEMMA PlanSecluded ==
  ASSUME TypeOK, Steady, Secluded, NEW r \in Reconcilers,
         Ask(r) \/ Apply(r) \/ GetService(r) \/ LookUp(r) \/ Record(r)
  PROVE  Secluded'
<1> DEFINE c == recon[r]
           d == recon'[r]
<1>1. /\ Careful(c) /\ ~row.static /\ ~c.snap.static /\ dying \subseteq Existing
      /\ c.outcome = "remove" => c.pc \in Ending
      /\ c.pc \in Planned => c.uuid = c.snap.resource
  BY CarefulKnows
<1>2. UNCHANGED <<row, coolify, dying, leader>>
  BY DEF Ask, Apply, GetService, LookUp, Record, cloud, rows
<1>3. Existing' = Existing /\ None \notin Existing
  BY <1>2, LiveSame, TenantConstants DEF cloud, Existing
<1>4. /\ Resting.uuid = None /\ Resting.snap = Absent /\ Resting.outcome = "mark"
      /\ Resting.pc = "idle" /\ Absent.static = FALSE /\ Absent.resource = None
  BY DEF Absent, Resting
<1>5. CASE Rest(r)
  <2>1. /\ d = Resting /\ Others(r)
    BY <1>2, <1>5, MovedRest
  <2> QED BY <1>1, <1>2, <1>3, <1>4, <2>1, SecludedPlain DEF Planned, Others
<1>6. CASE Ask(r) /\ ~Rest(r)
  <2>1. To(r, After[c.pc]) /\ c.pc \in {"askList", "askApply", "askRecord"}
    BY <1>6 DEF Ask, After
  <2>2. Moved(c, d, After[c.pc]) /\ Others(r)
    BY <1>2, <2>1, MovedTo
  <2>3. /\ d.pc \in {"list", "apply", "record"} /\ (c.pc = "askRecord" => d.pc = "record")
    BY <2>1, <2>2 DEF After, Moved
  <2>4. /\ d.snap = c.snap /\ d.uuid = c.uuid /\ d.outcome = c.outcome
        /\ d.outcome = "remove" => d.pc \in Ending /\ d.uuid \notin Existing
    BY <1>1, <2>1, <2>2, <2>3 DEF Moved, Ending, Careful
  <2> QED BY <1>2, <1>3, <2>2, <2>3, <2>4, SecludedOn DEF Planned, Others
<1>7. CASE Apply(r)
  <2> DEFINE t == c.snap
  <2>1. /\ d.pc = FirstCall(t) /\ d.uuid = t.resource /\ d.snap = t
        /\ d.outcome = IF Gone(t) THEN "remove" ELSE "mark"
        /\ Others(r)
    BY <1>1, <1>2, <1>7 DEF Apply, Steady, Cycles, Others
  <2>2. t \in Rows
    BY <1>7, HasTenant DEF Apply, At, Early, Tenant
  <2>3. /\ d.pc = "create" => d.uuid = None
        /\ d.outcome = "remove" => d.pc = "askRecord" /\ d.uuid = None
        /\ d.pc \notin {"configure", "provision"}
    BY <1>1, <2>1, <2>2, PlainCalls
  <2> HIDE DEF d
  <2> QED BY <1>2, <1>3, <2>1, <2>3, SecludedOn DEF Ending, Others, d
<1>8. CASE GetService(r)
  <2>1. /\ c.pc = "get" /\ Others(r)
        /\ Moved(c, d, "configure") \/ (Moved(c, d, "create") /\ ~Exists(c.uuid))
    BY <1>2, <1>8, MovedTo DEF GetService, At
  <2>2. /\ d.snap = c.snap /\ d.uuid = c.uuid /\ c.uuid = c.snap.resource
        /\ d.outcome # "remove" /\ (d.pc = "create" => d.uuid \notin Existing)
    BY <1>1, <2>1 DEF Moved, Planned, Ending, Existing
  <2> QED BY <1>2, <1>3, <2>1, <2>2, SecludedOn DEF Others
<1>9. CASE LookUp(r)
  <2>1. /\ d.uuid = c.uuid /\ d.snap = c.snap /\ Others(r) /\ c.pc = "lookup"
        /\ \/ d.pc = "askRecord" /\ d.outcome = "remove" /\ ~Exists(c.uuid)
           \/ d.pc = "queue" /\ d.outcome = c.outcome
           \/ d.pc = "condemn" /\ d.outcome = "skip"
    BY <1>2, <1>9 DEF LookUp, Done, To, At, Others, Steady, Cycles, Waiting
  <2>2. /\ c.uuid = c.snap.resource /\ c.outcome # "remove"
        /\ d.outcome = "remove" => d.pc \in Ending /\ d.uuid \notin Existing
    BY <1>1, <2>1 DEF Planned, Ending, Existing
  <2> QED BY <1>2, <1>3, <2>1, <2>2, SecludedOn DEF Others
<1>10. CASE Record(r) /\ To(r, "finish")
  <2>1. Moved(c, d, "finish") /\ Others(r) /\ c.pc = "record"
    BY <1>2, <1>10, MovedTo DEF Record, At
  <2>2. /\ d.snap = c.snap /\ d.uuid = c.uuid /\ d.pc = "finish"
        /\ d.outcome = "remove" => d.pc \in Ending /\ d.uuid \notin Existing
    BY <1>1, <2>1 DEF Moved, Ending, Careful
  <2> QED BY <1>2, <1>3, <2>1, <2>2, SecludedOn DEF Planned, Others
<1> QED BY <1>5, <1>6, <1>7, <1>8, <1>9, <1>10 DEF Record

\* Steps that change a service, or read it before they do.
LEMMA CallSecluded ==
  ASSUME TypeOK, Steady, Secluded, NEW r \in Reconcilers,
         Configure(r) \/ StartService(r) \/ StopService(r) \/ DeleteService(r)
  PROVE  Secluded'
<1> DEFINE c == recon[r]
           d == recon'[r]
<1>1. /\ Careful(c) /\ ~row.static /\ ~c.snap.static /\ dying \subseteq Existing
      /\ c.outcome = "remove" => c.pc \in Ending
      /\ c.pc \in Planned => c.uuid = c.snap.resource
  BY CarefulKnows
<1>2. UNCHANGED <<row, leader>> /\ c.pc \in {"configure", "start", "stop", "queue"}
  BY DEF Configure, StartService, StopService, DeleteService, rows, At
<1>3. Existing' = Existing /\ None \notin Existing
  <2>1. CASE coolify' = coolify
    BY <2>1, TenantConstants DEF Existing, Exists
  <2>2. CASE Exists(c.uuid) /\ \E s \in {"stopped", "running"} :
                                  coolify' = [coolify EXCEPT ![c.uuid] = s]
    BY <2>2, LiveRuns, TenantConstants DEF TypeOK, Existing
  <2> QED BY <2>1, <2>2 DEF Configure, StartService, StopService, DeleteService
<1>4. dying' \subseteq Existing'
  <2>1. CASE DeleteService(r)
    <3>1. c.uuid \in Uuids
      BY <2>1 DEF DeleteService, At, Steady, Local, Teardown
    <3> QED BY <1>1, <1>3, <2>1, <3>1 DEF DeleteService, Existing
  <2>2. CASE dying' = dying
    BY <1>1, <1>3, <2>2
  <2> QED BY <2>1, <2>2 DEF Configure, StartService, StopService
<1>5. c.outcome # "remove"
  BY <1>1, <1>2 DEF Ending
<1>6. ASSUME Moved(c, d, "disable") \/ Moved(c, d, "condemn") \/ Moved(c, d, "started")
               \/ Moved(c, d, "askRecord") \/ (d.pc = "askRecord" /\ d.snap = c.snap
                                                /\ d.uuid = c.uuid /\ d.outcome = "mark"),
             Others(r)
      PROVE  Secluded'
  <2>1. /\ d.snap = c.snap /\ d.uuid = c.uuid /\ d.outcome # "remove"
        /\ d.pc \notin Planned \cup {"configure", "provision"}
    BY <1>5, <1>6 DEF Moved, Planned
  <2> QED BY <1>1, <1>2, <1>3, <1>4, <1>6, <2>1, SecludedPlain DEF Others
<1>7. CASE Done(r, "mark")
  BY <1>2, <1>6, <1>7, MovedDone
<1>8. CASE To(r, "disable") \/ To(r, "condemn") \/ To(r, "started") \/ To(r, "askRecord")
  BY <1>2, <1>6, <1>8, MovedTo
<1>9. CASE Configure(r) /\ To(r, "provision")
  <2>1. Moved(c, d, "provision") /\ Others(r) /\ c.pc = "configure" /\ dying' = dying
    BY <1>2, <1>9, MovedTo DEF Configure, At
  <2>2. /\ d.snap = c.snap /\ d.uuid = c.uuid /\ d.pc = "provision" /\ d.outcome # "remove"
    BY <1>5, <2>1 DEF Moved
  <2> QED BY <1>2, <1>3, <2>1, <2>2, SecludedOn DEF Planned, Others
<1>10. ASSUME StartService(r), NEW pc \in {"get", "create"}, To(r, pc), pc = "create" => c.uuid = None
       PROVE  Secluded'
  <2>1. Moved(c, d, pc) /\ Others(r) /\ c.pc = "start" /\ dying' = dying
    BY <1>2, <1>10, MovedTo DEF StartService, At
  <2>2. c.uuid = c.snap.resource
    BY <1>1, <2>1 DEF Planned
  <2>3. /\ d.snap = c.snap /\ d.uuid = c.uuid /\ d.pc = pc /\ d.outcome # "remove"
    BY <1>5, <2>1 DEF Moved
  <2> QED BY <1>2, <1>3, <1>10, <2>1, <2>2, <2>3, SecludedOn DEF Others
<1>11. CASE DeleteService(r) /\ Done(r, "remove") /\ ~Exists(c.uuid) /\ dying' = dying
  <2>1. /\ d.pc = "askRecord" /\ d.snap = c.snap /\ d.uuid = c.uuid /\ d.outcome = "remove"
        /\ Others(r)
    BY <1>2, <1>11, MovedDone
  <2>2. d.uuid \notin Existing
    BY <1>11, <2>1 DEF Existing
  <2> QED BY <1>2, <1>3, <1>11, <2>1, <2>2, SecludedOn DEF Planned, Ending, Others
<1>12. ASSUME StartService(r)
       PROVE  Secluded'
  <2>1. CASE To(r, Ensure(Tenant(r)))
    <3>1. c.pc = "start"
      BY <1>12 DEF StartService, At
    <3>2. c.uuid = c.snap.resource
      BY <1>1, <3>1 DEF Planned
    <3>3. /\ Ensure(Tenant(r)) \in {"askRecord", "get", "create"}
          /\ Ensure(Tenant(r)) = "create" => c.uuid = None
      BY <3>2 DEF Ensure, Tenant
    <3> QED BY <1>8, <1>10, <1>12, <2>1, <3>3
  <2>2. CASE To(r, "started") \/ Done(r, "mark")
    BY <1>7, <1>8, <2>2
  <2> QED BY <1>12, <2>1, <2>2 DEF StartService, Proceed
<1> QED BY <1>7, <1>8, <1>9, <1>11, <1>12 DEF Configure, StopService, DeleteService, Proceed

\* A new service has an id that nobody remembers.
LEMMA CreateServiceSecluded ==
  ASSUME TypeOK, Steady, Secluded, NEW r \in Reconcilers, CreateService(r)
  PROVE  Secluded'
<1> DEFINE c == recon[r]
           d == recon'[r]
<1>1. /\ Careful(c) /\ ~row.static /\ ~c.snap.static /\ dying \subseteq Existing
      /\ c.outcome = "remove" => c.pc \in Ending
  BY CarefulKnows
<1>2. UNCHANGED <<row, leader, dying>> /\ c.pc = "create"
  BY DEF CreateService, rows, At
<1>3. c.outcome # "remove"
  BY <1>1, <1>2 DEF Ending
<1>4. Existing \subseteq Existing' /\ Existing' \subseteq Existing \cup (Uuids \ Known)
  <2>1. CASE coolify' = coolify
    BY <2>1 DEF Existing, Exists
  <2>2. ASSUME NEW u \in Uuids \ Known, ~Exists(u), coolify' = [coolify EXCEPT ![u] = "running"]
        PROVE  Existing' = Existing \cup {u}
    BY <1>2, <2>2, NewService
  <2> QED BY <2>1, <2>2 DEF CreateService
<1>5. CASE To(r, "uncreate")
  <2>1. Moved(c, d, "uncreate") /\ Others(r)
    BY <1>2, <1>5, MovedTo
  <2>2. /\ d.snap = c.snap /\ d.uuid = c.uuid /\ d.outcome # "remove" /\ d.pc = "uncreate"
    BY <1>3, <2>1 DEF Moved
  <2> QED BY <1>1, <1>2, <1>4, <2>1, <2>2, SecludedPlain DEF Planned, Others
<1>6. ASSUME NEW u \in Uuids \ Known,
             recon' = [recon EXCEPT ![r].pc = "configure", ![r].uuid = u]
      PROVE  Secluded'
  <2>1. /\ d.pc = "configure" /\ d.uuid = u /\ d.snap = c.snap /\ d.outcome = c.outcome
        /\ Others(r)
    BY <1>2, <1>6 DEF Others, Steady, Cycles
  <2>2. Careful(recon[r])'
    BY <1>1, <1>3, <2>1 DEF Careful, Planned
  <2>3. ASSUME NEW q \in Reconcilers \ {r}
        PROVE  u \notin {recon'[q].uuid, recon'[q].snap.resource}
    BY <1>6, <2>1 DEF Known, Others, Tenant
  <2>4. Private(r)'
    BY <1>2, <1>6, <2>1, <2>3 DEF Private, Known
  <2> QED BY <1>1, <1>2, <1>4, <2>1, <2>2, <2>4, SecludedStep DEF Others
<1> QED BY <1>5, <1>6 DEF CreateService

\* Coolify takes services away, and the row and the reconcilers stay as they are.
LEMMA CoolifySecluded ==
  ASSUME TypeOK, Secluded, NEW u \in Uuids,
         CoolifyDeletes(u) \/ CoolifyForgets(u) \/ CoolifyLoses(u)
  PROVE  Secluded'
<1>1. /\ UNCHANGED <<row, recon>> /\ dying' = dying \ {u}
      /\ coolify' = coolify \/ coolify' = [coolify EXCEPT ![u] = "absent"]
  BY DEF CoolifyDeletes, CoolifyForgets, CoolifyLoses, rows
<1>2. ~row.static /\ dying \subseteq Existing
  BY DEF Secluded
<1>3. \A v \in Uuids : /\ Exists(v)' => Exists(v)
                       /\ v # u => (Exists(v)' <=> Exists(v))
  BY <1>1 DEF Exists, TypeOK
<1>4. Existing' \subseteq Existing /\ dying' \subseteq Existing'
  BY <1>1, <1>2, <1>3 DEF Existing
<1> QED BY <1>1, <1>2, <1>4, SecludedStutter

\* So they do, but for what is desired, when administrators decide and the leader changes.
LEMMA OutsideSecluded ==
  ASSUME URLs = {}, TypeOK, Secluded,
         Administer \/ \E r \in Reconcilers : TakeOver(r)
  PROVE  Secluded'
<1>1. UNCHANGED <<recon, coolify, dying>>
  BY DEF Administer, Bind, Suspend, Resume, ChangeGrant, ChangeCatalog, TakeOver, cloud
<1>2. ~row.static /\ dying \subseteq Existing /\ row \in Rows \cup {Absent}
  BY DEF Secluded, TypeOK
<1>3. Existing' = Existing
  BY <1>1 DEF Existing, Exists
<1>4. \/ row' = row
      \/ row' = [row EXCEPT !.desired = "disabled"] \/ row' = [row EXCEPT !.desired = "enabled"]
  BY DEF Administer, Suspend, Resume, ChangeGrant, ChangeCatalog, TakeOver, rows
<1>5. row'.static = row.static /\ row'.resource = row.resource
  <2>1. CASE row \in Rows
    BY <1>4, <2>1 DEF Rows
  <2>2. CASE row = Absent
    BY <1>4, <2>2 DEF Absent
  <2> QED BY <1>2, <2>1, <2>2
<1> QED BY <1>1, <1>2, <1>3, <1>5, SecludedStutter
-----------------------------------------------------------------------------
(* Services leak only by failures                                            *)

\* At first nothing is stale, and either the row has a live service or one is owed.
LEMMA InitLeakInv == Init => LeakInv
<1> SUFFICES ASSUME Init PROVE LeakInv
  OBVIOUS
<1>1. IInv
  BY InitIInv
<1>2. \A r \in Reconcilers : recon[r] = Resting
  BY DEF Init
<1>3. /\ Resting.uuid = None /\ Resting.snap = Absent /\ Resting.outcome = "mark"
      /\ Resting.pc = "idle" /\ Absent.static = FALSE /\ Absent.resource = None
  BY DEF Absent, Resting
<1>4. dying = {} /\ faults = 0 /\ leader \in Reconcilers
  BY DEF Init
<1>5. row = Absent \/ \E u \in Uuids : row = Inherited(u)
  BY DEF Init
<1>6. ~row.static /\ row.resource \in Uuids \cup {None}
  BY <1>3, <1>5 DEF Inherited
<1>7. Secluded
  BY <1>2, <1>3, <1>4, <1>6 DEF Secluded, Careful, Private, Planned
<1>8. Live = {row.resource} \cap Uuids
  <2>1. \A u \in Uuids : coolify[u] = IF u = row.resource THEN "running" ELSE "absent"
    BY DEF Init
  <2> QED BY <1>4, <2>1 DEF Live, Existing, Exists
<1>9. \A r \in Reconcilers : ~Once(recon[r]) /\ ~Twice(recon[r], Live)
  BY <1>2, <1>3, RestingSettled DEF Once, Twice
<1>10. Stale1 = {} /\ Stale2 = {}
  BY <1>9 DEF Stale1, Stale2
<1>11. Owed(recon[leader], row, Live) = Num(row.resource \notin Live)
  BY <1>4, <1>9, Settled
<1>12. Cardinality(Live) + Num(row.resource \notin Live) = 1
  <2>1. CASE row.resource \in Uuids
    <3>1. Live = {row.resource}
      BY <1>8, <2>1
    <3>2. Cardinality(Live) = 1
      BY <3>1, FS_Singleton
    <3>3. Num(row.resource \notin Live) = 0
      BY <3>1 DEF Num
    <3> QED BY <3>2, <3>3
  <2>2. CASE row.resource \notin Uuids
    <3>1. Live = {}
      BY <1>8, <2>2
    <3>2. Cardinality(Live) = 0
      BY <3>1, FS_EmptySet
    <3>3. Num(row.resource \notin Live) = 1
      BY <3>1 DEF Num
    <3> QED BY <3>2, <3>3
  <2> QED BY <2>1, <2>2
<1>13. Sum = 1 /\ IsFiniteSet(Stale1) /\ IsFiniteSet(Stale2)
  BY <1>10, <1>11, <1>12, FS_EmptySet DEF Sum
<1>14. Account
  BY <1>4, <1>13 DEF Account
<1> QED BY <1>1, <1>7, <1>14 DEF LeakInv

\* Every step keeps the account, if nobody can bind the tenant.
LEMMA NextLeakInv ==
  ASSUME URLs = {}, LeakInv, [Next]_vars
  PROVE  LeakInv'
<1>1. IInv /\ TypeOK /\ Steady /\ Numbered /\ Counted /\ Secluded /\ Account
  BY DEF LeakInv, IInv
<1>2. IInv'
  BY <1>1, NextIInv
<1>3. \A r \in Reconcilers : Careful(recon[r])
  BY <1>1 DEF Secluded
<1>4. Secluded' /\ Account'
  <2>1. CASE Administer
    BY <1>1, <2>1, OutsideSecluded, AdministerAccount
  <2>2. ASSUME NEW r \in Reconcilers, Reconcile(r)
        PROVE  Secluded' /\ Account'
    <3>1. Secluded'
      BY <1>1, <2>2, QuietSecluded, PlanSecluded, CallSecluded, CreateServiceSecluded
         DEF Reconcile
    <3>2. Account'
      BY <1>1, <1>3, <2>2, BeginCycleAccount, DesireAccount, AskAccount, ListAccount, ApplyAccount,
         GetServiceAccount, CreateServiceAccount, ConfigureAccount, StartServiceAccount,
         StopServiceAccount, LookUpAccount, DeleteServiceAccount, ProbeAccount, WriteAccount,
         FailsAccount, RecordAccount, FinishAccount
         DEF Reconcile
    <3> QED BY <3>1, <3>2
  <2>3. ASSUME NEW r \in Reconcilers, Crash(r)
        PROVE  Secluded' /\ Account'
    BY <1>1, <2>3, QuietSecluded, FailsAccount
  <2>4. ASSUME NEW r \in Reconcilers, TakeOver(r)
        PROVE  Secluded' /\ Account'
    BY <1>1, <2>4, OutsideSecluded, TakeOverAccount
  <2>5. ASSUME NEW u \in Uuids, CoolifyDeletes(u) \/ CoolifyForgets(u) \/ CoolifyLoses(u)
        PROVE  Secluded' /\ Account'
    BY <1>1, <2>5, CoolifySecluded, CoolifyDeletesAccount, CoolifyForgetsAccount,
       CoolifyLosesAccount
  <2>6. CASE UNCHANGED vars
    <3>1. UNCHANGED <<row, leader, recon, coolify, dying, faults>>
      BY <2>6 DEF vars
    <3>2. Existing' = Existing /\ Live' = Live
      BY <3>1, LiveSame DEF cloud
    <3>3. Secluded'
      BY <1>1, <3>1, <3>2, SecludedStutter DEF Secluded
    <3>4. Account'
      BY <1>1, <3>1, <3>2 DEF Account, Sum, Stale1, Stale2
    <3> QED BY <3>3, <3>4
  <2> QED BY <2>1, <2>2, <2>3, <2>4, <2>5, <2>6 DEF Next
<1> QED BY <1>2, <1>4 DEF LeakInv

\* What is live is either bound to the row, or in the hands of the leader that made it, or
\* counted: an orphan is one more than that.
LEMMA OrphansCounted ==
  ASSUME LeakInv
  PROVE  EveryLeakIsAFault
<1> DEFINE c == recon[leader]
<1>1. Account /\ faults \in Nat /\ leader \in Reconcilers
  BY DEF LeakInv, IInv, TypeOK
<1>2. IsFiniteSet(Live) /\ Cardinality(Live) \in Nat
  BY LiveSubset, LiveCount
<1>3. Orphans \subseteq Live /\ row.resource \notin Orphans /\ c.uuid \notin Orphans
  BY <1>1 DEF Orphans, Live, Existing
<1>4. Cardinality(Live) + Owed(c, row, Live) <= 2 * faults + 1
  <2>1. Cardinality(Stale1) \in Nat /\ Cardinality(Stale2) \in Nat /\ Sum <= 2 * faults + 1
    BY <1>1, FS_CardinalityType DEF Account
  <2>2. Owed(c, row, Live) \in 0 .. 2
    BY OwedRange
  <2> QED BY <1>1, <1>2, <2>1, <2>2 DEF Sum
<1>5. Owed(c, row, Live) \in 0 .. 2
  BY OwedRange
<1>6. CASE Owed(c, row, Live) = 0
  <2>1. ~Vacant(c, row, Live)
    <3>1. Num(Vacant(c, row, Live)) \in {0, 1} /\ Num(Redo(c, row, Live)) \in {0, 1}
      BY DEF Num
    <3> QED BY <1>6, <3>1 DEF Owed, Num
  <2>2. row.resource \in Live \/ c.uuid \in Live
    BY <2>1 DEF Vacant, Own
  <2>3. PICK u \in Live : u \notin Orphans
    BY <1>3, <2>2
  <2>4. IsFiniteSet(Live \ {u}) /\ Cardinality(Live \ {u}) = Cardinality(Live) - 1
    BY <1>2, FS_RemoveElement
  <2>5. Orphans \subseteq Live \ {u}
    BY <1>3, <2>3
  <2>6. Cardinality(Orphans) \in Nat /\ Cardinality(Orphans) <= Cardinality(Live) - 1
    BY <2>4, <2>5, CountFewer
  <2> QED BY <1>1, <1>2, <1>4, <1>6, <2>6 DEF EveryLeakIsAFault
<1>7. CASE Owed(c, row, Live) # 0
  <2>1. Cardinality(Orphans) \in Nat /\ Cardinality(Orphans) <= Cardinality(Live)
    BY <1>2, <1>3, CountFewer
  <2> QED BY <1>1, <1>2, <1>4, <1>5, <1>7, <2>1 DEF EveryLeakIsAFault
<1> QED BY <1>6, <1>7

\* Services leak only by failures, at most two for each, if there are no static upstreams:
\* no interleaving of leaders that lost the lease leaks more.
THEOREM LeaksAreFaults ==
  ASSUME URLs = {}
  PROVE  Spec => []EveryLeakIsAFault
<1>1. Init => LeakInv
  BY InitLeakInv
<1>2. LeakInv /\ [Next]_vars => LeakInv'
  BY NextLeakInv
<1>3. LeakInv => EveryLeakIsAFault
  BY OrphansCounted
<1> QED BY <1>1, <1>2, <1>3, PTL DEF Spec
=============================================================================
