------------------------- MODULE ControlPlaneLease -------------------------
(***************************************************************************)
(* The lease by which one of several control planes becomes the leader, and *)
(* the loops that ask for it (src/internal/controlplane/server.go, store.go, *)
(* src/db/queries/leases.sql).                                             *)
(*                                                                         *)
(* One row in the database names a holder and the time until which it      *)
(* holds.  Three goroutines of a process ask whether it still does, and     *)
(* renew by asking: the renewal loop, the reconcile loop and the readiness  *)
(* handler.  Only the reconcile loop acts on the answer.                   *)
(*                                                                         *)
(* Times are relative to now: Tick counts them down.                       *)
(***************************************************************************)
EXTENDS Integers, FiniteSets

CONSTANTS
  Instances,     \* control-plane processes on the same database
  Nobody,        \* there is no row
  Former,        \* an id whose process has ended: every start draws a new one
  Goroutines,    \* which of them ask: the instance may have no prober
  TTL,           \* controlPlaneLeaseTTL
  MaxStall,      \* BOUND: from reading the clock to the statement that uses it
  MaxFaults      \* BOUND: crashes, shutdowns and failed statements

ASSUME LeaseConstants ==
  /\ {Nobody, Former} \cap Instances = {} /\ Nobody # Former
  /\ Goroutines \subseteq {"renewer", "worker", "probe"}
  /\ TTL \in Nat \ {0} /\ MaxStall \in Nat /\ MaxFaults \in Nat

VARIABLES
  lease,     \* the row: its holder and the time left, not counted below -MaxStall
  inst,      \* the processes
  faults     \* faults so far

vars == <<lease, inst, faults>>
-----------------------------------------------------------------------------
Life  == {"down", "opening", "startup", "up", "closing"}
Segments == {"sync", "desire", "apply", "record"}

\* released, until: the ControlPlaneLock and the end of the last term it got;
\* mutex, age: who is inside Held and how long ago it read the clock;
\* cancelled: the context of Run; seg, phase: where the reconcile loop stands;
\* denied, stale: history, whether Held said no, and the segments of work done
\* for a row that named somebody else since Held said yes.
Records == [life : Life, released : BOOLEAN, until : -MaxStall .. TTL,
            mutex : Goroutines \cup {"none"}, age : 0 .. MaxStall, cancelled : BOOLEAN,
            seg : Segments, phase : {"rest", "seed", "check", "doing"},
            denied : BOOLEAN, stale : 0 .. 2]

Down == [life |-> "down", released |-> TRUE, until |-> 0, mutex |-> "none",
         age |-> 0, cancelled |-> FALSE, seg |-> "sync", phase |-> "rest",
         denied |-> FALSE, stale |-> 0]

TypeOK ==
  /\ lease \in [holder : Instances \cup {Nobody, Former}, left : -MaxStall .. TTL]
  /\ inst \in [Instances -> Records]
  /\ faults \in 0 .. MaxFaults

Init ==
  /\ lease = [holder |-> Nobody, left |-> 0]
  /\ inst = [p \in Instances |-> Down]
  /\ faults = 0
-----------------------------------------------------------------------------
Later(t) == IF t > -MaxStall THEN t - 1 ELSE t

\* A clock that was read and not yet used.
Dated(p) == inst[p].life = "opening" \/ inst[p].mutex # "none"

Tick ==
  /\ \A p \in Instances : Dated(p) => inst[p].age < MaxStall
  /\ lease' = [lease EXCEPT !.left = Later(@)]
  /\ inst' = [p \in Instances |->
                [inst[p] EXCEPT !.until = Later(@),
                                !.age = IF Dated(p) THEN @ + 1 ELSE @]]
  /\ UNCHANGED faults

Fault == faults < MaxFaults /\ faults' = faults + 1
-----------------------------------------------------------------------------
(* The statement AcquireControlPlaneLease with a clock read age ago          *)

\* Mutation: a term may be taken over in its last tick.
GrantableEarly(p) == lease.holder \in {p, Nobody} \/ lease.left <= 1 - inst[p].age

Grantable(p) == lease.holder \in {p, Nobody} \/ lease.left <= - inst[p].age

\* Mutation: the term is counted from a clock that has yet to come.
TermAhead(p) == TTL + inst[p].age

\* The term such a statement writes, and the row with it.
Term(p) == IF TTL - inst[p].age < -MaxStall THEN -MaxStall ELSE TTL - inst[p].age
Written(p) == [holder |-> p, left |-> Term(p)]
-----------------------------------------------------------------------------
(* NewApp: the lease is taken before anything is configured                  *)

Open(p) ==
  /\ inst[p].life = "down"
  /\ inst' = [inst EXCEPT ![p] = [Down EXCEPT !.life = "opening"]]
  /\ UNCHANGED <<lease, faults>>

Acquire(p) ==
  /\ inst[p].life = "opening"
  /\ \/ /\ Grantable(p)
        /\ lease' = Written(p)
        /\ inst' = [inst EXCEPT ![p] =
                      [Down EXCEPT !.life = "startup", !.released = FALSE,
                                   !.until = Term(p), !.phase = "seed"]]
        /\ UNCHANGED faults
     \/ /\ ~Grantable(p)
        /\ inst' = [inst EXCEPT ![p] = Down]
        /\ UNCHANGED <<lease, faults>>
     \/ \* an error, before or after the statement took effect
        /\ Fault
        /\ inst' = [inst EXCEPT ![p] = Down]
        /\ \/ UNCHANGED lease
           \/ Grantable(p) /\ lease' = [Written(p) EXCEPT !.holder = Former]

\* configureDependencies, the seed of the catalog and the first health probe
Seed(p) ==
  /\ inst[p].life = "startup" /\ inst[p].phase = "seed"
  /\ \/ /\ inst' = [inst EXCEPT ![p].phase = "check"]
        /\ UNCHANGED faults
     \/ /\ Fault
        /\ inst' = [inst EXCEPT ![p].life = "up", ![p].phase = "rest",
                                ![p].cancelled = TRUE]
  /\ UNCHANGED lease
-----------------------------------------------------------------------------
(* The reconcile loop: no segment of work without an answer                  *)

\* The loop rests again; the first cycle is the last part of the startup.
Rested(h) == [h EXCEPT !.phase = "rest", !.seg = "sync",
                       !.life = IF @ = "startup" THEN "up" ELSE @]

BeginCycle(p) ==
  /\ inst[p].life = "up" /\ inst[p].phase = "rest"
  /\ inst' = [inst EXCEPT ![p].phase = "check"]
  /\ UNCHANGED <<lease, faults>>

\* requireLeadership and checkBeforeTenant look at the context before they ask.
\* The first question of a cycle is asked without.
GiveUp(p) ==
  /\ inst[p].phase = "check" /\ inst[p].seg # "sync" /\ inst[p].cancelled
  /\ inst' = [inst EXCEPT ![p] = Rested(@)]
  /\ UNCHANGED <<lease, faults>>

Following(seg) ==
  CASE seg = "sync"   -> {"desire"}
    [] seg = "desire" -> {"apply"}
    [] seg = "apply"  -> {"record"}
    [] seg = "record" -> {"apply"}

\* Mutation: Apply and the records of its result share one question.
NextPhaseUnchecked(seg) == IF seg = "apply" THEN "doing" ELSE "check"

NextPhase(seg) == "check"

Stale(p) ==
  IF lease.holder \in {p, Nobody} \/ inst[p].stale = 2
  THEN inst[p].stale ELSE inst[p].stale + 1

\* SyncStore, ReconcileDesiredTenants, Apply for one tenant, or the records of
\* its result.  It may end in an error, with or without an effect; the list of
\* tenants may be empty or at its end.
Work(p) ==
  /\ inst[p].phase = "doing"
  /\ \/ \E next \in Following(inst[p].seg) :
          inst' = [inst EXCEPT ![p].seg = next, ![p].stale = Stale(p),
                               ![p].phase = NextPhase(inst[p].seg)]
     \/ inst' = [inst EXCEPT ![p] = [Rested(@) EXCEPT !.stale = Stale(p)]]
     \/ inst' = [inst EXCEPT ![p] = Rested(@)]
  /\ UNCHANGED <<lease, faults>>
-----------------------------------------------------------------------------
(* ControlPlaneLock.Held                                                     *)

\* Mutation: the renewal loop reports a lost lease and only ends itself.
NotStopped(h) == h

\* The renewal loop takes the process down.
Stopped(h) == [h EXCEPT !.cancelled = TRUE]

\* What each goroutine does with the answer.  With no Authentik there is
\* nothing to synchronise.
Told(h, g, yes) ==
  CASE g = "worker" /\ yes -> {[h EXCEPT !.phase = "doing", !.seg = s] :
                                 s \in IF h.seg = "sync" THEN {"sync", "desire"}
                                       ELSE {h.seg}}
    [] g = "worker" /\ ~yes -> {Rested(h)}
    [] g = "renewer" /\ ~yes -> {Stopped(h)}
    [] OTHER -> {h}

Asks(p, g) ==
  \/ g = "renewer" /\ inst[p].life \in {"startup", "up"}
  \/ g = "probe" /\ inst[p].life = "up"
  \/ g = "worker" /\ inst[p].phase = "check"
                  /\ (inst[p].seg = "sync" \/ ~inst[p].cancelled)

\* Released for good: the answer needs no statement.
Refuse(p, g) ==
  /\ Asks(p, g) /\ inst[p].released /\ inst[p].mutex = "none"
  /\ \E h \in Told([inst[p] EXCEPT !.denied = TRUE], g, FALSE) :
       inst' = [inst EXCEPT ![p] = h]
  /\ UNCHANGED <<lease, faults>>

Ask(p, g) ==
  /\ Asks(p, g) /\ ~inst[p].released /\ inst[p].mutex = "none"
  /\ inst' = [inst EXCEPT ![p].mutex = g, ![p].age = 0]
  /\ UNCHANGED <<lease, faults>>

Unlocked(p) == [inst[p] EXCEPT !.mutex = "none", !.age = 0]

\* Mutation: a failed renewal is not remembered.
DeniedRetrying(p) == [Unlocked(p) EXCEPT !.denied = TRUE]

Denied(p) == [Unlocked(p) EXCEPT !.released = TRUE, !.denied = TRUE]

AnswerYes(p) ==
  /\ inst[p].mutex # "none" /\ Grantable(p)
  /\ inst[p].cancelled => inst[p].mutex = "probe"
  /\ lease' = Written(p)
  /\ \E h \in Told([Unlocked(p) EXCEPT !.until = Term(p), !.stale = 0],
                    inst[p].mutex, TRUE) :
       inst' = [inst EXCEPT ![p] = h]
  /\ UNCHANGED faults

AnswerNo(p) ==
  /\ inst[p].mutex # "none" /\ ~Grantable(p)
  /\ \E h \in Told(Denied(p), inst[p].mutex, FALSE) : inst' = [inst EXCEPT ![p] = h]
  /\ UNCHANGED <<lease, faults>>

\* The statement fails, before or after it took effect: the context of Run is
\* cancelled, the prober hung up, or the database is busy.
AnswerError(p) ==
  /\ inst[p].mutex # "none"
  /\ \/ Fault
     \/ inst[p].cancelled /\ inst[p].mutex # "probe" /\ UNCHANGED faults
  /\ \E h \in Told(Denied(p), inst[p].mutex, FALSE) : inst' = [inst EXCEPT ![p] = h]
  /\ \/ UNCHANGED lease
     \/ Grantable(p) /\ lease' = Written(p)
-----------------------------------------------------------------------------
(* The end of a process                                                      *)

\* A signal, or the listener fails.
Cancel(p) ==
  /\ inst[p].life \in {"startup", "up"} /\ ~inst[p].cancelled
  /\ Fault
  /\ inst' = [inst EXCEPT ![p].cancelled = TRUE]
  /\ UNCHANGED lease

\* Mutation: the DELETE forgets the holder.
FreedByName(p) == [lease EXCEPT !.holder = Nobody]

Freed(p) == IF lease.holder = p THEN [lease EXCEPT !.holder = Nobody] ELSE lease

\* Close, after Run returned; the loops still run.  A lock that is released
\* already does not delete its row.
Close(p) ==
  /\ inst[p].life = "up" /\ inst[p].cancelled /\ inst[p].mutex = "none"
  /\ \/ ~inst[p].released /\ lease' = Freed(p) /\ UNCHANGED faults
     \/ inst[p].released /\ UNCHANGED <<lease, faults>>
     \/ Fault /\ UNCHANGED lease
  /\ inst' = [inst EXCEPT ![p].life = "closing", ![p].released = TRUE]

Ended(p) ==
  /\ inst' = [inst EXCEPT ![p] = Down]
  /\ lease' = IF lease.holder = p THEN [lease EXCEPT !.holder = Former] ELSE lease

Exit(p) == inst[p].life = "closing" /\ Ended(p) /\ UNCHANGED faults

Crash(p) == inst[p].life # "down" /\ Fault /\ Ended(p)
-----------------------------------------------------------------------------
Process(p) ==
  \/ Open(p) \/ Acquire(p) \/ Seed(p)
  \/ BeginCycle(p) \/ GiveUp(p) \/ Work(p)
  \/ \E g \in Goroutines : Refuse(p, g) \/ Ask(p, g)
  \/ AnswerYes(p) \/ AnswerNo(p) \/ AnswerError(p)
  \/ Cancel(p) \/ Close(p) \/ Exit(p) \/ Crash(p)

Next == Tick \/ \E p \in Instances : Process(p)

Spec == Init /\ [][Next]_vars
-----------------------------------------------------------------------------
(* Safety *)

\* The term that Held confirmed last is not over.
Leads(p) == inst[p].life \in {"startup", "up"} /\ ~inst[p].released
            /\ inst[p].until > 0

\* Never do two processes have a confirmed term that is not over, whatever
\* stalls, crashes, failed statements and shutdowns went before.
OneLeader == \A p, q \in Instances : Leads(p) /\ Leads(q) => p = q

\* A process that stalled while another took the lease finishes at most the
\* segment it is in: it asks again before the next one.
AtMostOneStaleSegment == \A p \in Instances : inst[p].stale <= 1

\* As soon as any goroutine of a process was told that the lease is lost, the
\* reconcile loop begins no other segment, even if the lease becomes free.
NoWorkAfterDenial ==
  [][\A p \in Instances :
       inst[p].denied /\ inst'[p].denied /\ inst'[p].phase = "doing"
         => inst[p].phase = "doing" /\ inst'[p].seg = inst[p].seg]_vars
-----------------------------------------------------------------------------
(* Liveness.  Time passes, a supervisor starts what is down, statements end, *)
(* the renewal loop asks, and a cancelled process closes and ends.           *)

Fairness ==
  /\ SF_vars(Tick)    \* Tick waits for MaxStall only
  /\ \A p \in Instances :
       /\ WF_vars(Open(p)) /\ WF_vars(Acquire(p)) /\ WF_vars(Seed(p))
       /\ WF_vars(Refuse(p, "worker") \/ Ask(p, "worker") \/ GiveUp(p))
       /\ WF_vars(Work(p))
       /\ SF_vars(Refuse(p, "renewer") \/ Ask(p, "renewer"))
       /\ WF_vars(AnswerYes(p) \/ AnswerNo(p) \/ AnswerError(p))
       /\ SF_vars(Close(p)) /\ WF_vars(Exit(p))

FairSpec == Spec /\ Fairness

\* The faults are finitely many, so the leadership always returns: neither a
\* row left by a dead process nor a process whose lock is released for good
\* stands in the way for ever.
LeadershipReturns == []<>(\E p \in Instances : Leads(p))
=============================================================================
