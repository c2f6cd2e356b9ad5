---------------------- MODULE ControlPlaneLeaseProofs ----------------------
(***************************************************************************)
(* Proofs about ControlPlaneLease, for any number of processes, any length *)
(* of a term, any stall and any number of faults.                          *)
(***************************************************************************)
EXTENDS ControlPlaneLease, TLAPS

Leases == [holder : Instances \cup {Nobody, Former}, left : -MaxStall .. TTL]

\* What a process that leads knows is what the row says.
Confirmed ==
  \A p \in Instances :
    Leads(p) => lease.holder = p /\ lease.left = inst[p].until

\* A lock that said no is released, and nobody asks through a released lock.
LockCoherent(h) ==
  /\ h.denied => h.released
  /\ h.mutex # "none" => ~h.released

\* Work begins with an answer.
WorkCoherent(h) ==
  /\ h.stale <= 1
  /\ h.phase = "doing" => h.stale = 0

IInv ==
  /\ TypeOK
  /\ Confirmed
  /\ \A p \in Instances : LockCoherent(inst[p]) /\ WorkCoherent(inst[p])

\* A record that counts as leading.
LeadsIn(h) == h.life \in {"startup", "up"} /\ ~h.released /\ h.until > 0

\* The reconcile loop begins a segment between g and h.
Begins(g, h) == h.phase = "doing" /\ ~(g.phase = "doing" /\ h.seg = g.seg)

\* All that the proofs use of a step of p: it turns the record of p into h; it
\* changes the row only if it may take it or holds it; if p leads afterwards it
\* did before under the same row, or has just written it.
StepOf(p, h) ==
  /\ h \in Records
  /\ inst' = [inst EXCEPT ![p] = h]
  /\ faults' \in 0 .. MaxFaults
  /\ lease' \in Leases
  /\ lease' = lease \/ Grantable(p) \/ lease.holder = p
  /\ LeadsIn(h) =>
       \/ LeadsIn(inst[p]) /\ h.until = inst[p].until /\ lease' = lease
       \/ lease' = Written(p) /\ h.until = Term(p)
  /\ LockCoherent(h)
  /\ WorkCoherent(h)
  /\ h.denied => ~Begins(inst[p], h)
-----------------------------------------------------------------------------
LEMMA LeaseTyped == TypeOK <=> /\ lease \in Leases
                               /\ inst \in [Instances -> Records]
                               /\ faults \in 0 .. MaxFaults
  BY DEF TypeOK, Leases

\* A term that is written has the type of the column.
LEMMA TermTyped ==
  ASSUME TypeOK, NEW p \in Instances
  PROVE  Term(p) \in -MaxStall .. TTL /\ Written(p) \in Leases
<1>1. inst[p] \in Records
  BY DEF TypeOK
<1>2. inst[p].age \in 0 .. MaxStall
  BY <1>1 DEF Records
<1>3. Term(p) \in -MaxStall .. TTL
  BY <1>2, LeaseConstants DEF Term
<1> QED
  BY <1>3 DEF Written, Leases

LEMMA FreedTyped ==
  ASSUME lease \in Leases, NEW p \in Instances
  PROVE  /\ Freed(p) \in Leases
         /\ Freed(p) = lease \/ lease.holder = p
  BY DEF Freed, Leases

\* Being told an answer moves the loops and leaves the lock alone.
LEMMA ToldShape ==
  ASSUME NEW x \in Records, NEW g, NEW yes \in BOOLEAN, NEW h \in Told(x, g, yes)
  PROVE  /\ h \in Records
         /\ h.released = x.released /\ h.until = x.until /\ h.mutex = x.mutex
         /\ h.denied = x.denied /\ h.stale = x.stale
         /\ h.life \in {"startup", "up"} => x.life \in {"startup", "up"}
         /\ ~yes => ~Begins(x, h)
<1>1. CASE g = "worker" /\ yes
  <2>1. PICK s \in Segments : h = [x EXCEPT !.phase = "doing", !.seg = s]
    BY <1>1 DEF Told, Segments, Records
  <2> QED
    BY <2>1, <1>1 DEF Records, Begins
<1>2. CASE g = "worker" /\ ~yes
  <2>1. h = Rested(x)
    BY <1>2 DEF Told
  <2> QED
    BY <2>1 DEF Rested, Records, Begins, Life, Segments
<1>3. CASE g = "renewer" /\ ~yes
  <2>1. h = [x EXCEPT !.cancelled = TRUE]
    BY <1>3 DEF Told, Stopped
  <2> QED
    BY <2>1 DEF Records, Begins
<1>4. CASE ~(g = "worker" \/ (g = "renewer" /\ ~yes))
  <2>1. h = x
    BY <1>4 DEF Told
  <2> QED
    BY <2>1 DEF Begins
<1> QED
  BY <1>1, <1>2, <1>3, <1>4
-----------------------------------------------------------------------------
\* Each action of a process is a step in the sense of StepOf.
LEMMA ProcessStep ==
  ASSUME IInv, NEW p \in Instances, Process(p)
  PROVE  \E h : StepOf(p, h)
<1> DEFINE x == inst[p]
<1>0. /\ TypeOK /\ x \in Records /\ lease \in Leases /\ faults \in 0 .. MaxFaults
      /\ inst \in [Instances -> Records]
      /\ LockCoherent(x) /\ WorkCoherent(x)
  BY LeaseTyped DEF IInv
<1>f. Fault => faults' \in 0 .. MaxFaults
  BY <1>0, LeaseConstants DEF Fault
<1>d. /\ Down \in Records /\ ~LeadsIn(Down) /\ LockCoherent(Down) /\ WorkCoherent(Down)
      /\ Down.phase = "rest" /\ ~Down.denied
  BY LeaseConstants DEF Down, Records, Life, Segments, LeadsIn, LockCoherent, WorkCoherent
<1>t. Term(p) \in -MaxStall .. TTL /\ Written(p) \in Leases
  BY <1>0, TermTyped
<1>a. 0 \in 0 .. MaxStall
  BY LeaseConstants
<1>k. /\ Unlocked(p) \in Records
      /\ Unlocked(p).mutex = "none" /\ Unlocked(p).released = x.released
      /\ Unlocked(p).denied = x.denied /\ Unlocked(p).stale = x.stale
      /\ Unlocked(p).phase = x.phase /\ Unlocked(p).seg = x.seg
  BY <1>0, <1>a DEF Unlocked, Records
<1>u. /\ Denied(p) \in Records
      /\ ~LeadsIn(Denied(p))
      /\ LockCoherent(Denied(p)) /\ WorkCoherent(Denied(p))
      /\ Denied(p).released
      /\ Denied(p).phase = x.phase /\ Denied(p).seg = x.seg
  <2> DEFINE y == Unlocked(p)
  <2>1. /\ y \in Records /\ y.mutex = "none" /\ WorkCoherent(y)
        /\ y.phase = x.phase /\ y.seg = x.seg
    BY <1>k, <1>0 DEF WorkCoherent
  <2>2. Denied(p) = [y EXCEPT !.released = TRUE, !.denied = TRUE]
    BY DEF Denied
  <2> HIDE DEF y
  <2> QED
    BY <2>1, <2>2 DEF Records, LeadsIn, LockCoherent, WorkCoherent
<1>1. CASE Open(p)
  <2> DEFINE h == [Down EXCEPT !.life = "opening"]
  <2>1. inst' = [inst EXCEPT ![p] = h] /\ lease' = lease /\ faults' = faults
    BY <1>1 DEF Open
  <2>2. /\ h \in Records /\ ~LeadsIn(h) /\ LockCoherent(h) /\ WorkCoherent(h) /\ ~h.denied
    BY <1>d DEF Down, Records, Life, LeadsIn, LockCoherent, WorkCoherent
  <2> HIDE DEF h
  <2> QED
    BY <2>1, <2>2, <1>0 DEF StepOf
<1>2. CASE Acquire(p)
  <2>1. CASE /\ Grantable(p) /\ lease' = Written(p) /\ UNCHANGED faults
             /\ inst' = [inst EXCEPT ![p] =
                           [Down EXCEPT !.life = "startup", !.released = FALSE,
                                        !.until = Term(p), !.phase = "seed"]]
    <3> DEFINE h == [Down EXCEPT !.life = "startup", !.released = FALSE,
                                 !.until = Term(p), !.phase = "seed"]
    <3>1. /\ h \in Records /\ h.until = Term(p) /\ LockCoherent(h) /\ WorkCoherent(h)
          /\ ~h.denied
      BY <1>d, <1>t DEF Down, Records, Life, LockCoherent, WorkCoherent
    <3>2. inst' = [inst EXCEPT ![p] = h]
      BY <2>1
    <3> HIDE DEF h
    <3> QED
      BY <3>1, <3>2, <2>1, <1>0, <1>t DEF StepOf
  <2>2. CASE inst' = [inst EXCEPT ![p] = Down] /\ UNCHANGED <<lease, faults>>
    BY <2>2, <1>d, <1>0 DEF StepOf, Begins
  <2>3. CASE /\ Fault /\ inst' = [inst EXCEPT ![p] = Down]
             /\ \/ UNCHANGED lease
                \/ Grantable(p) /\ lease' = [Written(p) EXCEPT !.holder = Former]
    <3>1. lease' \in Leases /\ (lease' = lease \/ Grantable(p))
      BY <2>3, <1>0, <1>t DEF Leases
    <3> QED
      BY <3>1, <2>3, <1>d, <1>f DEF StepOf, Begins
  <2> QED
    BY <1>2, <2>1, <2>2, <2>3 DEF Acquire
<1>3. CASE Seed(p)
  <2>1. CASE inst' = [inst EXCEPT ![p].phase = "check"] /\ UNCHANGED <<lease, faults>>
    <3> DEFINE h == [x EXCEPT !.phase = "check"]
    <3>1. inst' = [inst EXCEPT ![p] = h]
      BY <2>1, <1>0
    <3>2. /\ h \in Records /\ LockCoherent(h) /\ WorkCoherent(h) /\ h.phase = "check"
          /\ LeadsIn(h) => LeadsIn(x) /\ h.until = x.until
      BY <1>0 DEF Records, LeadsIn, LockCoherent, WorkCoherent
    <3> HIDE DEF h
    <3> QED
      BY <3>1, <3>2, <2>1, <1>0 DEF StepOf, Begins
  <2>2. CASE /\ Fault /\ UNCHANGED lease /\ inst[p].life = "startup"
             /\ inst' = [inst EXCEPT ![p].life = "up", ![p].phase = "rest",
                                     ![p].cancelled = TRUE]
    <3> DEFINE h == [x EXCEPT !.life = "up", !.phase = "rest", !.cancelled = TRUE]
    <3>1. inst' = [inst EXCEPT ![p] = h]
      BY <2>2, <1>0
    <3>2. /\ h \in Records /\ LockCoherent(h) /\ WorkCoherent(h) /\ h.phase = "rest"
          /\ LeadsIn(h) => LeadsIn(x) /\ h.until = x.until
      BY <2>2, <1>0 DEF Records, Life, LeadsIn, LockCoherent, WorkCoherent
    <3> HIDE DEF h
    <3> QED
      BY <3>1, <3>2, <2>2, <1>0, <1>f DEF StepOf, Begins
  <2> QED
    BY <1>3, <2>1, <2>2 DEF Seed
<1>4. CASE BeginCycle(p)
  <2> DEFINE h == [x EXCEPT !.phase = "check"]
  <2>1. inst' = [inst EXCEPT ![p] = h] /\ lease' = lease /\ faults' = faults
    BY <1>4, <1>0 DEF BeginCycle
  <2>2. /\ h \in Records /\ LockCoherent(h) /\ WorkCoherent(h) /\ h.phase = "check"
        /\ LeadsIn(h) => LeadsIn(x) /\ h.until = x.until
    BY <1>0 DEF Records, LeadsIn, LockCoherent, WorkCoherent
  <2> HIDE DEF h
  <2> QED
    BY <2>1, <2>2, <1>0 DEF StepOf, Begins
<1>r. /\ Rested(x) \in Records /\ LockCoherent(Rested(x)) /\ WorkCoherent(Rested(x))
      /\ Rested(x).phase = "rest"
      /\ LeadsIn(Rested(x)) => LeadsIn(x) /\ Rested(x).until = x.until
  BY <1>0 DEF Rested, Records, Life, Segments, LeadsIn, LockCoherent, WorkCoherent
<1>5. CASE GiveUp(p)
  <2>1. inst' = [inst EXCEPT ![p] = Rested(x)] /\ lease' = lease /\ faults' = faults
    BY <1>5, <1>0 DEF GiveUp
  <2> QED
    BY <2>1, <1>r, <1>0 DEF StepOf, Begins
<1>6. CASE Work(p)
  <2>0. /\ x.phase = "doing" /\ lease' = lease /\ faults' = faults /\ x.stale = 0
    BY <1>6, <1>0 DEF Work, WorkCoherent
  <2>s. Stale(p) \in 0 .. 1
    BY <2>0 DEF Stale
  <2>1. CASE \E next \in Following(inst[p].seg) :
               inst' = [inst EXCEPT ![p].seg = next, ![p].stale = Stale(p),
                                    ![p].phase = NextPhase(inst[p].seg)]
    <3>1. PICK next \in Following(inst[p].seg) :
               inst' = [inst EXCEPT ![p].seg = next, ![p].stale = Stale(p),
                                    ![p].phase = NextPhase(inst[p].seg)]
      BY <2>1
    <3>2. next \in Segments
      <4>1. x.seg \in Segments
        BY <1>0 DEF Records
      <4> QED
        BY <4>1, <3>1 DEF Segments, Following
    <3> DEFINE n == Stale(p)
               h == [x EXCEPT !.seg = next, !.stale = n, !.phase = "check"]
    <3>3. inst' = [inst EXCEPT ![p] = h]
      BY <3>1, <1>0 DEF NextPhase
    <3>n. n \in 0 .. 2 /\ n <= 1
      BY <2>s
    <3> HIDE DEF n
    <3>4. h \in Records /\ WorkCoherent(h) /\ h.phase = "check"
      BY <1>0, <3>2, <3>n DEF Records, WorkCoherent
    <3>5. LockCoherent(h) /\ (LeadsIn(h) => LeadsIn(x) /\ h.until = x.until)
      BY <1>0 DEF Records, LeadsIn, LockCoherent
    <3> HIDE DEF h
    <3> QED
      BY <3>3, <3>4, <3>5, <2>0, <1>0 DEF StepOf, Begins
  <2>2. CASE inst' = [inst EXCEPT ![p] = [Rested(@) EXCEPT !.stale = Stale(p)]]
    <3> DEFINE h == [Rested(x) EXCEPT !.stale = Stale(p)]
    <3>1. inst' = [inst EXCEPT ![p] = h]
      BY <2>2, <1>0
    <3>2. /\ h \in Records /\ LockCoherent(h) /\ WorkCoherent(h) /\ h.phase = "rest"
          /\ LeadsIn(h) => LeadsIn(x) /\ h.until = x.until
      BY <1>r, <2>s DEF Records, LeadsIn, LockCoherent, WorkCoherent
    <3> HIDE DEF h
    <3> QED
      BY <3>1, <3>2, <2>0, <1>0 DEF StepOf, Begins
  <2>3. CASE inst' = [inst EXCEPT ![p] = Rested(@)]
    <3>1. inst' = [inst EXCEPT ![p] = Rested(x)]
      BY <2>3, <1>0
    <3> QED
      BY <3>1, <2>0, <1>r, <1>0 DEF StepOf, Begins
  <2> QED
    BY <1>6, <2>1, <2>2, <2>3 DEF Work
<1>7. ASSUME NEW g \in Goroutines, Refuse(p, g) PROVE \E h : StepOf(p, h)
  <2> DEFINE y == [x EXCEPT !.denied = TRUE]
  <2>0. x.released /\ x.mutex = "none" /\ lease' = lease /\ faults' = faults
    BY <1>7 DEF Refuse
  <2>1. PICK h \in Told(y, g, FALSE) : inst' = [inst EXCEPT ![p] = h]
    BY <1>7 DEF Refuse
  <2>2. y \in Records /\ LockCoherent(y) /\ WorkCoherent(y) /\ y.released
        /\ y.phase = x.phase /\ y.seg = x.seg
    BY <1>0, <2>0 DEF Records, LockCoherent, WorkCoherent
  <2> HIDE DEF y
  <2>3. /\ h \in Records /\ h.released /\ h.mutex = y.mutex
        /\ h.denied = y.denied /\ h.stale = y.stale /\ ~Begins(y, h)
    BY <2>1, <2>2, ToldShape
  <2>4. LockCoherent(h) /\ WorkCoherent(h) /\ ~LeadsIn(h) /\ ~Begins(x, h)
    BY <2>2, <2>3 DEF LockCoherent, WorkCoherent, LeadsIn, Begins
  <2> QED
    BY <2>0, <2>1, <2>3, <2>4, <1>0 DEF StepOf
<1>8. ASSUME NEW g \in Goroutines, Ask(p, g) PROVE \E h : StepOf(p, h)
  <2> DEFINE h == [x EXCEPT !.mutex = g, !.age = 0]
  <2>1. inst' = [inst EXCEPT ![p] = h] /\ lease' = lease /\ faults' = faults
        /\ ~x.released
    BY <1>8, <1>0 DEF Ask
  <2>2. /\ h \in Records /\ LockCoherent(h) /\ WorkCoherent(h)
        /\ h.phase = x.phase /\ h.seg = x.seg
        /\ LeadsIn(h) => LeadsIn(x) /\ h.until = x.until
    BY <1>0, <2>1, <1>a, <1>8 DEF Records, LeadsIn, LockCoherent, WorkCoherent
  <2> HIDE DEF h
  <2> QED
    BY <2>1, <2>2, <1>0 DEF StepOf, Begins
<1>9. CASE AnswerYes(p)
  <2> DEFINE y == [Unlocked(p) EXCEPT !.until = Term(p), !.stale = 0]
  <2>0. x.mutex # "none" /\ Grantable(p) /\ lease' = Written(p) /\ faults' = faults
    BY <1>9 DEF AnswerYes
  <2>1. PICK h \in Told(y, x.mutex, TRUE) : inst' = [inst EXCEPT ![p] = h]
    BY <1>9 DEF AnswerYes
  <2>2. /\ y \in Records /\ y.until = Term(p) /\ y.stale = 0 /\ y.mutex = "none"
        /\ y.released = x.released /\ y.denied = x.denied
    <3> DEFINE z == Unlocked(p)
               t == Term(p)
    <3>1. z \in Records /\ z.mutex = "none" /\ z.released = x.released
          /\ z.denied = x.denied /\ t \in -MaxStall .. TTL
      BY <1>k, <1>t
    <3>2. y = [z EXCEPT !.until = t, !.stale = 0]
      OBVIOUS
    <3> HIDE DEF z, t, y
    <3>3. y \in Records
      <4> DEFINE w == [z EXCEPT !.until = t]
      <4>1. w \in Records
        BY <3>1 DEF Records
      <4>2. y = [w EXCEPT !.stale = 0]
        BY <3>1, <3>2 DEF Records
      <4> HIDE DEF w
      <4> QED
        BY <4>1, <4>2 DEF Records
    <3>4. y.until = t /\ y.stale = 0 /\ y.mutex = z.mutex
      BY <3>1, <3>2 DEF Records
    <3>5. y.released = z.released /\ y.denied = z.denied
      BY <3>1, <3>2 DEF Records
    <3> QED
      BY <3>1, <3>3, <3>4, <3>5 DEF t
  <2> HIDE DEF y
  <2>3. /\ h \in Records /\ h.released = y.released /\ h.mutex = y.mutex
        /\ h.until = y.until /\ h.denied = y.denied /\ h.stale = y.stale
    BY <2>1, <2>2, ToldShape
  <2>4. ~x.released /\ ~x.denied
    BY <2>0, <1>0 DEF LockCoherent, Records
  <2>5. LockCoherent(h) /\ WorkCoherent(h) /\ ~h.denied
    BY <2>2, <2>3, <2>4 DEF LockCoherent, WorkCoherent
  <2> QED
    BY <2>0, <2>1, <2>2, <2>3, <2>5, <1>0, <1>t DEF StepOf
<1>n. ASSUME NEW g, NEW h \in Told(Denied(p), g, FALSE)
      PROVE  /\ h \in Records /\ LockCoherent(h) /\ WorkCoherent(h)
             /\ ~LeadsIn(h) /\ ~Begins(x, h)
  <2>1. /\ h \in Records /\ h.released = Denied(p).released
        /\ h.mutex = Denied(p).mutex /\ h.denied = Denied(p).denied
        /\ h.stale = Denied(p).stale /\ ~Begins(Denied(p), h)
    BY <1>u, <1>n, ToldShape
  <2> QED
    BY <2>1, <1>u DEF LockCoherent, WorkCoherent, LeadsIn, Begins
<1>10. CASE AnswerNo(p)
  <2>1. PICK h \in Told(Denied(p), x.mutex, FALSE) : inst' = [inst EXCEPT ![p] = h]
    BY <1>10 DEF AnswerNo
  <2>2. lease' = lease /\ faults' = faults
    BY <1>10 DEF AnswerNo
  <2> QED
    BY <2>1, <2>2, <1>n, <1>0 DEF StepOf
<1>11. CASE AnswerError(p)
  <2>1. PICK h \in Told(Denied(p), x.mutex, FALSE) : inst' = [inst EXCEPT ![p] = h]
    BY <1>11 DEF AnswerError
  <2>2. faults' \in 0 .. MaxFaults
    BY <1>11, <1>f, <1>0 DEF AnswerError
  <2>3. lease' \in Leases /\ (lease' = lease \/ Grantable(p))
    BY <1>11, <1>t, <1>0 DEF AnswerError
  <2> QED
    BY <2>1, <2>2, <2>3, <1>n DEF StepOf
<1>12. CASE Cancel(p)
  <2> DEFINE h == [x EXCEPT !.cancelled = TRUE]
  <2>1. inst' = [inst EXCEPT ![p] = h] /\ lease' = lease /\ Fault
    BY <1>12, <1>0 DEF Cancel
  <2>2. /\ h \in Records /\ LockCoherent(h) /\ WorkCoherent(h)
        /\ h.phase = x.phase /\ h.seg = x.seg
        /\ LeadsIn(h) => LeadsIn(x) /\ h.until = x.until
    BY <1>0 DEF Records, LeadsIn, LockCoherent, WorkCoherent
  <2> HIDE DEF h
  <2> QED
    BY <2>1, <2>2, <1>0, <1>f DEF StepOf, Begins
<1>13. CASE Close(p)
  <2> DEFINE h == [x EXCEPT !.life = "closing", !.released = TRUE]
  <2>1. inst' = [inst EXCEPT ![p] = h] /\ x.mutex = "none"
    BY <1>13, <1>0 DEF Close
  <2>2. /\ lease' \in Leases /\ (lease' = lease \/ lease.holder = p)
        /\ faults' \in 0 .. MaxFaults
    BY <1>13, <1>0, <1>f, FreedTyped DEF Close
  <2>3. /\ h \in Records /\ LockCoherent(h) /\ WorkCoherent(h) /\ ~LeadsIn(h)
        /\ h.phase = x.phase /\ h.seg = x.seg
    BY <1>0, <2>1 DEF Records, Life, LeadsIn, LockCoherent, WorkCoherent
  <2> HIDE DEF h
  <2> QED
    BY <2>1, <2>2, <2>3 DEF StepOf, Begins
<1>e. Ended(p) => /\ inst' = [inst EXCEPT ![p] = Down]
                  /\ lease' \in Leases /\ (lease' = lease \/ lease.holder = p)
  BY <1>0 DEF Ended, Leases
<1>14. CASE Exit(p)
  BY <1>14, <1>e, <1>d, <1>0 DEF Exit, StepOf, Begins
<1>15. CASE Crash(p)
  BY <1>15, <1>e, <1>d, <1>f DEF Crash, StepOf, Begins
<1> QED
  BY <1>1, <1>2, <1>3, <1>4, <1>5, <1>6, <1>7, <1>8, <1>9, <1>10, <1>11, <1>12,
     <1>13, <1>14, <1>15 DEF Process
-----------------------------------------------------------------------------
\* Counting down keeps what is confirmed confirmed, or ends it.
LEMMA TickStep == IInv /\ Tick => IInv'
<1> SUFFICES ASSUME IInv, Tick PROVE IInv'
  OBVIOUS
<1>0. lease \in Leases /\ inst \in [Instances -> Records] /\ faults \in 0 .. MaxFaults
  BY LeaseTyped DEF IInv
<1>1. /\ lease' = [lease EXCEPT !.left = Later(lease.left)] /\ faults' = faults
  BY DEF Tick
<1>2. \A t \in -MaxStall .. TTL : Later(t) \in -MaxStall .. TTL
                                  /\ (Later(t) > 0 => t > 0)
  BY LeaseConstants DEF Later
<1>3. lease' \in Leases
  BY <1>0, <1>1, <1>2 DEF Leases
<1>4. ASSUME NEW p \in Instances
      PROVE  /\ inst'[p] \in Records
             /\ inst'[p].until = Later(inst[p].until)
             /\ LockCoherent(inst'[p]) /\ WorkCoherent(inst'[p])
             /\ LeadsIn(inst'[p]) => LeadsIn(inst[p])
  <2> DEFINE x == inst[p]
             a == IF Dated(p) THEN x.age + 1 ELSE x.age
             h == [x EXCEPT !.until = Later(x.until), !.age = a]
  <2>1. x \in Records /\ LockCoherent(x) /\ WorkCoherent(x)
    BY <1>0 DEF IInv
  <2>2. a \in 0 .. MaxStall
    <3>1. x.age \in 0 .. MaxStall
      BY <2>1 DEF Records
    <3>2. Dated(p) => x.age < MaxStall
      BY DEF Tick
    <3> QED
      BY <3>1, <3>2, LeaseConstants
  <2>3. Later(x.until) \in -MaxStall .. TTL /\ (Later(x.until) > 0 => x.until > 0)
    BY <2>1, <1>2 DEF Records
  <2>4. inst'[p] = h
    BY <1>0 DEF Tick
  <2> HIDE DEF a
  <2>5. /\ h \in Records /\ h.until = Later(x.until)
        /\ LockCoherent(h) /\ WorkCoherent(h) /\ (LeadsIn(h) => LeadsIn(x))
    BY <2>1, <2>2, <2>3 DEF Records, LockCoherent, WorkCoherent, LeadsIn
  <2> HIDE DEF h
  <2> QED
    BY <2>4, <2>5
<1>5. inst' \in [Instances -> Records]
  <2>1. inst' = [p \in Instances |-> inst'[p]]
    BY DEF Tick
  <2> QED
    BY <2>1, <1>4
<1>6. Confirmed'
  <2> SUFFICES ASSUME NEW p \in Instances, Leads(p)'
               PROVE  lease'.holder = p /\ lease'.left = inst'[p].until
    BY DEF Confirmed
  <2>1. Leads(p)
    BY <1>4 DEF Leads, LeadsIn
  <2>2. lease.holder = p /\ lease.left = inst[p].until
    BY <2>1 DEF IInv, Confirmed
  <2> QED
    BY <2>2, <1>0, <1>1, <1>4 DEF Leases
<1> QED
  BY <1>1, <1>0, <1>3, <1>4, <1>5, <1>6 DEF IInv, TypeOK, Leases

\* A process cannot take the row from one whose term is not over.
LEMMA InvariantStep == IInv /\ [Next]_vars => IInv'
<1> SUFFICES ASSUME IInv, [Next]_vars PROVE IInv'
  OBVIOUS
<1>1. CASE Tick
  BY <1>1, TickStep
<1>2. ASSUME NEW p \in Instances, Process(p) PROVE IInv'
  <2>0. lease \in Leases /\ inst \in [Instances -> Records]
    BY LeaseTyped DEF IInv
  <2>1. PICK h : StepOf(p, h)
    BY <1>2, ProcessStep
  <2>2. inst'[p] = h /\ \A q \in Instances : q # p => inst'[q] = inst[q]
    BY <2>0, <2>1 DEF StepOf
  <2>3. lease' \in Leases /\ inst' \in [Instances -> Records]
        /\ faults' \in 0 .. MaxFaults
    BY <2>0, <2>1 DEF StepOf
  <2>4. \A q \in Instances : LockCoherent(inst'[q]) /\ WorkCoherent(inst'[q])
    BY <2>1, <2>2 DEF StepOf, IInv
  <2>5. Confirmed'
    <3> SUFFICES ASSUME NEW q \in Instances, Leads(q)'
                 PROVE  lease'.holder = q /\ lease'.left = inst'[q].until
      BY DEF Confirmed
    <3>1. CASE q = p
      <4>1. LeadsIn(h)
        BY <3>1, <2>2 DEF Leads, LeadsIn
      <4>2. CASE LeadsIn(inst[p]) /\ h.until = inst[p].until /\ lease' = lease
        BY <4>2, <3>1, <2>2 DEF IInv, Confirmed, Leads, LeadsIn
      <4>3. CASE lease' = Written(p) /\ h.until = Term(p)
        BY <4>3, <3>1, <2>2 DEF Written
      <4> QED
        BY <4>1, <4>2, <4>3, <2>1 DEF StepOf
    <3>2. CASE q # p
      <4>1. Leads(q) /\ inst'[q] = inst[q]
        BY <3>2, <2>2 DEF Leads
      <4>2. lease.holder = q /\ lease.left = inst[q].until /\ inst[q].until > 0
        BY <4>1 DEF IInv, Confirmed, Leads
      <4>3. ~Grantable(p)
        <5>1. inst[p].age \in 0 .. MaxStall /\ lease.left \in -MaxStall .. TTL
          BY <2>0 DEF Records, Leases
        <5>2. ~(lease.left <= - inst[p].age)
          BY <5>1, <4>2, LeaseConstants
        <5>3. lease.holder \notin {p, Nobody}
          BY <4>2, <3>2, LeaseConstants
        <5> QED
          BY <5>2, <5>3 DEF Grantable
      <4>4. lease' = lease
        BY <4>2, <4>3, <3>2, <2>1 DEF StepOf
      <4> QED
        BY <4>1, <4>2, <4>4
    <3> QED
      BY <3>1, <3>2
  <2> QED
    BY <2>3, <2>4, <2>5 DEF IInv, TypeOK, Leases
<1>3. CASE UNCHANGED vars
  BY <1>3 DEF IInv, TypeOK, Confirmed, Leads, vars
<1> QED
  BY <1>1, <1>2, <1>3 DEF Next

LEMMA Invariance == Spec => []IInv
<1>1. Init => IInv
  BY LeaseConstants DEF Init, IInv, TypeOK, Confirmed, Leads, Down, Records, Life,
     Segments, LockCoherent, WorkCoherent
<1> QED
  BY <1>1, InvariantStep, PTL DEF Spec
-----------------------------------------------------------------------------
\* Every reachable state of the lease and of the processes is well typed.
THEOREM TypeCorrectness == Spec => []TypeOK
<1>1. IInv => TypeOK
  BY DEF IInv
<1> QED
  BY <1>1, Invariance, PTL

\* At most one process has a confirmed term that is not over, however long a
\* process stalls between reading the clock and writing the row, whoever
\* crashes, and whatever statements fail with or without effect.
THEOREM MutualExclusion == Spec => []OneLeader
<1>1. IInv => OneLeader
  BY DEF IInv, Confirmed, OneLeader
<1> QED
  BY <1>1, Invariance, PTL

\* The check before each segment bounds what a stalled process does to one.
THEOREM StaleWorkBound == Spec => []AtMostOneStaleSegment
<1>1. IInv => AtMostOneStaleSegment
  BY DEF IInv, WorkCoherent, AtMostOneStaleSegment
<1> QED
  BY <1>1, Invariance, PTL

\* A denial, whoever got it, is the end of the work of that process.
THEOREM DenialIsFinal == Spec => NoWorkAfterDenial
<1> DEFINE Keeps == \A p \in Instances :
       inst[p].denied /\ inst'[p].denied /\ inst'[p].phase = "doing"
         => inst[p].phase = "doing" /\ inst'[p].seg = inst[p].seg
<1>1. IInv /\ [Next]_vars => [Keeps]_vars
  <2> SUFFICES ASSUME IInv, Next, NEW q \in Instances,
                      inst[q].denied, inst'[q].denied, inst'[q].phase = "doing"
               PROVE  inst[q].phase = "doing" /\ inst'[q].seg = inst[q].seg
    OBVIOUS
  <2>0. inst \in [Instances -> Records]
    BY LeaseTyped DEF IInv
  <2>1. CASE Tick
    <3> DEFINE a == IF Dated(q) THEN inst[q].age + 1 ELSE inst[q].age
    <3>1. inst'[q] = [inst[q] EXCEPT !.until = Later(inst[q].until), !.age = a]
      BY <2>1, <2>0 DEF Tick
    <3> HIDE DEF a
    <3>2. inst[q] \in Records
      BY <2>0
    <3> QED
      BY <3>1, <3>2 DEF Records
  <2>2. ASSUME NEW p \in Instances, Process(p)
        PROVE  inst[q].phase = "doing" /\ inst'[q].seg = inst[q].seg
    <3>1. PICK h : StepOf(p, h)
      BY <2>2, ProcessStep
    <3>2. inst'[p] = h /\ (q # p => inst'[q] = inst[q])
      BY <2>0, <3>1 DEF StepOf
    <3> QED
      BY <3>1, <3>2 DEF StepOf, Begins
  <2> QED
    BY <2>1, <2>2 DEF Next
<1> QED
  BY <1>1, Invariance, PTL DEF Spec, NoWorkAfterDenial
=============================================================================
