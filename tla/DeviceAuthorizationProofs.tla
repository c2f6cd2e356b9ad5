--------------------- MODULE DeviceAuthorizationProofs ---------------------
(***************************************************************************)
(* For every number of codes, subjects and requests in flight, and for     *)
(* every clock bound: the safety properties of DeviceAuthorization, and    *)
(* that it implements DeviceGrant.                                         *)
(***************************************************************************)
EXTENDS DeviceAuthorization, TLAPS

\* The facts about the rows that the safety properties rest on: a subject is
\* there exactly from the approval on, and no approval is stamped later than
\* the clock.
RowsCoherent ==
  \A c \in Codes :
    /\ device[c].status \in {"approved", "consumed"} =>
         device[c].subject # NoSubject
    /\ device[c].subject # NoSubject =>
         device[c].status \in {"approved", "expired", "consumed"}
    /\ device[c].approvedAt <= clock

\* Requests point at rows that exist, with clocks that were read in the past.
RequestsCoherent ==
  /\ \A p \in Polls : poll[p].pc # "idle" =>
       device[poll[p].code].status # "none" /\ poll[p].now <= clock
  /\ \A v \in Verifs : verify[v].pc # "idle" => verify[v].now <= clock

\* The inductive invariant.
IInv ==
  /\ TypeOK
  /\ RowsCoherent
  /\ RequestsCoherent
  /\ PollsSeeTheApproval
  /\ OneTokenPerCode
  /\ ConsumedIffIssued
  /\ IssuedInsideWindow
-----------------------------------------------------------------------------
(* Typing *)

\* The NULL row and the idle request are well typed, and so is what a handler
\* keeps of a row.
LEMMA NullTypes ==
  /\ NoRow \in Rows
  /\ Idle \in Requests(PollPCs, {NoSubject})
  /\ Idle \in Requests(VerifyPCs, Subjects \cup {NoSubject})
  /\ \A row \in Rows : Decision(row) \in Rows
<1>1. NoRow \in Rows
  BY DEF NoRow, Rows, Never
<1>2. \A row \in Rows : Decision(row) \in Rows
  BY DEF Decision, NoRow, Rows, Never
<1> QED
  BY <1>1, <1>2 DEF Idle, Requests

\* Init establishes the types of all variables.
LEMMA TypingInit == Init => TypeOK
BY ConstantsAssumption, NullTypes
   DEF Init, TypeOK, PollTypeOK, VerifyTypeOK, Idle

\* A write to one well-typed row keeps the table well typed.
LEMMA DeviceWrite ==
  ASSUME TypeOK, NEW c \in Codes, NEW row \in Rows,
         device' = [device EXCEPT ![c] = row]
  PROVE  device' \in [Codes -> Rows]
BY DEF TypeOK

\* A token request that moves to a well-typed state keeps PollTypeOK.
LEMMA PollWrite ==
  ASSUME TypeOK, NEW p \in Polls,
         NEW h \in Requests(PollPCs, {NoSubject}),
         h.pc # "idle" => h.code \in Codes,
         h.pc \in {"authorize", "consume"} => h.seen.subject \in Subjects,
         poll' = [poll EXCEPT ![p] = h]
  PROVE  PollTypeOK'
BY DEF TypeOK, PollTypeOK

\* Finishing a token request keeps PollTypeOK.
LEMMA PollDoneType ==
  ASSUME TypeOK, NEW p \in Polls, PollDone(p)
  PROVE  PollTypeOK'
<1>1. Idle.pc = "idle"
  BY DEF Idle
<1> QED
  BY <1>1, NullTypes, PollWrite DEF PollDone

\* Sending a token request on keeps PollTypeOK.
LEMMA PollGotoType ==
  ASSUME TypeOK, NEW p \in Polls, NEW pc \in PollPCs, PollGoto(p, pc),
         poll[p].pc # "idle",
         pc \in {"authorize", "consume"} => poll[p].seen.subject \in Subjects
  PROVE  PollTypeOK'
<1> DEFINE h == [poll[p] EXCEPT !.pc = pc]
<1>1. /\ h \in Requests(PollPCs, {NoSubject})
      /\ h.pc = pc /\ h.code = poll[p].code /\ h.seen = poll[p].seen
  BY DEF TypeOK, PollTypeOK, Requests
<1>2. poll' = [poll EXCEPT ![p] = h]
  BY DEF PollGoto
<1>3. poll[p].code \in Codes
  BY DEF TypeOK, PollTypeOK
<1> HIDE DEF h
<1> QED
  BY <1>1, <1>2, <1>3, PollWrite

\* An approval request that moves to a well-typed state keeps VerifyTypeOK.
LEMMA VerifyWrite ==
  ASSUME TypeOK, NEW v \in Verifs,
         NEW h \in Requests(VerifyPCs, Subjects \cup {NoSubject}),
         h.pc # "idle" => h.code \in Codes /\ h.by \in Subjects,
         verify' = [verify EXCEPT ![v] = h]
  PROVE  VerifyTypeOK'
BY DEF TypeOK, VerifyTypeOK

\* Finishing an approval request keeps VerifyTypeOK.
LEMMA VerifyDoneType ==
  ASSUME TypeOK, NEW v \in Verifs, VerifyDone(v)
  PROVE  VerifyTypeOK'
<1>1. Idle.pc = "idle"
  BY DEF Idle
<1> QED
  BY <1>1, NullTypes, VerifyWrite DEF VerifyDone

\* The sweep of expired codes keeps every row a row.
LEMMA MarkExpiredType ==
  ASSUME TypeOK, NEW now
  PROVE  MarkExpired(now) \in [Codes -> Rows]
<1>1. \A row \in Rows : [row EXCEPT !.status = "expired"] \in Rows
  BY DEF Rows, Closed
<1> QED
  BY <1>1 DEF TypeOK, MarkExpired

\* Every step of the device grant keeps the types of all variables.
LEMMA TypingStep == TypeOK /\ [Next]_vars => TypeOK'
<1> SUFFICES ASSUME TypeOK, [Next]_vars
             PROVE  TypeOK'
  OBVIOUS
<1>1. CASE Tick
  <2>1. clock' \in 0 .. MaxClock
    BY <1>1, ConstantsAssumption DEF Tick, TypeOK
  <2> QED
    BY <1>1, <2>1 DEF Tick, TypeOK, PollTypeOK, VerifyTypeOK
<1>2. ASSUME NEW s \in Subjects, ChangeGrants(s) PROVE TypeOK'
  BY <1>2 DEF ChangeGrants, TypeOK, PollTypeOK, VerifyTypeOK
<1>3. ASSUME NEW c \in Codes, CreateDeviceAuthorization(c) PROVE TypeOK'
  <2> DEFINE row == [NoRow EXCEPT !.status = "pending",
                                  !.expiresAt = clock + DeviceTTL,
                                  !.interval = PollInterval]
  <2>1. clock + DeviceTTL \in Nat /\ PollInterval \in Nat
    BY ConstantsAssumption DEF TypeOK
  <2>2. row \in Rows
    BY <2>1 DEF NoRow, Rows, Open, Never
  <2>3. device' = [device EXCEPT ![c] = row]
    BY <1>3 DEF CreateDeviceAuthorization
  <2> HIDE DEF row
  <2> QED
    BY <1>3, <2>2, <2>3, DeviceWrite
    DEF CreateDeviceAuthorization, TypeOK, PollTypeOK, VerifyTypeOK
<1>4. ASSUME NEW p \in Polls, NEW c \in Codes, PollLoad(p, c) PROVE TypeOK'
  <2> DEFINE h == [Idle EXCEPT !.pc = "loaded", !.code = c, !.seen = device[c]]
  <2>1. /\ h \in Requests(PollPCs, {NoSubject})
        /\ h.pc = "loaded" /\ h.code = c
    BY DEF TypeOK, Idle, Requests, PollPCs
  <2>2. poll' = [poll EXCEPT ![p] = h]
    BY <1>4 DEF PollLoad
  <2> HIDE DEF h
  <2>3. PollTypeOK'
    BY <2>1, <2>2, PollWrite
  <2> QED
    BY <1>4, <2>3 DEF PollLoad, TypeOK, VerifyTypeOK
<1>5. ASSUME NEW p \in Polls, PollStamp(p) PROVE TypeOK'
  <2> DEFINE pc == IF Lapsed(poll[p].seen, clock) THEN "expire"
                   ELSE IF TooFast(poll[p].seen, clock) THEN "slow" ELSE "pace"
             h == [poll[p] EXCEPT !.now = clock,
                                  !.seen = Decision(poll[p].seen), !.pc = pc]
  <2>1. pc \in {"expire", "slow", "pace"}
    OBVIOUS
  <2>2. poll' = [poll EXCEPT ![p] = h]
    BY <1>5 DEF PollStamp
  <2> HIDE DEF pc
  <2>3. /\ poll[p] \in Requests(PollPCs, {NoSubject})
        /\ poll[p].code \in Codes
        /\ clock \in Nat
    <3>1. clock \in Nat
      BY DEF TypeOK
    <3> QED
      BY <1>5, <3>1 DEF PollStamp, TypeOK, PollTypeOK
  <2>4. Decision(poll[p].seen) \in Rows
    BY <2>3, NullTypes DEF Requests
  <2>5. /\ h \in Requests(PollPCs, {NoSubject})
        /\ h.pc = pc /\ h.code = poll[p].code
    BY <2>1, <2>3, <2>4 DEF Requests, PollPCs
  <2> HIDE DEF h
  <2>6. PollTypeOK'
    BY <2>1, <2>2, <2>3, <2>5, PollWrite
  <2> QED
    BY <1>5, <2>6 DEF PollStamp, TypeOK, VerifyTypeOK
<1>6. ASSUME NEW p \in Polls, PollExpire(p) PROVE TypeOK'
  <2>1. device' \in [Codes -> Rows]
    BY <1>6, MarkExpiredType DEF PollExpire, TypeOK
  <2>2. answers' \in [Codes -> SUBSET FinalAnswers]
    BY <1>6 DEF PollExpire, Answer, TypeOK, FinalAnswers
  <2>3. PollTypeOK'
    BY <1>6, PollDoneType DEF PollExpire
  <2> QED
    BY <1>6, <2>1, <2>2, <2>3 DEF PollExpire, TypeOK, VerifyTypeOK
<1>7. ASSUME NEW p \in Polls, PollSlowDown(p) PROVE TypeOK'
  <2> DEFINE c == poll[p].code
             row == [device[c] EXCEPT !.lastPoll = poll[p].now,
                                      !.interval = Lengthened(device[c].interval)]
  <2>1. poll[p].now \in Nat /\ c \in Codes /\ device[c] \in Rows
    BY <1>7 DEF PollSlowDown, TypeOK, PollTypeOK, Requests
  <2>2. Lengthened(device[c].interval) \in Nat
    BY <2>1, ConstantsAssumption DEF Lengthened, Rows
  <2>3. row \in Rows
    BY <2>1, <2>2 DEF Rows
  <2>4. device' = device \/ device' = [device EXCEPT ![c] = row]
    BY <1>7 DEF PollSlowDown
  <2> HIDE DEF row
  <2>5. device' \in [Codes -> Rows]
    BY <2>1, <2>3, <2>4, DeviceWrite DEF TypeOK
  <2>6. PollTypeOK'
    BY <1>7, PollDoneType DEF PollSlowDown
  <2> QED
    BY <1>7, <2>5, <2>6 DEF PollSlowDown, TypeOK, VerifyTypeOK
<1>8. ASSUME NEW p \in Polls, PollPace(p) PROVE TypeOK'
  <2> DEFINE c == poll[p].code
             row == [device[c] EXCEPT !.lastPoll = poll[p].now]
  <2>1. /\ poll[p].now \in Nat /\ c \in Codes /\ device[c] \in Rows
        /\ poll[p].pc = "pace"
        /\ poll[p].seen.subject \in Subjects \cup {NoSubject}
    BY <1>8 DEF PollPace, TypeOK, PollTypeOK, Requests, Rows
  <2>2. row \in Rows
    BY <2>1 DEF Rows
  <2>3. device' = device \/ device' = [device EXCEPT ![c] = row]
    BY <1>8 DEF PollPace
  <2> HIDE DEF row
  <2>4. device' \in [Codes -> Rows]
    BY <2>1, <2>2, <2>3, DeviceWrite DEF TypeOK
  <2>5. \/ PollDone(p)
        \/ PollGoto(p, "authorize") /\ poll[p].seen.subject # NoSubject
    BY <1>8 DEF PollPace
  <2>6. \/ UNCHANGED answers
        \/ \E a \in FinalAnswers : Answer(c, a)
    BY <1>8 DEF PollPace, FinalAnswers
  <2>7. answers' \in [Codes -> SUBSET FinalAnswers]
    BY <2>1, <2>6 DEF TypeOK, Answer
  <2>8. PollTypeOK'
    BY <2>1, <2>5, PollDoneType, PollGotoType DEF PollPCs
  <2> QED
    BY <1>8, <2>4, <2>7, <2>8 DEF PollPace, TypeOK, VerifyTypeOK
<1>9. ASSUME NEW p \in Polls, PollAuthorize(p) PROVE TypeOK'
  <2>1. PollDone(p) \/ PollGoto(p, "consume")
    BY <1>9 DEF PollAuthorize
  <2>2. poll[p].pc = "authorize" /\ poll[p].seen.subject \in Subjects
    BY <1>9 DEF PollAuthorize, TypeOK, PollTypeOK
  <2>3. PollTypeOK'
    BY <2>1, <2>2, PollDoneType, PollGotoType DEF PollPCs
  <2> QED
    BY <1>9, <2>3 DEF PollAuthorize, TypeOK, VerifyTypeOK
<1>10. ASSUME NEW p \in Polls, PollConsume(p) PROVE TypeOK'
  <2> DEFINE c == poll[p].code
             row == [device[c] EXCEPT !.status = "consumed"]
             new == [code |-> c, subject |-> poll[p].seen.subject,
                     createdAt |-> poll[p].now]
  <2>1. /\ c \in Codes /\ device[c] \in Rows
        /\ new \in SessionRows
    BY <1>10 DEF PollConsume, TypeOK, PollTypeOK, Requests, SessionRows
  <2>2. row \in Rows
    BY <2>1 DEF Rows, Closed
  <2>3. /\ device' = device \/ device' = [device EXCEPT ![c] = row]
        /\ sessions' = sessions \/ sessions' = Append(sessions, new)
    BY <1>10 DEF PollConsume
  <2> HIDE DEF row, new
  <2>4. device' \in [Codes -> Rows]
    BY <2>1, <2>2, <2>3, DeviceWrite DEF TypeOK
  <2>5. sessions' \in Seq(SessionRows)
    <3>1. sessions \in Seq(SessionRows)
      BY DEF TypeOK
    <3> QED
      BY <2>1, <2>3, <3>1
  <2>6. answers' \in [Codes -> SUBSET FinalAnswers]
    <3>1. \E a \in FinalAnswers : Answer(c, a)
      BY <1>10 DEF PollConsume, FinalAnswers
    <3> QED
      BY <2>1, <3>1 DEF TypeOK, Answer
  <2>7. PollTypeOK'
    BY <1>10, PollDoneType DEF PollConsume
  <2> QED
    BY <1>10, <2>4, <2>5, <2>6, <2>7 DEF PollConsume, TypeOK, VerifyTypeOK
<1>11. ASSUME NEW p \in Polls, PollAborts(p) PROVE TypeOK'
  <2>1. PollTypeOK'
    BY <1>11, PollDoneType DEF PollAborts
  <2>2. aborts' \in 0 .. MaxAborts
    BY <1>11, ConstantsAssumption DEF PollAborts, TypeOK
  <2> QED
    BY <1>11, <2>1, <2>2 DEF PollAborts, TypeOK, VerifyTypeOK
<1>12. ASSUME NEW v \in Verifs, NEW s \in Subjects, NEW c \in Codes,
              VerifyLoad(v, s, c)
       PROVE  TypeOK'
  <2> DEFINE h == [Idle EXCEPT !.pc = "loaded", !.code = c, !.by = s,
                               !.seen = device[c]]
  <2>1. /\ h \in Requests(VerifyPCs, Subjects \cup {NoSubject})
        /\ h.code = c /\ h.by = s
    BY DEF TypeOK, Idle, Requests, VerifyPCs
  <2>2. verify' = [verify EXCEPT ![v] = h]
    BY <1>12 DEF VerifyLoad
  <2> HIDE DEF h
  <2>3. VerifyTypeOK'
    BY <2>1, <2>2, VerifyWrite
  <2> QED
    BY <1>12, <2>3 DEF VerifyLoad, TypeOK, PollTypeOK
<1>13. ASSUME NEW v \in Verifs, NEW choice \in {"authorize", "deny"},
              VerifyStamp(v, choice)
       PROVE  TypeOK'
  <2> DEFINE h == [verify[v] EXCEPT !.now = clock, !.pc = choice,
                                    !.seen = Decision(verify[v].seen)]
  <2>1. /\ verify[v] \in Requests(VerifyPCs, Subjects \cup {NoSubject})
        /\ verify[v].code \in Codes /\ verify[v].by \in Subjects
        /\ clock \in Nat
    <3>1. clock \in Nat
      BY DEF TypeOK
    <3> QED
      BY <1>13, <3>1 DEF VerifyStamp, TypeOK, VerifyTypeOK
  <2>2. Decision(verify[v].seen) \in Rows
    BY <2>1, NullTypes DEF Requests
  <2>3. /\ h \in Requests(VerifyPCs, Subjects \cup {NoSubject})
        /\ h.code = verify[v].code /\ h.by = verify[v].by
    BY <2>1, <2>2 DEF Requests, VerifyPCs
  <2>4. VerifyDone(v) \/ verify' = [verify EXCEPT ![v] = h]
    BY <1>13 DEF VerifyStamp
  <2> HIDE DEF h
  <2>5. VerifyTypeOK'
    BY <2>1, <2>3, <2>4, VerifyDoneType, VerifyWrite
  <2> QED
    BY <1>13, <2>5 DEF VerifyStamp, TypeOK, PollTypeOK
<1>14. ASSUME NEW v \in Verifs, VerifyDeny(v) PROVE TypeOK'
  <2> DEFINE c == verify[v].code
             row == [device[c] EXCEPT !.status = "denied"]
  <2>1. c \in Codes /\ device[c] \in Rows
    BY <1>14 DEF VerifyDeny, TypeOK, VerifyTypeOK
  <2>2. row \in Rows
    BY <2>1 DEF Rows, Closed
  <2>3. device' = device \/ device' = [device EXCEPT ![c] = row]
    BY <1>14 DEF VerifyDeny
  <2> HIDE DEF row
  <2>4. device' \in [Codes -> Rows]
    BY <2>1, <2>2, <2>3, DeviceWrite DEF TypeOK
  <2>5. VerifyTypeOK'
    BY <1>14, VerifyDoneType DEF VerifyDeny
  <2> QED
    BY <1>14, <2>4, <2>5 DEF VerifyDeny, TypeOK, PollTypeOK
<1>15. ASSUME NEW v \in Verifs, VerifyAuthorize(v) PROVE TypeOK'
  <2> DEFINE h == [verify[v] EXCEPT !.pc = "approve"]
  <2>1. /\ verify[v] \in Requests(VerifyPCs, Subjects \cup {NoSubject})
        /\ verify[v].code \in Codes /\ verify[v].by \in Subjects
    BY <1>15 DEF VerifyAuthorize, TypeOK, VerifyTypeOK
  <2>2. /\ h \in Requests(VerifyPCs, Subjects \cup {NoSubject})
        /\ h.code = verify[v].code /\ h.by = verify[v].by
    BY <2>1 DEF Requests, VerifyPCs
  <2>3. VerifyDone(v) \/ verify' = [verify EXCEPT ![v] = h]
    BY <1>15 DEF VerifyAuthorize, VerifyGoto
  <2> HIDE DEF h
  <2>4. VerifyTypeOK'
    BY <2>1, <2>2, <2>3, VerifyDoneType, VerifyWrite
  <2> QED
    BY <1>15, <2>4 DEF VerifyAuthorize, TypeOK, PollTypeOK
<1>16. ASSUME NEW v \in Verifs, VerifyApprove(v) PROVE TypeOK'
  <2> DEFINE c == verify[v].code
             row == [device[c] EXCEPT !.status = "approved",
                                      !.subject = verify[v].by,
                                      !.approvedAt = verify[v].now]
  <2>1. /\ c \in Codes /\ device[c] \in Rows
        /\ verify[v].by \in Subjects /\ verify[v].now \in Nat
    BY <1>16 DEF VerifyApprove, TypeOK, VerifyTypeOK, Requests
  <2>2. row \in Rows
    BY <2>1 DEF Rows, Open
  <2>3. device' = device \/ device' = [device EXCEPT ![c] = row]
    BY <1>16, <2>1 DEF VerifyApprove, TypeOK
  <2> HIDE DEF row
  <2>4. device' \in [Codes -> Rows]
    BY <2>1, <2>2, <2>3, DeviceWrite DEF TypeOK
  <2>5. VerifyTypeOK'
    BY <1>16, VerifyDoneType DEF VerifyApprove
  <2> QED
    BY <1>16, <2>4, <2>5 DEF VerifyApprove, TypeOK, PollTypeOK
<1>17. ASSUME NEW v \in Verifs, VerifyAborts(v) PROVE TypeOK'
  <2>1. VerifyTypeOK'
    BY <1>17, VerifyDoneType DEF VerifyAborts
  <2>2. aborts' \in 0 .. MaxAborts
    BY <1>17, ConstantsAssumption DEF VerifyAborts, TypeOK
  <2> QED
    BY <1>17, <2>1, <2>2 DEF VerifyAborts, TypeOK, PollTypeOK
<1>18. CASE UNCHANGED vars
  BY <1>18 DEF vars, TypeOK, PollTypeOK, VerifyTypeOK
<1> QED
  BY <1>1, <1>2, <1>3, <1>4, <1>5, <1>6, <1>7, <1>8, <1>9, <1>10, <1>11,
     <1>12, <1>13, <1>14, <1>15, <1>16, <1>17, <1>18
  DEF Next, PollStep, VerifyStep
-----------------------------------------------------------------------------
(* What a step may do to one row *)

\* The seven things a statement may do to a row, in terms of the columns that
\* matter for the decision.
SameDecision(old, new) ==
  /\ new.subject = old.subject
  /\ new.approvedAt = old.approvedAt
  /\ new.expiresAt = old.expiresAt

Advance(old, new) ==
  \/ new.status = old.status /\ SameDecision(old, new)
  \/ /\ old.status = "none" /\ new.status = "pending"
     /\ new.subject = NoSubject /\ new.approvedAt = 0
  \/ old.status \in Open /\ new.status = "expired" /\ SameDecision(old, new)
  \/ old.status = "pending" /\ new.status = "denied" /\ SameDecision(old, new)
  \/ /\ old.status = "pending" /\ new.status = "approved"
     /\ new.subject \in Subjects /\ new.approvedAt <= clock
     /\ new.expiresAt = old.expiresAt
  \/ /\ old.status = "approved" /\ new.status = "consumed"
     /\ old.subject # NoSubject /\ SameDecision(old, new)

\* A write to one row that advances it advances the whole table.
LEMMA AdvanceOne ==
  ASSUME TypeOK, NEW c \in Codes, NEW row, Advance(device[c], row),
         device' = [device EXCEPT ![c] = row]
  PROVE  \A d \in Codes : Advance(device[d], device'[d])
<1> SUFFICES ASSUME NEW d \in Codes PROVE Advance(device[d], device'[d])
  OBVIOUS
<1>1. device'[d] = IF d = c THEN row ELSE device[d]
  BY DEF TypeOK
<1>2. Advance(device[d], device[d])
  BY DEF Advance, SameDecision
<1> QED
  BY <1>1, <1>2

\* Every step advances every row or leaves it alone.
LEMMA RowsAdvance ==
  ASSUME TypeOK, RequestsCoherent, [Next]_vars
  PROVE  \A c \in Codes : Advance(device[c], device'[c])
<1> DEFINE Goal == \A c \in Codes : Advance(device[c], device'[c])
<1>1. ASSUME UNCHANGED device PROVE Goal
  BY <1>1 DEF Advance, SameDecision
<1>2. ASSUME NEW c \in Codes, CreateDeviceAuthorization(c) PROVE Goal
  <2> DEFINE row == [NoRow EXCEPT !.status = "pending",
                                  !.expiresAt = clock + DeviceTTL,
                                  !.interval = PollInterval]
  <2>1. Advance(device[c], row)
    BY <1>2 DEF CreateDeviceAuthorization, Advance, NoRow
  <2>2. device' = [device EXCEPT ![c] = row]
    BY <1>2 DEF CreateDeviceAuthorization
  <2> HIDE DEF row
  <2> QED
    BY <2>1, <2>2, AdvanceOne
<1>3. ASSUME NEW p \in Polls, PollExpire(p) PROVE Goal
  <2> SUFFICES ASSUME NEW c \in Codes, device' = MarkExpired(poll[p].now)
               PROVE  Advance(device[c], device'[c])
    BY <1>1, <1>3 DEF PollExpire
  <2>1. device[c] \in Rows
    BY DEF TypeOK
  <2> QED
    BY <2>1 DEF MarkExpired, Advance, SameDecision, Rows
<1>4. ASSUME NEW p \in Polls, PollSlowDown(p) PROVE Goal
  <2> DEFINE c == poll[p].code
             row == [device[c] EXCEPT !.lastPoll = poll[p].now,
                                      !.interval = Lengthened(device[c].interval)]
  <2>1. c \in Codes /\ device[c] \in Rows
    BY <1>4 DEF PollSlowDown, TypeOK, PollTypeOK
  <2>2. Advance(device[c], row)
    BY <2>1 DEF Advance, SameDecision, Rows
  <2>3. UNCHANGED device \/ device' = [device EXCEPT ![c] = row]
    BY <1>4 DEF PollSlowDown
  <2> HIDE DEF row, c
  <2> QED
    BY <1>1, <2>1, <2>2, <2>3, AdvanceOne
<1>5. ASSUME NEW p \in Polls, PollPace(p) PROVE Goal
  <2> DEFINE c == poll[p].code
             row == [device[c] EXCEPT !.lastPoll = poll[p].now]
  <2>1. c \in Codes /\ device[c] \in Rows
    BY <1>5 DEF PollPace, TypeOK, PollTypeOK
  <2>2. Advance(device[c], row)
    BY <2>1 DEF Advance, SameDecision, Rows
  <2>3. UNCHANGED device \/ device' = [device EXCEPT ![c] = row]
    BY <1>5 DEF PollPace
  <2> HIDE DEF row, c
  <2> QED
    BY <1>1, <2>1, <2>2, <2>3, AdvanceOne
<1>6. ASSUME NEW p \in Polls, PollConsume(p) PROVE Goal
  <2> DEFINE c == poll[p].code
             row == [device[c] EXCEPT !.status = "consumed"]
  <2>1. c \in Codes /\ device[c] \in Rows
    BY <1>6 DEF PollConsume, TypeOK, PollTypeOK
  <2>2. \/ UNCHANGED device
        \/ Consumable(c, poll[p].now) /\ device' = [device EXCEPT ![c] = row]
    BY <1>6 DEF PollConsume
  <2>3. Consumable(c, poll[p].now) => Advance(device[c], row)
    BY <2>1 DEF Consumable, Advance, SameDecision, Rows
  <2> HIDE DEF row, c
  <2> QED
    BY <1>1, <2>1, <2>2, <2>3, AdvanceOne
<1>7. ASSUME NEW v \in Verifs, VerifyDeny(v) PROVE Goal
  <2> DEFINE c == verify[v].code
             row == [device[c] EXCEPT !.status = "denied"]
  <2>1. c \in Codes /\ device[c] \in Rows
    BY <1>7 DEF VerifyDeny, TypeOK, VerifyTypeOK
  <2>2. \/ UNCHANGED device
        \/ /\ Decidable(device[c], verify[v].now)
           /\ device' = [device EXCEPT ![c] = row]
    BY <1>7 DEF VerifyDeny
  <2>3. Decidable(device[c], verify[v].now) => Advance(device[c], row)
    BY <2>1 DEF Decidable, Advance, SameDecision, Rows
  <2> HIDE DEF row, c
  <2> QED
    BY <1>1, <2>1, <2>2, <2>3, AdvanceOne
<1>8. ASSUME NEW v \in Verifs, VerifyApprove(v) PROVE Goal
  <2> DEFINE c == verify[v].code
             row == [device[c] EXCEPT !.status = "approved",
                                      !.subject = verify[v].by,
                                      !.approvedAt = verify[v].now]
  <2>1. /\ c \in Codes /\ device[c] \in Rows /\ verify[v].by \in Subjects
        /\ verify[v].now <= clock
    BY <1>8 DEF VerifyApprove, TypeOK, VerifyTypeOK, RequestsCoherent
  <2>2. \/ UNCHANGED device
        \/ /\ Decidable(device[c], verify[v].now)
           /\ device' = [device EXCEPT ![c] = row]
    BY <1>8 DEF VerifyApprove
  <2>3. Decidable(device[c], verify[v].now) => Advance(device[c], row)
    BY <2>1 DEF Decidable, Advance, Rows
  <2> HIDE DEF row, c
  <2> QED
    BY <1>1, <2>1, <2>2, <2>3, AdvanceOne
<1>9. \/ UNCHANGED device
      \/ \E c \in Codes : CreateDeviceAuthorization(c)
      \/ \E p \in Polls : \/ PollExpire(p) \/ PollSlowDown(p) \/ PollPace(p)
                         \/ PollConsume(p)
      \/ \E v \in Verifs : VerifyDeny(v) \/ VerifyApprove(v)
  BY DEF Next, PollStep, VerifyStep, Tick, ChangeGrants, PollLoad, PollStamp,
         PollAuthorize, PollAborts, VerifyLoad, VerifyStamp, VerifyAuthorize,
         VerifyAborts, vars
<1> HIDE DEF Goal
<1>10. Goal
  BY <1>1, <1>2, <1>3, <1>4, <1>5, <1>6, <1>7, <1>8, <1>9
<1> QED
  BY <1>10 DEF Goal

\* The clock of the edge never runs backwards.
LEMMA ClockAdvances ==
  ASSUME TypeOK, [Next]_vars
  PROVE  clock <= clock'
<1>1. clock' = clock \/ clock' = clock + 1
  BY DEF Next, PollStep, VerifyStep, Tick, ChangeGrants,
         CreateDeviceAuthorization, PollLoad, PollStamp, PollExpire,
         PollSlowDown, PollPace, PollAuthorize, PollConsume, PollAborts,
         VerifyLoad, VerifyStamp, VerifyDeny, VerifyAuthorize, VerifyApprove,
         VerifyAborts, vars
<1>2. clock \in Nat
  BY DEF TypeOK
<1> QED
  BY <1>1, <1>2
-----------------------------------------------------------------------------
(* The inductive invariant *)

\* An approval stands: once a row names a subject, no statement replaces the
\* subject or the time of the approval.
LEMMA ApprovalStands ==
  ASSUME TypeOK, RowsCoherent, [Next]_vars, RequestsCoherent,
         NEW c \in Codes, device[c].subject # NoSubject
  PROVE  /\ device'[c].status \in {"approved", "expired", "consumed"}
         /\ SameDecision(device[c], device'[c])
<1>1. Advance(device[c], device'[c])
  BY RowsAdvance
<1>2. device[c].status \in {"approved", "expired", "consumed"}
  BY DEF RowsCoherent
<1> QED
  BY <1>1, <1>2 DEF Advance, SameDecision, Open

\* Init establishes the inductive invariant.
LEMMA InvariantInit == Init => IInv
<1> SUFFICES ASSUME Init PROVE IInv
  OBVIOUS
<1>1. TypeOK
  BY TypingInit
<1>2. RowsCoherent
  BY ConstantsAssumption DEF Init, RowsCoherent, NoRow
<1>3. RequestsCoherent /\ PollsSeeTheApproval
  BY DEF Init, RequestsCoherent, PollsSeeTheApproval, Idle
<1>4. OneTokenPerCode /\ ConsumedIffIssued /\ IssuedInsideWindow
  BY DEF Init, OneTokenPerCode, ConsumedIffIssued, IssuedInsideWindow, NoRow
<1> QED
  BY <1>1, <1>2, <1>3, <1>4 DEF IInv

\* Rows stay coherent.
LEMMA RowsCoherentStep ==
  ASSUME IInv, [Next]_vars
  PROVE  RowsCoherent'
<1> SUFFICES ASSUME NEW c \in Codes
             PROVE  /\ device'[c].status \in {"approved", "consumed"} =>
                         device'[c].subject # NoSubject
                    /\ device'[c].subject # NoSubject =>
                         device'[c].status \in {"approved", "expired", "consumed"}
                    /\ device'[c].approvedAt <= clock'
  BY DEF RowsCoherent
<1>1. Advance(device[c], device'[c])
  BY RowsAdvance DEF IInv
<1>2. clock <= clock'
  BY ClockAdvances DEF IInv
<1>3. clock \in Nat /\ clock' \in Nat
  BY TypingStep DEF IInv, TypeOK
<1>4. device[c].approvedAt \in Nat /\ device'[c].approvedAt \in Nat
  BY TypingStep DEF IInv, TypeOK, Rows
<1>5. /\ device[c].status \in {"approved", "consumed"} =>
           device[c].subject # NoSubject
      /\ device[c].subject # NoSubject =>
           device[c].status \in {"approved", "expired", "consumed"}
      /\ device[c].approvedAt <= clock
  BY DEF IInv, RowsCoherent
<1>6. device'[c].approvedAt <= clock'
  BY <1>1, <1>2, <1>3, <1>4, <1>5 DEF Advance, SameDecision
<1> QED
  BY <1>1, <1>5, <1>6, ConstantsAssumption DEF Advance, SameDecision, Open

\* What a step may do to one token request.
PollMove(q) ==
  \/ poll'[q] = poll[q]
  \/ poll'[q] = Idle
  \/ /\ UNCHANGED <<clock, device>>
     /\ \E c \in Codes :
          /\ device[c].status # "none"
          /\ poll'[q] = [Idle EXCEPT !.pc = "loaded", !.code = c,
                                     !.seen = device[c]]
  \/ /\ UNCHANGED <<clock, device>>
     /\ poll[q].pc = "loaded"
     /\ \E pc \in {"expire", "slow", "pace"} :
          poll'[q] = [poll[q] EXCEPT !.now = clock,
                                     !.seen = Decision(poll[q].seen), !.pc = pc]
  \/ /\ poll[q].pc \in {"pace", "authorize"}
     /\ poll[q].seen.status = "approved"
     /\ \E pc \in {"authorize", "consume"} :
          poll'[q] = [poll[q] EXCEPT !.pc = pc]

\* Token requests move only so.
LEMMA PollsMove ==
  ASSUME TypeOK, PollsSeeTheApproval, [Next]_vars, NEW q \in Polls
  PROVE  PollMove(q)
<1>1. CASE UNCHANGED poll
  BY <1>1 DEF PollMove
<1>2. ASSUME NEW p \in Polls, NEW h, poll' = [poll EXCEPT ![p] = h]
      PROVE  poll'[q] = IF q = p THEN h ELSE poll[q]
  BY <1>2 DEF TypeOK, PollTypeOK
<1>3. ASSUME NEW p \in Polls, PollDone(p) PROVE PollMove(q)
  BY <1>2, <1>3 DEF PollDone, PollMove
<1>4. ASSUME NEW p \in Polls, NEW c \in Codes, PollLoad(p, c) PROVE PollMove(q)
  <2> DEFINE h == [Idle EXCEPT !.pc = "loaded", !.code = c, !.seen = device[c]]
  <2>1. poll' = [poll EXCEPT ![p] = h]
    BY <1>4 DEF PollLoad
  <2>2. poll'[q] = h \/ poll'[q] = poll[q]
    BY <2>1, <1>2
  <2> HIDE DEF h
  <2>3. UNCHANGED <<clock, device>> /\ device[c].status # "none"
    BY <1>4 DEF PollLoad
  <2> QED
    BY <2>2, <2>3 DEF PollMove, h
<1>5. ASSUME NEW p \in Polls, PollStamp(p) PROVE PollMove(q)
  <2> DEFINE pc == IF Lapsed(poll[p].seen, clock) THEN "expire"
                   ELSE IF TooFast(poll[p].seen, clock) THEN "slow" ELSE "pace"
             h == [poll[p] EXCEPT !.now = clock,
                                  !.seen = Decision(poll[p].seen), !.pc = pc]
  <2>1. pc \in {"expire", "slow", "pace"}
    OBVIOUS
  <2>2. poll' = [poll EXCEPT ![p] = h]
    BY <1>5 DEF PollStamp
  <2> HIDE DEF pc
  <2>3. poll'[q] = poll[q] \/ (q = p /\ poll'[q] = h)
    BY <1>2, <2>2
  <2> QED
    BY <1>5, <2>1, <2>3 DEF PollMove, PollStamp
<1>6. ASSUME NEW p \in Polls, NEW pc \in {"authorize", "consume"},
             PollGoto(p, pc), poll[p].pc \in {"pace", "authorize"},
             poll[p].seen.status = "approved"
      PROVE  PollMove(q)
  <2>1. poll' = [poll EXCEPT ![p] = [poll[p] EXCEPT !.pc = pc]]
    BY <1>6 DEF PollGoto
  <2>2. poll'[q] = poll[q] \/ (q = p /\ poll'[q] = [poll[p] EXCEPT !.pc = pc])
    BY <1>2, <2>1
  <2> QED
    BY <1>6, <2>2 DEF PollMove
<1>7. ASSUME NEW p \in Polls, PollPace(p) PROVE PollMove(q)
  BY <1>3, <1>6, <1>7 DEF PollPace
<1>8. ASSUME NEW p \in Polls, PollAuthorize(p) PROVE PollMove(q)
  BY <1>3, <1>6, <1>8 DEF PollAuthorize, PollsSeeTheApproval
<1>9. ASSUME NEW p \in Polls,
             \/ PollExpire(p) \/ PollSlowDown(p) \/ PollConsume(p)
             \/ PollAborts(p)
      PROVE  PollMove(q)
  BY <1>3, <1>9 DEF PollExpire, PollSlowDown, PollConsume, PollAborts
<1>10. \/ UNCHANGED poll
       \/ \E p \in Polls : \/ \E c \in Codes : PollLoad(p, c)
                          \/ PollStamp(p) \/ PollPace(p) \/ PollAuthorize(p)
                          \/ PollExpire(p) \/ PollSlowDown(p)
                          \/ PollConsume(p) \/ PollAborts(p)
  BY DEF Next, PollStep, VerifyStep, Tick, ChangeGrants,
         CreateDeviceAuthorization, VerifyLoad, VerifyStamp, VerifyDeny,
         VerifyAuthorize, VerifyApprove, VerifyAborts, vars
<1> QED
  BY <1>1, <1>4, <1>5, <1>7, <1>8, <1>9, <1>10

\* What every token request has read about an approval stays true.
LEMMA PollsSeeTheApprovalStep ==
  ASSUME IInv, [Next]_vars
  PROVE  PollsSeeTheApproval'
<1> USE DEF IInv
<1> SUFFICES ASSUME NEW q \in Polls
    PROVE  LET h == poll'[q]  row == device'[h.code] IN
           /\ h.pc \in {"authorize", "consume"} => h.seen.status = "approved"
           /\ h.pc # "idle" /\ h.seen.status = "approved" =>
                /\ row.status \in {"approved", "expired", "consumed"}
                /\ row.subject = h.seen.subject /\ row.subject # NoSubject
                /\ row.approvedAt <= (IF h.pc = "loaded" THEN clock' ELSE h.now)
  BY DEF PollsSeeTheApproval
<1> DEFINE h == poll[q]
           row == device[h.code]
           H == /\ h.pc \in {"authorize", "consume"} => h.seen.status = "approved"
                /\ h.pc # "idle" /\ h.seen.status = "approved" =>
                     /\ row.status \in {"approved", "expired", "consumed"}
                     /\ row.subject = h.seen.subject /\ row.subject # NoSubject
                     /\ row.approvedAt <= (IF h.pc = "loaded" THEN clock ELSE h.now)
<1>1. H
  BY DEF PollsSeeTheApproval
<1>2. /\ h.pc # "idle" => h.code \in Codes
      /\ clock \in Nat /\ clock' \in Nat /\ clock <= clock'
      /\ \A c \in Codes : device[c].approvedAt \in Nat
      /\ h \in Requests(PollPCs, {NoSubject})
  <2>1. clock \in Nat /\ clock' \in Nat /\ clock <= clock'
    BY TypingStep, ClockAdvances DEF TypeOK
  <2>2. \A c \in Codes : device[c].approvedAt \in Nat
    BY DEF TypeOK, Rows
  <2> QED
    BY <2>1, <2>2 DEF TypeOK, PollTypeOK
<1>3. h.pc # "idle" /\ h.seen.status = "approved" =>
        /\ device'[h.code].status \in {"approved", "expired", "consumed"}
        /\ SameDecision(row, device'[h.code])
  BY <1>1, <1>2, ApprovalStands
<1>4. CASE poll'[q] = poll[q]
  BY <1>1, <1>2, <1>3, <1>4 DEF SameDecision
<1>5. CASE poll'[q] = Idle
  BY <1>5 DEF Idle
<1>6. ASSUME UNCHANGED <<clock, device>>, NEW c \in Codes,
             poll'[q] = [Idle EXCEPT !.pc = "loaded", !.code = c,
                                     !.seen = device[c]]
      PROVE  /\ poll'[q].pc = "loaded" /\ poll'[q].code = c
             /\ poll'[q].seen = device'[c] /\ clock' = clock
  BY <1>6 DEF Idle
<1>7. \A c \in Codes :
        /\ device[c].approvedAt <= clock
        /\ device[c].status = "approved" => device[c].subject # NoSubject
  BY DEF RowsCoherent
<1>8. ASSUME UNCHANGED <<clock, device>>, h.pc = "loaded",
             NEW pc \in {"expire", "slow", "pace"},
             poll'[q] = [h EXCEPT !.now = clock, !.seen = Decision(h.seen),
                                  !.pc = pc]
      PROVE  /\ poll'[q].pc = pc /\ poll'[q].code = h.code
             /\ poll'[q].now = clock /\ device' = device
             /\ poll'[q].seen.status = h.seen.status
             /\ poll'[q].seen.subject = h.seen.subject
  BY <1>2, <1>8 DEF Requests, Decision, NoRow
<1>9. ASSUME h.pc \in {"pace", "authorize"}, h.seen.status = "approved",
             NEW pc \in {"authorize", "consume"},
             poll'[q] = [h EXCEPT !.pc = pc]
      PROVE  /\ poll'[q].pc = pc /\ poll'[q].code = h.code
             /\ poll'[q].now = h.now /\ poll'[q].seen = h.seen
  BY <1>2, <1>9 DEF Requests
<1>10. PollMove(q)
  BY PollsMove
<1> QED
  <2>1. CASE \E c \in Codes :
               /\ UNCHANGED <<clock, device>>
               /\ poll'[q] = [Idle EXCEPT !.pc = "loaded", !.code = c,
                                          !.seen = device[c]]
    BY <2>1, <1>6, <1>7
  <2>2. CASE /\ UNCHANGED <<clock, device>>
             /\ h.pc = "loaded"
             /\ \E pc \in {"expire", "slow", "pace"} :
                  poll'[q] = [h EXCEPT !.now = clock, !.seen = Decision(h.seen),
                                       !.pc = pc]
    BY <2>2, <1>1, <1>2, <1>8
  <2>3. CASE /\ h.pc \in {"pace", "authorize"}
             /\ h.seen.status = "approved"
             /\ \E pc \in {"authorize", "consume"} :
                  poll'[q] = [h EXCEPT !.pc = pc]
    BY <2>3, <1>1, <1>2, <1>3, <1>9 DEF SameDecision
  <2> QED
    BY <1>4, <1>5, <1>10, <2>1, <2>2, <2>3 DEF PollMove

\* Requests keep pointing at rows that exist, with clocks from the past.
LEMMA RequestsCoherentStep ==
  ASSUME IInv, [Next]_vars
  PROVE  RequestsCoherent'
<1> USE DEF IInv
<1>1. clock \in Nat /\ clock' \in Nat /\ clock <= clock'
  BY TypingStep, ClockAdvances DEF TypeOK
<1>2. ASSUME NEW c \in Codes, device[c].status # "none"
      PROVE  device'[c].status # "none"
  BY <1>2, RowsAdvance DEF Advance
<1>3. ASSUME NEW q \in Polls, poll'[q].pc # "idle"
      PROVE  device'[poll'[q].code].status # "none" /\ poll'[q].now <= clock'
  <2>1. /\ poll[q] \in Requests(PollPCs, {NoSubject})
        /\ poll[q].pc # "idle" => poll[q].code \in Codes
    BY DEF TypeOK, PollTypeOK
  <2>2. poll[q].pc # "idle" =>
          device[poll[q].code].status # "none" /\ poll[q].now <= clock
    BY DEF RequestsCoherent
  <2>3. poll[q].now \in Nat /\ PollMove(q)
    BY <2>1, PollsMove DEF Requests
  <2>4. CASE poll'[q] = poll[q]
    BY <1>1, <1>2, <1>3, <2>1, <2>2, <2>3, <2>4
  <2>5. CASE poll'[q] = Idle
    BY <1>3, <2>5 DEF Idle
  <2>6. CASE \E c \in Codes :
               /\ device[c].status # "none"
               /\ poll'[q] = [Idle EXCEPT !.pc = "loaded", !.code = c,
                                          !.seen = device[c]]
    <3>1. PICK c \in Codes :
               /\ device[c].status # "none"
               /\ poll'[q] = [Idle EXCEPT !.pc = "loaded", !.code = c,
                                          !.seen = device[c]]
      BY <2>6
    <3>2. poll'[q].code = c /\ poll'[q].now = 0
      BY <3>1 DEF Idle
    <3> QED
      BY <1>1, <1>2, <3>1, <3>2
  <2>7. CASE /\ poll[q].pc = "loaded"
             /\ \E pc \in {"expire", "slow", "pace"} :
                  poll'[q] = [poll[q] EXCEPT !.now = clock,
                                     !.seen = Decision(poll[q].seen), !.pc = pc]
    <3>1. poll'[q].code = poll[q].code /\ poll'[q].now = clock
      BY <2>1, <2>7 DEF Requests
    <3> QED
      BY <1>1, <1>2, <2>1, <2>2, <2>7, <3>1
  <2>8. CASE /\ poll[q].pc \in {"pace", "authorize"}
             /\ \E pc \in {"authorize", "consume"} :
                  poll'[q] = [poll[q] EXCEPT !.pc = pc]
    <3>1. poll'[q].code = poll[q].code /\ poll'[q].now = poll[q].now
      BY <2>1, <2>8 DEF Requests
    <3> QED
      BY <1>1, <1>2, <2>1, <2>2, <2>3, <2>8, <3>1
  <2> QED
    BY <2>3, <2>4, <2>5, <2>6, <2>7, <2>8 DEF PollMove
<1>4. ASSUME NEW w \in Verifs, verify'[w].pc # "idle"
      PROVE  verify'[w].now <= clock'
  <2>1. /\ verify[w] \in Requests(VerifyPCs, Subjects \cup {NoSubject})
        /\ verify[w].pc # "idle" => verify[w].now <= clock
    BY DEF TypeOK, VerifyTypeOK, RequestsCoherent
  <2>2. verify[w].now \in Nat
    BY <2>1 DEF Requests
  <2>3. ASSUME NEW v \in Verifs, NEW h, verify' = [verify EXCEPT ![v] = h]
        PROVE  (verify'[w] = h /\ w = v) \/ verify'[w] = verify[w]
    BY <2>3 DEF TypeOK, VerifyTypeOK
  <2>4. CASE verify'[w] = verify[w]
    BY <1>1, <1>4, <2>1, <2>2, <2>4
  <2>5. ASSUME NEW v \in Verifs, VerifyDone(v) PROVE verify'[w].now <= clock'
    BY <1>4, <2>3, <2>4, <2>5 DEF VerifyDone, Idle
  <2>6. ASSUME NEW v \in Verifs, NEW s \in Subjects, NEW c \in Codes,
               VerifyLoad(v, s, c)
        PROVE  verify'[w].now <= clock'
    <3> DEFINE h == [Idle EXCEPT !.pc = "loaded", !.code = c, !.by = s,
                                 !.seen = device[c]]
    <3>1. verify' = [verify EXCEPT ![v] = h] /\ h.now = 0
      BY <2>6 DEF VerifyLoad, Idle
    <3> HIDE DEF h
    <3> QED
      BY <1>1, <2>3, <2>4, <3>1
  <2>7. ASSUME NEW v \in Verifs, NEW choice \in {"authorize", "deny"},
               VerifyStamp(v, choice)
        PROVE  verify'[w].now <= clock'
    <3> DEFINE h == [verify[v] EXCEPT !.now = clock, !.pc = choice,
                                      !.seen = Decision(verify[v].seen)]
    <3>1. VerifyDone(v) \/ verify' = [verify EXCEPT ![v] = h]
      BY <2>7 DEF VerifyStamp
    <3>2. h.now = clock
      BY DEF TypeOK, VerifyTypeOK, Requests
    <3> HIDE DEF h
    <3> QED
      BY <1>1, <2>3, <2>4, <2>5, <3>1, <3>2
  <2>8. ASSUME NEW v \in Verifs, VerifyAuthorize(v)
        PROVE  verify'[w].now <= clock'
    <3> DEFINE h == [verify[v] EXCEPT !.pc = "approve"]
    <3>1. VerifyDone(v) \/ verify' = [verify EXCEPT ![v] = h]
      BY <2>8 DEF VerifyAuthorize, VerifyGoto
    <3>2. h.now = verify[v].now /\ verify[v].pc # "idle"
      BY <2>8 DEF TypeOK, VerifyTypeOK, Requests, VerifyAuthorize
    <3> HIDE DEF h
    <3> QED
      BY <1>1, <2>1, <2>2, <2>3, <2>4, <2>5, <3>1, <3>2
  <2>9. ASSUME NEW v \in Verifs,
               VerifyDeny(v) \/ VerifyApprove(v) \/ VerifyAborts(v)
        PROVE  verify'[w].now <= clock'
    BY <2>5, <2>9 DEF VerifyDeny, VerifyApprove, VerifyAborts
  <2>10. \/ UNCHANGED verify
         \/ \E v \in Verifs :
              \/ \E s \in Subjects, c \in Codes : VerifyLoad(v, s, c)
              \/ \E choice \in {"authorize", "deny"} : VerifyStamp(v, choice)
              \/ VerifyAuthorize(v) \/ VerifyDeny(v) \/ VerifyApprove(v)
              \/ VerifyAborts(v)
    BY DEF Next, PollStep, VerifyStep, Tick, ChangeGrants,
           CreateDeviceAuthorization, PollLoad, PollStamp, PollExpire,
           PollSlowDown, PollPace, PollAuthorize, PollConsume, PollAborts, vars
  <2> QED
    BY <2>4, <2>6, <2>7, <2>8, <2>9, <2>10
<1> QED
  BY <1>3, <1>4 DEF RequestsCoherent
-----------------------------------------------------------------------------
(* The sessions *)

\* The one transaction that issues a token, seen from the outside.
Redeemed(c, new) ==
  /\ device[c].status = "approved"
  /\ device'[c].status = "consumed"
  /\ \A d \in Codes \ {c} : device'[d] = device[d]
  /\ new.code = c
  /\ new.subject = device[c].subject
  /\ device[c].approvedAt <= new.createdAt
  /\ new.createdAt < device[c].expiresAt
  /\ sessions' = Append(sessions, new)

\* ConsumeDeviceAuthorizationAndCreateToken commits both writes or neither.
LEMMA ConsumeRedeems ==
  ASSUME IInv, NEW p \in Polls, PollConsume(p)
  PROVE  \/ UNCHANGED <<device, sessions>>
         \/ \E c \in Codes, new \in SessionRows : Redeemed(c, new)
<1> USE DEF IInv
<1> DEFINE c == poll[p].code
           new == [code |-> c, subject |-> poll[p].seen.subject,
                   createdAt |-> poll[p].now]
<1>1. /\ c \in Codes /\ device[c] \in Rows
      /\ poll[p].pc = "consume"
      /\ new \in SessionRows
  BY DEF PollConsume, TypeOK, PollTypeOK, Requests, SessionRows
<1>2. CASE ~Consumable(c, poll[p].now)
  BY <1>2 DEF PollConsume
<1>3. CASE Consumable(c, poll[p].now)
  <2>1. /\ device' = [device EXCEPT ![c].status = "consumed"]
        /\ sessions' = Append(sessions, new)
    BY <1>3 DEF PollConsume
  <2>2. /\ device'[c].status = "consumed"
        /\ \A d \in Codes \ {c} : device'[d] = device[d]
    BY <1>1, <2>1 DEF TypeOK, Rows
  <2>3. /\ poll[p].seen.subject = device[c].subject
        /\ device[c].approvedAt <= poll[p].now
    BY <1>1 DEF PollsSeeTheApproval
  <2>4. device[c].status = "approved" /\ poll[p].now < device[c].expiresAt
    <3>1. poll[p].now \in Nat /\ device[c].expiresAt \in Nat
      BY <1>1 DEF TypeOK, PollTypeOK, Requests, Rows
    <3> QED
      BY <1>3, <3>1 DEF Consumable
  <2>5. Redeemed(c, new)
    BY <2>1, <2>2, <2>3, <2>4 DEF Redeemed
  <2> HIDE DEF c, new
  <2> QED
    BY <1>1, <2>5
<1> QED
  BY <1>2, <1>3

\* A session is appended exactly when a code is consumed, with the subject and
\* the times of its approval.
LEMMA SessionsMove ==
  ASSUME IInv, [Next]_vars
  PROVE  \/ /\ sessions' = sessions
            /\ \A c \in Codes : device'[c].status = "consumed" =>
                                 device[c].status = "consumed"
         \/ \E c \in Codes, new \in SessionRows : Redeemed(c, new)
<1> USE DEF IInv
<1> DEFINE Quiet == /\ sessions' = sessions
                    /\ \A c \in Codes : device'[c].status = "consumed" =>
                                         device[c].status = "consumed"
<1>1. ASSUME sessions' = sessions, NEW c \in Codes, NEW row,
             device' = [device EXCEPT ![c] = row],
             row.status = "consumed" => device[c].status = "consumed"
      PROVE  Quiet
  <2>1. ASSUME NEW d \in Codes
        PROVE  device'[d] = IF d = c THEN row ELSE device[d]
    BY <1>1 DEF TypeOK
  <2> QED
    BY <1>1, <2>1
<1>2. ASSUME sessions' = sessions, UNCHANGED device PROVE Quiet
  BY <1>2
<1>3. ASSUME NEW c \in Codes, CreateDeviceAuthorization(c) PROVE Quiet
  <2> DEFINE row == [NoRow EXCEPT !.status = "pending",
                                  !.expiresAt = clock + DeviceTTL,
                                  !.interval = PollInterval]
  <2>1. device' = [device EXCEPT ![c] = row] /\ row.status = "pending"
        /\ sessions' = sessions
    BY <1>3 DEF CreateDeviceAuthorization, NoRow
  <2> HIDE DEF row, Quiet
  <2> QED
    BY <1>1, <2>1
<1>4. ASSUME NEW p \in Polls, PollExpire(p) PROVE Quiet
  <2> SUFFICES ASSUME NEW c \in Codes, device' = MarkExpired(poll[p].now),
                      device'[c].status = "consumed"
               PROVE  device[c].status = "consumed"
    BY <1>2, <1>4 DEF PollExpire
  <2>1. device[c] \in Rows
    BY DEF TypeOK
  <2> QED
    BY <2>1 DEF MarkExpired, Rows
<1>5. ASSUME NEW p \in Polls, PollSlowDown(p) PROVE Quiet
  <2> DEFINE c == poll[p].code
             row == [device[c] EXCEPT !.lastPoll = poll[p].now,
                                      !.interval = Lengthened(device[c].interval)]
  <2>1. c \in Codes /\ device[c] \in Rows /\ sessions' = sessions
    BY <1>5 DEF PollSlowDown, TypeOK, PollTypeOK
  <2>2. row.status = device[c].status
    BY <2>1 DEF Rows
  <2>3. UNCHANGED device \/ device' = [device EXCEPT ![c] = row]
    BY <1>5 DEF PollSlowDown
  <2> HIDE DEF row, c, Quiet
  <2> QED
    BY <1>1, <1>2, <2>1, <2>2, <2>3
<1>6. ASSUME NEW p \in Polls, PollPace(p) PROVE Quiet
  <2> DEFINE c == poll[p].code
             row == [device[c] EXCEPT !.lastPoll = poll[p].now]
  <2>1. c \in Codes /\ device[c] \in Rows /\ sessions' = sessions
    BY <1>6 DEF PollPace, TypeOK, PollTypeOK
  <2>2. row.status = device[c].status
    BY <2>1 DEF Rows
  <2>3. UNCHANGED device \/ device' = [device EXCEPT ![c] = row]
    BY <1>6 DEF PollPace
  <2> HIDE DEF row, c, Quiet
  <2> QED
    BY <1>1, <1>2, <2>1, <2>2, <2>3
<1>7. ASSUME NEW v \in Verifs, VerifyDeny(v) PROVE Quiet
  <2> DEFINE c == verify[v].code
             row == [device[c] EXCEPT !.status = "denied"]
  <2>1. c \in Codes /\ device[c] \in Rows /\ sessions' = sessions
    BY <1>7 DEF VerifyDeny, TypeOK, VerifyTypeOK
  <2>2. row.status = "denied"
    BY <2>1 DEF Rows
  <2>3. UNCHANGED device \/ device' = [device EXCEPT ![c] = row]
    BY <1>7 DEF VerifyDeny
  <2> HIDE DEF row, c, Quiet
  <2> QED
    BY <1>1, <1>2, <2>1, <2>2, <2>3
<1>8. ASSUME NEW v \in Verifs, VerifyApprove(v) PROVE Quiet
  <2> DEFINE c == verify[v].code
             row == [device[c] EXCEPT !.status = "approved",
                                      !.subject = verify[v].by,
                                      !.approvedAt = verify[v].now]
  <2>1. c \in Codes /\ device[c] \in Rows /\ sessions' = sessions
    BY <1>8 DEF VerifyApprove, TypeOK, VerifyTypeOK
  <2>2. row.status = "approved"
    BY <2>1 DEF Rows
  <2>3. UNCHANGED device \/ device' = [device EXCEPT ![c] = row]
    BY <1>8 DEF VerifyApprove
  <2> HIDE DEF row, c, Quiet
  <2> QED
    BY <1>1, <1>2, <2>1, <2>2, <2>3
<1>9. ASSUME NEW p \in Polls, PollConsume(p)
      PROVE  Quiet \/ \E c \in Codes, new \in SessionRows : Redeemed(c, new)
  BY <1>2, <1>9, ConsumeRedeems
<1>10. \/ UNCHANGED device /\ sessions' = sessions
       \/ \E c \in Codes : CreateDeviceAuthorization(c)
       \/ \E p \in Polls : \/ PollExpire(p) \/ PollSlowDown(p) \/ PollPace(p)
                          \/ PollConsume(p)
       \/ \E v \in Verifs : VerifyDeny(v) \/ VerifyApprove(v)
  BY DEF Next, PollStep, VerifyStep, Tick, ChangeGrants, PollLoad, PollStamp,
         PollAuthorize, PollAborts, VerifyLoad, VerifyStamp, VerifyAuthorize,
         VerifyAborts, vars
<1> HIDE DEF Quiet
<1>11. Quiet \/ \E c \in Codes, new \in SessionRows : Redeemed(c, new)
  BY <1>2, <1>3, <1>4, <1>5, <1>6, <1>7, <1>8, <1>9, <1>10
<1> QED
  BY <1>11 DEF Quiet

\* The three safety properties of sessions are kept by every step.
LEMMA SessionsStep ==
  ASSUME IInv, [Next]_vars
  PROVE  OneTokenPerCode' /\ ConsumedIffIssued' /\ IssuedInsideWindow'
<1> USE DEF IInv
<1>1. /\ sessions \in Seq(SessionRows)
      /\ \A i \in 1 .. Len(sessions) : sessions[i].code \in Codes
  <2>1. sessions \in Seq(SessionRows)
    BY DEF TypeOK
  <2>2. \A i \in 1 .. Len(sessions) : sessions[i] \in SessionRows
    BY <2>1
  <2> QED
    BY <2>1, <2>2 DEF SessionRows
<1>2. \A i \in 1 .. Len(sessions) :
        LET old == device[sessions[i].code]  new == device'[sessions[i].code] IN
        /\ old.status = "consumed" /\ old.subject = sessions[i].subject
        /\ new.status = "consumed" /\ new.subject = sessions[i].subject
        /\ new.approvedAt = old.approvedAt /\ new.expiresAt = old.expiresAt
  <2> SUFFICES ASSUME NEW i \in 1 .. Len(sessions)
      PROVE LET old == device[sessions[i].code]  new == device'[sessions[i].code] IN
        /\ old.status = "consumed" /\ old.subject = sessions[i].subject
        /\ new.status = "consumed" /\ new.subject = sessions[i].subject
        /\ new.approvedAt = old.approvedAt /\ new.expiresAt = old.expiresAt
    OBVIOUS
  <2> DEFINE c == sessions[i].code
  <2>1. device[c].status = "consumed" /\ device[c].subject = sessions[i].subject
    BY DEF ConsumedIffIssued
  <2>2. Advance(device[c], device'[c])
    BY <1>1, RowsAdvance
  <2> QED
    BY <2>1, <2>2 DEF Advance, SameDecision, Open
<1>3. CASE /\ sessions' = sessions
           /\ \A c \in Codes : device'[c].status = "consumed" =>
                                device[c].status = "consumed"
  <2>1. OneTokenPerCode'
    BY <1>3 DEF OneTokenPerCode
  <2>2. ConsumedIffIssued'
    BY <1>2, <1>3 DEF ConsumedIffIssued
  <2>3. IssuedInsideWindow'
    BY <1>2, <1>3 DEF IssuedInsideWindow
  <2> QED
    BY <2>1, <2>2, <2>3
<1>4. ASSUME NEW c \in Codes, NEW new \in SessionRows, Redeemed(c, new)
      PROVE  OneTokenPerCode' /\ ConsumedIffIssued' /\ IssuedInsideWindow'
  <2>1. /\ Len(sessions') = Len(sessions) + 1
        /\ sessions'[Len(sessions) + 1] = new
        /\ \A i \in 1 .. Len(sessions) : sessions'[i] = sessions[i]
        /\ Len(sessions) \in Nat
    BY <1>1, <1>4 DEF Redeemed
  <2>2. \A i \in 1 .. Len(sessions) : sessions[i].code # c
    BY <1>2, <1>4 DEF Redeemed
  <2>3. new.code = c
    BY <1>4 DEF Redeemed
  <2>4. /\ device'[c].status = "consumed"
        /\ device'[c].subject = new.subject
        /\ device'[c].approvedAt <= new.createdAt
        /\ new.createdAt < device'[c].expiresAt
    <3>1. Advance(device[c], device'[c])
      BY RowsAdvance
    <3> QED
      BY <1>4, <3>1 DEF Redeemed, Advance, SameDecision, Open
  <2>5. OneTokenPerCode'
    BY <2>1, <2>2, <2>3 DEF OneTokenPerCode
  <2>6. ConsumedIffIssued'
    <3>1. ASSUME NEW i \in 1 .. Len(sessions')
          PROVE  /\ device'[sessions'[i].code].status = "consumed"
                 /\ device'[sessions'[i].code].subject = sessions'[i].subject
      <4>1. i \in 1 .. Len(sessions) \/ i = Len(sessions) + 1
        BY <2>1
      <4> QED
        BY <1>2, <2>1, <2>3, <2>4, <4>1
    <3>2. ASSUME NEW d \in Codes, device'[d].status = "consumed"
          PROVE  \E i \in 1 .. Len(sessions') : sessions'[i].code = d
      <4>1. CASE d = c
        BY <2>1, <2>3, <4>1
      <4>2. CASE d # c
        <5>1. device[d].status = "consumed"
          BY <1>4, <3>2, <4>2 DEF Redeemed
        <5>2. PICK i \in 1 .. Len(sessions) : sessions[i].code = d
          BY <5>1 DEF ConsumedIffIssued
        <5> QED
          BY <2>1, <5>2
      <4> QED
        BY <4>1, <4>2
    <3> QED
      BY <3>1, <3>2 DEF ConsumedIffIssued
  <2>7. IssuedInsideWindow'
    <3> SUFFICES ASSUME NEW i \in 1 .. Len(sessions')
        PROVE LET row == device'[sessions'[i].code] IN
              /\ row.approvedAt <= sessions'[i].createdAt
              /\ sessions'[i].createdAt < row.expiresAt
      BY DEF IssuedInsideWindow
    <3>1. i \in 1 .. Len(sessions) \/ i = Len(sessions) + 1
      BY <2>1
    <3>2. CASE i \in 1 .. Len(sessions)
      BY <1>2, <2>1, <3>2 DEF IssuedInsideWindow
    <3>3. CASE i = Len(sessions) + 1
      BY <2>1, <2>3, <2>4, <3>3
    <3> QED
      BY <3>1, <3>2, <3>3
  <2> QED
    BY <2>5, <2>6, <2>7
<1> QED
  BY <1>3, <1>4, SessionsMove

\* The invariant is inductive.
LEMMA InvariantStep == IInv /\ [Next]_vars => IInv'
BY TypingStep, RowsCoherentStep, RequestsCoherentStep, PollsSeeTheApprovalStep,
   SessionsStep
   DEF IInv
-----------------------------------------------------------------------------
(* The theorems *)

\* The inductive invariant holds of every behaviour of the device grant.
THEOREM Invariance == Spec => []IInv
BY InvariantInit, InvariantStep, PTL DEF Spec

\* Every variable keeps its type, the handlers' private state included.
THEOREM TypeCorrectness == Spec => []TypeOK
<1>1. IInv => TypeOK
  BY DEF IInv
<1> QED
  BY <1>1, Invariance, PTL

\* However many requests race for however many codes, a device code yields at
\* most one session.
THEOREM SingleUse == Spec => []OneTokenPerCode
<1>1. IInv => OneTokenPerCode
  BY DEF IInv
<1> QED
  BY <1>1, Invariance, PTL

\* A code is consumed exactly when its session exists, and the session belongs
\* to the subject that approved the code.
THEOREM TokenBelongsToApprover == Spec => []ConsumedIffIssued
<1>1. IInv => ConsumedIffIssued
  BY DEF IInv
<1> QED
  BY <1>1, Invariance, PTL

\* No token is stamped before its approval, nor at or after its code's expiry.
THEOREM TokenInsideWindow == Spec => []IssuedInsideWindow
<1>1. IInv => IssuedInsideWindow
  BY DEF IInv
<1> QED
  BY <1>1, Invariance, PTL

\* What a poll in flight has read about an approval is never overtaken.
THEOREM PollsReadTruth == Spec => []PollsSeeTheApproval
<1>1. IInv => PollsSeeTheApproval
  BY DEF IInv
<1> QED
  BY <1>1, Invariance, PTL

\* Decisions about a code are made once and never revised.
THEOREM DecisionFinality == Spec => DecisionsAreFinal
<1> DEFINE Kept ==
      \A c \in Codes :
        /\ device[c].status \in Closed => device'[c].status = device[c].status
        /\ device[c].status = "approved" =>
             device'[c].status \in {"approved", "expired", "consumed"}
        /\ device[c].subject # NoSubject =>
             device'[c].subject = device[c].subject
<1>1. ASSUME IInv, [Next]_vars PROVE Kept
  <2> SUFFICES ASSUME NEW c \in Codes
      PROVE /\ device[c].status \in Closed => device'[c].status = device[c].status
            /\ device[c].status = "approved" =>
                 device'[c].status \in {"approved", "expired", "consumed"}
            /\ device[c].subject # NoSubject =>
                 device'[c].subject = device[c].subject
    OBVIOUS
  <2>1. Advance(device[c], device'[c])
    BY <1>1, RowsAdvance DEF IInv
  <2>2. device[c].subject # NoSubject =>
          SameDecision(device[c], device'[c])
    BY <1>1, ApprovalStands DEF IInv
  <2> QED
    BY <2>1, <2>2 DEF Advance, SameDecision, Open, Closed
<1>2. IInv /\ [Next]_vars => [Kept]_vars
  BY <1>1
<1> QED
  BY <1>2, Invariance, PTL DEF Spec, DecisionsAreFinal
-----------------------------------------------------------------------------
(* Refinement *)

\* The initial states are initial states of the promise.
LEMMA PromiseInit == Init => Promise!Init
<1> SUFFICES ASSUME Init PROVE Promise!Init
  OBVIOUS
<1>1. /\ [c \in Codes |-> device[c].status] = [c \in Codes |-> "none"]
      /\ [c \in Codes |-> device[c].subject] = [c \in Codes |-> NoSubject]
  BY DEF Init, NoRow
<1>2. [i \in 1 .. Len(sessions) |->
         [code |-> sessions[i].code, subject |-> sessions[i].subject]] = << >>
  BY DEF Init
<1> QED
  BY <1>1, <1>2 DEF Promise!Init

Phase  == [c \in Codes |-> device[c].status]
Owner  == [c \in Codes |-> device[c].subject]
Tokens == [i \in 1 .. Len(sessions) |->
             [code |-> sessions[i].code, subject |-> sessions[i].subject]]

\* A step that only moves one row's phase and owner maps to a step of the
\* promise; the table is compared column by column.
LEMMA Columns ==
  ASSUME TypeOK, NEW c \in Codes, NEW row,
         device' = [device EXCEPT ![c] = row]
  PROVE  /\ Phase' = [Phase EXCEPT ![c] = row.status]
         /\ Owner' = [Owner EXCEPT ![c] = row.subject]
BY DEF TypeOK, Phase, Owner

\* Every step of the device grant is a step of the promise, or none.
LEMMA PromiseStep ==
  ASSUME IInv, [Next]_vars
  PROVE  [Promise!Next]_(Promise!vars)
<1> USE DEF IInv
<1> DEFINE Goal == \/ UNCHANGED <<Phase, Owner, Tokens>>
                   \/ Promise!Next
<1>1. ASSUME UNCHANGED device, sessions' = sessions PROVE Goal
  BY <1>1 DEF Phase, Owner, Tokens
<1>2. ASSUME sessions' = sessions PROVE Tokens' = Tokens
  BY <1>2 DEF Tokens
<1>3. ASSUME sessions' = sessions, NEW c \in Codes, NEW row,
             device' = [device EXCEPT ![c] = row],
             row.status = device[c].status, row.subject = device[c].subject
      PROVE  Goal
  <2>1. Phase' = Phase /\ Owner' = Owner
    BY <1>3 DEF Phase, Owner, TypeOK
  <2> QED
    BY <1>2, <1>3, <2>1
<1>4. ASSUME NEW c \in Codes, CreateDeviceAuthorization(c) PROVE Goal
  <2> DEFINE row == [NoRow EXCEPT !.status = "pending",
                                  !.expiresAt = clock + DeviceTTL,
                                  !.interval = PollInterval]
  <2>1. /\ device' = [device EXCEPT ![c] = row] /\ sessions' = sessions
        /\ row.status = "pending" /\ row.subject = NoSubject
        /\ device[c].status = "none"
    BY <1>4 DEF CreateDeviceAuthorization, NoRow
  <2> HIDE DEF row
  <2>2. device[c].subject = NoSubject
    BY <2>1 DEF RowsCoherent
  <2>3. Phase' = [Phase EXCEPT ![c] = "pending"] /\ Owner' = Owner
    BY <2>1, <2>2 DEF Phase, Owner, TypeOK
  <2>4. Promise!Start(c)
    BY <1>2, <2>1, <2>3 DEF Promise!Start, Phase, Owner, Tokens
  <2> QED
    BY <2>4 DEF Promise!Next
<1>5. ASSUME NEW p \in Polls, PollExpire(p) PROVE Goal
  <2> SUFFICES ASSUME device' = MarkExpired(poll[p].now), sessions' = sessions
               PROVE  Goal
    BY <1>1, <1>5 DEF PollExpire
  <2> DEFINE C == {c \in Codes : /\ device[c].status \in Open
                                 /\ device[c].expiresAt <= poll[p].now}
  <2>1. ASSUME NEW c \in Codes
        PROVE  /\ device'[c].status = IF c \in C THEN "expired" ELSE device[c].status
               /\ device'[c].subject = device[c].subject
    <3>1. device[c] \in Rows
      BY DEF TypeOK
    <3> QED
      BY <3>1 DEF MarkExpired, Rows
  <2>2. /\ Phase' = [c \in Codes |-> IF c \in C THEN "expired" ELSE Phase[c]]
        /\ Owner' = Owner
    BY <2>1 DEF Phase, Owner
  <2>3. PICK D \in SUBSET Codes : D = C
    OBVIOUS
  <2>4. Promise!Expire(D)
    BY <1>2, <2>2, <2>3
    DEF Promise!Expire, Promise!Open, Open, Phase, Owner, Tokens
  <2> QED
    BY <2>4 DEF Promise!Next
<1>6. ASSUME NEW p \in Polls, PollSlowDown(p) PROVE Goal
  <2> DEFINE c == poll[p].code
             row == [device[c] EXCEPT !.lastPoll = poll[p].now,
                                      !.interval = Lengthened(device[c].interval)]
  <2>1. c \in Codes /\ device[c] \in Rows /\ sessions' = sessions
    BY <1>6 DEF PollSlowDown, TypeOK, PollTypeOK
  <2>2. row.status = device[c].status /\ row.subject = device[c].subject
    BY <2>1 DEF Rows
  <2>3. UNCHANGED device \/ device' = [device EXCEPT ![c] = row]
    BY <1>6 DEF PollSlowDown
  <2> HIDE DEF row, c, Goal
  <2> QED
    BY <1>1, <1>3, <2>1, <2>2, <2>3
<1>7. ASSUME NEW p \in Polls, PollPace(p) PROVE Goal
  <2> DEFINE c == poll[p].code
             row == [device[c] EXCEPT !.lastPoll = poll[p].now]
  <2>1. c \in Codes /\ device[c] \in Rows /\ sessions' = sessions
    BY <1>7 DEF PollPace, TypeOK, PollTypeOK
  <2>2. row.status = device[c].status /\ row.subject = device[c].subject
    BY <2>1 DEF Rows
  <2>3. UNCHANGED device \/ device' = [device EXCEPT ![c] = row]
    BY <1>7 DEF PollPace
  <2> HIDE DEF row, c, Goal
  <2> QED
    BY <1>1, <1>3, <2>1, <2>2, <2>3
<1>8. ASSUME NEW v \in Verifs, VerifyDeny(v) PROVE Goal
  <2> DEFINE c == verify[v].code
             row == [device[c] EXCEPT !.status = "denied"]
  <2>1. c \in Codes /\ device[c] \in Rows /\ sessions' = sessions
    BY <1>8 DEF VerifyDeny, TypeOK, VerifyTypeOK
  <2>2. row.status = "denied" /\ row.subject = device[c].subject
    BY <2>1 DEF Rows
  <2>3. \/ UNCHANGED device
        \/ /\ device[c].status = "pending"
           /\ device' = [device EXCEPT ![c] = row]
    BY <1>8 DEF VerifyDeny, Decidable
  <2> HIDE DEF row, c
  <2>4. CASE device[c].status = "pending" /\ device' = [device EXCEPT ![c] = row]
    <3>1. Phase' = [Phase EXCEPT ![c] = "denied"] /\ Owner' = Owner
      BY <2>1, <2>2, <2>4 DEF Phase, Owner, TypeOK
    <3>2. PICK d \in Codes : d = c
      BY <2>1
    <3>3. Promise!Deny(d)
      BY <1>2, <2>1, <2>4, <3>1, <3>2 DEF Promise!Deny, Phase, Owner, Tokens
    <3> QED
      BY <3>3 DEF Promise!Next
  <2> HIDE DEF Goal
  <2> QED
    BY <1>1, <2>1, <2>3, <2>4
<1>9. ASSUME NEW v \in Verifs, VerifyApprove(v) PROVE Goal
  <2> DEFINE c == verify[v].code
             s == verify[v].by
             row == [device[c] EXCEPT !.status = "approved", !.subject = s,
                                      !.approvedAt = verify[v].now]
  <2>1. /\ c \in Codes /\ device[c] \in Rows /\ sessions' = sessions
        /\ s \in Subjects
    BY <1>9 DEF VerifyApprove, TypeOK, VerifyTypeOK
  <2>2. row.status = "approved" /\ row.subject = s
    BY <2>1 DEF Rows
  <2>3. \/ UNCHANGED device
        \/ /\ device[c].status = "pending"
           /\ device' = [device EXCEPT ![c] = row]
    BY <1>9 DEF VerifyApprove, Decidable
  <2> HIDE DEF row, c, s
  <2>4. CASE device[c].status = "pending" /\ device' = [device EXCEPT ![c] = row]
    <3>1. /\ Phase' = [Phase EXCEPT ![c] = "approved"]
          /\ Owner' = [Owner EXCEPT ![c] = s]
      BY <2>1, <2>2, <2>4, Columns
    <3>2. PICK d \in Codes, t \in Subjects : d = c /\ t = s
      BY <2>1
    <3>3. Promise!Approve(d, t)
      BY <1>2, <2>1, <2>4, <3>1, <3>2
      DEF Promise!Approve, Phase, Owner, Tokens
    <3> QED
      BY <3>3 DEF Promise!Next
  <2> HIDE DEF Goal
  <2> QED
    BY <1>1, <2>1, <2>3, <2>4
<1>10. ASSUME NEW c \in Codes, NEW new \in SessionRows, Redeemed(c, new)
       PROVE  Goal
  <2>1. Advance(device[c], device'[c])
    BY RowsAdvance
  <2>2. device'[c].subject = device[c].subject
    BY <1>10, <2>1 DEF Redeemed, Advance, SameDecision
  <2>3. Phase' = [Phase EXCEPT ![c] = "consumed"] /\ Owner' = Owner
    BY <1>10, <2>2 DEF Redeemed, Phase, Owner
  <2>4. /\ sessions \in Seq(SessionRows)
        /\ Len(sessions') = Len(sessions) + 1
        /\ sessions'[Len(sessions) + 1] = new
        /\ \A i \in 1 .. Len(sessions) : sessions'[i] = sessions[i]
        /\ Len(sessions) \in Nat
    <3>1. sessions \in Seq(SessionRows)
      BY DEF TypeOK
    <3> QED
      BY <1>10, <3>1 DEF Redeemed
  <2>5. Tokens' = Append(Tokens, [code |-> c, subject |-> device[c].subject])
    <3> DEFINE e == [code |-> c, subject |-> device[c].subject]
    <3>1. Tokens \in Seq([code : Codes, subject : Subjects]) /\ Len(Tokens) = Len(sessions)
      <4>1. \A i \in 1 .. Len(sessions) : sessions[i] \in SessionRows
        BY <2>4
      <4>2. \A i \in 1 .. Len(sessions) :
              [code |-> sessions[i].code, subject |-> sessions[i].subject]
                \in [code : Codes, subject : Subjects]
        BY <4>1 DEF SessionRows
      <4> QED
        BY <2>4, <4>2 DEF Tokens
    <3>2. Tokens' = [i \in 1 .. Len(sessions) + 1 |->
                       IF i = Len(sessions) + 1 THEN e ELSE Tokens[i]]
      BY <1>10, <2>4 DEF Tokens, Redeemed
    <3> HIDE DEF e
    <3> QED
      BY <2>4, <3>1, <3>2 DEF e
  <2>6. Promise!Redeem(c)
    BY <1>10, <2>3, <2>5 DEF Promise!Redeem, Redeemed, Phase, Owner, Tokens
  <2> QED
    BY <2>6 DEF Promise!Next
<1>11. \/ UNCHANGED device /\ sessions' = sessions
       \/ \E c \in Codes : CreateDeviceAuthorization(c)
       \/ \E p \in Polls : \/ PollExpire(p) \/ PollSlowDown(p) \/ PollPace(p)
                          \/ PollConsume(p)
       \/ \E v \in Verifs : VerifyDeny(v) \/ VerifyApprove(v)
  BY DEF Next, PollStep, VerifyStep, Tick, ChangeGrants, PollLoad, PollStamp,
         PollAuthorize, PollAborts, VerifyLoad, VerifyStamp, VerifyAuthorize,
         VerifyAborts, vars
<1>12. ASSUME NEW p \in Polls, PollConsume(p) PROVE Goal
  BY <1>1, <1>10, <1>12, ConsumeRedeems
<1> HIDE DEF Goal
<1>13. Goal
  BY <1>1, <1>4, <1>5, <1>6, <1>7, <1>8, <1>9, <1>10, <1>11, <1>12
<1> QED
  BY <1>13 DEF Goal, Promise!vars, Phase, Owner, Tokens

\* The edge implements the promise of the device grant: every behaviour of the
\* handlers is, row by row, a behaviour of DeviceGrant.
THEOREM Implementation == Spec => ImplementsPromise
BY PromiseInit, PromiseStep, Invariance, PTL
   DEF Spec, ImplementsPromise, Promise!Spec
-----------------------------------------------------------------------------
(* Answers                                                                   *)

\* What a poll knows of the clock and of a code that has ended stays true of the row:
\* neither the expiry of a code nor the end of its life is ever revised.
PollsKnowTheEnd ==
  \A p \in Polls :
    LET h == poll[p]  row == device[h.code] IN
    /\ h.pc = "loaded" => h.seen.expiresAt = row.expiresAt
    /\ h.pc = "expire" => row.status \in Closed \/ row.expiresAt <= h.now
    /\ h.pc \in {"pace", "authorize", "consume"} => h.now < row.expiresAt
    /\ h.pc # "idle" /\ h.seen.status \in Closed => row.status = h.seen.status

\* A device that was told that its code has ended was told the truth.
AnswersAreTrue == \A c \in Codes : answers[c] # {} => device[c].status \in Closed

\* A row that exists keeps its expiry, and a closed one its status.
LEMMA EndsStand ==
  ASSUME IInv, [Next]_vars, NEW c \in Codes, device[c].status # "none"
  PROVE  /\ device'[c].expiresAt = device[c].expiresAt
         /\ device[c].status \in Closed => device'[c].status = device[c].status
<1>1. Advance(device[c], device'[c])
  BY RowsAdvance DEF IInv
<1> QED
  BY <1>1 DEF Advance, SameDecision, Open, Closed

\* A poll that reads the clock is in PollStamp.
LEMMA OnlyStampsLeaveLoaded ==
  ASSUME IInv, [Next]_vars, NEW q \in Polls,
         poll[q].pc = "loaded", poll'[q].pc \notin {"loaded", "idle"}
  PROVE  PollStamp(q)
<1>1. poll \in [Polls -> Requests(PollPCs, {NoSubject})]
  BY DEF IInv, TypeOK, PollTypeOK
<1>2. Idle.pc = "idle"
  BY DEF Idle
<1>3. ASSUME NEW p \in Polls, PollDone(p) PROVE FALSE
  BY <1>1, <1>2, <1>3 DEF PollDone
<1>4. ASSUME NEW p \in Polls, NEW c \in Codes, PollLoad(p, c) PROVE FALSE
  <2>1. p # q
    BY <1>4 DEF PollLoad
  <2> QED
    BY <1>1, <1>4, <2>1 DEF PollLoad
<1>5. ASSUME NEW p \in Polls, PollPace(p) \/ PollAuthorize(p) PROVE FALSE
  <2>1. p # q
    BY <1>5 DEF PollPace, PollAuthorize
  <2>2. \E pc \in PollPCs : PollGoto(p, pc)
    BY <1>3, <1>5 DEF PollPace, PollAuthorize, PollPCs
  <2> QED
    BY <1>1, <2>1, <2>2 DEF PollGoto
<1>6. ASSUME NEW p \in Polls, PollStamp(p) PROVE PollStamp(q)
  <2>1. CASE p # q
    BY <1>1, <1>6, <2>1 DEF PollStamp
  <2> QED
    BY <1>6, <2>1
<1>7. ASSUME NEW p \in Polls,
             \/ PollExpire(p) \/ PollSlowDown(p) \/ PollConsume(p)
             \/ PollAborts(p)
      PROVE  FALSE
  BY <1>3, <1>7 DEF PollExpire, PollSlowDown, PollConsume, PollAborts
<1>8. \E p \in Polls : \/ \E c \in Codes : PollLoad(p, c)
                       \/ PollStamp(p) \/ PollPace(p) \/ PollAuthorize(p)
                       \/ PollExpire(p) \/ PollSlowDown(p)
                       \/ PollConsume(p) \/ PollAborts(p)
  <2>1. ~UNCHANGED poll
    OBVIOUS
  <2> QED
    BY <2>1 DEF Next, PollStep, VerifyStep, Tick, ChangeGrants,
       CreateDeviceAuthorization, VerifyLoad, VerifyStamp, VerifyDeny,
       VerifyAuthorize, VerifyApprove, VerifyAborts, vars
<1> QED
  BY <1>4, <1>5, <1>6, <1>7, <1>8

\* Every step keeps what the polls know.
LEMMA PollsKnowTheEndStep ==
  ASSUME IInv, PollsKnowTheEnd, [Next]_vars
  PROVE  PollsKnowTheEnd'
<1> USE DEF IInv
<1> SUFFICES ASSUME NEW q \in Polls
    PROVE  LET h == poll'[q]  row == device'[h.code] IN
      /\ h.pc = "loaded" => h.seen.expiresAt = row.expiresAt
      /\ h.pc = "expire" => row.status \in Closed \/ row.expiresAt <= h.now
      /\ h.pc \in {"pace", "authorize", "consume"} => h.now < row.expiresAt
      /\ h.pc # "idle" /\ h.seen.status \in Closed => row.status = h.seen.status
  BY DEF PollsKnowTheEnd
<1> DEFINE h == poll[q]
           row == device[h.code]
           new == device'[h.code]
<1>1. /\ h \in Requests(PollPCs, {NoSubject}) /\ clock \in Nat
      /\ h.pc # "idle" => h.code \in Codes /\ row \in Rows
  <2>1. clock \in Nat
    BY DEF TypeOK
  <2> QED
    BY <2>1 DEF TypeOK, PollTypeOK
<1>2. /\ h.pc = "loaded" => h.seen.expiresAt = row.expiresAt
      /\ h.pc = "expire" => row.status \in Closed \/ row.expiresAt <= h.now
      /\ h.pc \in {"pace", "authorize", "consume"} => h.now < row.expiresAt
      /\ h.pc # "idle" /\ h.seen.status \in Closed => row.status = h.seen.status
  BY DEF PollsKnowTheEnd
<1>3. h.pc # "idle" => /\ new.expiresAt = row.expiresAt
                       /\ row.status \in Closed => new.status = row.status
  BY <1>1, EndsStand DEF RequestsCoherent
<1>4. CASE poll'[q] = h
  <2>1. h.pc # "idle" /\ h.seen.status \in Closed => new.status = h.seen.status
    BY <1>2, <1>3
  <2>2. h.pc = "expire" => new.status \in Closed \/ new.expiresAt <= h.now
    BY <1>2, <1>3
  <2> QED
    BY <1>2, <1>3, <1>4, <2>1, <2>2
<1>5. CASE poll'[q] = Idle
  BY <1>5 DEF Idle
<1>6. CASE \E c \in Codes :
             /\ UNCHANGED device
             /\ poll'[q] = [Idle EXCEPT !.pc = "loaded", !.code = c, !.seen = device[c]]
  <2>1. PICK c \in Codes :
             /\ UNCHANGED device
             /\ poll'[q] = [Idle EXCEPT !.pc = "loaded", !.code = c, !.seen = device[c]]
    BY <1>6
  <2>2. poll'[q].pc = "loaded" /\ poll'[q].code = c /\ poll'[q].seen = device'[c]
    BY <2>1 DEF Idle
  <2> QED
    BY <2>2
<1>7. CASE /\ h.pc = "loaded"
           /\ \E pc \in {"expire", "slow", "pace"} :
                poll'[q] = [h EXCEPT !.now = clock, !.seen = Decision(h.seen), !.pc = pc]
  <2>1. poll'[q].pc \in {"expire", "slow", "pace"}
    BY <1>1, <1>7 DEF Requests
  <2>2. PollStamp(q)
    BY <1>7, <2>1, OnlyStampsLeaveLoaded
  <2>3. /\ poll'[q].now = clock /\ poll'[q].code = h.code
        /\ poll'[q].seen.status = h.seen.status
    <3>1. PICK pc : poll'[q] = [h EXCEPT !.now = clock, !.seen = Decision(h.seen), !.pc = pc]
      BY <1>7
    <3>2. poll'[q].now = clock /\ poll'[q].code = h.code /\ poll'[q].seen = Decision(h.seen)
      BY <1>1, <3>1 DEF Requests
    <3>3. Decision(h.seen).status = h.seen.status
      BY DEF Decision, NoRow
    <3> QED
      BY <3>2, <3>3
  <2>4. poll'[q].pc = "expire" <=> Lapsed(h.seen, clock)
    <3> DEFINE pc == IF Lapsed(h.seen, clock) THEN "expire"
                     ELSE IF TooFast(h.seen, clock) THEN "slow" ELSE "pace"
    <3>1. poll'[q].pc = pc
      BY <1>1, <2>2 DEF PollStamp, TypeOK, PollTypeOK, Requests
    <3> QED
      BY <3>1
  <2>5. UNCHANGED device /\ row.expiresAt \in Nat /\ h.seen.expiresAt = row.expiresAt
    <3>1. UNCHANGED device
      BY <2>2 DEF PollStamp
    <3>2. row.expiresAt \in Nat
      BY <1>1, <1>7 DEF Rows
    <3> QED
      BY <1>2, <1>7, <3>1, <3>2
  <2>6. h.seen.status = "expired" => row.status = "expired"
    BY <1>2, <1>7 DEF Closed
  <2>7. poll'[q].pc = "expire" => row.status \in Closed \/ row.expiresAt <= clock
    BY <1>1, <2>4, <2>5, <2>6 DEF Lapsed, Closed
  <2>8. poll'[q].pc \in {"pace", "authorize", "consume"} => clock < row.expiresAt
    BY <1>1, <2>4, <2>5 DEF Lapsed
  <2> QED
    BY <1>2, <1>7, <2>1, <2>3, <2>5, <2>7, <2>8
<1>8. CASE /\ h.pc \in {"pace", "authorize"}
           /\ \E pc \in {"authorize", "consume"} : poll'[q] = [h EXCEPT !.pc = pc]
  <2>1. /\ poll'[q].pc \in {"authorize", "consume"} /\ poll'[q].code = h.code
        /\ poll'[q].now = h.now /\ poll'[q].seen = h.seen
    BY <1>1, <1>8 DEF Requests
  <2> QED
    BY <1>2, <1>3, <1>8, <2>1
<1>9. PollMove(q)
  BY PollsMove
<1> QED
  BY <1>4, <1>5, <1>6, <1>7, <1>8, <1>9 DEF PollMove

\* A poll that says for good that its code has ended leaves a row that has ended; the
\* sweep has committed by then, and for any other answer the row had ended before.
LEMMA AnswersAreTrueStep ==
  ASSUME StoreFaults = FALSE, IInv, PollsKnowTheEnd, AnswersAreTrue, [Next]_vars
  PROVE  AnswersAreTrue'
<1> USE DEF IInv
<1>1. ASSUME NEW c \in Codes, device[c].status \in Closed
      PROVE  device'[c].status \in Closed
  BY <1>1, EndsStand DEF Closed
<1>2. CASE UNCHANGED answers
  BY <1>1, <1>2 DEF AnswersAreTrue
<1>3. ASSUME NEW c \in Codes, NEW a, Answer(c, a), device'[c].status \in Closed
      PROVE  AnswersAreTrue'
  <2> SUFFICES ASSUME NEW d \in Codes, answers'[d] # {}
               PROVE  device'[d].status \in Closed
    BY DEF AnswersAreTrue
  <2>1. CASE d = c
    BY <1>3, <2>1
  <2>2. CASE d # c
    <3>1. answers'[d] = answers[d]
      BY <1>3, <2>2 DEF Answer, TypeOK
    <3> QED
      BY <1>1, <3>1 DEF AnswersAreTrue
  <2> QED
    BY <2>1, <2>2
<1>4. ASSUME NEW p \in Polls, PollExpire(p) PROVE AnswersAreTrue'
  <2> DEFINE c == poll[p].code
  <2>1. /\ c \in Codes /\ device[c] \in Rows /\ poll[p].now \in Nat
        /\ device[c].status # "none"
        /\ device[c].status \in Closed \/ device[c].expiresAt <= poll[p].now
    BY <1>4 DEF PollExpire, TypeOK, PollTypeOK, Requests, RequestsCoherent, PollsKnowTheEnd
  <2>2. device' = MarkExpired(poll[p].now) /\ Answer(c, "expired_token")
    BY <1>4 DEF PollExpire
  <2>3. device[c].status \in Open \/ device[c].status \in Closed
    BY <2>1 DEF Rows
  <2>4. device'[c].status \in Closed
    <3>1. CASE device[c].status \in Closed
      BY <1>1, <2>1, <3>1
    <3>2. CASE device[c].status \in Open /\ device[c].expiresAt <= poll[p].now
      <4>1. device'[c] = [device[c] EXCEPT !.status = "expired"]
        BY <2>1, <2>2, <3>2 DEF MarkExpired
      <4> QED
        BY <2>1, <4>1 DEF Rows, Closed
    <3> QED
      BY <2>1, <2>3, <3>1, <3>2
  <2> HIDE DEF c
  <2> QED
    BY <1>3, <2>1, <2>2, <2>4
<1>5. ASSUME NEW p \in Polls, PollPace(p) PROVE AnswersAreTrue'
  <2> DEFINE c == poll[p].code
             h == poll[p]
  <2>1. h.pc = "pace" /\ c \in Codes
    BY <1>5 DEF PollPace, TypeOK, PollTypeOK
  <2>2. h.seen.status \in Closed => device'[c].status \in Closed
    BY <1>1, <2>1 DEF PollsKnowTheEnd
  <2>3. h.seen.status = "approved" => h.seen.subject # NoSubject
    BY <2>1 DEF PollsSeeTheApproval
  <2>4. \/ UNCHANGED answers
        \/ h.seen.status \in Closed /\ \E a \in FinalAnswers : Answer(c, a)
    BY <1>5, <2>3 DEF PollPace, FinalAnswers, Closed
  <2> HIDE DEF c, h
  <2> QED
    BY <1>2, <1>3, <2>1, <2>2, <2>4
<1>6. ASSUME NEW p \in Polls, PollConsume(p) PROVE AnswersAreTrue'
  <2> DEFINE c == poll[p].code
             h == poll[p]
  <2>1. /\ h.pc = "consume" /\ c \in Codes /\ device[c] \in Rows /\ h.now \in Nat
        /\ h.now < device[c].expiresAt
    BY <1>6 DEF PollConsume, TypeOK, PollTypeOK, Requests, PollsKnowTheEnd
  <2>2. device[c].status \in {"approved", "expired", "consumed"} /\ device[c].subject # NoSubject
    BY <2>1 DEF PollsSeeTheApproval
  <2>3. CASE Consumable(c, h.now)
    <3>1. device' = [device EXCEPT ![c].status = "consumed"] /\ Answer(c, "token")
      BY <1>6, <2>3 DEF PollConsume
    <3>2. device'[c].status = "consumed"
      BY <2>1, <3>1 DEF TypeOK, Rows
    <3> HIDE DEF c, h
    <3> QED
      BY <1>3, <2>1, <3>1, <3>2 DEF Closed
  <2>4. CASE ~Consumable(c, h.now)
    <3>1. Answer(c, "invalid_grant")
      BY <1>6, <2>4 DEF PollConsume
    <3>2. device[c].status # "approved"
      BY <2>1, <2>2, <2>4 DEF Consumable, Rows
    <3>3. device'[c].status \in Closed
      BY <1>1, <2>1, <2>2, <3>2 DEF Closed
    <3> HIDE DEF c, h
    <3> QED
      BY <1>3, <2>1, <3>1, <3>3
  <2> QED
    BY <2>3, <2>4
<1>7. \/ UNCHANGED answers
      \/ \E p \in Polls : PollExpire(p) \/ PollPace(p) \/ PollConsume(p)
  BY DEF Next, PollStep, VerifyStep, Tick, ChangeGrants,
     CreateDeviceAuthorization, PollLoad, PollStamp, PollSlowDown, PollAuthorize, PollAborts,
     VerifyLoad, VerifyStamp, VerifyDeny, VerifyAuthorize, VerifyApprove, VerifyAborts, vars
<1> QED
  BY <1>2, <1>4, <1>5, <1>6, <1>7

\* A device that was told that its code has ended gets no further token for it, also not
\* through a poll that was in flight by then, as long as the writes whose error is
\* ignored do not fail.
THEOREM FinalAnswersHold ==
  ASSUME StoreFaults = FALSE
  PROVE  Spec => AnswersAreFinal
<1> DEFINE TInv  == PollsKnowTheEnd /\ AnswersAreTrue
           Final == \A c \in Codes : answers[c] # {} =>
                      \A i \in 1 .. Len(sessions') :
                        sessions'[i].code = c => i <= Len(sessions)
<1>1. Init => TInv
  BY DEF Init, PollsKnowTheEnd, AnswersAreTrue, Idle
<1>2. IInv /\ TInv /\ [Next]_vars => TInv'
  BY PollsKnowTheEndStep, AnswersAreTrueStep
<1>3. ASSUME IInv, TInv, [Next]_vars PROVE Final
  <2> SUFFICES ASSUME NEW c \in Codes, answers[c] # {}, NEW i \in 1 .. Len(sessions'),
                      sessions'[i].code = c
               PROVE  i <= Len(sessions)
    OBVIOUS
  <2>1. device[c].status # "approved"
    BY <1>3 DEF AnswersAreTrue, Closed
  <2>2. sessions \in Seq(SessionRows)
    BY <1>3 DEF IInv, TypeOK
  <2>3. CASE sessions' = sessions
    BY <2>2, <2>3
  <2>4. CASE \E d \in Codes, new \in SessionRows : Redeemed(d, new)
    <3>1. PICK d \in Codes, new \in SessionRows : Redeemed(d, new)
      BY <2>4
    <3>2. d # c /\ sessions' = Append(sessions, new) /\ new.code = d
      BY <2>1, <3>1 DEF Redeemed
    <3> QED
      BY <2>2, <3>2
  <2> QED
    BY <1>3, <2>3, <2>4, SessionsMove
<1>4. IInv /\ TInv /\ [Next]_vars => [Final]_vars
  BY <1>3
<1> HIDE DEF TInv
<1> QED
  BY <1>1, <1>2, <1>4, Invariance, PTL DEF Spec, AnswersAreFinal
=============================================================================
