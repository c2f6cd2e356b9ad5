------------------------ MODULE DeviceAuthorization ------------------------
(***************************************************************************)
(* The OAuth device authorization grant of the edge (RFC 8628):            *)
(* src/internal/edge/oauth.go and the oauth_device_authorizations queries  *)
(* of src/db/queries/edge.sql.                                             *)
(*                                                                         *)
(* A device opens a code and polls the token endpoint; a person in a       *)
(* browser approves or denies it.  Every request is a goroutine: it reads  *)
(* the row, THEN reads the clock, and acts on both after other requests    *)
(* have moved on.  Each step below is one statement on the database, or    *)
(* one read of the clock, so that all their interleavings are explored.    *)
(***************************************************************************)
EXTENDS Integers, Sequences, FiniteSets

CONSTANTS
  Codes,              \* device authorizations that may be opened
  Subjects,           \* browser identities
  Polls,              \* token requests that may be in flight at once
  Verifs,             \* approval form posts that may be in flight at once
  NoSubject, NoCode,  \* the NULLs
  DeviceTTL,          \* OAuthService.deviceCodeTTL
  PollInterval,       \* the first interval, 5 seconds
  SlowDownIncrement,  \* what slow_down adds to it, 5 seconds
  MaxInterval,        \* BOUND: intervals above DeviceTTL all act alike
  MaxClock,           \* BOUND: length of the explored history
  MaxAborts,          \* BOUND: requests that die between two statements
  StoreFaults         \* may the writes whose error is ignored fail?

ASSUME ConstantsAssumption ==
  /\ NoSubject \notin Subjects /\ NoCode \notin Codes
  /\ DeviceTTL \in Nat \ {0} /\ PollInterval \in Nat \ {0}
  /\ SlowDownIncrement \in Nat /\ MaxInterval \in Nat
  /\ PollInterval <= MaxInterval
  /\ MaxClock \in Nat /\ MaxAborts \in Nat /\ StoreFaults \in BOOLEAN

VARIABLES
  clock,      \* time.Now() of the edge
  granted,    \* subjects AllowedScopes accepts: grant held, service enabled
  device,     \* the oauth_device_authorizations table
  sessions,   \* the oauth_sessions rows the device grant wrote, oldest first
  poll,       \* handleDeviceToken requests
  verify,     \* handleDeviceVerificationPost requests
  answers,    \* history: per code, the answers that said it has ended
  aborts      \* requests that died so far

vars == <<clock, granted, device, sessions, poll, verify, answers, aborts>>
-----------------------------------------------------------------------------
Never == -1           \* last_poll_at IS NULL

Open   == {"pending", "approved"}
Closed == {"denied", "expired", "consumed"}

Rows == [status     : {"none"} \cup Open \cup Closed,
         subject    : Subjects \cup {NoSubject},
         expiresAt  : Nat,
         interval   : Nat,
         lastPoll   : Nat \cup {Never},
         approvedAt : Nat]

SessionRows == [code : Codes, subject : Subjects, createdAt : Nat]

NoRow == [status |-> "none", subject |-> NoSubject, expiresAt |-> 0,
          interval |-> 0, lastPoll |-> Never, approvedAt |-> 0]

Requests(pcs, Who) ==
  [pc : {"idle"} \cup pcs, code : Codes \cup {NoCode}, by : Who,
   seen : Rows, now : Nat]

PollPCs   == {"loaded", "expire", "slow", "pace", "authorize", "consume"}
VerifyPCs == {"loaded", "deny", "authorize", "approve"}

Idle == [pc |-> "idle", code |-> NoCode, by |-> NoSubject, seen |-> NoRow,
         now |-> 0]

\* The answers that say the code itself has ended.  The access_denied of a
\* missing grant (status 403, PollAuthorize) is not one of them: it leaves the
\* row approved, and a later poll may still redeem it.
FinalAnswers == {"token", "access_denied", "expired_token", "invalid_grant"}

PollTypeOK ==
  /\ poll \in [Polls -> Requests(PollPCs, {NoSubject})]
  /\ \A p \in Polls :
       /\ poll[p].pc # "idle" => poll[p].code \in Codes
       /\ poll[p].pc \in {"authorize", "consume"} =>
            poll[p].seen.subject \in Subjects

VerifyTypeOK ==
  /\ verify \in [Verifs -> Requests(VerifyPCs, Subjects \cup {NoSubject})]
  /\ \A v \in Verifs :
       verify[v].pc # "idle" => verify[v].code \in Codes
                                /\ verify[v].by \in Subjects

TypeOK ==
  /\ clock \in 0 .. MaxClock
  /\ granted \in SUBSET Subjects
  /\ device \in [Codes -> Rows]
  /\ sessions \in Seq(SessionRows)
  /\ PollTypeOK
  /\ VerifyTypeOK
  /\ answers \in [Codes -> SUBSET FinalAnswers]
  /\ aborts \in 0 .. MaxAborts
-----------------------------------------------------------------------------
Init ==
  /\ clock = 0
  /\ granted = Subjects
  /\ device = [c \in Codes |-> NoRow]
  /\ sessions = << >>
  /\ poll = [p \in Polls |-> Idle]
  /\ verify = [v \in Verifs |-> Idle]
  /\ answers = [c \in Codes |-> {}]
  /\ aborts = 0

Tick ==
  /\ clock < MaxClock
  /\ clock' = clock + 1
  /\ UNCHANGED <<granted, device, sessions, poll, verify, answers, aborts>>

\* The control plane rewrites service_grants, or the catalog's enabled flag,
\* under the edge.
ChangeGrants(s) ==
  /\ granted' = IF s \in granted THEN granted \ {s} ELSE granted \cup {s}
  /\ UNCHANGED <<clock, device, sessions, poll, verify, answers, aborts>>

\* handleDeviceAuthorization, and the INSERT it ends in.
CreateDeviceAuthorization(c) ==
  /\ device[c].status = "none"
  /\ clock + DeviceTTL < MaxClock
  /\ device' = [device EXCEPT ![c] =
                  [NoRow EXCEPT !.status = "pending",
                                !.expiresAt = clock + DeviceTTL,
                                !.interval = PollInterval]]
  /\ UNCHANGED <<clock, granted, sessions, poll, verify, answers, aborts>>
-----------------------------------------------------------------------------
(* The token endpoint: handleDeviceToken *)

PollGoto(p, pc) == poll' = [poll EXCEPT ![p].pc = pc]
PollDone(p)     == poll' = [poll EXCEPT ![p] = Idle]

Answer(c, a) == answers' = [answers EXCEPT ![c] = @ \cup {a}]

PollLoad(p, c) ==
  /\ poll[p].pc = "idle"
  /\ device[c].status # "none"
  /\ poll' = [poll EXCEPT ![p] = [Idle EXCEPT !.pc = "loaded", !.code = c,
                                              !.seen = device[c]]]
  /\ UNCHANGED <<clock, granted, device, sessions, verify, answers, aborts>>

\* Mutation: only the stored status counts, never the clock.
LapsedByStatus(row, now) == row.status = "expired"

Lapsed(row, now)  == now >= row.expiresAt \/ row.status = "expired"
TooFast(row, now) == row.lastPoll # Never /\ now - row.lastPoll < row.interval

\* What a handler still uses of its row after the tests of the clock.
Decision(row) == [NoRow EXCEPT !.status = row.status, !.subject = row.subject]

\* now := time.Now(), and the two tests of it against the row read earlier.
PollStamp(p) ==
  /\ poll[p].pc = "loaded"
  /\ poll' = [poll EXCEPT ![p] =
       [@ EXCEPT !.now = clock, !.seen = Decision(poll[p].seen),
                 !.pc = IF Lapsed(poll[p].seen, clock) THEN "expire"
                        ELSE IF TooFast(poll[p].seen, clock) THEN "slow"
                        ELSE "pace"]]
  /\ UNCHANGED <<clock, granted, device, sessions, verify, answers, aborts>>

\* Mutations of the sweep: a status outside the enumeration, pending rows only,
\* and no filter on the status at all.
MarkExpiredMisspelled(now) ==
  [c \in Codes |->
     IF device[c].status \in Open /\ device[c].expiresAt <= now
     THEN [device[c] EXCEPT !.status = "lapsed"] ELSE device[c]]

MarkExpiredPendingOnly(now) ==
  [c \in Codes |->
     IF device[c].status = "pending" /\ device[c].expiresAt <= now
     THEN [device[c] EXCEPT !.status = "expired"] ELSE device[c]]

MarkExpiredUnfiltered(now) ==
  [c \in Codes |->
     IF device[c].status # "none" /\ device[c].expiresAt <= now
     THEN [device[c] EXCEPT !.status = "expired"] ELSE device[c]]

MarkExpired(now) ==
  [c \in Codes |->
     IF device[c].status \in Open /\ device[c].expiresAt <= now
     THEN [device[c] EXCEPT !.status = "expired"] ELSE device[c]]

PollExpire(p) ==
  /\ poll[p].pc = "expire"
  /\ \/ device' = MarkExpired(poll[p].now)
     \/ StoreFaults /\ UNCHANGED device
  /\ Answer(poll[p].code, "expired_token")
  /\ PollDone(p)
  /\ UNCHANGED <<clock, granted, sessions, verify, aborts>>

Lengthened(interval) ==
  IF interval + SlowDownIncrement > MaxInterval THEN MaxInterval
  ELSE interval + SlowDownIncrement

PollSlowDown(p) ==
  LET c == poll[p].code IN
  /\ poll[p].pc = "slow"
  /\ \/ device' = [device EXCEPT ![c] =
                     [@ EXCEPT !.lastPoll = poll[p].now,
                               !.interval = Lengthened(device[c].interval)]]
     \/ StoreFaults /\ UNCHANGED device
  /\ PollDone(p)
  /\ UNCHANGED <<clock, granted, sessions, verify, answers, aborts>>

\* UpdateDeviceAuthorizationPoll, then the switch on the status read earlier.
PollPace(p) ==
  /\ poll[p].pc = "pace"
  /\ \/ device' = [device EXCEPT ![poll[p].code].lastPoll = poll[p].now]
     \/ StoreFaults /\ UNCHANGED device
  /\ \/ /\ poll[p].seen.status = "pending"
        /\ PollDone(p) /\ UNCHANGED answers
     \/ /\ poll[p].seen.status = "denied"
        /\ PollDone(p) /\ Answer(poll[p].code, "access_denied")
     \/ /\ poll[p].seen.status = "approved" /\ poll[p].seen.subject # NoSubject
        /\ PollGoto(p, "authorize") /\ UNCHANGED answers
     \/ /\ \/ poll[p].seen.status = "consumed"
           \/ poll[p].seen.status = "approved" /\ poll[p].seen.subject = NoSubject
        /\ PollDone(p) /\ Answer(poll[p].code, "invalid_grant")
  /\ UNCHANGED <<clock, granted, sessions, verify, aborts>>

PollAuthorize(p) ==
  /\ poll[p].pc = "authorize"
  /\ IF poll[p].seen.subject \in granted THEN PollGoto(p, "consume")
                                         ELSE PollDone(p)
  /\ UNCHANGED <<clock, granted, device, sessions, verify, answers, aborts>>

\* Mutation: the UPDATE forgets status = 'approved'.
ConsumableAnyStatus(c, now) ==
  device[c].subject # NoSubject /\ device[c].expiresAt > now

Consumable(c, now) ==
  /\ device[c].status = "approved"
  /\ device[c].subject # NoSubject
  /\ device[c].expiresAt > now

\* Mutation: the token is stamped with a clock read again before the insert.
PollConsumeFreshClock(p) ==
  LET c == poll[p].code IN
  /\ poll[p].pc = "consume"
  /\ \/ /\ Consumable(c, poll[p].now)
        /\ device' = [device EXCEPT ![c].status = "consumed"]
        /\ sessions' = Append(sessions, [code |-> c,
                                         subject |-> poll[p].seen.subject,
                                         createdAt |-> clock])
        /\ Answer(c, "token")
     \/ /\ ~Consumable(c, poll[p].now)
        /\ Answer(c, "invalid_grant")
        /\ UNCHANGED <<device, sessions>>
  /\ PollDone(p)
  /\ UNCHANGED <<clock, granted, verify, aborts>>

\* ConsumeDeviceAuthorizationAndCreateToken: one transaction.
PollConsume(p) ==
  LET c == poll[p].code IN
  /\ poll[p].pc = "consume"
  /\ \/ /\ Consumable(c, poll[p].now)
        /\ device' = [device EXCEPT ![c].status = "consumed"]
        /\ sessions' = Append(sessions, [code |-> c,
                                         subject |-> poll[p].seen.subject,
                                         createdAt |-> poll[p].now])
        /\ Answer(c, "token")
     \/ /\ ~Consumable(c, poll[p].now)
        /\ Answer(c, "invalid_grant")
        /\ UNCHANGED <<device, sessions>>
  /\ PollDone(p)
  /\ UNCHANGED <<clock, granted, verify, aborts>>

\* The client hangs up, a statement or the commit fails, or the process dies.
PollAborts(p) ==
  /\ poll[p].pc # "idle" /\ aborts < MaxAborts
  /\ aborts' = aborts + 1
  /\ PollDone(p)
  /\ UNCHANGED <<clock, granted, device, sessions, verify, answers>>
-----------------------------------------------------------------------------
(* The approval form: handleDeviceVerificationPost *)

VerifyGoto(v, pc) == verify' = [verify EXCEPT ![v].pc = pc]
VerifyDone(v)     == verify' = [verify EXCEPT ![v] = Idle]

VerifyLoad(v, s, c) ==
  /\ verify[v].pc = "idle"
  /\ device[c].status # "none"
  /\ verify' = [verify EXCEPT ![v] = [Idle EXCEPT !.pc = "loaded", !.code = c,
                                        !.by = s, !.seen = device[c]]]
  /\ UNCHANGED <<clock, granted, device, sessions, poll, answers, aborts>>

\* Mutation: the form and the UPDATE test only the expiry.
DecidableByTime(row, now) == row.status # "none" /\ row.expiresAt > now

Decidable(row, now) == row.status = "pending" /\ row.expiresAt > now

VerifyStamp(v, choice) ==
  /\ verify[v].pc = "loaded"
  /\ IF Decidable(verify[v].seen, clock)
     THEN verify' = [verify EXCEPT ![v] =
            [@ EXCEPT !.now = clock, !.pc = choice,
                      !.seen = Decision(verify[v].seen)]]
     ELSE VerifyDone(v)
  /\ UNCHANGED <<clock, granted, device, sessions, poll, answers, aborts>>

\* The UPDATE repeats the test, on the row as it is now but with the old clock.
VerifyDeny(v) ==
  LET c == verify[v].code IN
  /\ verify[v].pc = "deny"
  /\ device' = IF Decidable(device[c], verify[v].now)
               THEN [device EXCEPT ![c].status = "denied"] ELSE device
  /\ VerifyDone(v)
  /\ UNCHANGED <<clock, granted, sessions, poll, answers, aborts>>

VerifyAuthorize(v) ==
  /\ verify[v].pc = "authorize"
  /\ IF verify[v].by \in granted THEN VerifyGoto(v, "approve") ELSE VerifyDone(v)
  /\ UNCHANGED <<clock, granted, device, sessions, poll, answers, aborts>>

VerifyApprove(v) ==
  LET c == verify[v].code IN
  /\ verify[v].pc = "approve"
  /\ device' = IF Decidable(device[c], verify[v].now)
               THEN [device EXCEPT ![c] = [@ EXCEPT !.status = "approved",
                                                    !.subject = verify[v].by,
                                                    !.approvedAt = verify[v].now]]
               ELSE device
  /\ VerifyDone(v)
  /\ UNCHANGED <<clock, granted, sessions, poll, answers, aborts>>

VerifyAborts(v) ==
  /\ verify[v].pc # "idle" /\ aborts < MaxAborts
  /\ aborts' = aborts + 1
  /\ VerifyDone(v)
  /\ UNCHANGED <<clock, granted, device, sessions, poll, answers>>
-----------------------------------------------------------------------------
PollStep(p) ==
  \/ PollStamp(p) \/ PollExpire(p) \/ PollSlowDown(p) \/ PollPace(p)
  \/ PollAuthorize(p) \/ PollConsume(p)

VerifyStep(v) ==
  \/ \E choice \in {"authorize", "deny"} : VerifyStamp(v, choice)
  \/ VerifyDeny(v) \/ VerifyAuthorize(v) \/ VerifyApprove(v)

Next ==
  \/ Tick
  \/ \E s \in Subjects : ChangeGrants(s)
  \/ \E c \in Codes : CreateDeviceAuthorization(c)
  \/ \E p \in Polls, c \in Codes : PollLoad(p, c)
  \/ \E p \in Polls : PollStep(p) \/ PollAborts(p)
  \/ \E v \in Verifs, s \in Subjects, c \in Codes : VerifyLoad(v, s, c)
  \/ \E v \in Verifs : VerifyStep(v) \/ VerifyAborts(v)

Spec == Init /\ [][Next]_vars

\* Time passes, the server finishes the requests it has accepted, and a device
\* keeps polling its code.  Nobody is assumed to answer the approval form.
Fairness ==
  /\ WF_vars(Tick)
  /\ \A p \in Polls : WF_vars(PollStep(p))
  /\ \A c \in Codes : SF_vars(\E p \in Polls : PollLoad(p, c))

FairSpec == Spec /\ Fairness
-----------------------------------------------------------------------------
(* Safety *)

\* A device code yields at most one session, however many polls raced for it
\* (the guarded UPDATE of ConsumeDeviceAuthorization).
OneTokenPerCode ==
  \A i, j \in 1 .. Len(sessions) : sessions[i].code = sessions[j].code => i = j

\* A code is consumed exactly when its session was written, and the session
\* belongs to the subject that approved it although that subject was read
\* before the transaction.
ConsumedIffIssued ==
  /\ \A i \in 1 .. Len(sessions) :
       LET row == device[sessions[i].code] IN
       row.status = "consumed" /\ row.subject = sessions[i].subject
  /\ \A c \in Codes : device[c].status = "consumed" =>
       \E i \in 1 .. Len(sessions) : sessions[i].code = c

\* What a poll has read about an approval stays true of the row until the poll
\* ends: the same owner, approved no later than the clock the poll acts on.
\* The handler never reads the row again, so the token it builds rests on this.
PollsSeeTheApproval ==
  \A p \in Polls :
    LET h == poll[p]  row == device[h.code] IN
    /\ h.pc \in {"authorize", "consume"} => h.seen.status = "approved"
    /\ h.pc # "idle" /\ h.seen.status = "approved" =>
         /\ row.status \in {"approved", "expired", "consumed"}
         /\ row.subject = h.seen.subject /\ row.subject # NoSubject
         /\ row.approvedAt <= (IF h.pc = "loaded" THEN clock ELSE h.now)

\* The creation time stamped on a token lies between the approval and the
\* expiry of its code: a poll never redeems an approval from its own future,
\* nor a code its own clock already calls expired.
IssuedInsideWindow ==
  \A i \in 1 .. Len(sessions) :
    LET row == device[sessions[i].code] IN
    /\ row.approvedAt <= sessions[i].createdAt
    /\ sessions[i].createdAt < row.expiresAt

\* A decision is made once: a code whose life has ended never moves again, an
\* approved one only ends, and nobody takes an approval over.
DecisionsAreFinal ==
  [][\A c \in Codes :
       /\ device[c].status \in Closed => device'[c].status = device[c].status
       /\ device[c].status = "approved" =>
            device'[c].status \in {"approved", "expired", "consumed"}
       /\ device[c].subject # NoSubject =>
            device'[c].subject = device[c].subject]_vars

\* Once a device has been given an answer that says its code has ended, the
\* code yields no further token, not even through a poll still in flight.
\* This rests on MarkExpiredDeviceAuthorizations committing before
\* expired_token is sent, and its error is ignored: StoreFaults = FALSE.
AnswersAreFinal ==
  [][\A c \in Codes : answers[c] # {} =>
       \A i \in 1 .. Len(sessions') :
         sessions'[i].code = c => i <= Len(sessions)]_vars

\* The grant implements the promise of DeviceGrant.
Promise == INSTANCE DeviceGrant WITH
  phase  <- [c \in Codes |-> device[c].status],
  owner  <- [c \in Codes |-> device[c].subject],
  tokens <- [i \in 1 .. Len(sessions) |->
               [code |-> sessions[i].code, subject |-> sessions[i].subject]]

ImplementsPromise == Promise!Spec

(* Liveness *)

\* No code stays open for ever while its device polls: it is redeemed, denied
\* or swept as expired.  The sweep runs only inside a poll.
CodesSettle ==
  \A c \in Codes : device[c].status \in Open ~> device[c].status \in Closed
=============================================================================
