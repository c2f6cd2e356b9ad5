----------------------------- MODULE StdioRelay -----------------------------
(***************************************************************************)
(* One run of the stdio bridge: Serve, post, listen and closeSession of    *)
(* src/internal/credentialbridge/transport.go. A reader of stdin posts the *)
(* lines that open the protocol itself and hands every other line to a     *)
(* worker that holds one of a fixed number of slots until its post has     *)
(* ended. A service may put a request of its own on the stream of a        *)
(* request; the line with which the client answers needs a slot like any   *)
(* other.                                                                  *)
(*                                                                         *)
(* The service and the client are external. A client here opens the        *)
(* protocol once, in order, and answers only what it was asked.            *)
(***************************************************************************)
EXTENDS Integers, FiniteSets

CONSTANTS
  Slots,           \* capacity of the channel requests
  MaxLines         \* BOUND: lines of stdin

ASSUME RelayConstants == Slots \in Nat \ {0} /\ MaxLines \in Nat

VARIABLES
  line,        \* the kind of each line read so far
  reader,      \* the goroutine that reads stdin
  work,        \* what has become of each line
  listener,    \* the goroutine of the notification stream
  serving,     \* the goroutine of Serve
  cancelled,   \* ctx is done
  failed,      \* an error waits in r.fail
  readDone,    \* a result waits in readDone
  opened,      \* has the service named a session?
  deleted      \* how often it was told to close it

relayVars == <<line, reader, work, listener, serving, cancelled, failed, readDone, opened, deleted>>

Lines == 1 .. MaxLines
LineKinds == {"initialize", "initialized", "request", "answer"}
LastLine == CHOOSE n \in 0 .. MaxLines :
              /\ n = 0 \/ line[n] # "none"
              /\ n = MaxLines \/ line[n + 1] = "none"

RelayTypeOK ==
  /\ line \in [Lines -> LineKinds \cup {"none"}]
  /\ \A n \in Lines : line[n] # "none" => \A m \in 1 .. n : line[m] # "none"
  /\ reader \in {"scan", "post", "slot", "exited"}
  /\ work \in [Lines -> {"unread", "read", "posting", "asking", "asked", "ended"}]
  /\ listener \in {"none", "on", "ended"}
  /\ serving \in {"select", "reader", "workers", "close", "returned"}
  /\ cancelled \in BOOLEAN /\ failed \in BOOLEAN /\ readDone \in BOOLEAN /\ opened \in BOOLEAN
  /\ deleted \in 0 .. 1

RelayInit ==
  /\ line = [n \in Lines |-> "none"] /\ work = [n \in Lines |-> "unread"]
  /\ reader = "scan" /\ listener = "none" /\ serving = "select"
  /\ cancelled = FALSE /\ failed = FALSE /\ readDone = FALSE /\ opened = FALSE /\ deleted = 0
-----------------------------------------------------------------------------
Rest == <<listener, serving, cancelled, failed, readDone, opened, deleted>>
Closing == <<serving, cancelled, deleted>>

\* Any response may name the session, not that of initialize only.
Names == opened' \in {opened, TRUE}

Marks(n, w) == work' = [work EXCEPT ![n] = w]
InFlight(n) == work[n] \in {"posting", "asking", "asked"}

\* Mutation: only initialize is waited for.
HandshakeFirst(kind) == kind = "initialize"

\* The lines that the reader posts itself
Handshake(kind) == kind \in {"initialize", "initialized"}

\* Mutation: a slot is not given back.
HoldersForever == {n \in Lines : ~Handshake(line[n]) /\ work[n] \notin {"unread", "read"}}

Holders == {n \in Lines : ~Handshake(line[n]) /\ InFlight(n)}

Asking == {n \in Lines : work[n] = "asking"}
-----------------------------------------------------------------------------
(* The reader                                                              *)

\* What the client may send next
MaySend(kind) ==
  CASE kind = "initialize" -> LastLine = 0
    [] kind = "initialized" -> LastLine = 1
    [] kind = "request" -> LastLine > 1
    [] kind = "answer" ->
         Cardinality({n \in Lines : line[n] = "answer" /\ work[n] # "ended"}) < Cardinality(Asking)

\* Lines that the scanner has buffered outlast the closing of stdin.
Scan(kind) ==
  LET n == LastLine + 1 IN
  /\ reader = "scan" /\ n \in Lines /\ MaySend(kind)
  /\ line' = [line EXCEPT ![n] = kind]
  /\ reader' = IF Handshake(kind) THEN "post" ELSE "slot"
  /\ Marks(n, IF Handshake(kind) THEN "posting" ELSE "read")
  /\ UNCHANGED Rest

\* End of file, a line that is no JSON-RPC, or stdin closed by Serve
ScanEnds ==
  /\ reader = "scan"
  /\ reader' = "exited" /\ readDone' = TRUE
  /\ UNCHANGED <<line, work, listener, Closing, failed, opened>>

\* A handshake line was answered. After initialized the notification stream opens,
\* unless the protocol is too new for one.
HandshakeDone ==
  LET n == LastLine IN
  /\ reader = "post" /\ InFlight(n)
  /\ Names
  /\ listener' \in IF line[n] = "initialized" THEN {"none", "on"} ELSE {listener}
  /\ Marks(n, "ended") /\ reader' = "scan"
  /\ UNCHANGED <<line, Closing, failed, readDone>>

HandshakeFails ==
  /\ reader = "post"
  /\ Marks(LastLine, "ended") /\ reader' = "exited" /\ readDone' = TRUE /\ Names
  /\ UNCHANGED <<line, listener, Closing, failed>>

\* A slot is free, or the run is over. Where both are, select takes either.
TakeSlot ==
  /\ reader = "slot" /\ Cardinality(Holders) < Slots
  /\ Marks(LastLine, "posting") /\ reader' = "scan"
  /\ UNCHANGED <<line, Rest>>

DropLine ==
  /\ reader = "slot" /\ cancelled
  /\ Marks(LastLine, "ended") /\ reader' = "exited" /\ readDone' = TRUE
  /\ UNCHANGED <<line, listener, Closing, failed, opened>>
-----------------------------------------------------------------------------
(* The workers                                                             *)

\* The post of a line has ended well. What answers the service lets the request
\* that asked go on.
Answered(n) ==
  /\ ~Handshake(line[n]) /\ work[n] \in {"posting", "asked"}
  /\ IF line[n] = "answer" /\ Asking # {}
       THEN \E m \in Asking : work' = [work EXCEPT ![n] = "ended", ![m] = "asked"]
       ELSE Marks(n, "ended")
  /\ Names
  /\ UNCHANGED <<line, reader, listener, Closing, failed, readDone>>

\* The service asks the client, on the stream of a request.
ServiceAsks(n) ==
  /\ line[n] = "request" /\ work[n] = "posting"
  /\ Marks(n, "asking") /\ Names
  /\ UNCHANGED <<line, reader, listener, Closing, failed, readDone>>

\* The post failed or was cancelled, before the response or after: r.failed keeps the first error.
PostFails(n) ==
  /\ ~Handshake(line[n]) /\ InFlight(n)
  /\ Marks(n, "ended") /\ failed' = TRUE /\ Names
  /\ UNCHANGED <<line, reader, listener, Closing, readDone>>

\* listen ends by itself (405), with an error, or with the context; what it may
\* repeat it repeats.
ListenEnds ==
  /\ listener = "on" /\ listener' = "ended"
  /\ failed' \in IF cancelled THEN {failed} ELSE {failed, TRUE}
  /\ UNCHANGED <<line, reader, work, Closing, readDone, opened>>
-----------------------------------------------------------------------------
(* Serve                                                                   *)

Signal ==
  /\ serving = "select" /\ ~cancelled /\ cancelled' = TRUE
  /\ UNCHANGED <<line, reader, work, listener, serving, failed, readDone, opened, deleted>>

\* The first of the three ends the run: the context is cancelled and both ends of
\* stdio are closed.
EndServe ==
  /\ serving = "select" /\ (failed \/ readDone \/ cancelled)
  /\ serving' = "reader" /\ cancelled' = TRUE
  /\ UNCHANGED <<line, reader, work, listener, failed, readDone, opened, deleted>>

AwaitReader ==
  /\ serving = "reader" /\ reader = "exited"
  /\ serving' = "workers"
  /\ UNCHANGED <<line, reader, work, listener, cancelled, failed, readDone, opened, deleted>>

\* workers.Wait counts the notification stream as well.
AwaitWorkers ==
  /\ serving = "workers" /\ listener # "on" /\ \A n \in Lines : ~InFlight(n)
  /\ serving' = "close"
  /\ UNCHANGED <<line, reader, work, listener, cancelled, failed, readDone, opened, deleted>>

CloseSession ==
  /\ serving = "close" /\ serving' = "returned"
  /\ deleted' = IF opened THEN deleted + 1 ELSE deleted
  /\ UNCHANGED <<line, reader, work, listener, cancelled, failed, readDone, opened>>

RelayNext ==
  \/ \E kind \in LineKinds : Scan(kind)
  \/ ScanEnds \/ HandshakeDone \/ HandshakeFails \/ TakeSlot \/ DropLine
  \/ \E n \in Lines : Answered(n) \/ ServiceAsks(n) \/ PostFails(n)
  \/ ListenEnds \/ Signal \/ EndServe \/ AwaitReader \/ AwaitWorkers \/ CloseSession

\* The goroutine of the reader runs, and a service that can answer some request
\* answers one.
SomeAnswered == \E n \in Lines : Answered(n)
RelayFairness == WF_relayVars(TakeSlot) /\ WF_relayVars(SomeAnswered)

RelaySpec == RelayInit /\ [][RelayNext]_relayVars /\ RelayFairness
-----------------------------------------------------------------------------
(* What is to hold                                                         *)

\* On the wire a session is in order: no line is posted before the handshake lines
\* read before it have been answered (separate connections would let it overtake
\* them), and nothing is posted and no stream listens when the session is closed,
\* although workers, stream and reader end each in their own time.
WireOrder ==
  /\ \A m, n \in Lines :
       m < n /\ line[m] \in {"initialize", "initialized"} /\ InFlight(n) => work[m] = "ended"
  /\ serving \in {"close", "returned"} =>
       listener # "on" /\ \A n \in Lines : ~InFlight(n)

\* The answer of a client to a question of the service gets its slot, unless the
\* run ends or every slot is held by a request that waits for such an answer: that
\* jam nothing but the end of the run resolves, for a post has no time limit.
Jammed == Cardinality(Asking) = Slots
AnswersGetThrough ==
  (reader = "slot" /\ line[LastLine] = "answer") ~> (reader # "slot" \/ Jammed)
=============================================================================
