----------------------------- MODULE SSEBridge -----------------------------
(***************************************************************************)
(* The adapter that gives a service with the old SSE transport a           *)
(* streamable HTTP face: sseToStreamableHTTPBridge of                      *)
(* src/internal/edge/proxy.go, for one service.                            *)
(*                                                                         *)
(* A session is an event stream held open at the service for a client.     *)
(* The table of sessions has a mutex; each session has another, which the  *)
(* forwarded requests of its client queue for. A session leaves the table  *)
(* when it is deleted, idle, the oldest of too many, when an exchange on   *)
(* it fails or the bridge is closed - with requests still queued on it.    *)
(* Only an eviction closes the stream under the mutex of the table; the    *)
(* others take sessions out, unlock, and then close one after the other,   *)
(* and an exchange that took too long closes before it takes out.          *)
(***************************************************************************)
EXTENDS Integers, FiniteSets, FiniteSetsExt

CONSTANTS
  Posts,           \* requests being served: POSTs, and DELETEs too
  NoPost,
  TableLimit,      \* sseBridgeMaxSessions
  IdleLimit,       \* sseBridgeSessionIdleTimeout
  MaxStreams,      \* BOUND: streams opened at the service
  MaxUptime        \* BOUND: length of the explored history

ASSUME BridgeConstants ==
  /\ NoPost \notin Posts /\ IsFiniteSet(Posts)
  /\ TableLimit \in Nat \ {0} /\ IdleLimit \in Nat /\ MaxStreams \in Nat /\ MaxUptime \in Nat

VARIABLES
  uptime,
  streams,     \* streams opened so far; a session is the number of its stream
  table,       \* b.sessions
  lastUsed,
  open,        \* streams whose response the bridge has and has not closed
  owner,       \* session.mu: the request that holds it
  post,        \* the requests
  told,        \* sessions whose id a client has been given
  shut,        \* has Close been called?
  ending       \* what Close took from the table and has yet to close

bridgeVars == <<uptime, streams, table, lastUsed, open, owner, post, told, shut, ending>>

Sessions == 1 .. MaxStreams
Quiet == [pc |-> "rest", session |-> 0, closing |-> {}]

Stages == {"rest", "lookup", "connect", "endpoint", "insert", "queue", "post", "await",
           "fail", "drop", "delete"}

\* session.mu is held from its Lock until the handler returns.
Holding == {"post", "await", "fail", "drop"}

BridgeTypeOK ==
  /\ uptime \in 0 .. MaxUptime /\ streams \in 0 .. MaxStreams /\ shut \in BOOLEAN
  /\ lastUsed \in [Sessions -> 0 .. MaxUptime]
  /\ table \subseteq 1 .. streams /\ open \subseteq 1 .. streams
  /\ told \subseteq 1 .. streams /\ ending \subseteq 1 .. streams
  /\ owner \in [Sessions -> Posts \cup {NoPost}]
  /\ post \in [Posts -> [pc : Stages, session : 0 .. MaxStreams, closing : SUBSET Sessions]]
  /\ \A s \in Sessions : owner[s] # NoPost =>
       post[owner[s]].pc \in Holding /\ post[owner[s]].session = s

BridgeInit ==
  /\ uptime = 0 /\ streams = 0 /\ table = {} /\ open = {} /\ told = {}
  /\ shut = FALSE /\ ending = {}
  /\ lastUsed = [s \in Sessions |-> 0]
  /\ owner = [s \in Sessions |-> NoPost]
  /\ post = [p \in Posts |-> Quiet]
-----------------------------------------------------------------------------
Serves(p, r) == post' = [post EXCEPT ![p] = r]

GoesTo(p, pc) == Serves(p, [post[p] EXCEPT !.pc = pc])

\* p is at pc, and has closed what it had taken from the table.
At(p, pc) == post[p].pc = pc /\ post[p].closing = {}

\* The answer carries the id of the session, whether it is good news or not.
Answers(p) ==
  /\ Serves(p, Quiet)
  /\ told' = told \cup ({post[p].session} \ {0})

\* Mutation: session.mu stays locked.
StaysLocked(p) == UNCHANGED owner

Unlocks(p) == owner' = [owner EXCEPT ![post[p].session] = NoPost]
-----------------------------------------------------------------------------
BridgeTick ==
  /\ uptime < MaxUptime /\ uptime' = uptime + 1
  /\ UNCHANGED <<streams, table, lastUsed, open, owner, post, told, shut, ending>>

\* session.close of what a request has taken from the table, b.mu being unlocked again
CloseTaken(p) ==
  \E s \in post[p].closing :
    /\ open' = open \ {s}
    /\ Serves(p, [post[p] EXCEPT !.closing = post[p].closing \ {s}])
    /\ UNCHANGED <<uptime, streams, table, lastUsed, owner, told, shut, ending>>

\* pruneIdleSessions, with which every request begins
Idlers == {s \in table : uptime - lastUsed[s] > IdleLimit}

\* handlePost: to a session the client was told of (s), or for a new one (0)
HandlePost(p, s) ==
  /\ At(p, "rest")
  /\ table' = table \ Idlers
  /\ Serves(p, [pc |-> IF s = 0 THEN "connect" ELSE "lookup", session |-> s, closing |-> Idlers])
  /\ UNCHANGED <<uptime, streams, lastUsed, open, owner, told, shut, ending>>

\* sessionForRequest finds the session and stamps it, or answers 404.
FindSession(p) ==
  LET s == post[p].session IN
  /\ At(p, "lookup")
  /\ \/ /\ s \in table
        /\ lastUsed' = [lastUsed EXCEPT ![s] = uptime]
        /\ GoesTo(p, "queue")
     \/ s \notin table /\ Serves(p, Quiet) /\ UNCHANGED lastUsed
  /\ UNCHANGED <<uptime, streams, table, open, owner, told, shut, ending>>

\* openUpstreamSSEEndpoint, outside the lock: the service answers with a stream, or not,
Connect(p) ==
  /\ At(p, "connect")
  /\ \/ /\ streams < MaxStreams /\ streams' = streams + 1
        /\ open' = open \cup {streams + 1}
        /\ Serves(p, [post[p] EXCEPT !.pc = "endpoint", !.session = streams + 1])
     \/ Serves(p, Quiet) /\ UNCHANGED <<streams, open>>
  /\ UNCHANGED <<uptime, table, lastUsed, owner, told, shut, ending>>

\* and names the endpoint on it,
EndpointFound(p) ==
  /\ At(p, "endpoint")
  /\ lastUsed' = [lastUsed EXCEPT ![post[p].session] = uptime]
  /\ GoesTo(p, "insert")
  /\ UNCHANGED <<uptime, streams, table, open, owner, told, shut, ending>>

\* or does not in time, sends something else, or the client leaves: the stream is closed
\* before the answer.
EndpointMissing(p) ==
  /\ At(p, "endpoint")
  /\ open' = open \ {post[p].session}
  /\ Serves(p, Quiet)
  /\ UNCHANGED <<uptime, streams, table, lastUsed, owner, told, shut, ending>>

\* Mutation: an evicted session is forgotten and not closed.
InsertedNotClosed(s, evicted) == table' = (table \cup {s}) \ evicted /\ UNCHANGED open

\* The table takes the session and the evicted ones are closed, under b.mu; the new one
\* may be among them.
Inserted(s, evicted) == table' = (table \cup {s}) \ evicted /\ open' = open \ evicted

\* evictOldestLocked: as many as there are too many, none used later than one
\* that stays
Evictions(sessions) ==
  {gone \in SUBSET sessions :
     /\ Cardinality(gone) = Max({0, Cardinality(sessions) - TableLimit})
     /\ \A s \in gone, t \in sessions \ gone : lastUsed[s] <= lastUsed[t]}

Insert(p) ==
  LET s == post[p].session IN
  /\ At(p, "insert")
  /\ \E gone \in Evictions(table \cup {s}) : Inserted(s, gone)
  /\ GoesTo(p, "queue")
  /\ UNCHANGED <<uptime, streams, lastUsed, owner, told, shut, ending>>

\* session.mu, whatever has become of the session meanwhile
TakeSession(p) ==
  LET s == post[p].session IN
  /\ At(p, "queue") /\ owner[s] = NoPost
  /\ owner' = [owner EXCEPT ![s] = p]
  /\ GoesTo(p, "post")
  /\ UNCHANGED <<uptime, streams, table, lastUsed, open, told, shut, ending>>

\* forwardSessionPost: the service answers the POST itself, or takes a message that
\* has no answer,
ForwardDone(p) ==
  /\ At(p, "post")
  /\ Unlocks(p) /\ Answers(p)
  /\ UNCHANGED <<uptime, streams, table, lastUsed, open, shut, ending>>

\* or will answer a request on the stream.
Await(p) ==
  /\ At(p, "post")
  /\ GoesTo(p, "await")
  /\ UNCHANGED <<uptime, streams, table, lastUsed, open, owner, told, shut, ending>>

\* The answer is there, from a stream closed meanwhile too when the reader had it already.
StreamAnswers(p) ==
  /\ At(p, "await")
  /\ Unlocks(p) /\ Answers(p)
  /\ UNCHANGED <<uptime, streams, table, lastUsed, open, shut, ending>>

\* readSSEJSONRPCResponse, too late or without its client, closes the stream while the
\* session is still in the table, where other requests find it.
TimesOut(p) ==
  /\ At(p, "await")
  /\ open' = open \ {post[p].session}
  /\ GoesTo(p, "fail")
  /\ UNCHANGED <<uptime, streams, table, lastUsed, owner, told, shut, ending>>

\* removeSession: the exchange has failed. The stream is closed next, again or by another.
ForwardFails(p) ==
  LET s == post[p].session IN
  /\ At(p, "post") \/ At(p, "await") \/ At(p, "fail")
  /\ table' = table \ {s}
  /\ Serves(p, [post[p] EXCEPT !.pc = "drop", !.closing = {s}])
  /\ UNCHANGED <<uptime, streams, lastUsed, open, owner, told, shut, ending>>

FailureAnswered(p) ==
  /\ At(p, "drop")
  /\ Unlocks(p) /\ Answers(p)
  /\ UNCHANGED <<uptime, streams, table, lastUsed, open, shut, ending>>

\* handleDelete takes the session, if it is there, and closes it;
HandleDelete(p, s) ==
  /\ At(p, "rest")
  /\ table' = table \ {s}
  /\ Serves(p, [Quiet EXCEPT !.pc = "delete", !.closing = {s} \cap table])
  /\ UNCHANGED <<uptime, streams, lastUsed, open, owner, told, shut, ending>>

\* the answer is 204 in either case.
DeleteAnswered(p) ==
  /\ At(p, "delete")
  /\ Serves(p, Quiet)
  /\ UNCHANGED <<uptime, streams, table, lastUsed, open, owner, told, shut, ending>>

\* Close, while requests are in flight: ListenAndServe returns before they end.
BridgeClose ==
  /\ ~shut /\ shut' = TRUE
  /\ table' = {} /\ ending' = table
  /\ UNCHANGED <<uptime, streams, lastUsed, open, owner, post, told>>

CloseNext ==
  \E s \in ending :
    /\ open' = open \ {s} /\ ending' = ending \ {s}
    /\ UNCHANGED <<uptime, streams, table, lastUsed, owner, post, told, shut>>

Serve(p) ==
  \/ \E s \in told \cup {0} : HandlePost(p, s)
  \/ FindSession(p) \/ Connect(p) \/ EndpointFound(p) \/ EndpointMissing(p) \/ Insert(p)
  \/ TakeSession(p) \/ ForwardDone(p) \/ Await(p) \/ StreamAnswers(p) \/ TimesOut(p)
  \/ ForwardFails(p) \/ FailureAnswered(p) \/ CloseTaken(p)
  \/ (\E s \in told : HandleDelete(p, s)) \/ DeleteAnswered(p)

BridgeNext == BridgeTick \/ BridgeClose \/ CloseNext \/ \E p \in Posts : Serve(p)

BridgeSpec == BridgeInit /\ [][BridgeNext]_bridgeVars
-----------------------------------------------------------------------------
(* What is to hold                                                         *)

\* The stream that a request has opened and is about to put into the table
InHand(p) == IF post[p].pc \in {"endpoint", "insert"} THEN {post[p].session} ELSE {}

\* The streams whose closing or entering is up to a request
Keeps(p) == post[p].closing \cup InHand(p)

\* Every stream still open at the service is in the table, where a later request can
\* prune or evict it, or somebody at work has it and will close it or put it there,
\* however evictions, deletions, failures and the end of the bridge fall between. The
\* table alone is no bound on the streams: as long as it has not closed them, each
\* request, and Close, may hold another table's worth, but never more. And a stream
\* about to enter the table is open, so nobody can have closed it before.
StreamsAreAccountedFor ==
  /\ open \subseteq table \cup ending \cup UNION {Keeps(p) : p \in Posts}
  /\ \A held \in {table, ending} \cup {Keeps(p) : p \in Posts} : Cardinality(held) <= TableLimit
  /\ \A p \in Posts : InHand(p) \subseteq open \ table
=============================================================================
