---------------------------- MODULE OAuthSession ----------------------------
(***************************************************************************)
(* The OAuth sessions of the edge: authorization codes, the exchange of a  *)
(* code, the rotation of refresh tokens, operator tokens and the check of  *)
(* a bearer token on a protected route (src/internal/edge/oauth.go,        *)
(* state_store.go, server.go).  The order in which the token endpoint      *)
(* calls the store is that of the go-oauth2 library the edge configures.   *)
(*                                                                         *)
(* A row of oauth_sessions holds either a code or the current pair of      *)
(* access and refresh token.  The pair has one number here, that of its    *)
(* generation: both are replaced together.  A client can present only the  *)
(* numbers that were delivered to it.                                      *)
(***************************************************************************)
EXTENDS Integers, Sequences, FiniteSets

CONSTANTS
  Grants,        \* pairs of a subject and a service that may be granted
  NoGrant,
  Requests,      \* token, authorize and mint requests in flight at once
  Uses,          \* protected requests in flight at once
  Purposes,      \* which of the ways to start a session the instance has
  CodeTTL,       \* OAuthAuthorizationCodeTTL
  AccessTTL,     \* OAuthAccessTokenTTL, and what an operator asks for
  RefreshTTL,    \* OAuthRefreshTokenTTL
  MaxTokens,     \* BOUND: credentials issued
  MaxClock,      \* BOUND: length of the explored history
  MaxAborts      \* BOUND: requests that die between two statements

ASSUME SessionConstants ==
  /\ NoGrant \notin Grants
  /\ Purposes \subseteq {"authorize", "mint", "device"}
  /\ CodeTTL \in Nat /\ AccessTTL \in Nat /\ RefreshTTL \in Nat
  /\ MaxTokens \in Nat /\ MaxClock \in Nat /\ MaxAborts \in Nat

VARIABLES
  clock,       \* time.Now() of the edge
  granted,     \* what Allowed and AllowedScopes accept
  rows,        \* the oauth_sessions table, indexed in the order of the INSERTs
  tokens,      \* history: every code and token pair ever stored
  held,        \* the credentials that reached their client
  req,         \* requests that issue, exchange, refresh or mint
  use,         \* requests to a protected route
  honoured,    \* history: what the protected route let through
  aborts       \* requests that died so far

vars == <<clock, granted, rows, tokens, held, req, use, honoured, aborts>>
-----------------------------------------------------------------------------
Kinds == {"code", "oauth", "operator"}

Rows == [kind : Kinds, grant : Grants, token : Nat, at : Nat, refreshAt : Nat,
         consumed : BOOLEAN, gone : BOOLEAN]

Tokens == [row : Nat, parent : Nat, at : Nat]

ReqPCs == {"idle", "authorize", "mint", "found", "valid", "taken", "checked",
           "stamped", "retire", "reply"}

Reqs == [pc : ReqPCs, grant : Grants \cup {NoGrant}, token : Nat, old : Nat,
         now : Nat]

UseRecords == [pc : {"idle", "timed", "loaded"}, token : Nat, at : Nat]

Idle    == [pc |-> "idle", grant |-> NoGrant, token |-> 0, old |-> 0, now |-> 0]
UseIdle == [pc |-> "idle", token |-> 0, at |-> 0]

TypeOK ==
  /\ clock \in 0 .. MaxClock
  /\ granted \in SUBSET Grants
  /\ rows \in Seq(Rows)
  /\ tokens \in Seq(Tokens)
  /\ held \in SUBSET (1 .. Len(tokens))
  /\ req \in [Requests -> Reqs]
  /\ use \in [Uses -> UseRecords]
  /\ honoured \in SUBSET [token : 1 .. Len(tokens), at : Nat]
  /\ aborts \in 0 .. MaxAborts
-----------------------------------------------------------------------------
Init ==
  /\ clock = 0
  /\ granted = Grants
  /\ rows = << >>
  /\ tokens = << >>
  /\ held = {}
  /\ req = [r \in Requests |-> Idle]
  /\ use = [u \in Uses |-> UseIdle]
  /\ honoured = {}
  /\ aborts = 0

Tick ==
  /\ clock < MaxClock
  /\ clock' = clock + 1
  /\ UNCHANGED <<granted, rows, tokens, held, req, use, honoured, aborts>>

\* The control plane rewrites service_grants or the enabled flag of a service.
ChangeGrants(g) ==
  /\ granted' = IF g \in granted THEN granted \ {g} ELSE granted \cup {g}
  /\ UNCHANGED <<clock, rows, tokens, held, req, use, honoured, aborts>>
-----------------------------------------------------------------------------
(* Tokens and rows *)

\* Mutation: the number of the last credential is handed out again.
FreshOffByOne == Len(tokens)

Fresh == Len(tokens) + 1
RowOf(n)   == tokens[n].row
ReqGoto(r, pc) == req' = [req EXCEPT ![r].pc = pc]
ReqDone(r)     == req' = [req EXCEPT ![r] = Idle]

\* The SELECT by hash: a row holds credential n if it was not overwritten or
\* deleted since.
Holds(n) == rows[RowOf(n)].token = n /\ ~rows[RowOf(n)].gone

Expired(from, ttl, now) == from + ttl < now

\* INSERT of a new row with a new credential.
Insert(kind, grant, parent, at) ==
  /\ Len(tokens) < MaxTokens
  /\ rows' = Append(rows, [kind |-> kind, grant |-> grant, token |-> Fresh,
                           at |-> at, refreshAt |-> at, consumed |-> FALSE,
                           gone |-> FALSE])
  /\ tokens' = Append(tokens, [row |-> Len(rows) + 1, parent |-> parent,
                               at |-> at])

Delete(i) == rows' = [rows EXCEPT ![i].gone = TRUE]
-----------------------------------------------------------------------------
(* How sessions start: handleAuthorize and handleOperatorTokens check the    *)
(* grant, read the clock and insert the row; a device token is inserted by   *)
(* the transaction that DeviceAuthorization models                           *)

Admit(r, g, purpose) ==
  /\ req[r].pc = "idle"
  /\ g \in granted
  /\ req' = [req EXCEPT ![r] = [Idle EXCEPT !.pc = purpose, !.grant = g,
                                            !.now = clock]]
  /\ UNCHANGED <<clock, granted, rows, tokens, held, use, honoured, aborts>>

\* The clock was read at some time between the check of the grant and now.
Issue(r) ==
  /\ \E at \in req[r].now .. clock :
       \/ req[r].pc = "authorize" /\ Insert("code", req[r].grant, 0, at)
       \/ req[r].pc = "mint" /\ Insert("operator", req[r].grant, 0, at)
  /\ req' = [req EXCEPT ![r] = [Idle EXCEPT !.pc = "reply", !.token = Fresh]]
  /\ UNCHANGED <<clock, granted, held, use, honoured, aborts>>

\* The poll of the device read its clock and the grant some time before.
IssueToDevice(r, g) ==
  /\ req[r].pc = "idle"
  /\ \E at \in 0 .. clock : Insert("oauth", g, 0, at)
  /\ req' = [req EXCEPT ![r] = [Idle EXCEPT !.pc = "reply", !.token = Fresh]]
  /\ UNCHANGED <<clock, granted, held, use, honoured, aborts>>

\* DeleteOperatorOAuthSessionByID
RevokeAny(i) ==
  /\ rows[i].kind \in {"operator", "oauth"} /\ ~rows[i].gone
  /\ Delete(i)
  /\ UNCHANGED <<clock, granted, tokens, held, req, use, honoured, aborts>>

Revoke(i) ==
  /\ rows[i].kind = "operator" /\ ~rows[i].gone
  /\ Delete(i)
  /\ UNCHANGED <<clock, granted, tokens, held, req, use, honoured, aborts>>
-----------------------------------------------------------------------------
(* The token endpoint: exchange of a code and rotation of a refresh token    *)

\* The first SELECT.  Only the one by code hash asks for consumed_at IS NULL.
Lookup(r, n) ==
  LET i == RowOf(n) IN
  /\ req[r].pc = "idle"
  /\ n \in held
  /\ Holds(n)
  /\ \/ rows[i].kind = "code" /\ ~rows[i].consumed
     \/ rows[i].kind = "oauth"
  /\ req' = [req EXCEPT ![r] = [Idle EXCEPT !.pc = "found", !.token = n,
                                            !.grant = rows[i].grant]]
  /\ UNCHANGED <<clock, granted, rows, tokens, held, use, honoured, aborts>>

\* validateOAuthSessionAuthorization and the bindings to client and resource,
\* which the client may get wrong.
Validate(r) ==
  /\ req[r].pc = "found"
  /\ \/ req[r].grant \in granted /\ ReqGoto(r, "valid")
     \/ ReqDone(r)
  /\ UNCHANGED <<clock, granted, rows, tokens, held, use, honoured, aborts>>

\* Mutation: the UPDATE forgets consumed_at IS NULL.
TakeableOnceMore(n) == Holds(n)

Takeable(n) == Holds(n) /\ ~rows[RowOf(n)].consumed

\* ConsumeOAuthSessionByCodeHash and ConsumeOAuthSessionByRefreshHash
Consume(r) ==
  LET n == req[r].token IN
  /\ req[r].pc = "valid"
  /\ \/ Takeable(n) /\ rows' = [rows EXCEPT ![RowOf(n)].consumed = TRUE]
                    /\ ReqGoto(r, "taken")
     \/ ~Takeable(n) /\ UNCHANGED rows /\ ReqDone(r)
  /\ UNCHANGED <<clock, granted, tokens, held, use, honoured, aborts>>

Lapsed(i, now) ==
  \/ rows[i].kind = "code" /\ Expired(rows[i].at, CodeTTL, now)
  \/ rows[i].kind = "oauth" /\ Expired(rows[i].refreshAt, RefreshTTL, now)

\* The library checks the age of what it took; for a code also the client and
\* the redirect URI, which the client may get wrong.
Check(r) ==
  LET i == RowOf(req[r].token) IN
  /\ req[r].pc = "taken"
  /\ \/ ~Lapsed(i, clock) /\ ReqGoto(r, "checked")
     \/ (Lapsed(i, clock) \/ rows[i].kind = "code") /\ ReqDone(r)
  /\ UNCHANGED <<clock, granted, rows, tokens, held, use, honoured, aborts>>

\* RemoveByCode, the PKCE verifier, and the clock that dates the new tokens.
Stamp(r) ==
  LET i == RowOf(req[r].token) IN
  /\ req[r].pc = "checked"
  /\ \/ req' = [req EXCEPT ![r].pc = "stamped", ![r].now = clock]
     \/ rows[i].kind = "code" /\ ReqDone(r)
  /\ IF rows[i].kind = "code" THEN Delete(i) ELSE UNCHANGED rows
  /\ UNCHANGED <<clock, granted, tokens, held, use, honoured, aborts>>

\* The upsert of a rotated pair under the old session id.
\* Mutation: IsResetRefreshTime, a sliding refresh lifetime.
ReplaceSliding(i, n, now) ==
  [rows EXCEPT ![i] = [@ EXCEPT !.token = n, !.at = now, !.refreshAt = now,
                                !.consumed = FALSE, !.gone = FALSE]]

\* Mutation: the upsert leaves consumed_at alone.
ReplaceConsumed(i, n, now) ==
  [rows EXCEPT ![i] = [@ EXCEPT !.token = n, !.at = now, !.gone = FALSE]]

Replace(i, n, now) ==
  [rows EXCEPT ![i] = [@ EXCEPT !.token = n, !.at = now,
                                !.consumed = FALSE, !.gone = FALSE]]

CreateExchanged(r) ==
  LET n == req[r].token IN
  /\ req[r].pc = "stamped" /\ rows[RowOf(n)].kind = "code"
  /\ Insert("oauth", req[r].grant, n, req[r].now)
  /\ req' = [req EXCEPT ![r].pc = "reply", ![r].token = Fresh]
  /\ UNCHANGED <<clock, granted, held, use, honoured, aborts>>

CreateRotated(r) ==
  LET n == req[r].token  i == RowOf(n) IN
  /\ req[r].pc = "stamped" /\ rows[i].kind = "oauth"
  /\ Len(tokens) < MaxTokens
  /\ rows' = Replace(i, Fresh, req[r].now)
  /\ tokens' = Append(tokens, [row |-> i, parent |-> n, at |-> req[r].now])
  /\ req' = [req EXCEPT ![r].pc = "retire", ![r].token = Fresh, ![r].old = n]
  /\ UNCHANGED <<clock, granted, held, use, honoured, aborts>>

\* Mutation: the old row is removed by session id instead of by token hash.
RetiredBySession(n) ==
  [i \in 1 .. Len(rows) |->
     IF i = RowOf(n) THEN [rows[i] EXCEPT !.gone = TRUE] ELSE rows[i]]

\* DELETE by the hash of the old access and refresh token.
Retired(n) ==
  [i \in 1 .. Len(rows) |->
     IF rows[i].token = n THEN [rows[i] EXCEPT !.gone = TRUE] ELSE rows[i]]

\* RemoveByAccess and RemoveByRefresh of what was replaced
Retire(r) ==
  /\ req[r].pc = "retire"
  /\ rows' = Retired(req[r].old)
  /\ ReqGoto(r, "reply")
  /\ UNCHANGED <<clock, granted, tokens, held, use, honoured, aborts>>

Reply(r) ==
  /\ req[r].pc = "reply"
  /\ held' = held \cup {req[r].token}
  /\ ReqDone(r)
  /\ UNCHANGED <<clock, granted, rows, tokens, use, honoured, aborts>>

\* The client hangs up, a statement fails, the reply is lost or the edge dies.
Abort(r) ==
  /\ req[r].pc # "idle" /\ aborts < MaxAborts
  /\ aborts' = aborts + 1
  /\ ReqDone(r)
  /\ UNCHANGED <<clock, granted, rows, tokens, held, use, honoured>>
-----------------------------------------------------------------------------
(* A protected route: ValidateBearerToken, then the grant                    *)

\* The library reads the clock before it loads the token.
UseBegin(u, n) ==
  /\ use[u].pc = "idle"
  /\ n \in held /\ rows[RowOf(n)].kind # "code"
  /\ use' = [use EXCEPT ![u] = [pc |-> "timed", token |-> n, at |-> clock]]
  /\ UNCHANGED <<clock, granted, rows, tokens, held, req, honoured, aborts>>

Fits(i, now) ==
  /\ ~Expired(rows[i].at, AccessTTL, now)
  /\ rows[i].kind = "oauth" => ~Expired(rows[i].refreshAt, RefreshTTL, now)

UseLoad(u) ==
  LET n == use[u].token IN
  /\ use[u].pc = "timed"
  /\ use' = [use EXCEPT ![u] =
               IF Holds(n) /\ Fits(RowOf(n), use[u].at)
               THEN [@ EXCEPT !.pc = "loaded"] ELSE UseIdle]
  /\ UNCHANGED <<clock, granted, rows, tokens, held, req, honoured, aborts>>

UseAllowed(u) ==
  /\ use[u].pc = "loaded"
  /\ honoured' = IF rows[RowOf(use[u].token)].grant \in granted
                 THEN honoured \cup {[token |-> use[u].token, at |-> use[u].at]}
                 ELSE honoured
  /\ use' = [use EXCEPT ![u] = UseIdle]
  /\ UNCHANGED <<clock, granted, rows, tokens, held, req, aborts>>
-----------------------------------------------------------------------------
TokenStep(r) ==
  \/ Issue(r) \/ Validate(r) \/ Consume(r) \/ Check(r) \/ Stamp(r)
  \/ CreateExchanged(r) \/ CreateRotated(r) \/ Retire(r) \/ Reply(r)

Next ==
  \/ Tick
  \/ \E g \in Grants : ChangeGrants(g)
  \/ \E r \in Requests, g \in Grants, p \in Purposes \ {"device"} : Admit(r, g, p)
  \/ "device" \in Purposes /\ \E r \in Requests, g \in Grants : IssueToDevice(r, g)
  \/ \E r \in Requests, n \in held : Lookup(r, n)
  \/ \E r \in Requests : TokenStep(r) \/ Abort(r)
  \/ \E i \in 1 .. Len(rows) : Revoke(i)
  \/ \E u \in Uses, n \in held : UseBegin(u, n)
  \/ \E u \in Uses : UseLoad(u) \/ UseAllowed(u)

Spec == Init /\ [][Next]_vars
-----------------------------------------------------------------------------
(* Safety *)

Taken == {"taken", "checked", "stamped"}

\* A request that lost the race, was refused, or came late never costs the
\* winner its session: as long as no request died, the pair in a row of an
\* OAuth session is one its client has or is being sent, and it is spent only
\* while a request is replacing it or after the session's lifetime.
SessionsSurviveRaces ==
  aborts = 0 =>
    \A i \in 1 .. Len(rows) : rows[i].kind = "oauth" =>
      /\ ~rows[i].gone
      /\ \/ rows[i].token \in held
         \/ \E r \in Requests : req[r].pc \in {"retire", "reply"}
                                /\ req[r].token = rows[i].token
      /\ rows[i].consumed =>
           \/ Expired(rows[i].refreshAt, RefreshTTL, clock)
           \/ \E r \in Requests : req[r].pc \in Taken
                                  /\ req[r].token = rows[i].token

\* The credential a session began with: its predecessor, if any, is a code.
First(n) == tokens[n].parent = 0 \/ RowOf(tokens[n].parent) # RowOf(n)

\* Rotation does not prolong a session: nothing is let through later than the
\* refresh lifetime of its first token pair, nor with an access token that is
\* too old by itself.
LifetimeIsAbsolute ==
  \A h \in honoured :
    /\ ~Expired(tokens[h.token].at, AccessTTL, h.at)
    /\ \A m \in 1 .. Len(tokens) :
         First(m) /\ RowOf(m) = RowOf(h.token)
         /\ rows[RowOf(m)].kind = "oauth" =>
           ~Expired(tokens[m].at, RefreshTTL, h.at)

\* A row that was deleted stays deleted: the upsert of a rotation in flight
\* does not bring back a session that was revoked under it.
DeletedStaysDeleted ==
  [][\A i \in 1 .. Len(rows) : rows[i].gone => rows'[i].gone]_vars

\* Consuming, crashing and replacing in separate statements implements a chain
\* of credentials each of which is spent at most once.
Chain == INSTANCE TokenChain WITH
  parents <- [n \in 1 .. Len(tokens) |-> tokens[n].parent],
  live <- {n \in 1 .. Len(tokens) :
             \/ Holds(n) /\ ~rows[RowOf(n)].consumed
             \/ \E r \in Requests : req[r].pc \in Taken /\ req[r].token = n}

ImplementsChain == Chain!Spec
=============================================================================
