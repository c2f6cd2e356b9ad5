# A TLA+ model of mcp-edge-gateway

The repository (`../src`) is a Go platform of three programs over one SQLite
database:

* **mcp-edge** (`internal/edge`) is the public door: an OAuth 2 authorization
  server (authorization code, refresh and device grants, dynamic registration,
  operator tokens), a browser login against an OIDC provider, and a
  reverse proxy that lets a bearer token through to the tenant's own MCP server.
* **mcp-control-plane** (`internal/controlplane`) is the single writer of who may
  use what: it synchronises grants from Authentik, turns them into desired
  tenants, and reconciles those with services run by Coolify, under a lease in
  the database so that only one instance works at a time.
* **mcp-edge-credential-bridge** (`internal/credentialbridge`) runs beside a
  headless MCP client: it signs in with the device grant, keeps the rotating
  credential in the desktop keystore, and relays stdio to the edge.

This directory states what makes those parts correct and checks it: TLC on small
instances, TLAPS for every value of the constants.

## Inventory

| Component | State | Operations | What is hard | What makes it correct |
|---|---|---|---|---|
| Device authorization grant (`edge/oauth.go`, `edge/state_store.go`) | `oauth_device_authorizations`, the sessions it creates | open a code, poll, approve, deny, sweep | every request reads the row, then the clock, then writes; writes whose error is ignored | a code yields one token, for its approver, inside its lifetime; decisions are final; nobody is left open for ever |
| OAuth sessions (same files, go-oauth2) | `oauth_sessions` (code, access and refresh hashes, `consumed_at`) | authorize, exchange, refresh, introspect, mint and revoke operator tokens | lookup, validation, consumption and replacement are separate statements; a crash in between | a code or refresh token is spent once; rotation is a chain; a session ends by its first refresh lifetime; revoked operator sessions stay revoked |
| Client registration | `oauth_clients` | register, bootstrap, import a metadata document | little: one insert each | the client of a code or session never changes |
| Browser login (`edge/auth.go`) | pending logins, browser sessions | begin, callback, inject | get and delete of the pending login are separate | one login per OIDC code; sessions end on time (not modelled) |
| Catalog cache, directory | one immutable snapshot behind an atomic pointer | refresh every 15 s, look up | the control plane edits the catalog under it | paths are unambiguous, the last good snapshot survives errors, every admitted change arrives |
| Protected route, resolver, identity headers (`edge/server.go`, `edge/resolver.go`) | none of its own | check token, scope, resource, grant, tenant; proxy | each check reads another table at another time | what was taken away before a request arrived is refused |
| SSE bridge (`edge/proxy.go`) | session table, per-session mutex, upstream streams | post, delete, prune, evict, close | streams opened before the lock and closed after it; eviction of a session in use | no stream is forgotten: it is in the table, or somebody at work will close it or put it there |
| Lease and loops (`controlplane/server.go`, `store.go`, `leases.sql`) | one lease row; `released` per process | acquire, hold, release; renew, reconcile, probe | stalls longer than the lease; failed renewals; crashes | one holder; a process that lost the lease never acts again; somebody leads again |
| Tenant lifecycle (`reconciler.go`, `tenant_runtime.go`, `store.go`) | `tenant_instances`: desired and runtime state, Coolify id, upstream | desire, reconcile, suspend, resume, bind a static upstream, delete | a snapshot is acted on while administrators write; Coolify fails, is slow, forgets | runtime follows desired state; no service without a tenant; a deletion removes only what was to be deleted |
| Service grants (`authentik_client.go`, `grants_admin.go`) | grant sources and effective grants | synchronise, grant and revoke by hand | a slow external listing between two database accesses | effective grants come to be what follows from Authentik and the manual grants; a manual grant survives a synchronisation |
| Catalog and upstream administration | `service_catalog`, static upstreams | put, disable, bind | checks outside the transaction that writes | no two enabled services share a path |
| Memory-bank shares (`memory_bank_admin.go`) | projects, shares | invite, accept, expire, revoke, archive | sweep and acceptance are two statements | an expired or revoked share is never active again |
| Runtime attestation | evidence rows | append | nothing reads them back | - |
| Credential store (`credentialbridge/store.go`, `oauth.go`) | keystore entry, lock file | login, token, refresh, logout | processes share one rotating token; crash or failure between rotation and store | the stored refresh token is the live one; a rejected token is refreshed once |
| Stdio relay (`credentialbridge/transport.go`) | workers, session id, notification stream | relay, listen, close | initialisation order, bounded workers, reconnect | order on the wire; answers get a slot; the session is closed after the last worker |
| Configuration, commands, secrets, Infisical, self check, ids, faults, migrations, deployment | none | - | - | left out |

How they interact: the edge and the control plane share only the database. The
control plane writes grants, catalog and tenants and the edge reads them,
request by request (grants, tenants) or every 15 seconds (catalog); the edge
writes subjects, clients, sessions and device codes. The bridge talks to the
edge over HTTP only. `PROJECT.json` lists the hazards line by line.

## Plan

In the order in which they are written; the most consequential first.

| # | Module | Models | Abstract specification | Runs | Theorems |
|---|---|---|---|---|---|
| 1 | `DeviceAuthorization` (done) | device grant | `DeviceGrant` (done) | races, liveness (done) | typing, all safety properties, refinement (done) |
| 2 | `OAuthSession` (done) | code exchange, rotation, operator tokens, route check | `TokenChain` (done): each credential is spent at most once | races, lifetime (done) | typing, absolute lifetime, losers do no harm, deleted rows stay deleted, refinement (done) |
| 3 | `ControlPlaneLease` (done) | lease, renewal loop, reconcile loop, readiness, restart | - | takeover, liveness of leadership (done) | typing, one leader, bounded stale work, sticky loss (done) |
| 4 | `TenantLifecycle` (done) | desired state, reconciler, Coolify, static upstreams | - | static, Coolify, teardown, and two disagreements (done) | typing, deserved teardown, final deletion, nobody waits in vain, leaks cost faults (done) |
| 5 | `GrantSync` (done) | synchronisation and manual grants | - | overlapping synchronisations (done) | typing, survival of manual grants (done) |
| 6 | `CatalogRouting` (done) | catalogue, snapshot, a request's way to its tenant | - | stale snapshot, crash (done) | typing, one service per path, lawful forwards (done) |
| 7 | `MemoryBankShares` (done) | projects and shares | `ProjectSharing` (done) | two requests, a tenant made anew (done) | real conflicts, refinement (done) |
| 8 | `CredentialStore` (done) | lock, keystore, rotation, repetition after 401 | - | two processes, lost writes (done) | typing, no refresh with a spent token, final logout (done) |
| 9 | `SSEBridge` (done) | session table | - | limit, eviction, close (done) | no stream is forgotten, how many there are at most (done) |
| 10 | `StdioRelay` (done) | reader, workers, end of the run | - | slots, handshake, end (done) | typing, order on the wire (done) |

## Module 1: the device authorization grant

`DeviceGrant` is what the edge promises: a code is opened, decided about once,
swept when its time is over, and redeemed at most once for the subject that
approved it. `DeviceAuthorization` is what the handlers do.

| TLA+ | Go |
|---|---|
| `device[c]` | the row of a code; `status = "none"` before the INSERT |
| `sessions` | the `oauth_sessions` rows written by this grant, in commit order |
| `granted` | the subjects for which `AllowedScopes` answers true |
| `poll[p]`, `verify[v]` | one request each: where it stands, the row it read (`seen`), the clock it read (`now`), who posts the form (`by`) |
| `answers` | history: which answers that say "this code has ended" were sent |
| `PollLoad` ... `PollConsume` | `handleDeviceToken`, one action per database statement or clock read |
| `VerifyLoad` ... `VerifyApprove` | `handleDeviceVerificationPost`, in the same way |
| `PollAborts`, `VerifyAborts` | the client disconnects (its context cancels the next statement), a statement or commit fails, the process dies |
| `StoreFaults` | the three writes whose error the handler discards may fail |

The database is SQLite: a statement, and the transaction of
`ConsumeDeviceAuthorizationAndCreateToken`, are atomic, and nothing else is. The
row is read before the clock, and between any two statements every other request
may run. The client of a code, its scope and its resource are fixed here: no
statement in the repository changes or disables a client, and the catalog's
influence is folded into `granted`. `poll_count` and the audit log are written
and never read; the cross-site token of the form and rendering are left out.
`PruneExpiredDeviceAuthorizations` exists and is never called, so rows stay.

What the runs check, all with deadlock checking on:

* `DeviceRaces` - one code with a life of 1 tick in a history of 2, two polls, two
  browsers, two subjects, and writes whose error the handlers ignore may fail.
  `TypeOK`; `OneTokenPerCode`; `IssuedInsideWindow`: the time on a token lies
  between approval and expiry although approval, poll and sweep each carry a
  clock read earlier; `ConsumedIffIssued`; `PollsSeeTheApproval`;
  `DecisionsAreFinal`; `ImplementsPromise`: the handlers implement `DeviceGrant`.
* `DeviceLiveness` - `CodesSettle` under `FairSpec`, with a request that may die, and
  `AnswersAreFinal`: after an answer that says the code has ended, not even a poll
  still in flight gets a token. This one needs the sweep to be stored before
  `expired_token` is sent, so `StoreFaults` is FALSE here: the code ignores the error of
  the sweep, and when it fails the answer can turn out wrong, which no property
  excludes. Nor does it speak about the 403 `access_denied` of a subject without the grant, after which the code
  can still be redeemed.

The bounds. Two polls are enough for a race on the transaction and for a poll
that outlives another's answer; a third would repeat the role of one of them.
Two browsers with two subjects give approval against approval and approval
against denial. The history goes past the expiry of the only code, so each test of
time is met before and after it. One code is enough for TLC: only the sweep touches
the rows of others, and that the handlers implement `DeviceGrant` with any number
of codes is proved.
Intervals above the life of a code all refuse a second poll, so `MaxInterval`
caps them. Subjects, codes and requests are interchangeable, so `DeviceRaces`
uses symmetry; the liveness run does not.

Fairness. Time passes (`WF` on `Tick`), the server finishes the requests it
accepted (`WF` per request; Go schedules every goroutine and SQLite answers or
fails), and the device goes on polling (`SF`, because the row must be there and
a request slot free). Nobody is assumed to open the approval form. The
assumption about the device is the one the code depends on: `CodesSettle` is
false for a code whose device has gone away, because the sweep runs inside polls
only.

### What is proved

`DeviceAuthorizationProofs` proves for any number of codes, subjects and
requests, any lifetimes, and with or without `StoreFaults`:
`TypeCorrectness`, `SingleUse`, `TokenBelongsToApprover`, `TokenInsideWindow`,
`PollsReadTruth`, `DecisionFinality` and `Implementation` (the refinement of
`DeviceGrant`), and for `StoreFaults = FALSE` `FinalAnswersHold` (`AnswersAreFinal`).
Apart from that, the only assumption is `ConstantsAssumption`: the NULLs are not
members of the sets they extend, and the durations are natural numbers.

The argument is one inductive invariant, `IInv`. The properties themselves are
not inductive: a poll at `consume` builds its token from the row it read some
time ago, so one must know what that reading still says of the row now. `IInv`
adds two parts. `RowsCoherent`: an approved, expired or consumed row relates
its subject, its approval time and its expiry (a decision was taken before the
expiry, by somebody, no later than now); only a row that was opened has a
session. `RequestsCoherent`: the clock of a request never lies ahead; a poll
past its tests holds a clock before the expiry; and a poll that has seen an
approval has seen the one approval the row will ever have
(`PollsSeeTheApproval`). Each action is then a short case: the guards repeated
in the UPDATE statements keep decided rows fixed, and a consumed row was
approved in the same step.

`AnswersAreFinal` needs more than `IInv`. `PollsKnowTheEnd` says what the clock and
the reading of a poll are worth later: the expiry of a code and the end of its life
are never revised, so a poll that read `denied` or found its clock past the expiry
is right for ever, and one that goes on to redeem holds a clock before it. With that,
`AnswersAreTrue`: a code about which such an answer was sent is closed in the database.
The hypothesis cannot be dropped: `handleDeviceToken` discards the error of the sweep,
and if that write fails it answers `expired_token` for a row that is still approved,
which a poll with an earlier clock may then redeem.

Only model-checked: `CodesSettle`, a liveness property.

## Module 2: the sessions

`TokenChain` is the promise about credentials: one is started by a consent, an
operator or a device grant, is spent at most once for a successor, and may be
dropped. `OAuthSession` is what the handlers, the store and the go-oauth2
library do, one statement or clock read at a time.

| TLA+ | Go |
|---|---|
| `rows` | `oauth_sessions`; a deleted row is kept with `gone` so that its id is not forgotten |
| `rows[i].token` | the hashes the row holds; access and refresh token of a pair are always replaced together and have one number |
| `rows[i].at`, `.refreshAt` | `code_create_at` or `access_create_at`, and `refresh_create_at` |
| `tokens`, `honoured` | history: everything ever stored, and what the protected route let through |
| `held` | what was delivered to the client; nothing else can be presented |
| `req[r]`, `use[u]` | a request to the token, authorize or operator endpoint, and one to a protected route |
| `Lookup`, `Validate`, `Consume` | `GetByCode` and `GetByRefresh`: SELECT, checks, UPDATE ... RETURNING |
| `Check`, `Stamp` | the library, between the store's calls: age, client, `RemoveByCode`, PKCE, the clock |
| `CreateExchanged`, `CreateRotated`, `Retire` | `Create` (the upsert), `RemoveByAccess` and `RemoveByRefresh` of the old values |
| `Admit`, `Issue`, `IssueToDevice` | `handleAuthorize` and `handleOperatorTokens`; the insert made by the transaction of module 1 |
| `Revoke` | `DELETE /oauth/operator-tokens/<id>` |
| `UseBegin`, `UseLoad`, `UseAllowed` | `ValidateBearerToken` (clock, then SELECT) and the grant check of `handleServiceRoute` |
| `Abort` | client gone, statement failed, reply lost, process dead |

The library is not in the repository; its steps (`Expired`, `Lapsed`, `Check`,
`UseBegin`, `Fits`) are modelled from how `NewOAuthService` configures it and
what it calls on the store, and are marked external. What a client may get wrong
(its id, redirect, resource, verifier) is a free choice of the step that tests
it. Two facts of the code matter: the SELECT by refresh hash does not ask
whether the row is consumed, only the UPDATE does, so all losers of a race get
past the validation; and the upsert of a rotation clears `consumed_at`, so only
the change of the hash keeps a spent refresh token spent.

* `SessionRaces` - two requests and three credentials (a code and its pair, a pair and
  its rotations, operator tokens), one of which may die anywhere.
  `SessionsSurviveRaces`: a request that lost, was refused or came late leaves the
  winner's session alone, as long as no request died; `ImplementsChain`: a crash
  between consumption and upsert loses the session (the client signs in again),
  it never doubles it; `DeletedStaysDeleted`: an operator token revoked beside
  exchanges and rotations stays away. That holds because only operator rows can be
  revoked, and those are never rotated: a revocation of OAuth sessions would not
  survive the upsert of a rotation in flight.
* `SessionLifetime` - one client rotates and uses its session: `LifetimeIsAbsolute`.

Two requests make every race on the consuming UPDATE; three credentials
reach a rotation of a rotated pair. One grant that comes and goes suffices: the
handlers compare a session only with its own grant. Times of life are 0 or 1
in histories of 1 or 2 ticks, so that every comparison is met before, at and after its
boundary. There is no liveness property: every request ends after a fixed number
of statements.

### What is proved

`OAuthSessionProofs` proves every property of the module, for any number of requests,
credentials and ticks, any times of life, and with requests that may die anywhere:
`SessionsTyped` (`TypeOK`), `LifetimeHolds` (`LifetimeIsAbsolute`), `SessionsSurvive`
(`SessionsSurviveRaces`), `DeletedHolds` (`DeletedStaysDeleted`) and `ChainIsImplemented`
(`ImplementsChain`, step by step). Assumed is `SessionConstants` only.

The inductive invariant `OInv` is about the tables and what a request remembers of them.
`Linked` and `Dated`: a row and its newest credential name each other, and a row's
refresh time is the time of the credential it began with, whichever rotation it holds
now - which is why rotating does not prolong a session. `Rotated`: rows of OAuth sessions
are replaced and never deleted, the others are deleted and never replaced. `Knows`: between
consumption and replacement a request's credential is still the one in the row, and the row
is consumed, although other requests run in between; this is what the `consumed_at` test
of the UPDATE and the change of the hash buy together. `Alone`: of the requests that
carry one credential, one is past the consumption. `Used` dates what the protected
route has read. `Young` states the tests of the library once, for a use and for the
history. `Surviving` adds what holds as long as nobody died: the pair in a row is on its
way to the client or there, and a row is consumed only while a request is about to
replace it.

## Module 3: the lease of the control plane

Several control planes may run on one database; the row of
`control_plane_leases` says who leads and until when. Asking
(`ControlPlaneLock.Held`) is renewing. Three goroutines of a process ask: the
renewal loop every third of the term, the reconcile loop before each segment of
its work, and `/health/ready`, with the context of the request.

| TLA+ | Go |
|---|---|
| `lease` | the row; `left` is `expires_at` minus now; `Former` is an id whose process has ended |
| `inst[p].life` | `opening`: in `NewApp`; `startup`: the startup sequence in `Run`; `closing`: after `Close` released the lock |
| `released`, `mutex`, `age` | the `ControlPlaneLock`; `age` is how long ago `Held` read the clock |
| `until`, `denied`, `stale` | history: the last confirmed term, whether anybody was told no, work done under somebody else's row |
| `seg`, `phase` | the reconcile loop: synchronise Authentik, desired tenants, and for each tenant apply and record |
| `Ask`, `AnswerYes`, `AnswerNo`, `AnswerError`, `Refuse` | `Held`: mutex and clock, then one statement, or the early return |
| `Told` | what the asking goroutine does with the answer |
| `Close`, `Exit`, `Crash` | `App.Close`, the end of the process |

Times count down instead of clocks counting up, so the model needs no end of
history and liveness can be stated. A statement that fails may have taken effect.

* `LeaseTakeover` - two processes, a term of one tick, stalls of up to two,
  two faults. `OneLeader`; `AtMostOneStaleSegment`: the lease is no fence, a
  process that stalls after a yes still finishes what it is doing, and the check
  before each segment bounds that to one; `NoWorkAfterDenial`.
* `LeaseLiveness` - one process that crashes, is shut down or fails to renew
  twice: `LeadershipReturns`. Its own abandoned rows are in its way exactly as
  another process's would be.

Observations on the code that the model shows and no document denies. A prober that
hangs up during `/health/ready` makes `Held` fail and so ends the leader: the
renewal loop notices at its next tick and stops the process. A shutdown whose
`select` picks a ticker over the cancelled context asks with that context,
releases the lock without deleting the row, and the successor waits for the term
to end. The administrative handlers write without asking for the lease.

Fairness for `LeadershipReturns`: a supervisor restarts what is down (the
deployment restarts its containers), time passes (`SF`, because only the bound
`MaxStall` ever holds a tick back), statements end, the renewal loop's ticker fires
(`SF`: the mutex is contended and Go's mutexes do not starve a waiter), a cancelled
process closes and ends. `MaxFaults` makes the faults finite.

Proved for any number of processes, any term, stall and number of faults:
`TypeCorrectness`, `MutualExclusion`, `StaleWorkBound`, `DenialIsFinal`. The
inductive invariant adds `Confirmed` (a process that leads knows exactly what the
row says) and that a denied lock is released and nobody asks through a released
lock. The argument is in `StepOf`: a step changes the row only if it may take it
or holds it, and `Grantable` is false for everybody else while a confirmed term runs.

## Module 4: the lifecycle of a tenant

One (subject, service) pair; rows of different pairs share nothing. Administrators
change the row with single statements. A reconciler lists the row, then works on
that copy: it plans (`PlanTenantAction`), calls Coolify or probes the upstream,
writes a status by tenant id, records the run and removes or marks the row. Between
any two of these the row, the leader and the services may change.

| TLA+ | Go and SQL |
|---|---|
| `row` | the row of `tenant_instances`; `id` is `tenant_id`, `resource` is `coolify_resource_id`, `static` is `runtime_mode` in the metadata, `age` the cycles since `last_reconciled_at` |
| `enabled`, `granted` | `service_catalog.enabled`; the subject's row of `service_grants` |
| `leader` | whom `requireLeadership` lets pass; module 3 shows what that is worth |
| `recon[r]` | one process in `runReconcileCycle`: `snap` is the listed tenant, `pc` the next call or statement, `outcome` what follows `RecordReconcileRun` |
| `coolify`, `dying` | the services Coolify runs, and its queue of deletions |
| `bound`, `doomed`, `issued` | history: the last registered upstream, tenants once marked deleted, ids drawn |
| `Bind`, `Suspend`, `Resume` | `UpsertStaticTenantUpstream`, `SuspendTenantInstance`, `ResumeTenantInstance` |
| `Desire`, `List`, `Apply`, `Ask`, `Record`, `Finish` | `ReconcileDesiredTenants`, then `RunOnce` |
| `GetService` .. `StopService`, `LookUp`, `DeleteService`, `Probe`, `Write` | `ensure`, `enable`, `disable`, `delete`, `observeWithURL` |

`DefaultCatalogV1` and `templatesByID` are empty in this release, so `Builtin = FALSE`
and `Template = FALSE` is what is shipped: only static tenants stay, and tenants of an
earlier release are torn down. `Builtin` and `Template` `TRUE` is what the code is
written for. Both are checked. A call of Coolify may fail after it took effect; Start
and Stop take effect at once. Attestation, `last_error`, secrets, `NoopRuntimeClient` and
what a template renders are left out; whether the subject's key has changed is a free
choice in `Desire`, and whether a service has drifted one in `Configure`.

Runs that hold:

* `TenantStatic` (as shipped, two reconcilers, two upstreams, two decisions, one
  fault, fair) - `NobodyWaitsInVain`: an enabled tenant in state `deleting` is a noop for
  ever unless it is static, so no other may get there; `EnabledBecomesReady`: a tenant
  that stays enabled ends up ready although a call fails or a process crashes.
* `TenantCoolify` (two reconcilers, four services: those that the row and the two
  reconcilers remember, and a fresh one; Coolify's ids are random, so an id that
  somebody still remembers (`Known`) is not given out again) - `OnlyTheDoomedGo`,
  `DeletedIsTerminal`, and `EveryLeakIsAFault`: the services that nobody knows of are
  at most two for each failed call, lost statement, lost service, crash or change of
  leader.
* `TenantTeardown` (one reconciler, three decisions, two faults, fair) -
  `DeletionsComplete`. `SkipReconcileMark` is what makes it true:
  waiting does not renew `last_reconciled_at`, so a forgotten deletion is asked again.
  `SuspensionStopsCompute`: in an execution without faults, the service of a tenant that
  stays suspended is stopped, also when the suspension met a creation half way.

Two reconcilers are one leader and one that lost the lease; two decisions are
enough to delete and to rebind while a reconciler works; `RequeueAfter = 2` is the
shortest that tells waiting from asking again (two minutes against thirty seconds).
Two faults let Coolify forget and a call fail in one deletion.

Fairness: `WF` on each reconciler (tickers, and calls have timeouts), `WF` on Coolify
carrying out a queued deletion. `MaxOps` and `MaxFaults` make decisions and faults finite.

Runs that show a disagreement; both are findings in `PROJECT.json`:

* `TenantRebound` - a reconciler that is probing the old upstream writes it over the
  one an administrator has just registered, and nothing brings the new one back.
* `TenantRemoved` - a deletion under way removes the row by id although the tenant has
  been bound again (the upsert keeps the id) and is enabled. The administrator
  was answered 200 and the binding is gone.

Also seen. `SuspensionStopsCompute` is false with one fault: `StartService` takes effect and
its answer is lost; the row still says `disabled`, so a suspension before the next cycle
makes the plan a noop for ever and the service runs on, although
`docs/mcp-registration-client-rbac.md` says that suspending disables compute. It needs a
tenant that Coolify runs, which the shipped catalogue has none of. Where no document says
otherwise: binding a static upstream clears the Coolify id and orphans the service; the
tenant of a dynamic service that is disabled cannot be torn down, because `loadService`
fails, until the service is enabled again; a suspended static tenant alternates between
disabled and ready, because the noop that follows its being disabled observes it (the edge
routes neither, it asks for `desired_state = 'enabled'` as well).

### What is proved

`TenantLifecycleProofs`, for any number of reconcilers, services, upstreams, decisions
and faults: `TypeCorrectness`, `TeardownIsDeserved` (`OnlyTheDoomedGo`), `DeletionIsFinal`
(`DeletedIsTerminal`), `WaitingEnds` (`NobodyWaitsInVain`) and `LeaksAreFaults`
(`EveryLeakIsAFault`). None is inductive. `Steady` says what a reconciler may rely on
between two steps: past the listing it holds a tenant, and if it is about to take
something down, its copy is of a tenant that was marked deleted and the service at hand
is that tenant's. `doomed` only grows and ids are never reused, so this survives whatever
happens to the row meanwhile; that is why a stale leader does no harm here. `Kept`
says that a status touches neither the id nor the desired state. Typing needs
`Counted`: ids are drawn from a bounded set, and a tenant is made anew by the cycle
only after its grant was taken and given back, that is, after two decisions.
`NobodyWaitsInVain` relates the status that a reconciler writes, from a copy that may be
old, to what administrators did since. `Condemning` says that only holders of a doomed
copy are about to write `deleting`; `Lasting`, that a doomed tenant stays one to be
deleted until it is gone, unless a binding makes it static. What a write leaves
alone is stated once (`Undisturbed`), and a stale write hits either the doomed tenant it
read or, by the tenant id in its WHERE, nothing.

`LeaksAreFaults` assumes that nobody can bind the tenant (`URLs = {}`), since a binding
orphans the service without any failure, as said above. The invariant is an account.
`Sum` adds up the live services, what the leader still owes (`Vacant`: the row is to
get a service; `Redo`: the leader is about to make another one) and what reconcilers
with an old copy can still take from the row (`Once`, `Twice`). `Account` says that it
never exceeds `2 * faults + 1`, where the 1 is the tenant's own service, and every
step raises the sum by at most two for each fault it commits. `Secluded`
(`Careful`, `Private`) says who may have which service at hand: a service just made is in
one reconciler's hands only, which needs `Known`.

The first bound was one for each fault, and the attempt to prove it showed that it is
false: two reconcilers that lost the lease still hold "provision" for a service they
read from the row, and that service is lost (three faults); each of them writes the id of
the lost service back twice, by the provisioning it had begun and by the observation
after it, each time over a service freshly made, which makes four orphans. It takes three
reconcilers and five services, more than a run can exhaust. With k such reconcilers
there are 2k orphans for k + 1 faults, so no factor below two will do.

Model-checked only: the liveness properties.

## Modules 5 to 10: six parts in one run

The remaining parts share no state with each other, so one run checks them all:
`MCPlatformParts` chooses a `part` at the start, and a behaviour is one of that
part's own, with the variables of the others at rest. Nothing is lost by it: no
property speaks of two parts, and `TypesOK` is the conjunction of their type
invariants. The tables they do share with modules 1 to 4 are inputs there and
state here (grants), or the other way round (tenants, the edge's token rotation).

`CHECK_DEADLOCK FALSE`: the relay really stops when `Serve` has returned.

### Module 5: `GrantSync`

| TLA+ | Go and SQL |
|---|---|
| `accounts`, `membership` | Authentik's users and groups, external |
| `offered` | `service_catalog.enabled` |
| `sources`, `effective` | `service_grant_sources`, `service_grants`; a source group is a group or `manual` |
| `sync[c]` | one call of `SyncStore`: what it has read so far |
| `SyncServices`, `ListUsers`, `ListGroups`, `SyncSubjectGrantSnapshot` | three reads, one transaction |
| `Purged`, `Unsynced`, `Derived` | `DeleteStaleServiceGrants` (or `DeleteAllServiceGrants`), `DeleteSubjectSyncedGrantSources`, `buildGrantSnapshot` with `deriveServiceGrants` |
| `UpsertManualServiceGrant`, `DeleteManualServiceGrant` | `grants_admin.go` |
| `SyncFails` | a page, a statement or the commit fails, the process dies |

`ManualGrantsSurvive`: whatever a synchronisation has read - even nobody at all -
it takes no manual grant away, and of two that overlap neither undoes what an
administrator did meanwhile. `GrantsConverge`: once nothing changes any more the
grants are exactly what follows, for good, although an older synchronisation may
write after a newer one. One person, one service and its group, the
administrators' group, two synchronisations (the leader and one that lost the
lease), three changes, one failure; people are handled independently of each
other, and a second service would only repeat the first. Fairness: the reconcile
loop's ticker and the client's timeout (`WF` on each `SyncStore`).

### Module 6: `CatalogRouting`

| TLA+ | Go and SQL |
|---|---|
| `catalog` | `service_catalog`: path, enabled, built in (no admin metadata) |
| `granted`, `ready` | the subject's rows of `service_grants`, and those of `tenant_instances` that are enabled and ready |
| `up`, `cache` | the edge process and `CatalogCache.snapshot` |
| `visit[v]` | a request in `handleServiceRoute`, with the history of what was true while it ran (`Noted`) |
| `Conflict`, `ReservedForControlPlane` | `ensureNoPublicPathConflict` and the UNIQUE index; `publicPathReservedForControlPlane` |
| `Loadable`, `Start`, `Refresh` | `newCatalogSnapshot`, `NewServerWithStateStore`, `Refresh` |
| `Route`, `Allowed`, `ResolveService`, `GetTenantUpstream` | the route by the snapshot, then one statement after the other |

`ForwardsAreLawful` is the property the handler's order has to buy: the route may
come from a snapshot 15 seconds old, and still a request is forwarded only if the
service was enabled *and* granted at one moment of its life, and the tenant ready
at one. It holds because `AllowedServiceGrant` joins the catalogue in the
database. `RoutingIsUnambiguous`: no snapshot contains two services that take one path.
A disabled entry cannot overlap its way back: enabling it is an upsert and meets
the same test. `RoutedCatalogReachesEdge`: the control plane admits nothing that makes
`newCatalogSnapshot` refuse the list, which would freeze the snapshot for all
services; the two lists of reserved paths live in different packages. Three
services, four paths (two that overlap, one under a route of the edge), one built-in
entry of an earlier release, three changes, one request, one crash. Fairness: the
refresh ticker, the supervisor, and that a control plane starts one day (it alone
disables what an earlier release left). With no enabled service at all the edge
does not start, which the property leaves out.

### Module 7: `MemoryBankShares`

`ProjectSharing` is the promise: a share is offered and accepted while the project
is live, a person has one open share at a time, what is closed stays closed.
`MemoryBankShares` is the handlers.

| TLA+ | Go and SQL |
|---|---|
| `tenant`, `project`, `share` | one owner's tenant (a new number each time it is made), `memory_bank_projects`, `memory_bank_project_shares` |
| `desk[d]` | an administrative request, with the clock (`now`) and the rows it has read |
| `Swept`, `Overdue` | `ExpireMemoryBankProjectShares`, with the clock of that request |
| `PutLoad`, `UpsertMemoryBankProject` | `handleMemoryBankProjectPut`; `archived_at` is set or kept (`COALESCE`), never cleared |
| `InviteLoad`, `InviteStamp`, `CreateMemoryBankProjectShare` | `handleMemoryBankProjectShareCreate`; sweep and insert are one transaction |
| `AcceptStamp`, `ExpireMemoryBankProjectShares`, `ActivateMemoryBankProjectShare` | the acceptance: two statements |
| `RevokeLoad`, `RevokeMemoryBankProjectShare`, `RemoveTenant` | revocation; `ON DELETE CASCADE` |

`ImplementsSharing`: statement by statement the handlers keep the promise; the
mapping takes the clock, whether the project is there and not archived, and the shares.
It holds because the statements repeat the conditions in SQL that the handlers
tested before. `ConflictsAreReal`: a conflict is answered only for a share that is still good at that
request's clock. The conflict meant is that of the unique index on open shares; the handler answers 409
as well when the project is archived or a statement fails, and these are aborts here (`ShareAbort`).
`ActivateMemoryBankProjectShare` also asks who accepts; the model does not, and so lets more
acceptances through than the code. Two shares, one collaborator, two requests, two tenants one
after the other, a clock of two values: before and at the expiry.

### Module 8: `CredentialStore`

| TLA+ | Go |
|---|---|
| `keyring`, `fileLock` | the keystore entry of one service; the `flock` of `lock` |
| `bridge[b]` | a process: waiting for the lock, under it, refreshing, storing, sending |
| `issued`, `spent`, `dead`, `stale` | the edge's view of each pair; `Token.Valid` of the bridge |
| `Lookup`, `Rotate`, `Store` | `update` of `token`: keystore, edge, keystore |
| `DeviceLogin`, `LookupLogin`; `WantLogout`, `Clear` | `Login`; `remove` |
| `Send` | `authorizedTransport.RoundTrip`: after the first 401 once more with another token |
| `GiveUp` | killed, cancelled, timed out on the lock, keyring locked, refused |

`RefreshesAreUsable`: of processes that meet one expired token only one rotates
it and the rest find its successor; a spent token is presented only after an answer or a
write was lost, which costs the user the sign-in. That this can happen - a process ended
by the closing of stdin between the rotation and the keystore - is what `lost` is for.
`LogoutIsFinal`: a refresh under way when a logout clears the entry does
not write it again. Two processes, three pairs: one pair, its successor, and one
more login. Expiry and rejection are free choices, so clocks that differ are
covered. A process that is killed may leave a `secret-tool` behind that writes after the lock is gone;
the model takes it to die with its process. On systems without `flock`, `tryFileLock` fails and there is nothing to model.

### Module 9: `SSEBridge`

| TLA+ | Go |
|---|---|
| `table`, `lastUsed` | `b.sessions` and each session's stamp |
| `open` | streams at the service that were not closed |
| `owner[s]` | `session.mu` |
| `post[p]` | a request in `handlePost` or `handleDelete`: where it is, its session, and in `closing` what it has taken from the table and not closed yet |
| `ending` | the same for `Close` |
| `Connect`, `EndpointFound`, `EndpointMissing`, `Insert` | `openUpstreamSSEEndpointWithContext`, outside the lock: the stream, then its endpoint event; then table and `evictOldestLocked` |
| `Idlers` in `HandlePost`, `ForwardFails`, `HandleDelete`, `BridgeClose` | the four other ways out of the table: taken out under `b.mu` |
| `CloseTaken`, `CloseNext` | `session.close()` of each of them, after the unlock |
| `TimesOut` | `readSSEJSONRPCResponse` closes the stream; `removeSession` follows as a step of its own |

Only an eviction closes under the mutex, in one step with the removal. Everywhere else a
session is out of the table first and closed later, one after the other, while other
requests fill the table again; on a timeout it is the other way round, and a session whose
stream is closed is in the table for a moment, where a request can find it and fail on it.

`StreamsAreAccountedFor`: an open stream is in the table, or with a request or with `Close`,
which will close it or put it there, although a session is evicted, deleted or closed with
requests queued on it; a stream about to enter the table is open; and nobody holds more than
a table full. The table limit is no limit of the streams: each request that has pruned and
not closed yet may hold another table full, and so may `Close`. `(|Posts| + 2) * TableLimit`
bounds them, which is proved, and a table of one session reaches it with two requests.
`ListenAndServe` of the edge returns as soon as `Shutdown` begins, so `Close` runs while
requests are in flight: a stream they open afterwards enters the table of the closed bridge
and ends with the process. A table of one session, two requests, three streams, a clock of
two values: at the limit every insertion evicts, also a session in use, a prune can hold a
session while another takes its place, and both can be held while a third is opened.

### Module 10: `StdioRelay`

| TLA+ | Go |
|---|---|
| `line[n]`, `work[n]` | the lines of stdin and what has become of each post |
| `reader`, `serving`, `listener` | three goroutines: scanner, `Serve`, `listen` |
| `Holders` | the channel `requests`, 32 slots in the code |
| `Scan`, `TakeSlot`, `DropLine` | the loop of the reader |
| `Answered`, `ServiceAsks`, `PostFails` | the end of a post; the service asks the client on the stream of a request |
| `Names` | the first response that carries a session id names the session, whichever it is |
| `EndServe` .. `CloseSession` | cancel, close stdio, await the reader, the workers, delete the session |

`WireOrder`: nothing overtakes `initialize` and `notifications/initialized`
(transport.go: "Later requests must not overtake"), and nothing is posted any more when
the session is closed, for which the reader has to end before the workers are waited for.
`AnswersGetThrough`: a client's answer gets a slot unless all slots are held
by requests that wait for such an answer. That exception is real: requests have no time
limit, so a service that asks its client on as many streams as there are slots
stops the bridge until its stdin closes. No document says otherwise, so it is described here and
not listed as a finding. Two slots, six lines: the handshake, two requests that ask, an answer, one more.
Fairness: the reader runs when a slot is free, and a service answers some request it can answer.
Closing stdin is assumed to end the scan; reconnecting is inside `listen`.

### What is proved of modules 5 to 10

Each for every value of the constants, by an inductive invariant; none of the
properties is inductive by itself. The assumptions are the ASSUME of each module. The
proofs are in `ControlPlaneAdminProofs` (`GrantSync`, `MemoryBankShares`),
`EdgeRoutingProofs` (`CatalogRouting`, `SSEBridge`) and `CredentialBridgeProofs`
(`CredentialStore`, `StdioRelay`).

* `GrantSync` - `GrantsTyped`, which contains that `service_grants` is at every
  moment the projection of its sources, and `ManualGrantsStay` (`ManualGrantsSurvive`), for
  any number of overlapping synchronisations. The argument is about rows and not about
  time: what is derived from a snapshot, however old, is never a manual row, and
  the two deletions never take one (`DerivedRows`, `SyncedRows`).
* `CatalogRouting` - `OneServicePerPath` (`RoutingIsUnambiguous`) and `LawfulForwards`
  (`ForwardsAreLawful`), for any set of non-empty paths. The entries of the table are
  pairwise apart (`EntriesApart`), so every snapshot ever loaded is (`CacheApart`), and two entries that
  match one path would both be prefixes of it and so overlap (`PrefixesOverlap`). For
  the forwards, a request that has passed a check holds a witness of it in its history
  (`Checked`). The catalogue inherited from an earlier release is assumed to be free of
  overlaps, as every release that wrote it checked.
* `MemoryBankShares` - `RealConflicts` (`ConflictsAreReal`) and `SharingIsImplemented`
  (`ImplementsSharing`): the refinement, step by step. `Carries` says what a request
  brings to its next statement: a clock that lies behind, and after `InviteStamp`
  a share that was not over at that clock. Everything else the promise asks for is read by the
  statements themselves, which is why nothing needs to be said about the project a
  request has loaded.
* `CredentialStore` - `NoDoubleRefresh` (`RefreshesAreUsable`) and `LogoutHolds`
  (`LogoutIsFinal`), for any number of processes. Between lookup and write a process
  holds the lock, so the entry stays what it read (`Locked`); a pair on its way to the
  keystore is known to one process and unused (`Unused`); an entry is spent only while its
  successor is on the way or lost (`Succeeded`).
* `SSEBridge` - `NoStreamIsLost` (`StreamsAreAccountedFor`), for any table and number of
  requests. A stream that a request has opened is nobody else's: not in the table, not
  told to a client, of no other request (`InHandIsOwn`), so no deletion, failure or
  eviction can meet it. What is taken out of the table goes to whoever took it
  (`Accounted`), and there was never more in it than the limit (`Counts`); `Evicted` counts
  what `evictOldestLocked` leaves. `StreamsAreBounded` adds these up (`UnionBound`).
* `StdioRelay` - `RelayKeepsOrder` (`WireOrder`), for any number of lines and slots. At
  each moment some prefix of stdin has been read (`Behind`): of its lines the
  handshakes have ended, unless the reader is posting the last one itself, so nothing that a
  worker carries can overtake one. `WindingUp` is the order in which `Serve` ends: past
  the wait for the reader it has exited, past the wait for the workers nothing is in
  flight, so the DELETE is the last thing on the wire.
* `PlatformPartsProofs` - the composition. A step of the six is a step of one of them and
  leaves the others alone (`StepsOfParts`), so the six invariants hold together
  (`PartsInductive`), and `TypesOK` of the run follows (`PartsTyped`).

Model-checked only: the liveness properties `GrantsConverge`, `RoutedCatalogReachesEdge`
and `AnswersGetThrough`. Liveness under fairness is out of the proof system's reach, here
and in the other modules (`CodesSettle`, `LeadershipReturns`, `EnabledBecomesReady`,
`DeletionsComplete`, `SuspensionStopsCompute`).

## Not modelled

Browser login: pending logins and browser sessions are read and written by single
statements; two callbacks with one state are told apart by the provider's
one-time code. Client registration: one insert, never changed. Runtime attestation:
nothing reads it back. Capability policy, request inspection, identity headers, upstream URL checks: functions of one request.
`bridgeStreamablePost` and `bridgeStreamableGet`: no state beyond the request. Configuration, secrets, Infisical,
commands, migrations, deployment: no behaviour over time. The in-memory edge store is a test double.
