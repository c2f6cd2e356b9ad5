-------------------------- MODULE CredentialStore --------------------------
(***************************************************************************)
(* The credential of one service in the keystore of a user, shared by the  *)
(* bridge processes of that user: update, read, remove and token of        *)
(* src/internal/credentialbridge/store.go, the transport that repeats a    *)
(* rejected request, and the end of Login.                                 *)
(*                                                                         *)
(* The refresh token rotates: the edge accepts each one once and replaces  *)
(* the whole pair. Nothing but a lock file keeps two processes from        *)
(* presenting the same one, and between the rotation at the edge and the   *)
(* write of the keystore the credential exists in one process only.        *)
(*                                                                         *)
(* A token is a number that stands for a pair.                             *)
(***************************************************************************)
EXTENDS Integers, FiniteSets

CONSTANTS
  Bridges,         \* processes: stdio bridges, logins and logouts
  NoBridge,
  MaxTokens        \* BOUND: pairs that the edge issues

ASSUME CredentialConstants == NoBridge \notin Bridges /\ MaxTokens \in Nat

VARIABLES
  keyring,     \* the keystore entry: a token, or 0
  fileLock,    \* the holder of the flock
  bridge,      \* the processes
  issued,      \* the edge: pairs issued
  spent,       \* the edge: pairs whose refresh token was rotated
  dead,        \* the edge: pairs whose access token it rejects
  stale,       \* pairs that oauth2.Token.Valid takes for expired
  lost         \* history: pairs whose successor was lost on the way to the keystore

credentialVars == <<keyring, fileLock, bridge, issued, spent, dead, stale, lost>>

Edge == <<issued, spent, dead, stale>>

Issued == 1 .. issued
Idle == [pc |-> "rest", job |-> "token", held |-> 0, fresh |-> 0, rejected |-> 0]

CredentialTypeOK ==
  /\ issued \in 0 .. MaxTokens
  /\ keyring \in 0 .. issued
  /\ fileLock \in Bridges \cup {NoBridge}
  /\ bridge \in [Bridges -> [pc : {"rest", "lock", "held", "refresh", "store", "send"},
                             job : {"token", "login", "logout"},
                             held : 0 .. issued, fresh : 0 .. issued, rejected : 0 .. issued]]
  /\ spent \subseteq Issued /\ dead \subseteq Issued /\ stale \subseteq Issued
  /\ lost \subseteq spent

CredentialInit ==
  /\ keyring = 0 /\ fileLock = NoBridge
  /\ bridge = [b \in Bridges |-> Idle]
  /\ issued = 0 /\ spent = {} /\ dead = {} /\ stale = {} /\ lost = {}
-----------------------------------------------------------------------------
Moves(b, r) == bridge' = [bridge EXCEPT ![b] = r]
Releases(b) == fileLock' = IF fileLock = b THEN NoBridge ELSE fileLock
-----------------------------------------------------------------------------
(* What a process sets out to do                                           *)

\* RoundTrip asks for a token, at first with nothing rejected.
WantToken(b) ==
  /\ bridge[b].pc = "rest"
  /\ Moves(b, [Idle EXCEPT !.pc = "lock"])
  /\ UNCHANGED <<keyring, fileLock, Edge, lost>>

\* Login has its pair before it asks for the lock.
DeviceLogin(b) ==
  /\ bridge[b].pc = "rest" /\ issued < MaxTokens
  /\ issued' = issued + 1
  /\ Moves(b, [Idle EXCEPT !.pc = "lock", !.job = "login", !.fresh = issued + 1])
  /\ UNCHANGED <<keyring, fileLock, spent, dead, stale, lost>>

WantLogout(b) ==
  /\ bridge[b].pc = "rest"
  /\ Moves(b, [Idle EXCEPT !.pc = "lock", !.job = "logout"])
  /\ UNCHANGED <<keyring, fileLock, Edge, lost>>
-----------------------------------------------------------------------------
(* Under the lock                                                          *)

\* Mutation: no lock, as on a system without flock.
FreeAlways(b) == TRUE

\* Mutation: remove does not wait for a refresh.
FreeForLogout(b) == fileLock = NoBridge \/ bridge[b].job = "logout"

\* tryFileLock, which the loop of lock repeats
Free(b) == fileLock = NoBridge

Lock(b) ==
  /\ bridge[b].pc = "lock" /\ Free(b)
  /\ fileLock' = b
  /\ Moves(b, [bridge[b] EXCEPT !.pc = "held"])
  /\ UNCHANGED <<keyring, Edge, lost>>

Usable(b) == keyring \notin stale /\ keyring # bridge[b].rejected

\* update of token: lookup, and the change function up to its request. Without
\* a credential it fails.
Lookup(b) ==
  /\ bridge[b].pc = "held" /\ bridge[b].job = "token"
  /\ \/ keyring = 0 /\ Moves(b, Idle) /\ Releases(b)
     \/ /\ keyring # 0 /\ Usable(b)
        /\ Moves(b, [bridge[b] EXCEPT !.pc = "send", !.held = keyring])
        /\ Releases(b)
     \/ /\ keyring # 0 /\ ~Usable(b)
        /\ Moves(b, [bridge[b] EXCEPT !.pc = "refresh", !.held = keyring])
        /\ UNCHANGED fileLock
  /\ UNCHANGED <<keyring, Edge, lost>>

\* update of Login, whose change function ignores what lookup found
LookupLogin(b) ==
  /\ bridge[b].pc = "held" /\ bridge[b].job = "login"
  /\ Moves(b, [bridge[b] EXCEPT !.pc = "store"])
  /\ UNCHANGED <<keyring, fileLock, Edge, lost>>

\* remove
Clear(b) ==
  /\ bridge[b].pc = "held" /\ bridge[b].job = "logout"
  /\ keyring' = 0
  /\ Moves(b, Idle) /\ Releases(b)
  /\ UNCHANGED <<Edge, lost>>

\* The edge rotates the pair: the old refresh token is consumed and the old
\* access token goes with its row. The answer may be lost.
Rotate(b) ==
  LET old == bridge[b].held IN
  /\ bridge[b].pc = "refresh" /\ old \notin spent /\ issued < MaxTokens
  /\ issued' = issued + 1
  /\ spent' = spent \cup {old} /\ dead' = dead \cup {old}
  /\ \/ /\ Moves(b, [bridge[b] EXCEPT !.pc = "store", !.fresh = issued + 1])
        /\ UNCHANGED <<fileLock, lost>>
     \/ /\ Moves(b, Idle) /\ Releases(b)
        /\ lost' = lost \cup {old}
  /\ UNCHANGED <<keyring, stale>>

\* The keystore takes the record: only now does the request have its token.
Store(b) ==
  /\ bridge[b].pc = "store"
  /\ keyring' = bridge[b].fresh
  /\ Releases(b)
  /\ Moves(b, IF bridge[b].job = "login" THEN Idle
              ELSE [bridge[b] EXCEPT !.pc = "send", !.held = bridge[b].fresh, !.fresh = 0])
  /\ UNCHANGED <<Edge, lost>>

\* The process dies (the lock goes with it), is cancelled, waits too long for
\* the lock, finds the keyring locked, or is refused by the edge. After the
\* rotation the new pair is gone with it. A secret-tool that it started is taken to
\* die with it: none writes to the keyring once the lock is gone.
GiveUp(b) ==
  /\ bridge[b].pc # "rest"
  /\ lost' = IF bridge[b].pc = "store" /\ bridge[b].job = "token"
               THEN lost \cup {bridge[b].held} ELSE lost
  /\ Moves(b, Idle) /\ Releases(b)
  /\ UNCHANGED <<keyring, Edge>>
-----------------------------------------------------------------------------
(* Outside the lock                                                        *)

\* RoundTrip sends the request; after the first 401 it asks for another token.
Send(b) ==
  /\ bridge[b].pc = "send"
  /\ Moves(b, IF bridge[b].held \in dead /\ bridge[b].rejected = 0
                THEN [Idle EXCEPT !.pc = "lock", !.rejected = bridge[b].held]
                ELSE Idle)
  /\ UNCHANGED <<keyring, fileLock, Edge, lost>>

\* An access token expires for the bridge or is rejected by the edge: the
\* margin of Valid, clocks that differ and revocations allow any order. It
\* matters for the token in the keystore and for those about to be sent.
Age(t) ==
  /\ t = keyring /\ stale' = stale \cup {t}
  /\ UNCHANGED <<keyring, fileLock, bridge, issued, spent, dead, lost>>
Reject(t) ==
  /\ \E b \in Bridges : bridge[b].pc = "send" /\ bridge[b].held = t
  /\ dead' = dead \cup {t}
  /\ UNCHANGED <<keyring, fileLock, bridge, issued, spent, stale, lost>>

CredentialNext ==
  \/ \E b \in Bridges :
       \/ WantToken(b) \/ DeviceLogin(b) \/ WantLogout(b)
       \/ Lock(b) \/ Lookup(b) \/ LookupLogin(b) \/ Clear(b)
       \/ Rotate(b) \/ Store(b) \/ GiveUp(b) \/ Send(b)
  \/ \E t \in Issued : Age(t) \/ Reject(t)

CredentialSpec == CredentialInit /\ [][CredentialNext]_credentialVars
-----------------------------------------------------------------------------
(* What is to hold                                                         *)

\* A process that refreshes presents a refresh token the edge still takes: of
\* processes that meet one expired token only one rotates it, and the rest find
\* its successor. What can cost a user the sign-in is only an answer or a write
\* that was lost after the rotation.
RefreshesAreUsable ==
  \A b \in Bridges :
    bridge[b].pc = "refresh" /\ bridge[b].held \in spent => bridge[b].held \in lost

\* After a logout only a login puts a credential back: no refresh that was under
\* way when the entry was cleared writes it again.
LogoutIsFinal ==
  [][keyring = 0 /\ keyring' # 0 =>
       \E b \in Bridges : bridge[b].job = "login" /\ keyring' = bridge[b].fresh]_credentialVars
=============================================================================
