----------------------- MODULE CredentialBridgeProofs -----------------------
(***************************************************************************)
(* Proofs about the credential bridge: the store that its processes share  *)
(* (CredentialStore), and the relay that each of them runs (StdioRelay).   *)
(***************************************************************************)
EXTENDS CredentialStore, StdioRelay, TLAPS
-----------------------------------------------------------------------------
(***************************************************************************)
(* For any number of processes and tokens: no process presents a refresh   *)
(* token that another has used, unless its successor was lost, and no      *)
(* refresh undoes a logout.                                                *)
(*                                                                         *)
(* Neither is inductive. What carries them is that a process between the   *)
(* lookup and the write of the keystore holds the lock, so that the entry  *)
(* stays what it read (Locked), and that a pair on its way to the keystore *)
(* is known to one process only and has not been used (Unused).            *)
(***************************************************************************)

\* A process whose pair has yet to reach the keystore
Pending(b) ==
  \/ bridge[b].job = "login" /\ bridge[b].pc \in {"lock", "held", "store"}
  \/ bridge[b].job = "token" /\ bridge[b].pc = "store"

Locked(b) ==
  /\ bridge[b].pc \in {"held", "refresh", "store"} => fileLock = b
  /\ bridge[b].pc = "refresh" =>
       bridge[b].job = "token" /\ bridge[b].held = keyring /\ keyring # 0
  /\ bridge[b].pc = "store" => bridge[b].job \in {"token", "login"}
  /\ bridge[b].pc = "store" /\ bridge[b].job = "token" =>
       bridge[b].held = keyring /\ keyring \in spent

Unused(b) ==
  Pending(b) => /\ bridge[b].fresh \in Issued /\ bridge[b].fresh \notin spent
                /\ bridge[b].fresh # keyring
                /\ \A c \in Bridges \ {b} : Pending(c) => bridge[c].fresh # bridge[b].fresh

\* The entry is spent only while its successor is on the way, or was lost.
Succeeded ==
  keyring \in spent =>
    \/ keyring \in lost
    \/ \E b \in Bridges : /\ bridge[b].pc = "store" /\ bridge[b].job = "token"
                          /\ bridge[b].held = keyring

CInv ==
  /\ CredentialTypeOK
  /\ \A b \in Bridges : Locked(b)
  /\ \A b \in Bridges : Unused(b)
  /\ Succeeded

Records(n) ==
  [pc : {"rest", "lock", "held", "refresh", "store", "send"}, job : {"token", "login", "logout"},
   held : 0 .. n, fresh : 0 .. n, rejected : 0 .. n]
-----------------------------------------------------------------------------
\* The record of a process stays well typed when the edge issues another pair.
LEMMA RecordsGrow ==
  ASSUME NEW n \in Nat, NEW r \in Records(n)
  PROVE  r \in Records(n + 1)
<1>1. 0 .. n \subseteq 0 .. (n + 1)
  OBVIOUS
<1> QED BY <1>1 DEF Records

\* What an action of process b that replaces its record leaves of the others
LEMMA Replaced ==
  ASSUME CredentialTypeOK, NEW b \in Bridges, NEW n \in Nat, n \in {issued, issued + 1},
         NEW r \in Records(n), Moves(b, r)
  PROVE  /\ bridge' \in [Bridges -> Records(n)]
         /\ bridge'[b] = r
         /\ \A c \in Bridges \ {b} : bridge'[c] = bridge[c]
<1>1. issued \in Nat /\ bridge \in [Bridges -> Records(issued)]
  BY CredentialConstants DEF CredentialTypeOK, Records
<1>2. \A c \in Bridges : bridge[c] \in Records(n)
  BY <1>1, RecordsGrow
<1> QED BY <1>1, <1>2 DEF Moves

\* An action that touches neither the keystore nor the tokens of the edge: it is
\* enough to look at the new record of its process.
LEMMA QuietStep ==
  ASSUME CInv, NEW b \in Bridges, NEW r \in Records(issued), Moves(b, r),
         UNCHANGED <<keyring, issued, spent, dead, stale>>,
         lost \subseteq lost', lost' \subseteq spent,
         fileLock' \in Bridges \cup {NoBridge},
         \A c \in Bridges \ {b} : fileLock = c => fileLock' = c,
         r.pc \in {"held", "refresh", "store"} => fileLock' = b,
         r.pc = "refresh" => r.job = "token" /\ r.held = keyring /\ keyring # 0,
         r.pc = "store" => r.job = "login",
         r.job = "login" /\ r.pc \in {"lock", "held", "store"} =>
           Pending(b) /\ r.fresh = bridge[b].fresh,
         bridge[b].pc = "store" /\ bridge[b].job = "token" => bridge[b].held \in lost'
  PROVE  CInv'
<1>1. issued \in Nat
  BY CredentialConstants DEF CInv, CredentialTypeOK
<1>2. /\ bridge' \in [Bridges -> Records(issued)]
      /\ bridge'[b] = r
      /\ \A c \in Bridges \ {b} : bridge'[c] = bridge[c]
  BY <1>1, Replaced DEF CInv
<1>3. CredentialTypeOK'
  BY <1>2 DEF CInv, CredentialTypeOK, Records, Issued
<1>4. ASSUME NEW c \in Bridges PROVE Locked(c)'
  <2>1. CASE c = b
    BY <2>1, <1>2 DEF Locked
  <2>2. CASE c # b
    BY <2>2, <1>2 DEF Locked, CInv
  <2> QED BY <2>1, <2>2
<1>5. Pending(b)' => Pending(b) /\ r.fresh = bridge[b].fresh
  BY <1>2 DEF Pending
<1>6. \A c \in Bridges : Pending(c)' => Pending(c) /\ bridge'[c].fresh = bridge[c].fresh
  BY <1>2, <1>5 DEF Pending
<1>7. ASSUME NEW c \in Bridges PROVE Unused(c)'
  BY <1>6 DEF Unused, CInv, Issued
<1>8. Succeeded'
  <2> SUFFICES ASSUME keyring \in spent, keyring \notin lost' PROVE Succeeded'
    BY DEF Succeeded
  <2>1. PICK c \in Bridges : /\ bridge[c].pc = "store" /\ bridge[c].job = "token"
                             /\ bridge[c].held = keyring
    BY DEF CInv, Succeeded
  <2>2. c # b
    BY <2>1
  <2> QED BY <2>1, <2>2, <1>2 DEF Succeeded
<1> QED BY <1>3, <1>4, <1>7, <1>8 DEF CInv

LEMMA QuietActions ==
  ASSUME CInv, NEW b \in Bridges,
         \/ WantToken(b) \/ WantLogout(b) \/ Lock(b) \/ Lookup(b) \/ LookupLogin(b)
         \/ GiveUp(b) \/ Send(b)
  PROVE  CInv'
<1>1. issued \in Nat /\ bridge[b] \in Records(issued) /\ keyring \in 0 .. issued
  BY CredentialConstants DEF CInv, CredentialTypeOK, Records
<1>2. Idle \in Records(issued)
  BY <1>1 DEF Idle, Records
<1>3. lost \subseteq spent /\ fileLock \in Bridges \cup {NoBridge} /\ NoBridge \notin Bridges
  BY CredentialConstants DEF CInv, CredentialTypeOK
<1>4. Locked(b)
  BY DEF CInv
<1>5. CASE WantToken(b)
  <2> DEFINE r == [Idle EXCEPT !.pc = "lock"]
  <2>1. r \in Records(issued) /\ r.pc = "lock" /\ r.job = "token"
    BY <1>2 DEF Records, Idle
  <2>2. Moves(b, r) /\ bridge[b].pc = "rest" /\ UNCHANGED <<keyring, fileLock, issued, spent, dead, stale, lost>>
    BY <1>5 DEF WantToken, Edge
  <2> HIDE DEF r
  <2> QED BY <2>1, <2>2, <1>3, QuietStep
<1>6. CASE WantLogout(b)
  <2> DEFINE r == [Idle EXCEPT !.pc = "lock", !.job = "logout"]
  <2>1. r \in Records(issued) /\ r.pc = "lock" /\ r.job = "logout"
    BY <1>2 DEF Records, Idle
  <2>2. Moves(b, r) /\ bridge[b].pc = "rest" /\ UNCHANGED <<keyring, fileLock, issued, spent, dead, stale, lost>>
    BY <1>6 DEF WantLogout, Edge
  <2> HIDE DEF r
  <2> QED BY <2>1, <2>2, <1>3, QuietStep
<1>7. CASE Lock(b)
  <2> DEFINE r == [bridge[b] EXCEPT !.pc = "held"]
  <2>1. /\ r \in Records(issued) /\ r.pc = "held" /\ r.job = bridge[b].job
        /\ r.fresh = bridge[b].fresh
    BY <1>1 DEF Records
  <2>2. /\ Moves(b, r) /\ bridge[b].pc = "lock" /\ fileLock = NoBridge /\ fileLock' = b
        /\ UNCHANGED <<keyring, issued, spent, dead, stale, lost>>
    BY <1>7 DEF Lock, Free, Edge
  <2> HIDE DEF r
  <2>3. r.job = "login" => Pending(b)
    BY <2>1, <2>2 DEF Pending
  <2> QED BY <2>1, <2>2, <2>3, <1>3, QuietStep
<1>8. CASE LookupLogin(b)
  <2> DEFINE r == [bridge[b] EXCEPT !.pc = "store"]
  <2>1. /\ r \in Records(issued) /\ r.pc = "store" /\ r.job = bridge[b].job
        /\ r.fresh = bridge[b].fresh
    BY <1>1 DEF Records
  <2>2. /\ Moves(b, r) /\ bridge[b].pc = "held" /\ bridge[b].job = "login"
        /\ UNCHANGED <<keyring, fileLock, issued, spent, dead, stale, lost>>
    BY <1>8 DEF LookupLogin, Edge
  <2> HIDE DEF r
  <2>3. Pending(b) /\ fileLock = b
    BY <2>2, <1>4 DEF Pending, Locked
  <2> QED BY <2>1, <2>2, <2>3, <1>3, QuietStep
<1>9. CASE Lookup(b)
  <2>1. /\ bridge[b].pc = "held" /\ bridge[b].job = "token" /\ fileLock = b
        /\ UNCHANGED <<keyring, issued, spent, dead, stale, lost>>
    BY <1>9, <1>4 DEF Lookup, Edge, Locked
  <2>2. CASE Moves(b, Idle) /\ Releases(b)
    <3>1. Idle.pc = "rest" /\ Idle.job = "token"
      BY DEF Idle
    <3>2. fileLock' = NoBridge
      BY <2>1, <2>2 DEF Releases
    <3> QED BY <2>1, <2>2, <3>1, <3>2, <1>2, <1>3, QuietStep
  <2>3. CASE Moves(b, [bridge[b] EXCEPT !.pc = "send", !.held = keyring]) /\ Releases(b)
    <3> DEFINE r == [bridge[b] EXCEPT !.pc = "send", !.held = keyring]
    <3>1. r \in Records(issued) /\ r.pc = "send"
      BY <1>1 DEF Records
    <3>2. Moves(b, r) /\ fileLock' = NoBridge
      BY <2>1, <2>3 DEF Releases
    <3> HIDE DEF r
    <3> QED BY <2>1, <3>1, <3>2, <1>3, QuietStep
  <2>4. CASE /\ keyring # 0 /\ UNCHANGED fileLock
             /\ Moves(b, [bridge[b] EXCEPT !.pc = "refresh", !.held = keyring])
    <3> DEFINE r == [bridge[b] EXCEPT !.pc = "refresh", !.held = keyring]
    <3>1. /\ r \in Records(issued) /\ r.pc = "refresh" /\ r.held = keyring
          /\ r.job = bridge[b].job
      BY <1>1 DEF Records
    <3>2. Moves(b, r) /\ fileLock' = b /\ keyring # 0
      BY <2>1, <2>4
    <3> HIDE DEF r
    <3> QED BY <2>1, <3>1, <3>2, <1>3, QuietStep
  <2> QED BY <1>9, <2>2, <2>3, <2>4 DEF Lookup
<1>10. CASE GiveUp(b)
  <2>1. Idle.pc = "rest" /\ Idle.job = "token"
    BY DEF Idle
  <2>2. /\ Moves(b, Idle) /\ UNCHANGED <<keyring, issued, spent, dead, stale>>
        /\ fileLock' = IF fileLock = b THEN NoBridge ELSE fileLock
    BY <1>10 DEF GiveUp, Edge, Releases
  <2>3. CASE bridge[b].pc = "store" /\ bridge[b].job = "token"
    <3>1. lost' = lost \cup {bridge[b].held} /\ bridge[b].held \in spent
      BY <1>10, <2>3, <1>4 DEF GiveUp, Locked
    <3> QED BY <2>1, <2>2, <3>1, <1>2, <1>3, QuietStep
  <2>4. CASE ~(bridge[b].pc = "store" /\ bridge[b].job = "token")
    <3>1. lost' = lost
      BY <1>10, <2>4 DEF GiveUp
    <3> QED BY <2>1, <2>2, <2>4, <3>1, <1>2, <1>3, QuietStep
  <2> QED BY <2>3, <2>4
<1>11. CASE Send(b)
  <2>1. /\ bridge[b].pc = "send"
        /\ UNCHANGED <<keyring, fileLock, issued, spent, dead, stale, lost>>
    BY <1>11 DEF Send, Edge
  <2>2. CASE Moves(b, Idle)
    <3>1. Idle.pc = "rest" /\ Idle.job = "token"
      BY DEF Idle
    <3> QED BY <2>1, <2>2, <3>1, <1>2, <1>3, QuietStep
  <2>3. CASE Moves(b, [Idle EXCEPT !.pc = "lock", !.rejected = bridge[b].held])
    <3> DEFINE r == [Idle EXCEPT !.pc = "lock", !.rejected = bridge[b].held]
    <3>1. r \in Records(issued) /\ r.pc = "lock" /\ r.job = "token"
      BY <1>1, <1>2 DEF Records, Idle
    <3>2. Moves(b, r)
      BY <2>3
    <3> HIDE DEF r
    <3> QED BY <2>1, <3>1, <3>2, <1>3, QuietStep
  <2> QED BY <1>11, <2>2, <2>3 DEF Send
<1> QED BY <1>5, <1>6, <1>7, <1>8, <1>9, <1>10, <1>11

\* A login brings a pair that nobody knows yet.
LEMMA LoginStep ==
  ASSUME CInv, NEW b \in Bridges, DeviceLogin(b)
  PROVE  CInv'
<1> DEFINE r == [Idle EXCEPT !.pc = "lock", !.job = "login", !.fresh = issued + 1]
<1>1. issued \in Nat /\ issued' = issued + 1 /\ issued' \in 0 .. MaxTokens /\ MaxTokens \in Nat
  BY CredentialConstants DEF CInv, CredentialTypeOK, DeviceLogin
<1>0. 0 \in 0 .. (issued + 1) /\ issued + 1 \in 0 .. (issued + 1)
  BY <1>1
<1>2. /\ r \in Records(issued + 1) /\ r.pc = "lock" /\ r.job = "login"
      /\ r.fresh = issued + 1
  BY <1>0 DEF Records, Idle
<1>3. /\ Moves(b, r) /\ bridge[b].pc = "rest"
      /\ UNCHANGED <<keyring, fileLock, spent, dead, stale, lost>>
  BY DEF DeviceLogin
<1> HIDE DEF r
<1>4. /\ bridge' \in [Bridges -> Records(issued + 1)] /\ bridge'[b] = r
      /\ \A c \in Bridges \ {b} : bridge'[c] = bridge[c]
  BY <1>1, <1>2, <1>3, Replaced DEF CInv
<1>5. 0 .. issued \subseteq 0 .. (issued + 1) /\ Issued \subseteq Issued'
  BY <1>1 DEF Issued
<1>6. CredentialTypeOK'
  BY <1>1, <1>3, <1>4, <1>5 DEF CInv, CredentialTypeOK, Records
<1>7. ASSUME NEW c \in Bridges PROVE Locked(c)'
  BY <1>2, <1>3, <1>4 DEF CInv, Locked
<1>8. issued + 1 \notin Issued /\ issued + 1 \in Issued' /\ keyring # issued + 1
  BY <1>1 DEF CInv, CredentialTypeOK, Issued
<1>9. ASSUME NEW c \in Bridges PROVE Unused(c)'
  <2>1. \A d \in Bridges \ {b} : Pending(d)' => Pending(d) /\ bridge'[d].fresh = bridge[d].fresh
    BY <1>4 DEF Pending
  <2>2. \A d \in Bridges \ {b} : Pending(d)' => bridge'[d].fresh \in Issued
    BY <2>1 DEF CInv, Unused
  <2>3. CASE c = b
    <3>1. bridge'[c].fresh = issued + 1
      BY <1>2, <1>4, <2>3
    <3>2. spent' \subseteq Issued /\ keyring' = keyring
      BY <1>3 DEF CInv, CredentialTypeOK
    <3> QED BY <2>2, <2>3, <3>1, <3>2, <1>8 DEF Unused
  <2>4. CASE c # b
    <3>1. bridge'[b].fresh = issued + 1
      BY <1>2, <1>4
    <3> QED BY <2>1, <2>2, <2>4, <3>1, <1>3, <1>5, <1>8 DEF CInv, Unused
  <2> QED BY <2>3, <2>4
<1>10. Succeeded'
  BY <1>3, <1>4 DEF CInv, Succeeded
<1> QED BY <1>6, <1>7, <1>9, <1>10 DEF CInv

\* A process under the lock replaces the entry.
LEMMA WriteStep ==
  ASSUME CInv, NEW b \in Bridges, Clear(b) \/ Store(b)
  PROVE  CInv'
<1>1. /\ issued \in Nat /\ bridge[b] \in Records(issued)
      /\ fileLock \in Bridges \cup {NoBridge} /\ NoBridge \notin Bridges
      /\ spent \subseteq Issued /\ lost \subseteq spent
  BY CredentialConstants DEF CInv, CredentialTypeOK, Records
<1>2. Locked(b) /\ Unused(b)
  BY DEF CInv
<1>3. /\ fileLock = b /\ fileLock' = NoBridge
      /\ UNCHANGED <<issued, spent, dead, stale, lost>>
  BY <1>2 DEF Clear, Store, Releases, Edge, Locked
<1>4. PICK r \in Records(issued) : Moves(b, r) /\ r.pc \in {"rest", "send"}
  <2>1. CASE Clear(b)
    <3>1. Idle \in Records(issued) /\ Idle.pc = "rest"
      BY <1>1 DEF Idle, Records
    <3> QED BY <2>1, <3>1 DEF Clear
  <2>2. CASE Store(b)
    <3>1. Idle \in Records(issued) /\ Idle.pc = "rest"
      BY <1>1 DEF Idle, Records
    <3> DEFINE r == [bridge[b] EXCEPT !.pc = "send", !.held = bridge[b].fresh, !.fresh = 0]
    <3>0. 0 \in 0 .. issued /\ bridge[b].fresh \in 0 .. issued
      BY <1>1 DEF Records
    <3>2. r \in Records(issued) /\ r.pc = "send"
      BY <1>1, <3>0 DEF Records
    <3>3. Moves(b, r) \/ Moves(b, Idle)
      BY <2>2 DEF Store
    <3> HIDE DEF r
    <3> QED BY <3>1, <3>2, <3>3
  <2> QED BY <2>1, <2>2
<1>5. /\ bridge' \in [Bridges -> Records(issued)] /\ bridge'[b] = r
      /\ \A c \in Bridges \ {b} : bridge'[c] = bridge[c]
  BY <1>1, <1>4, Replaced DEF CInv
<1>6. \/ keyring' = 0
      \/ Pending(b) /\ keyring' = bridge[b].fresh
  BY <1>2 DEF Clear, Store, Pending, Locked
<1>7. keyring' \in 0 .. issued /\ keyring' \notin spent
  BY <1>1, <1>2, <1>6 DEF Unused, Issued
<1>8. CredentialTypeOK'
  BY <1>1, <1>3, <1>5, <1>7 DEF CInv, CredentialTypeOK, Records, Issued
<1>9. ASSUME NEW c \in Bridges PROVE Locked(c)'
  <2>1. CASE c = b
    BY <2>1, <1>4, <1>5 DEF Locked
  <2>2. CASE c # b
    <3>1. bridge[c].pc \notin {"held", "refresh", "store"}
      BY <2>2, <1>3 DEF CInv, Locked
    <3> QED BY <2>2, <3>1, <1>5 DEF Locked
  <2> QED BY <2>1, <2>2
<1>10. ~Pending(b)'
  BY <1>4, <1>5 DEF Pending
<1>11. \A c \in Bridges \ {b} : Pending(c)' => Pending(c) /\ bridge'[c].fresh = bridge[c].fresh
  BY <1>5 DEF Pending
<1>12. ASSUME NEW c \in Bridges PROVE Unused(c)'
  <2> SUFFICES ASSUME Pending(c)' PROVE Unused(c)'
    BY DEF Unused
  <2>1. c # b /\ Pending(c) /\ bridge'[c].fresh = bridge[c].fresh
    BY <1>10, <1>11
  <2>2. bridge[c].fresh \in Issued /\ bridge[c].fresh \notin spent
    BY <2>1 DEF CInv, Unused
  <2>3. bridge[c].fresh # keyring'
    <3>1. bridge[c].fresh # 0
      BY <2>2, <1>1 DEF Issued
    <3>2. Pending(b) => bridge[c].fresh # bridge[b].fresh
      BY <2>1 DEF CInv, Unused
    <3> QED BY <3>1, <3>2, <1>6
  <2>4. ASSUME NEW d \in Bridges \ {c}, Pending(d)' PROVE bridge'[d].fresh # bridge'[c].fresh
    BY <2>1, <2>4, <1>10, <1>11 DEF CInv, Unused
  <2> QED BY <2>1, <2>2, <2>3, <2>4, <1>3 DEF Unused, Issued
<1>13. Succeeded'
  BY <1>3, <1>7 DEF Succeeded
<1> QED BY <1>8, <1>9, <1>12, <1>13 DEF CInv

\* The edge takes the refresh token of the entry, and the successor is with the
\* process that holds the lock, or lost.
LEMMA RotateStep ==
  ASSUME CInv, NEW b \in Bridges, Rotate(b)
  PROVE  CInv'
<1>1. /\ issued \in Nat /\ MaxTokens \in Nat /\ bridge[b] \in Records(issued)
      /\ fileLock \in Bridges \cup {NoBridge} /\ NoBridge \notin Bridges
      /\ spent \subseteq Issued /\ lost \subseteq spent /\ keyring \in 0 .. issued
  BY CredentialConstants DEF CInv, CredentialTypeOK, Records
<1>2. /\ bridge[b].pc = "refresh" /\ bridge[b].job = "token" /\ bridge[b].held = keyring
      /\ keyring # 0 /\ fileLock = b /\ keyring \notin spent
  BY DEF CInv, Locked, Rotate
<1>3. /\ issued' = issued + 1 /\ issued' \in 0 .. MaxTokens
      /\ spent' = spent \cup {keyring} /\ dead' = dead \cup {keyring}
      /\ UNCHANGED <<keyring, stale>>
  BY <1>1, <1>2 DEF Rotate, CInv, CredentialTypeOK
<1>4. PICK r \in Records(issued + 1) :
        /\ Moves(b, r)
        /\ \/ /\ r.pc = "store" /\ r.job = "token" /\ r.held = keyring /\ r.fresh = issued + 1
              /\ fileLock' = b /\ lost' = lost
           \/ r.pc = "rest" /\ fileLock' = NoBridge /\ lost' = lost \cup {keyring}
  <2>1. Idle \in Records(issued + 1) /\ Idle.pc = "rest"
    BY <1>1 DEF Idle, Records
  <2> DEFINE r == [bridge[b] EXCEPT !.pc = "store", !.fresh = issued + 1]
  <2>2. bridge[b] \in Records(issued + 1)
    BY <1>1, RecordsGrow
  <2>0. issued + 1 \in 0 .. (issued + 1)
    BY <1>1
  <2>3. /\ r \in Records(issued + 1) /\ r.pc = "store" /\ r.job = bridge[b].job
        /\ r.held = bridge[b].held /\ r.fresh = issued + 1
    BY <2>0, <2>2 DEF Records
  <2>4. \/ Moves(b, r) /\ UNCHANGED <<fileLock, lost>>
        \/ Moves(b, Idle) /\ Releases(b) /\ lost' = lost \cup {bridge[b].held}
    BY DEF Rotate
  <2> HIDE DEF r
  <2>5. CASE Moves(b, r) /\ UNCHANGED <<fileLock, lost>>
    BY <2>3, <2>5, <1>2
  <2>6. CASE Moves(b, Idle) /\ Releases(b) /\ lost' = lost \cup {bridge[b].held}
    BY <2>1, <2>6, <1>2 DEF Releases
  <2> QED BY <2>4, <2>5, <2>6
<1>5. /\ bridge' \in [Bridges -> Records(issued + 1)] /\ bridge'[b] = r
      /\ \A c \in Bridges \ {b} : bridge'[c] = bridge[c]
  BY <1>1, <1>4, Replaced DEF CInv
<1>6. /\ 0 .. issued \subseteq 0 .. (issued + 1) /\ Issued \subseteq Issued'
      /\ keyring \in Issued' /\ issued + 1 \in Issued' /\ issued + 1 \notin Issued
      /\ keyring # issued + 1
  BY <1>1, <1>2, <1>3 DEF Issued
<1>7. CredentialTypeOK'
  <2>1. spent' \subseteq Issued' /\ dead' \subseteq Issued' /\ stale' \subseteq Issued'
    BY <1>3, <1>6 DEF CInv, CredentialTypeOK
  <2>2. lost' \subseteq spent' /\ fileLock' \in Bridges \cup {NoBridge}
    BY <1>1, <1>3, <1>4
  <2>3. keyring' \in 0 .. issued'
    BY <1>1, <1>3, <1>6
  <2> QED BY <2>1, <2>2, <2>3, <1>3, <1>5 DEF CredentialTypeOK, Records
<1>8. ASSUME NEW c \in Bridges PROVE Locked(c)'
  <2>1. CASE c = b
    BY <2>1, <1>2, <1>3, <1>4, <1>5 DEF Locked
  <2>2. CASE c # b
    <3>1. bridge[c].pc \notin {"held", "refresh", "store"}
      BY <2>2, <1>2 DEF CInv, Locked
    <3> QED BY <2>2, <3>1, <1>5 DEF Locked
  <2> QED BY <2>1, <2>2
<1>9. Pending(b)' => bridge'[b].fresh = issued + 1
  BY <1>4, <1>5 DEF Pending
<1>10. \A c \in Bridges \ {b} : Pending(c)' =>
         /\ Pending(c) /\ bridge'[c].fresh = bridge[c].fresh
         /\ bridge[c].fresh \in Issued /\ bridge[c].fresh \notin spent /\ bridge[c].fresh # keyring
  BY <1>5 DEF Pending, CInv, Unused
<1>11. ASSUME NEW c \in Bridges PROVE Unused(c)'
  <2>1. CASE c = b
    <3>1. issued + 1 \notin spent'
      BY <1>1, <1>3, <1>6
    <3> QED BY <2>1, <3>1, <1>3, <1>6, <1>9, <1>10 DEF Unused
  <2>2. CASE c # b
    <3> SUFFICES ASSUME Pending(c)' PROVE Unused(c)'
      BY DEF Unused
    <3>1. /\ Pending(c) /\ bridge'[c].fresh = bridge[c].fresh
          /\ bridge[c].fresh \in Issued /\ bridge[c].fresh \notin spent /\ bridge[c].fresh # keyring
      BY <2>2, <1>10
    <3>2. ASSUME NEW d \in Bridges \ {c}, Pending(d)' PROVE bridge'[d].fresh # bridge'[c].fresh
      <4>1. CASE d = b
        BY <4>1, <3>1, <3>2, <1>6, <1>9
      <4>2. CASE d # b
        BY <4>2, <3>1, <3>2, <1>10 DEF CInv, Unused
      <4> QED BY <4>1, <4>2
    <3> QED BY <3>1, <3>2, <1>3, <1>6 DEF Unused
  <2> QED BY <2>1, <2>2
<1>12. Succeeded'
  BY <1>3, <1>4, <1>5 DEF Succeeded
<1> QED BY <1>7, <1>8, <1>11, <1>12 DEF CInv

\* Age, Reject and stuttering touch nothing that the invariant relates.
LEMMA OutsideStep ==
  ASSUME CInv, \/ \E t \in Issued : Age(t) \/ Reject(t)
               \/ UNCHANGED credentialVars
  PROVE  CInv'
<1>1. /\ UNCHANGED <<keyring, fileLock, bridge, issued, spent, lost>>
      /\ dead' \subseteq Issued /\ stale' \subseteq Issued
  BY DEF Age, Reject, credentialVars, CInv, CredentialTypeOK
<1>2. CredentialTypeOK'
  BY <1>1 DEF CInv, CredentialTypeOK, Issued
<1>3. \A b \in Bridges : Locked(b)' /\ Unused(b)'
  BY <1>1 DEF CInv, Locked, Unused, Pending, Issued
<1>4. Succeeded'
  BY <1>1 DEF CInv, Succeeded
<1> QED BY <1>2, <1>3, <1>4 DEF CInv
-----------------------------------------------------------------------------
\* The invariant holds at the start, ...
LEMMA CredentialInitially == CredentialInit => CInv
<1> SUFFICES ASSUME CredentialInit PROVE CInv
  OBVIOUS
<1>1. CredentialTypeOK
  BY CredentialConstants DEF CredentialInit, CredentialTypeOK, Idle, Issued
<1>2. \A b \in Bridges : Locked(b) /\ Unused(b)
  BY DEF CredentialInit, Locked, Unused, Pending, Idle
<1>3. Succeeded
  BY DEF CredentialInit, Succeeded
<1> QED BY <1>1, <1>2, <1>3 DEF CInv

\* ... and every step keeps it.
LEMMA CredentialNextKeeps == CInv /\ [CredentialNext]_credentialVars => CInv'
BY QuietActions, LoginStep, WriteStep, RotateStep, OutsideStep DEF CredentialNext

\* The invariant holds at the start and is kept by every step.
THEOREM CredentialInductive == CredentialSpec => []CInv
BY CredentialInitially, CredentialNextKeeps, PTL DEF CredentialSpec

\* Every reachable state is well typed: above all, what is lost was spent before.
THEOREM CredentialTyped == CredentialSpec => []CredentialTypeOK
<1>1. CInv => CredentialTypeOK
  BY DEF CInv
<1> QED BY <1>1, CredentialInductive, PTL

\* A process that refreshes presents a token that the edge takes, or one whose
\* successor was lost (token of store.go, under the lock of update).
THEOREM NoDoubleRefresh == CredentialSpec => []RefreshesAreUsable
<1>1. CInv => RefreshesAreUsable
  <2> SUFFICES ASSUME CInv, NEW b \in Bridges, bridge[b].pc = "refresh", bridge[b].held \in spent,
                      bridge[b].held \notin lost
               PROVE  FALSE
    BY DEF RefreshesAreUsable
  <2>1. fileLock = b /\ bridge[b].held = keyring
    BY DEF CInv, Locked
  <2>2. PICK c \in Bridges : bridge[c].pc = "store"
    BY <2>1 DEF CInv, Succeeded
  <2>3. c = b
    BY <2>1, <2>2 DEF CInv, Locked
  <2> QED BY <2>2, <2>3
<1> QED BY <1>1, CredentialInductive, PTL

\* An entry that was cleared comes back with a login only (remove of store.go).
THEOREM LogoutHolds == CredentialSpec => LogoutIsFinal
<1> DEFINE Comeback == keyring = 0 /\ keyring' # 0 =>
             \E b \in Bridges : bridge[b].job = "login" /\ keyring' = bridge[b].fresh
<1>1. CInv /\ [CredentialNext]_credentialVars => [Comeback]_credentialVars
  <2> SUFFICES ASSUME CInv, CredentialNext, keyring = 0, keyring' # 0
               PROVE  \E b \in Bridges : bridge[b].job = "login" /\ keyring' = bridge[b].fresh
    OBVIOUS
  <2>1. PICK b \in Bridges : Store(b)
    BY DEF CredentialNext, WantToken, DeviceLogin, WantLogout, Lock, Lookup, LookupLogin, Clear,
           Rotate, GiveUp, Send, Age, Reject
  <2>2. bridge[b].job = "login"
    <3>1. bridge[b].job = "token" => 0 \in spent
      BY <2>1 DEF Store, CInv, Locked
    <3>2. 0 \notin spent
      BY CredentialConstants DEF CInv, CredentialTypeOK, Issued
    <3> QED BY <2>1, <3>1, <3>2 DEF Store, CInv, Locked
  <2> QED BY <2>1, <2>2 DEF Store
<1> QED BY <1>1, CredentialInductive, PTL DEF CredentialSpec, LogoutIsFinal
-----------------------------------------------------------------------------
(***************************************************************************)
(* For any number of slots and lines: the relay posts in the order of the  *)
(* handshake, and closes the session when nothing is under way.            *)
(*                                                                         *)
(* What carries it is how far the reader has come: of the lines read, only *)
(* the last can be a handshake that is still under way, and the lines      *)
(* behind it are unread. Once Serve has seen the reader's end, nothing is  *)
(* posted any more.                                                        *)
(***************************************************************************)

ReadUpTo(l) == \A n \in Lines : line[n] # "none" <=> n <= l

\* What the reader leaves behind when l lines were read
Behind(l) ==
  /\ ReadUpTo(l)
  /\ \A n \in Lines : n > l => work[n] = "unread"
  /\ \A n \in Lines : Handshake(line[n]) => work[n] = "ended" \/ (reader = "post" /\ n = l)
  /\ reader \in {"post", "slot"} => l # 0
  /\ reader = "slot" => ~Handshake(line[l])

WindingUp ==
  /\ serving \in {"workers", "close", "returned"} => reader = "exited"
  /\ serving \in {"close", "returned"} => listener # "on" /\ \A n \in Lines : ~InFlight(n)
  /\ serving # "returned" => deleted = 0

RelayInv ==
  /\ RelayTypeOK
  /\ \E l \in 0 .. MaxLines : Behind(l)
  /\ WindingUp

\* The choice of LastLine is the number of lines that were read.
LEMMA LastLineIs ==
  ASSUME NEW l \in 0 .. MaxLines, ReadUpTo(l)
  PROVE  LastLine = l
<1> DEFINE Fits(n) == /\ n = 0 \/ line[n] # "none"
                      /\ n = MaxLines \/ line[n + 1] = "none"
<1>1. MaxLines \in Nat
  BY RelayConstants
<1>2. Fits(l)
  <2>1. l = 0 \/ l \in Lines
    BY <1>1 DEF Lines
  <2>2. l = MaxLines \/ l + 1 \in Lines
    BY <1>1 DEF Lines
  <2> QED
    BY <1>1, <2>1, <2>2 DEF ReadUpTo
<1>3. \A n \in 0 .. MaxLines : Fits(n) => n = l
  <2> SUFFICES ASSUME NEW n \in 0 .. MaxLines, Fits(n) PROVE n = l
    OBVIOUS
  <2>1. n = 0 \/ n \in Lines
    BY <1>1 DEF Lines
  <2>2. n = MaxLines \/ n + 1 \in Lines
    BY <1>1 DEF Lines
  <2>3. n <= l
    BY <1>1, <2>1 DEF ReadUpTo
  <2>4. l <= n
    BY <1>1, <2>2 DEF ReadUpTo
  <2> QED
    BY <1>1, <2>3, <2>4
<1>4. LastLine = CHOOSE n \in 0 .. MaxLines : Fits(n)
  BY DEF LastLine
<1> HIDE DEF Fits
<1> QED
  BY <1>2, <1>3, <1>4

\* The contiguity that the type of the lines asks for
LEMMA ReadIsContiguous ==
  ASSUME NEW f, NEW l \in 0 .. MaxLines, \A n \in Lines : f[n] # "none" <=> n <= l
  PROVE  \A n \in Lines : f[n] # "none" => \A m \in 1 .. n : f[m] # "none"
<1> SUFFICES ASSUME NEW n \in Lines, f[n] # "none", NEW m \in 1 .. n PROVE f[m] # "none"
  OBVIOUS
<1>1. MaxLines \in Nat
  BY RelayConstants
<1>2. m \in Lines /\ m <= l
  BY <1>1 DEF Lines
<1> QED
  BY <1>2

LEMMA ScanRelays == \A kind \in LineKinds : RelayInv /\ Scan(kind) => RelayInv'
<1> SUFFICES ASSUME NEW kind \in LineKinds, RelayInv, Scan(kind) PROVE RelayInv'
  OBVIOUS
<1>1. PICK l \in 0 .. MaxLines : Behind(l)
  BY DEF RelayInv
<1>2. LastLine = l
  BY <1>1, LastLineIs DEF Behind
<1> DEFINE n == l + 1
<1>3. MaxLines \in Nat /\ n \in Lines /\ n \in 0 .. MaxLines /\ n # 0
  BY <1>2, RelayConstants DEF Scan, Lines
<1>4. /\ line' = [line EXCEPT ![n] = kind]
      /\ work' = [work EXCEPT ![n] = IF Handshake(kind) THEN "posting" ELSE "read"]
      /\ reader = "scan" /\ reader' = IF Handshake(kind) THEN "post" ELSE "slot"
      /\ UNCHANGED Rest
  BY <1>2 DEF Scan, Marks
<1>5. /\ line' \in [Lines -> LineKinds \cup {"none"}]
      /\ work' \in [Lines -> {"unread", "read", "posting", "asking", "asked", "ended"}]
      /\ line'[n] = kind /\ kind # "none"
      /\ work'[n] = IF Handshake(kind) THEN "posting" ELSE "read"
      /\ \A k \in Lines \ {n} : line'[k] = line[k] /\ work'[k] = work[k]
  BY <1>3, <1>4 DEF RelayInv, RelayTypeOK, LineKinds
<1>6. \A k \in Lines : (k <= n <=> k <= l \/ k = n) /\ (k > n => k > l /\ k # n)
  BY <1>3 DEF Lines
<1>7. \A k \in Lines : line'[k] # "none" <=> k <= n
  BY <1>1, <1>5, <1>6 DEF Behind, ReadUpTo
<1>8. Behind(n)'
  <2>1. \A k \in Lines : k > n => work'[k] = "unread"
    BY <1>1, <1>5, <1>6 DEF Behind
  <2>2. \A k \in Lines : Handshake(line'[k]) => work'[k] = "ended" \/ (reader' = "post" /\ k = n)
    BY <1>1, <1>4, <1>5 DEF Behind
  <2>3. reader' = "slot" => ~Handshake(line'[n])
    BY <1>4, <1>5
  <2> QED
    BY <1>3, <1>7, <2>1, <2>2, <2>3 DEF Behind, ReadUpTo, Handshake
<1>9. \A k \in Lines : line'[k] # "none" => \A m \in 1 .. k : line'[m] # "none"
  BY <1>3, <1>7, ReadIsContiguous
<1>10. RelayTypeOK'
  BY <1>4, <1>5, <1>9 DEF RelayInv, RelayTypeOK, Rest
<1>11. WindingUp'
  BY <1>4 DEF RelayInv, WindingUp, Rest
<1> QED
  BY <1>3, <1>8, <1>10, <1>11 DEF RelayInv

\* A step of the reader that marks the last line and reads on or exits
LEMMA ReaderMarks ==
  ASSUME RelayInv, reader \in {"post", "slot"}, reader' \in {"scan", "exited"},
         NEW w \in {"posting", "ended"}, Marks(LastLine, w),
         reader = "slot" \/ w = "ended",
         line' = line, listener' \in {listener, "none", "on"},
         failed' = failed, readDone' \in BOOLEAN, opened' \in BOOLEAN,
         UNCHANGED Closing
  PROVE  RelayInv'
<1>1. PICK l \in 0 .. MaxLines : Behind(l)
  BY DEF RelayInv
<1>2. LastLine = l
  BY <1>1, LastLineIs DEF Behind
<1>3. MaxLines \in Nat /\ l \in Lines
  BY <1>1, RelayConstants DEF Behind, Lines
<1>4. /\ work' \in [Lines -> {"unread", "read", "posting", "asking", "asked", "ended"}]
      /\ work'[l] = w
      /\ \A k \in Lines \ {l} : work'[k] = work[k]
  BY <1>2, <1>3 DEF RelayInv, RelayTypeOK, Marks
<1>5. ~(l > l)
  BY <1>3
<1>6. Behind(l)'
  <2>1. \A k \in Lines : k > l => work'[k] = "unread"
    BY <1>1, <1>4, <1>5 DEF Behind
  <2>2. \A k \in Lines : Handshake(line[k]) => work'[k] = "ended"
    BY <1>1, <1>3, <1>4 DEF Behind
  <2> QED
    BY <1>1, <2>1, <2>2 DEF Behind, ReadUpTo, Handshake
<1>7. RelayTypeOK'
  BY <1>4 DEF RelayInv, RelayTypeOK, Closing
<1>8. WindingUp'
  BY DEF RelayInv, WindingUp, Closing
<1> QED
  BY <1>6, <1>7, <1>8 DEF RelayInv

LEMMA HandshakeRelays == RelayInv /\ (HandshakeDone \/ HandshakeFails) => RelayInv'
<1> SUFFICES ASSUME RelayInv, HandshakeDone \/ HandshakeFails PROVE RelayInv'
  OBVIOUS
<1>1. opened \in BOOLEAN /\ readDone \in BOOLEAN
  BY DEF RelayInv, RelayTypeOK
<1>2. CASE HandshakeDone
  BY <1>1, <1>2, ReaderMarks DEF HandshakeDone, Names
<1>3. CASE HandshakeFails
  BY <1>1, <1>3, ReaderMarks DEF HandshakeFails, Names
<1> QED
  BY <1>2, <1>3

LEMMA SlotRelays == RelayInv /\ (TakeSlot \/ DropLine) => RelayInv'
<1> SUFFICES ASSUME RelayInv, TakeSlot \/ DropLine PROVE RelayInv'
  OBVIOUS
<1>1. opened \in BOOLEAN /\ readDone \in BOOLEAN
  BY DEF RelayInv, RelayTypeOK
<1>2. CASE TakeSlot
  BY <1>1, <1>2, ReaderMarks DEF TakeSlot, Rest, Closing
<1>3. CASE DropLine
  BY <1>1, <1>3, ReaderMarks DEF DropLine
<1> QED
  BY <1>2, <1>3

\* The steps of Serve, of the stream and of a signal leave the lines alone.
LEMMA LinesRest ==
  ASSUME RelayInv, UNCHANGED <<line, work>>,
         reader' = reader \/ (reader = "scan" /\ reader' = "exited"),
         listener' = listener \/ listener' = "ended",
         serving' \in {"select", "reader", "workers", "close", "returned"},
         cancelled' \in BOOLEAN, failed' \in BOOLEAN, readDone' \in BOOLEAN,
         opened' \in BOOLEAN, deleted' \in 0 .. 1, WindingUp'
  PROVE  RelayInv'
<1>1. PICK l \in 0 .. MaxLines : Behind(l)
  BY DEF RelayInv
<1>2. Behind(l)'
  BY <1>1 DEF Behind, ReadUpTo, Handshake
<1>3. RelayTypeOK'
  BY DEF RelayInv, RelayTypeOK
<1> QED
  BY <1>2, <1>3 DEF RelayInv

LEMMA ServeRelays ==
  RelayInv /\ (ScanEnds \/ ListenEnds \/ Signal \/ EndServe \/ AwaitReader \/ AwaitWorkers
               \/ CloseSession \/ UNCHANGED relayVars) => RelayInv'
<1> SUFFICES ASSUME RelayInv,
                    ScanEnds \/ ListenEnds \/ Signal \/ EndServe \/ AwaitReader
                    \/ AwaitWorkers \/ CloseSession \/ UNCHANGED relayVars
             PROVE  RelayInv'
  OBVIOUS
<1> USE DEF RelayInv, RelayTypeOK
<1>1. CASE ScanEnds
  <2>1. WindingUp'
    BY <1>1 DEF ScanEnds, WindingUp, Closing, InFlight
  <2> QED
    BY <1>1, <2>1, LinesRest DEF ScanEnds, Closing
<1>2. CASE ListenEnds
  <2>1. WindingUp'
    BY <1>2 DEF ListenEnds, WindingUp, Closing, InFlight
  <2> QED
    BY <1>2, <2>1, LinesRest DEF ListenEnds, Closing
<1>3. CASE Signal
  <2>1. WindingUp'
    BY <1>3 DEF Signal, WindingUp, InFlight
  <2> QED
    BY <1>3, <2>1, LinesRest DEF Signal
<1>4. CASE EndServe
  <2>1. WindingUp'
    BY <1>4 DEF EndServe, WindingUp, InFlight
  <2> QED
    BY <1>4, <2>1, LinesRest DEF EndServe
<1>5. CASE AwaitReader
  <2>1. WindingUp'
    BY <1>5 DEF AwaitReader, WindingUp, InFlight
  <2> QED
    BY <1>5, <2>1, LinesRest DEF AwaitReader
<1>6. CASE AwaitWorkers
  <2>1. WindingUp'
    BY <1>6 DEF AwaitWorkers, WindingUp, InFlight
  <2> QED
    BY <1>6, <2>1, LinesRest DEF AwaitWorkers
<1>7. CASE CloseSession
  <2>1. WindingUp'
    BY <1>7 DEF CloseSession, WindingUp, InFlight
  <2>2. deleted = 0 /\ deleted' \in 0 .. 1
    BY <1>7 DEF CloseSession, WindingUp
  <2> QED
    BY <1>7, <2>1, <2>2, LinesRest DEF CloseSession
<1>8. CASE UNCHANGED relayVars
  <2>1. WindingUp'
    BY <1>8 DEF relayVars, WindingUp, InFlight
  <2> QED
    BY <1>8, <2>1, LinesRest DEF relayVars
<1> QED
  BY <1>1, <1>2, <1>3, <1>4, <1>5, <1>6, <1>7, <1>8

\* A worker moves lines that are under way, and never one of the handshake.
LEMMA WorkMoves ==
  ASSUME RelayInv,
         work' \in [Lines -> {"unread", "read", "posting", "asking", "asked", "ended"}],
         \A k \in Lines : \/ work'[k] = work[k]
                          \/ InFlight(k) /\ (Handshake(line[k]) => reader = "post"),
         UNCHANGED <<line, reader, listener, serving, deleted>>,
         cancelled' \in BOOLEAN, failed' \in BOOLEAN, readDone' \in BOOLEAN, opened' \in BOOLEAN
  PROVE  RelayInv'
<1>1. PICK l \in 0 .. MaxLines : Behind(l)
  BY DEF RelayInv
<1>2. \A k \in Lines : InFlight(k) => work[k] # "unread" /\ work[k] # "ended"
  BY DEF InFlight
<1>3. Behind(l)'
  <2>1. \A k \in Lines : k > l => work'[k] = "unread"
    BY <1>1, <1>2 DEF Behind
  <2>2. \A k \in Lines : Handshake(line[k]) => work'[k] = "ended" \/ (reader = "post" /\ k = l)
    BY <1>1, <1>2 DEF Behind
  <2> QED
    BY <1>1, <2>1, <2>2 DEF Behind, ReadUpTo, Handshake
<1>4. RelayTypeOK'
  BY DEF RelayInv, RelayTypeOK
<1>5. WindingUp'
  BY DEF RelayInv, WindingUp, InFlight
<1> QED
  BY <1>3, <1>4, <1>5 DEF RelayInv

LEMMA WorkersRelay ==
  \A n \in Lines : RelayInv /\ (Answered(n) \/ ServiceAsks(n) \/ PostFails(n)) => RelayInv'
<1> SUFFICES ASSUME NEW n \in Lines, RelayInv, Answered(n) \/ ServiceAsks(n) \/ PostFails(n)
             PROVE  RelayInv'
  OBVIOUS
<1>1. /\ work \in [Lines -> {"unread", "read", "posting", "asking", "asked", "ended"}]
      /\ cancelled \in BOOLEAN /\ failed \in BOOLEAN /\ readDone \in BOOLEAN
      /\ opened \in BOOLEAN
  BY DEF RelayInv, RelayTypeOK
<1>2. \A k \in Lines : InFlight(k) /\ Handshake(line[k]) => reader = "post"
  BY DEF RelayInv, Behind, InFlight
<1>3. InFlight(n)
  BY DEF Answered, ServiceAsks, PostFails, InFlight
<1>4. CASE Answered(n)
  <2>1. PICK m \in Lines : /\ m = n \/ m \in Asking
                           /\ work' = [work EXCEPT ![n] = "ended", ![m] = "asked"]
                              \/ work' = [work EXCEPT ![n] = "ended"]
    BY <1>4 DEF Answered, Marks, Asking
  <2>2. InFlight(m)
    BY <1>3, <2>1 DEF Asking, InFlight
  <2>3. /\ work' \in [Lines -> {"unread", "read", "posting", "asking", "asked", "ended"}]
        /\ \A k \in Lines : work'[k] = work[k] \/ k = n \/ k = m
    BY <1>1, <2>1
  <2> QED
    BY <1>1, <1>2, <1>3, <1>4, <2>2, <2>3, WorkMoves DEF Answered, Names, Closing
<1>5. CASE ServiceAsks(n)
  <2>1. /\ work' \in [Lines -> {"unread", "read", "posting", "asking", "asked", "ended"}]
        /\ \A k \in Lines : work'[k] = work[k] \/ k = n
    BY <1>1, <1>5 DEF ServiceAsks, Marks
  <2> QED
    BY <1>1, <1>2, <1>3, <1>5, <2>1, WorkMoves DEF ServiceAsks, Names, Closing
<1>6. CASE PostFails(n)
  <2>1. /\ work' \in [Lines -> {"unread", "read", "posting", "asking", "asked", "ended"}]
        /\ \A k \in Lines : work'[k] = work[k] \/ k = n
    BY <1>1, <1>6 DEF PostFails, Marks
  <2> QED
    BY <1>1, <1>2, <1>3, <1>6, <2>1, WorkMoves DEF PostFails, Names, Closing
<1> QED
  BY <1>4, <1>5, <1>6

\* The invariant holds at the start, ...
LEMMA RelayInitially == RelayInit => RelayInv
<1> SUFFICES ASSUME RelayInit PROVE RelayInv
  OBVIOUS
<1>1. MaxLines \in Nat /\ 0 \in 0 .. MaxLines
  BY RelayConstants
<1>2. Behind(0)
  BY <1>1 DEF RelayInit, Behind, ReadUpTo, Handshake, Lines
<1>3. RelayTypeOK
  <2>1. /\ line \in [Lines -> LineKinds \cup {"none"}] /\ \A n \in Lines : line[n] = "none"
        /\ work \in [Lines -> {"unread", "read", "posting", "asking", "asked", "ended"}]
    BY DEF RelayInit
  <2>2. reader = "scan" /\ listener = "none" /\ serving = "select" /\ deleted = 0
    BY DEF RelayInit
  <2>3. /\ cancelled \in BOOLEAN /\ failed \in BOOLEAN /\ readDone \in BOOLEAN
        /\ opened \in BOOLEAN
    BY Zenon DEF RelayInit
  <2> QED
    BY <2>1, <2>2, <2>3 DEF RelayTypeOK
<1>4. WindingUp
  BY DEF RelayInit, WindingUp
<1> QED
  BY <1>1, <1>2, <1>3, <1>4 DEF RelayInv

\* ... and every step keeps it.
LEMMA RelayNextKeeps == RelayInv /\ [RelayNext]_relayVars => RelayInv'
BY ScanRelays, HandshakeRelays, SlotRelays, ServeRelays, WorkersRelay DEF RelayNext

\* The invariant holds at the start and is kept by every step.
THEOREM RelayInductive == RelaySpec => []RelayInv
BY RelayInitially, RelayNextKeeps, PTL DEF RelaySpec

\* Every reachable state is well typed, however many lines were read.
THEOREM RelayTyped == RelaySpec => []RelayTypeOK
<1>1. RelayInv => RelayTypeOK
  BY DEF RelayInv
<1> QED
  BY <1>1, RelayInductive, PTL

\* The reader posts the handshake itself (Serve of transport.go) and Serve waits
\* for reader and workers before it closes the session: no line overtakes the
\* handshake, and nothing is under way when the session is closed.
THEOREM RelayKeepsOrder == RelaySpec => []WireOrder
<1>1. RelayInv => WireOrder
  <2> SUFFICES ASSUME RelayInv, NEW m \in Lines, NEW n \in Lines,
                      m < n, Handshake(line[m]), InFlight(n)
               PROVE  work[m] = "ended"
    BY DEF RelayInv, WindingUp, WireOrder, Handshake
  <2>1. PICK l \in 0 .. MaxLines : Behind(l)
    BY DEF RelayInv
  <2>2. ~(n > l)
    BY <2>1 DEF Behind, InFlight
  <2>3. m # l
    BY <2>2, RelayConstants DEF Lines
  <2> QED
    BY <2>1, <2>3 DEF Behind
<1> QED
  BY <1>1, RelayInductive, PTL
=============================================================================
