---------------------------- MODULE DeviceGrant ----------------------------
(***************************************************************************)
(* What the device authorization grant of the edge promises, with no       *)
(* handlers, no clock and no storage: a code is opened, a subject decides  *)
(* about it once, and an approved code is redeemed at most once, for the   *)
(* subject that approved it.  DeviceAuthorization implements this module.  *)
(***************************************************************************)
EXTENDS Sequences

CONSTANTS Codes,      \* device codes
          Subjects,   \* identities that may approve a code
          NoSubject   \* subject_sub IS NULL

VARIABLES phase,      \* phase[c] : how far code c has come
          owner,      \* owner[c] : the subject that approved c
          tokens      \* the tokens issued, oldest first

vars == <<phase, owner, tokens>>

Open   == {"pending", "approved"}
Closed == {"denied", "expired", "consumed"}

TypeOK ==
  /\ phase \in [Codes -> {"none"} \cup Open \cup Closed]
  /\ owner \in [Codes -> Subjects \cup {NoSubject}]
  /\ tokens \in Seq([code : Codes, subject : Subjects])

Init ==
  /\ phase = [c \in Codes |-> "none"]
  /\ owner = [c \in Codes |-> NoSubject]
  /\ tokens = << >>

Start(c) ==
  /\ phase[c] = "none"
  /\ phase' = [phase EXCEPT ![c] = "pending"]
  /\ UNCHANGED <<owner, tokens>>

Approve(c, s) ==
  /\ phase[c] = "pending"
  /\ phase' = [phase EXCEPT ![c] = "approved"]
  /\ owner' = [owner EXCEPT ![c] = s]
  /\ UNCHANGED tokens

Deny(c) ==
  /\ phase[c] = "pending"
  /\ phase' = [phase EXCEPT ![c] = "denied"]
  /\ UNCHANGED <<owner, tokens>>

\* One sweep may close several codes.
Expire(C) ==
  /\ \A c \in C : phase[c] \in Open
  /\ phase' = [c \in Codes |-> IF c \in C THEN "expired" ELSE phase[c]]
  /\ UNCHANGED <<owner, tokens>>

Redeem(c) ==
  /\ phase[c] = "approved"
  /\ phase' = [phase EXCEPT ![c] = "consumed"]
  /\ tokens' = Append(tokens, [code |-> c, subject |-> owner[c]])
  /\ UNCHANGED owner

Next ==
  \/ \E c \in Codes : Start(c) \/ Deny(c) \/ Redeem(c)
  \/ \E c \in Codes, s \in Subjects : Approve(c, s)
  \/ \E C \in SUBSET Codes : Expire(C)

Spec == Init /\ [][Next]_vars
=============================================================================
