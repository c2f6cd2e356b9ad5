----------------------------- MODULE TokenChain -----------------------------
(***************************************************************************)
(* What the edge promises about the credentials it hands out, with no      *)
(* handlers, no rows and no clock: a credential is started by a consent or *)
(* an operator, can be spent once for a successor, and may be dropped at   *)
(* any time.  Credentials are numbered in the order in which they appear.  *)
(* OAuthSession implements this module.                                    *)
(***************************************************************************)
EXTENDS Naturals, Sequences

VARIABLES parents,    \* parents[n] : what credential n was spent from, 0 if nothing
          live        \* the credentials that can still be spent

vars == <<parents, live>>

Fresh == Len(parents) + 1

TypeOK ==
  /\ parents \in Seq(Nat)
  /\ live \subseteq 1 .. Len(parents)

Init == parents = << >> /\ live = {}

Start ==
  /\ parents' = Append(parents, 0)
  /\ live' = live \cup {Fresh}

\* A code is exchanged, or a refresh token is rotated.
Spend(n) ==
  /\ n \in live
  /\ parents' = Append(parents, n)
  /\ live' = (live \ {n}) \cup {Fresh}

\* Revoked, refused after it was taken, or lost with the request that took it.
Drop(n) ==
  /\ n \in live
  /\ live' = live \ {n}
  /\ UNCHANGED parents

Next == Start \/ \E n \in live : Spend(n) \/ Drop(n)

Spec == Init /\ [][Next]_vars
=============================================================================
