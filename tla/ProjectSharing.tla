--------------------------- MODULE ProjectSharing ---------------------------
(***************************************************************************)
(* What the memory bank promises about the shares of a project.  A share   *)
(* is offered and accepted while the project is live, at most one share of *)
(* a person is open at a time, a share lapses when its time is over and    *)
(* may be revoked at any time; what is closed never opens again, and what  *)
(* becomes of the tenant that owns the project becomes of all of it.       *)
(***************************************************************************)
EXTENDS Integers

CONSTANTS Shares, Persons, NoPerson, Always, Times

VARIABLES
  now,         \* the time
  live,        \* does the project exist and is it not archived?
  book         \* the shares

None == [state |-> "none", person |-> NoPerson, until |-> Always]

IsOpen(b, s) == b[s].state \in {"pending", "active"}

\* The book after the shares whose time is over at t have lapsed, or none of them
After(b, t) ==
  [s \in Shares |-> IF IsOpen(b, s) /\ b[s].until # Always /\ b[s].until <= t
                      THEN [b[s] EXCEPT !.state = "expired"] ELSE b[s]]

Init == now = 0 /\ live = FALSE /\ book = [s \in Shares |-> None]

TimePasses == now' = now + 1 /\ UNCHANGED <<live, book>>

\* opened, archived, or replaced together with its shares
ProjectChanges ==
  /\ \/ UNCHANGED book
     \/ ~live' /\ book' = [s \in Shares |-> None]
  /\ live' \in BOOLEAN /\ UNCHANGED now

Lapse == \E t \in Times : t <= now /\ book' = After(book, t) /\ UNCHANGED <<now, live>>

Offer(s, p) ==
  /\ live /\ book[s].state = "none"
  /\ \E t \in Times, until \in Times \cup {Always} :
       LET b == After(book, t) IN
       /\ t <= now /\ (until = Always \/ until > t)
       /\ \A o \in Shares : IsOpen(b, o) => b[o].person # p
       /\ book' = [b EXCEPT ![s] = [state |-> "pending", person |-> p, until |-> until]]
  /\ UNCHANGED <<now, live>>

\* accepted at a time that lies behind, and before the share was over
Accept(s) ==
  /\ live /\ IsOpen(book, s)
  /\ \E t \in Times : t <= now /\ (book[s].until = Always \/ t < book[s].until)
  /\ book' = [book EXCEPT ![s].state = "active"]
  /\ UNCHANGED <<now, live>>

Revoke(s) ==
  /\ book[s].state \notin {"none", "revoked"}
  /\ book' = [book EXCEPT ![s].state = "revoked"]
  /\ UNCHANGED <<now, live>>

Next ==
  \/ TimePasses \/ ProjectChanges \/ Lapse
  \/ \E s \in Shares : Accept(s) \/ Revoke(s) \/ \E p \in Persons : Offer(s, p)

Spec == Init /\ [][Next]_<<now, live, book>>
=============================================================================
