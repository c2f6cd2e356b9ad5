------------------------- MODULE OAuthSessionProofs -------------------------
(***************************************************************************)
(* For any grants, requests, lifetimes and number of aborted requests: the *)
(* handlers implement the chain of credentials, a session is as long as    *)
(* its first refresh lifetime, and only a request that dies costs a client *)
(* its session.                                                            *)
(*                                                                         *)
(* The invariant rests on three facts about the tables: a row that a       *)
(* request has taken stays as it was taken until that request replaces it, *)
(* no two requests have taken one credential, and a credential that a row  *)
(* has given up is never written to a row again.                           *)
(***************************************************************************)
EXTENDS OAuthSession, SequenceTheorems, TLAPS

Carrying == {"found", "valid", "taken", "checked", "stamped", "retire", "reply"}
Spending == {"found", "valid", "taken", "checked", "stamped"}

\* Rows and credentials point at each other.
Linked ==
  /\ \A n \in 1 .. Len(tokens) : /\ tokens[n].row \in 1 .. Len(rows)
                                /\ tokens[n].parent \in 0 .. Len(tokens)
  /\ \A i \in 1 .. Len(rows) : /\ rows[i].token \in 1 .. Len(tokens)
                              /\ RowOf(rows[i].token) = i

\* A row is as old as its credential, its refresh time is that of its first one.
Dated ==
  /\ \A i \in 1 .. Len(rows) : rows[i].at = tokens[rows[i].token].at
  /\ \A n \in 1 .. Len(tokens) : First(n) => tokens[n].at = rows[RowOf(n)].refreshAt

\* Only rows of OAuth sessions are rotated, and only the others are deleted.
Rotated ==
  /\ \A i \in 1 .. Len(rows) : rows[i].kind = "oauth" => ~rows[i].gone
  /\ \A n \in 1 .. Len(tokens) :
       rows[RowOf(n)].kind # "oauth" => rows[RowOf(n)].token = n

Data ==
  /\ rows \in Seq(Rows) /\ tokens \in Seq(Tokens)
  /\ Linked /\ Dated /\ Rotated

\* What a request knows of the credential it carries
Knows(r) ==
  /\ req[r].pc \in Carrying => req[r].token \in 1 .. Len(tokens)
  /\ req[r].pc \in Spending \cup {"authorize", "mint"} => req[r].grant \in Grants
  /\ req[r].pc \in Spending => rows[RowOf(req[r].token)].kind \in {"code", "oauth"}
  /\ req[r].pc \in Taken => /\ rows[RowOf(req[r].token)].token = req[r].token
                            /\ rows[RowOf(req[r].token)].consumed
  /\ req[r].pc = "stamped" /\ rows[RowOf(req[r].token)].kind = "code" =>
       rows[RowOf(req[r].token)].gone
  /\ req[r].pc = "retire" => /\ req[r].old \in 1 .. Len(tokens)
                             /\ rows[RowOf(req[r].old)].token # req[r].old

Alone == \A r, q \in Requests :
  req[r].pc \in Taken /\ req[q].pc \in Taken /\ req[r].token = req[q].token => r = q

\* Credential n passes the library's tests of age at the time t.
Young(n, t) ==
  /\ ~Expired(tokens[n].at, AccessTTL, t)
  /\ rows[RowOf(n)].kind = "oauth" => ~Expired(rows[RowOf(n)].refreshAt, RefreshTTL, t)

Used ==
  /\ \A u \in Uses : use[u].pc # "idle" => use[u].token \in 1 .. Len(tokens)
  /\ \A u \in Uses : use[u].pc = "loaded" => Young(use[u].token, use[u].at)
  /\ \A h \in honoured : Young(h.token, h.at)

OInv ==
  /\ TypeOK /\ Data
  /\ \A r \in Requests : Knows(r)
  /\ Alone /\ Used
-----------------------------------------------------------------------------
(* Sequences *)

\* Replacing one element of a sequence keeps the others and the length.
LEMMA ElementReplaced ==
  ASSUME NEW S, NEW s \in Seq(S), NEW i \in 1 .. Len(s), NEW x \in S
  PROVE  LET t == [s EXCEPT ![i] = x] IN
         /\ t \in Seq(S) /\ Len(t) = Len(s)
         /\ \A j \in 1 .. Len(s) : t[j] = IF j = i THEN x ELSE s[j]
<1>1. Len(s) \in Nat /\ DOMAIN s = 1 .. Len(s)
  BY LenProperties
<1>2. \A j \in 1 .. Len(s) : s[j] \in S
  BY ElementOfSeq
<1> DEFINE t == [s EXCEPT ![i] = x]
<1>3. t \in Seq(S) /\ Len(t) = Len(s)
  BY ExceptSeq
<1>4. \A j \in 1 .. Len(s) : t[j] = IF j = i THEN x ELSE s[j]
  BY <1>1
<1> QED
  BY <1>3, <1>4

\* Appending one element keeps the others.
LEMMA ElementAppended ==
  ASSUME NEW S, NEW s \in Seq(S), NEW x \in S
  PROVE  LET t == Append(s, x) IN
         /\ t \in Seq(S) /\ Len(t) = Len(s) + 1 /\ Len(s) \in Nat
         /\ \A j \in 1 .. Len(s) : j \in 1 .. Len(t) /\ t[j] = s[j]
         /\ t[Len(s) + 1] = x /\ Len(s) + 1 \in 1 .. Len(t)
<1>1. Len(s) \in Nat
  BY LenProperties
<1> DEFINE t == Append(s, x)
<1>2. t \in Seq(S) /\ Len(t) = Len(s) + 1
  BY AppendProperties
<1>3. \A j \in 1 .. Len(s) : t[j] = s[j]
  BY AppendProperties
<1>4. t[Len(s) + 1] = x
  BY AppendProperties
<1>5. \A j \in 1 .. Len(s) : j \in 1 .. Len(s) + 1
  BY <1>1
<1>6. Len(s) + 1 \in 1 .. Len(s) + 1
  BY <1>1
<1> QED
  BY <1>1, <1>2, <1>3, <1>4, <1>5, <1>6
-----------------------------------------------------------------------------
(* How the tables change: nothing, one flag, a new row, a rotated row *)

\* What is said of a row or a credential and stays true of it.
Later ==
  /\ \A n \in 1 .. Len(tokens) : n \in 1 .. Len(tokens') /\ tokens'[n] = tokens[n]
  /\ \A i \in 1 .. Len(rows) :
       /\ i \in 1 .. Len(rows')
       /\ rows'[i].kind = rows[i].kind
       /\ rows'[i].refreshAt = rows[i].refreshAt
       /\ rows[i].gone => rows'[i].gone
       /\ \/ rows'[i].token = rows[i].token
          \/ rows'[i].token \notin 1 .. Len(tokens)

\* What the tables hold, without the sequences they are written with.
LEMMA Tables ==
  ASSUME Data
  PROVE  /\ Len(rows) \in Nat /\ Len(tokens) \in Nat
         /\ \A i \in 1 .. Len(rows) : rows[i] \in Rows /\ rows[i].token \in 1 .. Len(tokens)
         /\ \A n \in 1 .. Len(tokens) : tokens[n] \in Tokens /\ RowOf(n) \in 1 .. Len(rows)
<1>1. rows \in Seq(Rows) /\ tokens \in Seq(Tokens) /\ Linked
  BY DEF Data
<1>2. Len(rows) \in Nat /\ Len(tokens) \in Nat
  BY <1>1, LenProperties
<1>3. \A i \in 1 .. Len(rows) : rows[i] \in Rows
  BY <1>1, ElementOfSeq
<1>4. \A n \in 1 .. Len(tokens) : tokens[n] \in Tokens
  BY <1>1, ElementOfSeq
<1> QED
  BY <1>1, <1>2, <1>3, <1>4 DEF Linked, RowOf

LEMMA TablesRest ==
  ASSUME Data, rows' = rows, tokens' = tokens
  PROVE  Data' /\ Later
<1>1. Data'
  BY DEF Data, Linked, Dated, Rotated, RowOf, First
<1> QED
  BY <1>1 DEF Later

\* One row is marked as consumed, or as deleted if it may be.
LEMMA RowMarked ==
  ASSUME Data, NEW i \in 1 .. Len(rows), NEW x \in Rows,
         x.kind = rows[i].kind, x.token = rows[i].token, x.at = rows[i].at,
         x.refreshAt = rows[i].refreshAt, rows[i].gone => x.gone,
         x.kind = "oauth" => x.gone = rows[i].gone,
         rows' = [rows EXCEPT ![i] = x], tokens' = tokens
  PROVE  /\ Data' /\ Later
         /\ \A j \in 1 .. Len(rows) : rows'[j] = IF j = i THEN x ELSE rows[j]
<1>1. rows \in Seq(Rows)
  BY DEF Data
<1>2. /\ rows' \in Seq(Rows) /\ Len(rows') = Len(rows)
      /\ \A j \in 1 .. Len(rows) : rows'[j] = IF j = i THEN x ELSE rows[j]
  BY <1>1, ElementReplaced
<1>3. Len(tokens') = Len(tokens)
  OBVIOUS
<1>4. \A j \in 1 .. Len(rows) :
        /\ rows'[j].kind = rows[j].kind /\ rows'[j].token = rows[j].token
        /\ rows'[j].at = rows[j].at /\ rows'[j].refreshAt = rows[j].refreshAt
        /\ rows[j].gone => rows'[j].gone
        /\ rows'[j].kind = "oauth" => rows'[j].gone = rows[j].gone
  BY <1>2
<1>5. Later
  BY <1>2, <1>4 DEF Later
<1>6. \A n \in 1 .. Len(tokens) : RowOf(n) \in 1 .. Len(rows)
  BY Tables
<1>7. Linked'
  BY <1>2, <1>4 DEF Data, Linked, RowOf
<1>8. Dated'
  <2>1. \A n \in 1 .. Len(tokens) : First(n)' <=> First(n)
    BY DEF First, RowOf
  <2>2. \A n \in 1 .. Len(tokens) : First(n) => tokens'[n].at = rows'[RowOf(n)].refreshAt
    BY <1>4, <1>6 DEF Data, Dated
  <2>3. \A j \in 1 .. Len(rows) : rows'[j].at = tokens'[rows'[j].token].at
    BY <1>4 DEF Data, Dated
  <2> QED
    BY <1>2, <2>1, <2>2, <2>3 DEF Dated, RowOf
<1>9. Rotated'
  BY <1>2, <1>4, <1>6 DEF Data, Rotated, RowOf
<1> QED
  BY <1>2, <1>5, <1>7, <1>8, <1>9 DEF Data

\* First speaks of credentials that are already there.
LEMMA FirstStays ==
  ASSUME Data, Later
  PROVE  \A n \in 1 .. Len(tokens) : /\ RowOf(n)' = RowOf(n)
                                     /\ First(n)' <=> First(n)
<1>1. \A n \in 1 .. Len(tokens) : tokens'[n] = tokens[n] /\ tokens[n].parent \in 0 .. Len(tokens)
  BY DEF Data, Linked, Later
<1>2. Len(tokens) \in Nat
  BY Tables
<1>3. \A n \in 1 .. Len(tokens) : tokens[n].parent = 0 \/ tokens[n].parent \in 1 .. Len(tokens)
  BY <1>1, <1>2
<1> QED
  BY <1>1, <1>3 DEF First, RowOf

\* A new row with a new credential, which is the first of its row.
LEMMA RowInserted ==
  ASSUME Data, NEW kind \in Kinds, NEW grant \in Grants, NEW at \in Nat,
         NEW parent \in 0 .. Len(tokens), Insert(kind, grant, parent, at)
  PROVE  /\ Data' /\ Later
         /\ \A j \in 1 .. Len(rows) : rows'[j] = rows[j]
         /\ Fresh \in 1 .. Len(tokens') /\ Fresh \notin 1 .. Len(tokens)
         /\ Len(tokens') = Len(tokens) + 1 /\ tokens'[Fresh].parent = parent
         /\ LET i == Len(rows) + 1 IN
              /\ tokens'[Fresh].row = i /\ Len(rows') = i /\ i \notin 1 .. Len(rows)
              /\ rows'[i] = [kind |-> kind, grant |-> grant, token |-> Fresh, at |-> at,
                             refreshAt |-> at, consumed |-> FALSE, gone |-> FALSE]
<1> DEFINE x == [kind |-> kind, grant |-> grant, token |-> Fresh, at |-> at,
                 refreshAt |-> at, consumed |-> FALSE, gone |-> FALSE]
           y == [row |-> Len(rows) + 1, parent |-> parent, at |-> at]
           i == Len(rows) + 1
<1>1. rows \in Seq(Rows) /\ tokens \in Seq(Tokens) /\ Len(rows) \in Nat /\ Len(tokens) \in Nat
  BY Tables DEF Data
<1>2. x \in Rows /\ y \in Tokens /\ Fresh = Len(tokens) + 1
  BY <1>1 DEF Rows, Tokens, Fresh, Kinds
<1>3. /\ x.kind = kind /\ x.token = Fresh /\ x.at = at /\ x.refreshAt = at /\ x.gone = FALSE
      /\ y.row = i /\ y.parent = parent /\ y.at = at
  OBVIOUS
<1>4. rows' = Append(rows, x) /\ tokens' = Append(tokens, y)
  BY DEF Insert
<1> HIDE DEF x, y
<1>5. /\ rows' \in Seq(Rows) /\ Len(rows') = i /\ rows'[i] = x /\ i \in 1 .. Len(rows')
      /\ \A j \in 1 .. Len(rows) : j \in 1 .. Len(rows') /\ rows'[j] = rows[j]
  BY <1>1, <1>2, <1>4, ElementAppended
<1>6. /\ tokens' \in Seq(Tokens) /\ Len(tokens') = Fresh /\ tokens'[Fresh] = y
      /\ Fresh \in 1 .. Len(tokens')
      /\ \A n \in 1 .. Len(tokens) : n \in 1 .. Len(tokens') /\ tokens'[n] = tokens[n]
  BY <1>1, <1>2, <1>4, ElementAppended
<1>7. /\ \A j \in 1 .. Len(rows') : j \in 1 .. Len(rows) \/ j = i
      /\ \A n \in 1 .. Len(tokens') : n \in 1 .. Len(tokens) \/ n = Fresh
      /\ i \notin 1 .. Len(rows) /\ Fresh \notin 1 .. Len(tokens)
      /\ \A n \in 0 .. Len(tokens) : n \in 0 .. Len(tokens')
  BY <1>1, <1>2, <1>5, <1>6
<1>8. Later
  BY <1>5, <1>6 DEF Later
<1>9. \A n \in 1 .. Len(tokens) : RowOf(n) \in 1 .. Len(rows) /\ RowOf(n)' = RowOf(n)
  BY Tables, <1>8, FirstStays
<1>10. tokens'[Fresh].row = i /\ rows'[i].token = Fresh
  BY <1>3, <1>5, <1>6
<1> HIDE DEF i
<1>11. Linked'
  <2>1. \A n \in 1 .. Len(tokens') : /\ tokens'[n].row \in 1 .. Len(rows')
                                     /\ tokens'[n].parent \in 0 .. Len(tokens')
    BY <1>3, <1>5, <1>6, <1>7 DEF Data, Linked
  <2>2. \A j \in 1 .. Len(rows) : /\ rows'[j].token \in 1 .. Len(tokens)
                                  /\ tokens'[rows'[j].token].row = j
    BY <1>5, <1>6 DEF Data, Linked, RowOf
  <2>3. \A j \in 1 .. Len(rows') : /\ rows'[j].token \in 1 .. Len(tokens')
                                   /\ tokens'[rows'[j].token].row = j
    BY <2>2, <1>6, <1>7, <1>10
  <2> QED
    BY <2>1, <2>3 DEF Linked, RowOf
<1>12. Dated'
  <2>1. \A j \in 1 .. Len(rows') : rows'[j].at = tokens'[rows'[j].token].at
    <3>1. \A j \in 1 .. Len(rows) : rows'[j].at = tokens'[rows'[j].token].at
      BY <1>5, <1>6 DEF Data, Dated, Linked
    <3>2. rows'[i].at = tokens'[rows'[i].token].at
      BY <1>3, <1>5, <1>6
    <3> QED
      BY <3>1, <3>2, <1>7
  <2>2. \A n \in 1 .. Len(tokens) : First(n)' => tokens'[n].at = rows'[tokens'[n].row].refreshAt
    BY <1>5, <1>6, <1>8, <1>9, FirstStays DEF Data, Dated, RowOf
  <2>3. tokens'[Fresh].at = rows'[tokens'[Fresh].row].refreshAt
    BY <1>3, <1>5, <1>6
  <2> QED
    BY <2>1, <2>2, <2>3, <1>7 DEF Dated, RowOf
<1>13. Rotated'
  <2>1. \A j \in 1 .. Len(rows') : rows'[j].kind = "oauth" => ~rows'[j].gone
    BY <1>3, <1>5, <1>7 DEF Data, Rotated
  <2>2. \A n \in 1 .. Len(tokens') :
          rows'[tokens'[n].row].kind # "oauth" => rows'[tokens'[n].row].token = n
    <3>1. \A n \in 1 .. Len(tokens) :
            rows'[tokens'[n].row].kind # "oauth" => rows'[tokens'[n].row].token = n
      BY <1>5, <1>6, <1>9 DEF Data, Rotated, RowOf
    <3> QED
      BY <3>1, <1>7, <1>10
  <2> QED
    BY <2>1, <2>2 DEF Rotated, RowOf
<1> USE DEF x, i
<1> QED
  BY <1>2, <1>3, <1>5, <1>6, <1>7, <1>8, <1>11, <1>12, <1>13 DEF Data

\* The row of a session gets the next credential of that session.
LEMMA RowRotated ==
  ASSUME Data, NEW n \in 1 .. Len(tokens), NEW now \in Nat,
         rows[RowOf(n)].kind = "oauth",
         rows' = Replace(RowOf(n), Fresh, now),
         tokens' = Append(tokens, [row |-> RowOf(n), parent |-> n, at |-> now])
  PROVE  /\ Data' /\ Later
         /\ Len(rows') = Len(rows) /\ Len(tokens') = Len(tokens) + 1
         /\ Fresh \in 1 .. Len(tokens') /\ Fresh \notin 1 .. Len(tokens)
         /\ tokens'[Fresh].row = RowOf(n) /\ tokens'[Fresh].parent = n
         /\ \A j \in 1 .. Len(rows) : j # RowOf(n) => rows'[j] = rows[j]
         /\ rows'[RowOf(n)].token = Fresh /\ ~rows'[RowOf(n)].consumed
<1> DEFINE i == RowOf(n)
           x == [rows[i] EXCEPT !.token = Fresh, !.at = now, !.consumed = FALSE, !.gone = FALSE]
           y == [row |-> i, parent |-> n, at |-> now]
<1>1. /\ rows \in Seq(Rows) /\ tokens \in Seq(Tokens) /\ Len(rows) \in Nat /\ Len(tokens) \in Nat
      /\ i \in 1 .. Len(rows) /\ rows[i] \in Rows
  BY Tables DEF Data
<1>2. x \in Rows /\ y \in Tokens /\ Fresh = Len(tokens) + 1 /\ n # 0
  <2>1. Fresh = Len(tokens) + 1 /\ Fresh \in Nat /\ n \in Nat /\ n # 0 /\ i \in Nat
    BY <1>1 DEF Fresh
  <2>2. x \in Rows
    BY <1>1, <2>1 DEF Rows
  <2> QED
    BY <2>1, <2>2 DEF Tokens
<1>3. /\ x.kind = rows[i].kind /\ x.token = Fresh /\ x.at = now
      /\ x.refreshAt = rows[i].refreshAt /\ x.gone = FALSE /\ x.consumed = FALSE
      /\ y.row = i /\ y.parent = n /\ y.at = now
  BY <1>1 DEF Rows
<1>4. rows' = [rows EXCEPT ![i] = x] /\ tokens' = Append(tokens, y)
  BY <1>1, LenProperties DEF Replace
<1>5. ~rows[i].gone
  BY <1>1 DEF Data, Rotated
<1> HIDE DEF x, y
<1>6. /\ rows' \in Seq(Rows) /\ Len(rows') = Len(rows)
      /\ \A j \in 1 .. Len(rows) : rows'[j] = IF j = i THEN x ELSE rows[j]
  <2> HIDE DEF i
  <2>1. rows \in Seq(Rows) /\ i \in 1 .. Len(rows) /\ x \in Rows
    BY <1>1, <1>2
  <2> QED
    BY <2>1, <1>4, ElementReplaced
<1>7. /\ tokens' \in Seq(Tokens) /\ Len(tokens') = Fresh /\ tokens'[Fresh] = y
      /\ Fresh \in 1 .. Len(tokens')
      /\ \A m \in 1 .. Len(tokens) : m \in 1 .. Len(tokens') /\ tokens'[m] = tokens[m]
  BY <1>1, <1>2, <1>4, ElementAppended
<1>8. /\ \A m \in 1 .. Len(tokens') : m \in 1 .. Len(tokens) \/ m = Fresh
      /\ Fresh \notin 1 .. Len(tokens)
      /\ \A m \in 0 .. Len(tokens) : m \in 0 .. Len(tokens')
      /\ n \in 0 .. Len(tokens)
  BY <1>1, <1>2, <1>7
<1>9. \A j \in 1 .. Len(rows) : /\ rows'[j].kind = rows[j].kind
                                /\ rows'[j].refreshAt = rows[j].refreshAt
                                /\ rows[j].gone => rows'[j].gone
                                /\ rows'[j].token = IF j = i THEN Fresh ELSE rows[j].token
                                /\ rows'[j].at = IF j = i THEN now ELSE rows[j].at
  BY <1>3, <1>5, <1>6
<1>10. Later
  BY <1>6, <1>7, <1>8, <1>9 DEF Later
<1>11. \A m \in 1 .. Len(tokens) : RowOf(m) \in 1 .. Len(rows) /\ tokens'[m].row = RowOf(m)
  BY Tables, <1>7 DEF RowOf
<1>12. Linked'
  <2>1. \A m \in 1 .. Len(tokens') : /\ tokens'[m].row \in 1 .. Len(rows')
                                     /\ tokens'[m].parent \in 0 .. Len(tokens')
    BY <1>1, <1>3, <1>6, <1>7, <1>8 DEF Data, Linked
  <2>2. \A j \in 1 .. Len(rows') : /\ rows'[j].token \in 1 .. Len(tokens')
                                   /\ tokens'[rows'[j].token].row = j
    BY <1>3, <1>6, <1>7, <1>9 DEF Data, Linked, RowOf
  <2> QED
    BY <2>1, <2>2 DEF Linked, RowOf
<1>13. Dated'
  <2>1. \A j \in 1 .. Len(rows') : rows'[j].at = tokens'[rows'[j].token].at
    BY <1>3, <1>6, <1>7, <1>9 DEF Data, Dated, Linked
  <2>2. \A m \in 1 .. Len(tokens) : First(m)' => tokens'[m].at = rows'[tokens'[m].row].refreshAt
    BY <1>7, <1>9, <1>10, <1>11, FirstStays DEF Data, Dated, RowOf
  <2>3. tokens'[Fresh].parent # 0 /\ tokens'[tokens'[Fresh].parent].row = tokens'[Fresh].row
    BY <1>2, <1>3, <1>7, <1>11
  <2>4. \A m \in 1 .. Len(tokens') : First(m)' => m \in 1 .. Len(tokens)
    BY <2>3, <1>8 DEF First, RowOf
  <2> QED
    BY <2>1, <2>2, <2>4 DEF Dated, RowOf, First
<1>14. Rotated'
  <2>1. \A j \in 1 .. Len(rows') : rows'[j].kind = "oauth" => ~rows'[j].gone
    BY <1>3, <1>6 DEF Data, Rotated
  <2>2. \A m \in 1 .. Len(tokens') :
          rows'[tokens'[m].row].kind # "oauth" => rows'[tokens'[m].row].token = m
    <3>1. \A m \in 1 .. Len(tokens) :
            rows'[tokens'[m].row].kind # "oauth" => rows'[tokens'[m].row].token = m
      BY <1>9, <1>11, <1>1 DEF Data, Rotated
    <3> QED
      BY <3>1, <1>1, <1>3, <1>7, <1>8, <1>9
  <2> QED
    BY <2>1, <2>2 DEF Rotated, RowOf
<1> QED
  BY <1>1, <1>2, <1>3, <1>6, <1>7, <1>8, <1>10, <1>12, <1>13, <1>14 DEF Data
-----------------------------------------------------------------------------
(* What the others know *)

\* Row i is still as a request left it that took its credential.
Kept(i) == rows'[i].token = rows[i].token /\ (rows[i].consumed => rows'[i].consumed)

LEMMA OthersStillKnow ==
  ASSUME Data, Later, NEW q \in Requests, Knows(q), req'[q] = req[q],
         req[q].pc \in Taken => Kept(RowOf(req[q].token))
  PROVE  Knows(q)'
<1>1. \A n \in 1 .. Len(tokens) : /\ RowOf(n) \in 1 .. Len(rows) /\ RowOf(n)' = RowOf(n)
                                  /\ n \in 1 .. Len(tokens')
  BY Tables, FirstStays DEF Later
<1>2. Taken \subseteq Spending /\ Spending \subseteq Carrying /\ "stamped" \in Spending
  BY DEF Taken, Spending, Carrying
<1>3. req[q].pc \in Carrying => req[q].token \in 1 .. Len(tokens)
  BY DEF Knows
<1>4. req[q].pc \in Carrying =>
        /\ tokens'[req[q].token].row = RowOf(req[q].token)
        /\ RowOf(req[q].token) \in 1 .. Len(rows)
        /\ rows'[RowOf(req[q].token)].kind = rows[RowOf(req[q].token)].kind
        /\ rows[RowOf(req[q].token)].gone => rows'[RowOf(req[q].token)].gone
  BY <1>1, <1>3 DEF Later, RowOf
<1>5. req[q].pc = "retire" =>
        LET o == req[q].old IN
        o \in 1 .. Len(tokens') /\ rows'[tokens'[o].row].token # o
  BY <1>1 DEF Knows, Later, RowOf
<1>6. req[q].pc \in Taken => /\ rows'[tokens'[req[q].token].row].token = req[q].token
                             /\ rows'[tokens'[req[q].token].row].consumed
  BY <1>2, <1>4 DEF Kept, Knows
<1>7. req[q].pc \in Spending => rows'[tokens'[req[q].token].row].kind \in {"code", "oauth"}
  BY <1>2, <1>4 DEF Knows
<1>8. req[q].pc = "stamped" /\ rows'[tokens'[req[q].token].row].kind = "code" =>
        rows'[tokens'[req[q].token].row].gone
  BY <1>2, <1>4 DEF Knows
<1>9. req[q].pc \in Carrying => req[q].token \in 1 .. Len(tokens')
  BY <1>1, <1>3
<1>10. req[q].pc \in Spending \cup {"authorize", "mint"} => req[q].grant \in Grants
  BY DEF Knows
<1> QED
  BY <1>5, <1>6, <1>7, <1>8, <1>9, <1>10 DEF Knows, RowOf, Carrying, Spending, Taken

\* The age of a credential and the refresh time of its row never change.
LEMMA YoungStays ==
  ASSUME Data, Later
  PROVE  \A n \in 1 .. Len(tokens), t \in Nat : Young(n, t) => Young(n, t)'
<1>1. \A n \in 1 .. Len(tokens) : /\ tokens'[n] = tokens[n]
                                  /\ tokens'[n].row = RowOf(n) /\ RowOf(n) \in 1 .. Len(rows)
                                  /\ rows'[RowOf(n)].kind = rows[RowOf(n)].kind
                                  /\ rows'[RowOf(n)].refreshAt = rows[RowOf(n)].refreshAt
  BY Tables DEF Later, RowOf
<1> QED
  BY <1>1 DEF Young, Expired, RowOf

LEMMA UsedStays ==
  ASSUME Data, TypeOK, Used, Later, UNCHANGED <<use, honoured>>
  PROVE  Used'
<1>1. \A n \in 1 .. Len(tokens) : n \in 1 .. Len(tokens')
  BY DEF Later
<1>2. \A u \in Uses : use[u] \in UseRecords
  BY DEF TypeOK
<1>3. \A h \in honoured : h.token \in 1 .. Len(tokens) /\ h.at \in Nat
  BY DEF TypeOK
<1>4. \A h \in honoured : Young(h.token, h.at)'
  BY <1>3, YoungStays DEF Used
<1>5. \A u \in Uses : use[u].pc = "loaded" => Young(use[u].token, use[u].at)'
  <2> SUFFICES ASSUME NEW u \in Uses, use[u].pc = "loaded"
               PROVE  Young(use[u].token, use[u].at)'
    OBVIOUS
  <2>1. use[u].token \in 1 .. Len(tokens) /\ use[u].at \in Nat /\ use'[u] = use[u]
    BY <1>2 DEF UseRecords, Used
  <2>2. Young(use[u].token, use[u].at)
    BY DEF Used
  <2> QED
    BY <2>1, <2>2, YoungStays DEF Young, RowOf
<1> QED
  BY <1>1, <1>4, <1>5 DEF Used

\* One request moves; the others hold what they held.
LEMMA OneMoves ==
  ASSUME OInv, Data', Later, TypeOK',
         NEW r \in Requests, Knows(r)',
         \A q \in Requests \ {r} : /\ req'[q] = req[q]
                                   /\ req[q].pc \in Taken => Kept(RowOf(req[q].token)),
         \A q \in Requests \ {r} :
           ~(req'[r].pc \in Taken /\ req[q].pc \in Taken /\ req'[r].token = req[q].token),
         UNCHANGED <<use, honoured>>
  PROVE  OInv'
<1>1. \A q \in Requests : Knows(q)'
  BY OthersStillKnow DEF OInv
<1>2. Alone'
  BY DEF OInv, Alone
<1>3. Used'
  BY UsedStays DEF OInv
<1> QED
  BY <1>1, <1>2, <1>3 DEF OInv

\* A request moves without touching the tables.
LEMMA OneMovesQuietly ==
  ASSUME OInv, NEW r \in Requests, NEW x \in Reqs,
         req' = [req EXCEPT ![r] = x],
         Knows(r)',
         x.pc \in Taken => req[r].pc \in Taken /\ x.token = req[r].token,
         UNCHANGED <<clock, granted, rows, tokens, use, honoured>>,
         held' \in SUBSET (1 .. Len(tokens)),
         aborts' \in 0 .. MaxAborts
  PROVE  OInv'
<1>1. Data' /\ Later
  BY TablesRest DEF OInv
<1>2. TypeOK'
  BY DEF TypeOK, OInv
<1>3. \A q \in Requests \ {r} : /\ req'[q] = req[q]
                                /\ req[q].pc \in Taken => Kept(RowOf(req[q].token))
  BY DEF Kept, OInv, TypeOK
<1>4. req'[r] = x
  BY DEF OInv, TypeOK
<1>5. \A q \in Requests \ {r} :
        ~(req'[r].pc \in Taken /\ req[q].pc \in Taken /\ req'[r].token = req[q].token)
  BY <1>4 DEF OInv, Alone
<1> QED
  BY <1>1, <1>2, <1>3, <1>5, OneMoves

\* No request moves and no table changes.
LEMMA RequestsRest ==
  ASSUME OInv, TypeOK', Used', UNCHANGED <<rows, tokens, req>>
  PROVE  OInv'
<1>1. Data' /\ Later
  BY TablesRest DEF OInv
<1>2. \A q \in Requests : Knows(q)'
  BY DEF OInv, Knows, RowOf
<1> QED
  BY <1>1, <1>2 DEF OInv, Alone
-----------------------------------------------------------------------------
(* Each action keeps the invariant *)

LEMMA RowsOfRequests ==
  ASSUME OInv, NEW r \in Requests
  PROVE  /\ req[r] \in Reqs
         /\ req[r].pc \in Carrying =>
              /\ req[r].token \in 1 .. Len(tokens)
              /\ RowOf(req[r].token) \in 1 .. Len(rows)
              /\ rows[RowOf(req[r].token)] \in Rows
         /\ Len(rows) \in Nat /\ Len(tokens) \in Nat
  BY Tables DEF OInv, Knows, TypeOK

LEMMA TickStep == OInv /\ Tick => OInv'
<1> SUFFICES ASSUME OInv, Tick PROVE OInv'
  OBVIOUS
<1>1. clock' \in 0 .. MaxClock
  BY SessionConstants DEF OInv, TypeOK, Tick
<1>2. TypeOK'
  BY <1>1 DEF OInv, TypeOK, Tick
<1>3. Used'
  BY TablesRest, UsedStays DEF OInv, Tick
<1> QED
  BY <1>2, <1>3, RequestsRest DEF Tick

LEMMA ChangeGrantsStep == \A g \in Grants : OInv /\ ChangeGrants(g) => OInv'
<1> SUFFICES ASSUME NEW g \in Grants, OInv, ChangeGrants(g) PROVE OInv'
  OBVIOUS
<1>1. granted' \in SUBSET Grants
  BY DEF OInv, TypeOK, ChangeGrants
<1>2. TypeOK'
  BY <1>1 DEF OInv, TypeOK, ChangeGrants
<1>3. Used'
  BY TablesRest, UsedStays DEF OInv, ChangeGrants
<1> QED
  BY <1>2, <1>3, RequestsRest DEF ChangeGrants

LEMMA IdleIsTyped == Idle \in Reqs /\ UseIdle \in UseRecords
  BY DEF Idle, UseIdle, Reqs, ReqPCs, UseRecords

\* A request that gives up knows nothing.
LEMMA GivesUp ==
  ASSUME OInv, NEW r \in Requests, ReqDone(r),
         UNCHANGED <<clock, granted, rows, tokens, use, honoured>>,
         held' \in SUBSET (1 .. Len(tokens)), aborts' \in 0 .. MaxAborts
  PROVE  OInv'
<1>1. req' = [req EXCEPT ![r] = Idle] /\ req'[r] = Idle
  BY DEF ReqDone, OInv, TypeOK
<1>2. Knows(r)'
  BY <1>1 DEF Knows, Idle, Carrying, Spending, Taken
<1>3. Idle.pc \notin Taken
  BY DEF Idle, Taken
<1> QED
  BY <1>1, <1>2, <1>3, IdleIsTyped, OneMovesQuietly

\* A request that only moves on knows what it knew.
LEMMA GoesOn ==
  ASSUME OInv, NEW r \in Requests, NEW pc \in ReqPCs, ReqGoto(r, pc),
         UNCHANGED <<clock, granted, rows, tokens, held, use, honoured, aborts>>,
         \/ req[r].pc = "found" /\ pc = "valid"
         \/ req[r].pc = "taken" /\ pc = "checked"
         \/ req[r].pc = "retire" /\ pc = "reply"
  PROVE  OInv'
<1> DEFINE x == [req[r] EXCEPT !.pc = pc]
<1>1. req[r] \in Reqs
  BY RowsOfRequests
<1>2. /\ x \in Reqs /\ x.pc = pc /\ x.token = req[r].token
      /\ x.grant = req[r].grant /\ x.old = req[r].old
  BY <1>1 DEF Reqs
<1>3. req' = [req EXCEPT ![r] = x]
  BY <1>1 DEF ReqGoto, OInv, TypeOK
<1>4. req'[r] = x
  BY <1>3 DEF OInv, TypeOK
<1> HIDE DEF x
<1>5. Knows(r)'
  BY <1>2, <1>4 DEF OInv, Knows, RowOf, Carrying, Spending, Taken
<1>6. x.pc \in Taken => req[r].pc \in Taken /\ x.token = req[r].token
  BY <1>2 DEF Taken
<1> QED
  BY <1>2, <1>3, <1>5, <1>6, OneMovesQuietly DEF OInv, TypeOK

LEMMA AdmitStep ==
  \A r \in Requests, g \in Grants, p \in Purposes \ {"device"} :
    OInv /\ Admit(r, g, p) => OInv'
<1> SUFFICES ASSUME NEW r \in Requests, NEW g \in Grants, NEW p \in Purposes \ {"device"},
                    OInv, Admit(r, g, p)
             PROVE  OInv'
  OBVIOUS
<1> DEFINE x == [Idle EXCEPT !.pc = p, !.grant = g, !.now = clock]
<1>1. p \in {"authorize", "mint"} /\ clock \in Nat
  BY SessionConstants DEF OInv, TypeOK
<1>2. x \in Reqs /\ x.pc = p /\ x.grant = g
  BY <1>1 DEF Idle, Reqs, ReqPCs
<1>3. req' = [req EXCEPT ![r] = x] /\ req'[r] = x
  BY DEF Admit, OInv, TypeOK
<1> HIDE DEF x
<1>4. Knows(r)'
  BY <1>1, <1>2, <1>3 DEF Knows, Carrying, Spending, Taken
<1>5. x.pc \notin Taken
  BY <1>1, <1>2 DEF Taken
<1> QED
  BY <1>2, <1>3, <1>4, <1>5, OneMovesQuietly DEF Admit, OInv, TypeOK

LEMMA LookupStep ==
  \A r \in Requests : \A n \in held : OInv /\ Lookup(r, n) => OInv'
<1> SUFFICES ASSUME NEW r \in Requests, NEW n \in held, OInv, Lookup(r, n)
             PROVE  OInv'
  OBVIOUS
<1> DEFINE x == [Idle EXCEPT !.pc = "found", !.token = n, !.grant = rows[RowOf(n)].grant]
<1>1. n \in 1 .. Len(tokens)
  BY DEF OInv, TypeOK
<1>2. n \in Nat /\ rows[RowOf(n)] \in Rows /\ rows[RowOf(n)].kind \in {"code", "oauth"}
  BY <1>1, Tables DEF OInv, Lookup
<1>3. x \in Reqs /\ x.pc = "found" /\ x.grant \in Grants /\ x.token = n
  BY <1>2 DEF Idle, Reqs, ReqPCs, Rows
<1>4. req' = [req EXCEPT ![r] = x] /\ req'[r] = x
  BY DEF Lookup, OInv, TypeOK
<1> HIDE DEF x
<1>5. Knows(r)'
  BY <1>1, <1>2, <1>3, <1>4 DEF Knows, Carrying, Spending, Taken, Lookup, RowOf
<1>6. x.pc \notin Taken
  BY <1>3 DEF Taken
<1> QED
  BY <1>3, <1>4, <1>5, <1>6, OneMovesQuietly DEF Lookup, OInv, TypeOK

LEMMA ValidateStep == \A r \in Requests : OInv /\ Validate(r) => OInv'
<1> SUFFICES ASSUME NEW r \in Requests, OInv, Validate(r) PROVE OInv'
  OBVIOUS
<1>1. CASE ReqGoto(r, "valid")
  BY <1>1, GoesOn DEF Validate, ReqPCs
<1>2. CASE ReqDone(r)
  BY <1>2, GivesUp DEF Validate, OInv, TypeOK
<1> QED
  BY <1>1, <1>2 DEF Validate

LEMMA CheckStep == \A r \in Requests : OInv /\ Check(r) => OInv'
<1> SUFFICES ASSUME NEW r \in Requests, OInv, Check(r) PROVE OInv'
  OBVIOUS
<1>1. CASE ReqGoto(r, "checked")
  BY <1>1, GoesOn DEF Check, ReqPCs
<1>2. CASE ReqDone(r)
  BY <1>2, GivesUp DEF Check, OInv, TypeOK
<1> QED
  BY <1>1, <1>2 DEF Check

LEMMA AbortStep == \A r \in Requests : OInv /\ Abort(r) => OInv'
<1> SUFFICES ASSUME NEW r \in Requests, OInv, Abort(r) PROVE OInv'
  OBVIOUS
<1>1. aborts' \in 0 .. MaxAborts
  BY SessionConstants DEF Abort, OInv, TypeOK
<1> QED
  BY <1>1, GivesUp DEF Abort, OInv, TypeOK

LEMMA ReplyStep == \A r \in Requests : OInv /\ Reply(r) => OInv'
<1> SUFFICES ASSUME NEW r \in Requests, OInv, Reply(r) PROVE OInv'
  OBVIOUS
<1>1. req[r].token \in 1 .. Len(tokens)
  BY DEF OInv, Knows, Carrying, Reply
<1>2. held' \in SUBSET (1 .. Len(tokens))
  BY <1>1 DEF Reply, OInv, TypeOK
<1> QED
  BY <1>2, GivesUp DEF Reply, OInv, TypeOK

\* No row still holds what a rotation has replaced, so nothing is removed.
LEMMA NothingToRetire ==
  ASSUME OInv, NEW r \in Requests, Retire(r)
  PROVE  UNCHANGED rows
<1> DEFINE o == req[r].old
<1>1. o \in 1 .. Len(tokens) /\ rows[RowOf(o)].token # o
  BY DEF OInv, Knows, Retire
<1>2. \A i \in 1 .. Len(rows) : rows[i].token # o
  BY <1>1 DEF OInv, Data, Linked
<1>3. rows \in Seq(Rows) /\ DOMAIN rows = 1 .. Len(rows)
  BY LenProperties DEF OInv, Data
<1>4. Retired(o) = [i \in 1 .. Len(rows) |-> rows[i]]
  BY <1>2 DEF Retired
<1>5. rows = [i \in DOMAIN rows |-> rows[i]]
  BY <1>3, LenProperties
<1> QED
  BY <1>3, <1>4, <1>5 DEF Retire

LEMMA RetireStep == \A r \in Requests : OInv /\ Retire(r) => OInv'
<1> SUFFICES ASSUME NEW r \in Requests, OInv, Retire(r) PROVE OInv'
  OBVIOUS
<1> QED
  BY NothingToRetire, GoesOn DEF Retire, ReqPCs

LEMMA ConsumeStep == \A r \in Requests : OInv /\ Consume(r) => OInv' /\ Later
<1> SUFFICES ASSUME NEW r \in Requests, OInv, Consume(r) PROVE OInv' /\ Later
  OBVIOUS
<1> DEFINE n == req[r].token
           i == RowOf(n)
           x == [rows[i] EXCEPT !.consumed = TRUE]
           y == [req[r] EXCEPT !.pc = "taken"]
<1>1. CASE ~Takeable(n) /\ UNCHANGED rows /\ ReqDone(r)
  BY <1>1, GivesUp, TablesRest DEF Consume, OInv, TypeOK
<1>2. CASE Takeable(n) /\ rows' = [rows EXCEPT ![i].consumed = TRUE] /\ ReqGoto(r, "taken")
  <2>1. /\ n \in 1 .. Len(tokens) /\ i \in 1 .. Len(rows) /\ rows[i] \in Rows /\ req[r] \in Reqs
        /\ req[r].pc = "valid" /\ Data
    BY RowsOfRequests DEF Consume, Carrying, OInv
  <2>2. rows[i].token = n /\ ~rows[i].consumed
    BY <1>2 DEF Takeable, Holds
  <2>3. /\ x \in Rows /\ x.consumed = TRUE /\ x.kind = rows[i].kind /\ x.token = rows[i].token
        /\ x.at = rows[i].at /\ x.refreshAt = rows[i].refreshAt /\ x.gone = rows[i].gone
    BY <2>1 DEF Rows
  <2>4. rows' = [rows EXCEPT ![i] = x]
    BY <1>2
  <2>5. /\ y \in Reqs /\ y.pc = "taken" /\ y.token = n
        /\ y.grant = req[r].grant /\ y.old = req[r].old
    BY <2>1 DEF Reqs, ReqPCs
  <2>6. req' = [req EXCEPT ![r] = y]
    BY <1>2 DEF ReqGoto
  <2>7. req'[r] = y
    BY <2>6 DEF OInv, TypeOK
  <2> HIDE DEF x, y
  <2>8. /\ Data' /\ Later
        /\ \A j \in 1 .. Len(rows) : rows'[j] = IF j = i THEN x ELSE rows[j]
    <3> HIDE DEF i
    <3> QED
      BY <2>1, <2>3, <2>4, RowMarked DEF Consume
  <2>9. tokens' = tokens
    BY DEF Consume
  <2>10. TypeOK'
    BY <2>5, <2>6, <2>8, <2>9 DEF OInv, TypeOK, Consume, Data
  <2>11. Knows(r)'
    BY <2>1, <2>2, <2>3, <2>5, <2>7, <2>8, <2>9 DEF OInv, Knows, RowOf, Carrying, Spending, Taken
  <2>12. \A q \in Requests \ {r} : /\ req'[q] = req[q]
                                   /\ req[q].pc \in Taken => Kept(RowOf(req[q].token))
    <3>1. \A q \in Requests \ {r} : req'[q] = req[q]
      BY <2>6 DEF OInv, TypeOK
    <3>2. \A j \in 1 .. Len(rows) : Kept(j)
      BY <2>3, <2>8 DEF Kept
    <3> QED
      BY <3>1, <3>2, RowsOfRequests DEF Taken, Carrying
  <2>13. \A q \in Requests \ {r} :
           ~(req'[r].pc \in Taken /\ req[q].pc \in Taken /\ req'[r].token = req[q].token)
    BY <2>2, <2>5, <2>7 DEF OInv, Knows
  <2> QED
    BY <2>8, <2>10, <2>11, <2>12, <2>13, OneMoves DEF Consume
<1> QED
  BY <1>1, <1>2 DEF Consume

\* Deleting a row that is not of an OAuth session
LEMMA RowDeleted ==
  ASSUME OInv, NEW i \in 1 .. Len(rows), rows[i].kind # "oauth", Delete(i), tokens' = tokens
  PROVE  /\ Data' /\ Later
         /\ rows'[i].gone /\ Len(rows') = Len(rows)
         /\ \A j \in 1 .. Len(rows) : /\ Kept(j)
                                      /\ rows'[j].kind = rows[j].kind
                                      /\ rows'[j].consumed = rows[j].consumed
                                      /\ j # i => rows'[j] = rows[j]
<1> DEFINE x == [rows[i] EXCEPT !.gone = TRUE]
<1>1. rows[i] \in Rows
  BY Tables DEF OInv
<1>2. /\ x \in Rows /\ x.consumed = rows[i].consumed /\ x.kind = rows[i].kind
      /\ x.token = rows[i].token /\ x.at = rows[i].at
      /\ x.refreshAt = rows[i].refreshAt /\ x.gone = TRUE
  BY <1>1 DEF Rows
<1>3. rows' = [rows EXCEPT ![i] = x]
  BY DEF Delete
<1> HIDE DEF x
<1>4. /\ Data' /\ Later
      /\ \A j \in 1 .. Len(rows) : rows'[j] = IF j = i THEN x ELSE rows[j]
  BY <1>2, <1>3, RowMarked DEF OInv
<1>5. Len(rows') = Len(rows)
  BY <1>2, <1>3, ElementReplaced DEF OInv, Data
<1> QED
  BY <1>2, <1>4, <1>5 DEF Kept

LEMMA RevokeStep == \A i \in 1 .. Len(rows) : OInv /\ Revoke(i) => OInv' /\ Later
<1> SUFFICES ASSUME NEW i \in 1 .. Len(rows), OInv, Revoke(i) PROVE OInv' /\ Later
  OBVIOUS
<1>1. /\ Data' /\ Later
      /\ \A j \in 1 .. Len(rows) : Kept(j)
  BY RowDeleted DEF Revoke
<1>2. TypeOK'
  BY <1>1 DEF OInv, TypeOK, Revoke, Data
<1>3. \A q \in Requests : Knows(q)'
  BY <1>1, RowsOfRequests, OthersStillKnow DEF OInv, Revoke, Taken, Carrying
<1>4. Used'
  BY <1>1, UsedStays DEF OInv, Revoke
<1> QED
  BY <1>1, <1>2, <1>3, <1>4 DEF OInv, Alone, Revoke

LEMMA StampStep == \A r \in Requests : OInv /\ Stamp(r) => OInv' /\ Later
<1> SUFFICES ASSUME NEW r \in Requests, OInv, Stamp(r) PROVE OInv' /\ Later
  OBVIOUS
<1> DEFINE n == req[r].token
           i == RowOf(n)
           y == [req[r] EXCEPT !.pc = "stamped", !.now = clock]
<1>1. /\ n \in 1 .. Len(tokens) /\ i \in 1 .. Len(rows) /\ rows[i] \in Rows /\ req[r] \in Reqs
      /\ req[r].pc = "checked" /\ Data /\ clock \in Nat /\ tokens' = tokens
  BY RowsOfRequests DEF Stamp, Carrying, OInv, TypeOK
<1>2. /\ Data' /\ Later
      /\ \A j \in 1 .. Len(rows) : /\ Kept(j)
                                   /\ rows'[j].kind = rows[j].kind
                                   /\ rows'[j].consumed = rows[j].consumed
      /\ rows[i].kind = "code" => rows'[i].gone
  <2> HIDE DEF i
  <2>1. CASE rows[i].kind = "code"
    <3>1. Delete(i) /\ rows[i].kind # "oauth"
      BY <2>1 DEF Stamp, i
    <3> QED
      BY <1>1, <3>1, RowDeleted DEF Stamp
  <2>2. CASE rows[i].kind # "code"
    <3>1. UNCHANGED rows
      BY <2>2 DEF Stamp, i
    <3>2. \A j \in 1 .. Len(rows) : rows'[j] = rows[j]
      BY <3>1
    <3> QED
      BY <1>1, <2>2, <3>1, <3>2, TablesRest DEF Stamp, Kept
  <2> QED
    BY <2>1, <2>2
<1>3. \A q \in Requests : req[q].pc \in Taken => Kept(RowOf(req[q].token))
  BY <1>2, RowsOfRequests DEF Taken, Carrying
<1>4. CASE req' = [req EXCEPT ![r].pc = "stamped", ![r].now = clock]
  <2>1. /\ y \in Reqs /\ y.pc = "stamped" /\ y.token = n
        /\ y.grant = req[r].grant
    BY <1>1 DEF Reqs, ReqPCs
  <2>2. req' = [req EXCEPT ![r] = y]
    BY <1>4, <1>1 DEF OInv, TypeOK
  <2>3. req'[r] = y
    BY <2>2 DEF OInv, TypeOK
  <2> HIDE DEF y
  <2>4. TypeOK'
    BY <1>2, <2>1, <2>2 DEF OInv, TypeOK, Stamp, Data
  <2>5. Knows(r)'
    <3>1. /\ rows[i].token = n /\ rows[i].consumed /\ rows[i].kind \in {"code", "oauth"}
          /\ req[r].grant \in Grants
      BY <1>1 DEF OInv, Knows, Taken, Spending
    <3>2. /\ rows'[i].token = n /\ rows'[i].consumed /\ rows'[i].kind \in {"code", "oauth"}
          /\ rows'[i].kind = "code" => rows'[i].gone
      BY <1>1, <1>2, <3>1 DEF Kept
    <3>3. tokens'[n].row = i
      BY <1>1 DEF RowOf
    <3> QED
      BY <1>1, <2>1, <2>3, <3>1, <3>2, <3>3 DEF Knows, RowOf, Carrying, Spending, Taken
  <2>6. \A q \in Requests \ {r} : req'[q] = req[q]
    BY <2>2 DEF OInv, TypeOK
  <2>7. \A q \in Requests \ {r} :
          ~(req'[r].pc \in Taken /\ req[q].pc \in Taken /\ req'[r].token = req[q].token)
    BY <1>1, <2>1, <2>3 DEF OInv, Alone, Taken
  <2> QED
    BY <1>2, <1>3, <2>4, <2>5, <2>6, <2>7, OneMoves DEF Stamp
<1>5. CASE ReqDone(r)
  <2>1. req' = [req EXCEPT ![r] = Idle] /\ req'[r] = Idle
    BY <1>5 DEF ReqDone, OInv, TypeOK
  <2>2. TypeOK'
    BY <1>2, <2>1, IdleIsTyped DEF OInv, TypeOK, Stamp, Data
  <2>3. Knows(r)' /\ req'[r].pc \notin Taken
    BY <2>1 DEF Knows, Idle, Carrying, Spending, Taken
  <2>4. \A q \in Requests \ {r} : req'[q] = req[q]
    BY <2>1 DEF OInv, TypeOK
  <2> QED
    BY <1>2, <1>3, <2>2, <2>3, <2>4, OneMoves DEF Stamp
<1> QED
  BY <1>4, <1>5 DEF Stamp

\* A request that has stored a new credential has only to reply with it.
LEMMA Issued ==
  ASSUME OInv, NEW r \in Requests, NEW y \in Reqs,
         req' = [req EXCEPT ![r] = y], y.pc = "reply", y.token \in 1 .. Len(tokens'),
         Data', Later, \A j \in 1 .. Len(rows) : rows'[j] = rows[j],
         UNCHANGED <<clock, granted, held, use, honoured, aborts>>
  PROVE  OInv'
<1>1. req'[r] = y /\ \A q \in Requests \ {r} : req'[q] = req[q]
  BY DEF OInv, TypeOK
<1>2. \A n \in 1 .. Len(tokens) : n \in 1 .. Len(tokens')
  BY DEF Later
<1>3. TypeOK'
  BY <1>2 DEF OInv, TypeOK, Data
<1>4. Knows(r)' /\ y.pc \notin Taken
  BY <1>1 DEF Knows, Carrying, Spending, Taken
<1>5. \A q \in Requests : req[q].pc \in Taken => Kept(RowOf(req[q].token))
  BY RowsOfRequests DEF Kept, Taken, Carrying
<1> QED
  BY <1>1, <1>3, <1>4, <1>5, OneMoves

LEMMA IssueStep == \A r \in Requests : OInv /\ Issue(r) => OInv' /\ Later
<1> SUFFICES ASSUME NEW r \in Requests, OInv, Issue(r) PROVE OInv' /\ Later
  OBVIOUS
<1> DEFINE y == [Idle EXCEPT !.pc = "reply", !.token = Fresh]
<1>1. req[r] \in Reqs /\ req[r].now \in Nat /\ clock \in Nat /\ Data
  BY RowsOfRequests DEF OInv, TypeOK, Reqs
<1>2. req[r].grant \in Grants /\ "code" \in Kinds /\ "operator" \in Kinds
  BY DEF Issue, OInv, Knows, Kinds
<1>3. PICK at \in req[r].now .. clock, kind \in {"code", "operator"} :
        Insert(kind, req[r].grant, 0, at)
  BY DEF Issue
<1>4. at \in Nat /\ kind \in Kinds /\ 0 \in 0 .. Len(tokens)
  BY <1>1, <1>2, RowsOfRequests
<1>5. /\ Data' /\ Later /\ Fresh \in 1 .. Len(tokens')
      /\ \A j \in 1 .. Len(rows) : rows'[j] = rows[j]
  BY <1>1, <1>2, <1>3, <1>4, RowInserted
<1>6. y \in Reqs /\ y.pc = "reply" /\ y.token = Fresh
  <2>1. Fresh \in Nat
    BY RowsOfRequests DEF Fresh
  <2> QED
    BY <2>1 DEF Idle, Reqs, ReqPCs
<1>7. req' = [req EXCEPT ![r] = y]
  BY DEF Issue
<1> HIDE DEF y
<1> QED
  BY <1>5, <1>6, <1>7, Issued DEF Issue

LEMMA IssueToDeviceStep ==
  \A r \in Requests, g \in Grants : OInv /\ IssueToDevice(r, g) => OInv' /\ Later
<1> SUFFICES ASSUME NEW r \in Requests, NEW g \in Grants, OInv, IssueToDevice(r, g)
             PROVE  OInv' /\ Later
  OBVIOUS
<1> DEFINE y == [Idle EXCEPT !.pc = "reply", !.token = Fresh]
<1>1. clock \in Nat /\ Data /\ "oauth" \in Kinds /\ Len(tokens) \in Nat
  BY RowsOfRequests DEF OInv, TypeOK, Kinds
<1>2. PICK at \in 0 .. clock : Insert("oauth", g, 0, at)
  BY DEF IssueToDevice
<1>3. at \in Nat /\ 0 \in 0 .. Len(tokens)
  BY <1>1
<1>4. /\ Data' /\ Later /\ Fresh \in 1 .. Len(tokens')
      /\ \A j \in 1 .. Len(rows) : rows'[j] = rows[j]
  BY <1>1, <1>2, <1>3, RowInserted
<1>5. y \in Reqs /\ y.pc = "reply" /\ y.token = Fresh
  <2>1. Fresh \in Nat
    BY <1>1 DEF Fresh
  <2> QED
    BY <2>1 DEF Idle, Reqs, ReqPCs
<1>6. req' = [req EXCEPT ![r] = y]
  BY DEF IssueToDevice
<1> HIDE DEF y
<1> QED
  BY <1>4, <1>5, <1>6, Issued DEF IssueToDevice

LEMMA CreateExchangedStep == \A r \in Requests : OInv /\ CreateExchanged(r) => OInv' /\ Later
<1> SUFFICES ASSUME NEW r \in Requests, OInv, CreateExchanged(r) PROVE OInv' /\ Later
  OBVIOUS
<1> DEFINE n == req[r].token
           y == [req[r] EXCEPT !.pc = "reply", !.token = Fresh]
<1>1. /\ n \in 1 .. Len(tokens) /\ req[r] \in Reqs /\ req[r].now \in Nat /\ req[r].grant \in Grants
      /\ Data /\ "oauth" \in Kinds /\ Len(tokens) \in Nat
  BY RowsOfRequests DEF OInv, Knows, Carrying, Spending, CreateExchanged, Kinds, Reqs
<1>2. n \in 0 .. Len(tokens)
  BY <1>1
<1>3. Insert("oauth", req[r].grant, n, req[r].now)
  BY DEF CreateExchanged
<1>4. /\ Data' /\ Later /\ Fresh \in 1 .. Len(tokens')
      /\ \A j \in 1 .. Len(rows) : rows'[j] = rows[j]
  BY <1>1, <1>2, <1>3, RowInserted
<1>5. y \in Reqs /\ y.pc = "reply" /\ y.token = Fresh
  <2>1. Fresh \in Nat
    BY <1>1 DEF Fresh
  <2> QED
    BY <1>1, <2>1 DEF Reqs, ReqPCs
<1>6. req' = [req EXCEPT ![r] = y]
  BY <1>1 DEF CreateExchanged, OInv, TypeOK
<1> HIDE DEF y
<1> QED
  BY <1>4, <1>5, <1>6, Issued DEF CreateExchanged

LEMMA CreateRotatedStep == \A r \in Requests : OInv /\ CreateRotated(r) => OInv' /\ Later
<1> SUFFICES ASSUME NEW r \in Requests, OInv, CreateRotated(r) PROVE OInv' /\ Later
  OBVIOUS
<1> DEFINE n == req[r].token
           i == RowOf(n)
           y == [req[r] EXCEPT !.pc = "retire", !.token = Fresh, !.old = n]
<1>1. /\ n \in 1 .. Len(tokens) /\ i \in 1 .. Len(rows) /\ req[r] \in Reqs
      /\ req[r].now \in Nat /\ Data /\ Len(tokens) \in Nat
      /\ req[r].pc = "stamped" /\ rows[i].kind = "oauth"
  BY RowsOfRequests DEF OInv, Carrying, CreateRotated, Reqs
<1>2. /\ rows' = Replace(RowOf(n), Fresh, req[r].now)
      /\ tokens' = Append(tokens, [row |-> RowOf(n), parent |-> n, at |-> req[r].now])
  BY DEF CreateRotated
<1>3. /\ Data' /\ Later
      /\ Len(rows') = Len(rows)
      /\ Fresh \in 1 .. Len(tokens') /\ Fresh \notin 1 .. Len(tokens)
      /\ \A j \in 1 .. Len(rows) : j # i => rows'[j] = rows[j]
      /\ rows'[i].token = Fresh
  BY <1>1, <1>2, RowRotated
<1>4. y \in Reqs /\ y.pc = "retire" /\ y.token = Fresh /\ y.old = n /\ y.grant = req[r].grant
  <2>1. Fresh \in Nat /\ n \in Nat
    BY <1>1 DEF Fresh
  <2> QED
    BY <1>1, <2>1 DEF Reqs, ReqPCs
<1>5. req' = [req EXCEPT ![r] = y]
  BY <1>1 DEF CreateRotated, OInv, TypeOK
<1>6. req'[r] = y /\ \A q \in Requests \ {r} : req'[q] = req[q]
  BY <1>5 DEF OInv, TypeOK
<1> HIDE DEF y
<1>7. \A m \in 1 .. Len(tokens) : m \in 1 .. Len(tokens') /\ tokens'[m] = tokens[m]
  BY <1>3 DEF Later
<1>8. TypeOK'
  <2>1. UNCHANGED <<clock, granted, held, use, honoured, aborts>>
    BY DEF CreateRotated
  <2> QED
    BY <1>3, <1>4, <1>5, <1>7, <2>1 DEF OInv, TypeOK, Data
<1>9. Knows(r)' /\ y.pc \notin Taken
  <2>1. tokens'[n].row = i /\ Fresh # n
    BY <1>1, <1>3, <1>7 DEF RowOf
  <2> QED
    BY <1>1, <1>3, <1>4, <1>6, <1>7, <2>1 DEF Knows, RowOf, Carrying, Spending, Taken
<1>10. ASSUME NEW q \in Requests \ {r}, req[q].pc \in Taken
       PROVE  Kept(RowOf(req[q].token))
  <2>1. rows[i].token = n
    BY <1>1 DEF OInv, Knows, Taken
  <2>2. rows[RowOf(req[q].token)].token = req[q].token /\ RowOf(req[q].token) \in 1 .. Len(rows)
    BY <1>10, RowsOfRequests DEF OInv, Knows, Taken, Carrying
  <2>3. req[q].token # n
    BY <1>1, <1>10 DEF OInv, Alone, Taken
  <2>4. RowOf(req[q].token) # i
    BY <2>1, <2>2, <2>3
  <2> QED
    BY <2>2, <2>4, <1>3 DEF Kept
<1> QED
  BY <1>3, <1>4, <1>6, <1>8, <1>9, <1>10, OneMoves DEF CreateRotated

\* A protected request moves, and what it let through is recorded.
LEMMA UseMoves ==
  ASSUME OInv, NEW u \in Uses, NEW x \in UseRecords, use' = [use EXCEPT ![u] = x],
         x.pc # "idle" => x.token \in 1 .. Len(tokens),
         x.pc = "loaded" => Young(x.token, x.at),
         honoured' \in SUBSET [token : 1 .. Len(tokens), at : Nat],
         \A h \in honoured' : Young(h.token, h.at),
         UNCHANGED <<clock, granted, rows, tokens, held, req, aborts>>
  PROVE  OInv'
<1>1. use'[u] = x /\ \A v \in Uses \ {u} : use'[v] = use[v]
  BY DEF OInv, TypeOK
<1>2. TypeOK'
  BY DEF OInv, TypeOK
<1>3. \A v \in Uses : use'[v].pc # "idle" => use'[v].token \in 1 .. Len(tokens)
  BY <1>1 DEF OInv, Used
<1>4. \A v \in Uses : use'[v].pc = "loaded" => Young(use'[v].token, use'[v].at)
  BY <1>1 DEF OInv, Used
<1>5. Used'
  BY <1>3, <1>4 DEF Used, Young, RowOf
<1> QED
  BY <1>2, <1>5, RequestsRest

LEMMA UseBeginStep == \A u \in Uses : \A n \in held : OInv /\ UseBegin(u, n) => OInv'
<1> SUFFICES ASSUME NEW u \in Uses, NEW n \in held, OInv, UseBegin(u, n) PROVE OInv'
  OBVIOUS
<1> DEFINE x == [pc |-> "timed", token |-> n, at |-> clock]
<1>1. n \in 1 .. Len(tokens) /\ n \in Nat /\ clock \in Nat
  BY Tables DEF OInv, TypeOK
<1>2. x \in UseRecords /\ x.pc = "timed" /\ x.token = n
  BY <1>1 DEF UseRecords
<1>3. use' = [use EXCEPT ![u] = x]
  BY DEF UseBegin
<1> HIDE DEF x
<1> QED
  BY <1>1, <1>2, <1>3, UseMoves DEF UseBegin, OInv, TypeOK, Used

\* What the library checks of a row that holds a credential is its age.
LEMMA FitIsYoung ==
  ASSUME Data, NEW n \in 1 .. Len(tokens), NEW t \in Nat, Holds(n), Fits(RowOf(n), t)
  PROVE  Young(n, t)
<1>1. RowOf(n) \in 1 .. Len(rows) /\ rows[RowOf(n)].at = tokens[n].at
  BY Tables DEF Data, Dated, Holds
<1> QED
  BY <1>1 DEF Fits, Young

LEMMA UseLoadStep == \A u \in Uses : OInv /\ UseLoad(u) => OInv'
<1> SUFFICES ASSUME NEW u \in Uses, OInv, UseLoad(u) PROVE OInv'
  OBVIOUS
<1> DEFINE n == use[u].token
           x == IF Holds(n) /\ Fits(RowOf(n), use[u].at)
                THEN [use[u] EXCEPT !.pc = "loaded"] ELSE UseIdle
<1>1. use[u] \in UseRecords /\ use[u].at \in Nat /\ n \in 1 .. Len(tokens)
  BY DEF OInv, TypeOK, Used, UseRecords, UseLoad
<1>2. use' = [use EXCEPT ![u] = x]
  BY DEF UseLoad
<1>3. /\ x \in UseRecords
      /\ x.pc # "idle" => x.token \in 1 .. Len(tokens)
      /\ x.pc = "loaded" => Young(x.token, x.at)
  <2>1. CASE Holds(n) /\ Fits(RowOf(n), use[u].at)
    <3>1. /\ x \in UseRecords /\ x.token = n /\ x.at = use[u].at
      BY <1>1, <2>1 DEF UseRecords
    <3>2. Young(n, use[u].at)
      BY <1>1, <2>1, FitIsYoung DEF OInv
    <3> QED
      BY <1>1, <3>1, <3>2
  <2>2. CASE ~(Holds(n) /\ Fits(RowOf(n), use[u].at))
    <3>1. x = UseIdle
      BY <2>2
    <3> QED
      BY <3>1, IdleIsTyped DEF UseIdle
  <2> QED
    BY <2>1, <2>2
<1> HIDE DEF x
<1> QED
  BY <1>2, <1>3, UseMoves DEF UseLoad, OInv, TypeOK, Used

LEMMA UseAllowedStep == \A u \in Uses : OInv /\ UseAllowed(u) => OInv'
<1> SUFFICES ASSUME NEW u \in Uses, OInv, UseAllowed(u) PROVE OInv'
  OBVIOUS
<1> DEFINE h == [token |-> use[u].token, at |-> use[u].at]
<1>1. /\ use[u] \in UseRecords /\ use[u].at \in Nat /\ use[u].token \in 1 .. Len(tokens)
      /\ Young(use[u].token, use[u].at)
  BY DEF OInv, TypeOK, Used, UseRecords, UseAllowed
<1>2. h \in [token : 1 .. Len(tokens), at : Nat] /\ Young(h.token, h.at)
  BY <1>1
<1>3. honoured' = honoured \/ honoured' = honoured \cup {h}
  BY DEF UseAllowed
<1> HIDE DEF h
<1>4. /\ honoured' \in SUBSET [token : 1 .. Len(tokens), at : Nat]
      /\ \A k \in honoured' : Young(k.token, k.at)
  BY <1>2, <1>3 DEF OInv, TypeOK, Used
<1>5. UseIdle.pc = "idle"
  BY DEF UseIdle
<1> QED
  BY <1>4, <1>5, IdleIsTyped, UseMoves DEF UseAllowed

\* The steps that leave the tables alone
LEMMA TablesUntouched ==
  ASSUME OInv, UNCHANGED <<rows, tokens>>
  PROVE  Later
  BY TablesRest DEF OInv

LEMMA EveryStepKeeps == OInv /\ [Next]_vars => OInv' /\ Later
<1> SUFFICES ASSUME OInv, [Next]_vars PROVE OInv' /\ Later
  OBVIOUS
<1>1. CASE UNCHANGED vars
  <2>1. TypeOK' /\ UNCHANGED <<rows, tokens, req, use, honoured>>
    BY <1>1 DEF vars, OInv, TypeOK
  <2>2. Used'
    BY <2>1, TablesRest, UsedStays DEF OInv
  <2> QED
    BY <2>1, <2>2, RequestsRest, TablesUntouched
<1>2. CASE Tick \/ \E g \in Grants : ChangeGrants(g)
  BY <1>2, TickStep, ChangeGrantsStep, TablesUntouched DEF Tick, ChangeGrants
<1>3. ASSUME NEW r \in Requests, NEW g \in Grants, NEW p \in Purposes \ {"device"},
             Admit(r, g, p)
      PROVE  OInv' /\ Later
  BY <1>3, AdmitStep, TablesUntouched DEF Admit
<1>4. ASSUME NEW r \in Requests, NEW n \in held, Lookup(r, n) PROVE OInv' /\ Later
  BY <1>4, LookupStep, TablesUntouched DEF Lookup
<1>5. ASSUME NEW r \in Requests, TokenStep(r) PROVE OInv' /\ Later
  <2>1. CASE Validate(r) \/ Check(r) \/ Reply(r)
    BY <2>1, ValidateStep, CheckStep, ReplyStep, TablesUntouched DEF Validate, Check, Reply
  <2>2. CASE Retire(r)
    BY <2>2, RetireStep, NothingToRetire, TablesUntouched DEF Retire
  <2> QED
    BY <1>5, <2>1, <2>2, IssueStep, ConsumeStep, StampStep, CreateExchangedStep,
       CreateRotatedStep DEF TokenStep
<1>6. ASSUME NEW r \in Requests, Abort(r) PROVE OInv' /\ Later
  BY <1>6, AbortStep, TablesUntouched DEF Abort
<1>7. ASSUME NEW u \in Uses, UseLoad(u) \/ UseAllowed(u) PROVE OInv' /\ Later
  BY <1>7, UseLoadStep, UseAllowedStep, TablesUntouched DEF UseLoad, UseAllowed
<1>8. ASSUME NEW u \in Uses, NEW n \in held, UseBegin(u, n) PROVE OInv' /\ Later
  BY <1>8, UseBeginStep, TablesUntouched DEF UseBegin
<1> QED
  BY <1>1, <1>2, <1>3, <1>4, <1>5, <1>6, <1>7, <1>8, IssueToDeviceStep, RevokeStep DEF Next

LEMMA InitiallySessions == Init => OInv
<1> SUFFICES ASSUME Init PROVE OInv
  OBVIOUS
<1>1. rows = << >> /\ tokens = << >> /\ Len(rows) = 0 /\ Len(tokens) = 0
  BY EmptySeq DEF Init
<1>2. 0 \in 0 .. MaxClock /\ 0 \in 0 .. MaxAborts
  BY SessionConstants
<1>3. rows \in Seq(Rows) /\ tokens \in Seq(Tokens)
  BY <1>1, EmptySeq
<1>4. req \in [Requests -> Reqs] /\ use \in [Uses -> UseRecords]
  BY IdleIsTyped DEF Init
<1>5. TypeOK
  BY <1>1, <1>2, <1>3, <1>4 DEF TypeOK, Init
<1>6. 1 .. Len(rows) = {} /\ 1 .. Len(tokens) = {}
  BY <1>1
<1>7. Data
  BY <1>3, <1>6 DEF Data, Linked, Dated, Rotated
<1>8. \A r \in Requests : Knows(r) /\ req[r].pc \notin Taken
  BY DEF Init, Idle, Knows, Carrying, Spending, Taken
<1>9. Used
  BY DEF Init, UseIdle, Used
<1> QED
  BY <1>5, <1>7, <1>8, <1>9 DEF OInv, Alone

LEMMA SessionsInductive == Spec => []OInv
  BY InitiallySessions, EveryStepKeeps, PTL DEF Spec

\* Every value of the model has its type.
THEOREM SessionsTyped == Spec => []TypeOK
<1>1. OInv => TypeOK
  BY DEF OInv
<1> QED
  BY <1>1, SessionsInductive, PTL

\* A rotation writes the row that it has taken, with the refresh time it had
\* (upsert of oauth_sessions), so that no access outlives the session.
THEOREM LifetimeHolds == Spec => []LifetimeIsAbsolute
<1>1. OInv => LifetimeIsAbsolute
  <2> SUFFICES ASSUME OInv, NEW h \in honoured
               PROVE  /\ ~Expired(tokens[h.token].at, AccessTTL, h.at)
                      /\ \A m \in 1 .. Len(tokens) :
                           First(m) /\ RowOf(m) = RowOf(h.token)
                           /\ rows[RowOf(m)].kind = "oauth" =>
                             ~Expired(tokens[m].at, RefreshTTL, h.at)
    BY DEF LifetimeIsAbsolute
  <2>1. Young(h.token, h.at)
    BY DEF OInv, Used
  <2>2. \A m \in 1 .. Len(tokens) : First(m) => tokens[m].at = rows[RowOf(m)].refreshAt
    BY DEF OInv, Data, Dated
  <2> QED
    BY <2>1, <2>2 DEF Young
<1> QED
  BY <1>1, SessionsInductive, PTL

\* Only rows that are no OAuth sessions are ever deleted, and the upsert of a
\* rotation writes only to an OAuth session.
THEOREM DeletedHolds == Spec => DeletedStaysDeleted
<1> DEFINE Stays == \A i \in 1 .. Len(rows) : rows[i].gone => rows'[i].gone
<1>1. OInv /\ [Next]_vars => [Stays]_vars
  BY EveryStepKeeps DEF Later
<1> QED
  BY <1>1, SessionsInductive, PTL DEF Spec, DeletedStaysDeleted
-----------------------------------------------------------------------------
(* The handlers implement the chain of credentials                           *)

TakenBy(n) == \E r \in Requests : req[r].pc \in Taken /\ req[r].token = n

\* Credential n can still be spent: by a request to come, or by the one that took it.
InPlay(n) == Takeable(n) \/ TakenBy(n)

Parents == [n \in 1 .. Len(tokens) |-> tokens[n].parent]
Live    == {n \in 1 .. Len(tokens) : InPlay(n)}

Promised == Chain!Next \/ UNCHANGED <<Parents, Live>>

LEMMA ParentsTyped ==
  ASSUME NEW t \in Seq(Tokens)
  PROVE  LET p == [n \in 1 .. Len(t) |-> t[n].parent] IN
         p \in Seq(Nat) /\ Len(p) = Len(t)
<1> DEFINE p == [n \in 1 .. Len(t) |-> t[n].parent]
<1>1. Len(t) \in Nat /\ \A n \in 1 .. Len(t) : t[n] \in Tokens
  BY LenProperties, ElementOfSeq
<1>2. p \in [1 .. Len(t) -> Nat]
  BY <1>1 DEF Tokens
<1> HIDE DEF p
<1>3. p \in Seq(Nat)
  BY <1>1, <1>2, SeqDef
<1>4. DOMAIN p = 1 .. Len(p) /\ Len(p) \in Nat
  BY <1>3, LenProperties
<1>5. 1 .. Len(p) = 1 .. Len(t)
  BY <1>2, <1>4
<1>6. Len(p) = Len(t)
  BY <1>1, <1>4, <1>5
<1> USE DEF p
<1> QED
  BY <1>3, <1>6

\* The history of predecessors grows with the credentials.
LEMMA ParentsAppended ==
  ASSUME Data, Data', Later, Len(tokens') = Len(tokens) + 1
  PROVE  Parents' = Append(Parents, tokens'[Fresh].parent)
<1> DEFINE p == tokens'[Fresh].parent
           s == Append(Parents, p)
<1>1. /\ Parents \in Seq(Nat) /\ Len(Parents) = Len(tokens)
      /\ Parents' \in Seq(Nat) /\ Len(Parents') = Len(tokens')
  BY ParentsTyped DEF Data, Parents
<1>2. Len(tokens) \in Nat /\ Fresh = Len(tokens) + 1 /\ Fresh \in 1 .. Len(tokens')
  <2>1. Len(tokens) \in Nat
    BY Tables
  <2> QED
    BY <2>1 DEF Fresh
<1>3. Fresh \in 1 .. Len(tokens') => tokens'[Fresh] \in Tokens
  <2>1. \A n \in 1 .. Len(tokens') : tokens'[n] \in Tokens
    BY ElementOfSeq DEF Data
  <2> QED
    BY <2>1
<1>4. p \in Nat
  BY <1>2, <1>3 DEF Tokens
<1> HIDE DEF p
<1>5. /\ s \in Seq(Nat) /\ Len(s) = Len(tokens')
      /\ \A n \in 1 .. Len(tokens) : s[n] = Parents[n]
      /\ s[Fresh] = p
  BY <1>1, <1>2, <1>4, ElementAppended
<1>6. \A n \in 1 .. Len(tokens) : Parents'[n] = Parents[n]
  BY DEF Later, Parents
<1>7. Parents'[Fresh] = p
  BY <1>2 DEF Parents, p
<1>8. \A n \in 1 .. Len(tokens') : n \in 1 .. Len(tokens) \/ n = Fresh
  BY <1>2
<1>9. \A n \in 1 .. Len(s) : s[n] = Parents'[n]
  BY <1>5, <1>6, <1>7, <1>8
<1> HIDE DEF s
<1>10. s = Parents'
  BY <1>1, <1>5, <1>9, SeqEqual
<1> QED
  BY <1>10 DEF s, p

\* A step that changes no predecessor and spends nothing
LEMMA Stutters ==
  ASSUME UNCHANGED tokens, \A m \in 1 .. Len(tokens) : InPlay(m)' <=> InPlay(m)
  PROVE  Promised
  BY DEF Promised, Parents, Live

LEMMA Drops ==
  ASSUME UNCHANGED tokens, NEW n \in 1 .. Len(tokens), InPlay(n),
         \A m \in 1 .. Len(tokens) : InPlay(m)' <=> InPlay(m) /\ m # n
  PROVE  Promised
<1>1. UNCHANGED Parents /\ n \in Live /\ Live' = Live \ {n}
  BY DEF Parents, Live
<1>2. Chain!Drop(n)
  BY <1>1 DEF Chain!Drop, Parents, Live, InPlay, Takeable, TakenBy
<1> QED
  BY <1>1, <1>2 DEF Promised, Chain!Next, Live, InPlay, Takeable, TakenBy

LEMMA Starts ==
  ASSUME Data, Data', Later, Len(tokens') = Len(tokens) + 1, tokens'[Fresh].parent = 0,
         \A m \in 1 .. Len(tokens') : InPlay(m)' <=> m = Fresh \/ InPlay(m),
         \A m \in 1 .. Len(tokens') : m \in 1 .. Len(tokens) \/ m = Fresh,
         Fresh \in 1 .. Len(tokens')
  PROVE  Promised
<1>1. Parents' = Append(Parents, 0) /\ Len(Parents) + 1 = Fresh
  BY ParentsAppended, ParentsTyped DEF Fresh, Parents, Data
<1>2. Live' = Live \cup {Fresh}
  BY DEF Live, Later
<1>3. Chain!Start
  BY <1>1, <1>2 DEF Chain!Start, Chain!Fresh, Parents, Live, InPlay, Takeable, TakenBy
<1> QED
  BY <1>3 DEF Promised, Chain!Next

LEMMA Spends ==
  ASSUME Data, Data', Later, Len(tokens') = Len(tokens) + 1,
         NEW n \in 1 .. Len(tokens), InPlay(n), tokens'[Fresh].parent = n,
         \A m \in 1 .. Len(tokens') : InPlay(m)' <=> m = Fresh \/ (InPlay(m) /\ m # n),
         \A m \in 1 .. Len(tokens') : m \in 1 .. Len(tokens) \/ m = Fresh,
         Fresh \in 1 .. Len(tokens')
  PROVE  Promised
<1>1. Parents' = Append(Parents, n) /\ Len(Parents) + 1 = Fresh
  BY ParentsAppended, ParentsTyped DEF Fresh, Parents, Data
<1>2. n \in Live /\ Live' = (Live \ {n}) \cup {Fresh}
  BY DEF Live, Later
<1>3. Chain!Spend(n)
  BY <1>1, <1>2 DEF Chain!Spend, Chain!Fresh, Parents, Live, InPlay, Takeable, TakenBy
<1> QED
  BY <1>2, <1>3 DEF Promised, Chain!Next, Live, InPlay, Takeable, TakenBy

\* What is taken cannot be taken again.
LEMMA TakenIsSpent ==
  ASSUME OInv, NEW q \in Requests, req[q].pc \in Taken
  PROVE  /\ req[q].token \in 1 .. Len(tokens) /\ RowOf(req[q].token) \in 1 .. Len(rows)
         /\ rows[RowOf(req[q].token)].token = req[q].token
         /\ rows[RowOf(req[q].token)].consumed
         /\ ~Takeable(req[q].token) /\ InPlay(req[q].token)
  BY RowsOfRequests DEF OInv, Knows, Taken, Carrying, Takeable, InPlay, TakenBy

\* Whether a credential can be taken depends on flags that this step may change
\* only where they no longer matter.
LEMMA TakeableStays ==
  ASSUME OInv, tokens' = tokens,
         \A j \in 1 .. Len(rows) : /\ rows'[j].token = rows[j].token
                                   /\ rows'[j].consumed = rows[j].consumed
                                   /\ rows[j].consumed \/ rows'[j].gone = rows[j].gone
  PROVE  \A m \in 1 .. Len(tokens) : Takeable(m)' <=> Takeable(m)
<1>1. \A m \in 1 .. Len(tokens) : RowOf(m) \in 1 .. Len(rows) /\ tokens'[m].row = RowOf(m)
  BY Tables DEF OInv, RowOf
<1> QED
  BY <1>1 DEF Takeable, Holds, RowOf

\* The requests that have taken something are the same as before.
TakersStay ==
  \A q \in Requests : req[q].pc \in Taken \/ req'[q].pc \in Taken =>
    req[q].pc \in Taken /\ req'[q].pc \in Taken /\ req'[q].token = req[q].token

LEMMA FlagsStutter ==
  ASSUME OInv, tokens' = tokens, TakersStay,
         \A j \in 1 .. Len(rows) : /\ rows'[j].token = rows[j].token
                                   /\ rows'[j].consumed = rows[j].consumed
                                   /\ rows[j].consumed \/ rows'[j].gone = rows[j].gone
  PROVE  Promised
<1>1. \A m : TakenBy(m)' <=> TakenBy(m)
  BY DEF TakersStay, TakenBy
<1> QED
  BY <1>1, TakeableStays, Stutters DEF InPlay

LEMMA QuietStutter ==
  ASSUME OInv, UNCHANGED <<rows, tokens>>, TakersStay
  PROVE  Promised
<1>1. \A j \in 1 .. Len(rows) : rows'[j] = rows[j]
  OBVIOUS
<1> QED
  BY <1>1, FlagsStutter

\* One request moves, and neither before nor after has it taken anything.
LEMMA TakersUntouched ==
  ASSUME OInv, NEW r \in Requests, NEW x, req' = [req EXCEPT ![r] = x],
         req[r].pc \notin Taken, x.pc \notin Taken
  PROVE  TakersStay
  BY DEF TakersStay, OInv, TypeOK

\* A request lets go of what it had taken.
LEMMA LetsGo ==
  ASSUME OInv, NEW r \in Requests, req[r].pc \in Taken, ReqDone(r), tokens' = tokens,
         \A j \in 1 .. Len(rows) : /\ rows'[j].token = rows[j].token
                                   /\ rows'[j].consumed = rows[j].consumed
                                   /\ rows[j].consumed \/ rows'[j].gone = rows[j].gone
  PROVE  Promised
<1> DEFINE n == req[r].token
<1>1. n \in 1 .. Len(tokens) /\ ~Takeable(n) /\ InPlay(n)
  BY TakenIsSpent
<1>2. /\ req'[r].pc \notin Taken
      /\ \A q \in Requests \ {r} : req'[q] = req[q]
  BY DEF ReqDone, OInv, TypeOK, Idle, Taken
<1>3. \A m : TakenBy(m)' <=> TakenBy(m) /\ m # n
  BY <1>2 DEF TakenBy, OInv, Alone
<1>4. \A m \in 1 .. Len(tokens) : Takeable(m)' <=> Takeable(m)
  BY TakeableStays
<1>5. \A m \in 1 .. Len(tokens) : InPlay(m)' <=> InPlay(m) /\ m # n
  BY <1>1, <1>3, <1>4 DEF InPlay
<1> HIDE DEF n
<1> QED
  BY <1>1, <1>5, Drops

LEMMA ConsumeMaps ==
  ASSUME OInv, NEW r \in Requests, Consume(r)
  PROVE  Promised
<1> DEFINE n == req[r].token
           i == RowOf(n)
<1>1. /\ n \in 1 .. Len(tokens) /\ i \in 1 .. Len(rows) /\ rows[i] \in Rows
      /\ req[r] \in Reqs /\ req[r].pc \notin Taken /\ tokens' = tokens
  BY RowsOfRequests DEF Consume, Carrying, Taken
<1>2. CASE ~Takeable(n) /\ UNCHANGED rows /\ ReqDone(r)
  BY <1>1, <1>2, TakersUntouched, QuietStutter DEF ReqDone, Idle, Taken
<1>3. CASE Takeable(n) /\ rows' = [rows EXCEPT ![i].consumed = TRUE] /\ ReqGoto(r, "taken")
  <2>1. rows[i].token = n /\ ~rows[i].consumed /\ ~rows[i].gone
    BY <1>3 DEF Takeable, Holds
  <2>2. /\ \A j \in 1 .. Len(rows) : j # i => rows'[j] = rows[j]
        /\ rows'[i].token = n /\ rows'[i].consumed
    <3>1. rows \in Seq(Rows) /\ DOMAIN rows = 1 .. Len(rows)
      BY LenProperties DEF OInv, Data
    <3> HIDE DEF i
    <3> QED
      BY <1>1, <1>3, <2>1, <3>1 DEF Rows
  <2>3. \A m \in 1 .. Len(tokens) : RowOf(m) \in 1 .. Len(rows) /\ tokens'[m].row = RowOf(m)
    BY <1>1, Tables DEF OInv, RowOf
  <2>4. \A m \in 1 .. Len(tokens) : Takeable(m)' <=> Takeable(m) /\ m # n
    BY <2>1, <2>2, <2>3 DEF Takeable, Holds, RowOf
  <2>5. /\ req'[r].pc \in Taken /\ req'[r].token = n
        /\ \A q \in Requests \ {r} : req'[q] = req[q]
    <3>1. req' = [req EXCEPT ![r].pc = "taken"]
      BY <1>3 DEF ReqGoto
    <3> QED
      BY <1>1, <3>1 DEF OInv, TypeOK, Reqs, Taken
  <2>6. \A m : TakenBy(m)' <=> TakenBy(m) \/ m = n
    BY <1>1, <2>5 DEF TakenBy
  <2> HIDE DEF n
  <2>7. Takeable(n)
    BY <1>3
  <2>8. \A m \in 1 .. Len(tokens) : InPlay(m)' <=> InPlay(m)
    BY <2>4, <2>6, <2>7 DEF InPlay
  <2> QED
    BY <1>1, <2>8, Stutters
<1> QED
  BY <1>2, <1>3 DEF Consume

LEMMA CheckMaps ==
  ASSUME OInv, NEW r \in Requests, Check(r)
  PROVE  Promised
<1>1. UNCHANGED <<rows, tokens>> /\ req[r].pc \in Taken /\ req[r] \in Reqs
  BY RowsOfRequests DEF Check, Taken
<1>2. CASE ReqGoto(r, "checked")
  <2>1. TakersStay
    BY <1>1, <1>2 DEF TakersStay, ReqGoto, OInv, TypeOK, Taken, Reqs
  <2> QED
    BY <1>1, <2>1, QuietStutter
<1>3. CASE ReqDone(r)
  <2>1. \A j \in 1 .. Len(rows) : rows'[j] = rows[j]
    BY <1>1
  <2> QED
    BY <1>1, <1>3, <2>1, LetsGo
<1> QED
  BY <1>2, <1>3 DEF Check

LEMMA AbortMaps ==
  ASSUME OInv, NEW r \in Requests, Abort(r)
  PROVE  Promised
<1>1. UNCHANGED <<rows, tokens>> /\ ReqDone(r)
  BY DEF Abort
<1>2. CASE req[r].pc \in Taken
  <2>1. \A j \in 1 .. Len(rows) : rows'[j] = rows[j]
    BY <1>1
  <2> QED
    BY <1>1, <1>2, <2>1, LetsGo
<1>3. CASE req[r].pc \notin Taken
  BY <1>1, <1>3, TakersUntouched, QuietStutter DEF ReqDone, Idle, Taken
<1> QED
  BY <1>2, <1>3

LEMMA StampMaps ==
  ASSUME OInv, NEW r \in Requests, Stamp(r)
  PROVE  Promised
<1> DEFINE i == RowOf(req[r].token)
<1>1. /\ req[r].pc \in Taken /\ req[r] \in Reqs /\ tokens' = tokens
      /\ i \in 1 .. Len(rows) /\ rows[i].consumed /\ rows[i] \in Rows
  BY RowsOfRequests, TakenIsSpent DEF Stamp, Taken, Carrying
<1>2. \A j \in 1 .. Len(rows) : /\ rows'[j].token = rows[j].token
                                /\ rows'[j].consumed = rows[j].consumed
                                /\ rows[j].consumed \/ rows'[j].gone = rows[j].gone
  <2> HIDE DEF i
  <2>1. CASE rows[i].kind = "code"
    <3>1. Delete(i) /\ rows[i].kind # "oauth"
      BY <2>1 DEF Stamp, i
    <3> QED
      BY <1>1, <3>1, RowDeleted DEF Kept
  <2>2. CASE rows[i].kind # "code"
    BY <2>2 DEF Stamp, i
  <2> QED
    BY <2>1, <2>2
<1>3. CASE req' = [req EXCEPT ![r].pc = "stamped", ![r].now = clock]
  <2>1. TakersStay
    BY <1>1, <1>3 DEF TakersStay, OInv, TypeOK, Taken, Reqs
  <2> QED
    BY <1>1, <1>2, <2>1, FlagsStutter
<1>4. CASE ReqDone(r)
  BY <1>1, <1>2, <1>4, LetsGo
<1> QED
  BY <1>3, <1>4 DEF Stamp

LEMMA RevokeMaps ==
  ASSUME OInv, NEW i \in 1 .. Len(rows), Revoke(i)
  PROVE  Promised
<1> DEFINE n == rows[i].token
<1>1. /\ Delete(i) /\ tokens' = tokens /\ req' = req /\ rows[i].kind = "operator"
      /\ rows[i] \in Rows /\ ~rows[i].gone /\ n \in 1 .. Len(tokens) /\ RowOf(n) = i
  BY Tables DEF Revoke, OInv, Data, Linked
<1>2. /\ rows'[i].gone
      /\ \A j \in 1 .. Len(rows) : /\ rows'[j].token = rows[j].token
                                   /\ rows'[j].consumed = rows[j].consumed
                                   /\ j # i => rows'[j] = rows[j]
  BY <1>1, RowDeleted DEF Kept
<1>3. \A m : TakenBy(m)' <=> TakenBy(m)
  BY <1>1 DEF TakenBy
<1>4. CASE rows[i].consumed
  <2>1. \A j \in 1 .. Len(rows) : rows[j].consumed \/ rows'[j].gone = rows[j].gone
    BY <1>2, <1>4
  <2>2. TakersStay
    BY <1>1 DEF TakersStay
  <2> QED
    BY <1>1, <1>2, <2>1, <2>2, FlagsStutter
<1>5. CASE ~rows[i].consumed
  <2>1. Takeable(n)
    BY <1>1, <1>5 DEF Takeable, Holds
  <2>2. ~TakenBy(n)
    BY <2>1, TakenIsSpent DEF TakenBy
  <2>3. \A m \in 1 .. Len(tokens) : RowOf(m) \in 1 .. Len(rows) /\ tokens'[m].row = RowOf(m)
    BY <1>1, Tables DEF OInv, RowOf
  <2>4. \A m \in 1 .. Len(tokens) : Takeable(m)' <=> Takeable(m) /\ m # n
    BY <1>1, <1>2, <1>5, <2>3 DEF Takeable, Holds, RowOf
  <2> HIDE DEF n
  <2>5. \A m \in 1 .. Len(tokens) : InPlay(m)' <=> InPlay(m) /\ m # n
    BY <1>3, <2>2, <2>4 DEF InPlay
  <2> QED
    BY <1>1, <2>1, <2>5, Drops DEF InPlay
<1> QED
  BY <1>4, <1>5

\* The row of a new credential can be taken; the other rows are as before.
LEMMA InsertedIsTakeable ==
  ASSUME OInv, NEW kind \in Kinds, NEW grant \in Grants, NEW at \in Nat,
         NEW parent \in 0 .. Len(tokens), Insert(kind, grant, parent, at)
  PROVE  /\ Data' /\ Later /\ Len(tokens') = Len(tokens) + 1
         /\ tokens'[Fresh].parent = parent /\ Fresh \in 1 .. Len(tokens')
         /\ \A m \in 1 .. Len(tokens') : m \in 1 .. Len(tokens) \/ m = Fresh
         /\ \A m \in 1 .. Len(tokens) : m # Fresh /\ (Takeable(m)' <=> Takeable(m))
         /\ \A m : m = Fresh => Takeable(m)'
<1> DEFINE i == Len(rows) + 1
<1>1. /\ Data' /\ Later
      /\ \A j \in 1 .. Len(rows) : rows'[j] = rows[j]
      /\ Fresh \in 1 .. Len(tokens') /\ Fresh \notin 1 .. Len(tokens)
      /\ Len(tokens') = Len(tokens) + 1 /\ tokens'[Fresh].parent = parent
      /\ tokens'[Fresh].row = i
      /\ rows'[i] = [kind |-> kind, grant |-> grant, token |-> Fresh, at |-> at,
                     refreshAt |-> at, consumed |-> FALSE, gone |-> FALSE]
  BY RowInserted DEF OInv
<1>2. \A m \in 1 .. Len(tokens') : m \in 1 .. Len(tokens) \/ m = Fresh
  <2>1. Len(tokens) \in Nat
    BY Tables DEF OInv
  <2>2. Fresh = Len(tokens) + 1 /\ Len(tokens') = Len(tokens) + 1
    BY <1>1 DEF Fresh
  <2> QED
    BY <2>1, <2>2
<1>3. \A m \in 1 .. Len(tokens) : RowOf(m) \in 1 .. Len(rows) /\ tokens'[m].row = RowOf(m)
  BY <1>1, Tables DEF OInv, RowOf, Later
<1>4. \A m \in 1 .. Len(tokens) : Takeable(m)' <=> Takeable(m)
  BY <1>1, <1>3 DEF Takeable, Holds, RowOf
<1>5. /\ rows'[i].token = Fresh /\ rows'[i].consumed = FALSE /\ rows'[i].gone = FALSE
  BY <1>1
<1>6. \A m : m = Fresh => Takeable(m)'
  BY <1>1, <1>5 DEF Takeable, Holds, RowOf
<1> QED
  BY <1>1, <1>2, <1>4, <1>6

LEMMA IssueMaps ==
  ASSUME OInv, NEW r \in Requests, NEW kind \in Kinds, NEW g \in Grants, NEW at \in Nat,
         Insert(kind, g, 0, at), req[r].pc \notin Taken,
         req' = [req EXCEPT ![r] = [Idle EXCEPT !.pc = "reply", !.token = Fresh]]
  PROVE  Promised
<1>1. 0 \in 0 .. Len(tokens)
  BY Tables DEF OInv
<1>2. /\ Data' /\ Later /\ Len(tokens') = Len(tokens) + 1
      /\ tokens'[Fresh].parent = 0 /\ Fresh \in 1 .. Len(tokens')
      /\ \A m \in 1 .. Len(tokens') : m \in 1 .. Len(tokens) \/ m = Fresh
      /\ \A m \in 1 .. Len(tokens) : m # Fresh /\ (Takeable(m)' <=> Takeable(m))
      /\ \A m : m = Fresh => Takeable(m)'
  BY <1>1, InsertedIsTakeable
<1>3. TakersStay
  BY TakersUntouched DEF Idle, Taken
<1>4. \A m : TakenBy(m)' <=> TakenBy(m)
  BY <1>3 DEF TakersStay, TakenBy
<1>5. \A m \in 1 .. Len(tokens') : InPlay(m)' <=> m = Fresh \/ InPlay(m)
  BY <1>2, <1>4 DEF InPlay
<1> QED
  BY <1>2, <1>5, Starts DEF OInv

LEMMA CreateExchangedMaps ==
  ASSUME OInv, NEW r \in Requests, CreateExchanged(r)
  PROVE  Promised
<1> DEFINE n == req[r].token
<1>1. /\ req[r].pc \in Taken /\ req[r] \in Reqs /\ req[r].now \in Nat /\ req[r].grant \in Grants
      /\ "oauth" \in Kinds /\ Len(tokens) \in Nat
      /\ n \in 1 .. Len(tokens) /\ ~Takeable(n) /\ InPlay(n)
  BY RowsOfRequests, TakenIsSpent
     DEF OInv, Knows, CreateExchanged, Kinds, Reqs, Taken, Spending
<1>2. n \in 0 .. Len(tokens) /\ Insert("oauth", req[r].grant, n, req[r].now)
  BY <1>1 DEF CreateExchanged
<1>3. /\ Data' /\ Later /\ Len(tokens') = Len(tokens) + 1
      /\ tokens'[Fresh].parent = n /\ Fresh \in 1 .. Len(tokens')
      /\ \A m \in 1 .. Len(tokens') : m \in 1 .. Len(tokens) \/ m = Fresh
      /\ \A m \in 1 .. Len(tokens) : m # Fresh /\ (Takeable(m)' <=> Takeable(m))
      /\ \A m : m = Fresh => Takeable(m)'
  BY <1>1, <1>2, InsertedIsTakeable
<1>4. /\ req'[r].pc = "reply"
      /\ \A q \in Requests \ {r} : req'[q] = req[q]
  BY <1>1 DEF CreateExchanged, OInv, TypeOK, Reqs
<1>5. \A m : TakenBy(m)' <=> TakenBy(m) /\ m # n
  BY <1>1, <1>4 DEF TakenBy, OInv, Alone, Taken
<1> HIDE DEF n
<1>6. \A m \in 1 .. Len(tokens') : InPlay(m)' <=> m = Fresh \/ (InPlay(m) /\ m # n)
  BY <1>1, <1>3, <1>5 DEF InPlay
<1> QED
  BY <1>1, <1>3, <1>6, Spends DEF OInv

LEMMA CreateRotatedMaps ==
  ASSUME OInv, NEW r \in Requests, CreateRotated(r)
  PROVE  Promised
<1> DEFINE n == req[r].token
           i == RowOf(n)
<1>1. /\ req[r].pc \in Taken /\ req[r] \in Reqs /\ req[r].now \in Nat
      /\ n \in 1 .. Len(tokens) /\ ~Takeable(n) /\ InPlay(n)
      /\ i \in 1 .. Len(rows) /\ rows[i].token = n /\ rows[i].consumed
      /\ rows[i].kind = "oauth" /\ ~rows[i].gone
  <2>1. req[r].pc \in Taken /\ req[r] \in Reqs /\ req[r].now \in Nat /\ rows[i].kind = "oauth"
    BY RowsOfRequests DEF CreateRotated, Reqs, Taken
  <2> QED
    BY <2>1, TakenIsSpent DEF OInv, Data, Rotated
<1>2. /\ rows' = Replace(RowOf(n), Fresh, req[r].now)
      /\ tokens' = Append(tokens, [row |-> RowOf(n), parent |-> n, at |-> req[r].now])
  BY DEF CreateRotated
<1>3. /\ Data' /\ Later
      /\ Len(rows') = Len(rows) /\ Len(tokens') = Len(tokens) + 1
      /\ Fresh \in 1 .. Len(tokens') /\ Fresh \notin 1 .. Len(tokens)
      /\ tokens'[Fresh].row = i /\ tokens'[Fresh].parent = n
      /\ \A j \in 1 .. Len(rows) : j # i => rows'[j] = rows[j]
      /\ rows'[i].token = Fresh /\ ~rows'[i].consumed
  BY <1>1, <1>2, RowRotated DEF OInv
<1>4. \A m \in 1 .. Len(tokens') : m \in 1 .. Len(tokens) \/ m = Fresh
  BY <1>3, Tables DEF OInv, Fresh
<1>5. \A m \in 1 .. Len(tokens) : RowOf(m) \in 1 .. Len(rows) /\ tokens'[m].row = RowOf(m)
  BY <1>3, Tables DEF OInv, RowOf, Later
<1>6. ~rows'[i].gone
  <2>1. rows'[i].kind = "oauth" /\ i \in 1 .. Len(rows')
    BY <1>1, <1>3 DEF Later
  <2> QED
    BY <2>1, <1>3 DEF Data, Rotated
<1>7. \A m : m = Fresh => Takeable(m)'
  BY <1>3, <1>6 DEF Takeable, Holds, RowOf
<1>8. \A m \in 1 .. Len(tokens) : Takeable(m)' <=> Takeable(m)
  <2>1. ASSUME NEW m \in 1 .. Len(tokens), RowOf(m) = i
        PROVE  ~Takeable(m) /\ ~Takeable(m)'
    BY <1>1, <1>3, <1>5, <2>1 DEF Takeable, Holds, RowOf
  <2>2. ASSUME NEW m \in 1 .. Len(tokens), RowOf(m) # i
        PROVE  Takeable(m)' <=> Takeable(m)
    BY <1>3, <1>5, <2>2 DEF Takeable, Holds, RowOf
  <2> QED
    BY <2>1, <2>2
<1>9. /\ req'[r].pc = "retire"
      /\ \A q \in Requests \ {r} : req'[q] = req[q]
  BY <1>1 DEF CreateRotated, OInv, TypeOK, Reqs
<1>10. \A m : TakenBy(m)' <=> TakenBy(m) /\ m # n
  BY <1>1, <1>9 DEF TakenBy, OInv, Alone, Taken
<1> HIDE DEF n, i
<1>11. \A m \in 1 .. Len(tokens') : InPlay(m)' <=> m = Fresh \/ (InPlay(m) /\ m # n)
  BY <1>1, <1>3, <1>4, <1>7, <1>8, <1>10 DEF InPlay
<1> QED
  BY <1>1, <1>3, <1>4, <1>11, Spends DEF OInv

LEMMA EveryStepIsPromised == OInv /\ [Next]_vars => Promised
<1> SUFFICES ASSUME OInv, [Next]_vars PROVE Promised
  OBVIOUS
<1>1. CASE UNCHANGED <<rows, tokens, req>>
  BY <1>1, QuietStutter DEF TakersStay
<1>2. ASSUME NEW r \in Requests, NEW g \in Grants, NEW p \in Purposes \ {"device"},
             Admit(r, g, p)
      PROVE  Promised
  <2>1. p \in {"authorize", "mint"}
    BY SessionConstants
  <2>2. TakersStay
    BY <1>2, <2>1, TakersUntouched DEF Admit, Idle, Taken
  <2> QED
    BY <1>2, <2>2, QuietStutter DEF Admit
<1>3. ASSUME NEW r \in Requests, NEW g \in Grants, IssueToDevice(r, g)
      PROVE  Promised
  <2>1. PICK at \in 0 .. clock : Insert("oauth", g, 0, at)
    BY <1>3 DEF IssueToDevice
  <2>2. at \in Nat /\ "oauth" \in Kinds
    BY DEF OInv, TypeOK, Kinds
  <2> QED
    BY <1>3, <2>1, <2>2, IssueMaps DEF IssueToDevice, Taken
<1>4. ASSUME NEW r \in Requests, NEW n \in held, Lookup(r, n)
      PROVE  Promised
  <2>1. TakersStay
    BY <1>4, TakersUntouched DEF Lookup, Idle, Taken
  <2> QED
    BY <1>4, <2>1, QuietStutter DEF Lookup
<1>5. ASSUME NEW r \in Requests, TokenStep(r)
      PROVE  Promised
  <2>1. CASE Issue(r)
    <3>1. PICK at \in req[r].now .. clock, kind \in {"code", "operator"} :
            Insert(kind, req[r].grant, 0, at)
      BY <2>1 DEF Issue
    <3>2. req[r] \in Reqs /\ req[r].grant \in Grants /\ kind \in Kinds
      BY <2>1, RowsOfRequests DEF Issue, OInv, Knows, Kinds
    <3>3. at \in Nat
      BY <3>2 DEF OInv, TypeOK, Reqs
    <3> QED
      BY <2>1, <3>1, <3>2, <3>3, IssueMaps DEF Issue, Taken
  <2>2. CASE Validate(r)
    <3>1. CASE ReqGoto(r, "valid")
      <4>1. TakersStay
        BY <2>2, <3>1, RowsOfRequests
           DEF Validate, ReqGoto, TakersStay, Taken, OInv, TypeOK, Reqs
      <4> QED
        BY <2>2, <4>1, QuietStutter DEF Validate
    <3>2. CASE ReqDone(r)
      BY <2>2, <3>2, TakersUntouched, QuietStutter DEF Validate, ReqDone, Idle, Taken
    <3> QED
      BY <2>2, <3>1, <3>2 DEF Validate
  <2>3. CASE Retire(r)
    <3>1. TakersStay
      BY <2>3, RowsOfRequests DEF Retire, ReqGoto, TakersStay, Taken, OInv, TypeOK, Reqs
    <3> QED
      BY <2>3, <3>1, NothingToRetire, QuietStutter DEF Retire
  <2>4. CASE Reply(r)
    BY <2>4, TakersUntouched, QuietStutter DEF Reply, ReqDone, Idle, Taken
  <2> QED
    BY <1>5, <2>1, <2>2, <2>3, <2>4, ConsumeMaps, CheckMaps, StampMaps,
       CreateExchangedMaps, CreateRotatedMaps DEF TokenStep
<1>6. CASE Tick \/ (\E g \in Grants : ChangeGrants(g))
  BY <1>1, <1>6 DEF Tick, ChangeGrants
<1>7. ASSUME NEW u \in Uses, UseLoad(u) \/ UseAllowed(u) \/ \E n \in held : UseBegin(u, n)
      PROVE  Promised
  BY <1>1, <1>7 DEF UseLoad, UseAllowed, UseBegin
<1>8. CASE UNCHANGED vars
  BY <1>1, <1>8 DEF vars
<1> QED
  BY <1>2, <1>3, <1>4, <1>5, <1>6, <1>7, <1>8, AbortMaps, RevokeMaps DEF Next

\* Exchanging and rotating in separate statements, with other requests in
\* between, spends every credential at most once (ConsumeOAuthSessionByCodeHash
\* and ConsumeOAuthSessionByRefreshHash take it before anything is created).
THEOREM ChainIsImplemented == Spec => ImplementsChain
<1>1. Init => Chain!Init
  <2> SUFFICES ASSUME Init PROVE Chain!Init
    OBVIOUS
  <2>1. 1 .. Len(tokens) = {}
    BY EmptySeq DEF Init
  <2>2. tokens \in Seq(Tokens)
    BY EmptySeq DEF Init
  <2>3. Parents \in Seq(Nat) /\ Len(Parents) = Len(tokens)
    BY <2>2, ParentsTyped DEF Parents
  <2>4. Parents = << >>
    BY <2>1, <2>2, <2>3, EmptySeq DEF Init
  <2> QED
    BY <2>1, <2>4 DEF Chain!Init, Parents
<1>2. OInv /\ [Next]_vars => [Chain!Next]_(Chain!vars)
  <2> SUFFICES ASSUME OInv, [Next]_vars PROVE [Chain!Next]_(Chain!vars)
    OBVIOUS
  <2>1. Promised
    BY EveryStepIsPromised
  <2> QED
    BY <2>1 DEF Promised, Chain!vars, Parents, Live, InPlay, Takeable, TakenBy
<1> QED
  BY <1>1, <1>2, SessionsInductive, PTL DEF Spec, ImplementsChain, Chain!Spec
-----------------------------------------------------------------------------
(* Only a request that dies costs a client its session                       *)

Reached(i) ==
  \/ rows[i].token \in held
  \/ \E r \in Requests : req[r].pc \in {"retire", "reply"} /\ req[r].token = rows[i].token

Excused(i) ==
  rows[i].consumed => \/ Expired(rows[i].refreshAt, RefreshTTL, clock)
                      \/ TakenBy(rows[i].token)

Surviving == aborts = 0 =>
  \A i \in 1 .. Len(rows) : rows[i].kind = "oauth" => Reached(i) /\ Excused(i)

\* A row fares as before when the clock ticks, or when no request moves.
LEMMA RowFaresAlone ==
  ASSUME OInv, NEW i \in 1 .. Len(rows), rows'[i] = rows[i], req' = req, held' = held,
         clock' = clock \/ clock' = clock + 1, Reached(i), Excused(i)
  PROVE  Reached(i)' /\ Excused(i)'
<1>1. rows[i] \in Rows /\ clock \in Nat
  BY Tables DEF OInv, TypeOK
<1>2. rows[i].refreshAt \in Nat /\ RefreshTTL \in Nat
  BY <1>1, SessionConstants DEF Rows
<1>3. Expired(rows[i].refreshAt, RefreshTTL, clock) =>
        Expired(rows[i].refreshAt, RefreshTTL, clock')
  BY <1>1, <1>2 DEF Expired
<1> QED
  BY <1>3 DEF Reached, Excused, TakenBy, Expired

\* A row fares as before when a request moves that does not drop it.
LEMMA RowFares ==
  ASSUME OInv, NEW i \in 1 .. Len(rows), rows'[i] = rows[i], NEW r \in Requests,
         \A q \in Requests \ {r} : req'[q] = req[q],
         clock' = clock, held \subseteq held', Reached(i), Excused(i),
         req[r].pc \in {"retire", "reply"} =>
           \/ req'[r].pc \in {"retire", "reply"} /\ req'[r].token = req[r].token
           \/ req[r].token \in held',
         req[r].pc \in Taken /\ req[r].token = rows[i].token =>
           \/ Expired(rows[i].refreshAt, RefreshTTL, clock)
           \/ req'[r].pc \in Taken /\ req'[r].token = req[r].token
  PROVE  Reached(i)' /\ Excused(i)'
<1>1. Reached(i)'
  <2>1. CASE rows[i].token \in held
    BY <2>1 DEF Reached
  <2>2. ASSUME NEW q \in Requests, req[q].pc \in {"retire", "reply"},
               req[q].token = rows[i].token
        PROVE  Reached(i)'
    BY <2>2 DEF Reached
  <2> QED
    BY <2>1, <2>2 DEF Reached
<1>2. Excused(i)'
  <2>1. CASE ~rows[i].consumed \/ Expired(rows[i].refreshAt, RefreshTTL, clock)
    BY <2>1 DEF Excused, Expired
  <2>2. ASSUME NEW q \in Requests, req[q].pc \in Taken, req[q].token = rows[i].token
        PROVE  Excused(i)'
    BY <2>2 DEF Excused, TakenBy, Expired
  <2> QED
    BY <2>1, <2>2 DEF Excused, TakenBy
<1> QED
  BY <1>1, <1>2

\* The steps in which one request moves and no row changes
LEMMA RowsFare ==
  ASSUME OInv, Surviving, rows' = rows, NEW r \in Requests, NEW x,
         req' = [req EXCEPT ![r] = x],
         UNCHANGED <<clock, aborts>>, held \subseteq held',
         req[r].pc \in {"retire", "reply"} =>
           \/ x.pc \in {"retire", "reply"} /\ x.token = req[r].token
           \/ req[r].token \in held',
         req[r].pc \in Taken =>
           \/ Lapsed(RowOf(req[r].token), clock)
           \/ rows[RowOf(req[r].token)].kind = "code"
           \/ x.pc \in Taken /\ x.token = req[r].token
  PROVE  Surviving'
<1> SUFFICES ASSUME aborts = 0, NEW i \in 1 .. Len(rows), rows[i].kind = "oauth"
             PROVE  Reached(i)' /\ Excused(i)'
  BY DEF Surviving
<1>1. Reached(i) /\ Excused(i) /\ rows'[i] = rows[i]
  BY DEF Surviving
<1>2. req'[r] = x /\ \A q \in Requests \ {r} : req'[q] = req[q]
  BY DEF OInv, TypeOK
<1>3. rows[i].token = req[r].token => RowOf(req[r].token) = i
  BY DEF OInv, Data, Linked
<1>4. req[r].pc \in Taken /\ req[r].token = rows[i].token =>
        \/ Expired(rows[i].refreshAt, RefreshTTL, clock)
        \/ x.pc \in Taken /\ x.token = req[r].token
  BY <1>3 DEF Lapsed
<1> QED
  BY <1>1, <1>2, <1>4, RowFares

\* A new credential is on its way to the client.
LEMMA InsertFares ==
  ASSUME OInv, Surviving, NEW r \in Requests, NEW x, req' = [req EXCEPT ![r] = x],
         x.pc = "reply", x.token = Fresh,
         NEW kind \in Kinds, NEW grant \in Grants, NEW at \in Nat,
         NEW parent \in 0 .. Len(tokens), Insert(kind, grant, parent, at),
         req[r].pc \notin {"retire", "reply"},
         req[r].pc \in Taken => rows[RowOf(req[r].token)].kind = "code",
         UNCHANGED <<clock, aborts, held>>
  PROVE  Surviving'
<1>1. /\ \A j \in 1 .. Len(rows) : rows'[j] = rows[j]
      /\ Len(rows') = Len(rows) + 1
      /\ rows'[Len(rows) + 1] = [kind |-> kind, grant |-> grant, token |-> Fresh, at |-> at,
                                 refreshAt |-> at, consumed |-> FALSE, gone |-> FALSE]
  BY RowInserted DEF OInv
<1>2. req'[r] = x /\ \A q \in Requests \ {r} : req'[q] = req[q]
  BY DEF OInv, TypeOK
<1>3. ASSUME aborts = 0, NEW i \in 1 .. Len(rows), rows[i].kind = "oauth"
      PROVE  Reached(i)' /\ Excused(i)'
  <2>1. Reached(i) /\ Excused(i)
    BY <1>3 DEF Surviving
  <2>2. rows[i].token = req[r].token => RowOf(req[r].token) = i
    BY DEF OInv, Data, Linked
  <2> QED
    BY <1>1, <1>2, <1>3, <2>1, <2>2, RowFares
<1>4. ASSUME NEW i, i = Len(rows) + 1
      PROVE  Reached(i)' /\ Excused(i)'
  <2>1. rows'[i].token = Fresh /\ rows'[i].consumed = FALSE
    BY <1>1, <1>4
  <2> QED
    BY <1>2, <2>1 DEF Reached, Excused
<1>5. \A i \in 1 .. Len(rows') : i \in 1 .. Len(rows) \/ i = Len(rows) + 1
  <2>1. Len(rows) \in Nat
    BY Tables DEF OInv
  <2> QED
    BY <1>1, <2>1
<1> QED
  BY <1>1, <1>3, <1>4, <1>5 DEF Surviving

LEMMA ConsumeFares ==
  ASSUME OInv, Surviving, NEW r \in Requests, Consume(r)
  PROVE  Surviving'
<1> DEFINE n == req[r].token
           i == RowOf(n)
<1>1. /\ n \in 1 .. Len(tokens) /\ i \in 1 .. Len(rows) /\ rows[i] \in Rows
      /\ req[r] \in Reqs /\ req[r].pc = "valid"
      /\ UNCHANGED <<clock, aborts, held>>
  BY RowsOfRequests DEF Consume, Carrying
<1>2. CASE ~Takeable(n) /\ UNCHANGED rows /\ ReqDone(r)
  BY <1>1, <1>2, RowsFare DEF ReqDone, Taken
<1>3. CASE Takeable(n) /\ rows' = [rows EXCEPT ![i].consumed = TRUE] /\ ReqGoto(r, "taken")
  <2>1. rows[i].token = n
    BY <1>3 DEF Takeable, Holds
  <2>2. rows \in Seq(Rows) /\ DOMAIN rows = 1 .. Len(rows)
    BY LenProperties DEF OInv, Data
  <2>3. /\ Len(rows') = Len(rows) /\ rows'[i].token = n
        /\ \A j \in 1 .. Len(rows) : j # i => rows'[j] = rows[j]
        /\ \A j \in 1 .. Len(rows) : rows'[j].kind = rows[j].kind
    <3> DEFINE y == [rows[i] EXCEPT !.consumed = TRUE]
    <3>1. y \in Rows /\ y.token = n /\ y.kind = rows[i].kind
      BY <1>1, <2>1 DEF Rows
    <3>2. rows' = [rows EXCEPT ![i] = y]
      BY <1>3
    <3> HIDE DEF y, i
    <3> QED
      BY <1>1, <2>2, <3>1, <3>2, ElementReplaced
  <2>4. /\ req'[r].pc \in Taken /\ req'[r].token = n
        /\ \A q \in Requests \ {r} : req'[q] = req[q]
    <3>1. req' = [req EXCEPT ![r].pc = "taken"]
      BY <1>3 DEF ReqGoto
    <3> QED
      BY <1>1, <3>1 DEF OInv, TypeOK, Reqs, Taken
  <2>5. ASSUME aborts = 0, NEW j \in 1 .. Len(rows), rows[j].kind = "oauth"
        PROVE  Reached(j)' /\ Excused(j)'
    <3>1. Reached(j) /\ Excused(j)
      BY <2>5 DEF Surviving
    <3>2. CASE j # i
      BY <1>1, <2>3, <2>4, <3>1, <3>2, RowFares DEF Taken
    <3>3. CASE j = i
      <4>1. rows[j].token = n /\ rows'[j].token = n
        BY <2>1, <2>3, <3>3
      <4> HIDE DEF n
      <4>2. Excused(j)'
        <5>1. \E q \in Requests : req'[q].pc \in Taken /\ req'[q].token = rows'[j].token
          BY <2>4, <4>1
        <5> QED
          BY <5>1 DEF Excused, TakenBy
      <4>3. CASE n \in held
        BY <1>1, <4>1, <4>2, <4>3 DEF Reached
      <4>4. ASSUME NEW q \in Requests, req[q].pc \in {"retire", "reply"}, req[q].token = n
            PROVE  Reached(j)'
        <5>1. q # r
          BY <1>1, <4>4
        <5> QED
          BY <2>4, <4>1, <4>4, <5>1 DEF Reached
      <4> QED
        BY <3>1, <4>1, <4>2, <4>3, <4>4 DEF Reached
    <3> QED
      BY <3>2, <3>3
  <2> QED
    BY <1>1, <2>3, <2>5 DEF Surviving
<1> QED
  BY <1>2, <1>3 DEF Consume

\* A code row or an operator's row is deleted; an OAuth session is not touched.
LEMMA StampFares ==
  ASSUME OInv, Surviving, NEW r \in Requests, Stamp(r)
  PROVE  Surviving'
<1> DEFINE i == RowOf(req[r].token)
<1>1. /\ req[r].pc = "checked" /\ req[r] \in Reqs /\ tokens' = tokens
      /\ i \in 1 .. Len(rows) /\ rows[i] \in Rows
      /\ UNCHANGED <<clock, aborts, held>>
  BY RowsOfRequests DEF Stamp, Carrying
<1>2. CASE rows[i].kind = "code"
  <2>1. PICK x \in Reqs : req' = [req EXCEPT ![r] = x]
    <3>1. CASE ReqDone(r)
      BY <3>1, IdleIsTyped DEF ReqDone
    <3>2. CASE req' = [req EXCEPT ![r].pc = "stamped", ![r].now = clock]
      <4>1. [req[r] EXCEPT !.pc = "stamped", !.now = clock] \in Reqs
        <5>1. clock \in Nat
          BY DEF OInv, TypeOK
        <5> QED
          BY <1>1, <5>1 DEF Reqs, ReqPCs
      <4>2. req' = [req EXCEPT ![r] = [req[r] EXCEPT !.pc = "stamped", !.now = clock]]
        BY <3>2 DEF OInv, TypeOK
      <4> QED
        BY <4>1, <4>2
    <3> QED
      BY <3>1, <3>2 DEF Stamp
  <2>2. \A q \in Requests \ {r} : req'[q] = req[q]
    BY <2>1 DEF OInv, TypeOK
  <2>3. Delete(i)
    BY <1>2 DEF Stamp
  <2> HIDE DEF i
  <2>4. /\ Len(rows') = Len(rows)
        /\ \A j \in 1 .. Len(rows) : rows'[j].kind = rows[j].kind /\ (j # i => rows'[j] = rows[j])
    BY <1>1, <1>2, <2>3, RowDeleted
  <2>5. ASSUME aborts = 0, NEW j \in 1 .. Len(rows), rows[j].kind = "oauth"
        PROVE  Reached(j)' /\ Excused(j)'
    <3>1. Reached(j) /\ Excused(j) /\ j # i
      BY <1>2, <2>5 DEF Surviving
    <3>2. rows[j].token # req[r].token
      BY <3>1 DEF OInv, Data, Linked, i
    <3> QED
      BY <1>1, <2>2, <2>4, <3>1, <3>2, RowFares
  <2> QED
    BY <1>1, <2>4, <2>5 DEF Surviving
<1>3. CASE rows[i].kind # "code"
  <2> DEFINE x == [req[r] EXCEPT !.pc = "stamped", !.now = clock]
  <2>1. req' = [req EXCEPT ![r] = x]
    BY <1>1, <1>3 DEF Stamp, OInv, TypeOK
  <2>2. x.pc \in Taken /\ x.token = req[r].token
    BY <1>1 DEF Reqs, Taken
  <2>3. rows' = rows
    BY <1>3 DEF Stamp
  <2> HIDE DEF x
  <2> QED
    BY <1>1, <2>1, <2>2, <2>3, RowsFare
<1> QED
  BY <1>2, <1>3

LEMMA RevokeFares ==
  ASSUME OInv, Surviving, NEW i \in 1 .. Len(rows), Revoke(i)
  PROVE  Surviving'
<1>1. /\ Delete(i) /\ rows[i].kind # "oauth"
      /\ UNCHANGED <<clock, tokens, req, held, aborts>>
  BY DEF Revoke
<1>2. /\ Len(rows') = Len(rows)
      /\ \A j \in 1 .. Len(rows) : rows'[j].kind = rows[j].kind /\ (j # i => rows'[j] = rows[j])
  BY <1>1, RowDeleted
<1>3. ASSUME aborts = 0, NEW j \in 1 .. Len(rows), rows[j].kind = "oauth"
      PROVE  Reached(j)' /\ Excused(j)'
  BY <1>1, <1>2, <1>3, RowFaresAlone DEF Surviving
<1> QED
  BY <1>1, <1>2, <1>3 DEF Surviving

LEMMA CreateRotatedFares ==
  ASSUME OInv, Surviving, NEW r \in Requests, CreateRotated(r)
  PROVE  Surviving'
<1> DEFINE n == req[r].token
           i == RowOf(n)
<1>1. /\ req[r] \in Reqs /\ req[r].now \in Nat /\ req[r].pc = "stamped"
      /\ n \in 1 .. Len(tokens) /\ i \in 1 .. Len(rows) /\ rows[i].kind = "oauth"
      /\ UNCHANGED <<clock, aborts, held>>
  BY RowsOfRequests DEF CreateRotated, Reqs, Carrying
<1>2. /\ rows' = Replace(RowOf(n), Fresh, req[r].now)
      /\ tokens' = Append(tokens, [row |-> RowOf(n), parent |-> n, at |-> req[r].now])
  BY DEF CreateRotated
<1>3. /\ Later /\ Len(rows') = Len(rows)
      /\ \A j \in 1 .. Len(rows) : j # i => rows'[j] = rows[j]
      /\ rows'[i].token = Fresh /\ ~rows'[i].consumed
  BY <1>1, <1>2, RowRotated DEF OInv
<1>4. /\ req'[r].pc = "retire" /\ req'[r].token = Fresh
      /\ \A q \in Requests \ {r} : req'[q] = req[q]
  BY <1>1 DEF CreateRotated, OInv, TypeOK, Reqs
<1>5. ASSUME aborts = 0, NEW j \in 1 .. Len(rows), rows[j].kind = "oauth", j # i
      PROVE  Reached(j)' /\ Excused(j)'
  <2>1. Reached(j) /\ Excused(j)
    BY <1>5 DEF Surviving
  <2>2. rows[j].token # n
    BY <1>5 DEF OInv, Data, Linked
  <2> QED
    BY <1>1, <1>3, <1>4, <1>5, <2>1, <2>2, RowFares
<1>6. ASSUME NEW j, j = i PROVE Reached(j)' /\ Excused(j)'
  <2>1. rows'[j].token = Fresh /\ ~rows'[j].consumed
    BY <1>3, <1>6
  <2> QED
    BY <1>4, <2>1 DEF Reached, Excused
<1>7. \A j \in 1 .. Len(rows) : rows'[j].kind = rows[j].kind
  BY <1>3 DEF Later
<1> QED
  BY <1>1, <1>3, <1>5, <1>6, <1>7 DEF Surviving

LEMMA EveryStepSurvives == OInv /\ Surviving /\ [Next]_vars => Surviving'
<1> SUFFICES ASSUME OInv, Surviving, [Next]_vars PROVE Surviving'
  OBVIOUS
<1>1. ASSUME UNCHANGED <<rows, req, held, aborts>>, clock' = clock \/ clock' = clock + 1
      PROVE  Surviving'
  <2>1. \A i \in 1 .. Len(rows) : rows'[i] = rows[i]
    BY <1>1
  <2> QED
    BY <1>1, <2>1, RowFaresAlone DEF Surviving
<1>2. ASSUME NEW r \in Requests, NEW g \in Grants, NEW p \in Purposes \ {"device"},
             Admit(r, g, p)
      PROVE  Surviving'
  BY <1>2, RowsFare DEF Admit, Taken
<1>3. ASSUME NEW r \in Requests, NEW g \in Grants, IssueToDevice(r, g)
      PROVE  Surviving'
  <2>1. PICK at \in 0 .. clock : Insert("oauth", g, 0, at)
    BY <1>3 DEF IssueToDevice
  <2>2. at \in Nat /\ "oauth" \in Kinds /\ 0 \in 0 .. Len(tokens)
    BY RowsOfRequests DEF OInv, TypeOK, Kinds
  <2> DEFINE x == [Idle EXCEPT !.pc = "reply", !.token = Fresh]
  <2>3. x.pc = "reply" /\ x.token = Fresh
    BY DEF Idle
  <2>4. req' = [req EXCEPT ![r] = x]
    BY <1>3 DEF IssueToDevice
  <2> HIDE DEF x
  <2> QED
    BY <1>3, <2>1, <2>2, <2>3, <2>4, InsertFares DEF IssueToDevice, Taken
<1>4. ASSUME NEW r \in Requests, NEW n \in held, Lookup(r, n)
      PROVE  Surviving'
  BY <1>4, RowsFare DEF Lookup, Taken
<1>5. ASSUME NEW r \in Requests, Abort(r)
      PROVE  Surviving'
  BY <1>5 DEF Abort, Surviving, OInv, TypeOK
<1>6. ASSUME NEW r \in Requests, TokenStep(r)
      PROVE  Surviving'
  <2>1. CASE Issue(r)
    <3>1. PICK at \in req[r].now .. clock, kind \in {"code", "operator"} :
            Insert(kind, req[r].grant, 0, at)
      BY <2>1 DEF Issue
    <3>2. /\ req[r] \in Reqs /\ req[r].grant \in Grants /\ kind \in Kinds
          /\ 0 \in 0 .. Len(tokens)
      BY <2>1, RowsOfRequests DEF Issue, OInv, Knows, Kinds
    <3>3. at \in Nat
      BY <3>2 DEF OInv, TypeOK, Reqs
    <3> DEFINE x == [Idle EXCEPT !.pc = "reply", !.token = Fresh]
    <3>4. x.pc = "reply" /\ x.token = Fresh /\ req' = [req EXCEPT ![r] = x]
      BY <2>1 DEF Idle, Issue
    <3> HIDE DEF x
    <3> QED
      BY <2>1, <3>1, <3>2, <3>3, <3>4, InsertFares DEF Issue, Taken
  <2>2. CASE CreateExchanged(r)
    <3>1. /\ req[r] \in Reqs /\ req[r].now \in Nat /\ req[r].grant \in Grants
          /\ "oauth" \in Kinds /\ req[r].token \in 0 .. Len(tokens)
      BY <2>2, RowsOfRequests
         DEF OInv, Knows, CreateExchanged, Kinds, Reqs, Spending, Carrying
    <3> DEFINE x == [req[r] EXCEPT !.pc = "reply", !.token = Fresh]
    <3>2. x.pc = "reply" /\ x.token = Fresh
      BY <3>1 DEF Reqs
    <3>3. req' = [req EXCEPT ![r] = x]
      BY <2>2, <3>1 DEF CreateExchanged, OInv, TypeOK
    <3> HIDE DEF x
    <3> QED
      BY <2>2, <3>1, <3>2, <3>3, InsertFares DEF CreateExchanged
  <2>3. CASE Validate(r)
    <3>1. PICK x : req' = [req EXCEPT ![r] = x]
      BY <2>3 DEF Validate, ReqGoto, ReqDone, OInv, TypeOK
    <3> QED
      BY <2>3, <3>1, RowsFare DEF Validate, Taken
  <2>4. CASE Check(r)
    <3>1. CASE ReqGoto(r, "checked")
      <4> DEFINE x == [req[r] EXCEPT !.pc = "checked"]
      <4>1. x.pc \in Taken /\ x.token = req[r].token
        BY RowsOfRequests DEF Reqs, Taken
      <4>2. req' = [req EXCEPT ![r] = x]
        BY <3>1 DEF ReqGoto, OInv, TypeOK
      <4> HIDE DEF x
      <4> QED
        BY <2>4, <4>1, <4>2, RowsFare DEF Check
    <3>2. CASE ReqDone(r) /\ (Lapsed(RowOf(req[r].token), clock)
                              \/ rows[RowOf(req[r].token)].kind = "code")
      BY <2>4, <3>2, RowsFare DEF Check, ReqDone
    <3> QED
      BY <2>4, <3>1, <3>2 DEF Check
  <2>5. CASE Retire(r)
    <3> DEFINE x == [req[r] EXCEPT !.pc = "reply"]
    <3>1. x.pc = "reply" /\ x.token = req[r].token
      BY RowsOfRequests DEF Reqs
    <3>2. req' = [req EXCEPT ![r] = x]
      BY <2>5 DEF Retire, ReqGoto, OInv, TypeOK
    <3> HIDE DEF x
    <3> QED
      BY <2>5, <3>1, <3>2, NothingToRetire, RowsFare DEF Retire, Taken
  <2>6. CASE Reply(r)
    BY <2>6, RowsFare DEF Reply, ReqDone, Taken
  <2> QED
    BY <1>6, <2>1, <2>2, <2>3, <2>4, <2>5, <2>6, ConsumeFares, StampFares,
       CreateRotatedFares DEF TokenStep
<1>7. CASE Tick \/ (\E g \in Grants : ChangeGrants(g))
  BY <1>1, <1>7 DEF Tick, ChangeGrants
<1>8. ASSUME NEW u \in Uses, UseLoad(u) \/ UseAllowed(u) \/ \E n \in held : UseBegin(u, n)
      PROVE  Surviving'
  BY <1>1, <1>8 DEF UseLoad, UseAllowed, UseBegin
<1>9. CASE UNCHANGED vars
  BY <1>1, <1>9 DEF vars
<1> QED
  BY <1>2, <1>3, <1>4, <1>5, <1>6, <1>7, <1>8, <1>9, RevokeFares DEF Next

\* Whoever loses the race for a credential, is refused or comes too late leaves
\* the winner's row alone (the claims by hash with consumed_at IS NULL, and the
\* upsert that clears consumed_at): for any number of requests, a client loses
\* its session only to a request that died between two statements.
THEOREM SessionsSurvive == Spec => []SessionsSurviveRaces
<1>1. Init => Surviving
  BY EmptySeq DEF Init, Surviving
<1>2. OInv /\ Surviving => SessionsSurviveRaces
  BY DEF OInv, Data, Rotated, Surviving, Reached, Excused, TakenBy, SessionsSurviveRaces
<1> QED
  BY <1>1, <1>2, EveryStepSurvives, SessionsInductive, PTL DEF Spec
=============================================================================
