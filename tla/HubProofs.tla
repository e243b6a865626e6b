----------------------------- MODULE HubProofs -----------------------------
(***************************************************************************)
(* Theorems about Hub, for any users, connections, codes and table sizes:  *)
(* the waiting lists fit and hold nobody twice, hosts and seats stay,      *)
(* whoever has one place has one after every step but one, and a           *)
(* reconnecting user is sent to the latest game.                           *)
(***************************************************************************)
EXTENDS Hub, SequenceLemmas

-----------------------------------------------------------------------------
(* The waiting lists, when K are the connections that have connected.       *)

QueuesOK(qs, K) ==
  /\ qs \in [Totals -> Seq(K)]
  /\ \A t \in Totals : Len(qs[t]) < t /\ IsInjective(qs[t])

PendingOK(pend, K) ==
  /\ DOMAIN pend \subseteq Codes
  /\ pend \in [DOMAIN pend -> [total : Totals, members : Seq(K)]]
  /\ \A k \in DOMAIN pend :
       /\ Len(pend[k].members) \in 1 .. pend[k].total - 1
       /\ IsInjective(pend[k].members)
  /\ \A j, k \in DOMAIN pend :
       j # k => Range(pend[j].members) \cap Range(pend[k].members) = {}

Known == {c \in Sockets : conn[c] # "new"}

(* A connection waits only after it was accepted: a new one that takes over *)
(* a seat cannot be in a list already.                                      *)
ListsInv ==
  /\ conn \in [Sockets -> {"new", "open", "gone"}]
  /\ QueuesOK(queues, Known)
  /\ PendingOK(pending, Known)

LEMMA TotalsAreNat ==
  ASSUME NEW t \in Totals
  PROVE  t \in Nat /\ t >= 2
BY HubAssumption DEF Totals

(* Who leaves the queues leaves them in order.                              *)
LEMMA QueueLeft ==
  ASSUME NEW K, QueuesOK(queues, K), NEW c, NEW qs \in WithoutQueued(c)
  PROVE  QueuesOK(qs, K)
<1>1. CASE ~IsQueued(c)
  BY <1>1 DEF WithoutQueued
<1>2. CASE IsQueued(c)
  <2>1. PICK t \in Totals : /\ c \in Range(queues[t])
                            /\ qs = [queues EXCEPT ![t] = RemoveFirst(@, c)]
    BY <1>2 DEF WithoutQueued
  <2> DEFINE s == queues[t]
             q == RemoveFirst(s, c)
  <2>2. s \in Seq(K) /\ IsInjective(s) /\ Len(s) < t /\ c \in Range(s)
    BY <2>1 DEF QueuesOK
  <2>3. q \in Seq(K) /\ IsInjective(q) /\ Len(q) = Len(s) - 1
    BY <2>2, RemoveFirstRemoves
  <2>4. Len(q) < t
    <3>1. t \in Nat /\ Len(s) \in Nat
      BY <2>2, TotalsAreNat, LenProperties
    <3> QED
      BY <2>2, <2>3, <3>1
  <2>5. qs = [queues EXCEPT ![t] = q]
    BY <2>1
  <2> HIDE DEF q, s
  <2> QED
    BY <2>3, <2>4, <2>5 DEF QueuesOK
<1> QED
  BY <1>1, <1>2

(* Who leaves the private rooms is in none of them any more; a room that is *)
(* left keeps its host, and one that is gone was hosted by the leaver.      *)
Left(pend, new, c) ==
  /\ DOMAIN new \subseteq DOMAIN pend
  /\ \A k \in DOMAIN new :
       /\ new[k].total = pend[k].total
       /\ new[k].members[1] = pend[k].members[1]
       /\ Range(new[k].members) = Range(pend[k].members) \ {c}
       /\ c \notin Range(pend[k].members) => new[k] = pend[k]
  /\ \A k \in DOMAIN pend \ DOMAIN new : pend[k].members[1] = c

LEMMA PendingLeft ==
  ASSUME NEW K, PendingOK(pending, K), NEW c, NEW new \in WithoutPending(c)
  PROVE  PendingOK(new, K) /\ Left(pending, new, c)
<1> DEFINE at == {k \in DOMAIN pending : c \in Range(pending[k].members)}
<1>1. CASE at = {}
  <2>1. new = pending
    BY <1>1 DEF WithoutPending
  <2>2. \A k \in DOMAIN pending :
          Range(pending[k].members) = Range(pending[k].members) \ {c}
    BY <1>1
  <2> QED
    BY <2>1, <2>2 DEF Left
<1>2. CASE at # {}
  <2>1. PICK k \in DOMAIN pending :
          /\ c \in Range(pending[k].members)
          /\ new = IF pending[k].members[1] = c THEN Out(k)
                   ELSE [pending EXCEPT ![k].members = RemoveFirst(@, c)]
    BY <1>2 DEF WithoutPending
  <2> DEFINE s == pending[k].members
             m == RemoveFirst(s, c)
             pr == [pending[k] EXCEPT !.members = m]
  <2>2. /\ s \in Seq(K) /\ IsInjective(s) /\ c \in Range(s)
        /\ pending[k] \in [total : Totals, members : Seq(K)]
        /\ Len(s) \in 1 .. pending[k].total - 1
    BY <2>1 DEF PendingOK
  <2>3. \A j \in DOMAIN pending : j # k => c \notin Range(pending[j].members)
    BY <2>1 DEF PendingOK
  <2>4. CASE s[1] = c
    <3>1. new = [j \in DOMAIN pending \ {k} |-> pending[j]]
      BY <2>1, <2>4 DEF Out, Restrict
    <3>2. PendingOK(new, K)
      BY <3>1 DEF PendingOK
    <3>3. Left(pending, new, c)
      BY <2>3, <2>4, <3>1 DEF Left
    <3> QED
      BY <3>2, <3>3
  <2>5. CASE s[1] # c
    <3>1. new = [pending EXCEPT ![k] = pr]
      BY <2>1, <2>5
    <3>2. /\ m \in Seq(K) /\ IsInjective(m) /\ Len(m) = Len(s) - 1
          /\ Range(m) = Range(s) \ {c}
          /\ Len(s) >= 2 /\ m[1] = s[1]
      BY <2>2, <2>5, RemoveFirstRemoves
    <3> HIDE DEF m
    <3>3. /\ pr \in [total : Totals, members : Seq(K)]
          /\ pr.total = pending[k].total /\ pr.members = m
      BY <2>2, <3>2
    <3>4. Len(pr.members) \in 1 .. pr.total - 1
      <4>1. pending[k].total \in Nat /\ Len(s) \in Nat
        BY <2>2, TotalsAreNat, LenProperties
      <4> HIDE DEF pr, s
      <4> QED
        BY <2>2, <3>2, <3>3, <4>1
    <3> HIDE DEF pr
    <3>5. /\ DOMAIN new = DOMAIN pending /\ new[k] = pr
          /\ \A j \in DOMAIN pending : j # k => new[j] = pending[j]
      BY <2>1, <3>1 DEF PendingOK
    <3>6. PendingOK(new, K)
      <4>1. new \in [DOMAIN new -> [total : Totals, members : Seq(K)]]
        BY <3>1, <3>3 DEF PendingOK
      <4>2. \A j \in DOMAIN new : /\ Len(new[j].members) \in 1 .. new[j].total - 1
                                  /\ IsInjective(new[j].members)
        BY <3>2, <3>3, <3>4, <3>5 DEF PendingOK
      <4>3. \A j \in DOMAIN new :
              Range(new[j].members) \subseteq Range(pending[j].members)
        BY <3>2, <3>3, <3>5
      <4>4. \A i, j \in DOMAIN new : i # j =>
              Range(new[i].members) \cap Range(new[j].members) = {}
        <5>1. \A i, j \in DOMAIN new : i # j =>
                Range(pending[i].members) \cap Range(pending[j].members) = {}
          BY <3>5 DEF PendingOK
        <5> QED
          BY <4>3, <5>1
      <4>5. DOMAIN new \subseteq Codes
        BY <3>5 DEF PendingOK
      <4> QED
        BY <4>1, <4>2, <4>4, <4>5 DEF PendingOK
    <3>7. Left(pending, new, c)
      <4>1. ASSUME NEW j \in DOMAIN new
            PROVE  /\ new[j].total = pending[j].total
                   /\ new[j].members[1] = pending[j].members[1]
                   /\ Range(new[j].members) = Range(pending[j].members) \ {c}
                   /\ c \notin Range(pending[j].members) => new[j] = pending[j]
        <5>1. CASE j = k
          BY <2>2, <3>2, <3>3, <3>5, <5>1
        <5>2. CASE j # k
          BY <2>3, <3>5, <4>1, <5>2
        <5> QED
          BY <5>1, <5>2
      <4> QED
        BY <3>5, <4>1 DEF Left
    <3> QED
      BY <3>6, <3>7
  <2> QED
    BY <2>4, <2>5
<1> QED
  BY <1>1, <1>2

LEMMA MoreKnown ==
  ASSUME NEW K, NEW L, K \subseteq L
  PROVE  /\ \A qs : QueuesOK(qs, K) => QueuesOK(qs, L)
         /\ \A pend : PendingOK(pend, K) => PendingOK(pend, L)
<1>1. Seq(K) \subseteq Seq(L)
  BY SeqMonotonic
<1>2. [total : Totals, members : Seq(K)] \subseteq
        [total : Totals, members : Seq(L)]
  BY <1>1
<1>3. ASSUME NEW qs, QueuesOK(qs, K)
      PROVE  QueuesOK(qs, L)
  BY <1>1, <1>3 DEF QueuesOK
<1>4. ASSUME NEW pend, PendingOK(pend, K)
      PROVE  PendingOK(pend, L)
  <2>1. pend \in [DOMAIN pend -> [total : Totals, members : Seq(L)]]
    BY <1>2, <1>4 DEF PendingOK
  <2> QED
    BY <1>4, <2>1 DEF PendingOK
<1> QED
  BY <1>3, <1>4

(* A queue that is full is cut short, and nobody is left in it.             *)
LEMMA QueueJoined ==
  ASSUME NEW K, QueuesOK(queues, K), NEW c \in K, NEW t \in Totals,
         c \notin Range(queues[t])
  PROVE  LET q == Append(queues[t], c)
         IN  /\ Full(q, t) =>
                  /\ QueuesOK([queues EXCEPT ![t] = SubSeq(q, t + 1, Len(q))], K)
                  /\ SubSeq(q, 1, t) \in Seq(K)
             /\ ~Full(q, t) => QueuesOK([queues EXCEPT ![t] = q], K)
<1> DEFINE s == queues[t]
           q == Append(s, c)
           rest == SubSeq(q, t + 1, Len(q))
<1>1. /\ t \in Nat /\ s \in Seq(K) /\ IsInjective(s)
      /\ Len(s) \in Nat /\ Len(s) < t
  BY TotalsAreNat, LenProperties DEF QueuesOK
<1>2. /\ q \in Seq(K) /\ IsInjective(q) /\ Len(q) = Len(s) + 1
  BY <1>1, AppendIsDistinct, AppendProperties
<1> HIDE DEF q
<1>3. CASE Full(q, t)
  <2>1. Len(q) = t
    BY <1>1, <1>2, <1>3 DEF Full
  <2>2. rest \in Seq(K) /\ IsInjective(rest) /\ Len(rest) = 0
    BY <1>1, <1>2, <2>1, PieceIsDistinct
  <2>3. SubSeq(q, 1, t) \in Seq(K)
    BY <1>1, <1>2, <2>1, PieceIsDistinct
  <2> HIDE DEF rest
  <2>4. QueuesOK([queues EXCEPT ![t] = rest], K)
    BY <1>1, <2>2 DEF QueuesOK
  <2> QED
    BY <1>3, <2>3, <2>4 DEF rest, q
<1>4. CASE ~Full(q, t)
  <2>1. Len(q) < t
    BY <1>1, <1>2, <1>4 DEF Full
  <2>2. QueuesOK([queues EXCEPT ![t] = q], K)
    BY <1>2, <2>1 DEF QueuesOK
  <2> QED
    BY <1>4, <2>2 DEF q
<1> QED
  BY <1>3, <1>4 DEF q

(* A private room is opened by a connection that waits in no other.         *)
LEMMA RoomOpened ==
  ASSUME NEW K, NEW pend, PendingOK(pend, K), NEW c \in K,
         \A j \in DOMAIN pend : c \notin Range(pend[j].members),
         NEW k \in Codes \ DOMAIN pend, NEW t \in Totals
  PROVE  LET pr == [total |-> t, members |-> <<c>>]
         IN  PendingOK(Put(pend, k, pr), K)
<1> DEFINE m == <<c>>
           pr == [total |-> t, members |-> m]
           new == Put(pend, k, pr)
<1>1. m \in Seq(K) /\ Len(m) = 1 /\ IsInjective(m) /\ Range(m) = {c}
  BY DEF IsInjective, Range
<1>2. t \in Nat /\ t >= 2
  BY TotalsAreNat
<1> HIDE DEF m
<1>3. /\ pr \in [total : Totals, members : Seq(K)]
      /\ pr.members = m /\ pr.total = t
  BY <1>1
<1> HIDE DEF pr
<1>4. new = [j \in DOMAIN pend \cup {k} |-> IF j = k THEN pr ELSE pend[j]]
  BY DEF Put
<1>5. /\ DOMAIN new = DOMAIN pend \cup {k} /\ new[k] = pr
      /\ \A j \in DOMAIN pend : new[j] = pend[j]
  BY <1>4
<1>6. new \in [DOMAIN new -> [total : Totals, members : Seq(K)]]
  BY <1>3, <1>4, <1>5 DEF PendingOK
<1> HIDE DEF new
<1>7. \A j \in DOMAIN new : /\ Len(new[j].members) \in 1 .. new[j].total - 1
                            /\ IsInjective(new[j].members)
  <2>1. Len(pr.members) \in 1 .. pr.total - 1
    <3>1. Len(pr.members) = 1 /\ pr.total = t
      BY <1>1, <1>3
    <3> HIDE DEF new
    <3> QED
      BY <1>2, <3>1
  <2> QED
    BY <1>1, <1>3, <1>5, <2>1 DEF PendingOK
<1>8. \A i, j \in DOMAIN new : i # j =>
        Range(new[i].members) \cap Range(new[j].members) = {}
  <2>1. \A j \in DOMAIN pend : Range(new[j].members) \cap Range(new[k].members) = {}
    BY <1>1, <1>3, <1>5
  <2>2. \A i, j \in DOMAIN pend : i # j =>
          Range(new[i].members) \cap Range(new[j].members) = {}
    BY <1>5 DEF PendingOK
  <2> QED
    BY <1>5, <2>1, <2>2
<1> QED
  BY <1>5, <1>6, <1>7, <1>8 DEF PendingOK, new, pr, m

(* A private room is entered by a connection that waits in no other.        *)
LEMMA RoomEntered ==
  ASSUME NEW K, NEW pend, PendingOK(pend, K), NEW c \in K,
         \A j \in DOMAIN pend : c \notin Range(pend[j].members),
         NEW k \in DOMAIN pend
  PROVE  LET members == Append(pend[k].members, c)
             new == [pend EXCEPT ![k].members = members]
         IN  /\ members \in Seq(K)
             /\ ~Full(members, pend[k].total) => PendingOK(new, K)
             /\ DOMAIN new = DOMAIN pend
             /\ \A j \in DOMAIN new :
                  new[j].members[1] = pend[j].members[1]
<1> DEFINE s == pend[k].members
           m == Append(s, c)
           pr == [pend[k] EXCEPT !.members = m]
           new == [pend EXCEPT ![k].members = m]
<1>1. /\ s \in Seq(K) /\ IsInjective(s) /\ c \notin Range(s)
      /\ pend[k] \in [total : Totals, members : Seq(K)]
      /\ Len(s) \in Nat /\ Len(s) >= 1
      /\ pend[k].total \in Nat
  <2>1. s \in Seq(K) /\ pend[k] \in [total : Totals, members : Seq(K)]
        /\ Len(s) \in 1 .. pend[k].total - 1 /\ IsInjective(s)
    BY DEF PendingOK
  <2>2. pend[k].total \in Nat
    BY <2>1, TotalsAreNat
  <2> QED
    BY <2>1, <2>2, LenProperties
<1>2. /\ m \in Seq(K) /\ IsInjective(m) /\ Len(m) = Len(s) + 1
      /\ Range(m) = Range(s) \cup {c} /\ m[1] = s[1]
  <2>1. 1 \in 1 .. Len(s)
    BY <1>1
  <2> QED
    BY <1>1, <2>1, AppendIsDistinct, AppendProperties
<1> HIDE DEF m
<1>3. new = [pend EXCEPT ![k] = pr]
  OBVIOUS
<1>4. /\ pr \in [total : Totals, members : Seq(K)]
      /\ pr.total = pend[k].total /\ pr.members = m
  BY <1>1, <1>2
<1> HIDE DEF pr
<1>5. /\ DOMAIN new = DOMAIN pend /\ new[k] = pr
      /\ \A j \in DOMAIN pend : j # k => new[j] = pend[j]
      /\ new \in [DOMAIN new -> [total : Totals, members : Seq(K)]]
  BY <1>3, <1>4 DEF PendingOK
<1> HIDE DEF new
<1>6. \A j \in DOMAIN new : new[j].members[1] = pend[j].members[1]
  BY <1>2, <1>4, <1>5
<1>7. ASSUME ~Full(m, pend[k].total)
      PROVE  PendingOK(new, K)
  <2>1. Len(pr.members) \in 1 .. pr.total - 1
    BY <1>1, <1>2, <1>4, <1>7 DEF Full
  <2>2. \A j \in DOMAIN new : /\ Len(new[j].members) \in 1 .. new[j].total - 1
                              /\ IsInjective(new[j].members)
    BY <1>2, <1>4, <1>5, <2>1 DEF PendingOK
  <2>3. \A i, j \in DOMAIN new : i # j =>
          Range(new[i].members) \cap Range(new[j].members) = {}
    <3>1. \A j \in DOMAIN pend : j # k =>
            Range(pend[j].members) \cap Range(m) = {}
      BY <1>2 DEF PendingOK
    <3>2. \A i, j \in DOMAIN pend : i # j =>
            Range(pend[i].members) \cap Range(pend[j].members) = {}
      BY DEF PendingOK
    <3> QED
      BY <1>4, <1>5, <3>1, <3>2
  <2>4. DOMAIN new \subseteq Codes
    BY <1>5 DEF PendingOK
  <2> QED
    BY <1>5, <2>2, <2>3, <2>4 DEF PendingOK
<1> QED
  BY <1>2, <1>5, <1>6, <1>7 DEF new, m

LEMMA RoomDealt ==
  ASSUME NEW K, NEW pend, PendingOK(pend, K), NEW k
  PROVE  PendingOK(Restrict(pend, DOMAIN pend \ {k}), K)
BY DEF PendingOK, Restrict

(* A new connection takes over the seat of its user.                        *)
TakenOver(k, c) == [pending EXCEPT ![k].members[SeatOf(k, Owner[c])] = c]

LEMMA SeatTakenOver ==
  ASSUME NEW K \in SUBSET Sockets, PendingOK(pending, K),
         NEW c \in Sockets \ K, NEW k \in PendingOfUID(Owner[c])
  PROVE  /\ PendingOK(TakenOver(k, c), K \cup {c})
         /\ DOMAIN TakenOver(k, c) = DOMAIN pending
         /\ \A j \in DOMAIN pending :
              UsersOf(TakenOver(k, c)[j]) = UsersOf(pending[j])
<1> DEFINE u == Owner[c]
           s == pending[k].members
           i == SeatOf(k, u)
           m == [s EXCEPT ![i] = c]
           pr == [pending[k] EXCEPT !.members = m]
           new == [pending EXCEPT ![k].members[i] = c]
           L == K \cup {c}
<1>1. /\ k \in DOMAIN pending /\ s \in Seq(L) /\ IsInjective(s)
      /\ s \in Seq(K)
      /\ PendingOK(pending, L)
      /\ pending[k] \in [total : Totals, members : Seq(L)]
      /\ Len(s) \in 1 .. pending[k].total - 1
  <2>1. PendingOK(pending, L)
    BY MoreKnown
  <2> QED
    BY <2>1 DEF PendingOK, PendingOfUID
<1>2. Len(s) \in Nat /\ DOMAIN s = 1 .. Len(s) /\ Range(s) \subseteq K
  BY <1>1, LenProperties, RangeOfSeq
<1>3. i \in 1 .. Len(s) /\ Owner[s[i]] = u
  <2> DEFINE I == {j \in 1 .. Len(s) : Owner[s[j]] = u}
  <2>1. I \in SUBSET Nat /\ I # {}
    BY <1>2 DEF PendingOfUID, Holds
  <2>2. i = Min(I)
    BY <2>1 DEF SeatOf, SelectInSeq
  <2>3. Min(I) \in I
    <3> HIDE DEF I
    <3> QED
      BY <2>1, LeastExists
  <2> QED
    BY <2>2, <2>3
<1>4. new = [pending EXCEPT ![k] = pr]
  OBVIOUS
<1> HIDE DEF i
<1>5. /\ m \in Seq(L) /\ Len(m) = Len(s) /\ m[i] = c
      /\ \A j \in 1 .. Len(s) : j # i => m[j] = s[j]
  <2>1. /\ m \in Seq(L) /\ Len(m) = Len(s)
        /\ \A j \in 1 .. Len(s) : m[j] = IF j = i THEN c ELSE s[j]
    BY <1>1, <1>3, ExceptSeq
  <2> QED
    BY <1>3, <2>1
<1> HIDE DEF m
<1>6. DOMAIN m = 1 .. Len(s)
  BY <1>5, LenProperties
<1>7. c \notin Range(s) /\ \A j \in 1 .. Len(s) : s[j] # c
  BY <1>2 DEF Range
<1>8. IsInjective(m)
  BY <1>1, <1>2, <1>3, <1>5, <1>6, <1>7 DEF IsInjective
<1>9. Range(m) \subseteq Range(s) \cup {c}
  BY <1>2, <1>5, <1>6 DEF Range
<1>10. [j \in DOMAIN m |-> Owner[m[j]]] = [j \in DOMAIN s |-> Owner[s[j]]]
  BY <1>2, <1>3, <1>5, <1>6
<1>11. /\ pr \in [total : Totals, members : Seq(L)]
       /\ pr.total = pending[k].total /\ pr.members = m
  BY <1>1, <1>5
<1> HIDE DEF pr
<1>12. /\ DOMAIN new = DOMAIN pending /\ new[k] = pr
       /\ \A j \in DOMAIN pending : j # k => new[j] = pending[j]
       /\ new \in [DOMAIN new -> [total : Totals, members : Seq(L)]]
  BY <1>1, <1>4, <1>11 DEF PendingOK
<1> HIDE DEF new
<1>13. \A j \in DOMAIN new : UsersOf(new[j]) = UsersOf(pending[j])
  BY <1>10, <1>11, <1>12 DEF UsersOf
<1>14. PendingOK(new, L)
  <2>1. Len(pr.members) \in 1 .. pr.total - 1
    BY <1>1, <1>5, <1>11
  <2>2. \A j \in DOMAIN new : /\ Len(new[j].members) \in 1 .. new[j].total - 1
                              /\ IsInjective(new[j].members)
    BY <1>1, <1>8, <1>11, <1>12, <2>1 DEF PendingOK
  <2>3. \A j \in DOMAIN pending : c \notin Range(pending[j].members)
    <3>1. \A j \in DOMAIN pending : pending[j].members \in Seq(K)
      BY DEF PendingOK
    <3> QED
      BY <3>1, RangeOfSeq
  <2>4. \A j \in DOMAIN pending : j # k =>
          Range(pending[j].members) \cap Range(m) = {}
    BY <1>1, <1>9, <2>3 DEF PendingOK
  <2>5. \A j, h \in DOMAIN new : j # h =>
          Range(new[j].members) \cap Range(new[h].members) = {}
    BY <1>11, <1>12, <2>4 DEF PendingOK
  <2>6. DOMAIN new \subseteq Codes
    BY <1>12 DEF PendingOK
  <2> QED
    BY <1>12, <2>2, <2>5, <2>6 DEF PendingOK
<1> QED
  BY <1>12, <1>13, <1>14 DEF new, i, TakenOver

-----------------------------------------------------------------------------
(* What a step does to the waiting lists.                                   *)

HostsKept ==
  \A k \in DOMAIN pending \cap DOMAIN pending' :
    HostOf(pending'[k]) = HostOf(pending[k])

SeatsKept ==
  conn' # conn =>
    /\ DOMAIN pending' = DOMAIN pending
    /\ \A k \in DOMAIN pending : UsersOf(pending[k])' = UsersOf(pending[k])

LEMMA ListsPrimed ==
  ASSUME conn' \in [Sockets -> {"new", "open", "gone"}],
         QueuesOK(queues', Known'), PendingOK(pending', Known')
  PROVE  ListsInv'
BY DEF ListsInv, QueuesOK, PendingOK, Known

LEMMA WaitingIsKnown ==
  ASSUME ListsInv, NEW c \in Sockets, MayWait(c)
  PROVE  c \in Known
BY DEF MayWait, Known

LEMMA FirstIsMember ==
  ASSUME NEW K, PendingOK(pending, K), NEW k \in DOMAIN pending
  PROVE  pending[k].members[1] \in Range(pending[k].members)
<1>1. pending[k].members \in Seq(K) /\ Len(pending[k].members) >= 1
  BY DEF PendingOK
<1> QED
  BY <1>1 DEF Range

LEMMA IdleKeepsLists ==
  ASSUME ListsInv, UNCHANGED <<conn, queues, pending>>
  PROVE  ListsInv' /\ HostsKept /\ SeatsKept
<1>1. Known' = Known
  BY DEF Known
<1>2. ListsInv'
  BY <1>1, ListsPrimed DEF ListsInv
<1> QED
  BY <1>2 DEF HostsKept, SeatsKept

LEMMA JoinQueueKeepsLists ==
  ASSUME ListsInv, NEW c \in Sockets, NEW t \in Totals, JoinQueue(c, t)
  PROVE  ListsInv' /\ HostsKept /\ SeatsKept
<1>1. conn' = conn /\ Known' = Known /\ c \in Known
  BY WaitingIsKnown DEF JoinQueue, Known
<1>2. PendingOK(pending', Known) /\ Left(pending, pending', c)
  BY PendingLeft DEF JoinQueue, ListsInv
<1>3. QueuesOK(queues', Known)
  <2>1. CASE UNCHANGED queues
    BY <2>1 DEF ListsInv
  <2>2. CASE c \notin Range(queues[t])
    <3> DEFINE q == Append(queues[t], c)
    <3>1. \/ Full(q, t) /\ queues' = [queues EXCEPT ![t] = SubSeq(q, t + 1, Len(q))]
          \/ ~Full(q, t) /\ queues' = [queues EXCEPT ![t] = q]
      BY <2>2 DEF JoinQueue
    <3>2. QueuesOK(queues, Known)
      BY DEF ListsInv
    <3> QED
      BY <1>1, <2>2, <3>1, <3>2, QueueJoined
  <2> QED
    BY <2>1, <2>2 DEF JoinQueue
<1>4. ListsInv'
  BY <1>1, <1>2, <1>3, ListsPrimed DEF ListsInv
<1>5. HostsKept
  BY <1>2 DEF Left, HostsKept, HostOf
<1> QED
  BY <1>1, <1>4, <1>5 DEF SeatsKept

LEMMA CreateRoomKeepsLists ==
  ASSUME ListsInv, NEW c \in Sockets, NEW t \in Totals, CreateRoom(c, t)
  PROVE  ListsInv' /\ HostsKept /\ SeatsKept
<1>1. conn' = conn /\ Known' = Known /\ c \in Known
  BY WaitingIsKnown DEF CreateRoom, Known
<1>2. QueuesOK(queues', Known)
  BY QueueLeft DEF CreateRoom, ListsInv
<1> DEFINE pr == [total |-> t, members |-> <<c>>]
<1>3. PICK pend \in WithoutPending(c), k \in Codes :
        k \notin DOMAIN pend /\ pending' = Put(pend, k, pr)
  BY DEF CreateRoom
<1>4. PendingOK(pend, Known) /\ Left(pending, pend, c)
  BY PendingLeft DEF ListsInv
<1>5. \A j \in DOMAIN pend : c \notin Range(pend[j].members)
  BY <1>4 DEF Left
<1>6. PendingOK(pending', Known)
  BY <1>1, <1>3, <1>4, <1>5, RoomOpened
<1>7. ListsInv'
  BY <1>1, <1>2, <1>6, ListsPrimed DEF ListsInv
<1>8. HostsKept
  <2>1. /\ DOMAIN pending' = DOMAIN pend \cup {k} /\ pending'[k] = pr
        /\ \A j \in DOMAIN pend : pending'[j] = pend[j]
    BY <1>3 DEF Put
  <2>2. pr.members[1] = c
    OBVIOUS
  <2>3. \A j \in DOMAIN pending \cap DOMAIN pending' :
          pending'[j].members[1] = pending[j].members[1]
    BY <1>3, <1>4, <2>1, <2>2 DEF Left
  <2> QED
    BY <2>3 DEF HostsKept, HostOf
<1> QED
  BY <1>1, <1>7, <1>8 DEF SeatsKept

LEMMA JoinRoomKeepsLists ==
  ASSUME ListsInv, NEW c \in Sockets, NEW k \in Codes, JoinRoom(c, k)
  PROVE  ListsInv' /\ HostsKept /\ SeatsKept
<1>1. conn' = conn /\ Known' = Known /\ c \in Known
  BY WaitingIsKnown DEF JoinRoom, Known
<1>2. QueuesOK(queues', Known)
  BY QueueLeft DEF JoinRoom, ListsInv
<1>3. PICK pend \in WithoutPending(c) :
        LET members == Append(pend[k].members, c)
        IN  \/ pending' = Restrict(pend, DOMAIN pend \ {k})
            \/ /\ ~Full(members, pend[k].total)
               /\ pending' = [pend EXCEPT ![k].members = members]
  BY DEF JoinRoom
<1>4. PendingOK(pend, Known) /\ Left(pending, pend, c)
  BY PendingLeft DEF ListsInv
<1>5. \A j \in DOMAIN pend : c \notin Range(pend[j].members)
  BY <1>4 DEF Left
<1>6. k \in DOMAIN pend
  <2>1. k \in DOMAIN pending /\ c \notin Range(pending[k].members)
    BY DEF JoinRoom
  <2>2. pending[k].members[1] # c
    BY <2>1, FirstIsMember DEF ListsInv
  <2> QED
    BY <1>4, <2>1, <2>2 DEF Left
<1>7. /\ PendingOK(pending', Known) /\ DOMAIN pending' \subseteq DOMAIN pend
      /\ \A j \in DOMAIN pending' : pending'[j].members[1] = pend[j].members[1]
  <2>1. CASE pending' = Restrict(pend, DOMAIN pend \ {k})
    <3>1. PendingOK(pending', Known)
      BY <1>4, <2>1, RoomDealt
    <3> QED
      BY <2>1, <3>1 DEF Restrict
  <2>2. CASE /\ ~Full(Append(pend[k].members, c), pend[k].total)
             /\ pending' = [pend EXCEPT ![k].members = Append(pend[k].members, c)]
    <3> DEFINE new == [pend EXCEPT ![k].members = Append(pend[k].members, c)]
    <3>1. /\ PendingOK(new, Known) /\ DOMAIN new = DOMAIN pend
          /\ \A j \in DOMAIN new : new[j].members[1] = pend[j].members[1]
      <4>1. ~Full(Append(pend[k].members, c), pend[k].total)
        BY <2>2
      <4>2. PendingOK(pend, Known) /\ c \in Known
        BY <1>1, <1>4
      <4> QED
        BY <1>5, <1>6, <4>1, <4>2, RoomEntered
    <3>2. pending' = new
      BY <2>2
    <3> HIDE DEF new
    <3> QED
      BY <3>1, <3>2
  <2> QED
    BY <1>3, <2>1, <2>2
<1>8. ListsInv'
  BY <1>1, <1>2, <1>7, ListsPrimed DEF ListsInv
<1>9. HostsKept
  BY <1>4, <1>7 DEF Left, HostsKept, HostOf
<1> QED
  BY <1>1, <1>8, <1>9 DEF SeatsKept

LEMMA LeaveKeepsLists ==
  ASSUME ListsInv, NEW c \in Sockets, Leave(c)
  PROVE  ListsInv' /\ HostsKept /\ SeatsKept
<1>1. conn' = conn /\ Known' = Known
  BY DEF Leave, Known
<1>2. QueuesOK(queues', Known)
  BY QueueLeft DEF Leave, ListsInv
<1>3. PendingOK(pending', Known) /\ HostsKept
  <2>1. CASE UNCHANGED pending
    BY <2>1 DEF ListsInv, HostsKept
  <2>2. CASE pending' \in WithoutPending(c)
    <3>1. PendingOK(pending', Known) /\ Left(pending, pending', c)
      BY <2>2, PendingLeft DEF ListsInv
    <3> QED
      BY <3>1 DEF Left, HostsKept, HostOf
  <2> QED
    BY <2>1, <2>2 DEF Leave
<1>4. ListsInv'
  BY <1>1, <1>2, <1>3, ListsPrimed DEF ListsInv
<1> QED
  BY <1>1, <1>3, <1>4 DEF SeatsKept

LEMMA DisconnectKeepsLists ==
  ASSUME ListsInv, NEW c \in Sockets, Disconnect(c)
  PROVE  ListsInv' /\ HostsKept /\ SeatsKept
<1>1. /\ conn' = [conn EXCEPT ![c] = "gone"] /\ conn[c] = "open"
      /\ queues' \in WithoutQueued(c) /\ pending' = pending
  BY DEF Disconnect
<1>2. Known' = Known /\ conn' \in [Sockets -> {"new", "open", "gone"}]
  BY <1>1 DEF Known, ListsInv
<1>3. QueuesOK(queues', Known)
  BY <1>1, QueueLeft DEF ListsInv
<1>4. ListsInv'
  BY <1>1, <1>2, <1>3, ListsPrimed DEF ListsInv
<1> QED
  BY <1>1, <1>4 DEF HostsKept, SeatsKept

LEMMA ConnectKeepsLists ==
  ASSUME ListsInv, NEW c \in Sockets, Connect(c)
  PROVE  ListsInv' /\ HostsKept /\ SeatsKept
<1>1. /\ conn' = [conn EXCEPT ![c] = "open"] /\ conn[c] = "new"
      /\ queues' = queues
  BY DEF Connect
<1>2. /\ Known' = Known \cup {c} /\ c \in Sockets \ Known
      /\ conn' \in [Sockets -> {"new", "open", "gone"}]
      /\ Known \in SUBSET Sockets
  BY <1>1 DEF Known, ListsInv
<1>3. QueuesOK(queues', Known')
  BY <1>1, <1>2, MoreKnown DEF ListsInv
<1>4. /\ PendingOK(pending', Known') /\ DOMAIN pending' = DOMAIN pending
      /\ \A k \in DOMAIN pending : UsersOf(pending'[k]) = UsersOf(pending[k])
  <2>1. CASE UNCHANGED pending
    BY <1>2, <2>1, MoreKnown DEF ListsInv
  <2>2. CASE \E k \in PendingOfUID(Owner[c]) :
               pending' = [pending EXCEPT ![k].members[SeatOf(k, Owner[c])] = c]
    <3>1. PICK k \in PendingOfUID(Owner[c]) :
            pending' = [pending EXCEPT ![k].members[SeatOf(k, Owner[c])] = c]
      BY <2>2
    <3>2. /\ PendingOK(pending, Known) /\ Known \in SUBSET Sockets
          /\ c \in Sockets \ Known
      BY <1>2 DEF ListsInv
    <3>3. pending' = TakenOver(k, c)
      BY <3>1 DEF TakenOver
    <3> QED
      BY <1>2, <3>2, <3>3, SeatTakenOver
  <2> QED
    BY <2>1, <2>2 DEF Connect
<1>5. ListsInv'
  BY <1>2, <1>3, <1>4, ListsPrimed
<1>6. HostsKept
  <2>1. ASSUME NEW k \in DOMAIN pending
        PROVE  HostOf(pending'[k]) = HostOf(pending[k])
    <3>1. /\ pending[k].members \in Seq(Known)
          /\ Len(pending[k].members) >= 1
      BY DEF ListsInv, PendingOK
    <3>2. /\ pending'[k].members \in Seq(Known')
          /\ Len(pending'[k].members) >= 1
      BY <1>4 DEF PendingOK
    <3>3. /\ HostOf(pending[k]) = UsersOf(pending[k])[1]
          /\ HostOf(pending'[k]) = UsersOf(pending'[k])[1]
      BY <3>1, <3>2, LenProperties DEF HostOf, UsersOf
    <3> QED
      BY <1>4, <3>3
  <2> QED
    BY <2>1 DEF HostsKept
<1> QED
  BY <1>4, <1>5, <1>6 DEF SeatsKept

LEMMA ListsStep ==
  ASSUME ListsInv, [Next]_vars
  PROVE  ListsInv' /\ HostsKept /\ SeatsKept
<1>1. CASE UNCHANGED vars
  BY <1>1, IdleKeepsLists DEF vars
<1>2. ASSUME NEW c \in Sockets, Connect(c) \/ Disconnect(c) \/ Leave(c)
      PROVE  ListsInv' /\ HostsKept /\ SeatsKept
  BY <1>2, ConnectKeepsLists, DisconnectKeepsLists, LeaveKeepsLists
<1>3. ASSUME NEW c \in Sockets, NEW t \in Totals,
             JoinQueue(c, t) \/ CreateRoom(c, t)
      PROVE  ListsInv' /\ HostsKept /\ SeatsKept
  BY <1>3, JoinQueueKeepsLists, CreateRoomKeepsLists
<1>4. ASSUME NEW c \in Sockets, NEW k \in Codes, JoinRoom(c, k)
      PROVE  ListsInv' /\ HostsKept /\ SeatsKept
  BY <1>4, JoinRoomKeepsLists
<1>5. ASSUME NEW c \in Sockets, ImHere(c)
      PROVE  ListsInv' /\ HostsKept /\ SeatsKept
  BY <1>5, IdleKeepsLists DEF ImHere, HubIdle
<1>6. ASSUME NEW r \in DOMAIN rooms,
             HandleEvent(r) \/ Burn(r) \/ PlayOut(r) \/ CloseRoom(r)
      PROVE  ListsInv' /\ HostsKept /\ SeatsKept
  BY <1>6, IdleKeepsLists DEF HandleEvent, Burn, PlayOut, CloseRoom, HubIdle
<1> QED
  BY <1>1, <1>2, <1>3, <1>4, <1>5, <1>6 DEF Next

LEMMA ListsAtFirst == Init => ListsInv
<1> SUFFICES ASSUME Init PROVE ListsInv
  OBVIOUS
<1>1. \A t \in Totals : Len(queues[t]) < t /\ IsInjective(queues[t])
  BY TotalsAreNat DEF Init, IsInjective
<1>2. QueuesOK(queues, Known)
  BY <1>1 DEF Init, QueuesOK
<1>3. PendingOK(pending, Known)
  BY DEF Init, PendingOK
<1> QED
  BY <1>2, <1>3 DEF Init, ListsInv

-----------------------------------------------------------------------------
(* The games: who was dealt in, and whether the hub has forgotten the game. *)

UidsIn(game) == {game.players[i].uid : i \in DOMAIN game.players}

(* What a room does to its game changes neither.                            *)
Agree(game, new) ==
  /\ new \in RoomType
  /\ UidsIn(new) = UidsIn(game)
  /\ (new.status = "closed") <=> (game.status = "closed")

Alike(rs, new) ==
  /\ new \in Seq(RoomType)
  /\ Len(new) = Len(rs)
  /\ \A r \in 1 .. Len(rs) : Agree(rs[r], new[r])

GamesInv ==
  /\ rooms \in Seq(RoomType)
  /\ room \in [Sockets -> 0 .. Len(rooms)]
  /\ byUID \in [Users -> 0 .. Len(rooms)]
  /\ ByUIDIsLatest

LEMMA AlikeAll ==
  ASSUME NEW as \in Seq(RoomType)
  PROVE  /\ Alike(as, as)
         /\ \A bs, cs : Alike(as, bs) /\ Alike(bs, cs) => Alike(as, cs)
<1>1. \A r \in 1 .. Len(as) : as[r] \in RoomType
  BY ElementOfSeq
<1> QED
  BY <1>1 DEF Alike, Agree

LEMMA SeatsTyped ==
  ASSUME NEW rs \in Seq(RoomType), NEW r \in 1 .. Len(rs)
  PROVE  /\ rs[r] \in RoomType
         /\ rs[r].events \in Seq(EventType)
         /\ rs[r].players \in Seq(PlayerType)
         /\ \A i \in 1 .. Len(rs[r].players) : rs[r].players[i] \in PlayerType
<1>1. rs[r] \in RoomType
  BY ElementOfSeq
<1>2. rs[r].events \in Seq(EventType) /\ rs[r].players \in Seq(PlayerType)
  BY <1>1 DEF RoomType
<1> QED
  BY <1>1, <1>2, ElementOfSeq

LEMMA GamePut ==
  ASSUME NEW rs \in Seq(RoomType), NEW r \in 1 .. Len(rs),
         NEW game, Agree(rs[r], game)
  PROVE  Alike(rs, [rs EXCEPT ![r] = game])
<1> DEFINE new == [rs EXCEPT ![r] = game]
<1>1. \A q \in 1 .. Len(rs) : Agree(rs[q], rs[q])
  BY ElementOfSeq DEF Agree
<1>2. /\ new \in Seq(RoomType) /\ Len(new) = Len(rs)
      /\ \A q \in 1 .. Len(rs) : new[q] = IF q = r THEN game ELSE rs[q]
  BY ExceptSeq DEF Agree
<1> HIDE DEF new
<1>3. \A q \in 1 .. Len(rs) : Agree(rs[q], new[q])
  BY <1>1, <1>2
<1> QED
  BY <1>2, <1>3 DEF Alike, new

LEMMA EventsSet ==
  ASSUME NEW rs \in Seq(RoomType), NEW r \in 1 .. Len(rs),
         NEW es \in Seq(EventType)
  PROVE  Alike(rs, [rs EXCEPT ![r].events = es])
<1> DEFINE g == rs[r]
           h == [g EXCEPT !.events = es]
<1>1. g \in RoomType
  BY ElementOfSeq
<1>2. h \in RoomType /\ h.players = g.players /\ h.status = g.status
  BY <1>1 DEF RoomType
<1>3. Agree(g, h)
  BY <1>2 DEF Agree, UidsIn
<1>4. [rs EXCEPT ![r].events = es] = [rs EXCEPT ![r] = h]
  OBVIOUS
<1> HIDE DEF h
<1> QED
  BY <1>3, <1>4, GamePut

(* A seat is changed, but not whose seat it is.                             *)
LEMMA SeatPut ==
  ASSUME NEW rs \in Seq(RoomType), NEW r \in 1 .. Len(rs),
         NEW i \in DOMAIN rs[r].players, NEW p \in PlayerType,
         p.uid = rs[r].players[i].uid
  PROVE  Alike(rs, [rs EXCEPT ![r].players[i] = p])
<1> DEFINE g == rs[r]
           s == g.players
           m == [s EXCEPT ![i] = p]
           h == [g EXCEPT !.players = m]
<1>1. g \in RoomType
  BY ElementOfSeq
<1>2. s \in Seq(PlayerType) /\ Len(s) \in Nat /\ DOMAIN s = 1 .. Len(s)
  BY <1>1, LenProperties DEF RoomType
<1>3. /\ m \in Seq(PlayerType) /\ Len(m) = Len(s)
      /\ \A j \in 1 .. Len(s) : m[j] = IF j = i THEN p ELSE s[j]
  BY <1>2, ExceptSeq
<1>4. DOMAIN m = 1 .. Len(s)
  BY <1>3, LenProperties
<1>5. [rs EXCEPT ![r].players[i] = p] = [rs EXCEPT ![r] = h]
  OBVIOUS
<1> HIDE DEF m
<1>6. {m[j].uid : j \in DOMAIN m} = {s[j].uid : j \in DOMAIN s}
  BY <1>2, <1>3, <1>4
<1>7. h \in RoomType /\ h.players = m /\ h.status = g.status
  BY <1>1, <1>3 DEF RoomType
<1> HIDE DEF h
<1>8. Agree(g, h)
  BY <1>6, <1>7 DEF Agree, UidsIn
<1> QED
  BY <1>5, <1>8, GamePut

LEMMA ClientSet ==
  ASSUME NEW rs \in Seq(RoomType), NEW r \in 1 .. Len(rs),
         NEW i \in DOMAIN rs[r].players, NEW c \in Sockets \cup {NoSocket}
  PROVE  Alike(rs, [rs EXCEPT ![r].players[i].client = c])
<1> DEFINE p == [rs[r].players[i] EXCEPT !.client = c]
<1>1. rs[r].players[i] \in PlayerType
  BY SeatsTyped, LenProperties
<1>2. p \in PlayerType /\ p.uid = rs[r].players[i].uid
  BY <1>1 DEF PlayerType
<1>3. [rs EXCEPT ![r].players[i].client = c] = [rs EXCEPT ![r].players[i] = p]
  OBVIOUS
<1> HIDE DEF p
<1> QED
  BY <1>2, <1>3, SeatPut

LEMMA OutSet ==
  ASSUME NEW rs \in Seq(RoomType), NEW r \in 1 .. Len(rs),
         NEW i \in DOMAIN rs[r].players
  PROVE  Alike(rs, [rs EXCEPT ![r].players[i].out = TRUE])
<1> DEFINE p == [rs[r].players[i] EXCEPT !.out = TRUE]
<1>1. rs[r].players[i] \in PlayerType
  BY SeatsTyped, LenProperties
<1>2. p \in PlayerType /\ p.uid = rs[r].players[i].uid
  BY <1>1 DEF PlayerType
<1>3. [rs EXCEPT ![r].players[i].out = TRUE] = [rs EXCEPT ![r].players[i] = p]
  OBVIOUS
<1> HIDE DEF p
<1> QED
  BY <1>2, <1>3, SeatPut

LEMMA GameOver ==
  ASSUME NEW rs \in Seq(RoomType), NEW r \in 1 .. Len(rs),
         rs[r].status # "closed"
  PROVE  Alike(rs, [rs EXCEPT ![r] = Over(@)])
<1> DEFINE g == rs[r]
           s == g.players
           m == [i \in DOMAIN s |-> [uid |-> s[i].uid, client |-> NoSocket,
                                     out |-> FALSE]]
           h == [players |-> m, status |-> "over", events |-> <<>>]
<1>1. g \in RoomType
  BY ElementOfSeq
<1>2. s \in Seq(PlayerType) /\ Len(s) \in Nat /\ DOMAIN s = 1 .. Len(s)
  BY <1>1, LenProperties DEF RoomType
<1>3. \A i \in 1 .. Len(s) : s[i] \in PlayerType
  BY <1>2, ElementOfSeq
<1>4. \A i \in 1 .. Len(s) : m[i] \in PlayerType /\ m[i].uid = s[i].uid
  BY <1>2, <1>3 DEF PlayerType
<1>5. m \in Seq(PlayerType)
  <2>1. m \in [1 .. Len(s) -> PlayerType]
    BY <1>2, <1>4
  <2> HIDE DEF m
  <2> QED
    BY <1>2, <2>1, SeqDef
<1>6. DOMAIN m = DOMAIN s
  OBVIOUS
<1>7. Over(g) = h
  BY DEF Over
<1> HIDE DEF m
<1>8. {m[i].uid : i \in DOMAIN m} = {s[i].uid : i \in DOMAIN s}
  BY <1>2, <1>4, <1>6
<1>9. h \in RoomType /\ h.players = m /\ h.status = "over"
  BY <1>5 DEF RoomType
<1> HIDE DEF h
<1>10. Agree(g, h)
  BY <1>8, <1>9 DEF Agree, UidsIn
<1> QED
  BY <1>7, <1>10, GamePut

(* What the hub posts to a room changes nothing but the room's events.      *)
LEMMA EventPosted ==
  ASSUME GamesInv, NEW r \in 1 .. Len(rooms), NEW c \in Sockets,
         NEW kind \in {"reconnect", "leave", "disconnect"}, Post(r, kind, c)
  PROVE  Alike(rooms, rooms')
<1>1. rooms \in Seq(RoomType)
  BY DEF GamesInv
<1>2. CASE UNCHANGED rooms
  BY <1>1, <1>2, AlikeAll
<1>3. CASE rooms' = [rooms EXCEPT ![r].events =
                       Append(rooms[r].events, [kind |-> kind, client |-> c])]
  <2> DEFINE es == Append(rooms[r].events, [kind |-> kind, client |-> c])
  <2>1. es \in Seq(EventType)
    <3>1. [kind |-> kind, client |-> c] \in EventType
      BY DEF EventType
    <3> QED
      BY <1>1, <3>1, SeatsTyped, AppendProperties
  <2> HIDE DEF es
  <2>2. rooms' = [rooms EXCEPT ![r].events = es]
    BY <1>3 DEF es
  <2> QED
    BY <1>1, <2>1, <2>2, EventsSet
<1> QED
  BY <1>2, <1>3 DEF Post

(* The first seat on a socket or of a user, if there is one.                *)
LEMMA SeatFound ==
  ASSUME NEW r, NEW c, rooms[r].players \in Seq(PlayerType)
  PROVE  PlayerOf(r, c) # 0 => PlayerOf(r, c) \in DOMAIN rooms[r].players
<1> DEFINE s == rooms[r].players
           I == {i \in 1 .. Len(s) : s[i].client = c}
<1>1. Len(s) \in Nat /\ DOMAIN s = 1 .. Len(s)
  BY LenProperties
<1>2. CASE I = {}
  BY <1>2 DEF PlayerOf, SelectInSeq
<1>3. CASE I # {}
  <2>1. PlayerOf(r, c) = Min(I)
    BY <1>3 DEF PlayerOf, SelectInSeq
  <2>2. I \in SUBSET Nat
    BY <1>1
  <2>3. Min(I) \in I
    <3> HIDE DEF I
    <3> QED
      BY <1>3, <2>2, LeastExists
  <2> QED
    BY <1>1, <2>1, <2>3
<1> QED
  BY <1>2, <1>3

(* The end of a game, and a seat that is given up.                          *)
LEMMA Finished ==
  ASSUME GamesInv, NEW rs, Alike(rooms, rs), NEW r \in 1 .. Len(rooms),
         rs[r].status # "closed", Finish(rs, r)
  PROVE  Alike(rooms, rooms') /\ room' \in [Sockets -> 0 .. Len(rooms)]
<1>1. rooms \in Seq(RoomType) /\ rs \in Seq(RoomType) /\ Len(rs) = Len(rooms)
  BY DEF GamesInv, Alike
<1>2. Alike(rs, rooms')
  BY <1>1, GameOver DEF Finish
<1>3. Alike(rooms, rooms')
  BY <1>1, <1>2, AlikeAll
<1>4. room' \in [Sockets -> 0 .. Len(rooms)]
  <2>1. Len(rooms) \in Nat
    BY <1>1, LenProperties
  <2> QED
    BY <2>1 DEF Finish, GamesInv, NoRoom
<1> QED
  BY <1>3, <1>4

LEMMA Forfeited ==
  ASSUME GamesInv, NEW rs, Alike(rooms, rs), NEW r \in 1 .. Len(rooms),
         rs[r].status # "closed", NEW i \in DOMAIN rs[r].players,
         Forfeit(rs, r, i)
  PROVE  Alike(rooms, rooms') /\ room' \in [Sockets -> 0 .. Len(rooms)]
<1> DEFINE after == [rs EXCEPT ![r].players[i].out = TRUE]
<1>1. rooms \in Seq(RoomType) /\ rs \in Seq(RoomType) /\ Len(rs) = Len(rooms)
  BY DEF GamesInv, Alike
<1>2. Alike(rs, after)
  BY <1>1, OutSet
<1>3. (rooms' = after /\ UNCHANGED room) \/ Finish(after, r)
  BY DEF Forfeit
<1> HIDE DEF after
<1>4. Alike(rooms, after) /\ after[r].status # "closed"
  <2>1. Alike(rooms, after)
    BY <1>1, <1>2, AlikeAll
  <2> QED
    BY <1>1, <1>2, <2>1 DEF Alike, Agree
<1>5. CASE rooms' = after /\ UNCHANGED room
  BY <1>4, <1>5 DEF GamesInv
<1>6. CASE Finish(after, r)
  BY <1>4, <1>6, Finished
<1> QED
  BY <1>3, <1>5, <1>6

-----------------------------------------------------------------------------
(* What a step does to the games.                                           *)

LEMMA GamesKept ==
  ASSUME GamesInv, Alike(rooms, rooms'), UNCHANGED byUID,
         room' \in [Sockets -> 0 .. Len(rooms)]
  PROVE  GamesInv'
<1>1. /\ rooms' \in Seq(RoomType) /\ Len(rooms') = Len(rooms)
      /\ DOMAIN rooms = 1 .. Len(rooms) /\ DOMAIN rooms' = 1 .. Len(rooms)
  BY LenProperties DEF GamesInv, Alike
<1>2. \A r \in 1 .. Len(rooms) : Uids(r)' = Uids(r)
  BY DEF Alike, Agree, UidsIn, Uids
<1>3. \A r \in 1 .. Len(rooms) :
        rooms'[r].status = "closed" <=> rooms[r].status = "closed"
  BY DEF Alike, Agree
<1>4. Len(rooms) \in Nat
  BY LenProperties DEF GamesInv
<1>5. ByUIDIsLatest'
  <2>1. \A r \in 1 .. Len(rooms) : \A q \in r + 1 .. Len(rooms) :
          q \in 1 .. Len(rooms)
    BY <1>4
  <2> QED
    BY <1>1, <1>2, <1>3, <2>1 DEF GamesInv, ByUIDIsLatest
<1> QED
  BY <1>1, <1>5 DEF GamesInv

LEMMA UidsAreUsers ==
  ASSUME rooms \in Seq(RoomType), NEW r \in 1 .. Len(rooms)
  PROVE  Uids(r) \subseteq Users
<1> DEFINE s == rooms[r].players
<1>1. s \in Seq(PlayerType) /\ \A i \in 1 .. Len(s) : s[i] \in PlayerType
  BY SeatsTyped
<1>2. \A i \in DOMAIN s : s[i].uid \in Users
  BY <1>1, LenProperties DEF PlayerType
<1> QED
  BY <1>2 DEF Uids

LEMMA GamesIdle ==
  ASSUME GamesInv, UNCHANGED <<room, byUID, rooms>>
  PROVE  GamesInv'
BY GamesKept, AlikeAll DEF GamesInv

LEMMA GameStarted ==
  ASSUME GamesInv, NEW members \in Seq(Sockets), StartRoom(members)
  PROVE  GamesInv'
<1> DEFINE seats == [i \in DOMAIN members |->
                       [uid |-> Owner[members[i]], client |-> members[i],
                        out |-> FALSE]]
           game == [players |-> seats, status |-> "open", events |-> <<>>]
<1>0. PICK n \in Nat : n = Len(rooms)
  BY LenProperties DEF GamesInv
<1>1. /\ n \in Nat /\ DOMAIN rooms = 1 .. n /\ Len(members) \in Nat
      /\ DOMAIN members = 1 .. Len(members)
  BY <1>0, LenProperties DEF GamesInv
<1>2. seats \in Seq(PlayerType)
  <2>1. \A i \in 1 .. Len(members) : seats[i] \in PlayerType
    BY <1>1, ElementOfSeq, HubAssumption DEF PlayerType
  <2>2. seats \in [1 .. Len(members) -> PlayerType]
    BY <1>1, <2>1
  <2> HIDE DEF seats
  <2> QED
    BY <1>1, <2>2, SeqDef
<1>3. rooms' = Append(rooms, game)
  BY DEF StartRoom
<1>4. UidsIn(game) = {Owner[members[i]] : i \in DOMAIN members}
  BY DEF UidsIn
<1> HIDE DEF seats
<1>5. game \in RoomType /\ game.status = "open"
  BY <1>2 DEF RoomType
<1> HIDE DEF game
<1>6. /\ rooms' \in Seq(RoomType) /\ Len(rooms') = n + 1
      /\ rooms'[n + 1] = game
      /\ \A r \in 1 .. n : rooms'[r] = rooms[r]
  BY <1>0, <1>3, <1>5, AppendProperties DEF GamesInv
<1>7. DOMAIN rooms' = 1 .. n + 1
  BY <1>6, LenProperties
<1>8. room' \in [Sockets -> 0 .. n + 1] /\ byUID' \in [Users -> 0 .. n + 1]
  BY <1>0, <1>1 DEF StartRoom, NextId, GamesInv
<1>9. /\ \A r \in 1 .. n : Uids(r)' = Uids(r)
      /\ Uids(n + 1)' = UidsIn(game)
  BY <1>6 DEF Uids, UidsIn
<1>10. /\ \A u \in UidsIn(game) : byUID'[u] = n + 1
       /\ \A u \in Users \ UidsIn(game) : byUID'[u] = byUID[u]
  <2>1. UidsIn(game) \subseteq Users
    BY <1>1, <1>4, ElementOfSeq, HubAssumption
  <2> QED
    BY <1>0, <1>4, <2>1 DEF StartRoom, NextId
<1>11. ByUIDIsLatest'
  <2>1. ASSUME NEW r \in 1 .. n + 1, NEW u \in Uids(r)',
               \A q \in r + 1 .. n + 1 : u \notin Uids(q)'
        PROVE  byUID'[u] = IF rooms'[r].status = "closed" THEN NoRoom ELSE r
    <3>1. CASE r = n + 1
      BY <1>5, <1>6, <1>9, <1>10, <2>1, <3>1
    <3>2. CASE r \in 1 .. n
      <4>1. u \in Uids(r) /\ \A q \in r + 1 .. n : u \notin Uids(q)
        BY <1>1, <1>9, <2>1, <3>2
      <4>2. u \notin UidsIn(game)
        BY <1>1, <1>9, <2>1, <3>2
      <4>3. u \in Users
        BY <1>0, <3>2, <4>1, UidsAreUsers DEF GamesInv
      <4>4. byUID[u] = IF rooms[r].status = "closed" THEN NoRoom ELSE r
        BY <1>0, <1>1, <3>2, <4>1 DEF GamesInv, ByUIDIsLatest
      <4> QED
        BY <1>6, <1>10, <3>2, <4>2, <4>3, <4>4
    <3> QED
      BY <1>1, <3>1, <3>2
  <2> QED
    BY <1>6, <1>7, <2>1 DEF ByUIDIsLatest
<1> QED
  BY <1>6, <1>8, <1>11 DEF GamesInv

LEMMA GameClosed ==
  ASSUME GamesInv, NEW r \in DOMAIN rooms, CloseRoom(r)
  PROVE  GamesInv'
<1> DEFINE game == [rooms[r] EXCEPT !.status = "closed"]
           n == Len(rooms)
<1>1. /\ n \in Nat /\ DOMAIN rooms = 1 .. n /\ rooms \in Seq(RoomType)
      /\ rooms[r] \in RoomType
  BY LenProperties, ElementOfSeq DEF GamesInv
<1>2. /\ game \in RoomType /\ game.players = rooms[r].players
      /\ game.status = "closed"
  BY <1>1 DEF RoomType
<1>3. rooms' = [rooms EXCEPT ![r] = game]
  BY DEF CloseRoom
<1> HIDE DEF game
<1>4. /\ rooms' \in Seq(RoomType) /\ Len(rooms') = n
      /\ \A q \in 1 .. n : rooms'[q] = IF q = r THEN game ELSE rooms[q]
  BY <1>1, <1>2, <1>3, ExceptSeq
<1>5. DOMAIN rooms' = 1 .. n
  BY <1>4, LenProperties
<1>6. \A q \in 1 .. n : Uids(q)' = Uids(q)
  BY <1>2, <1>4 DEF Uids
<1>7. /\ byUID' \in [Users -> 0 .. n]
      /\ \A u \in Users : byUID'[u] = IF byUID[u] = r THEN NoRoom ELSE byUID[u]
  BY <1>1 DEF CloseRoom, Released, GamesInv, NoRoom
<1>8. ByUIDIsLatest'
  <2>1. ASSUME NEW q \in 1 .. n, NEW u \in Uids(q),
               \A p \in q + 1 .. n : u \notin Uids(p)
        PROVE  byUID'[u] = IF rooms'[q].status = "closed" THEN NoRoom ELSE q
    <3>1. u \in Users
      BY UidsAreUsers DEF GamesInv
    <3>2. byUID[u] = IF rooms[q].status = "closed" THEN NoRoom ELSE q
      BY <1>1, <2>1 DEF GamesInv, ByUIDIsLatest
    <3>3. rooms[r].status = "over"
      BY DEF CloseRoom
    <3>4. r # NoRoom
      BY <1>1 DEF NoRoom
    <3> QED
      BY <1>1, <1>2, <1>4, <1>7, <3>1, <3>2, <3>3, <3>4
  <2>2. \A q \in 1 .. n : \A p \in q + 1 .. n : p \in 1 .. n
    BY <1>1
  <2> QED
    BY <1>4, <1>5, <1>6, <2>1, <2>2 DEF ByUIDIsLatest
<1>9. room' = room
  BY DEF CloseRoom
<1> QED
  BY <1>4, <1>7, <1>8, <1>9 DEF GamesInv

LEMMA HandleEventKeepsGames ==
  ASSUME GamesInv, NEW r \in DOMAIN rooms, HandleEvent(r)
  PROVE  GamesInv'
<1> DEFINE ev == Head(rooms[r].events)
           c == ev.client
           p == PlayerOf(r, c)
           q == PlayerForUID(r, Owner[c])
           es == Tail(rooms[r].events)
           rs == [rooms EXCEPT ![r].events = Tail(@)]
<1>1. /\ rooms \in Seq(RoomType) /\ r \in 1 .. Len(rooms)
      /\ Len(rooms) \in Nat
  BY LenProperties DEF GamesInv
<1>2. /\ rooms[r].players \in Seq(PlayerType)
      /\ ev \in EventType /\ es \in Seq(EventType)
  BY <1>1, SeatsTyped, HeadTailProperties DEF HandleEvent
<1>3. c \in Sockets
  BY <1>2 DEF EventType
<1>4. Alike(rooms, rs)
  <2>1. rs = [rooms EXCEPT ![r].events = es]
    OBVIOUS
  <2> HIDE DEF es, rs
  <2> QED
    BY <1>1, <1>2, <2>1, EventsSet
<1>5. rs[r].players = rooms[r].players /\ rs[r].status = "open"
  BY <1>1, SeatsTyped DEF HandleEvent, RoomType
<1>6. rs \in Seq(RoomType) /\ Len(rs) = Len(rooms)
  BY <1>4 DEF Alike
<1>7. /\ UNCHANGED byUID
      /\ \/ /\ q \in StillIn(rooms, r)
            /\ rooms' = [rs EXCEPT ![r].players[q].client = c]
            /\ room' = [room EXCEPT ![c] = r]
         \/ rooms' = rs /\ UNCHANGED room
         \/ /\ p # 0 /\ rooms' = [rs EXCEPT ![r].players[p].client = NoSocket]
            /\ UNCHANGED room
         \/ p \in StillIn(rooms, r) /\ Forfeit(rs, r, p)
  BY DEF HandleEvent, HubIdle
<1> HIDE DEF rs, p, q, c
<1>8. Alike(rooms, rooms') /\ room' \in [Sockets -> 0 .. Len(rooms)]
  <2>1. CASE /\ q \in StillIn(rooms, r)
             /\ rooms' = [rs EXCEPT ![r].players[q].client = c]
             /\ room' = [room EXCEPT ![c] = r]
    <3>1. q \in DOMAIN rs[r].players
      BY <1>5, <2>1 DEF StillIn
    <3>2. Alike(rs, rooms')
      BY <1>1, <1>3, <1>6, <2>1, <3>1, ClientSet
    <3>3. room' \in [Sockets -> 0 .. Len(rooms)]
      <4>1. r \in 0 .. Len(rooms)
        BY <1>1
      <4>2. room \in [Sockets -> 0 .. Len(rooms)]
        BY DEF GamesInv
      <4> QED
        BY <2>1, <4>1, <4>2
    <3> QED
      BY <1>1, <1>4, <3>2, <3>3, AlikeAll
  <2>2. CASE rooms' = rs /\ UNCHANGED room
    BY <1>4, <2>2 DEF GamesInv
  <2>3. CASE /\ p # 0
             /\ rooms' = [rs EXCEPT ![r].players[p].client = NoSocket]
             /\ UNCHANGED room
    <3>1. p \in DOMAIN rs[r].players
      BY <1>2, <1>5, <2>3, SeatFound DEF p
    <3>2. Alike(rs, rooms')
      BY <1>1, <1>6, <2>3, <3>1, ClientSet
    <3> QED
      BY <1>1, <1>4, <2>3, <3>2, AlikeAll DEF GamesInv
  <2>4. CASE p \in StillIn(rooms, r) /\ Forfeit(rs, r, p)
    <3>1. p \in DOMAIN rs[r].players
      BY <1>5, <2>4 DEF StillIn
    <3> QED
      BY <1>1, <1>4, <1>5, <2>4, <3>1, Forfeited
  <2> QED
    BY <1>7, <2>1, <2>2, <2>3, <2>4
<1> QED
  BY <1>7, <1>8, GamesKept

LEMMA ImHereKeepsGames ==
  ASSUME GamesInv, NEW c \in Sockets, ImHere(c)
  PROVE  GamesInv'
<1> DEFINE r == room[c]
           q == PlayerForUID(r, Owner[c])
           rs == [rooms EXCEPT ![r].players[q].client = c]
<1>1. /\ r # NoRoom /\ rooms[r].status = "open" /\ q \in StillIn(rooms, r)
      /\ (rooms' = rs /\ UNCHANGED room) \/ Forfeit(rs, r, q)
      /\ UNCHANGED byUID
  <2>1. r # NoRoom /\ rooms[r].status = "open" /\ q \in StillIn(rooms, r)
    BY DEF ImHere
  <2>2. (rooms' = rs /\ UNCHANGED room) \/ Forfeit(rs, r, q)
    BY DEF ImHere
  <2>3. UNCHANGED byUID
    BY DEF ImHere, HubIdle
  <2> QED
    BY <2>1, <2>2, <2>3
<1>2. rooms \in Seq(RoomType) /\ r \in 1 .. Len(rooms)
  <2>1. rooms \in Seq(RoomType) /\ r \in 0 .. Len(rooms) /\ Len(rooms) \in Nat
    BY LenProperties DEF GamesInv
  <2> HIDE DEF r
  <2> QED
    BY <1>1, <2>1 DEF NoRoom
<1>3. q \in DOMAIN rooms[r].players
  BY <1>1 DEF StillIn
<1>4. DOMAIN rs[r].players = DOMAIN rooms[r].players
  <2>1. rooms[r] \in RoomType
    BY <1>2, SeatsTyped
  <2>2. rooms \in [1 .. Len(rooms) -> RoomType]
    BY <1>2, LenProperties
  <2> HIDE DEF r, q
  <2> QED
    BY <1>2, <2>1, <2>2 DEF RoomType
<1> HIDE DEF r, q
<1>5. Alike(rooms, rs)
  BY <1>2, <1>3, ClientSet
<1> HIDE DEF rs
<1>6. rs[r].status # "closed"
  BY <1>1, <1>2, <1>5 DEF Alike, Agree
<1>7. Alike(rooms, rooms') /\ room' \in [Sockets -> 0 .. Len(rooms)]
  <2>1. CASE rooms' = rs /\ UNCHANGED room
    BY <1>5, <2>1 DEF GamesInv
  <2>2. CASE Forfeit(rs, r, q)
    <3>1. q \in DOMAIN rs[r].players
      BY <1>3, <1>4
    <3> QED
      BY <1>2, <1>5, <1>6, <2>2, <3>1, Forfeited
  <2> QED
    BY <1>1, <2>1, <2>2
<1> QED
  BY <1>1, <1>7, GamesKept

LEMMA ConnectKeepsGames ==
  ASSUME GamesInv, NEW c \in Sockets, Connect(c)
  PROVE  GamesInv'
<1> DEFINE u == Owner[c]
<1>1. UNCHANGED byUID
  BY DEF Connect
<1>2. \/ /\ byUID[u] # NoRoom /\ Post(byUID[u], "reconnect", c)
         /\ room' = [room EXCEPT ![c] = byUID[u]]
      \/ UNCHANGED <<room, rooms>>
  BY DEF Connect
<1>3. u \in Users
  BY HubAssumption
<1> HIDE DEF u
<1>4. CASE UNCHANGED <<room, rooms>>
  BY <1>1, <1>4, GamesIdle
<1>5. CASE /\ byUID[u] # NoRoom /\ Post(byUID[u], "reconnect", c)
           /\ room' = [room EXCEPT ![c] = byUID[u]]
  <2>1. byUID[u] \in 0 .. Len(rooms) /\ Len(rooms) \in Nat
    BY <1>3, LenProperties DEF GamesInv
  <2>2. byUID[u] \in 1 .. Len(rooms)
    BY <1>5, <2>1 DEF NoRoom
  <2>3. Alike(rooms, rooms')
    BY <1>5, <2>2, EventPosted
  <2>4. room' \in [Sockets -> 0 .. Len(rooms)]
    BY <1>5, <2>1 DEF GamesInv
  <2> QED
    BY <1>1, <2>3, <2>4, GamesKept
<1> QED
  BY <1>2, <1>4, <1>5

(* What a leaver or a lost connection makes the hub post.                   *)
LEMMA PostKeepsGames ==
  ASSUME GamesInv, NEW c \in Sockets, room[c] # NoRoom,
         NEW kind \in {"leave", "disconnect"}, Post(room[c], kind, c),
         UNCHANGED <<room, byUID>>
  PROVE  GamesInv'
<1>1. room[c] \in 0 .. Len(rooms) /\ Len(rooms) \in Nat
  BY LenProperties DEF GamesInv
<1>2. room[c] \in 1 .. Len(rooms)
  BY <1>1 DEF NoRoom
<1>3. Alike(rooms, rooms')
  BY <1>2, EventPosted
<1> QED
  BY <1>3, GamesKept DEF GamesInv

LEMMA LeaveKeepsGames ==
  ASSUME GamesInv, NEW c \in Sockets, Leave(c)
  PROVE  GamesInv'
<1>1. UNCHANGED <<room, byUID>>
  BY DEF Leave
<1>2. UNCHANGED rooms \/ (room[c] # NoRoom /\ Post(room[c], "leave", c))
  BY DEF Leave
<1> QED
  BY <1>1, <1>2, GamesIdle, PostKeepsGames

LEMMA DisconnectKeepsGames ==
  ASSUME GamesInv, NEW c \in Sockets, Disconnect(c)
  PROVE  GamesInv'
<1>1. UNCHANGED <<room, byUID>>
  BY DEF Disconnect
<1>2. UNCHANGED rooms \/ (room[c] # NoRoom /\ Post(room[c], "disconnect", c))
  BY DEF Disconnect
<1> QED
  BY <1>1, <1>2, GamesIdle, PostKeepsGames

LEMMA KnownAreSockets == Seq(Known) \subseteq Seq(Sockets)
<1>1. Known \subseteq Sockets
  BY DEF Known
<1> QED
  BY <1>1, SeqMonotonic

LEMMA JoinQueueKeepsGames ==
  ASSUME ListsInv, GamesInv, NEW c \in Sockets, NEW t \in Totals,
         JoinQueue(c, t)
  PROVE  GamesInv'
<1> DEFINE q == Append(queues[t], c)
<1>1. \/ NothingStarts
      \/ /\ c \notin Range(queues[t]) /\ Full(q, t)
         /\ StartRoom(SubSeq(q, 1, t))
  BY DEF JoinQueue
<1>2. CASE NothingStarts
  BY <1>2, GamesIdle DEF NothingStarts
<1>3. CASE /\ c \notin Range(queues[t]) /\ Full(q, t)
           /\ StartRoom(SubSeq(q, 1, t))
  <2>1. QueuesOK(queues, Known) /\ c \in Known
    BY WaitingIsKnown DEF ListsInv, JoinQueue
  <2>2. SubSeq(q, 1, t) \in Seq(Known)
    BY <1>3, <2>1, QueueJoined
  <2>3. SubSeq(q, 1, t) \in Seq(Sockets)
    BY <2>2, KnownAreSockets
  <2> HIDE DEF q
  <2> QED
    BY <1>3, <2>3, GameStarted
<1> QED
  BY <1>1, <1>2, <1>3

LEMMA JoinRoomKeepsGames ==
  ASSUME ListsInv, GamesInv, NEW c \in Sockets, NEW k \in Codes,
         JoinRoom(c, k)
  PROVE  GamesInv'
<1>1. PICK pend \in WithoutPending(c) :
        NothingStarts \/ StartRoom(Append(pend[k].members, c))
  BY DEF JoinRoom
<1>2. CASE NothingStarts
  BY <1>2, GamesIdle DEF NothingStarts
<1>3. CASE StartRoom(Append(pend[k].members, c))
  <2>1. PendingOK(pend, Known) /\ Left(pending, pend, c)
    BY PendingLeft DEF ListsInv
  <2>2. k \in DOMAIN pend
    <3>1. k \in DOMAIN pending /\ c \notin Range(pending[k].members)
      BY DEF JoinRoom
    <3>2. k \in DOMAIN pending /\ pending[k].members[1] # c
      BY <3>1, FirstIsMember DEF ListsInv
    <3> QED
      BY <2>1, <3>2 DEF Left
  <2>3. pend[k].members \in Seq(Known) /\ c \in Known
    BY <2>1, <2>2, WaitingIsKnown DEF PendingOK, JoinRoom
  <2>4. Append(pend[k].members, c) \in Seq(Sockets)
    BY <2>3, AppendProperties, KnownAreSockets
  <2> QED
    BY <1>3, <2>4, GameStarted
<1> QED
  BY <1>1, <1>2, <1>3

LEMMA GamesStep ==
  ASSUME ListsInv, GamesInv, [Next]_vars
  PROVE  GamesInv'
<1>1. CASE UNCHANGED vars
  BY <1>1, GamesIdle DEF vars
<1>2. ASSUME NEW c \in Sockets,
             Connect(c) \/ Disconnect(c) \/ Leave(c) \/ ImHere(c)
      PROVE  GamesInv'
  BY <1>2, ConnectKeepsGames, DisconnectKeepsGames, LeaveKeepsGames,
     ImHereKeepsGames
<1>3. ASSUME NEW c \in Sockets, NEW t \in Totals,
             JoinQueue(c, t) \/ CreateRoom(c, t)
      PROVE  GamesInv'
  <2>1. CASE JoinQueue(c, t)
    BY <2>1, JoinQueueKeepsGames
  <2>2. CASE CreateRoom(c, t)
    BY <2>2, GamesIdle DEF CreateRoom, NothingStarts
  <2> QED
    BY <1>3, <2>1, <2>2
<1>4. ASSUME NEW c \in Sockets, NEW k \in Codes, JoinRoom(c, k)
      PROVE  GamesInv'
  BY <1>4, JoinRoomKeepsGames
<1>5. ASSUME NEW r \in DOMAIN rooms, HandleEvent(r) \/ CloseRoom(r)
      PROVE  GamesInv'
  BY <1>5, HandleEventKeepsGames, GameClosed
<1>6. ASSUME NEW r \in DOMAIN rooms, Burn(r) \/ PlayOut(r)
      PROVE  GamesInv'
  <2>1. /\ rooms \in Seq(RoomType) /\ r \in 1 .. Len(rooms)
        /\ rooms[r].status = "open" /\ UNCHANGED byUID
    BY <1>6, LenProperties DEF GamesInv, Burn, PlayOut, HubIdle
  <2>2. Alike(rooms, rooms)
    BY <2>1, AlikeAll
  <2>3. Alike(rooms, rooms') /\ room' \in [Sockets -> 0 .. Len(rooms)]
    <3>1. CASE Burn(r)
      <4>1. PICK i \in DOMAIN rooms[r].players : Forfeit(rooms, r, i)
        BY <3>1 DEF Burn, StillIn
      <4> QED
        BY <2>1, <2>2, <4>1, Forfeited
    <3>2. CASE PlayOut(r)
      BY <2>1, <2>2, <3>2, Finished DEF PlayOut
    <3> QED
      BY <1>6, <3>1, <3>2
  <2> QED
    BY <2>1, <2>3, GamesKept
<1> QED
  BY <1>1, <1>2, <1>3, <1>4, <1>5, <1>6 DEF Next

LEMMA GamesAtFirst == Init => GamesInv
<1> SUFFICES ASSUME Init PROVE GamesInv
  OBVIOUS
<1>1. rooms = <<>> /\ rooms \in Seq(RoomType) /\ Len(rooms) = 0
  BY DEF Init
<1>2. ByUIDIsLatest
  BY <1>1 DEF ByUIDIsLatest
<1> QED
  BY <1>1, <1>2 DEF Init, GamesInv, NoRoom

-----------------------------------------------------------------------------
(* The places of a connection: who is bound to which game, and who is on    *)
(* the way back to one.                                                     *)

(* Who is served in a game, and who is on the way back to it.               *)
ServedIn(game, c) == \E i \in DOMAIN game.players : game.players[i].client = c

ReturnsTo(game, c) ==
  \E i \in DOMAIN game.events :
    game.events[i].kind = "reconnect" /\ game.events[i].client = c

(* A connection that is on its way back to a game is bound to it, waits     *)
(* nowhere and is served in no other game: so the room that takes it binds  *)
(* it to nothing new, and no other game that ends releases it.              *)
BindInv ==
  /\ \A c \in Sockets : room[c] # NoRoom => c \in Known
  /\ \A r \in DOMAIN rooms : \A c \in Sockets :
       ServedIn(rooms[r], c) => c \in Known
  /\ \A r \in DOMAIN rooms : \A c \in Sockets :
       ReturnsTo(rooms[r], c) =>
         /\ c \in Known /\ room[c] = r
         /\ QueuesOf(c) = {} /\ RoomsOf(c) = {}
         /\ \A q \in DOMAIN rooms : ServedIn(rooms[q], c) => q = r

PlacesKept == \A c \in Sockets : OnePlace(c) => OnePlace(c)'

(* Who loses places, and gets none, keeps at most one.                      *)
LEMMA FewerPlaces ==
  ASSUME NEW c \in Sockets, OnePlace(c), QueuesOf(c)' \subseteq QueuesOf(c),
         RoomsOf(c)' \subseteq RoomsOf(c), room'[c] \in {room[c], NoRoom}
  PROVE  OnePlace(c)'
BY DEF OnePlace

(* What a handler does to the games: c is served in game r at most.         *)
Follows(rs, new, r, c) ==
  \A q \in 1 .. Len(rs) : \A d \in Sockets :
    /\ ServedIn(new[q], d) => ServedIn(rs[q], d) \/ (q = r /\ d = c)
    /\ ReturnsTo(new[q], d) => ReturnsTo(rs[q], d)

LEMMA FollowsPut ==
  ASSUME NEW rs \in Seq(RoomType), NEW r \in 1 .. Len(rs), NEW game, NEW c,
         \A d \in Sockets :
           /\ ServedIn(game, d) => ServedIn(rs[r], d) \/ d = c
           /\ ReturnsTo(game, d) => ReturnsTo(rs[r], d)
  PROVE  Follows(rs, [rs EXCEPT ![r] = game], r, c)
<1> DEFINE new == [rs EXCEPT ![r] = game]
<1>1. \A q \in 1 .. Len(rs) : new[q] = IF q = r THEN game ELSE rs[q]
  <2>1. DOMAIN rs = 1 .. Len(rs)
    BY LenProperties
  <2> QED
    BY <2>1
<1> HIDE DEF new
<1> QED
  BY <1>1 DEF Follows, new

LEMMA FollowsTail ==
  ASSUME NEW rs \in Seq(RoomType), NEW r \in 1 .. Len(rs),
         rs[r].events # <<>>
  PROVE  Follows(rs, [rs EXCEPT ![r].events = Tail(@)], r, NoSocket)
<1> DEFINE g == rs[r]
           es == Tail(g.events)
           h == [g EXCEPT !.events = es]
<1>1. g \in RoomType /\ g.events \in Seq(EventType)
  BY SeatsTyped
<1>2. /\ DOMAIN es = 1 .. Len(g.events) - 1
      /\ DOMAIN g.events = 1 .. Len(g.events) /\ Len(g.events) \in Nat
      /\ \A i \in 1 .. Len(g.events) - 1 : es[i] = g.events[i + 1]
  BY <1>1, HeadTailProperties, LenProperties
<1>3. h.players = g.players /\ h.events = es
  BY <1>1 DEF RoomType
<1>4. [rs EXCEPT ![r].events = Tail(@)] = [rs EXCEPT ![r] = h]
  OBVIOUS
<1> HIDE DEF h, es
<1>5. \A d : ServedIn(h, d) => ServedIn(g, d)
  BY <1>3 DEF ServedIn
<1>6. \A d : ReturnsTo(h, d) => ReturnsTo(g, d)
  <2>1. ASSUME NEW i \in DOMAIN es
        PROVE  i + 1 \in DOMAIN g.events /\ es[i] = g.events[i + 1]
    BY <1>2, <2>1
  <2> QED
    BY <1>3, <2>1 DEF ReturnsTo
<1> QED
  BY <1>4, <1>5, <1>6, FollowsPut

LEMMA FollowsSeat ==
  ASSUME NEW rs \in Seq(RoomType), NEW r \in 1 .. Len(rs),
         NEW i \in DOMAIN rs[r].players, NEW p
  PROVE  Follows(rs, [rs EXCEPT ![r].players[i] = p], r, p.client)
<1> DEFINE g == rs[r]
           m == [g.players EXCEPT ![i] = p]
           h == [g EXCEPT !.players = m]
<1>1. g \in RoomType
  BY SeatsTyped
<1>2. h.players = m /\ h.events = g.events
  BY <1>1 DEF RoomType
<1>3. [rs EXCEPT ![r].players[i] = p] = [rs EXCEPT ![r] = h]
  OBVIOUS
<1>4. \A j \in DOMAIN m : j \in DOMAIN g.players
                          /\ m[j] = IF j = i THEN p ELSE g.players[j]
  OBVIOUS
<1> HIDE DEF h, m
<1>5. \A d : ServedIn(h, d) => ServedIn(g, d) \/ d = p.client
  BY <1>2, <1>4 DEF ServedIn
<1>6. \A d : ReturnsTo(h, d) => ReturnsTo(g, d)
  BY <1>2 DEF ReturnsTo
<1> QED
  BY <1>3, <1>5, <1>6, FollowsPut

LEMMA FollowsClient ==
  ASSUME NEW rs \in Seq(RoomType), NEW r \in 1 .. Len(rs),
         NEW i \in DOMAIN rs[r].players, NEW c \in Sockets \cup {NoSocket}
  PROVE  Follows(rs, [rs EXCEPT ![r].players[i].client = c], r, c)
<1> DEFINE p == [rs[r].players[i] EXCEPT !.client = c]
<1>1. rs[r].players[i] \in PlayerType
  BY SeatsTyped, LenProperties
<1>2. p.client = c
  BY <1>1 DEF PlayerType
<1>3. [rs EXCEPT ![r].players[i].client = c] = [rs EXCEPT ![r].players[i] = p]
  OBVIOUS
<1> HIDE DEF p
<1> QED
  BY <1>2, <1>3, FollowsSeat

LEMMA FollowsOut ==
  ASSUME NEW rs \in Seq(RoomType), NEW r \in 1 .. Len(rs),
         NEW i \in DOMAIN rs[r].players, NEW c
  PROVE  Follows(rs, [rs EXCEPT ![r].players[i].out = TRUE], r, c)
<1> DEFINE p == [rs[r].players[i] EXCEPT !.out = TRUE]
           new == [rs EXCEPT ![r].players[i] = p]
<1>1. rs[r].players[i] \in PlayerType /\ DOMAIN rs = 1 .. Len(rs)
  BY SeatsTyped, LenProperties
<1>2. p.client = rs[r].players[i].client
  BY <1>1 DEF PlayerType
<1>3. [rs EXCEPT ![r].players[i].out = TRUE] = new
  OBVIOUS
<1> HIDE DEF p
<1>4. Follows(rs, new, r, p.client)
  BY FollowsSeat
<1>5. ServedIn(rs[r], p.client)
  BY <1>2 DEF ServedIn
<1> HIDE DEF new
<1> QED
  BY <1>3, <1>4, <1>5 DEF Follows

LEMMA FollowsOn ==
  ASSUME NEW as, NEW bs, NEW cs, NEW r, NEW c, Len(bs) = Len(as),
         Follows(as, bs, r, c), Follows(bs, cs, r, c)
  PROVE  Follows(as, cs, r, c)
BY DEF Follows

LEMMA NobodyServed ==
  ASSUME NEW game, NEW d \in Sockets
  PROVE  ~ServedIn(Over(game), d) /\ ~ReturnsTo(Over(game), d)
<1> DEFINE seats == [i \in DOMAIN game.players |->
                       [uid |-> game.players[i].uid, client |-> NoSocket,
                        out |-> FALSE]]
           over == [players |-> seats, status |-> "over", events |-> <<>>]
<1>1. Over(game) = over /\ over.players = seats /\ over.events = <<>>
  BY DEF Over
<1>2. \A i \in DOMAIN seats : seats[i].client = NoSocket
  OBVIOUS
<1>3. DOMAIN <<>> = {}
  OBVIOUS
<1> HIDE DEF seats, over
<1> QED
  BY <1>1, <1>2, <1>3, HubAssumption DEF ServedIn, ReturnsTo

(* One handler of a room.                                                   *)
LEMMA RoomKeepsPlaces ==
  ASSUME GamesInv, BindInv, UNCHANGED <<conn, queues, pending>>,
         NEW r \in DOMAIN rooms, NEW c, c \in Sockets => room[c] = r,
         NEW rs \in Seq(RoomType), Len(rs) = Len(rooms),
         Follows(rooms, rs, r, c),
         (rooms' = rs /\ UNCHANGED room) \/ Finish(rs, r)
  PROVE  BindInv' /\ PlacesKept
<1>1. /\ DOMAIN rooms = 1 .. Len(rooms) /\ DOMAIN rs = 1 .. Len(rooms)
      /\ room \in [Sockets -> 0 .. Len(rooms)]
  BY LenProperties DEF GamesInv
<1>2. /\ Known' = Known
      /\ \A d : QueuesOf(d)' = QueuesOf(d) /\ RoomsOf(d)' = RoomsOf(d)
  BY DEF Known, QueuesOf, RoomsOf
<1>3. DOMAIN rooms' = 1 .. Len(rooms)
  BY <1>1 DEF Finish
<1>4. ASSUME NEW q \in 1 .. Len(rooms), NEW d \in Sockets
      PROVE  /\ ServedIn(rooms'[q], d) => ServedIn(rs[q], d)
             /\ ReturnsTo(rooms'[q], d) => ReturnsTo(rs[q], d)
             /\ Finish(rs, r) => ~ReturnsTo(rooms'[r], d)
  <2>1. CASE rooms' = rs /\ ~Finish(rs, r)
    BY <2>1
  <2>2. CASE Finish(rs, r)
    <3>1. rooms'[q] = IF q = r THEN Over(rs[r]) ELSE rs[q]
      BY <1>1, <1>4, <2>2 DEF Finish
    <3>2. rooms'[r] = Over(rs[r])
      BY <1>1, <2>2 DEF Finish
    <3>3. ~ServedIn(Over(rs[r]), d) /\ ~ReturnsTo(Over(rs[r]), d)
      BY NobodyServed
    <3> QED
      BY <3>1, <3>2, <3>3
  <2> QED
    BY <2>1, <2>2
<1>5. ASSUME NEW d \in Sockets
      PROVE  /\ room'[d] \in {room[d], NoRoom}
             /\ room'[d] # room[d] => Finish(rs, r) /\ ServedIn(rs[r], d)
  BY <1>1, <1>5 DEF Finish, ServedIn
<1>6. PlacesKept
  BY <1>2, <1>5, FewerPlaces DEF PlacesKept
<1>7. ASSUME NEW q \in 1 .. Len(rooms), NEW d \in Sockets,
             ServedIn(rooms'[q], d)
      PROVE  ServedIn(rooms[q], d) \/ (q = r /\ d = c)
  BY <1>4, <1>7 DEF Follows
<1>8. \A d \in Sockets : room'[d] # NoRoom => d \in Known'
  BY <1>2, <1>5 DEF BindInv
<1>9. \A q \in 1 .. Len(rooms) : \A d \in Sockets :
        ServedIn(rooms'[q], d) => d \in Known'
  <2>1. r # NoRoom
    BY <1>1 DEF NoRoom
  <2> QED
    BY <1>1, <1>2, <1>7, <2>1 DEF BindInv
<1>10. ASSUME NEW q \in 1 .. Len(rooms), NEW d \in Sockets,
              ReturnsTo(rooms'[q], d)
       PROVE  /\ d \in Known' /\ room'[d] = q
              /\ QueuesOf(d)' = {} /\ RoomsOf(d)' = {}
              /\ \A p \in 1 .. Len(rooms) : ServedIn(rooms'[p], d) => p = q
  <2>1. ReturnsTo(rooms[q], d)
    BY <1>4, <1>10 DEF Follows
  <2>2. /\ d \in Known /\ room[d] = q /\ QueuesOf(d) = {} /\ RoomsOf(d) = {}
        /\ \A p \in 1 .. Len(rooms) : ServedIn(rooms[p], d) => p = q
    BY <1>1, <2>1 DEF BindInv
  <2>3. \A p \in 1 .. Len(rooms) : ServedIn(rooms'[p], d) => p = q
    BY <1>7, <2>2
  <2>4. room'[d] = q
    <3>1. SUFFICES ASSUME room'[d] # room[d] PROVE FALSE
      BY <2>2
    <3>2. Finish(rs, r) /\ ServedIn(rs[r], d)
      BY <1>5, <3>1
    <3>3. q # r
      BY <1>4, <1>10, <3>2
    <3>4. ServedIn(rooms[r], d) \/ d = c
      BY <1>1, <3>2 DEF Follows
    <3> QED
      BY <1>1, <2>2, <3>3, <3>4
  <2> QED
    BY <1>2, <2>2, <2>3, <2>4
<1>11. BindInv'
  BY <1>3, <1>8, <1>9, <1>10 DEF BindInv
<1> QED
  BY <1>6, <1>11

LEMMA ForfeitFollows ==
  ASSUME NEW rs, Alike(rooms, rs), NEW r \in 1 .. Len(rooms),
         NEW i \in DOMAIN rs[r].players, NEW c, Follows(rooms, rs, r, c),
         Forfeit(rs, r, i)
  PROVE  \E after \in Seq(RoomType) :
           /\ Len(after) = Len(rooms) /\ Follows(rooms, after, r, c)
           /\ (rooms' = after /\ UNCHANGED room) \/ Finish(after, r)
<1> DEFINE after == [rs EXCEPT ![r].players[i].out = TRUE]
<1>1. rs \in Seq(RoomType) /\ Len(rs) = Len(rooms)
  BY DEF Alike
<1>2. Alike(rs, after) /\ Follows(rs, after, r, c)
  BY <1>1, OutSet, FollowsOut
<1>3. (rooms' = after /\ UNCHANGED room) \/ Finish(after, r)
  BY DEF Forfeit
<1> HIDE DEF after
<1>4. after \in Seq(RoomType) /\ Len(after) = Len(rooms)
  BY <1>1, <1>2 DEF Alike
<1>5. Follows(rooms, after, r, c)
  BY <1>1, <1>2, FollowsOn
<1> QED
  BY <1>3, <1>4, <1>5

LEMMA FollowsNothing ==
  ASSUME NEW rs, NEW r, NEW c
  PROVE  Follows(rs, rs, r, c)
BY DEF Follows

LEMMA HandleEventKeepsPlaces ==
  ASSUME GamesInv, BindInv, NEW r \in DOMAIN rooms, HandleEvent(r)
  PROVE  BindInv' /\ PlacesKept
<1> DEFINE ev == Head(rooms[r].events)
           c == ev.client
           p == PlayerOf(r, c)
           q == PlayerForUID(r, Owner[c])
           rs == [rooms EXCEPT ![r].events = Tail(@)]
<1>1. /\ rooms \in Seq(RoomType) /\ r \in 1 .. Len(rooms)
      /\ rooms[r].events # <<>> /\ UNCHANGED <<conn, queues, pending>>
  BY LenProperties DEF GamesInv, HandleEvent, HubIdle
<1>2. /\ rooms[r].players \in Seq(PlayerType)
      /\ rooms[r].events \in Seq(EventType)
      /\ ev \in EventType /\ ev = rooms[r].events[1]
      /\ 1 \in DOMAIN rooms[r].events
      /\ Tail(rooms[r].events) \in Seq(EventType)
  <2>1. /\ rooms[r].players \in Seq(PlayerType)
        /\ rooms[r].events \in Seq(EventType)
    BY <1>1, SeatsTyped
  <2> QED
    BY <1>1, <2>1, HeadTailProperties, LenProperties
<1>3. c \in Sockets /\ (ev.kind = "reconnect" => room[c] = r)
  <2>1. c \in Sockets
    BY <1>2 DEF EventType
  <2>2. ev.kind = "reconnect" => ReturnsTo(rooms[r], c)
    BY <1>2 DEF ReturnsTo
  <2> HIDE DEF c
  <2> QED
    BY <2>1, <2>2 DEF BindInv
<1>4. Alike(rooms, rs) /\ Follows(rooms, rs, r, NoSocket)
  <2>1. Follows(rooms, rs, r, NoSocket)
    BY <1>1, FollowsTail
  <2>2. Alike(rooms, rs)
    <3> DEFINE es == Tail(rooms[r].events)
    <3>1. rs = [rooms EXCEPT ![r].events = es]
      OBVIOUS
    <3>2. es \in Seq(EventType)
      BY <1>2
    <3> HIDE DEF es, rs
    <3> QED
      BY <1>1, <3>1, <3>2, EventsSet
  <2> QED
    BY <2>1, <2>2
<1>5. rs[r].players = rooms[r].players
  BY <1>1, SeatsTyped DEF RoomType
<1>6. rs \in Seq(RoomType) /\ Len(rs) = Len(rooms)
  BY <1>4 DEF Alike
<1>7. \/ /\ ev.kind = "reconnect" /\ q \in StillIn(rooms, r)
         /\ rooms' = [rs EXCEPT ![r].players[q].client = c]
         /\ room' = [room EXCEPT ![c] = r]
      \/ rooms' = rs /\ UNCHANGED room
      \/ /\ p # 0 /\ rooms' = [rs EXCEPT ![r].players[p].client = NoSocket]
         /\ UNCHANGED room
      \/ p \in StillIn(rooms, r) /\ Forfeit(rs, r, p)
  BY DEF HandleEvent
<1> HIDE DEF rs, p, q, c, ev
<1>8. NoSocket \notin Sockets
  BY HubAssumption
<1>9. CASE /\ ev.kind = "reconnect" /\ q \in StillIn(rooms, r)
           /\ rooms' = [rs EXCEPT ![r].players[q].client = c]
           /\ room' = [room EXCEPT ![c] = r]
  <2>1. q \in DOMAIN rs[r].players
    BY <1>5, <1>9 DEF StillIn
  <2>2. Alike(rs, rooms') /\ Follows(rs, rooms', r, c)
    BY <1>1, <1>3, <1>6, <1>9, <2>1, ClientSet, FollowsClient
  <2>3. Follows(rooms, rs, r, c)
    BY <1>4, <1>8 DEF Follows
  <2>4. rooms' \in Seq(RoomType) /\ Len(rooms') = Len(rooms)
    BY <1>6, <2>2 DEF Alike
  <2>5. Follows(rooms, rooms', r, c)
    BY <1>6, <2>2, <2>3, FollowsOn
  <2>6. room' = room
    BY <1>3, <1>9 DEF GamesInv
  <2> QED
    BY <1>1, <1>3, <1>9, <2>4, <2>5, <2>6, RoomKeepsPlaces
<1>10. CASE rooms' = rs /\ UNCHANGED room
  BY <1>1, <1>4, <1>6, <1>8, <1>10, RoomKeepsPlaces
<1>11. CASE /\ p # 0 /\ rooms' = [rs EXCEPT ![r].players[p].client = NoSocket]
            /\ UNCHANGED room
  <2>1. p \in DOMAIN rs[r].players
    BY <1>2, <1>5, <1>11, SeatFound DEF p
  <2>2. Alike(rs, rooms') /\ Follows(rs, rooms', r, NoSocket)
    BY <1>1, <1>6, <1>11, <2>1, ClientSet, FollowsClient
  <2>3. rooms' \in Seq(RoomType) /\ Len(rooms') = Len(rooms)
    BY <1>6, <2>2 DEF Alike
  <2>4. Follows(rooms, rooms', r, NoSocket)
    BY <1>4, <1>6, <2>2, FollowsOn
  <2> QED
    BY <1>1, <1>8, <1>11, <2>3, <2>4, RoomKeepsPlaces
<1>12. CASE p \in StillIn(rooms, r) /\ Forfeit(rs, r, p)
  <2>1. p \in DOMAIN rs[r].players
    BY <1>5, <1>12 DEF StillIn
  <2>2. PICK after \in Seq(RoomType) :
          /\ Len(after) = Len(rooms) /\ Follows(rooms, after, r, NoSocket)
          /\ (rooms' = after /\ UNCHANGED room) \/ Finish(after, r)
    BY <1>1, <1>4, <1>12, <2>1, ForfeitFollows
  <2> QED
    BY <1>1, <1>8, <2>2, RoomKeepsPlaces
<1> QED
  BY <1>7, <1>9, <1>10, <1>11, <1>12

LEMMA ImHereKeepsPlaces ==
  ASSUME GamesInv, BindInv, NEW c \in Sockets, ImHere(c)
  PROVE  BindInv' /\ PlacesKept
<1> DEFINE r == room[c]
           q == PlayerForUID(r, Owner[c])
           rs == [rooms EXCEPT ![r].players[q].client = c]
<1>1. /\ r # NoRoom /\ q \in StillIn(rooms, r)
      /\ (rooms' = rs /\ UNCHANGED room) \/ Forfeit(rs, r, q)
  BY DEF ImHere
<1>2. UNCHANGED <<conn, queues, pending>>
  BY DEF ImHere, HubIdle
<1>3. rooms \in Seq(RoomType) /\ r \in 1 .. Len(rooms) /\ r \in DOMAIN rooms
  <2>1. /\ rooms \in Seq(RoomType) /\ r \in 0 .. Len(rooms)
        /\ Len(rooms) \in Nat /\ DOMAIN rooms = 1 .. Len(rooms)
    BY LenProperties DEF GamesInv
  <2> HIDE DEF r
  <2> QED
    BY <1>1, <2>1 DEF NoRoom
<1>4. q \in DOMAIN rooms[r].players
  BY <1>1 DEF StillIn
<1>5. DOMAIN rs[r].players = DOMAIN rooms[r].players
  <2>1. rooms[r] \in RoomType /\ rooms \in [1 .. Len(rooms) -> RoomType]
    BY <1>3, SeatsTyped, LenProperties
  <2> HIDE DEF r, q
  <2> QED
    BY <1>3, <2>1 DEF RoomType
<1>6. room[c] = r
  OBVIOUS
<1> HIDE DEF r, q
<1>7. Alike(rooms, rs) /\ Follows(rooms, rs, r, c)
  BY <1>3, <1>4, ClientSet, FollowsClient
<1> HIDE DEF rs
<1>8. rs \in Seq(RoomType) /\ Len(rs) = Len(rooms)
  BY <1>7 DEF Alike
<1>9. CASE rooms' = rs /\ UNCHANGED room
  BY <1>2, <1>3, <1>6, <1>7, <1>8, <1>9, RoomKeepsPlaces
<1>10. CASE Forfeit(rs, r, q)
  <2>1. q \in DOMAIN rs[r].players
    BY <1>4, <1>5
  <2>2. PICK after \in Seq(RoomType) :
          /\ Len(after) = Len(rooms) /\ Follows(rooms, after, r, c)
          /\ (rooms' = after /\ UNCHANGED room) \/ Finish(after, r)
    BY <1>3, <1>7, <1>10, <2>1, ForfeitFollows
  <2> QED
    BY <1>2, <1>3, <1>6, <2>2, RoomKeepsPlaces
<1> QED
  BY <1>1, <1>9, <1>10

LEMMA GameEndsKeepPlaces ==
  ASSUME GamesInv, BindInv, NEW r \in DOMAIN rooms, Burn(r) \/ PlayOut(r)
  PROVE  BindInv' /\ PlacesKept
<1>1. /\ rooms \in Seq(RoomType) /\ r \in 1 .. Len(rooms)
      /\ UNCHANGED <<conn, queues, pending>> /\ NoSocket \notin Sockets
      /\ Follows(rooms, rooms, r, NoSocket) /\ Alike(rooms, rooms)
  BY LenProperties, HubAssumption, FollowsNothing, AlikeAll
  DEF GamesInv, Burn, PlayOut, HubIdle
<1>2. CASE PlayOut(r)
  BY <1>1, <1>2, RoomKeepsPlaces DEF PlayOut
<1>3. CASE Burn(r)
  <2>1. PICK i \in DOMAIN rooms[r].players : Forfeit(rooms, r, i)
    BY <1>3 DEF Burn, StillIn
  <2>2. PICK after \in Seq(RoomType) :
          /\ Len(after) = Len(rooms) /\ Follows(rooms, after, r, NoSocket)
          /\ (rooms' = after /\ UNCHANGED room) \/ Finish(after, r)
    BY <1>1, <2>1, ForfeitFollows
  <2> QED
    BY <1>1, <2>2, RoomKeepsPlaces
<1> QED
  BY <1>2, <1>3

LEMMA CloseRoomKeepsPlaces ==
  ASSUME GamesInv, BindInv, NEW r \in DOMAIN rooms, CloseRoom(r)
  PROVE  BindInv' /\ PlacesKept
<1> DEFINE game == [rooms[r] EXCEPT !.status = "closed"]
<1>1. /\ rooms \in Seq(RoomType) /\ r \in 1 .. Len(rooms)
      /\ rooms[r] \in RoomType
      /\ UNCHANGED <<conn, room, queues, pending>> /\ NoSocket \notin Sockets
  BY LenProperties, ElementOfSeq, HubAssumption DEF GamesInv, CloseRoom
<1>2. /\ game.players = rooms[r].players /\ game.events = rooms[r].events
      /\ game \in RoomType
  BY <1>1 DEF RoomType
<1>3. rooms' = [rooms EXCEPT ![r] = game]
  BY DEF CloseRoom
<1> HIDE DEF game
<1>4. \A d : /\ ServedIn(game, d) => ServedIn(rooms[r], d)
             /\ ReturnsTo(game, d) => ReturnsTo(rooms[r], d)
  BY <1>2 DEF ServedIn, ReturnsTo
<1>5. Follows(rooms, rooms', r, NoSocket)
  BY <1>1, <1>3, <1>4, FollowsPut
<1>6. rooms' \in Seq(RoomType) /\ Len(rooms') = Len(rooms)
  BY <1>1, <1>2, <1>3, ExceptSeq
<1> QED
  BY <1>1, <1>5, <1>6, RoomKeepsPlaces

(* What the hub posts changes no seat; a new connection is on the way only  *)
(* by its own reconnect.                                                    *)
LEMMA PostFollows ==
  ASSUME GamesInv, NEW r \in 1 .. Len(rooms), NEW kind, NEW c,
         Post(r, kind, c)
  PROVE  /\ DOMAIN rooms' = DOMAIN rooms
         /\ \A q \in DOMAIN rooms : \A d \in Sockets :
              /\ ServedIn(rooms'[q], d) <=> ServedIn(rooms[q], d)
              /\ ReturnsTo(rooms'[q], d) =>
                   ReturnsTo(rooms[q], d)
                   \/ (q = r /\ d = c /\ kind = "reconnect")
<1>1. rooms \in Seq(RoomType) /\ DOMAIN rooms = 1 .. Len(rooms)
  BY LenProperties DEF GamesInv
<1>2. CASE UNCHANGED rooms
  BY <1>2
<1> DEFINE ev == [kind |-> kind, client |-> c]
           g == rooms[r]
           es == Append(g.events, ev)
           h == [g EXCEPT !.events = es]
<1>3. CASE rooms' = [rooms EXCEPT ![r].events = es]
  <2>1. g \in RoomType /\ g.events \in Seq(EventType)
    BY <1>1, SeatsTyped
  <2>2. h.players = g.players /\ h.events = es
    BY <2>1 DEF RoomType
  <2>3. rooms' = [rooms EXCEPT ![r] = h]
    BY <1>3
  <2>4. \A i \in DOMAIN es :
          es[i] = ev \/ (i \in DOMAIN g.events /\ es[i] = g.events[i])
    <3>1. ev \in EventType \cup {ev}
      OBVIOUS
    <3>2. g.events \in Seq(EventType \cup {ev})
      BY <2>1, SeqMonotonic
    <3>3. /\ es \in Seq(EventType \cup {ev})
          /\ Len(es) = Len(g.events) + 1 /\ es[Len(g.events) + 1] = ev
          /\ \A i \in 1 .. Len(g.events) : es[i] = g.events[i]
      BY <3>1, <3>2, AppendProperties
    <3>4. /\ DOMAIN es = 1 .. Len(g.events) + 1 /\ Len(g.events) \in Nat
          /\ DOMAIN g.events = 1 .. Len(g.events)
      BY <3>2, <3>3, LenProperties
    <3> QED
      BY <3>3, <3>4
  <2>5. ev.kind = kind /\ ev.client = c
    OBVIOUS
  <2> HIDE DEF h, es, ev
  <2>6. \A d \in Sockets : ServedIn(h, d) <=> ServedIn(g, d)
    BY <2>2 DEF ServedIn
  <2>7. \A d \in Sockets : ReturnsTo(h, d) =>
          ReturnsTo(g, d) \/ (d = c /\ kind = "reconnect")
    BY <2>2, <2>4, <2>5 DEF ReturnsTo
  <2>8. \A q \in DOMAIN rooms : rooms'[q] = IF q = r THEN h ELSE rooms[q]
    BY <1>1, <2>3
  <2>9. DOMAIN rooms' = DOMAIN rooms
    BY <2>3
  <2> QED
    BY <2>6, <2>7, <2>8, <2>9
<1> QED
  BY <1>2, <1>3 DEF Post

(* Lists that only shrink, while the hub posts at most.                     *)
LEMMA PlacesGivenUp ==
  ASSUME BindInv, NEW c \in Sockets, Known' = Known, UNCHANGED room,
         \A d \in Sockets : /\ QueuesOf(d)' \subseteq QueuesOf(d)
                            /\ RoomsOf(d)' \subseteq RoomsOf(d),
         DOMAIN rooms' = DOMAIN rooms,
         \A q \in DOMAIN rooms : \A d \in Sockets :
           /\ ServedIn(rooms'[q], d) <=> ServedIn(rooms[q], d)
           /\ ReturnsTo(rooms'[q], d) => ReturnsTo(rooms[q], d)
  PROVE  BindInv' /\ PlacesKept
<1>1. PlacesKept
  BY FewerPlaces DEF PlacesKept
<1>2. ASSUME NEW r \in DOMAIN rooms, NEW d \in Sockets,
             ReturnsTo(rooms'[r], d)
      PROVE  /\ d \in Known' /\ room'[d] = r
             /\ QueuesOf(d)' = {} /\ RoomsOf(d)' = {}
             /\ \A q \in DOMAIN rooms : ServedIn(rooms'[q], d) => q = r
  <2>1. /\ d \in Known /\ room[d] = r
        /\ QueuesOf(d) = {} /\ RoomsOf(d) = {}
        /\ \A q \in DOMAIN rooms : ServedIn(rooms[q], d) => q = r
    BY <1>2 DEF BindInv
  <2>2. QueuesOf(d)' \subseteq QueuesOf(d) /\ RoomsOf(d)' \subseteq RoomsOf(d)
    OBVIOUS
  <2> QED
    BY <2>1, <2>2
<1>3. \A d \in Sockets : room'[d] # NoRoom => d \in Known'
  BY DEF BindInv
<1>4. \A r \in DOMAIN rooms : \A d \in Sockets :
        ServedIn(rooms'[r], d) => d \in Known'
  BY DEF BindInv
<1>5. BindInv'
  BY <1>2, <1>3, <1>4 DEF BindInv
<1> QED
  BY <1>1, <1>5

(* A connection takes one queue less, at most: none, if it had one.         *)
LEMMA QueuePlacesLeft ==
  ASSUME ListsInv, NEW c, queues' \in WithoutQueued(c)
  PROVE  /\ \A d : QueuesOf(d)' \subseteq QueuesOf(d)
         /\ (\A s, t \in QueuesOf(c) : s = t) => QueuesOf(c)' = {}
<1>1. CASE ~IsQueued(c)
  BY <1>1 DEF WithoutQueued, QueuesOf, IsQueued
<1>2. CASE IsQueued(c)
  <2>1. PICK t \in Totals : /\ c \in Range(queues[t])
                            /\ queues' = [queues EXCEPT ![t] = RemoveFirst(@, c)]
    BY <1>2 DEF WithoutQueued
  <2> DEFINE s == queues[t]
             q == RemoveFirst(s, c)
  <2>2. s \in Seq(Known) /\ IsInjective(s)
    BY DEF ListsInv, QueuesOK
  <2>3. Range(q) = Range(s) \ {c}
    BY <2>1, <2>2, RemoveFirstRemoves
  <2>4. \A j \in Totals : queues'[j] = IF j = t THEN q ELSE queues[j]
    BY <2>1 DEF ListsInv, QueuesOK
  <2> HIDE DEF q
  <2>5. \A d : QueuesOf(d)' \subseteq QueuesOf(d)
    BY <2>3, <2>4 DEF QueuesOf
  <2>6. QueuesOf(c)' \subseteq QueuesOf(c) \ {t}
    BY <2>3, <2>4, <2>5 DEF QueuesOf
  <2>7. t \in QueuesOf(c)
    BY <2>1 DEF QueuesOf
  <2> QED
    BY <2>5, <2>6, <2>7
<1> QED
  BY <1>1, <1>2

LEMMA RoomPlacesLeft ==
  ASSUME ListsInv, NEW c, NEW pend \in WithoutPending(c)
  PROVE  /\ \A k \in DOMAIN pend : c \notin Range(pend[k].members)
         /\ DOMAIN pend \subseteq DOMAIN pending
         /\ \A k \in DOMAIN pend : \A d :
              d \in Range(pend[k].members) => d \in Range(pending[k].members)
<1>1. Left(pending, pend, c)
  BY PendingLeft DEF ListsInv
<1>2. ASSUME NEW k \in DOMAIN pend
      PROVE  /\ k \in DOMAIN pending
             /\ Range(pend[k].members) = Range(pending[k].members) \ {c}
  BY <1>1, <1>2 DEF Left
<1> QED
  BY <1>2

LEMMA LeaveKeepsPlaces ==
  ASSUME ListsInv, GamesInv, BindInv, NEW c \in Sockets, Leave(c)
  PROVE  BindInv' /\ PlacesKept
<1>1. Known' = Known /\ UNCHANGED room
  BY DEF Leave, Known
<1>2. \A d \in Sockets : QueuesOf(d)' \subseteq QueuesOf(d)
  <2>1. CASE UNCHANGED queues
    BY <2>1 DEF QueuesOf
  <2>2. CASE queues' \in WithoutQueued(c)
    BY <2>2, QueuePlacesLeft
  <2> QED
    BY <2>1, <2>2 DEF Leave
<1>3. \A d \in Sockets : RoomsOf(d)' \subseteq RoomsOf(d)
  <2>1. CASE UNCHANGED pending
    BY <2>1 DEF RoomsOf
  <2>2. CASE pending' \in WithoutPending(c)
    <3>1. /\ DOMAIN pending' \subseteq DOMAIN pending
          /\ \A k \in DOMAIN pending' : \A d :
               d \in Range(pending'[k].members) =>
                 d \in Range(pending[k].members)
      BY <2>2, RoomPlacesLeft
    <3> QED
      BY <3>1 DEF RoomsOf
  <2> QED
    BY <2>1, <2>2 DEF Leave
<1>4. /\ DOMAIN rooms' = DOMAIN rooms
      /\ \A q \in DOMAIN rooms : \A d \in Sockets :
           /\ ServedIn(rooms'[q], d) <=> ServedIn(rooms[q], d)
           /\ ReturnsTo(rooms'[q], d) => ReturnsTo(rooms[q], d)
  <2>1. CASE UNCHANGED rooms
    BY <2>1
  <2>2. CASE room[c] # NoRoom /\ Post(room[c], "leave", c)
    <3>1. room[c] \in 0 .. Len(rooms) /\ Len(rooms) \in Nat
      BY LenProperties DEF GamesInv
    <3>2. room[c] \in 1 .. Len(rooms)
      BY <2>2, <3>1 DEF NoRoom
    <3> QED
      BY <2>2, <3>2, PostFollows
  <2> QED
    BY <2>1, <2>2 DEF Leave
<1> QED
  BY <1>1, <1>2, <1>3, <1>4, PlacesGivenUp

LEMMA DisconnectKeepsPlaces ==
  ASSUME ListsInv, GamesInv, BindInv, NEW c \in Sockets, Disconnect(c)
  PROVE  BindInv' /\ PlacesKept
<1>1. /\ conn' = [conn EXCEPT ![c] = "gone"] /\ conn[c] = "open"
      /\ queues' \in WithoutQueued(c) /\ UNCHANGED <<room, pending>>
  BY DEF Disconnect
<1>2. Known' = Known
  BY <1>1 DEF Known, ListsInv
<1>3. \A d \in Sockets : /\ QueuesOf(d)' \subseteq QueuesOf(d)
                         /\ RoomsOf(d)' \subseteq RoomsOf(d)
  BY <1>1, QueuePlacesLeft DEF RoomsOf
<1>4. /\ DOMAIN rooms' = DOMAIN rooms
      /\ \A q \in DOMAIN rooms : \A d \in Sockets :
           /\ ServedIn(rooms'[q], d) <=> ServedIn(rooms[q], d)
           /\ ReturnsTo(rooms'[q], d) => ReturnsTo(rooms[q], d)
  <2>1. CASE UNCHANGED rooms
    BY <2>1
  <2>2. CASE room[c] # NoRoom /\ Post(room[c], "disconnect", c)
    <3>1. room[c] \in 0 .. Len(rooms) /\ Len(rooms) \in Nat
      BY LenProperties DEF GamesInv
    <3>2. room[c] \in 1 .. Len(rooms)
      BY <2>2, <3>1 DEF NoRoom
    <3> QED
      BY <2>2, <3>2, PostFollows
  <2> QED
    BY <2>1, <2>2 DEF Disconnect
<1> QED
  BY <1>1, <1>2, <1>3, <1>4, PlacesGivenUp

(* A connection in no game takes a place in a list.                         *)
LEMMA PlaceTaken ==
  ASSUME GamesInv, BindInv, NEW c \in Sockets, c \in Known', Known \subseteq Known',
         room[c] = NoRoom, UNCHANGED <<room, rooms>>,
         \A d \in Sockets \ {c} : /\ QueuesOf(d)' \subseteq QueuesOf(d)
                                  /\ RoomsOf(d)' \subseteq RoomsOf(d)
  PROVE  BindInv' /\ \A d \in Sockets \ {c} : OnePlace(d) => OnePlace(d)'
<1>1. \A d \in Sockets \ {c} : OnePlace(d) => OnePlace(d)'
  BY FewerPlaces
<1>2. ASSUME NEW r \in DOMAIN rooms, NEW d \in Sockets, ReturnsTo(rooms[r], d)
      PROVE  /\ d \in Known' /\ room'[d] = r
             /\ QueuesOf(d)' = {} /\ RoomsOf(d)' = {}
             /\ \A q \in DOMAIN rooms : ServedIn(rooms[q], d) => q = r
  <2>1. /\ d \in Known /\ room[d] = r
        /\ QueuesOf(d) = {} /\ RoomsOf(d) = {}
        /\ \A q \in DOMAIN rooms : ServedIn(rooms[q], d) => q = r
    BY <1>2 DEF BindInv
  <2>2. d # c
    <3>1. r # NoRoom
      BY LenProperties DEF GamesInv, NoRoom
    <3> QED
      BY <2>1, <3>1
  <2> QED
    BY <2>1, <2>2
<1>3. BindInv'
  BY <1>2 DEF BindInv
<1> QED
  BY <1>1, <1>3

(* A table is dealt: its players were connected and in no game.             *)
LEMMA TableDealt ==
  ASSUME GamesInv, BindInv, NEW c \in Sockets, UNCHANGED conn,
         NEW members, Range(members) \subseteq Known, StartRoom(members),
         \A d \in Range(members) : d = c \/ QueuesOf(d) # {} \/ RoomsOf(d) # {},
         c \in Range(members), room[c] = NoRoom,
         \A d \in Sockets \ {c} : /\ QueuesOf(d)' \subseteq QueuesOf(d)
                                  /\ RoomsOf(d)' \subseteq RoomsOf(d)
  PROVE  /\ BindInv'
         /\ \A d \in Sockets \ Range(members) : OnePlace(d) => OnePlace(d)'
         /\ \A d \in Range(members) :
              QueuesOf(d)' = {} /\ RoomsOf(d)' = {} => OnePlace(d)'
<1> DEFINE seats == [i \in DOMAIN members |->
                       [uid |-> Owner[members[i]], client |-> members[i],
                        out |-> FALSE]]
           game == [players |-> seats, status |-> "open", events |-> <<>>]
<1>0. PICK n \in Nat : n = Len(rooms)
  BY LenProperties DEF GamesInv
<1>1. /\ DOMAIN rooms = 1 .. n
      /\ rooms' = Append(rooms, game)
      /\ \A d \in Sockets :
           room'[d] = IF d \in Range(members) THEN n + 1 ELSE room[d]
  BY <1>0, LenProperties DEF GamesInv, StartRoom, NextId
<1>2. /\ \A d : ServedIn(game, d) => d \in Range(members)
      /\ \A d : ~ReturnsTo(game, d)
  <2>1. game.players = seats /\ game.events = <<>>
    OBVIOUS
  <2>2. \A i \in DOMAIN seats : seats[i].client = members[i]
                                /\ members[i] \in Range(members)
    BY DEF Range
  <2>3. DOMAIN <<>> = {}
    OBVIOUS
  <2> HIDE DEF seats, game
  <2>4. DOMAIN seats = DOMAIN members
    BY DEF seats
  <2> QED
    BY <2>1, <2>2, <2>3 DEF ServedIn, ReturnsTo
<1> HIDE DEF game
<1>3. /\ DOMAIN rooms' = 1 .. n + 1 /\ rooms'[n + 1] = game
      /\ \A q \in 1 .. n : rooms'[q] = rooms[q]
  <2>1. rooms \in Seq(RoomType \cup {game})
    BY SeqMonotonic DEF GamesInv
  <2>2. /\ rooms' \in Seq(RoomType \cup {game}) /\ Len(rooms') = n + 1
        /\ rooms'[n + 1] = game /\ \A q \in 1 .. n : rooms'[q] = rooms[q]
    BY <1>0, <1>1, <2>1, AppendProperties
  <2> QED
    BY <2>2, LenProperties
<1>4. Known' = Known
  BY DEF Known
<1>5. ASSUME NEW d \in Sockets \ Range(members), OnePlace(d)
      PROVE  OnePlace(d)'
  <2>1. room'[d] = room[d] /\ d \in Sockets \ {c}
    BY <1>1
  <2> QED
    BY <1>5, <2>1, FewerPlaces
<1>6. ASSUME NEW d \in Range(members), QueuesOf(d)' = {}, RoomsOf(d)' = {}
      PROVE  OnePlace(d)'
  BY <1>6 DEF OnePlace
<1>7. ASSUME NEW r \in 1 .. n + 1, NEW d \in Sockets, ReturnsTo(rooms'[r], d)
      PROVE  /\ d \in Known' /\ room'[d] = r
             /\ QueuesOf(d)' = {} /\ RoomsOf(d)' = {}
             /\ \A q \in 1 .. n + 1 : ServedIn(rooms'[q], d) => q = r
  <2>1. r \in 1 .. n /\ ReturnsTo(rooms[r], d)
    BY <1>2, <1>3, <1>7
  <2>2. /\ d \in Known /\ room[d] = r
        /\ QueuesOf(d) = {} /\ RoomsOf(d) = {}
        /\ \A q \in 1 .. n : ServedIn(rooms[q], d) => q = r
    BY <1>1, <2>1 DEF BindInv
  <2>3. d # c /\ d \notin Range(members)
    BY <2>1, <2>2 DEF NoRoom
  <2>4. \A q \in 1 .. n + 1 : ServedIn(rooms'[q], d) => q = r
    BY <1>2, <1>3, <2>2, <2>3
  <2> QED
    BY <1>1, <1>4, <2>2, <2>3, <2>4
<1>8. \A d \in Sockets : room'[d] # NoRoom => d \in Known'
  BY <1>1, <1>4 DEF BindInv
<1>9. \A r \in 1 .. n + 1 : \A d \in Sockets :
        ServedIn(rooms'[r], d) => d \in Known'
  BY <1>1, <1>2, <1>3, <1>4 DEF BindInv
<1>10. BindInv'
  BY <1>3, <1>7, <1>8, <1>9 DEF BindInv
<1> QED
  BY <1>5, <1>6, <1>10

LEMMA NewcomerHasNoPlace ==
  ASSUME ListsInv, BindInv, NEW c \in Sockets \ Known
  PROVE  /\ QueuesOf(c) = {} /\ RoomsOf(c) = {} /\ room[c] = NoRoom
         /\ \A r \in DOMAIN rooms : ~ServedIn(rooms[r], c)
<1>1. QueuesOf(c) = {}
  <2>1. \A t \in Totals : queues[t] \in Seq(Known)
    BY DEF ListsInv, QueuesOK
  <2> QED
    BY <2>1, RangeOfSeq DEF QueuesOf
<1>2. RoomsOf(c) = {}
  <2>1. \A k \in DOMAIN pending : pending[k].members \in Seq(Known)
    BY DEF ListsInv, PendingOK
  <2> QED
    BY <2>1, RangeOfSeq DEF RoomsOf
<1> QED
  BY <1>1, <1>2 DEF BindInv

LEMMA ConnectKeepsPlaces ==
  ASSUME ListsInv, GamesInv, BindInv, NEW c \in Sockets, Connect(c)
  PROVE  BindInv' /\ PlacesKept
<1> DEFINE u == Owner[c]
<1>1. /\ conn' = [conn EXCEPT ![c] = "open"] /\ conn[c] = "new"
      /\ queues' = queues
  BY DEF Connect
<1>2. Known' = Known \cup {c} /\ c \in Sockets \ Known
  BY <1>1 DEF Known, ListsInv
<1>3. /\ QueuesOf(c) = {} /\ RoomsOf(c) = {} /\ room[c] = NoRoom
      /\ \A r \in DOMAIN rooms : ~ServedIn(rooms[r], c)
  BY <1>2, NewcomerHasNoPlace
<1>4. \A d : QueuesOf(d)' = QueuesOf(d)
  BY <1>1 DEF QueuesOf
<1>5. CASE UNCHANGED <<pending, room, rooms>>
  <2>1. \A d : RoomsOf(d)' = RoomsOf(d)
    BY <1>5 DEF RoomsOf
  <2>2. BindInv' /\ \A d \in Sockets \ {c} : OnePlace(d) => OnePlace(d)'
    BY <1>2, <1>3, <1>4, <1>5, <2>1, PlaceTaken
  <2>3. OnePlace(c)'
    BY <1>3, <1>4, <2>1 DEF OnePlace
  <2> QED
    BY <2>2, <2>3 DEF PlacesKept
<1>6. CASE \E k \in PendingOfUID(u) :
             /\ pending' = [pending EXCEPT ![k].members[SeatOf(k, u)] = c]
             /\ UNCHANGED <<room, rooms>>
  <2>1. PICK k \in PendingOfUID(u) :
          pending' = [pending EXCEPT ![k].members[SeatOf(k, u)] = c]
    BY <1>6
  <2> DEFINE s == pending[k].members
             i == SeatOf(k, u)
             m == [s EXCEPT ![i] = c]
  <2>2. /\ DOMAIN pending' = DOMAIN pending
        /\ pending[k] \in [total : Totals, members : Seq(Known)]
        /\ k \in DOMAIN pending
    BY <2>1 DEF ListsInv, PendingOK, PendingOfUID
  <2>3. /\ \A j \in DOMAIN pending : j # k => pending'[j] = pending[j]
        /\ pending'[k].members = m
    BY <2>1, <2>2
  <2>4. \A d : d \in Range(m) => d \in Range(s) \/ d = c
    <3>1. \A j \in DOMAIN m : j \in DOMAIN s /\ (m[j] = s[j] \/ m[j] = c)
      OBVIOUS
    <3> HIDE DEF m
    <3> QED
      BY <3>1 DEF Range
  <2> HIDE DEF m, i
  <2>5. /\ \A d \in Sockets \ {c} : RoomsOf(d)' \subseteq RoomsOf(d)
        /\ RoomsOf(c)' \subseteq {k}
    BY <1>3, <2>2, <2>3, <2>4 DEF RoomsOf
  <2>6. BindInv' /\ \A d \in Sockets \ {c} : OnePlace(d) => OnePlace(d)'
    BY <1>2, <1>3, <1>4, <1>6, <2>5, PlaceTaken
  <2>7. OnePlace(c)'
    BY <1>3, <1>4, <1>6, <2>5 DEF OnePlace
  <2> QED
    BY <2>6, <2>7 DEF PlacesKept
<1>7. CASE /\ byUID[u] # NoRoom /\ room' = [room EXCEPT ![c] = byUID[u]]
           /\ Post(byUID[u], "reconnect", c) /\ UNCHANGED pending
  <2> DEFINE r == byUID[u]
  <2>1. r \in 1 .. Len(rooms)
    <3>1. u \in Users
      BY HubAssumption
    <3>2. r \in 0 .. Len(rooms) /\ Len(rooms) \in Nat
      BY <3>1, LenProperties DEF GamesInv
    <3> QED
      BY <1>7, <3>2 DEF NoRoom
  <2>2. /\ DOMAIN rooms' = DOMAIN rooms
        /\ \A q \in DOMAIN rooms : \A d \in Sockets :
             /\ ServedIn(rooms'[q], d) <=> ServedIn(rooms[q], d)
             /\ ReturnsTo(rooms'[q], d) =>
                  ReturnsTo(rooms[q], d) \/ (q = r /\ d = c)
    BY <1>7, <2>1, PostFollows
  <2>3. \A d \in Sockets : room'[d] = IF d = c THEN r ELSE room[d]
    BY <1>7 DEF GamesInv
  <2> HIDE DEF r, u
  <2>4. \A d : RoomsOf(d)' = RoomsOf(d)
    BY <1>7 DEF RoomsOf
  <2>5. ASSUME NEW q \in DOMAIN rooms, NEW d \in Sockets,
               ReturnsTo(rooms'[q], d)
        PROVE  /\ d \in Known' /\ room'[d] = q
               /\ QueuesOf(d)' = {} /\ RoomsOf(d)' = {}
               /\ \A p \in DOMAIN rooms : ServedIn(rooms'[p], d) => p = q
    <3>1. CASE ReturnsTo(rooms[q], d)
      <4>1. /\ d \in Known /\ room[d] = q
            /\ QueuesOf(d) = {} /\ RoomsOf(d) = {}
            /\ \A p \in DOMAIN rooms : ServedIn(rooms[p], d) => p = q
        BY <3>1 DEF BindInv
      <4>2. d # c
        BY <1>2, <4>1
      <4> QED
        BY <1>2, <1>4, <2>2, <2>3, <2>4, <4>1, <4>2
    <3>2. CASE q = r /\ d = c
      BY <1>2, <1>3, <1>4, <2>2, <2>3, <2>4, <3>2
    <3> QED
      BY <2>2, <2>5, <3>1, <3>2
  <2>6. \A d \in Sockets : room'[d] # NoRoom => d \in Known'
    BY <1>2, <2>3 DEF BindInv
  <2>7. \A q \in DOMAIN rooms : \A d \in Sockets :
          ServedIn(rooms'[q], d) => d \in Known'
    BY <1>2, <2>2 DEF BindInv
  <2>8. BindInv'
    BY <2>2, <2>5, <2>6, <2>7 DEF BindInv
  <2>9. \A d \in Sockets \ {c} : OnePlace(d) => OnePlace(d)'
    BY <1>4, <2>3, <2>4, FewerPlaces
  <2>10. OnePlace(c)'
    BY <1>3, <1>4, <2>4 DEF OnePlace
  <2> QED
    BY <2>8, <2>9, <2>10 DEF PlacesKept
<1> QED
  BY <1>5, <1>6, <1>7 DEF Connect

PlacesSwapped ==
  \A c \in Sockets : OnePlace(c) =>
    \/ OnePlace(c)'
    \/ QueuesOf(c) # {} /\ \E t \in Totals \ QueuesOf(c) : JoinQueue(c, t)

LEMMA KeptIsSwapped == PlacesKept => PlacesSwapped
BY DEF PlacesKept, PlacesSwapped

LEMMA CreateRoomSwaps ==
  ASSUME ListsInv, GamesInv, BindInv, NEW c \in Sockets, NEW t \in Totals,
         CreateRoom(c, t)
  PROVE  BindInv' /\ PlacesSwapped
<1>1. /\ conn' = conn /\ Known' = Known /\ c \in Known /\ room[c] = NoRoom
      /\ UNCHANGED <<room, rooms>> /\ queues' \in WithoutQueued(c)
  BY WaitingIsKnown DEF CreateRoom, MayWait, NothingStarts, Known
<1> DEFINE m == <<c>>
           pr == [total |-> t, members |-> m]
<1>2. PICK pend \in WithoutPending(c), k \in Codes :
        k \notin DOMAIN pend /\ pending' = Put(pend, k, pr)
  BY DEF CreateRoom
<1>3. /\ \A j \in DOMAIN pend : c \notin Range(pend[j].members)
      /\ DOMAIN pend \subseteq DOMAIN pending
      /\ \A j \in DOMAIN pend : \A d :
           d \in Range(pend[j].members) => d \in Range(pending[j].members)
  BY RoomPlacesLeft
<1>4. Range(m) = {c}
  BY DEF Range
<1> HIDE DEF m
<1>5. /\ DOMAIN pending' = DOMAIN pend \cup {k}
      /\ pending'[k].members = m
      /\ \A j \in DOMAIN pend : pending'[j] = pend[j]
  BY <1>2 DEF Put
<1>6. /\ \A d \in Sockets \ {c} : RoomsOf(d)' \subseteq RoomsOf(d)
      /\ RoomsOf(c)' \subseteq {k}
  BY <1>3, <1>4, <1>5 DEF RoomsOf
<1>7. /\ \A d : QueuesOf(d)' \subseteq QueuesOf(d)
      /\ (\A s, q \in QueuesOf(c) : s = q) => QueuesOf(c)' = {}
  BY <1>1, QueuePlacesLeft
<1>8. BindInv' /\ \A d \in Sockets \ {c} : OnePlace(d) => OnePlace(d)'
  BY <1>1, <1>6, <1>7, PlaceTaken
<1>9. OnePlace(c) => OnePlace(c)'
  BY <1>1, <1>6, <1>7 DEF OnePlace
<1> QED
  BY <1>8, <1>9 DEF PlacesSwapped

LEMMA JoinRoomSwaps ==
  ASSUME ListsInv, GamesInv, BindInv, NEW c \in Sockets, NEW k \in Codes,
         JoinRoom(c, k)
  PROVE  BindInv' /\ PlacesSwapped
<1>1. /\ conn' = conn /\ Known' = Known /\ c \in Known /\ room[c] = NoRoom
      /\ queues' \in WithoutQueued(c) /\ k \in DOMAIN pending
      /\ c \notin Range(pending[k].members)
  BY WaitingIsKnown DEF JoinRoom, MayWait, Known
<1>2. PICK pend \in WithoutPending(c) :
        LET members == Append(pend[k].members, c)
        IN  \/ /\ pending' = Restrict(pend, DOMAIN pend \ {k})
               /\ StartRoom(members)
            \/ /\ pending' = [pend EXCEPT ![k].members = members]
               /\ NothingStarts
  BY DEF JoinRoom
<1>3. /\ \A j \in DOMAIN pend : c \notin Range(pend[j].members)
      /\ DOMAIN pend \subseteq DOMAIN pending
      /\ \A j \in DOMAIN pend : \A d :
           d \in Range(pend[j].members) => d \in Range(pending[j].members)
  BY RoomPlacesLeft
<1>4. PendingOK(pend, Known) /\ Left(pending, pend, c)
  BY PendingLeft DEF ListsInv
<1>5. k \in DOMAIN pend
  <2>1. pending[k].members[1] # c
    BY <1>1, FirstIsMember DEF ListsInv
  <2> QED
    BY <1>1, <1>4, <2>1 DEF Left
<1> DEFINE s == pend[k].members
           m == Append(s, c)
<1>6. Range(m) = Range(s) \cup {c} /\ Range(s) \subseteq Known
  <2>1. s \in Seq(Known) /\ IsInjective(s) /\ c \notin Range(s)
    BY <1>3, <1>4, <1>5 DEF PendingOK
  <2> QED
    BY <1>1, <2>1, AppendIsDistinct, RangeOfSeq
<1> HIDE DEF m
<1>7. /\ \A d : QueuesOf(d)' \subseteq QueuesOf(d)
      /\ (\A p, q \in QueuesOf(c) : p = q) => QueuesOf(c)' = {}
  BY <1>1, QueuePlacesLeft
<1>8. CASE pending' = [pend EXCEPT ![k].members = m] /\ NothingStarts
  <2>1. /\ DOMAIN pending' = DOMAIN pend
        /\ \A j \in DOMAIN pend : j # k => pending'[j] = pend[j]
        /\ pending'[k].members = m
    BY <1>4, <1>5, <1>8 DEF PendingOK
  <2>2. \A d \in Sockets \ {c} : RoomsOf(d)' \subseteq RoomsOf(d)
    BY <1>3, <1>5, <1>6, <2>1 DEF RoomsOf
  <2>3. RoomsOf(c)' \subseteq {k}
    BY <1>3, <2>1 DEF RoomsOf
  <2>4. BindInv' /\ \A d \in Sockets \ {c} : OnePlace(d) => OnePlace(d)'
    BY <1>1, <1>7, <1>8, <2>2, PlaceTaken DEF NothingStarts
  <2>5. OnePlace(c) => OnePlace(c)'
    BY <1>1, <1>7, <1>8, <2>3 DEF OnePlace, NothingStarts
  <2> QED
    BY <2>4, <2>5 DEF PlacesSwapped
<1>9. CASE pending' = Restrict(pend, DOMAIN pend \ {k}) /\ StartRoom(m)
  <2>1. /\ DOMAIN pending' = DOMAIN pend \ {k}
        /\ \A j \in DOMAIN pend \ {k} : pending'[j] = pend[j]
    BY <1>9 DEF Restrict
  <2>2. \A d : RoomsOf(d)' \subseteq RoomsOf(d) \ {k}
    BY <1>3, <2>1 DEF RoomsOf
  <2>3. RoomsOf(c)' = {}
    BY <1>3, <2>1 DEF RoomsOf
  <2>4. \A d \in Range(s) : k \in RoomsOf(d)
    BY <1>1, <1>3, <1>5 DEF RoomsOf
  <2>5. /\ Range(m) \subseteq Known /\ c \in Range(m)
        /\ \A d \in Range(m) : d = c \/ QueuesOf(d) # {} \/ RoomsOf(d) # {}
    BY <1>1, <1>6, <2>4
  <2>6. /\ BindInv'
        /\ \A d \in Sockets \ Range(m) : OnePlace(d) => OnePlace(d)'
        /\ \A d \in Range(m) :
             QueuesOf(d)' = {} /\ RoomsOf(d)' = {} => OnePlace(d)'
    BY <1>1, <1>7, <1>9, <2>2, <2>5, TableDealt
  <2>7. ASSUME NEW d \in Range(m), OnePlace(d)
        PROVE  QueuesOf(d)' = {} /\ RoomsOf(d)' = {}
    <3>1. CASE d = c
      BY <1>7, <2>3, <2>7, <3>1 DEF OnePlace
    <3>2. CASE d \in Range(s)
      <4>1. k \in RoomsOf(d)
        BY <2>4, <3>2
      <4>2. QueuesOf(d) = {} /\ RoomsOf(d) \subseteq {k}
        BY <2>7, <4>1 DEF OnePlace
      <4> QED
        BY <1>7, <2>2, <4>2
    <3> QED
      BY <1>6, <3>1, <3>2
  <2> QED
    BY <2>6, <2>7 DEF PlacesSwapped
<1> QED
  BY <1>2, <1>8, <1>9 DEF m

LEMMA JoinQueueSwaps ==
  ASSUME ListsInv, GamesInv, BindInv, NEW c \in Sockets, NEW t \in Totals,
         JoinQueue(c, t)
  PROVE  BindInv' /\ PlacesSwapped
<1> DEFINE s == queues[t]
           m == Append(s, c)
           rest == SubSeq(m, t + 1, Len(m))
           dealt == SubSeq(m, 1, t)
<1>1. /\ conn' = conn /\ Known' = Known /\ c \in Known /\ room[c] = NoRoom
      /\ pending' \in WithoutPending(c)
  BY WaitingIsKnown DEF JoinQueue, MayWait, Known
<1>2. /\ \A d : RoomsOf(d)' \subseteq RoomsOf(d)
      /\ RoomsOf(c)' = {}
  <2>1. /\ \A k \in DOMAIN pending' : c \notin Range(pending'[k].members)
        /\ DOMAIN pending' \subseteq DOMAIN pending
        /\ \A k \in DOMAIN pending' : \A d :
             d \in Range(pending'[k].members) => d \in Range(pending[k].members)
    BY <1>1, RoomPlacesLeft
  <2> QED
    BY <2>1 DEF RoomsOf
<1>3. CASE UNCHANGED queues /\ NothingStarts
  <2>1. \A d : QueuesOf(d)' = QueuesOf(d)
    BY <1>3 DEF QueuesOf
  <2>2. BindInv' /\ \A d \in Sockets \ {c} : OnePlace(d) => OnePlace(d)'
    BY <1>1, <1>2, <1>3, <2>1, PlaceTaken DEF NothingStarts
  <2>3. OnePlace(c) => OnePlace(c)'
    BY <1>1, <1>2, <1>3, <2>1, FewerPlaces DEF NothingStarts
  <2> QED
    BY <2>2, <2>3 DEF PlacesSwapped
<1>4. SUFFICES ASSUME c \notin Range(s)
               PROVE  BindInv' /\ PlacesSwapped
  BY <1>3 DEF JoinQueue
<1> DEFINE AsksForTwo(d) ==
             QueuesOf(d) # {} /\ \E q \in Totals \ QueuesOf(d) : JoinQueue(d, q)
<1>5. QueuesOf(c) # {} => AsksForTwo(c)
  BY <1>4 DEF QueuesOf
<1>6. PlacesSwapped <=> \A d \in Sockets :
         OnePlace(d) => OnePlace(d)' \/ AsksForTwo(d)
  BY DEF PlacesSwapped
<1> HIDE DEF AsksForTwo
<1>7. /\ t \in Nat /\ s \in Seq(Known) /\ IsInjective(s)
      /\ Len(s) \in Nat /\ Len(s) < t
  BY TotalsAreNat, LenProperties DEF ListsInv, QueuesOK
<1>8. /\ m \in Seq(Known) /\ IsInjective(m) /\ Len(m) = Len(s) + 1
      /\ Range(m) = Range(s) \cup {c} /\ Range(s) \subseteq Known
  BY <1>1, <1>4, <1>7, AppendIsDistinct, AppendProperties, RangeOfSeq
<1>9. \/ /\ Full(m, t) /\ queues' = [queues EXCEPT ![t] = rest]
         /\ StartRoom(dealt)
      \/ queues' = [queues EXCEPT ![t] = m] /\ NothingStarts
  BY <1>4 DEF JoinQueue
<1> HIDE DEF m, rest, dealt
<1>10. CASE queues' = [queues EXCEPT ![t] = m] /\ NothingStarts
  <2>1. \A j \in Totals : queues'[j] = IF j = t THEN m ELSE queues[j]
    BY <1>10 DEF ListsInv, QueuesOK
  <2>2. /\ \A d \in Sockets \ {c} : QueuesOf(d)' \subseteq QueuesOf(d)
        /\ QueuesOf(c)' \subseteq QueuesOf(c) \cup {t}
    BY <1>8, <2>1 DEF QueuesOf
  <2>3. BindInv' /\ \A d \in Sockets \ {c} : OnePlace(d) => OnePlace(d)'
    BY <1>1, <1>2, <1>10, <2>2, PlaceTaken DEF NothingStarts
  <2>4. QueuesOf(c) = {} => OnePlace(c)'
    BY <1>1, <1>2, <1>10, <2>2 DEF OnePlace, NothingStarts
  <2> QED
    BY <1>5, <1>6, <2>3, <2>4
<1>11. CASE /\ Full(m, t) /\ queues' = [queues EXCEPT ![t] = rest]
            /\ StartRoom(dealt)
  <2>1. Len(m) = t
    BY <1>7, <1>8, <1>11 DEF Full
  <2>2. Range(rest) = {}
    <3>1. /\ Range(rest) = {m[i] : i \in t + 1 .. t}
          /\ t + 1 \in Nat \ {0}
      BY <1>7, <1>8, <2>1, PieceIsDistinct DEF rest
    <3> QED
      BY <1>7, <3>1
  <2>3. Range(dealt) = Range(m)
    <3>1. Range(dealt) = {m[i] : i \in 1 .. t}
      BY <1>7, <1>8, <2>1, PieceIsDistinct DEF dealt
    <3> QED
      BY <1>8, <2>1, <3>1, LenProperties DEF Range
  <2>4. \A j \in Totals : queues'[j] = IF j = t THEN rest ELSE queues[j]
    BY <1>11 DEF ListsInv, QueuesOK
  <2>5. \A d : QueuesOf(d)' \subseteq QueuesOf(d) \ {t}
    BY <2>2, <2>4 DEF QueuesOf
  <2>6. \A d \in Range(s) : t \in QueuesOf(d)
    BY DEF QueuesOf
  <2>7. /\ Range(dealt) \subseteq Known /\ c \in Range(dealt)
        /\ \A d \in Range(dealt) : d = c \/ QueuesOf(d) # {} \/ RoomsOf(d) # {}
    BY <1>1, <1>8, <2>3, <2>6
  <2>8. /\ BindInv'
        /\ \A d \in Sockets \ Range(dealt) : OnePlace(d) => OnePlace(d)'
        /\ \A d \in Range(dealt) :
             QueuesOf(d)' = {} /\ RoomsOf(d)' = {} => OnePlace(d)'
    BY <1>1, <1>2, <1>11, <2>5, <2>7, TableDealt
  <2>9. ASSUME NEW d \in Range(dealt), OnePlace(d)
        PROVE  OnePlace(d)' \/ AsksForTwo(d)
    <3>1. CASE d = c
      <4>1. QueuesOf(c) = {} => QueuesOf(c)' = {}
        BY <2>5
      <4> QED
        BY <1>2, <1>5, <2>8, <2>9, <3>1, <4>1
    <3>2. CASE d \in Range(s)
      <4>1. t \in QueuesOf(d)
        BY <2>6, <3>2
      <4>2. RoomsOf(d) = {} /\ QueuesOf(d) \subseteq {t}
        BY <2>9, <4>1 DEF OnePlace
      <4>3. RoomsOf(d)' = {} /\ QueuesOf(d)' = {}
        BY <1>2, <2>5, <4>2
      <4> QED
        BY <2>8, <2>9, <4>3
    <3> QED
      BY <1>8, <2>3, <2>9, <3>1, <3>2
  <2> QED
    BY <1>6, <2>8, <2>9
<1> QED
  BY <1>9, <1>10, <1>11

LEMMA PlacesStep ==
  ASSUME ListsInv, GamesInv, BindInv, [Next]_vars
  PROVE  BindInv' /\ PlacesSwapped
<1>1. CASE UNCHANGED vars
  <2>1. /\ \A d : QueuesOf(d)' = QueuesOf(d) /\ RoomsOf(d)' = RoomsOf(d)
        /\ Known' = Known /\ UNCHANGED <<room, rooms>>
    BY <1>1 DEF vars, QueuesOf, RoomsOf, Known
  <2>2. BindInv'
    BY <2>1 DEF BindInv
  <2>3. PlacesSwapped
    BY <2>1, FewerPlaces DEF PlacesSwapped
  <2> QED
    BY <2>2, <2>3
<1>2. ASSUME NEW c \in Sockets,
             Connect(c) \/ Disconnect(c) \/ Leave(c) \/ ImHere(c)
      PROVE  BindInv' /\ PlacesSwapped
  BY <1>2, KeptIsSwapped, ConnectKeepsPlaces, DisconnectKeepsPlaces,
     LeaveKeepsPlaces, ImHereKeepsPlaces
<1>3. ASSUME NEW c \in Sockets, NEW t \in Totals,
             JoinQueue(c, t) \/ CreateRoom(c, t)
      PROVE  BindInv' /\ PlacesSwapped
  BY <1>3, JoinQueueSwaps, CreateRoomSwaps
<1>4. ASSUME NEW c \in Sockets, NEW k \in Codes, JoinRoom(c, k)
      PROVE  BindInv' /\ PlacesSwapped
  BY <1>4, JoinRoomSwaps
<1>5. ASSUME NEW r \in DOMAIN rooms,
             HandleEvent(r) \/ Burn(r) \/ PlayOut(r) \/ CloseRoom(r)
      PROVE  BindInv' /\ PlacesSwapped
  BY <1>5, KeptIsSwapped, HandleEventKeepsPlaces, GameEndsKeepPlaces,
     CloseRoomKeepsPlaces
<1> QED
  BY <1>1, <1>2, <1>3, <1>4, <1>5 DEF Next

-----------------------------------------------------------------------------
(* The inductive invariant: the waiting lists, of connections the hub has   *)
(* accepted, and the games with who is sent to them.                        *)
THEOREM HubIsSafe == Spec => [](ListsInv /\ GamesInv)
<1>1. Init => ListsInv /\ GamesInv
  BY ListsAtFirst, GamesAtFirst
<1>2. ListsInv /\ GamesInv /\ [Next]_vars => (ListsInv /\ GamesInv)'
  BY ListsStep, GamesStep
<1> QED
  BY <1>1, <1>2, PTL DEF Spec

(* Every variable keeps its type, whatever connects, waits, plays and       *)
(* leaves: in particular no connection and no user is sent to a game that   *)
(* was never started.                                                       *)
THEOREM HubTypes == Spec => []TypeOK
<1>1. ListsInv /\ GamesInv => TypeOK
  <2> SUFFICES ASSUME ListsInv, GamesInv PROVE TypeOK
    OBVIOUS
  <2>1. Known \subseteq Sockets
    BY DEF Known
  <2>2. QueuesOK(queues, Sockets) /\ PendingOK(pending, Sockets)
    BY <2>1, MoreKnown DEF ListsInv
  <2> QED
    BY <2>2 DEF ListsInv, GamesInv, QueuesOK, PendingOK, PendingRoom, TypeOK
<1> QED
  BY <1>1, HubIsSafe, PTL

(* Nobody waits at a full table, and every private room has its host, for   *)
(* any number of players, table sizes and codes.                            *)
THEOREM WaitersAlwaysFit == Spec => []WaitersFit
<1>1. ListsInv => WaitersFit
  BY DEF ListsInv, QueuesOK, PendingOK, WaitersFit
<1> QED
  BY <1>1, HubIsSafe, PTL

(* No connection waits twice in a list or in two private rooms.             *)
THEOREM EachWaitsOnce == Spec => []WaitsOnce
<1>1. ListsInv => WaitsOnce
  BY DEF ListsInv, QueuesOK, PendingOK, WaitsOnce
<1> QED
  BY <1>1, HubIsSafe, PTL

(* A reconnecting user is sent to the latest game the user was dealt into   *)
(* as long as the hub knows it, and to no other.                            *)
THEOREM ReconnectsToLatest == Spec => []ByUIDIsLatest
<1>1. GamesInv => ByUIDIsLatest
  BY DEF GamesInv
<1> QED
  BY <1>1, HubIsSafe, PTL

(* No step that connects a socket or loses one takes a seat from anybody    *)
(* who waits in a private room.                                             *)
THEOREM SeatsStayHeld == Spec => SeatsAreHeld
<1>1. ListsInv /\ [Next]_vars => SeatsKept
  BY ListsStep
<1> QED
  BY <1>1, HubIsSafe, PTL DEF Spec, SeatsAreHeld, SeatsKept

(* A code in use never changes its host.                                    *)
THEOREM HostsStay == Spec => HostStays
<1>1. ListsInv /\ [Next]_vars => HostsKept
  BY ListsStep
<1> QED
  BY <1>1, HubIsSafe, PTL DEF Spec, HostStays, HostsKept

(* Whoever has one place, a queue, a private room or a game, has one after  *)
(* every step, unless it asks for a second size while it waits for a first; *)
(* for any number of connections, codes, table sizes and games.             *)
THEOREM PlacesAreSwapped == Spec => OnePlaceAtATime
<1>1. Init => BindInv
  BY DEF Init, BindInv, NoRoom
<1>2. ListsInv /\ GamesInv /\ BindInv /\ [Next]_vars
        => BindInv' /\ PlacesSwapped
  BY PlacesStep
<1> QED
  BY <1>1, <1>2, HubIsSafe, PTL
  DEF Spec, OnePlaceAtATime, PlacesSwapped
=============================================================================
