--------------------------- MODULE AceRulesProofs ---------------------------
(***************************************************************************)
(* What the helpers of AceRules return, for every table: the lists that    *)
(* RemoveInt and GetRoundOrder build.                                      *)
(***************************************************************************)
EXTENDS AceRules, SequenceLemmas

(* Taking a seat out of a list without repetitions takes out its one place, *)
(* shifts the places after it and leaves the other seats as they were.      *)
LEMMA RemoveIntRemoves ==
  ASSUME NEW S, NEW xs \in Seq(S), NEW v, NoRepeats(xs)
  PROVE  /\ RemoveInt(xs, v) \in Seq(S)
         /\ NoRepeats(RemoveInt(xs, v))
         /\ Range(RemoveInt(xs, v)) = Range(xs) \ {v}
         /\ v \in Range(xs) =>
              /\ IndexOf(xs, v) \in 1 .. Len(xs)
              /\ xs[IndexOf(xs, v)] = v
              /\ Len(RemoveInt(xs, v)) = Len(xs) - 1
              /\ \A j \in 1 .. Len(xs) - 1 :
                   RemoveInt(xs, v)[j] =
                     IF j < IndexOf(xs, v) THEN xs[j] ELSE xs[j + 1]
<1>1. /\ Len(xs) \in Nat /\ DOMAIN xs = 1 .. Len(xs)
      /\ \A j, k \in 1 .. Len(xs) : xs[j] = xs[k] => j = k
      /\ Range(xs) = {xs[j] : j \in 1 .. Len(xs)}
  BY LenProperties DEF NoRepeats, IsInjective, Range
<1>2. CASE v \notin Range(xs)
  BY <1>2 DEF RemoveInt
<1>3. CASE v \in Range(xs)
  <2> DEFINE i == IndexOf(xs, v)
  <2>1. i \in 1 .. Len(xs) /\ xs[i] = v
    <3>1. \E j \in 1 .. Len(xs) : xs[j] = v
      BY <1>1, <1>3
    <3> QED
      BY <1>1, <3>1 DEF IndexOf
  <2>2. RemoveInt(xs, v) = RemoveAt(xs, i)
    BY <1>3 DEF RemoveInt
  <2> HIDE DEF i
  <2>3. /\ RemoveAt(xs, i) \in Seq(S)
        /\ Len(RemoveAt(xs, i)) = Len(xs) - 1
        /\ \A j \in 1 .. Len(xs) - 1 :
             RemoveAt(xs, i)[j] = IF j < i THEN xs[j] ELSE xs[j + 1]
    BY <2>1, RemoveAtShifts
  <2>4. /\ IsInjective(RemoveAt(xs, i))
        /\ Range(RemoveAt(xs, i)) = Range(xs) \ {v}
    BY <2>1, RemoveAtKeepsDistinct DEF NoRepeats
  <2> QED
    BY <2>1, <2>2, <2>3, <2>4 DEF NoRepeats, i
<1> QED
  BY <1>2, <1>3

(* A seat appended to a list that does not hold it keeps the list distinct. *)
LEMMA AppendKeepsDistinct ==
  ASSUME NEW S, NEW xs \in Seq(S), NEW v \in S,
         NoRepeats(xs), v \notin Range(xs)
  PROVE  /\ Append(xs, v) \in Seq(S)
         /\ NoRepeats(Append(xs, v))
         /\ Range(Append(xs, v)) = Range(xs) \cup {v}
BY AppendIsDistinct DEF NoRepeats

-----------------------------------------------------------------------------
(* The table is a finite set of N seats.                                    *)
LEMMA SeatsAreFinite ==
  ASSUME NEW T \in SUBSET Seats
  PROVE  IsFiniteSet(T) /\ Cardinality(T) \in Nat /\ Cardinality(T) <= N
<1>1. IsFiniteSet(Seats) /\ Cardinality(Seats) = N
  BY SeatsAssumption, FS_Interval DEF Seats
<1> QED
  BY <1>1, FS_Subset, FS_CardinalityType

(* The loser, if there is one, is a seat.                                   *)
LEMMA LoserIsSeat ==
  ASSUME NEW fin, NEW rem
  PROVE  TerminalLoser(fin, rem) \in Seats \cup {NoSeat}
<1>1. ActiveSeats(fin, rem) \in SUBSET Seats
  BY DEF ActiveSeats
<1>2. IsFiniteSet(ActiveSeats(fin, rem))
  BY <1>1, SeatsAreFinite
<1>3. Cardinality(ActiveSeats(fin, rem)) = 1 => ActiveSeats(fin, rem) # {}
  BY <1>2, FS_EmptySet
<1> QED
  BY <1>1, <1>3 DEF TerminalLoser

(* It is the only seat in the game, and nobody was removed.                 *)
LEMMA LoserIsOnlyActive ==
  ASSUME NEW fin, NEW rem, TerminalLoser(fin, rem) # NoSeat
  PROVE  rem = {} /\ ActiveSeats(fin, rem) = {TerminalLoser(fin, rem)}
<1> DEFINE T == ActiveSeats(fin, rem)
<1>1. /\ rem = {} /\ Cardinality(T) = 1
      /\ TerminalLoser(fin, rem) = CHOOSE s \in T : TRUE
  BY DEF TerminalLoser
<1>2. IsFiniteSet(T)
  BY SeatsAreFinite DEF ActiveSeats
<1>3. PICK x : T = {x}
  BY <1>1, <1>2, FS_Singleton
<1> QED
  BY <1>1, <1>3

(* Two seats met on the walk from a leader are met one after the other.     *)
LEMMA MetByIsInjective ==
  ASSUME NEW leader \in Seats, NEW seated \in SUBSET Seats,
         NEW p \in seated, NEW q \in seated, p # q
  PROVE  Cardinality(MetBy(leader, seated, p)) #
           Cardinality(MetBy(leader, seated, q))
<1> DEFINE P == MetBy(leader, seated, p)
           Q == MetBy(leader, seated, q)
<1>1. \A r \in seated : Distance(leader, r) \in Int
  BY SeatsAssumption DEF Distance, Seats
<1>2. Distance(leader, p) # Distance(leader, q)
  BY SeatsAssumption DEF Distance, Seats
<1>3. P \subseteq seated /\ Q \subseteq seated /\ p \in P /\ q \in Q
  BY <1>1 DEF MetBy
<1>4. IsFiniteSet(P) /\ IsFiniteSet(Q)
  BY <1>3, SeatsAreFinite
<1>5. CASE Distance(leader, p) < Distance(leader, q)
  <2>1. P \subseteq Q /\ q \notin P
    BY <1>1, <1>5 DEF MetBy
  <2> QED
    BY <1>3, <1>4, <2>1, FS_Subset
<1>6. CASE Distance(leader, q) < Distance(leader, p)
  <2>1. Q \subseteq P /\ p \notin Q
    BY <1>1, <1>6 DEF MetBy
  <2> QED
    BY <1>3, <1>4, <2>1, FS_Subset
<1> QED
  BY <1>1, <1>2, <1>5, <1>6

(* The round order lists every seat that is not excluded, each once.        *)
LEMMA RoundOrderListsSeated ==
  ASSUME NEW leader \in Seats, NEW excluded
  PROVE  LET order == GetRoundOrder(leader, excluded)
         IN  /\ order \in Seq(Seats)
             /\ NoRepeats(order)
             /\ Range(order) = Seats \ excluded
             /\ Len(order) = Cardinality(Seats \ excluded)
<1> DEFINE T == Seats \ excluded
           n == Cardinality(T)
           place == [p \in T |-> Cardinality(MetBy(leader, T, p))]
           order == GetRoundOrder(leader, excluded)
<1>1. T \in SUBSET Seats /\ IsFiniteSet(T) /\ n \in Nat
  BY SeatsAreFinite
<1>2. place \in [T -> 1 .. n]
  <2>1. ASSUME NEW p \in T
        PROVE  Cardinality(MetBy(leader, T, p)) \in 1 .. n
    <3>1. Distance(leader, p) \in Int
      BY SeatsAssumption DEF Distance, Seats
    <3>2. MetBy(leader, T, p) \in SUBSET T /\ p \in MetBy(leader, T, p)
      BY <3>1 DEF MetBy
    <3>3. /\ IsFiniteSet(MetBy(leader, T, p))
          /\ Cardinality(MetBy(leader, T, p)) <= n
      BY <1>1, <3>2, FS_Subset
    <3>4. Cardinality(MetBy(leader, T, p)) # 0
      BY <3>2, <3>3, FS_EmptySet
    <3>5. Cardinality(MetBy(leader, T, p)) \in Nat
      BY <3>3, FS_CardinalityType
    <3> HIDE DEF n
    <3> QED
      BY <1>1, <3>3, <3>4, <3>5
  <2> QED
    BY <2>1
<1>3. place \in Surjection(T, 1 .. n)
  <2>1. place \in Injection(T, 1 .. n)
    BY <1>1, <1>2, MetByIsInjective DEF Injection, IsInjective
  <2>2. IsFiniteSet(1 .. n) /\ Cardinality(1 .. n) = n
    BY <1>1, FS_Interval
  <2> HIDE DEF place
  <2> QED
    BY <1>1, <2>1, <2>2, FS_Injection
<1>4. \A k \in 1 .. n : \E p \in T : place[p] = k
  BY <1>3 DEF Surjection
<1>5. order = [k \in 1 .. n |-> CHOOSE p \in T : Cardinality(MetBy(leader, T, p)) = k]
  BY DEF GetRoundOrder
<1>6. \A k \in 1 .. n : order[k] \in T /\ place[order[k]] = k
  <2>1. TAKE k \in 1 .. n
  <2>2. \E p \in T : Cardinality(MetBy(leader, T, p)) = k
    BY <1>4
  <2>3. order[k] = CHOOSE p \in T : Cardinality(MetBy(leader, T, p)) = k
    BY <1>5
  <2>4. order[k] \in T /\ Cardinality(MetBy(leader, T, order[k])) = k
    BY <2>2, <2>3
  <2> QED
    BY <2>4
<1>7. order \in [1 .. n -> T] /\ DOMAIN order = 1 .. n
  BY <1>5, <1>6
<1> HIDE DEF order, place, n
<1>8. order \in Seq(Seats) /\ Len(order) = n
  <2>1. order \in [1 .. n -> Seats]
    BY <1>7
  <2>2. order \in Seq(Seats)
    BY <1>1, <2>1, SeqDef
  <2> QED
    BY <1>1, <1>7, <2>2, LenProperties
<1>9. NoRepeats(order)
  BY <1>6, <1>7 DEF NoRepeats, IsInjective
<1>10. Range(order) = T
  <2>1. ASSUME NEW p \in T
        PROVE  order[place[p]] = p
    <3>1. place[p] \in 1 .. n
      BY <1>2
    <3>2. order[place[p]] \in T /\ place[order[place[p]]] = place[p]
      BY <1>6, <3>1
    <3>3. place \in Injection(T, 1 .. n)
      BY <1>1, <1>2, MetByIsInjective DEF Injection, IsInjective, place
    <3> QED
      BY <1>2, <3>2, <3>3 DEF Injection, IsInjective
  <2> QED
    BY <1>2, <1>7, <2>1 DEF Range
<1> QED
  BY <1>8, <1>9, <1>10 DEF order, n

(* The walk starts at the leader, if the leader is not excluded.            *)
LEMMA LeaderIsFirst ==
  ASSUME NEW leader \in Seats, NEW excluded, leader \notin excluded
  PROVE  GetRoundOrder(leader, excluded)[1] = leader
<1> DEFINE T == Seats \ excluded
           order == GetRoundOrder(leader, excluded)
<1>1. T \in SUBSET Seats /\ leader \in T /\ Cardinality(T) \in Nat
  BY SeatsAreFinite
<1>2. MetBy(leader, T, leader) = {leader}
  BY SeatsAssumption DEF MetBy, Distance, Seats
<1>3. Cardinality(MetBy(leader, T, leader)) = 1
  BY <1>2, FS_Singleton
<1>4. 1 \in 1 .. Cardinality(T)
  <2>1. Cardinality(T) # 0
    BY <1>1, SeatsAreFinite, FS_EmptySet
  <2> QED
    BY <1>1, <2>1
<1>5. order[1] = CHOOSE p \in T : Cardinality(MetBy(leader, T, p)) = 1
  BY <1>4 DEF GetRoundOrder
<1>6. order[1] \in T /\ Cardinality(MetBy(leader, T, order[1])) = 1
  BY <1>1, <1>3, <1>5
<1> HIDE DEF order
<1>7. order[1] = leader
  BY <1>1, <1>3, <1>6, MetByIsInjective
<1> QED
  BY <1>7 DEF order
=============================================================================
