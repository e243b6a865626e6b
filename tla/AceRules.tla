------------------------------ MODULE AceRules ------------------------------
(***************************************************************************)
(* The stateless helpers of be/game/engine.go: seats, the rotation in      *)
(* which they act, the lists of seats the engine keeps, and the rule that  *)
(* names the loser.  Cards appear only in AceEngine; the abstract game     *)
(* TurnGame and the room use this module as well.                          *)
(***************************************************************************)
EXTENDS Integers, FiniteSets, SequencesExt

CONSTANT N   \* the number of seats of the table

(* newRoom seats one player per member of a queue of 2..7 players.         *)
ASSUME SeatsAssumption == N \in Nat /\ N >= 2

Seats == 0 .. N - 1

(* The engine's "nobody": CurrentSeat and NextLeader are -1, Loser is nil.  *)
NoSeat == -1

-----------------------------------------------------------------------------
(* Lists of seats.  RoundOrder and Finished never hold a seat twice, so     *)
(* removing every occurrence and removing the only one are the same.        *)

IndexOf(xs, v) == CHOOSE i \in DOMAIN xs : xs[i] = v

RemoveInt(xs, v) ==
  IF v \in Range(xs) THEN RemoveAt(xs, IndexOf(xs, v)) ELSE xs

NoRepeats(xs) == IsInjective(xs)

-----------------------------------------------------------------------------
(* GetRoundOrder(leader, n, finished) walks the table once from the leader  *)
(* and appends every seat that is not excluded.  A listed seat therefore    *)
(* stands at the place that counts the listed seats met no later than it.   *)

Distance(leader, p) == IF p >= leader THEN p - leader ELSE p - leader + N

MetBy(leader, seated, p) ==
  {q \in seated : Distance(leader, q) <= Distance(leader, p)}

(* A broken walk that starts one seat after the leader.                     *)
GetRoundOrderLate(leader, excluded) ==
  LET seated == Seats \ excluded
      start  == (leader + 1) % N
  IN  [k \in 1 .. Cardinality(seated) |->
         CHOOSE p \in seated : Cardinality(MetBy(start, seated, p)) = k]

(* A broken walk that forgets to skip the excluded seats.                   *)
GetRoundOrderAll(leader, excluded) ==
  [k \in 1 .. N |-> CHOOSE p \in Seats : Distance(leader, p) = k - 1]

GetRoundOrder(leader, excluded) ==
  LET seated == Seats \ excluded
  IN  [k \in 1 .. Cardinality(seated) |->
         CHOOSE p \in seated : Cardinality(MetBy(leader, seated, p)) = k]

-----------------------------------------------------------------------------
(* active(): the seats neither finished nor removed.                        *)
ActiveSeats(finished, removed) == Seats \ (Range(finished) \cup removed)

(* A broken rule that names a loser even after somebody was removed.        *)
TerminalLoserAlways(finished, removed) ==
  LET active == ActiveSeats(finished, removed)
  IN  IF Cardinality(active) = 1
      THEN CHOOSE s \in active : TRUE
      ELSE NoSeat

(* setTerminalLoser: the only seat still holding cards loses, unless        *)
(* somebody was removed.                                                    *)
TerminalLoser(finished, removed) ==
  LET active == ActiveSeats(finished, removed)
  IN  IF Cardinality(active) = 1 /\ removed = {}
      THEN CHOOSE s \in active : TRUE
      ELSE NoSeat
=============================================================================
