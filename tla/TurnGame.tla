------------------------------ MODULE TurnGame ------------------------------
(***************************************************************************)
(* What the rules engine promises its caller, the room: whose turn it is,  *)
(* who has run out of cards, who was removed, and how the phases follow    *)
(* each other.  Cards are abstracted away: every outcome some hand could   *)
(* give is a choice.  AceEngine is shown to implement this module, and     *)
(* Room is built on it.                                                    *)
(***************************************************************************)
EXTENDS AceRules

VARIABLES
  phase,      \* "playing", "result" (the pause after a trick) or "gameOver"
  turn,       \* CurrentSeat(): the seat that must act, NoSeat outside "playing"
  finished,   \* the seats without cards, in the order they ran out
  removed,    \* the seats that left or were burned
  loser       \* the last holder of cards once it is known, else NoSeat

gameVars == <<phase, turn, finished, removed, loser>>

Active == ActiveSeats(finished, removed)

GameInit ==
  /\ phase = "playing"
  /\ turn \in Seats
  /\ finished = <<>>
  /\ removed = {}
  /\ loser = NoSeat

(* The end of a trick.  On a cut some seat takes the pile and is back in.   *)
Settle(fin, rem) ==
  /\ phase' = "result"
  /\ turn' = NoSeat
  /\ finished' \in {fin} \cup {RemoveInt(fin, taker) : taker \in Range(fin)}
  /\ loser' = TerminalLoser(finished', rem)

(* The seat whose turn it is plays a card, maybe its last.                  *)
Move(s) ==
  /\ phase = "playing"
  /\ turn = s
  /\ \E fin \in {finished, Append(finished, s)} :
       \/ /\ turn' \in ActiveSeats(fin, removed) \ {s}
          /\ finished' = fin
          /\ UNCHANGED <<phase, loser>>
       \/ Settle(fin, removed)
  /\ UNCHANGED removed

(* A seat is pushed out in the middle of a trick, or during the pause.      *)
Leave(s) ==
  /\ s \in Seats \ removed
  /\ phase # "gameOver"
  /\ removed' = removed \cup {s}
  /\ \/ /\ phase = "playing"
        /\ Cardinality(Active \ {s}) > 1
        /\ IF turn = s THEN turn' \in Active \ {s} ELSE turn' = turn
        /\ UNCHANGED <<phase, finished, loser>>
     \/ /\ phase = "playing"
        /\ Settle(finished, removed')
     \/ /\ phase = "playing"
        /\ Cardinality(Active \ {s}) <= 1
        /\ phase' = "gameOver"
        /\ turn' = NoSeat
        /\ loser' = NoSeat
        /\ UNCHANGED finished
     \/ /\ phase = "result"
        /\ UNCHANGED <<phase, turn, finished, loser>>

(* The pause after a trick is over.                                         *)
NextRound ==
  /\ phase = "result"
  /\ IF Cardinality(Active) <= 1
     THEN /\ phase' = "gameOver"
          /\ loser' = TerminalLoser(finished, removed)
          /\ UNCHANGED turn
     ELSE /\ phase' = "playing"
          /\ turn' \in Active
          /\ UNCHANGED loser
  /\ UNCHANGED <<finished, removed>>

GameNext ==
  \/ \E s \in Seats : Move(s) \/ Leave(s)
  \/ NextRound

GameSpec == GameInit /\ [][GameNext]_gameVars
=============================================================================
