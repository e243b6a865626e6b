------------------------------- MODULE MCRoom -------------------------------
(***************************************************************************)
(* Model values for Room.  A user is called by a seat, and a socket is a    *)
(* pair of its user and a number.                                           *)
(***************************************************************************)
EXTENDS Room

CONSTANTS
  Reconnecting,  \* the users who may come back once
  Twice          \* whether user 0 may be dealt the last seat as well

MCSockets == {<<u, 1>> : u \in Seats} \cup {<<u, 2>> : u \in Reconnecting}
MCOwner == [c \in MCSockets |-> c[1]]

Joined == [s \in Seats |-> <<s, 1>>]
MCTables ==
  {Joined} \cup IF Twice THEN {[Joined EXCEPT ![N - 1] = <<0, 2>>]} ELSE {}
=============================================================================
