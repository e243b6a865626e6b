------------------------------- MODULE MCHub -------------------------------
(***************************************************************************)
(* Model values for Hub: two users, one of whom has two connections.       *)
(***************************************************************************)
EXTENDS Hub

CONSTANTS a, b, a1, a2, b1, c1, c2

MCOwner == [c \in Sockets |-> IF c \in {a1, a2} THEN a ELSE b]

(* The two connections of a differ in nothing but their names, and so do   *)
(* the codes.  The properties are safety properties.                        *)
Interchangeable ==
  {p @@ q : p \in Permutations({a1, a2}), q \in Permutations({c1, c2})}
=============================================================================
