---------------------------- MODULE MCSharedRead -----------------------------
(* SharedRead with four calls of two users, a client of each of whom may go away, *)
(* an outer and an inner key, two slots and room for one flight.                  *)
EXTENDS SharedRead, TLC

CONSTANTS c1, c2, c3, c4, ann, bob, outer, inner

McWho == [c \in Call |-> IF c \in {c1, c2} THEN ann ELSE bob]

=============================================================================
