---------------------------- MODULE MCImportQueue ----------------------------
(* ImportQueue: two hosts and two groups.  Only one host has the file
   of the first row. *)
EXTENDS ImportQueue

CONSTANTS w1, w2, g1, g2

MCGroups == [r \in Row |-> IF r = 3 THEN g2 ELSE g1]
MCReaders == [r \in Row |-> IF r = 1 THEN {w1} ELSE Worker]
MCEverywhere == [r \in Row |-> Worker]
MCOutcome == [r \in Row |-> IF r = 2 THEN "error" ELSE "completed"]
MCParallel == [w \in Worker |-> IF w = w1 THEN 2 ELSE 1]

=============================================================================
