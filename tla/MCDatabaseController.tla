------------------------- MODULE MCDatabaseController -------------------------
(* Small instances of DatabaseController for TLC. *)
EXTENDS DatabaseController, TLC

CONSTANTS d1, d2, o1

\* Database names are interchangeable. Used by safety runs only.
Symmetry == Permutations(Names)

===============================================================================
