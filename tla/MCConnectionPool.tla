--------------------------- MODULE MCConnectionPool ---------------------------
(* A small instance of ConnectionPool for TLC. *)
EXTENDS ConnectionPool

CONSTANTS r1, r2, k1, h1, h2, h3

===============================================================================
