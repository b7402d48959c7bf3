--------------------------- MODULE MC_Pagination ---------------------------
(* Model-checking instance of Pagination. *)
EXTENDS Pagination

\* Call arguments from -1 to 2: negative, zero and valid.
MCBadArgs == -1..2

\* Call arguments from -1 to 4.
MCProbeArgs == -1..4
=============================================================================
