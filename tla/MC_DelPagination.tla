-------------------------- MODULE MC_DelPagination --------------------------
(* Model-checking instance of DelPagination. *)
EXTENDS DelPagination
=============================================================================
