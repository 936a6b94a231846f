----------------------------- MODULE MCFilterMask -----------------------------
(* Instance of FilterMask for TLC; the cfg files choose the widths. *)
EXTENDS FilterMask
===============================================================================
