----------------------------- MODULE MCSuloFetch -----------------------------
(* A list of two pages; the row added to it may not decode.                *)
EXTENDS SuloFetch

TwoPages == {<<3, 2, 1>>}
=============================================================================
