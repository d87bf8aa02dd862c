------------------------------ MODULE MCMemory ------------------------------
(* Memory on a small instance: four pages of four leaves.                  *)
EXTENDS Memory

(* A range that ends within a page, one that ends where a page ends, and   *)
(* one that crosses into the next page, depending on where it starts.      *)
MCRangeData == {<<0, 1>>}
=============================================================================
