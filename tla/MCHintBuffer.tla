---------------------------- MODULE MCHintBuffer ----------------------------
(* Empty hints, one after the other too, and hints longer than a prefix.   *)
EXTENDS HintBuffer

MCSize == <<1, 0, 5, 2, 0, 0, 3, 1, 4, 0, 6, 2, 1, 0>>
=============================================================================
