------------------------ MODULE MCInstrumentedState ------------------------
(* Words and keys of two bytes.  The oracle knows the preimages of five    *)
(* keys, one of them empty, one longer than a word and too long for a      *)
(* local one, one with a key of no type; other keys are refused.           *)
EXTENDS InstrumentedState, TLC

MCPreimage ==
    (<<1, 2>> :> <<2, 1>>) @@ (<<2, 1>> :> << >>) @@ (<<2, 2>> :> <<1>>)
        @@ (<<1, 1>> :> <<1, 2, 1>>) @@ (<<0, 1>> :> <<2>>)

MCStoreWords == {<<1, 2>>, <<2, 1>>}
=============================================================================
