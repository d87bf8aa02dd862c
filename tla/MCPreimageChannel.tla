-------------------------- MODULE MCPreimageChannel --------------------------
(* A short hint, a hint longer than a pipe, an empty and a long preimage.  *)
EXTENDS PreimageChannel

MCSize == [x \in {"h0", "h1", "k0", "k1"} |->
              CASE x = "h0" -> 0 [] x = "h1" -> 2 [] x = "k0" -> 0 [] x = "k1" -> 3]
=============================================================================
