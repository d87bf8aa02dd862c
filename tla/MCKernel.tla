------------------------------ MODULE MCKernel ------------------------------
(* The input state is at step 1; it has exited, or the guest exits at      *)
(* step 3 or 4.  One pattern of each kind, and the pattern %0.             *)
EXTENDS Kernel

MCStopAt     == {Never, Equal(2), MultipleOf(3), MultipleOf(0)}
MCProofAt    == {Never, MultipleOf(2), MultipleOf(0)}
MCSnapshotAt == {Always, MultipleOf(0)}
=============================================================================
