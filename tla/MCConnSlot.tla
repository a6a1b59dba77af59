----------------------------- MODULE MCConnSlot -----------------------------
(* Instances of ConnSlot.  Workers are interchangeable in the safety runs. *)
EXTENDS ConnSlot
WorkerSymmetry == Permutations(Workers)
=============================================================================
