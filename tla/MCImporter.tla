----------------------------- MODULE MCImporter -----------------------------
(* Instances of Importer for TLC. *)
EXTENDS Importer, TLC

ImporterSymmetry == Permutations(Detaches) \cup Permutations(Keys)
=============================================================================
