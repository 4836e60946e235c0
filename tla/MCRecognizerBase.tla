-------------------------- MODULE MCRecognizerBase --------------------------
(* Instances of RecognizerBase. *)
EXTENDS RecognizerBase, TLC

(* Grammars are alike.  Used for the safety instances only. *)
Alike == Permutations(Grammar)
=============================================================================
