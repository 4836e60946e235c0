-------------------------- MODULE MCVoiceSynthesis --------------------------
(* Model-checking instances of VoiceSynthesis: clients are interchangeable,  *)
(* prompts are not where a run gives them different kinds.                   *)
EXTENDS VoiceSynthesis

Symmetry == Permutations(Client)
=============================================================================
