----------------------- MODULE MCAsyncSerializedWorker ----------------------
(* Model-checking instances of AsyncSerializedWorker.  Posters and pool    *)
(* threads are interchangeable; the symmetry is used only by the runs that *)
(* check no liveness.                                                      *)
EXTENDS AsyncSerializedWorker, TLC

Symmetry == Permutations(Posters) \cup Permutations(Workers)
=============================================================================
