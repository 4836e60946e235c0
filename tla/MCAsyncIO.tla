----------------------------- MODULE MCAsyncIO -----------------------------
(* Instances of AsyncIO: the threads and the tasks may be exchanged. *)
EXTENDS AsyncIO, TLC

Symmetry == Permutations(Thread) \cup Permutations(Worker) \cup Permutations(Task)
              \cup Permutations(Queue)
=============================================================================
