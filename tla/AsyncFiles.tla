---------------------------- MODULE AsyncFiles -----------------------------
(***************************************************************************)
(* What SDL promises about asynchronous tasks on files (SDL_asyncio.h,     *)
(* 200-360 and 462-480): a task is done once and its result taken once;    *)
(* the close of a file is its last task, is done after all others, and the *)
(* file goes away only when the results of all its tasks are taken.        *)
(***************************************************************************)
CONSTANTS Task, File, None

VARIABLES
  status,   (* of each task: "new", "pending", "done" or "taken"           *)
  of,       (* the file of each task                                       *)
  closing,  (* the task that closes each file                              *)
  gone      (* the files that are gone                                     *)

fvars == <<status, of, closing, gone>>

Init ==
  /\ status = [t \in Task |-> "new"]
  /\ of = [t \in Task |-> None]
  /\ closing = [f \in File |-> None]
  /\ gone = {}

Others(t) == {u \in Task \ {t} : of[u] = of[t] /\ status[u] # "new"}

(* The task t of f starts; when it cannot be done later it is done at once. *)
Ask(t, f) ==
  /\ status[t] = "new" /\ closing[f] = None
  /\ of' = [of EXCEPT ![t] = f]
  /\ status' = [status EXCEPT ![t] = "pending"]
  /\ UNCHANGED <<closing, gone>>

Close(t, f) ==
  /\ status[t] = "new" /\ closing[f] = None
  /\ of' = [of EXCEPT ![t] = f]
  /\ closing' = [closing EXCEPT ![f] = t]
  /\ \/ status' = [status EXCEPT ![t] = "pending"]
     \/ /\ \A u \in Task : of[u] = f => status[u] = "taken"
        /\ status' = [status EXCEPT ![t] = "done"]
  /\ UNCHANGED gone

(* Tasks are done, or cancelled; the close when nothing else is left to do. *)
Finish(S) ==
  /\ \A t \in S : /\ status[t] = "pending"
                  /\ closing[of[t]] = t =>
                       \A u \in Others(t) : status[u] = "taken"
  /\ status' = [t \in Task |-> IF t \in S THEN "done" ELSE status[t]]
  /\ UNCHANGED <<of, closing, gone>>

Take(t) ==
  /\ status[t] = "done"
  /\ status' = [status EXCEPT ![t] = "taken"]
  /\ UNCHANGED <<of, closing, gone>>

Free(f) ==
  /\ closing[f] # None /\ f \notin gone
  /\ \A t \in Task : of[t] = f => status[t] = "taken"
  /\ gone' = gone \cup {f}
  /\ UNCHANGED <<status, of, closing>>

Next ==
  \/ \E t \in Task, f \in File : Ask(t, f) \/ Close(t, f)
  \/ \E S \in SUBSET Task : Finish(S)
  \/ \E t \in Task : Take(t)
  \/ \E f \in File : Free(f)

Spec == Init /\ [][Next]_fvars
=============================================================================
