----------------------- MODULE SerializedDispatcher ------------------------
(***************************************************************************)
(* What the library expects of an event queue (IAsyncDispatch,             *)
(* AsyncSerializedWorker.cs:11-16): items are handled one at a time and in *)
(* the order they were posted, until the owner closes the queue, which     *)
(* refuses later posts and may drop what is pending.                       *)
(***************************************************************************)
EXTENDS Integers, Sequences

VARIABLES
  pending,   (* items posted and not yet handled, oldest first             *)
  current,   (* the set of items being handled                             *)
  accepted,  (* number of items accepted so far                            *)
  closed     (* the owner was disposed                                     *)

dvars == <<pending, current, accepted, closed>>

Init ==
  /\ pending = <<>>
  /\ current = {}
  /\ accepted = 0
  /\ closed = FALSE

(* One call hands over one or more items, which stay together. *)
Accept ==
  /\ ~closed
  /\ accepted' > accepted
  /\ pending' = pending \o [i \in 1..(accepted' - accepted) |-> accepted + i]
  /\ UNCHANGED <<current, closed>>

Begin ==
  /\ pending # <<>>
  /\ current = {}
  /\ current' = {Head(pending)}
  /\ pending' = Tail(pending)
  /\ UNCHANGED <<accepted, closed>>

End ==
  /\ current # {}
  /\ current' = {}
  /\ UNCHANGED <<pending, accepted, closed>>

Close == ~closed /\ closed' = TRUE /\ UNCHANGED <<pending, current, accepted>>

Drop == closed /\ pending' = <<>> /\ UNCHANGED <<current, accepted, closed>>

Next == Accept \/ Begin \/ End \/ Close \/ Drop

Spec == Init /\ [][Next]_dvars
=============================================================================
