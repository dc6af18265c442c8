-------------------------- MODULE SyncQueueRefinement --------------------------
(***************************************************************************)
(* The queue implements DesiredState: the wish is read off the rows, what  *)
(* wg-helper was told is the queue's history.                              *)
(***************************************************************************)
EXTENDS SyncQueue

Promise == INSTANCE DesiredState
             WITH want <- [s \in Server |-> Want(s)], given <- delivered, lost <- lost

\* Every step of the handlers, the queue and its runners is a step the promise
\* allows: nothing older than the rows is ever told, and what is neither told
\* nor lost is told in the end.
KeepsThePromise == Promise!Spec
=============================================================================
