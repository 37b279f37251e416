-------------------------- MODULE MCQueueDelivery --------------------------
(***************************************************************************)
(* Instances of QueueDelivery for TLC.  Workers are interchangeable.       *)
(***************************************************************************)
EXTENDS QueueDelivery, TLC

WorkerSymmetry == Permutations(Workers)
=============================================================================
