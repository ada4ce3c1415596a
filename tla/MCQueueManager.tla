--------------------------- MODULE MCQueueManager ---------------------------
(***************************************************************************)
(* QueueManager with three callers on two keys: enough for two of them to  *)
(* miss on the same key at once while the third removes it or works on the *)
(* other key.  Four queues let both keys be removed and registered again.  *)
(***************************************************************************)
EXTENDS QueueManager, TLC

Symmetry == Permutations(Callers) \cup Permutations(Keys)
=============================================================================
