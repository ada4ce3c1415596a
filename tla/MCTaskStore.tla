---------------------------- MODULE MCTaskStore -----------------------------
(***************************************************************************)
(* TaskStore on a small instance.  Four versions let two clients race, a   *)
(* stored version be regressed, an entry be deleted and created again, and *)
(* a stale conditional save arrive after all of it; the second key shows   *)
(* that the shared counter does not entangle keys.  No symmetry: the run   *)
(* checks a refinement.                                                    *)
(***************************************************************************)
EXTENDS TaskStore
=============================================================================
