----------------------------- MODULE MCExtensions -----------------------------
(******************************************************************************)
(* A chain of three agents: callers that repeat a header, ask for two         *)
(* extensions or for none, and cards that list all, one or no extension.      *)
(******************************************************************************)
EXTENDS Extensions, TLC

CONSTANTS u1, u2

Asking(n1, n2, metadata) == [copies |-> (u1 :> n1) @@ (u2 :> n2), metadata |-> metadata]

CallerRequests == {Asking(3, 0, {u1}), Asking(1, 1, {u1, u2}), Asking(0, 0, {u2})}
KnownCards == {NoCard, {u1, u2}, {u1}}
SomeWishes == {{}, {u2}}

Symmetry == Permutations(Requests)
================================================================================
