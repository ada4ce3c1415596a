-------------------------------- MODULE Filters --------------------------------
(* The elements of a sequence that are in a set, in their order.  As a function *)
(* of the sequence's prefixes, which proofs can expand (SelectSeq they cannot). *)
EXTENDS Integers, Sequences

KeptOfPrefixes(s, K) ==
    LET kept[n \in 0..Len(s)] ==
            IF n = 0 THEN <<>>
            ELSE IF s[n] \in K THEN Append(kept[n - 1], s[n]) ELSE kept[n - 1]
    IN kept

Kept(s, K) == KeptOfPrefixes(s, K)[Len(s)]
================================================================================
