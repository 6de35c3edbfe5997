---------------------------- MODULE Subsequences ----------------------------
(***************************************************************************)
(* Removing elements from a queue wherever they are, as std::list and      *)
(* std::remove_if do.                                                      *)
(***************************************************************************)
EXTENDS Naturals, Sequences

(* The elements of s that are in K, in the order they have in s. *)
Kept(s, K) ==
    LET kept[k \in 0 .. Len(s)] ==
            IF k = 0 THEN <<>>
            ELSE IF s[k] \in K THEN Append(kept[k - 1], s[k])
            ELSE kept[k - 1]
    IN  kept[Len(s)]
=============================================================================
