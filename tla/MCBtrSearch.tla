----------------------------- MODULE MCBtrSearch -----------------------------
(* Two threads, a two-page leaf level of a unique index on two fields     *)
(* with values 1 .. 2, two heap slots per page and two hash cells.        *)
EXTENDS BtrSearch, TLC

MCPageOrder == <<"p1", "p2">>
MCKeyRange == [p \in {"p1", "p2"} |->
                 IF p = "p1" THEN {<<1, 1>>, <<1, 2>>} ELSE {<<2, 1>>, <<2, 2>>}]
MCInitRecs == [p \in {"p1", "p2"} |->
                 IF p = "p1" THEN <<[heap |-> 1, key |-> <<1, 1>>],
                                    [heap |-> 2, key |-> <<1, 2>>]>>
                             ELSE <<[heap |-> 1, key |-> <<2, 1>>]>>]
MCFieldVals == 1 .. 2
(* A checksum with one collision: the one-field prefix <<1>> and the key  *)
(* <<2, 2>> share fold 1.                                                  *)
MCCrc32c == (<<1>> :> 1) @@ (<<2>> :> 2) @@ (<<1, 1>> :> 3) @@ (<<1, 2>> :> 4)
              @@ (<<2, 1>> :> 5) @@ (<<2, 2>> :> 1)
(* Concurrency run: right-side signatures on one and two fields and a    *)
(* left-side one; a prefix search and an insert-position search at the    *)
(* end of the last page.                                                   *)
MCBuildSigs == {[n_fields |-> 1, left_side |-> FALSE],
                [n_fields |-> 2, left_side |-> FALSE],
                [n_fields |-> 1, left_side |-> TRUE]}
MCSearchTuples == {<<1>>, <<2, 2>>}
MCSearchModes == {"LE"}
(* Single-thread run: every signature a build may read, every tuple and   *)
(* every mode, for the guess check against the reference search.          *)
MCAllBuildSigs == BuildSig
MCAllTuples == Tuples
MCAllModes == Modes
MCSymmetry == Permutations(Threads)
(* curr_* of a block that is not hashed is never read.                    *)
MCView == <<recs, pstate, px, ps, bindex,
            [p \in Pages |-> IF bindex[p] = NULL THEN NULL ELSE curr[p]],
            ahi, enabled, refCount, ax, as, pc, loc>>
=============================================================================
