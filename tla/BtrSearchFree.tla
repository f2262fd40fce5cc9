----------------------------- MODULE BtrSearchFree -----------------------------
(***************************************************************************)
(* The lifetime of a dict_index_t that leaf pages still hash into, in     *)
(* storage/innobase/btr/btr0sea.cc: btr_search_drop_page_hash_index with  *)
(* its freed-index branch and garbage_collect mode, btr_search_lazy_free, *)
(* btr_search_drop_page_hash_when_freed, and btr_sea::disable with        *)
(* buf_pool_t::clear_hash_index and btr_search_disable_ref_count.         *)
(*                                                                         *)
(* An index id may have several dict_index_t incarnations (Indexes): the  *)
(* one the dictionary cache holds ("live"), detached ones that pages      *)
(* still point to ("freed", on table->freed_indexes), and destroyed ones. *)
(* The entries of the hash table are left out: a page is hashed when      *)
(* block->index is set.  Building is one step on the live index (its      *)
(* latch protocol is the subject of BtrSearch).                           *)
(***************************************************************************)
EXTENDS Integers, FiniteSets

CONSTANTS
  Threads,  \* threads dropping page hashes or building them
  Pages,    \* leaf pages of the index id
  Indexes,  \* dict_index_t incarnations of the index id
  Sigs,     \* hash signatures (curr_n_fields, curr_n_bytes)
  NULL

(* Who calls btr_search_drop_page_hash_index, and with which page latch:  *)
(* eviction (the frame is in REMOVE_HASH, nobody else holds it),          *)
(* btr_search_drop_page_hash_when_freed (page X-latched), a page access   *)
(* that finds the hash built for a freed index (garbage_collect, page     *)
(* S-latched), and a cursor that rebuilds the page or finds it hashed for *)
(* another incarnation in update_hash_ref (page S-latched, table open),   *)
(* and btr_search_move_or_delete_hash_entries in a page split or merge  *)
(* (both pages X-latched, table open).                                   *)
Kinds == {"evict", "when_freed", "gc", "cursor", "move"}
LatchMode(k) == IF k \in {"gc", "cursor"} THEN "S" ELSE "X"
HoldsTable == {"cursor", "move"}
IStates == {"absent", "live", "freed", "destroyed"}

VARIABLES
  istate,    \* istate[i]: the incarnation's place in its life
  refCount,  \* refCount[i]: index->search_info.ref_count
  bindex,    \* bindex[p]: block->index
  curr,      \* curr[p]: block->curr_n_fields / curr_n_bytes
  enabled,   \* btr_search.enabled
  ax, as,    \* btr_search.parts.latch: exclusive holder, shared holders
  px, ps,    \* page latch of p: exclusive holder, shared holders
  pc,        \* pc[t]: where thread t is
  loc        \* loc[t]: the locals of thread t's drop

vars == <<istate, refCount, bindex, curr, enabled, ax, as, px, ps, pc, loc>>

Idle == [page |-> NULL, page2 |-> NULL, kind |-> NULL, index |-> NULL,
         freed |-> FALSE, sig |-> NULL]
PCs == {"idle", "drop_retry", "drop_snap", "drop_upgrade", "drop_folds",
        "drop_remove", "move_check", "move_snap", "move_build"}

Live == {i \in Indexes : istate[i] = "live"}
Hashed(i) == {p \in Pages : bindex[p] = i}

(* One incarnation is in the dictionary cache; no page is hashed. *)
Init ==
  /\ istate \in {f \in [Indexes -> {"live", "absent"}] :
                   Cardinality({i \in Indexes : f[i] = "live"}) = 1}
  /\ refCount = [i \in Indexes |-> 0]
  /\ bindex = [p \in Pages |-> NULL]
  /\ curr = [p \in Pages |-> CHOOSE s \in Sigs : TRUE]
  /\ enabled = TRUE
  /\ ax = NULL /\ as = {}
  /\ px = [p \in Pages |-> NULL] /\ ps = [p \in Pages |-> {}]
  /\ pc = [t \in Threads |-> "idle"]
  /\ loc = [t \in Threads |-> Idle]

AhiFree == ax = NULL /\ as = {}
PageFree(p, mode) == px[p] = NULL /\ (mode = "X" => ps[p] = {})

(* The caller returns and releases its page latches. *)
Finish(t) ==
  /\ px' = [q \in Pages |-> IF px[q] = t THEN NULL ELSE px[q]]
  /\ ps' = [q \in Pages |-> ps[q] \ {t}]
  /\ pc' = [pc EXCEPT ![t] = "idle"]
  /\ loc' = [loc EXCEPT ![t] = Idle]

-----------------------------------------------------------------------------
(* A caller latches page p and calls btr_search_drop_page_hash_index.     *)
(* A cursor holds the table open, so it works on the live incarnation.    *)
StartDrop(t, p, k) ==
  /\ pc[t] = "idle"
  /\ k # "move"
  /\ PageFree(p, LatchMode(k))
  /\ k = "cursor" => Live # {}
  /\ IF LatchMode(k) = "X" THEN px' = [px EXCEPT ![p] = t] /\ UNCHANGED ps
                           ELSE ps' = [ps EXCEPT ![p] = @ \cup {t}] /\ UNCHANGED px
  /\ loc' = [loc EXCEPT ![t] = [Idle EXCEPT !.page = p, !.kind = k]]
  /\ pc' = [pc EXCEPT ![t] = "drop_retry"]
  /\ UNCHANGED <<istate, refCount, bindex, curr, enabled, ax, as>>

(* retry: if (!block->index) return; read with no AHI latch. *)
DropRetry(t) ==
  /\ pc[t] = "drop_retry"
  /\ IF bindex[loc[t].page] = NULL
       THEN Finish(t)
       ELSE /\ pc' = [pc EXCEPT ![t] = "drop_snap"]
            /\ UNCHANGED <<px, ps, loc>>
  /\ UNCHANGED <<istate, refCount, bindex, curr, enabled, ax, as>>

(* Under the S latch: index = block->index, is_freed = index->freed().   *)
(* A freed index goes on to the X latch; garbage_collect stops at a live *)
(* one; otherwise curr_n_fields is noted and the S latch released.       *)
DropSnap(t) ==
  LET p == loc[t].page
      i == bindex[p]
      isFreed == i # NULL /\ istate[i] = "freed"
  IN
  /\ pc[t] = "drop_snap"
  /\ ax = NULL
  /\ CASE isFreed ->
            /\ loc' = [loc EXCEPT ![t].index = i, ![t].freed = TRUE]
            /\ pc' = [pc EXCEPT ![t] = "drop_upgrade"]
            /\ UNCHANGED <<px, ps>>
       [] loc[t].kind = "gc" \/ i = NULL \/ ~enabled -> Finish(t)
       [] OTHER ->
            /\ loc' = [loc EXCEPT ![t].index = i, ![t].freed = FALSE,
                                   ![t].sig = curr[p]]
            /\ pc' = [pc EXCEPT ![t] = "drop_folds"]
            /\ UNCHANGED <<px, ps>>
  /\ UNCHANGED <<istate, refCount, bindex, curr, enabled, ax, as>>

(* index != block->index, tested after the S latch was traded for X. *)
UpgradeSkipsRecheck(t) == TRUE

StillSameIndex(t) == loc[t].index = bindex[loc[t].page]

(* The S latch was released and the X latch is taken: if block->index is *)
(* no longer the freed index seen under S, start again.                  *)
DropUpgrade(t) ==
  LET p == loc[t].page IN
  /\ pc[t] = "drop_upgrade"
  /\ AhiFree
  /\ CASE ~StillSameIndex(t) ->
            /\ pc' = [pc EXCEPT ![t] = "drop_retry"]
            /\ UNCHANGED <<ax, px, ps, loc>>
       [] ~enabled -> Finish(t) /\ UNCHANGED ax
       [] OTHER ->
            /\ ax' = t
            /\ loc' = [loc EXCEPT ![t].sig = curr[p]]
            /\ pc' = [pc EXCEPT ![t] = "drop_folds"]
            /\ UNCHANGED <<px, ps>>
  /\ UNCHANGED <<istate, refCount, bindex, curr, enabled, as>>

(* The folds of the page's records: rec_is_metadata(rec, *index) and      *)
(* rec_fold(rec, *index, ...), with no AHI latch unless the index was     *)
(* freed.                                                                  *)
DropFolds(t) ==
  /\ pc[t] = "drop_folds"
  /\ pc' = [pc EXCEPT ![t] = "drop_remove"]
  /\ UNCHANGED <<istate, refCount, bindex, curr, enabled, ax, as, px, ps, loc>>

(* switch (ref_count--) case 1: the last page of the index is unhashed.  *)
LastRefAfterDecrement(i) == refCount[i] = 2

LastRef(i) == refCount[i] = 1

(* index->freed() as the drop reads it at the end. *)
IsFreedAtSnapshot(t) == loc[t].freed

IsFreedNow(t) == istate[loc[t].index] = "freed"

(* Under the X latch: stop if someone else dropped the page meanwhile,   *)
(* start again if the page was rebuilt with other parameters; else       *)
(* remove the nodes, count the page off, free a freed index whose last   *)
(* page this was (btr_search_lazy_free), and clear block->index.          *)
(* btr_search_lazy_free: the skipped steps of dict_index_remove_from_cache *)
(* free the freed index (and the table with its last index).            *)
LazyFree(i) == [istate EXCEPT ![i] = "destroyed"]

DropRemove(t) ==
  LET p == loc[t].page
      i == loc[t].index
  IN
  /\ pc[t] = "drop_remove"
  /\ loc[t].freed \/ AhiFree
  /\ ax' = NULL
  /\ CASE ~loc[t].freed /\ bindex[p] = NULL ->
            Finish(t) /\ UNCHANGED <<istate, refCount, bindex>>
       [] curr[p] # loc[t].sig ->
            /\ pc' = [pc EXCEPT ![t] = "drop_retry"]
            /\ UNCHANGED <<px, ps, loc, istate, refCount, bindex>>
       [] OTHER ->
            /\ refCount' = [refCount EXCEPT ![i] = @ - 1]
            /\ istate' = IF LastRef(i) /\ IsFreedNow(t) THEN LazyFree(i) ELSE istate
            /\ bindex' = [bindex EXCEPT ![p] = NULL]
            /\ Finish(t)
  /\ UNCHANGED <<curr, enabled, as>>

-----------------------------------------------------------------------------
(* btr_search_build_page_hash_index under the X latch, by a cursor on the *)
(* live incarnation: an unhashed page is counted and gets curr_* and      *)
(* block->index.  A page hashed for a freed incarnation was dropped by    *)
(* the garbage-collecting page access that latched it.                    *)
Build(t, p, s) ==
  /\ pc[t] = "idle"
  /\ PageFree(p, "S")
  /\ AhiFree
  /\ enabled
  /\ bindex[p] = NULL
  /\ \E i \in Live :
       /\ refCount' = [refCount EXCEPT ![i] = @ + 1]
       /\ bindex' = [bindex EXCEPT ![p] = i]
  /\ curr' = [curr EXCEPT ![p] = s]
  /\ UNCHANGED <<istate, enabled, ax, as, px, ps, pc, loc>>

(* A page split or merge has X-latched block and new_block and calls      *)
(* btr_search_move_or_delete_hash_entries.                               *)
MoveStart(t, b, nb) ==
  /\ pc[t] = "idle"
  /\ b # nb
  /\ PageFree(b, "X") /\ PageFree(nb, "X")
  /\ Live # {}
  /\ px' = [px EXCEPT ![b] = t, ![nb] = t]
  /\ loc' = [loc EXCEPT ![t] = [Idle EXCEPT !.page = b, !.page2 = nb, !.kind = "move"]]
  /\ pc' = [pc EXCEPT ![t] = "move_check"]
  /\ UNCHANGED <<istate, refCount, bindex, curr, enabled, ax, as, ps>>

(* With no AHI latch: return if disabled; index = block->index, else    *)
(* new_block->index; drop block's hash if new_block is hashed.           *)
MoveCheck(t) ==
  LET b == loc[t].page
      nb == loc[t].page2
      i == IF bindex[b] = NULL THEN bindex[nb] ELSE bindex[b]
  IN
  /\ pc[t] = "move_check"
  /\ CASE ~enabled \/ (bindex[nb] = NULL /\ i = NULL) -> Finish(t)
       [] bindex[nb] # NULL ->
            /\ pc' = [pc EXCEPT ![t] = "drop_retry"]
            /\ UNCHANGED <<px, ps, loc>>
       [] OTHER ->
            /\ loc' = [loc EXCEPT ![t].index = i]
            /\ pc' = [pc EXCEPT ![t] = "move_snap"]
            /\ UNCHANGED <<px, ps>>
  /\ UNCHANGED <<istate, refCount, bindex, curr, enabled, ax, as>>

(* index->freed() as btr_search_move_or_delete_hash_entries tests it. *)
MoveIgnoresFreed(i) == FALSE

MoveSeesFreed(i) == istate[i] = "freed"

(* Under the S latch: a freed index means drop block's hash; a hashed    *)
(* block passes its curr_* on to new_block; else nothing to do.          *)
MoveSnap(t) ==
  LET b == loc[t].page IN
  /\ pc[t] = "move_snap"
  /\ ax = NULL
  /\ CASE MoveSeesFreed(loc[t].index) ->
            /\ pc' = [pc EXCEPT ![t] = "drop_retry"]
            /\ UNCHANGED <<px, ps, loc>>
       [] bindex[b] # NULL ->
            /\ loc' = [loc EXCEPT ![t].sig = curr[b]]
            /\ pc' = [pc EXCEPT ![t] = "move_build"]
            /\ UNCHANGED <<px, ps>>
       [] OTHER -> Finish(t)
  /\ UNCHANGED <<istate, refCount, bindex, curr, enabled, ax, as>>

(* btr_search_build_page_hash_index(index, new_block, ...): new_block is  *)
(* X-latched and unhashed, so it is counted and hashed unless disabled.  *)
MoveBuild(t) ==
  LET nb == loc[t].page2
      i == loc[t].index
  IN
  /\ pc[t] = "move_build"
  /\ AhiFree
  /\ IF enabled /\ bindex[nb] = NULL
       THEN /\ refCount' = [refCount EXCEPT ![i] = @ + 1]
            /\ bindex' = [bindex EXCEPT ![nb] = i]
            /\ curr' = [curr EXCEPT ![nb] = loc[t].sig]
       ELSE UNCHANGED <<refCount, bindex, curr>>
  /\ Finish(t)
  /\ UNCHANGED <<istate, enabled, ax, as>>

(* dict_index_remove_from_cache_low: with no cursor open on the table, an *)
(* incarnation with hashed pages (n_ahi_pages(), read under the S latch)  *)
(* is marked freed and kept; one without is destroyed at once.            *)
MarkFreed(i) ==
  /\ istate[i] = "live"
  /\ ax = NULL
  /\ \A t \in Threads : loc[t].kind \notin HoldsTable
  /\ istate' = [istate EXCEPT ![i] = IF refCount[i] = 0 THEN "destroyed" ELSE "freed"]
  /\ UNCHANGED <<refCount, bindex, curr, enabled, ax, as, px, ps, pc, loc>>

(* The table is loaded again: a new incarnation with the same index id. *)
Reload(i) ==
  /\ istate[i] = "absent"
  /\ Live = {}
  /\ istate' = [istate EXCEPT ![i] = "live"]
  /\ UNCHANGED <<refCount, bindex, curr, enabled, ax, as, px, ps, pc, loc>>

(* btr_sea::disable with all AHI latches held: ref_count = 0 for the      *)
(* indexes of the cached tables (btr_search_disable_ref_count), every     *)
(* block->index cleared, and every freed incarnation found on a block     *)
(* collected and freed (clear_hash_index).                                *)
DisableKeepsRefCount == refCount

DisableRefCount == [i \in Indexes |-> IF istate[i] = "live" THEN 0 ELSE refCount[i]]

Disable ==
  /\ enabled
  /\ AhiFree
  /\ enabled' = FALSE
  /\ refCount' = DisableRefCount
  /\ bindex' = [p \in Pages |-> NULL]
  /\ istate' = [i \in Indexes |->
                  IF istate[i] = "freed" /\ Hashed(i) # {} THEN "destroyed" ELSE istate[i]]
  /\ UNCHANGED <<curr, ax, as, px, ps, pc, loc>>

(* btr_sea::enable *)
Enable ==
  /\ ~enabled
  /\ AhiFree
  /\ enabled' = TRUE
  /\ UNCHANGED <<istate, refCount, bindex, curr, ax, as, px, ps, pc, loc>>

Next ==
  \/ \E t \in Threads :
       \/ \E p \in Pages, k \in Kinds : StartDrop(t, p, k)
       \/ DropRetry(t) \/ DropSnap(t) \/ DropUpgrade(t)
       \/ DropFolds(t) \/ DropRemove(t)
       \/ \E p \in Pages, s \in Sigs : Build(t, p, s)
       \/ \E b, nb \in Pages : MoveStart(t, b, nb)
       \/ MoveCheck(t) \/ MoveSnap(t) \/ MoveBuild(t)
  \/ \E i \in Indexes : MarkFreed(i) \/ Reload(i)
  \/ Disable
  \/ Enable

Spec == Init /\ [][Next]_vars

-----------------------------------------------------------------------------
TypeOK ==
  /\ istate \in [Indexes -> IStates]
  /\ refCount \in [Indexes -> Nat]
  /\ bindex \in [Pages -> Indexes \cup {NULL}]
  /\ curr \in [Pages -> Sigs]
  /\ enabled \in BOOLEAN
  /\ ax \in Threads \cup {NULL} /\ as \in SUBSET Threads
  /\ pc \in [Threads -> PCs]

(* The ref_count of every incarnation still in memory, live or freed, is *)
(* the number of pages hashed for it, across racing drops, the freed     *)
(* index's S-to-X upgrade, builds, and disable's reset.                  *)
IndexRefsExact ==
  \A i \in Indexes :
    istate[i] \in {"live", "freed"} => refCount[i] = Cardinality(Hashed(i))

(* No block->index points to an incarnation that btr_search_lazy_free or *)
(* clear_hash_index has destroyed.                                        *)
NoDanglingBlockIndex ==
  \A p \in Pages : bindex[p] # NULL => istate[bindex[p]] \in {"live", "freed"}

(* A freed incarnation is kept only while a page is hashed for it: the   *)
(* drop of its last page, or disable, frees it (no leak on              *)
(* table->freed_indexes).                                                 *)
NoLeakedIndex ==
  \A i \in Indexes : istate[i] = "freed" => Hashed(i) # {}

(* A drop computing the folds of a page, or a move testing and using the *)
(* index it read from block->index, works with an index that has not    *)
(* been freed: the comment of btr_search_drop_page_hash_index says not to *)
(* dereference block->index unprotected because it could be freed.       *)
NoUseAfterFree ==
  \A t \in Threads :
    pc[t] \in {"drop_folds", "move_snap", "move_build"} =>
      istate[loc[t].index] # "destroyed"

(* Pages are only ever newly hashed for the live incarnation: a freed   *)
(* one only loses pages, so it is freed when the last of them goes.      *)
(* btr_search_move_or_delete_hash_entries must not copy block's hash to  *)
(* new_block for an index that was dropped from the cache.               *)
FreedOnlyShrinks ==
  [][\A p \in Pages :
       bindex'[p] # bindex[p] /\ bindex'[p] # NULL => istate[bindex'[p]] = "live"]_vars
=============================================================================
