------------------------------ MODULE BtrSearch ------------------------------
(***************************************************************************)
(* The adaptive hash index seen from the B-tree leaf pages it points into: *)
(* btr_search_build_page_hash_index, btr_search_drop_page_hash_index,      *)
(* btr_search_guess_on_hash with btr_search_check_guess, the insert and   *)
(* delete callbacks, btr_search_update_hash_ref, page eviction, and       *)
(* btr_sea::disable / enable (storage/innobase/btr/btr0sea.cc).            *)
(*                                                                         *)
(* The hash partition itself is the abstract map of module AHIMap, which  *)
(* module AHIPartition shows the chained table and slab allocator to      *)
(* implement.  A record pointer is <<page, heap number>>; a fold is the   *)
(* checksum of a key prefix, distinct prefixes may collide (n_bytes is   *)
(* abstracted: a hash signature is n_fields and left_side only).  The latch of the    *)
(* partition (btr_search.parts.latch) is ax / as; a page latch is px / ps.*)
(***************************************************************************)
EXTENDS Naturals, Sequences, SequencesExt, FiniteSets

CONSTANTS
  Threads,     \* threads running B-tree operations
  Pages,       \* leaf pages of the index, one buffer frame each
  PageOrder,   \* the leaf pages in key order (the sibling chain)
  KeyRange,    \* KeyRange[p]: the keys the B-tree places on page p
  InitRecs,    \* InitRecs[p]: the records of p when the model starts
  NUnique,     \* dict_index_get_n_unique_in_tree(index)
  FieldVals,   \* values of one key field
  NHeaps,      \* heap numbers available on one page
  NCells,      \* cells of the hash table
  Crc32c,      \* Crc32c[x]: the fold of key prefix x (collisions allowed)
  Indexes,     \* dict_index_t objects
  Idx,         \* the index all operations work on
  BuildSigs,   \* signatures a build may be asked for (a subset of BuildSig)
  SearchTuples,\* tuples searched with the hash (a subset of Tuples)
  SearchModes, \* search modes used (a subset of Modes)
  NULL

Keys == [1 .. NUnique -> FieldVals]
Heaps == 1 .. NHeaps
Rec == [heap : Heaps, key : Keys]
RecPtr == Pages \X Heaps
(* A hash signature: curr_n_fields and curr_left_side of a block.          *)
Sig == [n_fields : 1 .. NUnique, left_side : BOOLEAN]
(* What a builder may be asked for: block->n_fields etc. are read without *)
(* a latch, so n_fields may be any value up to n_unique, 0 included.      *)
BuildSig == [n_fields : 0 .. NUnique, left_side : BOOLEAN]
Tuples == {SubSeq(k, 1, n) : k \in Keys, n \in 1 .. NUnique}
KeyPrefixes == {SubSeq(k, 1, n) : k \in Keys, n \in 1 .. NUnique}
FoldVals == {Crc32c[x] : x \in KeyPrefixes}
Modes == {"G", "GE", "L", "LE"}
PageStates == {"file", "remove_hash", "free"}

(* rec_fold(rec, index, n_fields, 0) and dtuple_fold: the checksum of the *)
(* first n_fields fields.  hash_table_t::cell_get: the fold modulo the    *)
(* number of cells.                                                        *)
Fold(key, nf) == Crc32c[SubSeq(key, 1, nf)]
CellOfFold(f) == f % NCells
PageOfRec(r) == r[1]

VARIABLES
  recs,      \* recs[p]: user records of page p in key order
  pstate,    \* pstate[p]: buf_page_t state of the frame (abstracted)
  px, ps,    \* page latch of p: exclusive holder, shared holders
  bindex,    \* block->index
  curr,      \* curr[p]: [n_fields, left_side] = block->curr_*
  ahi,       \* the entries of the hash partition
  enabled,   \* btr_search.enabled
  refCount,  \* index->search_info.ref_count
  ax, as,    \* btr_search.parts.latch: exclusive holder, shared holders
  pc,        \* pc[t]: where thread t is
  loc        \* loc[t]: the locals of thread t

Map == INSTANCE AHIMap WITH entries <- ahi, Folds <- FoldVals, Recs <- RecPtr,
         CellOf <- CellOfFold, PageOf <- PageOfRec

vars == <<recs, pstate, px, ps, bindex, curr, ahi, enabled, refCount, ax, as,
          pc, loc>>

Idle == [page |-> NULL, sig |-> NULL, nf |-> 0, tuple |-> <<>>, mode |-> NULL,
         lm |-> NULL, heap |-> 0, nheap |-> 0, fold |-> 0, list |-> <<>>, ret |-> "idle"]

PCs == {"idle", "build_insert", "drop_snap", "drop_remove", "evict_free",
        "guess_latch", "guess_ok", "node_ins_x", "ins_x", "del_x", "ref_x"}

TypeOK ==
  /\ \A p \in Pages : recs[p] \in Seq(Rec) /\ Len(recs[p]) <= NHeaps
  /\ pstate \in [Pages -> PageStates]
  /\ px \in [Pages -> Threads \cup {NULL}] /\ ps \in [Pages -> SUBSET Threads]
  /\ bindex \in [Pages -> Indexes \cup {NULL}]
  /\ curr \in [Pages -> Sig]
  /\ Map!TypeOK
  /\ refCount \in [Indexes -> Nat]
  /\ ax \in Threads \cup {NULL} /\ as \subseteq Threads
  /\ pc \in [Threads -> PCs]

Init ==
  /\ recs = InitRecs
  /\ pstate = [p \in Pages |-> "file"]
  /\ px = [p \in Pages |-> NULL] /\ ps = [p \in Pages |-> {}]
  /\ bindex = [p \in Pages |-> NULL]
  /\ curr \in [Pages -> Sig]
  /\ ahi = {}
  /\ enabled \in BOOLEAN
  /\ refCount = [i \in Indexes |-> 0]
  /\ ax = NULL /\ as = {}
  /\ pc = [t \in Threads |-> "idle"]
  /\ loc = [t \in Threads |-> Idle]

-----------------------------------------------------------------------------
(* Keys, records and the page.                                             *)

(* cmp_dtuple_rec_with_match: the fields of tuple t that match key k, and *)
(* the comparison of t with k over the fields of t.                       *)
MatchLen(t, k) == Max({m \in 0 .. Len(t) : SubSeq(t, 1, m) = SubSeq(k, 1, m)})
Cmp(t, k) ==
  LET m == MatchLen(t, k)
  IN IF m = Len(t) THEN 0 ELSE IF t[m + 1] < k[m + 1] THEN -1 ELSE 1

PosOf(p, h) == CHOOSE i \in 1 .. Len(recs[p]) : recs[p][i].heap = h
IsLive(p, h) == \E i \in 1 .. Len(recs[p]) : recs[p][i].heap = h
KeyOf(p, h) == recs[p][PosOf(p, h)].key
FreeHeaps(p) == {h \in Heaps : ~IsLive(p, h)}
KeysOf(p) == {recs[p][i].key : i \in 1 .. Len(recs[p])}
PageHasPrev(p) == p # PageOrder[1]
PageHasNext(p) == p # PageOrder[Len(PageOrder)]

Entry(f, p, h) == [fold |-> f, rec |-> <<p, h>>]

AhiSFree == ax = NULL
AhiXFree == ax = NULL /\ as = {}

Return(t) ==
  /\ pc' = [pc EXCEPT ![t] = loc[t].ret]
  /\ loc' = IF loc[t].ret = "idle" THEN [loc EXCEPT ![t] = Idle] ELSE loc

UnlatchPage(t, p) ==
  /\ px' = [px EXCEPT ![p] = IF @ = t THEN NULL ELSE @]
  /\ ps' = [ps EXCEPT ![p] = @ \ {t}]

Done(t) ==
  /\ pc' = [pc EXCEPT ![t] = "idle"]
  /\ loc' = [loc EXCEPT ![t] = Idle]

-----------------------------------------------------------------------------
(* btr_search_build_page_hash_index: the (fold, rec) pairs cached before  *)
(* the latch is taken.  With left_side the first record of every run of   *)
(* equal folds, otherwise the last.                                        *)
BuildList(p, sig) ==
  LET s == recs[p]
      n == Len(s)
      F(i) == Fold(s[i].key, sig.n_fields)
      Cached(i) == IF sig.left_side THEN i = 1 \/ F(i) # F(i - 1)
                                    ELSE i = n \/ F(i) # F(i + 1)
      idx == SelectSeq([i \in 1 .. n |-> i], Cached)
  IN [j \in 1 .. Len(idx) |-> Entry(F(idx[j]), p, s[idx[j]].heap)]

(* Entered with page p S-latched after a tree descent, with the signature *)
(* search_info_update read from block->n_fields etc.  The S-latched check *)
(* of enabled and rebuild; a rebuild first drops the old hash index.      *)
BuildCheck(t, p, sig) ==
  /\ pc[t] = "idle" /\ pstate[p] = "file" /\ px[p] = NULL /\ AhiSFree
  /\ enabled
  /\ ps' = [ps EXCEPT ![p] = @ \cup {t}]
  /\ LET rebuild == bindex[p] # NULL /\ curr[p] # sig
     IN /\ pc' = [pc EXCEPT ![t] = IF rebuild THEN "drop_snap" ELSE "build_insert"]
        /\ loc' = [loc EXCEPT ![t] = [Idle EXCEPT !.page = p, !.sig = sig,
                                        !.ret = "build_insert"]]
  /\ UNCHANGED <<recs, pstate, px, bindex, curr, ahi, enabled, refCount, ax, as>>

(* The ref_count step of a build: a page that was not hashed is counted. *)
CountAlways(p) == [refCount EXCEPT ![Idx] = @ + 1]

CountNewPage(p) ==
  IF bindex[p] = NULL THEN [refCount EXCEPT ![Idx] = @ + 1] ELSE refCount

(* The X-latched part: re-check enabled, count a newly hashed page, give  *)
(* up if another thread built it with another signature meanwhile, set   *)
(* curr_* and block->index and insert the cached entries.  An unsensible  *)
(* signature returns before the latch.  (Leaf pages are never empty here: *)
(* the B-tree empties a page only through btr_page_empty, which drops its *)
(* hash index first.)                                                      *)
BuildInsert(t) ==
  LET p == loc[t].page
      sig == loc[t].sig
  IN
  /\ pc[t] = "build_insert"
  /\ \/ /\ sig.n_fields = 0
        /\ UNCHANGED <<bindex, curr, ahi, refCount>>
     \/ /\ sig.n_fields > 0 /\ AhiXFree
        /\ \/ /\ ~enabled \/ (bindex[p] # NULL /\ curr[p] # sig)
              /\ UNCHANGED <<bindex, curr, ahi, refCount>>
           \/ /\ enabled /\ (bindex[p] = NULL \/ curr[p] = sig)
              /\ refCount' = CountNewPage(p)
              /\ curr' = [curr EXCEPT ![p] = [n_fields |-> sig.n_fields,
                                              left_side |-> sig.left_side]]
              /\ bindex' = [bindex EXCEPT ![p] = Idx]
              /\ ahi' \in Map!InsertAllResults(ahi, BuildList(p, sig))
  /\ UnlatchPage(t, p)
  /\ Done(t)
  /\ UNCHANGED <<recs, pstate, enabled, ax, as>>

-----------------------------------------------------------------------------
(* btr_search_drop_page_hash_index(block, false), called with the page    *)
(* latched or in state REMOVE_HASH.  Under the S latch: snapshot          *)
(* block->index and curr_n_fields; return if the page is not hashed or   *)
(* the index is disabled.                                                  *)
DropSnap(t) ==
  LET p == loc[t].page IN
  /\ pc[t] = "drop_snap" /\ AhiSFree
  /\ \/ /\ ~(bindex[p] # NULL /\ enabled)
        /\ Return(t)
     \/ /\ bindex[p] # NULL /\ enabled
        /\ pc' = [pc EXCEPT ![t] = "drop_remove"]
        /\ loc' = [loc EXCEPT ![t].nf = curr[p].n_fields]
  /\ UNCHANGED <<recs, pstate, px, ps, bindex, curr, ahi, enabled, refCount,
                 ax, as>>

(* The folds of the page under the snapshot n_fields, computed without    *)
(* the latch (the page cannot change), and removal under the X latch:     *)
(* retry if another thread rebuilt the page with other n_fields.          *)
DropFolds(p, nf) == {Fold(recs[p][i].key, nf) : i \in 1 .. Len(recs[p])}

RECURSIVE RemoveAllFolds(_, _, _)
RemoveAllFolds(E, F, p) ==
  IF F = {} THEN E
  ELSE LET f == CHOOSE x \in F : TRUE
       IN RemoveAllFolds(Map!RemovedPage(E, f, p), F \ {f}, p)

SameNFields(p, nf) == curr[p].n_fields = nf

DropRemove(t) ==
  LET p == loc[t].page
      nf == loc[t].nf
  IN
  /\ pc[t] = "drop_remove" /\ AhiXFree
  /\ \/ /\ bindex[p] = NULL
        /\ Return(t)
        /\ UNCHANGED <<bindex, ahi, refCount>>
     \/ /\ bindex[p] # NULL /\ ~SameNFields(p, nf)
        /\ pc' = [pc EXCEPT ![t] = "drop_snap"]
        /\ UNCHANGED <<loc, bindex, ahi, refCount>>
     \/ /\ bindex[p] # NULL /\ SameNFields(p, nf)
        /\ ahi' = RemoveAllFolds(ahi, DropFolds(p, nf), p)
        /\ refCount' = [refCount EXCEPT ![bindex[p]] = @ - 1]
        /\ bindex' = [bindex EXCEPT ![p] = NULL]
        /\ Return(t)
  /\ UNCHANGED <<recs, pstate, px, ps, curr, enabled, ax, as>>

-----------------------------------------------------------------------------
(* btr_search_check_guess(cursor, false, tuple, mode): is the record at   *)
(* heap h of page p the position a search for tuple t in mode would have  *)
(* found?  Only the cursor record and its neighbour on the page are       *)
(* looked at; at the page end the answer is "yes" only if the page has no *)
(* sibling on that side.                                                   *)
\* Bug variant: PAGE_CUR_LE accepts a next record equal to the tuple.
CheckGuessLeInclusive(p, h, t, mode) ==
  LET s == recs[p]
      i == PosOf(p, h)
      c == Cmp(t, s[i].key)
      onRec == CASE mode = "GE" -> c <= 0
                 [] mode = "LE" -> c >= 0
                 [] mode = "G"  -> c < 0
                 [] mode = "L"  -> c > 0
      prevOk == IF i = 1 THEN ~PageHasPrev(p)
                ELSE IF mode = "GE" THEN Cmp(t, s[i - 1].key) > 0
                                    ELSE Cmp(t, s[i - 1].key) >= 0
      nextOk == IF i = Len(s) THEN ~PageHasNext(p)
                ELSE IF mode = "LE" THEN Cmp(t, s[i + 1].key) <= 0
                                    ELSE Cmp(t, s[i + 1].key) <= 0
  IN /\ onRec
     /\ \/ mode = "GE" /\ MatchLen(t, s[i].key) >= NUnique
        \/ mode \in {"G", "GE"} /\ prevOk
        \/ mode \in {"L", "LE"} /\ nextOk

CheckGuess(p, h, t, mode) ==
  LET s == recs[p]
      i == PosOf(p, h)
      c == Cmp(t, s[i].key)
      onRec == CASE mode = "GE" -> c <= 0
                 [] mode = "LE" -> c >= 0
                 [] mode = "G"  -> c < 0
                 [] mode = "L"  -> c > 0
      prevOk == IF i = 1 THEN ~PageHasPrev(p)
                ELSE IF mode = "GE" THEN Cmp(t, s[i - 1].key) > 0
                                    ELSE Cmp(t, s[i - 1].key) >= 0
      nextOk == IF i = Len(s) THEN ~PageHasNext(p)
                ELSE IF mode = "LE" THEN Cmp(t, s[i + 1].key) < 0
                                    ELSE Cmp(t, s[i + 1].key) <= 0
  IN /\ onRec
     /\ \/ mode = "GE" /\ MatchLen(t, s[i].key) >= NUnique
        \/ mode \in {"G", "GE"} /\ prevOk
        \/ mode \in {"L", "LE"} /\ nextOk

(* dtuple_fold: the fold of the first nf fields of a search tuple; it must *)
(* equal rec_fold of a record with the same prefix.                       *)
DtupleFold(tup, nf) == Fold(tup, nf)

(* btr_search_guess_on_hash up to the page latch.  n_fields is read from  *)
(* the unlatched search_info, so any value is possible; a tuple shorter   *)
(* than it is not looked up.  Under the S latch: fail if disabled or no   *)
(* entry carries the fold, otherwise keep the latch and go for the page.  *)
GuessProbe(t, tup, mode, lm) ==
  /\ pc[t] = "idle" /\ AhiSFree
  /\ \E nf \in 1 .. Len(tup) :
       LET fold == DtupleFold(tup, nf)
           hit == {e \in ahi : e.fold = fold}
       IN \/ /\ enabled /\ hit # {}
             /\ as' = as \cup {t}
             /\ pc' = [pc EXCEPT ![t] = "guess_latch"]
             /\ loc' = [loc EXCEPT ![t] =
                          [Idle EXCEPT !.tuple = tup, !.mode = mode, !.lm = lm,
                             !.nf = nf, !.fold = fold,
                             !.page = (CHOOSE e \in hit : TRUE).rec[1],
                             !.heap = (CHOOSE e \in hit : TRUE).rec[2]]]
          \/ /\ ~(enabled /\ hit # {})
             /\ UNCHANGED <<as, pc, loc>>
  /\ UNCHANGED <<recs, pstate, px, ps, bindex, curr, ahi, enabled, refCount, ax>>

(* Try-latch the page under the page_hash latch, give up if the frame is  *)
(* being evicted, fix it, release the AHI latch, then check the guess     *)
(* under the page latch.  On success the page stays latched.              *)
(* s_lock_try or x_lock_try on the page latch: whether it is free. *)
PageLatchFree(t, p) ==
  IF loc[t].lm = "S" THEN px[p] = NULL ELSE px[p] = NULL /\ ps[p] = {}

(* The page latch, as if guess_on_hash waited for it (s_lock / x_lock)  *)
(* while it holds the AHI latch.                                         *)
WaitPageLatch(t, p) == PageLatchFree(t, p)

(* guess_on_hash only tries the page latch: a busy latch is a failed     *)
(* guess, so the thread never waits while it holds the AHI latch.        *)
TryPageLatch(t, p) == TRUE

GuessLatch(t) ==
  LET p == loc[t].page
      h == loc[t].heap
      got == PageLatchFree(t, p)
      ok == got /\ pstate[p] = "file" /\ CheckGuess(p, h, loc[t].tuple, loc[t].mode)
  IN
  /\ pc[t] = "guess_latch"
  /\ TryPageLatch(t, p)
  /\ as' = as \ {t}
  /\ \/ /\ ok
        /\ IF loc[t].lm = "S" THEN /\ ps' = [ps EXCEPT ![p] = @ \cup {t}]
                                   /\ UNCHANGED px
                              ELSE /\ px' = [px EXCEPT ![p] = t]
                                   /\ UNCHANGED ps
        /\ pc' = [pc EXCEPT ![t] = "guess_ok"]
        /\ UNCHANGED loc
     \/ /\ ~ok
        /\ UNCHANGED <<px, ps>>
        /\ Done(t)
  /\ UNCHANGED <<recs, pstate, bindex, curr, ahi, enabled, refCount, ax>>

(* The caller of a successful guess uses the cursor and commits.          *)
GuessRelease(t) ==
  /\ pc[t] = "guess_ok"
  /\ UnlatchPage(t, loc[t].page)
  /\ Done(t)
  /\ UNCHANGED <<recs, pstate, bindex, curr, ahi, enabled, refCount, ax, as>>

-----------------------------------------------------------------------------
(* A record inserted by the B-tree (btr_cur_optimistic_insert), at the    *)
(* position of its key or right after the cursor record.                  *)
NewRec(h, k) == [heap |-> h, key |-> k]
SortedPos(p, k) == 1 + Cardinality({i \in 1 .. Len(recs[p]) : Cmp(recs[p][i].key, k) < 0})

(* btr_search_update_hash_on_insert: the inserts it makes for the record  *)
(* at position i of page contents s, given curr_n_fields and              *)
(* curr_left_side; the X latch is taken before the first of them.        *)
InsertList(s, p, i, nf, left) ==
  LET F(j) == Fold(s[j].key, nf)
      E(j) == Entry(F(j), p, s[j].heap)
      atRec == IF i = 1 THEN IF left THEN <<E(i)>> ELSE <<>>
               ELSE IF F(i - 1) # F(i) THEN <<IF left THEN E(i) ELSE E(i - 1)>>
               ELSE <<>>
      atNext == IF i = Len(s) THEN IF left THEN <<>> ELSE <<E(i)>>
                ELSE IF F(i) # F(i + 1) THEN <<IF left THEN E(i + 1) ELSE E(i)>>
                ELSE <<>>
  IN atRec \o atNext

(* update_hash_on_insert up to the latch, for the record at heap h of the *)
(* new contents s of X-latched page p: return if disabled, not hashed, or *)
(* nothing to insert, else go for the X latch.                            *)
OnInsertRead(t, p, s, h) ==
  LET list == InsertList(s, p, CHOOSE i \in 1 .. Len(s) : s[i].heap = h,
                         curr[p].n_fields, curr[p].left_side)
      go == enabled /\ bindex[p] # NULL /\ list # <<>>
  IN /\ px' = [px EXCEPT ![p] = IF go THEN t ELSE NULL]
     /\ pc' = [pc EXCEPT ![t] = IF go THEN "ins_x" ELSE "idle"]
     /\ loc' = [loc EXCEPT ![t] = IF go THEN [Idle EXCEPT !.page = p, !.list = list]
                                        ELSE Idle]

(* A tree-descent insert of key k into page p, then the callback.         *)
InsertRec(t, p, k) ==
  /\ pc[t] = "idle" /\ pstate[p] = "file" /\ px[p] = NULL /\ ps[p] = {}
  /\ k \in KeyRange[p] \ KeysOf(p)
  /\ \E h \in FreeHeaps(p) :
       LET s2 == InsertAt(recs[p], SortedPos(p, k), NewRec(h, k))
       IN /\ recs' = [recs EXCEPT ![p] = s2]
          /\ OnInsertRead(t, p, s2, h)
  /\ UNCHANGED <<pstate, ps, bindex, curr, ahi, enabled, refCount, ax, as>>

(* After a successful X-latched PAGE_CUR_LE guess for a full key not on   *)
(* the page, insert it right after the cursor record; then                *)
(* btr_search_update_hash_node_on_insert up to its latch.                 *)
GuessInsert(t) ==
  LET p == loc[t].page
      k == loc[t].tuple
  IN
  /\ pc[t] = "guess_ok" /\ loc[t].lm = "X" /\ loc[t].mode = "LE"
  /\ Len(k) = NUnique /\ k \in KeyRange[p] \ KeysOf(p)
  /\ \E h \in FreeHeaps(p) :
       /\ recs' = [recs EXCEPT ![p] = InsertAt(@, PosOf(p, loc[t].heap) + 1,
                                               NewRec(h, k))]
       /\ IF enabled /\ bindex[p] # NULL
            THEN /\ pc' = [pc EXCEPT ![t] = "node_ins_x"]
                 /\ loc' = [loc EXCEPT ![t].nheap = h]
                 /\ UNCHANGED px
            ELSE /\ px' = [px EXCEPT ![p] = NULL]
                 /\ Done(t)
  /\ UNCHANGED <<pstate, ps, bindex, curr, ahi, enabled, refCount, ax, as>>

(* Under the X latch: if the cursor came from the hash with the block's  *)
(* n_fields and the block hashes right sides, retarget the entry of the   *)
(* cursor record to the new record; otherwise release the latch and do    *)
(* btr_search_update_hash_on_insert.                                      *)
NodeInsX(t) ==
  LET p == loc[t].page IN
  /\ pc[t] = "node_ins_x" /\ AhiXFree
  /\ \/ /\ ~(enabled /\ bindex[p] # NULL)
        /\ px' = [px EXCEPT ![p] = NULL]
        /\ Done(t)
        /\ UNCHANGED ahi
     \/ /\ enabled /\ bindex[p] # NULL
        /\ loc[t].nf = curr[p].n_fields /\ ~curr[p].left_side
        /\ ahi' \in Map!UpdateResults(ahi, loc[t].fold, <<p, loc[t].heap>>,
                                      <<p, loc[t].nheap>>)
        /\ px' = [px EXCEPT ![p] = NULL]
        /\ Done(t)
     \/ /\ enabled /\ bindex[p] # NULL
        /\ ~(loc[t].nf = curr[p].n_fields /\ ~curr[p].left_side)
        /\ OnInsertRead(t, p, recs[p], loc[t].nheap)
        /\ UNCHANGED ahi
  /\ UNCHANGED <<recs, pstate, ps, bindex, curr, enabled, refCount, ax, as>>

(* update_hash_on_insert under the X latch: re-check, insert the list.   *)
InsX(t) ==
  LET p == loc[t].page IN
  /\ pc[t] = "ins_x" /\ AhiXFree
  /\ ahi' \in IF enabled /\ bindex[p] # NULL
                THEN Map!InsertAllResults(ahi, loc[t].list) ELSE {ahi}
  /\ px' = [px EXCEPT ![p] = NULL]
  /\ Done(t)
  /\ UNCHANGED <<recs, pstate, ps, bindex, curr, enabled, refCount, ax, as>>

(* A delete of the record at heap h of page p (btr_cur_optimistic_delete): *)
(* btr_search_update_hash_on_delete computes the fold of the record while *)
(* it is still on the page; if disabled or not hashed the record goes at  *)
(* once.  The B-tree never empties a leaf this way.                       *)
DeleteRec(t, p, h) ==
  /\ pc[t] = "idle" /\ pstate[p] = "file" /\ px[p] = NULL /\ ps[p] = {}
  /\ IsLive(p, h) /\ Len(recs[p]) > 1
  /\ IF enabled /\ bindex[p] # NULL
       THEN /\ px' = [px EXCEPT ![p] = t]
            /\ pc' = [pc EXCEPT ![t] = "del_x"]
            /\ loc' = [loc EXCEPT ![t] = [Idle EXCEPT !.page = p, !.heap = h,
                          !.fold = Fold(KeyOf(p, h), curr[p].n_fields)]]
            /\ UNCHANGED recs
       ELSE /\ recs' = [recs EXCEPT ![p] = SelectSeq(@, LAMBDA r : r.heap # h)]
            /\ UNCHANGED <<px, pc, loc>>
  /\ UNCHANGED <<pstate, ps, bindex, curr, ahi, enabled, refCount, ax, as>>

(* Under the X latch: erase the entry of the record from the fold's cell  *)
(* if still hashed; then the record is removed from the page.             *)
DelX(t) ==
  LET p == loc[t].page
      h == loc[t].heap
  IN
  /\ pc[t] = "del_x" /\ AhiXFree
  /\ ahi' \in IF enabled /\ bindex[p] # NULL
                THEN Map!EraseResults(ahi, loc[t].fold, <<p, h>>) ELSE {ahi}
  /\ recs' = [recs EXCEPT ![p] = SelectSeq(@, LAMBDA r : r.heap # h)]
  /\ px' = [px EXCEPT ![p] = NULL]
  /\ Done(t)
  /\ UNCHANGED <<pstate, ps, bindex, curr, enabled, refCount, ax, as>>

-----------------------------------------------------------------------------
(* btr_search_update_hash_ref, after a failed guess and a tree descent to *)
(* heap h of S-latched page p (0: the cursor is not on a user record),    *)
(* with the search_info signature sig read without a latch (the same      *)
(* values search_info_update passes to a build).                          *)
UpdateHashRef(t, p, h, sig) ==
  /\ pc[t] = "idle" /\ pstate[p] = "file" /\ px[p] = NULL
  /\ h = 0 \/ IsLive(p, h)
  /\ bindex[p] # NULL
  /\ ps' = [ps EXCEPT ![p] = @ \cup {t}]
  /\ pc' = [pc EXCEPT ![t] = "ref_x"]
  /\ loc' = [loc EXCEPT ![t] = [Idle EXCEPT !.page = p, !.heap = h, !.sig = sig]]
  /\ UNCHANGED <<recs, pstate, px, bindex, curr, ahi, enabled, refCount, ax, as>>

RefX(t) ==
  LET p == loc[t].page
      h == loc[t].heap
  IN
  /\ pc[t] = "ref_x" /\ AhiXFree
  /\ ahi' \in IF bindex[p] # NULL /\ curr[p] = loc[t].sig /\ h # 0 /\ enabled
                THEN Map!InsertResults(ahi, Fold(KeyOf(p, h), curr[p].n_fields),
                                       <<p, h>>)
                ELSE {ahi}
  /\ UnlatchPage(t, p)
  /\ Done(t)
  /\ UNCHANGED <<recs, pstate, bindex, curr, enabled, refCount, ax, as>>

-----------------------------------------------------------------------------
(* Eviction of an unlatched page (buf_LRU_free_page): the frame leaves    *)
(* page_hash in state REMOVE_HASH, its hash index is dropped, and the     *)
(* frame is freed.  A later read brings the page back.                    *)
Evict(t, p) ==
  /\ pc[t] = "idle" /\ pstate[p] = "file" /\ px[p] = NULL /\ ps[p] = {}
  /\ pstate' = [pstate EXCEPT ![p] = "remove_hash"]
  /\ pc' = [pc EXCEPT ![t] = "drop_snap"]
  /\ loc' = [loc EXCEPT ![t] = [Idle EXCEPT !.page = p, !.ret = "evict_free"]]
  /\ UNCHANGED <<recs, px, ps, bindex, curr, ahi, enabled, refCount, ax, as>>

EvictFree(t) ==
  /\ pc[t] = "evict_free"
  /\ pstate' = [pstate EXCEPT ![loc[t].page] = "free"]
  /\ Done(t)
  /\ UNCHANGED <<recs, px, ps, bindex, curr, ahi, enabled, refCount, ax, as>>

Reload(p) ==
  /\ pstate[p] = "free"
  /\ pstate' = [pstate EXCEPT ![p] = "file"]
  /\ UNCHANGED <<recs, px, ps, bindex, curr, ahi, enabled, refCount, ax, as,
                 pc, loc>>

-----------------------------------------------------------------------------
(* buf_pool_t::clear_hash_index: block->index = nullptr on every block.  *)
ClearHashIndexSkipped == UNCHANGED bindex

ClearHashIndex == bindex' = [p \in Pages |-> NULL]

(* btr_sea::disable under all latches: reset every ref_count, clear the   *)
(* blocks, empty the table.                                                *)
Disable ==
  /\ AhiXFree /\ enabled
  /\ enabled' = FALSE
  /\ refCount' = [i \in Indexes |-> 0]
  /\ ClearHashIndex
  /\ ahi' = {}
  /\ UNCHANGED <<recs, pstate, px, ps, curr, ax, as, pc, loc>>

(* btr_sea::enable: allocate the table and set enabled.                    *)
Enable ==
  /\ AhiXFree /\ ~enabled
  /\ enabled' = TRUE
  /\ UNCHANGED <<recs, pstate, px, ps, bindex, curr, ahi, refCount, ax, as,
                 pc, loc>>

-----------------------------------------------------------------------------
(* The steps of a thread that is inside an operation, latches held.      *)
Continue(t) ==
  \/ BuildInsert(t)
  \/ DropSnap(t)
  \/ DropRemove(t)
  \/ GuessLatch(t)
  \/ GuessRelease(t)
  \/ GuessInsert(t)
  \/ NodeInsX(t)
  \/ InsX(t)
  \/ DelX(t)
  \/ RefX(t)
  \/ EvictFree(t)

Next ==
  \/ \E t \in Threads :
       \/ \E p \in Pages, sig \in BuildSigs : BuildCheck(t, p, sig)
       \/ \E tup \in SearchTuples, mode \in SearchModes, lm \in {"S", "X"} :
            GuessProbe(t, tup, mode, lm)
       \/ \E p \in Pages, k \in Keys : InsertRec(t, p, k)
       \/ \E p \in Pages, h \in Heaps : DeleteRec(t, p, h)
       \/ \E p \in Pages, h \in {0} \cup Heaps, sig \in BuildSigs \cap Sig :
            UpdateHashRef(t, p, h, sig)
       \/ \E p \in Pages : Evict(t, p)
       \/ Continue(t)
  \/ \E p \in Pages : Reload(p)
  \/ Disable
  \/ Enable

Spec == Init /\ [][Next]_vars

-----------------------------------------------------------------------------
(* The records of the whole index in key order, and the record a B-tree   *)
(* search for tuple t in mode positions on (PAGE_CUR_G / GE: the first    *)
(* record above / not below t; PAGE_CUR_L / LE: the last record below /   *)
(* not above t), as sets of <<page, heap>>.                               *)
IndexRecs ==
  FlattenSeq([i \in 1 .. Len(PageOrder) |->
                LET p == PageOrder[i]
                IN [j \in 1 .. Len(recs[p]) |-> [ptr |-> <<p, recs[p][j].heap>>,
                                                  key |-> recs[p][j].key]]])

SearchResult(t, mode) ==
  LET R == IndexRecs
      Sat(j) == CASE mode = "GE" -> Cmp(t, R[j].key) <= 0
                  [] mode = "G"  -> Cmp(t, R[j].key) < 0
                  [] mode = "LE" -> Cmp(t, R[j].key) >= 0
                  [] mode = "L"  -> Cmp(t, R[j].key) > 0
      Best(j) == \A i \in 1 .. Len(R) :
                   Sat(i) => IF mode \in {"G", "GE"} THEN j <= i ELSE i <= j
  IN {R[j].ptr : j \in {j \in 1 .. Len(R) : Sat(j) /\ Best(j)}}

RefCountExact ==
  \A i \in Indexes : refCount[i] = Cardinality({p \in Pages : bindex[p] = i})

(* A guess that btr_search_guess_on_hash reports as successful leaves the *)
(* cursor exactly where a B-tree search of the tuple in that mode would:  *)
(* btr_search_check_guess, looking only at the cursor record and one     *)
(* neighbour on the latched page, never accepts a wrong position.        *)
GuessCorrect ==
  \A t \in Threads :
    pc[t] = "guess_ok" =>
      <<loc[t].page, loc[t].heap>> \in SearchResult(loc[t].tuple, loc[t].mode)
-----------------------------------------------------------------------------
(* Claims of the design document that the code does not keep.             *)

(* spec.md, buf_block_t: "index == null <=> no AHI node's record lies     *)
(* within this page".  The code keeps only "=>": a build or an insert     *)
(* callback may drop an entry for want of a slab node, and the delete     *)
(* callback may erase the last entry of a page, both leaving              *)
(* block->index set.                                                       *)
(* No latch deadlock: while some thread is inside an operation, holding  *)
(* page or AHI latches, one of them can take its next step.  Build, drop *)
(* and the insert/delete callbacks take the AHI latch while they hold the *)
(* page latch; guess_on_hash holds the AHI latch when it goes for the page *)
(* latch (1288-1299), so only its try-latch keeps the two orders apart.   *)
NoLatchDeadlock ==
  (\E t \in Threads : pc[t] # "idle") =>
    \E t \in Threads : pc[t] # "idle" /\ ENABLED Continue(t)

HashedIffEntries ==
  \A p \in Pages : bindex[p] # NULL <=> \E e \in ahi : e.rec[1] = p

(* spec.md, scenario 2: deleting the record an entry points to, while     *)
(* other records of the page keep that fold, leaves the fold's entry      *)
(* pointing at a surviving record.  btr_search_update_hash_on_delete only *)
(* erases the entry.                                                       *)
DeleteRepointsEntry ==
  [][\A t \in Threads :
       (pc[t] = "del_x" /\ pc'[t] = "idle" /\ enabled /\ bindex[loc[t].page] # NULL) =>
         LET p == loc[t].page
             f == loc[t].fold
         IN (/\ [fold |-> f, rec |-> <<p, loc[t].heap>>] \in ahi
             /\ \E i \in 1 .. Len(recs'[p]) : Fold(recs'[p][i].key, curr[p].n_fields) = f)
            => \E e \in ahi' : e.fold = f /\ e.rec[1] = p]_vars
============================================================================
