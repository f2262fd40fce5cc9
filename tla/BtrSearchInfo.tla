---------------------------- MODULE BtrSearchInfo ----------------------------
(***************************************************************************)
(* The adaptive hash index heuristic (storage/innobase/btr/btr0sea.cc):   *)
(* btr_search_info_update_hash, btr_search_update_block_hash_info and     *)
(* btr_cur_t::search_info_update, the gate and the potential update of    *)
(* btr_search_guess_on_hash, and the parameter checks with which          *)
(* btr_search_build_page_hash_index starts.                               *)
(*                                                                         *)
(* index->search_info and the candidate signature of a block are read and *)
(* written with no latch ("Do not assume its fields are consistent").     *)
(* So every store of a recommendation is a step of its own, and another  *)
(* thread may read any mix of old and new fields.  One leaf page is       *)
(* modelled; how build and drop latch it is the subject of BtrSearch.     *)
(***************************************************************************)
EXTENDS Integers, Bitwise

CONSTANTS
  Threads,        \* threads positioning B-tree cursors on the page
  NUnique,        \* dict_index_get_n_unique_in_tree(index)
  MaxBytes,       \* largest low_bytes / up_bytes a descent reports
  BuildLimit,     \* BTR_SEARCH_BUILD_LIMIT
  PageBuildLimit, \* BTR_SEARCH_PAGE_BUILD_LIMIT
  NRecs,          \* page_get_n_recs() of the page
  Descents        \* the cursor match lengths the workload produces

ASSUME NUnique \in Nat \ {0} /\ MaxBytes \in Nat /\ BuildLimit \in Nat \ {0}
ASSUME PageBuildLimit \in Nat \ {0} /\ NRecs \in Nat

(* up_match/low_match count the fields of the tuple that match the record *)
(* above/below the cursor; up_bytes/low_bytes the bytes of the next field.*)
Cursors == {c \in [low_match : 0 .. NUnique, low_bytes : 0 .. MaxBytes,
                   up_match : 0 .. NUnique, up_bytes : 0 .. MaxBytes] :
              /\ c.low_match = NUnique => c.low_bytes = 0
              /\ c.up_match = NUnique => c.up_bytes = 0}

ASSUME Descents \subseteq Cursors

(* n_hash_potential is only compared with 0, BuildLimit and BuildLimit+5, *)
(* n_hash_helps with NRecs \div PageBuildLimit and 2 * NRecs: counting    *)
(* beyond these tops changes no decision, so the counters stop there.    *)
(* guess_on_hash stops n_hash_potential at BuildLimit+5 (1351), but       *)
(* info_update_hash increments it with no bound (426): PotentialTop      *)
(* stands for every value above BuildLimit+5.  The width of the field is *)
(* declared outside this repository, so its wrap is not modelled.        *)
PotentialTop == BuildLimit + 6
HelpsTop == 2 * NRecs + 1
Incr(x, top) == IF x < top THEN x + 1 ELSE top

NBytesVals == 0 .. MaxBytes + 1
Signatures == [n_fields : 0 .. NUnique, n_bytes : NBytesVals, left_side : BOOLEAN]

(* btr_search_get_n_fields(n_fields, n_bytes) *)
NFieldsOf(nf, nb) == nf + (IF nb > 0 THEN 1 ELSE 0)

(* The signatures btr_search_build_page_hash_index accepts. *)
SensibleSigs == {s \in Signatures : /\ ~(s.n_fields = 0 /\ s.n_bytes = 0)
                                    /\ NFieldsOf(s.n_fields, s.n_bytes) <= NUnique}

(* ut_pair_cmp *)
PairCmp(a1, a2, b1, b2) ==
  IF a1 # b1 THEN (IF a1 > b1 THEN 1 ELSE -1)
  ELSE IF a2 # b2 THEN (IF a2 > b2 THEN 1 ELSE -1) ELSE 0

(* The set_new_recomm branch of btr_search_info_update_hash: the new      *)
(* left_side, n_hash_potential, n_fields and n_bytes for cursor c.        *)
Recommend(c) ==
  LET cmp == PairCmp(c.up_match, c.up_bytes, c.low_match, c.low_bytes)
      sig == CASE cmp = 0 -> <<1, 0>>
               [] cmp > 0 /\ c.up_match >= NUnique -> <<NUnique, 0>>
               [] cmp > 0 /\ c.low_match < c.up_match -> <<c.low_match + 1, 0>>
               [] cmp > 0 -> <<c.low_match, c.low_bytes + 1>>
               [] cmp < 0 /\ c.low_match >= NUnique -> <<NUnique, 0>>
               [] cmp < 0 /\ c.low_match > c.up_match -> <<c.up_match + 1, 0>>
               [] OTHER -> <<c.up_match, c.up_bytes + 1>>
  IN [left_side |-> cmp >= 0, potential |-> IF cmp # 0 THEN 1 ELSE 0,
      n_fields |-> sig[1], n_bytes |-> sig[2]]

InfoStillGoodSideSwapped(i, c) ==
  LET OnSide(cmp) == IF i.left_side THEN cmp > 0 ELSE cmp <= 0 IN
  /\ i.n_hash_potential # 0
  /\ \/ i.n_fields >= NUnique /\ c.up_match >= NUnique
     \/ /\ ~OnSide(PairCmp(i.n_fields, i.n_bytes, c.low_match, c.low_bytes))
        /\ OnSide(PairCmp(i.n_fields, i.n_bytes, c.up_match, c.up_bytes))

(* Whether the recommendation i would have served a search that ended at *)
(* cursor c: the tests of btr_search_info_update_hash before it either    *)
(* jumps to increment_potential or falls through to set_new_recomm.       *)
InfoStillGood(i, c) ==
  LET OnSide(cmp) == IF i.left_side THEN cmp <= 0 ELSE cmp > 0 IN
  /\ i.n_hash_potential # 0
  /\ \/ i.n_fields >= NUnique /\ c.up_match >= NUnique
     \/ /\ ~OnSide(PairCmp(i.n_fields, i.n_bytes, c.low_match, c.low_bytes))
        /\ OnSide(PairCmp(i.n_fields, i.n_bytes, c.up_match, c.up_bytes))

VARIABLES
  info,  \* index->search_info: n_fields, n_bytes, left_side,
         \*   n_hash_potential, last_hash_succ
  blk,   \* the block: n_hash_helps, candidate n_fields, n_bytes, left_side,
         \*   and whether it is hashed (index != NULL) with curr_* = curr
  pc,    \* pc[t]: the step thread t takes next
  cur    \* cur[t]: the cursor of thread t's current descent

vars == <<info, blk, pc, cur>>

InfoType == [n_fields : 0 .. NUnique, n_bytes : NBytesVals, left_side : BOOLEAN,
             n_hash_potential : 0 .. PotentialTop, last_hash_succ : BOOLEAN]
BlkType == [n_hash_helps : 0 .. HelpsTop, n_fields : 0 .. NUnique,
            n_bytes : NBytesVals, left_side : BOOLEAN, hashed : BOOLEAN,
            curr : SensibleSigs]
PCs == {"idle", "guess", "info", "reset_nf", "reset_nb", "block",
        "adopt_nf", "adopt_nb", "adopt_ls", "decide", "build"}

(* The search info of a new index: no potential, no success yet. *)
Init ==
  /\ info \in {i \in InfoType : i.n_hash_potential = 0 /\ ~i.last_hash_succ}
  /\ blk \in {b \in BlkType : b.n_hash_helps = 0 /\ ~b.hashed}
  /\ pc = [t \in Threads |-> "idle"]
  /\ cur \in [Threads -> Descents]

(* A cursor search starts: the position it will reach is cursor c. *)
Descend(t) ==
  /\ pc[t] = "idle"
  /\ \E c \in Descents : cur' = [cur EXCEPT ![t] = c]
  /\ pc' = [pc EXCEPT ![t] = "guess"]
  /\ UNCHANGED <<info, blk>>

(* btr_search_guess_on_hash as the heuristic sees it.  No try when        *)
(* last_hash_succ or n_hash_potential is unset, or when the (torn)        *)
(* recommendation folds more fields than the full-key tuple has.  A hit   *)
(* needs the page hashed with the n_fields / n_bytes the lookup folds     *)
(* with; whether check_guess accepts it is left open (BtrSearch decides   *)
(* it).  A hit bumps n_hash_potential, capped at BUILD_LIMIT + 5, and     *)
(* ends the search; a miss clears last_hash_succ and the tree descent     *)
(* follows.                                                               *)
Guess(t) ==
  LET try == /\ info.last_hash_succ
             /\ info.n_hash_potential # 0
             /\ NFieldsOf(info.n_fields, info.n_bytes) <= NUnique
      hit == /\ blk.hashed
             /\ blk.curr.n_fields = info.n_fields
             /\ blk.curr.n_bytes = info.n_bytes
  IN
  /\ pc[t] = "guess"
  /\ \/ /\ ~try
        /\ pc' = [pc EXCEPT ![t] = "info"]
        /\ UNCHANGED info
     \/ /\ try
        /\ info' = [info EXCEPT !.last_hash_succ = FALSE]
        /\ pc' = [pc EXCEPT ![t] = "info"]
     \/ /\ try /\ hit
        /\ info' = [info EXCEPT
                      !.n_hash_potential = IF @ < BuildLimit + 5 THEN @ + 1 ELSE @,
                      !.last_hash_succ = TRUE]
        /\ pc' = [pc EXCEPT ![t] = "idle"]
  /\ UNCHANGED <<blk, cur>>

(* btr_search_info_update_hash: either n_hash_potential++ and return, or  *)
(* set_new_recomm, whose stores of left_side and n_hash_potential come    *)
(* first; n_fields and n_bytes are stored by the next two steps.          *)
InfoUpdateHash(t) ==
  LET c == cur[t]
      r == Recommend(c)
  IN
  /\ pc[t] = "info"
  /\ IF InfoStillGood(info, c)
       THEN /\ info' = [info EXCEPT !.n_hash_potential = Incr(@, PotentialTop)]
            /\ pc' = [pc EXCEPT ![t] = "block"]
       ELSE /\ info' = [info EXCEPT !.left_side = r.left_side,
                                    !.n_hash_potential = r.potential]
            /\ pc' = [pc EXCEPT ![t] = "reset_nf"]
  /\ UNCHANGED <<blk, cur>>

InfoResetNFields(t) ==
  /\ pc[t] = "reset_nf"
  /\ info' = [info EXCEPT !.n_fields = Recommend(cur[t]).n_fields]
  /\ pc' = [pc EXCEPT ![t] = "reset_nb"]
  /\ UNCHANGED <<blk, cur>>

InfoResetNBytes(t) ==
  /\ pc[t] = "reset_nb"
  /\ info' = [info EXCEPT !.n_bytes = Recommend(cur[t]).n_bytes]
  /\ pc' = [pc EXCEPT ![t] = "block"]
  /\ UNCHANGED <<blk, cur>>

(* btr_search_update_block_hash_info, under the page latch in S mode   *)
(* that other searches share.  If the block's candidate signature agrees *)
(* with the search info, n_hash_helps++ (and last_hash_succ if the page  *)
(* is hashed with it); otherwise n_hash_helps = 1 and the signature is  *)
(* copied from the search info by the next three steps.                  *)
SameSig(b, i) ==
  b.n_fields = i.n_fields /\ b.n_bytes = i.n_bytes /\ b.left_side = i.left_side

UpdateBlockHashInfo(t) ==
  LET agree == blk.n_hash_helps > 0 /\ info.n_hash_potential > 0 /\ SameSig(blk, info)
      succ == agree /\ blk.hashed /\ SameSig(blk.curr, info)
  IN
  /\ pc[t] = "block"
  /\ info' = [info EXCEPT !.last_hash_succ = succ]
  /\ blk' = IF agree THEN [blk EXCEPT !.n_hash_helps = Incr(@, HelpsTop)]
                     ELSE [blk EXCEPT !.n_hash_helps = 1]
  /\ pc' = [pc EXCEPT ![t] = IF agree THEN "decide" ELSE "adopt_nf"]
  /\ UNCHANGED cur

AdoptNFields(t) ==
  /\ pc[t] = "adopt_nf"
  /\ blk' = [blk EXCEPT !.n_fields = info.n_fields]
  /\ pc' = [pc EXCEPT ![t] = "adopt_nb"]
  /\ UNCHANGED <<info, cur>>

AdoptNBytes(t) ==
  /\ pc[t] = "adopt_nb"
  /\ blk' = [blk EXCEPT !.n_bytes = info.n_bytes]
  /\ pc' = [pc EXCEPT ![t] = "adopt_ls"]
  /\ UNCHANGED <<info, cur>>

AdoptLeftSide(t) ==
  /\ pc[t] = "adopt_ls"
  /\ blk' = [blk EXCEPT !.left_side = info.left_side]
  /\ pc' = [pc EXCEPT ![t] = "decide"]
  /\ UNCHANGED <<info, cur>>

(* The decision that ends btr_search_update_block_hash_info, on the      *)
(* block fields and n_hash_potential as they are now: build when the     *)
(* page has helped often enough and the index has potential, and the    *)
(* page is not hashed yet, or long ago, or with another signature.      *)
BuildDecision(t) ==
  LET build == /\ blk.n_hash_helps > NRecs \div PageBuildLimit
               /\ info.n_hash_potential >= BuildLimit
               /\ \/ ~blk.hashed
                  \/ blk.n_hash_helps > 2 * NRecs
                  \/ ~SameSig(blk, blk.curr)
  IN
  /\ pc[t] = "decide"
  /\ pc' = [pc EXCEPT ![t] = IF build THEN "build" ELSE "idle"]
  /\ UNCHANGED <<info, blk, cur>>

(* search_info_update passes block->n_fields, n_bytes, left_side, read    *)
(* again now, to btr_search_build_page_hash_index.  Build drops a hash of *)
(* another signature (rebuild), then gives up on a signature that folds  *)
(* nothing or more than n_unique fields, or on an empty page; otherwise   *)
(* it hashes the page: n_hash_helps = 0 and curr_* = the signature.       *)
BuildChecksNoUniqueLimit(s) ==
  /\ ~(s.n_fields = 0 /\ s.n_bytes = 0)
  /\ NRecs # 0

BuildChecks(s) ==
  /\ ~(s.n_fields = 0 /\ s.n_bytes = 0)
  /\ NFieldsOf(s.n_fields, s.n_bytes) <= NUnique
  /\ NRecs # 0

(* The curr_* stored for signature s, as if the n_bytes mask were       *)
(* 1 << 15 instead of (1 << 15) - 1.                                     *)
CurrOfMaskOffByOne(s) ==
  [s EXCEPT !.n_fields = @ & 1023, !.n_bytes = @ & 32768]

(* The curr_* stored for signature s: n_fields masked to MAX_N_FIELDS   *)
(* (1023) and n_bytes to 15 bits, as the bit-fields of buf_block_t hold. *)
CurrOf(s) ==
  [s EXCEPT !.n_fields = @ & 1023, !.n_bytes = @ & 32767]

BuildPageHashIndex(t) ==
  LET s == [n_fields |-> blk.n_fields, n_bytes |-> blk.n_bytes,
            left_side |-> blk.left_side]
      rebuild == blk.hashed /\ blk.curr # CurrOf(s)
  IN
  /\ pc[t] = "build"
  /\ blk' = IF BuildChecks(s)
              THEN [blk EXCEPT !.n_hash_helps = 0, !.hashed = TRUE, !.curr = CurrOf(s)]
              ELSE [blk EXCEPT !.hashed = @ /\ ~rebuild]
  /\ pc' = [pc EXCEPT ![t] = "idle"]
  /\ UNCHANGED <<info, cur>>

Step(t) ==
  \/ Guess(t)
  \/ InfoUpdateHash(t)
  \/ InfoResetNFields(t)
  \/ InfoResetNBytes(t)
  \/ UpdateBlockHashInfo(t)
  \/ AdoptNFields(t)
  \/ AdoptNBytes(t)
  \/ AdoptLeftSide(t)
  \/ BuildDecision(t)
  \/ BuildPageHashIndex(t)

Next == \E t \in Threads : Descend(t) \/ Step(t)

Spec == Init /\ [][Next]_vars

(* A thread that is inside a search keeps running: none of these steps  *)
(* waits for anything.  The workload keeps issuing searches.              *)
FairSpec == Spec /\ \A t \in Threads : WF_vars(Step(t)) /\ WF_vars(Descend(t))

-----------------------------------------------------------------------------
(* The counters stay in range, and a hashed page carries a signature that *)
(* folds at least one byte and at most n_unique fields, although the      *)
(* signature build is given is read field by field from racing stores.    *)
TypeOK ==
  /\ info \in InfoType
  /\ blk \in BlkType
  /\ pc \in [Threads -> PCs]
  /\ cur \in [Threads -> Descents]

(* Whatever the starting values, when every search of the workload ends  *)
(* at a cursor of the same shape, the heuristic of search_info_update     *)
(* eventually hashes the page with the signature recommended for that     *)
(* shape, and the page stays hashed with it.                               *)
Converged ==
  \E c \in Descents :
    /\ blk.hashed
    /\ blk.curr = [n_fields |-> Recommend(c).n_fields,
                   n_bytes |-> Recommend(c).n_bytes,
                   left_side |-> Recommend(c).left_side]

HeuristicConverges == <>[]Converged
=============================================================================
