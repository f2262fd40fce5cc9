---------------------------- MODULE AHIPartition ----------------------------
(***************************************************************************)
(* One partition of the adaptive hash index: btr_sea::partition in        *)
(* storage/innobase/btr/btr0sea.cc.  An open-chained hash table whose     *)
(* nodes live in a slab carved from borrowed buffer-pool blocks, plus a   *)
(* spare block reserved by prepare_insert() so that an insert under the   *)
(* partition latch need not allocate.                                      *)
(*                                                                         *)
(* A node is identified by its slot <<block, k>>: the k-th node of a slab  *)
(* block (free_offset counts nodes here, not bytes).  A hash chain is the *)
(* sequence of slots linked from a cell.  insert, erase,                   *)
(* ha_remove_all_nodes_to_page, ha_search_and_update_if_found and clear   *)
(* run under the exclusive partition latch and are single actions;        *)
(* prepare_insert runs without it and takes two steps per thread, around  *)
(* buf_block_alloc().                                                      *)
(***************************************************************************)
EXTENDS Naturals, Sequences, SequencesExt, FiniteSets, Functions

CONSTANTS
  Folds,          \* fold values, natural numbers
  NCells,         \* table.n_cells
  Pages,          \* data page frames that records live in
  Heaps,          \* record positions within a frame
  SlabBlocks,     \* buffer-pool blocks the slab can borrow
  NodesPerBlock,  \* nodes per block: free_offset < srv_page_size - sizeof node
  Threads,        \* threads that call prepare_insert()
  NULL

ASSUME NCells \in Nat \ {0} /\ NodesPerBlock \in Nat \ {0}

Recs   == Pages \X Heaps
Cells  == 0 .. NCells - 1
Slots  == SlabBlocks \X (1 .. NodesPerBlock)
Node   == [fold : Folds, rec : Recs]
NoNode == [fold |-> NULL, rec |-> NULL]   \* an unaddressable slot

\* hash_table_t::calc_hash(): cell = fold mod n_cells
CellOf(f) == f % NCells
\* page_align() of a record pointer
PageOf(r) == r[1]

VARIABLES
  chain,       \* table.array: cell -> sequence of slots, head first
  node,        \* slot -> the ahi_node stored there
  blocks,      \* the UT_LIST of slab blocks, in order
  freeOffset,  \* block -> nodes allocated in it (its free_offset)
  spare,       \* the spare block, or NULL
  pool,        \* blocks free in the buffer pool
  enabled,     \* btr_search.enabled (table.array is allocated iff it holds)
  alloc,       \* thread -> block it got from buf_block_alloc(), or NULL
  removing     \* the [fold, page] of a running ha_remove_all_nodes_to_page

vars == <<chain, node, blocks, freeOffset, spare, pool, enabled, alloc,
          removing>>

LinkedSlots == UNION {Range(chain[c]) : c \in Cells}

TypeOK ==
  /\ chain \in [Cells -> Seq(Slots)]
  /\ node \in [Slots -> Node \cup {NoNode}]
  /\ blocks \in Seq(SlabBlocks)
  /\ freeOffset \in [SlabBlocks -> 0 .. NodesPerBlock]
  /\ spare \in SlabBlocks \cup {NULL}
  /\ pool \subseteq SlabBlocks
  /\ enabled \in BOOLEAN
  /\ alloc \in [Threads -> SlabBlocks \cup {NULL}]
  /\ removing \in [fold : Folds, page : Pages] \cup {NULL}

Init ==
  /\ chain = [c \in Cells |-> <<>>]
  /\ node = [s \in Slots |-> NoNode]
  /\ blocks = <<>>
  /\ freeOffset = [b \in SlabBlocks |-> 0]
  /\ spare = NULL
  /\ pool = SlabBlocks
  /\ enabled \in BOOLEAN
  /\ alloc = [t \in Threads |-> NULL]
  /\ removing = NULL

\* The partition latch is free for a new exclusive holder.
LatchFree == removing = NULL

-----------------------------------------------------------------------------
(* prepare_insert(): if there is no spare, allocate a block outside any    *)
(* latch, then install it as spare under blocks_mutex unless another       *)
(* thread did so first or the index was disabled meanwhile.                *)

PrepareInsertAlloc(t) ==
  /\ alloc[t] = NULL
  /\ spare = NULL /\ enabled
  /\ \E b \in pool :
       /\ alloc' = [alloc EXCEPT ![t] = b]
       /\ pool' = pool \ {b}
  /\ UNCHANGED <<chain, node, blocks, freeOffset, spare, enabled, removing>>

\* Bug variant: a racing thread's block is dropped instead of freed.
PrepareInsertInstallLeak(t) ==
  /\ alloc[t] # NULL
  /\ IF spare = NULL /\ enabled THEN spare' = alloc[t] ELSE UNCHANGED spare
  /\ alloc' = [alloc EXCEPT ![t] = NULL]
  /\ UNCHANGED <<chain, node, blocks, freeOffset, pool, enabled, removing>>

PrepareInsertInstall(t) ==
  /\ alloc[t] # NULL
  /\ IF spare = NULL /\ enabled
       THEN /\ spare' = alloc[t]
            /\ UNCHANGED pool
       ELSE /\ pool' = pool \cup {alloc[t]}
            /\ UNCHANGED spare
  /\ alloc' = [alloc EXCEPT ![t] = NULL]
  /\ UNCHANGED <<chain, node, blocks, freeOffset, enabled, removing>>

-----------------------------------------------------------------------------
(* partition::insert(fold, rec): retarget the first node of the chain      *)
(* with this fold; else take the next node of the last slab block, else    *)
(* the spare block, else silently give up.  The new node is appended.     *)

Link(s, f, r) ==
  /\ node' = [node EXCEPT ![s] = [fold |-> f, rec |-> r]]
  /\ chain' = [chain EXCEPT ![CellOf(f)] = Append(@, s)]

\* The last slab block can take one more node.
HasRoomOffByOne == blocks # <<>> /\ freeOffset[Last(blocks)] <= NodesPerBlock

HasRoom == blocks # <<>> /\ freeOffset[Last(blocks)] < NodesPerBlock

\* Bug variant: no search for an existing node with the same fold.
InsertNoCoalesce(f, r) ==
  LET lst == Last(blocks) IN
  /\ LatchFree /\ enabled
  /\ \/ /\ HasRoom
        /\ Link(<<lst, freeOffset[lst] + 1>>, f, r)
        /\ freeOffset' = [freeOffset EXCEPT ![lst] = @ + 1]
        /\ UNCHANGED <<blocks, spare>>
     \/ /\ ~HasRoom /\ spare # NULL
        /\ Link(<<spare, 1>>, f, r)
        /\ blocks' = Append(blocks, spare)
        /\ freeOffset' = [freeOffset EXCEPT ![spare] = 1]
        /\ spare' = NULL
     \/ /\ ~HasRoom /\ spare = NULL
        /\ UNCHANGED <<chain, node, blocks, freeOffset, spare>>
  /\ UNCHANGED <<pool, enabled, alloc, removing>>

\* Bug variant: the spare block is consumed even when the last block has room.
InsertSpareFirst(f, r) ==
  LET c   == CellOf(f)
      i   == SelectInSeq(chain[c], LAMBDA s : node[s].fold = f)
      lst == Last(blocks)
  IN
  /\ LatchFree /\ enabled
  /\ \/ /\ i # 0
        /\ node' = [node EXCEPT ![chain[c][i]].rec = r]
        /\ UNCHANGED <<chain, blocks, freeOffset, spare>>
     \/ /\ i = 0 /\ HasRoom /\ spare = NULL
        /\ Link(<<lst, freeOffset[lst] + 1>>, f, r)
        /\ freeOffset' = [freeOffset EXCEPT ![lst] = @ + 1]
        /\ UNCHANGED <<blocks, spare>>
     \/ /\ i = 0 /\ spare # NULL
        /\ Link(<<spare, 1>>, f, r)
        /\ blocks' = Append(blocks, spare)
        /\ freeOffset' = [freeOffset EXCEPT ![spare] = 1]
        /\ spare' = NULL
     \/ /\ i = 0 /\ ~HasRoom /\ spare = NULL
        /\ UNCHANGED <<chain, node, blocks, freeOffset, spare>>
  /\ UNCHANGED <<pool, enabled, alloc, removing>>

Insert(f, r) ==
  LET c   == CellOf(f)
      i   == SelectInSeq(chain[c], LAMBDA s : node[s].fold = f)
      lst == Last(blocks)
  IN
  /\ LatchFree /\ enabled
  /\ \/ /\ i # 0
        /\ node' = [node EXCEPT ![chain[c][i]].rec = r]
        /\ UNCHANGED <<chain, blocks, freeOffset, spare>>
     \/ /\ i = 0
        /\ HasRoom
        /\ Link(<<lst, freeOffset[lst] + 1>>, f, r)
        /\ freeOffset' = [freeOffset EXCEPT ![lst] = @ + 1]
        /\ UNCHANGED <<blocks, spare>>
     \/ /\ i = 0
        /\ ~HasRoom
        /\ spare # NULL
        /\ Link(<<spare, 1>>, f, r)
        /\ blocks' = Append(blocks, spare)
        /\ freeOffset' = [freeOffset EXCEPT ![spare] = 1]
        /\ spare' = NULL
     \/ /\ i = 0
        /\ ~HasRoom
        /\ spare = NULL
        /\ UNCHANGED <<chain, node, blocks, freeOffset, spare>>
  /\ UNCHANGED <<pool, enabled, alloc, removing>>

-----------------------------------------------------------------------------
(* partition::cleanup_after_erase(): the erased slot e, already unlinked   *)
(* from chain ch, is refilled with the top node of the last block, and     *)
(* the chain link that pointed to the top node is redirected to e.  A last *)
(* block left empty becomes the spare, or goes back to the buffer pool if *)
(* there already is one.                                                   *)

\* Bug variant: the link to the moved top node is searched for in the cell
\* of the erased node instead of the cell of the top node.
CleanupAfterEraseWrongCell(ch, e) ==
  LET lst == Last(blocks)
      top == <<lst, freeOffset[lst]>>
      ec  == CellOf(node[e].fold)
  IN
  /\ IF e = top
       THEN /\ node' = [node EXCEPT ![e] = NoNode]
            /\ chain' = ch
       ELSE /\ node' = [node EXCEPT ![e] = node[top], ![top] = NoNode]
            /\ chain' = [ch EXCEPT ![ec] = ReplaceAll(@, top, e)]
  /\ freeOffset' = [freeOffset EXCEPT ![lst] = @ - 1]
  /\ IF freeOffset[lst] = 1
       THEN /\ blocks' = Front(blocks)
            /\ IF spare # NULL
                 THEN pool' = pool \cup {lst} /\ UNCHANGED spare
                 ELSE spare' = lst /\ UNCHANGED pool
       ELSE UNCHANGED <<blocks, spare, pool>>

CleanupAfterErase(ch, e) ==
  LET lst == Last(blocks)
      top == <<lst, freeOffset[lst]>>
      tc  == CellOf(node[top].fold)
  IN
  /\ IF e = top
       THEN /\ node' = [node EXCEPT ![e] = NoNode]
            /\ chain' = ch
       ELSE /\ node' = [node EXCEPT ![e] = node[top], ![top] = NoNode]
            /\ chain' = [ch EXCEPT ![tc] = ReplaceAll(@, top, e)]
  /\ freeOffset' = [freeOffset EXCEPT ![lst] = @ - 1]
  /\ IF freeOffset[lst] = 1
       THEN /\ blocks' = Front(blocks)
            /\ IF spare # NULL
                 THEN pool' = pool \cup {lst} /\ UNCHANGED spare
                 ELSE spare' = lst /\ UNCHANGED pool
       ELSE UNCHANGED <<blocks, spare, pool>>

\* Unlink position i of chain c and compact the slab.
EraseAt(c, i) ==
  CleanupAfterErase([chain EXCEPT ![c] = RemoveAt(@, i)], chain[c][i])

(* partition::erase(fold, rec): erase the first node of the fold's cell    *)
(* whose record pointer is rec.                                            *)
Erase(f, r) ==
  LET c == CellOf(f)
      i == SelectInSeq(chain[c], LAMBDA s : node[s].rec = r)
  IN
  /\ LatchFree /\ enabled
  /\ \/ i # 0 /\ EraseAt(c, i)
     \/ i = 0 /\ UNCHANGED <<chain, node, blocks, freeOffset, spare, pool>>
  /\ UNCHANGED <<enabled, alloc, removing>>

(* ha_remove_all_nodes_to_page(fold, page): erase every node of the      *)
(* fold's cell that points into the page, rewinding to the head of the    *)
(* cell after each erase because compaction may have moved a node.  The  *)
(* partition latch stays held throughout, but blocks_mutex is released    *)
(* between erases, so each erase is a step of its own.                    *)
RemoveAllNodesToPage(f, p) ==
  /\ LatchFree /\ enabled
  /\ removing' = [fold |-> f, page |-> p]
  /\ UNCHANGED <<chain, node, blocks, freeOffset, spare, pool, enabled, alloc>>

RemoveAllNodesStep ==
  LET c == CellOf(removing.fold)
      i == SelectInSeq(chain[c], LAMBDA s : PageOf(node[s].rec) = removing.page)
  IN
  /\ removing # NULL
  /\ \/ i # 0 /\ EraseAt(c, i) /\ UNCHANGED removing
     \/ i = 0 /\ removing' = NULL
              /\ UNCHANGED <<chain, node, blocks, freeOffset, spare, pool>>
  /\ UNCHANGED <<enabled, alloc>>

(* ha_search_and_update_if_found(): retarget the first node of the fold's *)
(* cell that points to r, if the index is enabled.                        *)
SearchAndUpdateIfFound(f, r, r2) ==
  LET c == CellOf(f)
      i == SelectInSeq(chain[c], LAMBDA s : node[s].rec = r)
  IN
  /\ LatchFree
  /\ \/ enabled /\ i # 0 /\ node' = [node EXCEPT ![chain[c][i]].rec = r2]
     \/ (~enabled \/ i = 0) /\ UNCHANGED node
  /\ UNCHANGED <<chain, blocks, freeOffset, spare, pool, enabled, alloc, removing>>

-----------------------------------------------------------------------------
(* btr_sea::disable() with partition::clear(): under every latch, give the *)
(* spare and all slab blocks back to the buffer pool and free the table.  *)
Disable ==
  /\ LatchFree /\ enabled
  /\ enabled' = FALSE
  /\ chain' = [c \in Cells |-> <<>>]
  /\ node' = [s \in Slots |-> NoNode]
  /\ blocks' = <<>>
  /\ freeOffset' = [b \in SlabBlocks |-> 0]
  /\ spare' = NULL
  /\ pool' = pool \cup Range(blocks) \cup (IF spare = NULL THEN {} ELSE {spare})
  /\ UNCHANGED <<alloc, removing>>

(* btr_sea::enable(): allocate the table unless it already exists.  The   *)
(* early return on a concurrent buffer-pool resize is not modelled here.  *)
Enable ==
  /\ LatchFree /\ ~enabled
  /\ enabled' = TRUE
  /\ UNCHANGED <<chain, node, blocks, freeOffset, spare, pool, alloc, removing>>

-----------------------------------------------------------------------------
Next ==
  \/ \E t \in Threads : PrepareInsertAlloc(t) \/ PrepareInsertInstall(t)
  \/ \E f \in Folds, r \in Recs : Insert(f, r) \/ Erase(f, r)
  \/ \E f \in Folds, p \in Pages : RemoveAllNodesToPage(f, p)
  \/ RemoveAllNodesStep
  \/ \E f \in Folds, r, r2 \in Recs : SearchAndUpdateIfFound(f, r, r2)
  \/ Disable
  \/ Enable

Spec == Init /\ [][Next]_vars

-----------------------------------------------------------------------------
(***************************************************************************)
(* Properties                                                              *)
(***************************************************************************)

AllocatedSlots ==
  UNION {{<<b, k>> : k \in 1 .. freeOffset[b]} : b \in Range(blocks)}

ChainPositions == UNION {{<<c, i>> : i \in DOMAIN chain[c]} : c \in Cells}

(* The table is what ha_validate() and the slab bookkeeping require after *)
(* every insert, erase and compaction: each allocated slab node is linked *)
(* from exactly one chain position, no chain links a slot beyond a block's *)
(* free_offset, and every node hangs in the cell of its own fold.  A       *)
(* compaction that redirects the wrong link breaks it only after a later   *)
(* erase moves a node that another chain still points to.                  *)
HashTableValid ==
  /\ LinkedSlots = AllocatedSlots
  /\ \A p1, p2 \in ChainPositions :
       chain[p1[1]][p1[2]] = chain[p2[1]][p2[2]] => p1 = p2
  /\ \A c \in Cells : \A s \in Range(chain[c]) :
       node[s] # NoNode /\ CellOf(node[s].fold) = c

(* The slab has no holes: every slab block except the last is full, the   *)
(* last holds at least one node, and no block is listed twice.  insert    *)
(* only ever bumps the last block and cleanup_after_erase refills the hole *)
(* with the top node, so free_offset of the last block is the unique      *)
(* insertion point.                                                        *)
SlabCompact ==
  /\ IsInjective(blocks)
  /\ \A i \in 1 .. Len(blocks) - 1 : freeOffset[blocks[i]] = NodesPerBlock
  /\ blocks # <<>> => freeOffset[Last(blocks)] > 0

(* Every borrowed buffer block is in exactly one place: the buffer pool,   *)
(* the spare slot, the slab list, or the hands of a thread between        *)
(* buf_block_alloc() and blocks_mutex in prepare_insert().  Two threads   *)
(* racing in prepare_insert, and an erase emptying the last block while a *)
(* spare exists, must each give a block back exactly once.                *)
BlocksConserved ==
  LET held == {alloc[t] : t \in Threads} \ {NULL}
      sp   == IF spare = NULL THEN {} ELSE {spare}
  IN
  /\ pool \cup sp \cup Range(blocks) \cup held = SlabBlocks
  /\ pool \cap (sp \cup Range(blocks) \cup held) = {}
  /\ sp \cap (Range(blocks) \cup held) = {}
  /\ Range(blocks) \cap held = {}
  /\ \A t1, t2 \in Threads : alloc[t1] = alloc[t2] /\ alloc[t1] # NULL => t1 = t2

-----------------------------------------------------------------------------
(* The partition as its callers see it: the entries linked from the table,*)
(* less those a running ha_remove_all_nodes_to_page has yet to unlink.    *)
LinkedEntries == {node[s] : s \in LinkedSlots}

Entries ==
  IF removing = NULL THEN LinkedEntries
  ELSE {e \in LinkedEntries :
          ~(CellOf(e.fold) = CellOf(removing.fold)
            /\ PageOf(e.rec) = removing.page)}

Abs == INSTANCE AHIMap WITH entries <- Entries, enabled <- enabled

(* The chained table with its compacting slab implements the abstract map *)
(* of AHIMap: each insert, erase, page removal, update and clear of the   *)
(* partition is a step of the map (or leaves it unchanged), so moving     *)
(* nodes around during compaction never adds, loses or retargets an entry.*)
AbsSpec == Abs!Spec
=============================================================================
