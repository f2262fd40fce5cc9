------------------------------- MODULE AHIMap -------------------------------
(***************************************************************************)
(* What one partition of the adaptive hash index promises its callers     *)
(* (btr_sea::partition in storage/innobase/btr/btr0sea.cc), with the      *)
(* hash chains and the slab allocator abstracted away.                     *)
(*                                                                         *)
(* The partition is a set of entries <<fold, rec>>.  At most one entry     *)
(* carries a given fold: an insert of a fold already present retargets     *)
(* that entry (coalescing).  An insert of a new fold may silently do       *)
(* nothing, because the index is advisory and the slab may have no node    *)
(* to give.  Erase and search-and-update look a record up within the      *)
(* hash cell of the fold they are given, not by the fold itself.           *)
(***************************************************************************)
EXTENDS FiniteSets, Sequences

CONSTANTS
  Folds,      \* fold values
  Recs,       \* record pointers
  CellOf(_),  \* hash cell of a fold
  PageOf(_)   \* page frame containing a record pointer

VARIABLES
  entries,    \* the set of <<fold, rec>> entries of the partition
  enabled     \* btr_search.enabled together with table.array # nullptr

vars == <<entries, enabled>>

Entry == [fold : Folds, rec : Recs]

TypeOK ==
  /\ entries \subseteq Entry
  /\ \A e1, e2 \in entries : e1.fold = e2.fold => e1 = e2
  /\ enabled \in BOOLEAN

Init ==
  /\ entries = {}
  /\ enabled \in BOOLEAN

SameCell(e, f) == CellOf(e.fold) = CellOf(f)

(* The maps an insert of <<f, r>> into E may leave: the entry with fold f *)
(* retargeted to r, or, when there is none, E with or without the new     *)
(* entry.                                                                  *)
InsertResults(E, f, r) ==
  IF \E e \in E : e.fold = f
    THEN {{e \in E : e.fold # f} \cup {[fold |-> f, rec |-> r]}}
    ELSE {E, E \cup {[fold |-> f, rec |-> r]}}

(* The maps a run of inserts, a sequence of [fold, rec], may leave.       *)
RECURSIVE InsertAllResults(_, _)
InsertAllResults(E, L) ==
  IF L = <<>> THEN {E}
  ELSE UNION {InsertAllResults(E2, Tail(L)) :
                E2 \in InsertResults(E, Head(L).fold, Head(L).rec)}

(* Erase one entry of f's cell whose record is r, if there is one.         *)
EraseResults(E, f, r) ==
  LET hit == {e \in E : SameCell(e, f) /\ e.rec = r}
  IN IF hit = {} THEN {E} ELSE {E \ {e} : e \in hit}

(* Remove every entry of f's cell that points into page p.                *)
RemovedPage(E, f, p) == {e \in E : ~(SameCell(e, f) /\ PageOf(e.rec) = p)}

(* Retarget one entry of f's cell whose record is r to r2.                 *)
UpdateResults(E, f, r, r2) ==
  LET hit == {e \in E : SameCell(e, f) /\ e.rec = r}
  IN IF hit = {} THEN {E}
     ELSE {(E \ {e}) \cup {[e EXCEPT !.rec = r2]} : e \in hit}

Insert(f, r) ==
  /\ enabled
  /\ entries' \in InsertResults(entries, f, r)
  /\ UNCHANGED enabled

Erase(f, r) ==
  /\ enabled
  /\ entries' \in EraseResults(entries, f, r)
  /\ UNCHANGED enabled

RemovePage(f, p) ==
  /\ enabled
  /\ entries' = RemovedPage(entries, f, p)
  /\ UNCHANGED enabled

Update(f, r, r2) ==
  /\ entries' \in IF enabled THEN UpdateResults(entries, f, r, r2) ELSE {entries}
  /\ UNCHANGED enabled

Disable ==
  /\ entries' = {}
  /\ enabled' = FALSE

Enable ==
  /\ enabled' = TRUE
  /\ UNCHANGED entries

Next ==
  \/ \E f \in Folds, r \in Recs : Insert(f, r) \/ Erase(f, r)
  \/ \E f \in Folds, r, r2 \in Recs : Update(f, r, r2)
  \/ \E f \in Folds, p \in {PageOf(r) : r \in Recs} : RemovePage(f, p)
  \/ Disable
  \/ Enable

Spec == Init /\ [][Next]_vars
=============================================================================
