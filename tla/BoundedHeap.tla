---------------------------- MODULE BoundedHeap ----------------------------
(***************************************************************************)
(* The bounded max-heap of the top-N scans: push_bounded of                *)
(* engine/coalesce.rs, which scan_top_n and scan_top_n_raw of              *)
(* operations/get.rs repeat.  A heap is the set of its items [key, by]: a  *)
(* document key and its place in the order asked for.                      *)
(***************************************************************************)
EXTENDS Integers, FiniteSets, SequencesExt

(* Ord of SortItem and KeyedCompactItem: ties are broken by key. *)
Less(a, b) == a.by < b.by \/ (a.by = b.by /\ a.key < b.key)

(* BinaryHeap::peek: the largest item. *)
Worst(heap) == CHOOSE x \in heap : \A y \in heap \ {x} : Less(y, x)

PushBounded(heap, item, cap) ==
    CASE cap = 0 -> heap
      [] cap > 0 /\ Cardinality(heap) < cap -> heap \cup {item}
      [] OTHER -> IF Less(item, Worst(heap)) THEN (heap \ {Worst(heap)}) \cup {item} ELSE heap

(* BinaryHeap::into_sorted_vec: each item stands behind all that are less. *)
IntoSortedVec(heap) ==
    [i \in 1 .. Cardinality(heap) |->
        CHOOSE x \in heap : Cardinality({y \in heap : Less(y, x)}) = i - 1]

=============================================================================
