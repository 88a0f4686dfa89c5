----------------------------- MODULE ListLoops -----------------------------
(***************************************************************************)
(* Programs that use include/list.h (Lists), and the loops over their      *)
(* lists (ListWalk).                                                       *)
(***************************************************************************)
EXTENDS Lists, ListWalk, SequencesExt

Symmetry == Permutations(ListHead) \cup Permutations(Node)

-----------------------------------------------------------------------------
From(s, i) == SubSeq(s, i, Len(s))
UpTo(s, i) == Reverse(SubSeq(s, 1, i))
Kept(s, drop) == SelectSeq(s, LAMBDA n : n \notin drop)

RingWalks(x, s) ==
    /\ list_for_each(rings, x) = s
    /\ list_for_each_entry(rings, x) = s
    /\ list_for_each_prev(rings, x) = Reverse(s)
    /\ list_for_each_entry_reverse(rings, x) = Reverse(s)
    /\ list_for_each_entry_continue(rings, NULL, x) = s
    /\ \A i \in 1..Len(s) :
         /\ list_for_each_continue(rings, s[i], x) = From(s, i + 1)
         /\ list_for_each_entry_continue(rings, s[i], x) = From(s, i + 1)
         /\ list_for_each_entry_continue_reverse(rings, s[i], x) = UpTo(s, i - 1)
         /\ list_for_each_entry_from(rings, s[i], x) = From(s, i)
         /\ list_for_each_entry_from_reverse(rings, s[i], x) = UpTo(s, i)

(* A loop that saw these entries and dropped some has left the others.     *)
Leaves(walk, seen, x, s, drop) ==
    walk.seen = seen /\ Represents(walk.heap, x, Kept(s, drop))

RingWalksSafely(x, s, drop) ==
    /\ Leaves(list_for_each_safe(rings, x, drop), s, x, s, drop)
    /\ Leaves(list_for_each_entry_safe(rings, x, drop), s, x, s, drop)
    /\ Leaves(list_for_each_prev_safe(rings, x, drop), Reverse(s), x, s, drop)
    /\ Leaves(list_for_each_entry_safe_reverse(rings, x, drop), Reverse(s), x, s, drop)
    /\ \A i \in 1..Len(s) :
         LET ahead == Range(From(s, i + 1))
         IN /\ Leaves(list_for_each_entry_safe_from(rings, s[i], x, drop \cap (ahead \cup {s[i]})),
                      From(s, i), x, s, drop \cap (ahead \cup {s[i]}))
            /\ Leaves(list_for_each_entry_safe_continue(rings, s[i], x, drop \cap ahead),
                      From(s, i + 1), x, s, drop \cap ahead)

HWalks(x, s, drop) ==
    /\ hlist_for_each(hlists, x) = s
    /\ hlist_for_each_entry(hlists, x) = s
    /\ \A i \in 1..Len(s) :
         /\ hlist_for_each_entry_continue(hlists, s[i]) = From(s, i + 1)
         /\ hlist_for_each_entry_from(hlists, s[i]) = From(s, i)
    /\ LET walk == hlist_for_each_entry_safe(hlists, x, drop)
       IN walk.seen = s /\ H!Represents(walk.heap, x, Kept(s, drop))

(* Every loop visits the entries it should, in order; those that are safe  *)
(* against removal do so although any of the entries are deleted, and      *)
(* leave a list of the others (list.h:558-757, 962-1014).                  *)
LoopsVisitAll ==
    \A x \in ListHead :
        /\ kind = "list" => RingWalks(x, lists[x])
        /\ \A drop \in SUBSET Range(lists[x]) :
             IF kind = "list" THEN RingWalksSafely(x, lists[x], drop)
                              ELSE HWalks(x, lists[x], drop)
=============================================================================
