------------------------------ MODULE ListRing ------------------------------
(***************************************************************************)
(* Programs that use the lists of include/list.h: any sequence of calls    *)
(* that keeps to the contract of module ListSeq.  Every action makes one   *)
(* call on the pointers (module List) and, beside it, takes the step of    *)
(* the contract; the invariants compare the two.                           *)
(***************************************************************************)
EXTENDS List

CONSTANTS ListHead, Node

VARIABLES heap,    \* the pointers in memory
          lists    \* the contract's view

L == INSTANCE ListSeq

Object == ListHead \cup Node

(* The heads are initialised; the entries hold zeros.                      *)
Init == /\ heap = [next |-> [p \in Object |-> IF p \in ListHead THEN p ELSE NULL],
                   prev |-> [p \in Object |-> IF p \in ListHead THEN p ELSE NULL]]
        /\ L!Init

Insert(n, x) == \/ L!Add(n, x) /\ heap' = list_add(heap, n, x)
                \/ L!AddTail(n, x) /\ heap' = list_add_tail(heap, n, x)

Delete(n) == /\ L!Delete(n)
             /\ heap' \in {list_del(heap, n), list_del_init(heap, n),
                           list_del_init_careful(heap, n), ListDelClearprev(heap, n)}

Replace(n, m) == /\ L!Replace(n, m)
                 /\ heap' \in {list_replace(heap, n, m), list_replace_init(heap, n, m)}

(* A head may be replaced as well, by another head.  Before the old one is *)
(* used again it is initialised: that is list_replace_init().              *)
ReplaceHead(x, y) == L!ReplaceHead(x, y) /\ heap' = list_replace_init(heap, x, y)

Swap(n, m) == L!Swap(n, m) /\ heap' = list_swap(heap, n, m)

Move(n, x) == \/ L!Move(n, x) /\ heap' = list_move(heap, n, x)
              \/ L!MoveTail(n, x) /\ heap' = list_move_tail(heap, n, x)

BulkMoveTail(x, n, m) == /\ L!BulkMoveTail(x, n, m)
                         /\ heap' = list_bulk_move_tail(heap, x, n, m)

Rotate(x) == \/ L!RotateLeft(x) /\ heap' = list_rotate_left(heap, x)
             \/ \E n \in L!On(x) : /\ L!RotateToFront(n, x)
                                   /\ heap' = list_rotate_to_front(heap, n, x)

(* list_cut_position() leaves y alone when x is empty.                     *)
CutPosition(y, x, e) ==
    /\ \/ lists[x] = <<>> /\ e = x /\ y # x /\ UNCHANGED lists
       \/ lists[x] # <<>> /\ e = x /\ L!Cut(y, x, 0)
       \/ e \in L!On(x) /\ L!Cut(y, x, L!Pos(e))
    /\ heap' = list_cut_position(heap, y, x, e)

CutBefore(y, x, e) ==
    /\ \/ e = x /\ L!Cut(y, x, Len(lists[x]))
       \/ e \in L!On(x) /\ L!Cut(y, x, L!Pos(e) - 1)
    /\ heap' = list_cut_before(heap, y, x, e)

(* After list_splice() the caller initialises the list it has emptied.     *)
Splice(y, x) ==
    \/ /\ L!Splice(y, x)
       /\ heap' \in {INIT_LIST_HEAD(list_splice(heap, y, x), y),
                     list_splice_init(heap, y, x)}
    \/ /\ L!SpliceTail(y, x)
       /\ heap' \in {INIT_LIST_HEAD(list_splice_tail(heap, y, x), y),
                     list_splice_tail_init(heap, y, x)}

Step == \/ \E n \in Node, x \in ListHead : Insert(n, x) \/ Move(n, x)
        \/ \E n \in Node : Delete(n)
        \/ \E n, m \in Node : Replace(n, m) \/ Swap(n, m)
        \/ \E n, m \in Node, x \in ListHead : BulkMoveTail(x, n, m)
        \/ \E x \in ListHead : Rotate(x)
        \/ \E x, y \in ListHead : Splice(y, x) \/ ReplaceHead(x, y)
        \/ \E x, y \in ListHead, e \in Object : CutPosition(y, x, e) \/ CutBefore(y, x, e)

-----------------------------------------------------------------------------
(* Forwards and backwards, the pointers give the sequence the contract     *)
(* promises, whichever calls were made and however close to each other     *)
(* their arguments were on the lists (list.h:46-490).                      *)
KeepsContract == \A x \in ListHead : Represents(heap, x, lists[x])

(* The questions one can ask of a list are answered from two pointers as   *)
(* if from the whole sequence (list.h:247-271, 304-308, 346-349, 531).     *)
AnswersRight ==
    \A x \in ListHead :
        LET s == lists[x]
        IN /\ list_empty(heap, x) <=> s = <<>>
           /\ list_empty_careful(heap, x) <=> s = <<>>
           /\ list_is_singular(heap, x) <=> Len(s) = 1
           /\ list_first_entry_or_null(heap, x) = IF s = <<>> THEN NULL ELSE Head(s)
           /\ \A n \in L!On(x) : /\ list_is_first(heap, n, x) <=> n = Head(s)
                                 /\ list_is_last(heap, n, x) <=> n = s[Len(s)]
=============================================================================
