----------------------------- MODULE HListRing -----------------------------
(***************************************************************************)
(* Programs that use the hlists of include/list.h: any sequence of calls   *)
(* that keeps to the contract, the pointers (module HList) beside the      *)
(* sequences (module ListSeq).                                             *)
(***************************************************************************)
EXTENDS HList

CONSTANTS ListHead, Node

VARIABLES heap, lists

L == INSTANCE ListSeq

Cell == {First(x) : x \in ListHead} \cup {Next(n) : n \in Node}

(* The heads are initialised; the nodes hold zeros.                        *)
Init == /\ heap = [cell |-> [c \in Cell |-> NULL], pprev |-> [n \in Node |-> NULLCell]]
        /\ L!Init

AddHead(n, x) == L!Add(n, x) /\ heap' = hlist_add_head(heap, n, x)

AddBeside(n, m) ==
    \/ L!AddAt(n, m, 0) /\ heap' = hlist_add_before(heap, n, m)
    \/ L!AddAt(n, m, 1) /\ heap' = hlist_add_behind(heap, n, m)

Delete(n) == L!Delete(n) /\ heap' \in {hlist_del(heap, n), hlist_del_init(heap, n)}

(* A node that has been initialised, and is on no list, is made to look as *)
(* if it were, so that deleting it is harmless.  hlist_del_init() of a     *)
(* node that is unhashed is harmless, too.                                 *)
Fake(n) == /\ n \in L!Free
           /\ hlist_unhashed(heap, n)
           /\ heap' = hlist_add_fake(heap, n)
           /\ UNCHANGED lists

DeleteUnlisted(n) == /\ n \in L!Free
                     /\ \/ hlist_unhashed(heap, n) /\ heap' = hlist_del_init(heap, n)
                        \/ /\ hlist_fake(heap, n)
                           /\ heap' \in {hlist_del(heap, n), hlist_del_init(heap, n)}
                     /\ UNCHANGED lists

(* The new head is initialised, or its entries would be lost.              *)
MoveList(y, x) == /\ lists[x] = <<>>
                  /\ L!Splice(y, x)
                  /\ heap' = hlist_move_list(heap, y, x)

Step == \/ \E n \in Node, x \in ListHead : AddHead(n, x)
        \/ \E n, m \in Node : AddBeside(n, m)
        \/ \E n \in Node : Delete(n) \/ Fake(n) \/ DeleteUnlisted(n)
        \/ \E x, y \in ListHead : MoveList(y, x)

-----------------------------------------------------------------------------
(* The nodes are reached in the order of the contract, and each knows how  *)
(* (list.h:780-958).                                                       *)
KeepsContract == \A x \in ListHead : Represents(heap, x, lists[x])

(* A node tells from its own pointers whether it is on a list, alone on it *)
(* or only looks as if it were, and a head whether it has any entries      *)
(* (list.h:794-819, 924-942).                                              *)
AnswersRight ==
    /\ \A n \in L!Linked : ~hlist_unhashed(heap, n) /\ ~hlist_fake(heap, n)
    /\ \A x \in ListHead :
         /\ hlist_empty(heap, x) <=> lists[x] = <<>>
         /\ \A n \in Node : n \in L!On(x) =>
              (hlist_is_singular_node(heap, n, x) <=> lists[x] = <<n>>)
=============================================================================
