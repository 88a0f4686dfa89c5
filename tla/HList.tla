------------------------------- MODULE HList -------------------------------
(***************************************************************************)
(* The lists with a single pointer as their head of include/list.h, as     *)
(* operations on the pointers in memory, through the assignments of each   *)
(* function in their order.                                                *)
(*                                                                         *)
(* A node does not point back to its predecessor but to the pointer that   *)
(* leads to it: the first field of a head or the next field of a node.     *)
(* These fields are the cells of the memory here: h.cell maps the address  *)
(* of each to the node it holds, h.pprev maps each node to the address of  *)
(* a cell.                                                                 *)
(***************************************************************************)
EXTENDS Integers, Sequences

LIST_POISON1 == "poison1"
NULL == "null"

(* The values of pprev that are no address of a cell.                      *)
NULLCell == <<"null", NULL>>

LIST_POISON2 == <<"poison2", NULL>>

(* &x->first and &n->next.                                                 *)
First(x) == <<"first", x>>

Next(n) == <<"next", n>>

SetCell(h, c, n) == [cell |-> [h.cell EXCEPT ![c] = n], pprev |-> h.pprev]

SetPprev(h, n, c) == [cell |-> h.cell, pprev |-> [h.pprev EXCEPT ![n] = c]]

-----------------------------------------------------------------------------
INIT_HLIST_NODE(h, n) == SetPprev(SetCell(h, Next(n), NULL), n, NULLCell)

hlist_unhashed(h, n) == h.pprev[n] = NULLCell

hlist_empty(h, x) == h.cell[First(x)] = NULL

(* __hlist_del().                                                          *)
HlistDel(h, n) ==
    LET next == h.cell[Next(n)]
        pprev == h.pprev[n]
        h1 == SetCell(h, pprev, next)
    IN IF next # NULL THEN SetPprev(h1, next, pprev) ELSE h1

hlist_del(h, n) ==
    SetPprev(SetCell(HlistDel(h, n), Next(n), LIST_POISON1), n, LIST_POISON2)

hlist_del_init(h, n) ==
    IF hlist_unhashed(h, n) THEN h ELSE INIT_HLIST_NODE(HlistDel(h, n), n)

hlist_add_head(h, n, x) ==
    LET first == h.cell[First(x)]
        h1 == SetCell(h, Next(n), first)
        h2 == IF first # NULL THEN SetPprev(h1, first, Next(n)) ELSE h1
        h3 == SetCell(h2, First(x), n)
    IN SetPprev(h3, n, First(x))

hlist_add_before(h, n, next) ==
    LET h1 == SetPprev(h, n, h.pprev[next])
        h2 == SetCell(h1, Next(n), next)
        h3 == SetPprev(h2, next, Next(n))
    IN SetCell(h3, h3.pprev[n], n)

hlist_add_behind(h, n, prev) ==
    LET h1 == SetCell(h, Next(n), h.cell[Next(prev)])
        h2 == SetCell(h1, Next(prev), n)
        h3 == SetPprev(h2, n, Next(prev))
        next == h3.cell[Next(n)]
    IN IF next # NULL THEN SetPprev(h3, next, Next(n)) ELSE h3

hlist_add_fake(h, n) == SetPprev(h, n, Next(n))

hlist_fake(h, n) == h.pprev[n] = Next(n)

hlist_is_singular_node(h, n, x) ==
    h.cell[Next(n)] = NULL /\ h.pprev[n] = First(x)

(* Faulty variant: the first entry still points back to the old head.      *)
HlistMoveNoFixup(h, old, new) ==
    SetCell(SetCell(h, First(new), h.cell[First(old)]), First(old), NULL)

hlist_move_list(h, old, new) ==
    LET first == h.cell[First(old)]
        h1 == SetCell(h, First(new), first)
        h2 == IF first # NULL THEN SetPprev(h1, first, First(new)) ELSE h1
    IN SetCell(h2, First(old), NULL)

-----------------------------------------------------------------------------
(* What the pointers mean: the list of x holds the entries of s, and the   *)
(* entries know how they are reached.                                      *)
CellOf(x, s, i) == IF i = 1 THEN First(x) ELSE Next(s[i - 1])

Represents(h, x, s) ==
    /\ \A i \in 1..Len(s) : /\ h.cell[CellOf(x, s, i)] = s[i]
                            /\ h.pprev[s[i]] = CellOf(x, s, i)
    /\ h.cell[CellOf(x, s, Len(s) + 1)] = NULL
=============================================================================
