------------------------------ MODULE ListWalk ------------------------------
(***************************************************************************)
(* The loops of include/list.h: the entries each of its iteration macros   *)
(* visits, in order.  An entry is the address of its list_head, so that    *)
(* the macros that step from structure to structure do what those that     *)
(* step from list_head to list_head do.                                    *)
(*                                                                         *)
(* The loops that are safe against removal delete the entries of drop as   *)
(* they come to them, and yield the pointers they leave behind, too.       *)
(***************************************************************************)
EXTENDS List

H == INSTANCE HList

(* Both directions are one loop, along the field d.                        *)
RECURSIVE Visit(_, _, _, _)
Visit(h, d, pos, head) ==
    IF pos = head THEN <<>> ELSE <<pos>> \o Visit(h, d, h[d][pos], head)

list_for_each(h, head) == Visit(h, "next", h.next[head], head)

list_for_each_continue(h, pos, head) == Visit(h, "next", h.next[pos], head)

list_for_each_prev(h, head) == Visit(h, "prev", h.prev[head], head)

list_for_each_entry(h, head) == list_for_each(h, head)

list_for_each_entry_reverse(h, head) == list_for_each_prev(h, head)

(* list_prepare_entry() makes the loop start at the head without a pos.    *)
list_prepare_entry(pos, head) == IF pos # NULL THEN pos ELSE head

list_for_each_entry_continue(h, pos, head) ==
    list_for_each_continue(h, list_prepare_entry(pos, head), head)

list_for_each_entry_continue_reverse(h, pos, head) ==
    Visit(h, "prev", h.prev[pos], head)

list_for_each_entry_from(h, pos, head) == Visit(h, "next", pos, head)

list_for_each_entry_from_reverse(h, pos, head) == Visit(h, "prev", pos, head)

-----------------------------------------------------------------------------
Body(h, pos, drop) == IF pos \in drop THEN list_del(h, pos) ELSE h

(* Faulty variant: the step to the next entry is taken from the entry the  *)
(* body has just deleted.                                                  *)
AdvanceFromDeleted(h, d, pos, n) == <<h[d][pos], h[d][pos]>>

(* The next entry was read before the body; the one after it, behind.      *)
Advance(h, d, pos, n) == <<n, h[d][n]>>

RECURSIVE VisitSafe(_, _, _, _, _, _)
VisitSafe(h, d, pos, n, head, drop) ==
    IF pos \notin DOMAIN h.next \/ pos = head
    THEN [seen |-> <<>>, heap |-> h]
    ELSE LET h1 == Body(h, pos, drop)
             step == Advance(h1, d, pos, n)
             rest == VisitSafe(h1, d, step[1], step[2], head, drop)
         IN [rest EXCEPT !.seen = <<pos>> \o @]

SafeFrom(h, d, pos, head, drop) == VisitSafe(h, d, pos, h[d][pos], head, drop)

list_for_each_safe(h, head, drop) == SafeFrom(h, "next", h.next[head], head, drop)

list_for_each_prev_safe(h, head, drop) == SafeFrom(h, "prev", h.prev[head], head, drop)

list_for_each_entry_safe(h, head, drop) == list_for_each_safe(h, head, drop)

list_for_each_entry_safe_continue(h, pos, head, drop) ==
    SafeFrom(h, "next", h.next[pos], head, drop)

list_for_each_entry_safe_from(h, pos, head, drop) ==
    SafeFrom(h, "next", pos, head, drop)

list_for_each_entry_safe_reverse(h, head, drop) == list_for_each_prev_safe(h, head, drop)

-----------------------------------------------------------------------------
RECURSIVE HVisit(_, _)
HVisit(h, pos) ==
    IF pos = NULL THEN <<>> ELSE <<pos>> \o HVisit(h, h.cell[H!Next(pos)])

hlist_for_each(h, x) == HVisit(h, h.cell[H!First(x)])

hlist_for_each_entry(h, x) == hlist_for_each(h, x)

hlist_for_each_entry_continue(h, pos) == HVisit(h, h.cell[H!Next(pos)])

hlist_for_each_entry_from(h, pos) == HVisit(h, pos)

RECURSIVE HVisitSafe(_, _, _)
HVisitSafe(h, pos, drop) ==
    IF pos = NULL
    THEN [seen |-> <<>>, heap |-> h]
    ELSE LET n == h.cell[H!Next(pos)]
             h1 == IF pos \in drop THEN H!hlist_del(h, pos) ELSE h
             rest == HVisitSafe(h1, n, drop)
         IN [rest EXCEPT !.seen = <<pos>> \o @]

hlist_for_each_safe(h, x, drop) == HVisitSafe(h, h.cell[H!First(x)], drop)

hlist_for_each_entry_safe(h, x, drop) == hlist_for_each_safe(h, x, drop)
=============================================================================
