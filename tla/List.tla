-------------------------------- MODULE List --------------------------------
(***************************************************************************)
(* The circular doubly linked lists of include/list.h, as operations on    *)
(* the pointers in memory.  Each operator takes the pointers before a call *)
(* and yields those after it, through the assignments of the function in   *)
(* their order: the objects of a call may be neighbours, and then a later  *)
(* assignment reads what an earlier one wrote.                             *)
(*                                                                         *)
(* The pointers are a record: h.next and h.prev map the address of every   *)
(* list_head to the address it holds.                                      *)
(***************************************************************************)
EXTENDS Integers, Sequences

LIST_POISON1 == "poison1"
LIST_POISON2 == "poison2"
NULL == "null"

(* p->next = q and p->prev = q.                                            *)
SetNext(h, p, q) == [next |-> [h.next EXCEPT ![p] = q], prev |-> h.prev]

SetPrev(h, p, q) == [next |-> h.next, prev |-> [h.prev EXCEPT ![p] = q]]

INIT_LIST_HEAD(h, list) == SetPrev(SetNext(h, list, list), list, list)

(* __list_add() and __list_del().                                          *)
ListAddBetween(h, new, prev, next) ==
    LET h1 == SetPrev(h, next, new)
        h2 == SetNext(h1, new, next)
        h3 == SetPrev(h2, new, prev)
    IN SetNext(h3, prev, new)

ListDelBetween(h, prev, next) == SetNext(SetPrev(h, next, prev), prev, next)

list_add(h, new, head) == ListAddBetween(h, new, head, h.next[head])

list_add_tail(h, new, head) == ListAddBetween(h, new, h.prev[head], head)

(* __list_del_entry() and __list_del_clearprev().                          *)
ListDelEntry(h, entry) == ListDelBetween(h, h.prev[entry], h.next[entry])

ListDelClearprev(h, entry) == SetPrev(ListDelEntry(h, entry), entry, NULL)

list_del(h, entry) ==
    SetPrev(SetNext(ListDelEntry(h, entry), entry, LIST_POISON1), entry, LIST_POISON2)

list_replace(h, old, new) ==
    LET h1 == SetNext(h, new, h.next[old])
        h2 == SetPrev(h1, h1.next[new], new)
        h3 == SetPrev(h2, new, h2.prev[old])
    IN SetNext(h3, h3.prev[new], new)

list_replace_init(h, old, new) == INIT_LIST_HEAD(list_replace(h, old, new), old)

list_swap(h, entry1, entry2) ==
    LET pos == h.prev[entry2]
        h1 == list_del(h, entry2)
        h2 == list_replace(h1, entry1, entry2)
    IN list_add(h2, entry1, IF pos = entry1 THEN entry2 ELSE pos)

list_del_init(h, entry) == INIT_LIST_HEAD(ListDelEntry(h, entry), entry)

list_move(h, list, head) == list_add(ListDelEntry(h, list), list, head)

list_move_tail(h, list, head) == list_add_tail(ListDelEntry(h, list), list, head)

list_bulk_move_tail(h, head, first, last) ==
    LET h1 == SetNext(h, h.prev[first], h.next[last])
        h2 == SetPrev(h1, h1.next[last], h1.prev[first])
        h3 == SetNext(h2, h2.prev[head], first)
        h4 == SetPrev(h3, first, h3.prev[head])
        h5 == SetNext(h4, last, head)
    IN SetPrev(h5, head, last)

list_is_first(h, list, head) == h.prev[list] = head

list_is_last(h, list, head) == h.next[list] = head

list_empty(h, head) == h.next[head] = head

list_del_init_careful(h, entry) ==
    SetNext(SetPrev(ListDelEntry(h, entry), entry, entry), entry, entry)

list_empty_careful(h, head) == h.next[head] = head /\ h.next[head] = h.prev[head]

list_rotate_left(h, head) ==
    IF list_empty(h, head) THEN h ELSE list_move_tail(h, h.next[head], head)

list_rotate_to_front(h, list, head) == list_move_tail(h, head, list)

(* Faulty variant: an empty list, whose pointers are equal, counts.        *)
ListIsSingularOrEmpty(h, head) == h.next[head] = h.prev[head]

list_is_singular(h, head) == ~list_empty(h, head) /\ h.next[head] = h.prev[head]

(* __list_cut_position().                                                  *)
ListCutPosition(h, list, head, entry) ==
    LET new_first == h.next[entry]
        h1 == SetNext(h, list, h.next[head])
        h2 == SetPrev(h1, h1.next[list], list)
        h3 == SetPrev(h2, list, entry)
        h4 == SetNext(h3, entry, list)
        h5 == SetNext(h4, head, new_first)
    IN SetPrev(h5, new_first, head)

list_cut_position(h, list, head, entry) ==
    IF \/ list_empty(h, head)
       \/ list_is_singular(h, head) /\ h.next[head] # entry /\ head # entry
    THEN h
    ELSE IF entry = head
         THEN INIT_LIST_HEAD(h, list)
         ELSE ListCutPosition(h, list, head, entry)

list_cut_before(h, list, head, entry) ==
    IF h.next[head] = entry
    THEN INIT_LIST_HEAD(h, list)
    ELSE LET h1 == SetNext(h, list, h.next[head])
             h2 == SetPrev(h1, h1.next[list], list)
             h3 == SetPrev(h2, list, h2.prev[entry])
             h4 == SetNext(h3, h3.prev[list], list)
             h5 == SetNext(h4, head, entry)
         IN SetPrev(h5, entry, head)

(* __list_splice().                                                        *)
ListSplice(h, list, prev, next) ==
    LET first == h.next[list]
        last == h.prev[list]
        h1 == SetPrev(h, first, prev)
        h2 == SetNext(h1, prev, first)
        h3 == SetNext(h2, last, next)
    IN SetPrev(h3, next, last)

list_splice(h, list, head) ==
    IF list_empty(h, list) THEN h ELSE ListSplice(h, list, head, h.next[head])

list_splice_tail(h, list, head) ==
    IF list_empty(h, list) THEN h ELSE ListSplice(h, list, h.prev[head], head)

list_splice_init(h, list, head) ==
    IF list_empty(h, list)
    THEN h
    ELSE INIT_LIST_HEAD(ListSplice(h, list, head, h.next[head]), list)

list_splice_tail_init(h, list, head) ==
    IF list_empty(h, list)
    THEN h
    ELSE INIT_LIST_HEAD(ListSplice(h, list, h.prev[head], head), list)

list_first_entry_or_null(h, head) ==
    IF h.next[head] # head THEN h.next[head] ELSE NULL

-----------------------------------------------------------------------------
(* What the pointers mean.  Going round from the head, position 0 and      *)
(* position Len(s) + 1 are the head and those between are the entries.     *)
At(head, s, i) == IF i \in 1..Len(s) THEN s[i] ELSE head

(* The list of head holds the entries of s, in both directions.            *)
Represents(h, head, s) ==
    /\ \A i \in 0..Len(s) : /\ h.next[At(head, s, i)] = At(head, s, i + 1)
                            /\ h.prev[At(head, s, i + 1)] = At(head, s, i)
    /\ \A i \in 1..Len(s) : s[i] # head
    /\ \A i, j \in 1..Len(s) : s[i] = s[j] => i = j
=============================================================================
