------------------------------ MODULE ListSeq ------------------------------
(***************************************************************************)
(* What the operations of include/list.h promise: a head is a sequence of  *)
(* entries, and an entry is on at most one of them.  The guards are what   *)
(* the comments of list.h ask of the caller.                               *)
(***************************************************************************)
EXTENDS Integers, Sequences, SequencesExt

CONSTANTS ListHead,    \* the list heads
          Node      \* the entries

VARIABLE lists      \* the entries of each head, in order

On(x) == {lists[x][i] : i \in DOMAIN lists[x]}

Linked == UNION {On(x) : x \in ListHead}

Free == Node \ Linked

HeadOf(n) == CHOOSE x \in ListHead : n \in On(x)

Pos(n) == CHOOSE i \in DOMAIN lists[HeadOf(n)] : lists[HeadOf(n)][i] = n

(* The sequences once the entry n is gone.                                 *)
Without(n) == [lists EXCEPT ![HeadOf(n)] = RemoveAt(@, Pos(n))]

(* Two entries trade places.                                               *)
Exchange(n, m) ==
    [x \in ListHead |-> [i \in DOMAIN lists[x] |->
        CASE lists[x][i] = n -> m
          [] lists[x][i] = m -> n
          [] OTHER -> lists[x][i]]]

Init == lists = [x \in ListHead |-> <<>>]

Add(n, x) == /\ n \in Free
             /\ lists' = [lists EXCEPT ![x] = <<n>> \o @]

AddTail(n, x) == /\ n \in Free
                 /\ lists' = [lists EXCEPT ![x] = Append(@, n)]

(* n goes right before (k = 0) or right behind (k = 1) the entry m.        *)
AddAt(n, m, k) ==
    /\ n \in Free
    /\ m \in Linked
    /\ lists' = [lists EXCEPT ![HeadOf(m)] = InsertAt(@, Pos(m) + k, n)]

Delete(n) == /\ n \in Linked
             /\ lists' = Without(n)

(* new takes the place of old, which becomes free.                         *)
Replace(old, new) == /\ old \in Linked
                     /\ new \in Free
                     /\ lists' = Exchange(old, new)

(* The head new takes over the entries of old, and its own are lost.       *)
ReplaceHead(old, new) == /\ old # new
                         /\ lists' = [lists EXCEPT ![new] = lists[old], ![old] = <<>>]

Swap(n, m) == /\ n \in Linked
              /\ m \in Linked
              /\ n # m
              /\ lists' = Exchange(n, m)

Move(n, x) == /\ n \in Linked
              /\ lists' = [Without(n) EXCEPT ![x] = <<n>> \o @]

MoveTail(n, x) == /\ n \in Linked
                  /\ lists' = [Without(n) EXCEPT ![x] = Append(@, n)]

(* The entries from first to last go to the end of their list.             *)
BulkMoveTail(x, first, last) ==
    /\ first \in On(x)
    /\ last \in On(x)
    /\ Pos(first) <= Pos(last)
    /\ LET s == lists[x]
       IN lists' = [lists EXCEPT ![x] = SubSeq(s, 1, Pos(first) - 1)
                                        \o SubSeq(s, Pos(last) + 1, Len(s))
                                        \o SubSeq(s, Pos(first), Pos(last))]

RotateLeft(x) ==
    lists' = [lists EXCEPT ![x] = IF @ = <<>> THEN @ ELSE Append(Tail(@), Head(@))]

RotateToFront(n, x) ==
    /\ n \in On(x)
    /\ lists' = [lists EXCEPT ![x] = SubSeq(@, Pos(n), Len(@)) \o SubSeq(@, 1, Pos(n) - 1)]

(* The first k entries of x become the list y, whose entries are lost.     *)
Cut(y, x, k) == /\ y # x
                /\ lists' = [lists EXCEPT ![y] = SubSeq(lists[x], 1, k),
                                          ![x] = SubSeq(lists[x], k + 1, Len(lists[x]))]

(* Everything on y goes to the front, or the back, of x.                   *)
Splice(y, x) == /\ y # x
                /\ lists' = [lists EXCEPT ![x] = lists[y] \o @, ![y] = <<>>]

SpliceTail(y, x) == /\ y # x
                    /\ lists' = [lists EXCEPT ![x] = @ \o lists[y], ![y] = <<>>]
=============================================================================
