-------------------------- MODULE SchedListProofs --------------------------
(***************************************************************************)
(* Proofs about the scheduler on the pointers of its task list, for any    *)
(* set of tasks: the pointers always hold the list that module Sched works *)
(* on, and every step is one of its steps.                                 *)
(*                                                                         *)
(* First come the list operations the scheduler uses, for lists of any     *)
(* length: list_add(), list_add_tail() and list_del_init() of the first    *)
(* entry keep the pointers of the list in step with its sequence.  Then    *)
(* they are put together with what is proved of the scheduler on           *)
(* sequences, whose instances have their own copies of the definitions.    *)
(***************************************************************************)
EXTENDS SchedList, SequenceTheorems, TLAPS

(* The list_heads in memory, and what their fields can hold.               *)
Object == Task \cup {TASK_LIST}

Pointer == Object \cup {NULL}

Heap == [next : [Object -> Pointer], prev : [Object -> Pointer]]

A == INSTANCE SchedProofs

-----------------------------------------------------------------------------
(* The calls of the scheduler leave pointers in every field.               *)
LEMMA HeapClosed ==
  ASSUME NEW h \in Heap, NEW entry \in Object, NEW head \in Object
  PROVE  /\ list_add(h, entry, head) \in Heap
         /\ list_add_tail(h, entry, head) \in Heap
         /\ list_del_init(h, entry) \in Heap
<1>1. /\ entry \in Pointer /\ head \in Pointer
      /\ h.next[head] \in Pointer /\ h.prev[head] \in Pointer
      /\ h.next[entry] \in Pointer /\ h.prev[entry] \in Pointer
  BY DEF Heap, Pointer
<1>2. ASSUME NEW g \in Heap, NEW p, NEW q \in Pointer
      PROVE  SetNext(g, p, q) \in Heap /\ SetPrev(g, p, q) \in Heap
  BY <1>2 DEF Heap, SetNext, SetPrev
<1>3. QED
  BY <1>1, <1>2 DEF list_add, list_add_tail, ListAddBetween, list_del_init, ListDelEntry,
                    ListDelBetween, INIT_LIST_HEAD

-----------------------------------------------------------------------------
(* __list_add() links new between prev and next and touches nothing else,  *)
(* even if prev and next are the same object (list.h:58-66).               *)
LEMMA AddBetweenEffect ==
  ASSUME NEW h \in Heap,
         NEW new \in Object, NEW prev \in Object, NEW next \in Object,
         new # prev, new # next,
         NEW g, g = ListAddBetween(h, new, prev, next)
  PROVE  /\ g.next[prev] = new /\ g.next[new] = next
         /\ g.prev[next] = new /\ g.prev[new] = prev
         /\ \A r \in Object : r # new /\ r # prev => g.next[r] = h.next[r]
         /\ \A r \in Object : r # new /\ r # next => g.prev[r] = h.prev[r]
<1>1. /\ g.next = [[h.next EXCEPT ![new] = next] EXCEPT ![prev] = new]
      /\ g.prev = [[h.prev EXCEPT ![next] = new] EXCEPT ![new] = prev]
  BY DEF ListAddBetween, SetNext, SetPrev
<1>2. h.next \in [Object -> Pointer] /\ h.prev \in [Object -> Pointer]
  BY DEF Heap
<1>3. QED
  BY <1>1, <1>2

(* list_del_init() makes the neighbours of the entry point to each other   *)
(* and the entry to itself (list.h:101-105, 121-124, 190-194).             *)
LEMMA DelInitEffect ==
  ASSUME NEW h \in Heap, NEW entry \in Object,
         NEW prev \in Object, NEW next \in Object,
         h.prev[entry] = prev, h.next[entry] = next,
         prev # entry, next # entry,
         NEW g, g = list_del_init(h, entry)
  PROVE  /\ g.next[prev] = next /\ g.prev[next] = prev
         /\ g.next[entry] = entry /\ g.prev[entry] = entry
         /\ \A r \in Object : r # entry /\ r # prev => g.next[r] = h.next[r]
         /\ \A r \in Object : r # entry /\ r # next => g.prev[r] = h.prev[r]
<1>1. /\ g.next = [[h.next EXCEPT ![prev] = next] EXCEPT ![entry] = entry]
      /\ g.prev = [[h.prev EXCEPT ![next] = prev] EXCEPT ![entry] = entry]
  BY DEF list_del_init, ListDelEntry, ListDelBetween, INIT_LIST_HEAD, SetNext, SetPrev
<1>2. h.next \in [Object -> Pointer] /\ h.prev \in [Object -> Pointer]
  BY DEF Heap
<1>3. QED
  BY <1>1, <1>2

-----------------------------------------------------------------------------
(* Going round a list, from the head on or up to the head, meets no object *)
(* twice.                                                                  *)
LEMMA AtDistinct ==
  ASSUME NEW h, NEW head \in Object, NEW s \in Seq(Object), Represents(h, head, s)
  PROVE  /\ Len(s) \in Nat
         /\ At(head, s, 0) = head /\ At(head, s, Len(s) + 1) = head
         /\ \A i \in 1..Len(s) : At(head, s, i) = s[i] /\ s[i] \in Object /\ s[i] # head
         /\ \A i \in 0..(Len(s) + 1) : At(head, s, i) \in Object
         /\ \A i, j \in 0..Len(s) : At(head, s, i) = At(head, s, j) => i = j
         /\ \A i, j \in 1..(Len(s) + 1) : At(head, s, i) = At(head, s, j) => i = j
<1>1. /\ Len(s) \in Nat
      /\ \A i \in 1..Len(s) : s[i] \in Object /\ s[i] # head
      /\ \A i, j \in 1..Len(s) : s[i] = s[j] => i = j
  BY DEF Represents
<1>2. /\ At(head, s, 0) = head /\ At(head, s, Len(s) + 1) = head
      /\ \A i \in 1..Len(s) : At(head, s, i) = s[i]
  BY <1>1 DEF At
<1>3. /\ \A i \in 0..Len(s) : i = 0 \/ i \in 1..Len(s)
      /\ \A i \in 1..(Len(s) + 1) : i \in 1..Len(s) \/ i = Len(s) + 1
      /\ \A i \in 0..(Len(s) + 1) : i = 0 \/ i \in 1..Len(s) \/ i = Len(s) + 1
  BY <1>1
<1>4. QED
  BY <1>1, <1>2, <1>3

(* list_add() puts the entry in front of the sequence (list.h:76-79), as   *)
(* task_init() of sched.c needs it.                                        *)
THEOREM ListAddCorrect ==
  ASSUME NEW h \in Heap,
         NEW head \in Object, NEW s \in Seq(Object), NEW new \in Object,
         Represents(h, head, s),
         new # head, \A i \in 1..Len(s) : s[i] # new
  PROVE  Represents(list_add(h, new, head), head, <<new>> \o s)
<1> DEFINE t == <<new>> \o s
           g == list_add(h, new, head)
           n == Len(s)
<1>1. n \in Nat /\ \A i \in 1..n : s[i] \in Object /\ s[i] # head /\ s[i] # new
  BY DEF Represents
<1>2. /\ Len(t) = n + 1
      /\ t[1] = new
      /\ \A i \in 2..(n + 1) : i - 1 \in 1..n /\ t[i] = s[i - 1]
  BY <1>1, ConcatProperties
<1>3. /\ At(head, t, 0) = head /\ At(head, t, 1) = new
      /\ At(head, s, 0) = head
      /\ \A i \in 1..(n + 1) : At(head, t, i + 1) = At(head, s, i)
  <2>1. ASSUME NEW i \in 1..n PROVE At(head, t, i + 1) = At(head, s, i)
    <3>1. i + 1 \in 2..(n + 1) /\ i + 1 \in 1..Len(t) /\ (i + 1) - 1 = i
      BY <1>1, <1>2
    <3>2. t[i + 1] = s[i]
      BY <1>2, <3>1
    <3>3. QED
      BY <3>1, <3>2 DEF At
  <2>2. At(head, t, (n + 1) + 1) = head /\ At(head, s, n + 1) = head
    BY <1>1, <1>2 DEF At
  <2>3. /\ At(head, t, 0) = head /\ At(head, t, 1) = new
        /\ At(head, s, 0) = head
    BY <1>1, <1>2 DEF At
  <2>4. \A i \in 1..(n + 1) : i \in 1..n \/ i = n + 1
    BY <1>1
  <2>5. QED
    BY <2>1, <2>2, <2>3, <2>4
<1>4. \A i \in 0..n : /\ h.next[At(head, s, i)] = At(head, s, i + 1)
                      /\ h.prev[At(head, s, i + 1)] = At(head, s, i)
  BY DEF Represents
<1>5. \A i \in 1..(n + 1) : At(head, s, i) \in Object /\ At(head, s, i) # new
  BY <1>1 DEF At
<1>6. /\ h.next[head] = At(head, s, 1)
      /\ At(head, s, 1) \in Object /\ At(head, s, 1) # new
  <2>1. 0 \in 0..n /\ 1 \in 1..(n + 1) /\ 0 + 1 = 1
    BY <1>1
  <2>2. QED
    BY <1>3, <1>4, <1>5, <2>1
<1>7. g = ListAddBetween(h, new, head, At(head, s, 1))
  BY <1>6 DEF list_add
<1>8. /\ g.next[head] = new /\ g.next[new] = At(head, s, 1)
      /\ g.prev[At(head, s, 1)] = new /\ g.prev[new] = head
      /\ \A r \in Object : r # new /\ r # head => g.next[r] = h.next[r]
      /\ \A r \in Object : r # new /\ r # At(head, s, 1) => g.prev[r] = h.prev[r]
  BY <1>6, <1>7, AddBetweenEffect
<1> HIDE DEF g, t
<1>9. ASSUME NEW i \in 0..Len(t)
      PROVE  /\ g.next[At(head, t, i)] = At(head, t, i + 1)
             /\ g.prev[At(head, t, i + 1)] = At(head, t, i)
  <2>1. CASE i = 0
    BY <1>3, <1>8, <2>1
  <2>2. CASE i = 1
    <3>1. At(head, t, 2) = At(head, s, 1)
      <4>1. 1 \in 1..(n + 1)
        BY <1>1
      <4>2. QED
        BY <1>3, <4>1
    <3>2. QED
      BY <1>3, <1>8, <2>2, <3>1
  <2>3. CASE i \in 2..(n + 1)
    <3> DEFINE k == i - 1
    <3>1. k \in 1..n /\ k + 1 = i /\ k \in 0..n /\ k + 1 \in 1..(n + 1)
      BY <1>1, <2>3
    <3> HIDE DEF k
    <3>2. At(head, t, i) = At(head, s, k) /\ At(head, t, i + 1) = At(head, s, k + 1)
      BY <1>1, <1>3, <3>1
    <3>3. At(head, s, k) = s[k]
      BY <3>1 DEF At
    <3>4. g.next[At(head, s, k)] = At(head, s, k + 1)
      BY <1>1, <1>4, <1>8, <3>1, <3>3
    <3>5. At(head, s, k + 1) # At(head, s, 1)
      <4>1. 1 \in 1..n /\ At(head, s, 1) = s[1]
        BY <1>1, <3>1 DEF At
      <4>2. CASE k + 1 \in 1..n
        <5>1. At(head, s, k + 1) = s[k + 1] /\ k + 1 # 1
          BY <3>1, <4>2 DEF At
        <5>2. QED
          BY <4>1, <4>2, <5>1 DEF Represents
      <4>3. CASE k + 1 \notin 1..n
        <5>1. At(head, s, k + 1) = head
          BY <4>3 DEF At
        <5>2. QED
          BY <1>1, <4>1, <5>1
      <4>4. QED
        BY <4>2, <4>3
    <3>6. g.prev[At(head, s, k + 1)] = At(head, s, k)
      BY <1>4, <1>5, <1>8, <3>1, <3>5
    <3>7. QED
      BY <3>2, <3>4, <3>6
  <2>4. QED
    BY <1>1, <1>2, <2>1, <2>2, <2>3
<1>10. \A i \in 1..Len(t) : i = 1 \/ i \in 2..(n + 1)
  BY <1>1, <1>2
<1>11. \A i \in 1..Len(t) : t[i] # head
  BY <1>1, <1>2, <1>10
<1>12. ASSUME NEW i \in 1..Len(t), NEW j \in 1..Len(t), t[i] = t[j]
       PROVE  i = j
  <2>1. \A k \in 2..(n + 1) : t[k] # new
    BY <1>1, <1>2
  <2>2. CASE i = 1 \/ j = 1
    BY <1>2, <1>10, <1>12, <2>1, <2>2
  <2>3. CASE i \in 2..(n + 1) /\ j \in 2..(n + 1)
    <3>1. s[i - 1] = s[j - 1] /\ i - 1 \in 1..n /\ j - 1 \in 1..n
      BY <1>2, <1>12, <2>3
    <3>2. i - 1 = j - 1
      BY <3>1 DEF Represents
    <3>3. QED
      BY <2>3, <3>2
  <2>4. QED
    BY <1>10, <2>2, <2>3
<1>13. QED
  BY <1>9, <1>11, <1>12 DEF Represents, g, t

(* list_add_tail() puts the entry at the end of the sequence               *)
(* (list.h:89-92), as schedule() of sched.c needs it.                      *)
THEOREM ListAddTailCorrect ==
  ASSUME NEW h \in Heap,
         NEW head \in Object, NEW s \in Seq(Object), NEW new \in Object,
         Represents(h, head, s),
         new # head, \A i \in 1..Len(s) : s[i] # new
  PROVE  Represents(list_add_tail(h, new, head), head, Append(s, new))
<1> DEFINE t == Append(s, new)
           g == list_add_tail(h, new, head)
           n == Len(s)
           last == At(head, s, n)
<1>1. /\ n \in Nat
      /\ At(head, s, 0) = head
      /\ \A i \in 1..n : At(head, s, i) = s[i] /\ s[i] \in Object /\ s[i] # head
      /\ \A i \in 0..n : At(head, s, i) \in Object /\ At(head, s, i) # new
      /\ \A i, j \in 0..n : At(head, s, i) = At(head, s, j) => i = j
  <2>1. \A i \in 0..n : At(head, s, i) # new
    BY DEF At
  <2>2. \A i \in 0..n : i \in 0..(n + 1)
    OBVIOUS
  <2>3. QED
    BY <2>1, <2>2, AtDistinct
<1>2. /\ Len(t) = n + 1
      /\ t[n + 1] = new
      /\ \A i \in 1..n : t[i] = s[i]
  BY AppendProperties
<1>3. /\ \A i \in 0..n : At(head, t, i) = At(head, s, i)
      /\ At(head, t, n + 1) = new /\ At(head, t, (n + 1) + 1) = head
  BY <1>1, <1>2 DEF At
<1>4. \A i \in 0..n : /\ h.next[At(head, s, i)] = At(head, s, i + 1)
                      /\ h.prev[At(head, s, i + 1)] = At(head, s, i)
  BY DEF Represents
<1>5. last \in Object /\ last # new /\ h.prev[head] = last
  <2>1. n \in 0..n /\ At(head, s, n + 1) = head
    BY <1>1 DEF At
  <2>2. QED
    BY <1>1, <1>4, <2>1
<1> HIDE DEF last
<1>6. g = ListAddBetween(h, new, last, head)
  BY <1>5 DEF list_add_tail
<1>7. /\ g.next[last] = new /\ g.next[new] = head
      /\ g.prev[head] = new /\ g.prev[new] = last
      /\ \A r \in Object : r # new /\ r # last => g.next[r] = h.next[r]
      /\ \A r \in Object : r # new /\ r # head => g.prev[r] = h.prev[r]
  BY <1>5, <1>6, AddBetweenEffect
<1> HIDE DEF g, t
<1>8. ASSUME NEW i \in 0..Len(t)
      PROVE  /\ g.next[At(head, t, i)] = At(head, t, i + 1)
             /\ g.prev[At(head, t, i + 1)] = At(head, t, i)
  <2>1. CASE i \in 0..(n - 1)
    <3>1. i \in 0..n /\ i + 1 \in 0..n /\ i + 1 \in 1..n /\ i # n /\ n \in 0..n
      BY <1>1, <2>1
    <3>2. At(head, s, i) # last
      BY <1>1, <3>1 DEF last
    <3>3. g.next[At(head, s, i)] = At(head, s, i + 1)
      BY <1>1, <1>4, <1>7, <3>1, <3>2
    <3>4. g.prev[At(head, s, i + 1)] = At(head, s, i)
      BY <1>1, <1>4, <1>7, <3>1
    <3>5. QED
      BY <1>3, <3>1, <3>3, <3>4
  <2>2. CASE i = n
    <3>1. n \in 0..n
      BY <1>1
    <3>2. QED
      BY <1>3, <1>7, <2>2, <3>1 DEF last
  <2>3. CASE i = n + 1
    BY <1>3, <1>7, <2>3
  <2>4. QED
    BY <1>1, <1>2, <2>1, <2>2, <2>3
<1>9. \A i \in 1..Len(t) : i \in 1..n \/ i = n + 1
  BY <1>1, <1>2
<1>10. \A i \in 1..Len(t) : t[i] # head
  BY <1>1, <1>2, <1>9
<1>11. \A i, j \in 1..n : s[i] = s[j] => i = j
  BY DEF Represents
<1>12. \A i, j \in 1..Len(t) : t[i] = t[j] => i = j
  BY <1>2, <1>9, <1>11
<1>13. QED
  BY <1>8, <1>10, <1>12 DEF Represents, g, t

(* list_del_init() of the first entry leaves the rest of the sequence, and *)
(* the entry alone (list.h:190-194), as schedule() of sched.c needs it.    *)
THEOREM ListDelInitFirstCorrect ==
  ASSUME NEW h \in Heap, NEW head \in Object, NEW s \in Seq(Object),
         s # <<>>, Represents(h, head, s)
  PROVE  Represents(list_del_init(h, Head(s)), head, Tail(s))
<1> DEFINE t == Tail(s)
           g == list_del_init(h, Head(s))
           n == Len(s)
           entry == s[1]
           second == At(head, s, 2)
<1>1. /\ n \in Nat /\ n >= 1
      /\ Head(s) = entry
      /\ Len(t) = n - 1
      /\ \A i \in 1..(n - 1) : t[i] = s[i + 1]
  BY EmptySeq, HeadTailProperties
<1>2. /\ At(head, s, 0) = head /\ At(head, s, n + 1) = head
      /\ \A i \in 1..n : At(head, s, i) = s[i] /\ s[i] \in Object /\ s[i] # head
      /\ \A i \in 0..(n + 1) : At(head, s, i) \in Object
      /\ \A i, j \in 1..(n + 1) : At(head, s, i) = At(head, s, j) => i = j
  BY AtDistinct
<1>3. \A i \in 0..n : /\ h.next[At(head, s, i)] = At(head, s, i + 1)
                      /\ h.prev[At(head, s, i + 1)] = At(head, s, i)
  BY DEF Represents
<1>4. /\ entry = At(head, s, 1) /\ entry \in Object /\ entry # head
      /\ second \in Object /\ second # entry
      /\ h.prev[entry] = head /\ h.next[entry] = second
  <2>1. /\ 1 \in 1..n /\ 0 \in 0..n /\ 1 \in 0..n /\ 2 \in 0..(n + 1)
        /\ 1 \in 1..(n + 1) /\ 2 \in 1..(n + 1) /\ 0 + 1 = 1 /\ 1 + 1 = 2 /\ 1 # 2
    BY <1>1
  <2>2. QED
    BY <1>2, <1>3, <2>1
<1>5. /\ g.next[head] = second /\ g.prev[second] = head
      /\ \A r \in Object : r # entry /\ r # head => g.next[r] = h.next[r]
      /\ \A r \in Object : r # entry /\ r # second => g.prev[r] = h.prev[r]
  BY <1>1, <1>4, DelInitEffect
<1>6. /\ At(head, t, 0) = head
      /\ \A i \in 1..n : At(head, t, i) = At(head, s, i + 1)
  BY <1>1 DEF At
<1> HIDE DEF g, t, second, entry
<1>7. ASSUME NEW i \in 0..Len(t)
      PROVE  /\ g.next[At(head, t, i)] = At(head, t, i + 1)
             /\ g.prev[At(head, t, i + 1)] = At(head, t, i)
  <2>1. CASE i = 0
    <3>1. 1 \in 1..n /\ 0 + 1 = 1 /\ 1 + 1 = 2
      BY <1>1
    <3>2. At(head, t, 1) = second
      BY <1>6, <3>1 DEF second
    <3>3. QED
      BY <1>5, <1>6, <2>1, <3>1, <3>2
  <2>2. CASE i \in 1..(n - 1)
    <3> DEFINE k == i + 1
    <3>1. /\ k \in 1..n /\ k \in 0..n /\ k \in 1..(n + 1) /\ k + 1 \in 1..(n + 1)
          /\ k + 1 \in 0..(n + 1) /\ 1 \in 1..(n + 1) /\ 2 \in 1..(n + 1)
          /\ k # 1 /\ k + 1 # 1 /\ k + 1 # 2 /\ i \in 1..n /\ i + 1 = k
      BY <1>1, <2>2
    <3> HIDE DEF k
    <3>2. At(head, t, i) = At(head, s, k) /\ At(head, t, i + 1) = At(head, s, k + 1)
      BY <1>6, <3>1
    <3>3. At(head, s, k) # entry /\ At(head, s, k) # head /\ At(head, s, k) \in Object
      BY <1>2, <1>4, <3>1
    <3>4. /\ At(head, s, k + 1) # entry /\ At(head, s, k + 1) # second
          /\ At(head, s, k + 1) \in Object
      BY <1>2, <1>4, <3>1 DEF second
    <3>5. QED
      BY <1>3, <1>5, <3>1, <3>2, <3>3, <3>4
  <2>3. QED
    BY <1>1, <2>1, <2>2
<1>8. ASSUME NEW i \in 1..Len(t)
      PROVE  i + 1 \in 1..n /\ t[i] = s[i + 1]
  BY <1>1
<1>9. \A i \in 1..Len(t) : t[i] # head
  BY <1>2, <1>8
<1>10. ASSUME NEW i \in 1..Len(t), NEW j \in 1..Len(t), t[i] = t[j]
       PROVE  i = j
  <2>1. s[i + 1] = s[j + 1]
    BY <1>8, <1>10
  <2>2. i + 1 = j + 1
    BY <1>8, <2>1 DEF Represents
  <2>3. QED
    BY <1>1, <2>2
<1>11. QED
  BY <1>7, <1>9, <1>10 DEF Represents, g, t

-----------------------------------------------------------------------------
LEMMA SameSchedule ==
  ASSUME NEW list, NEW st
  PROVE  A!Schedule(list, st) <=> Abstract!Schedule(list, st)
  BY DEF A!Schedule, Abstract!Schedule, A!BugBefore, Abstract!BugBefore, A!BugAfter,
         Abstract!BugAfter, A!Panic, Abstract!Panic, A!Requeue, Abstract!Requeue,
         A!PutToSleep, Abstract!PutToSleep, A!SwitchTo, Abstract!SwitchTo,
         A!TASK_RUNNING, Abstract!TASK_RUNNING, A!TASK_SLEEPING, Abstract!TASK_SLEEPING

LEMMA SameSteps ==
  /\ A!Yield <=> Abstract!Yield
  /\ A!Exit <=> Abstract!Exit
  /\ \A t : A!TaskRun(t) <=> Abstract!TaskRun(t)
  BY SameSchedule
     DEF A!Yield, Abstract!Yield, A!TaskRun, Abstract!TaskRun, A!Exit, Abstract!Exit,
         A!Listed, Abstract!Listed, A!TASK_SLEEPING, Abstract!TASK_SLEEPING,
         A!TASK_ZOMBIE, Abstract!TASK_ZOMBIE

LEMMA SameNext == A!Next <=> Abstract!Next
  BY SameSteps DEF A!Next, Abstract!Next

LEMMA SameInit == A!Init <=> Abstract!Init
  BY DEF A!Init, Abstract!Init, A!TASK_RUNNING, Abstract!TASK_RUNNING

-----------------------------------------------------------------------------
(* A call of schedule() by a task that runs, or has just become a zombie,  *)
(* while everybody on the list sleeps: the decision taken from the         *)
(* pointers is the one taken from the sequence, and the pointers follow.   *)
LEMMA ScheduleOnPointers ==
  ASSUME DistinctAddresses,
         NEW h \in Heap, NEW list \in Seq(Task), NEW st \in [Task -> A!TaskState],
         Represents(h, TASK_LIST, list),
         current \in Task, current \notin A!Listed(list),
         st[current] # Sleeping,
         \A t \in Task : st[t] = Sleeping <=> t \in A!Listed(list),
         Schedule(h, list, st)
  PROVE  /\ Abstract!Schedule(list, st)
         /\ heap' \in Heap
         /\ ListIntact'
<1> DEFINE next == list_first_entry_or_null(h, TASK_LIST)
<1>1. /\ TASK_LIST \in Object /\ Object \subseteq Object \cup {NULL}
      /\ list \in Seq(Object)
      /\ \A t \in Task : t \in Object /\ t # TASK_LIST /\ t # NULL
  BY DEF Object, DistinctAddresses
<1>2. CASE list = <<>>
  <2>1. Len(list) = 0
    BY <1>2, EmptySeq
  <2>2. h.next[TASK_LIST] = TASK_LIST
    BY <2>1 DEF Represents, At
  <2>3. next = NULL
    BY <2>2 DEF list_first_entry_or_null
  <2>4. heap' = h /\ task_list' = list /\ state' = st /\ UNCHANGED <<current, panicked>>
    BY <2>3 DEF Schedule
  <2>5. QED
    BY <1>2, <2>4 DEF Abstract!Schedule, ListIntact
<1>3. CASE list # <<>>
  <2>1. /\ Len(list) \in Nat \ {0}
        /\ \A i \in 1..Len(list) : list[i] \in Task
        /\ Head(list) = list[1] /\ DOMAIN list = 1..Len(list)
    BY <1>3, EmptySeq, LenProperties
  <2>2. h.next[TASK_LIST] = Head(list)
    <3>1. /\ 0 \in 0..Len(list) /\ 1 \in 1..Len(list) /\ 0 \notin 1..Len(list)
          /\ 0 + 1 = 1
      BY <2>1
    <3>2. At(TASK_LIST, list, 0) = TASK_LIST /\ At(TASK_LIST, list, 0 + 1) = list[1]
      BY <3>1 DEF At
    <3>3. h.next[At(TASK_LIST, list, 0)] = At(TASK_LIST, list, 0 + 1)
      BY <3>1 DEF Represents
    <3>4. QED
      BY <2>1, <3>2, <3>3
  <2>3. /\ Head(list) \in Task
        /\ Head(list) \in A!Listed(list)
    BY <2>1 DEF A!Listed
  <2>4. /\ next = Head(list)
        /\ next # NULL /\ next # current
        /\ st[next] = Sleeping
        /\ PutToSleep(st)[next] = Sleeping
    <3>1. next = Head(list) /\ next # NULL
      BY <1>1, <2>2, <2>3 DEF list_first_entry_or_null
    <3>2. next # current /\ st[next] = Sleeping
      BY <2>3, <3>1
    <3>3. PutToSleep(st)[next] = Sleeping
      BY <3>2 DEF PutToSleep
    <3>4. QED
      BY <3>1, <3>2, <3>3
  <2> HIDE DEF next
  <2>5. /\ state' = [PutToSleep(st) EXCEPT ![next] = Running]
        /\ heap' = Dequeue(Enqueue(h, st), next)
        /\ task_list' = Tail(Enqueued(list, st))
        /\ current' = next
        /\ UNCHANGED panicked
    BY <2>4 DEF Schedule, next
  <2>6. Abstract!Schedule(list, st)
    BY <1>3, <2>4, <2>5
       DEF Abstract!Schedule, Abstract!BugBefore, Abstract!BugAfter, Abstract!SwitchTo,
           Abstract!Requeue, Abstract!PutToSleep, PutToSleep, Enqueued, Running, Sleeping
  <2>7. /\ Enqueue(h, st) \in Heap
        /\ Enqueued(list, st) \in Seq(Object)
        /\ Enqueued(list, st) # <<>>
        /\ Head(Enqueued(list, st)) = next
        /\ Represents(Enqueue(h, st), TASK_LIST, Enqueued(list, st))
    <3>1. CASE st[current] = Running
      <4>1. \A i \in 1..Len(list) : list[i] # current
        BY <2>1 DEF A!Listed
      <4>2. current \in Object /\ current # TASK_LIST
        BY <1>1
      <4>3. Represents(list_add_tail(h, current, TASK_LIST), TASK_LIST, Append(list, current))
        BY <1>1, <4>1, <4>2, ListAddTailCorrect
      <4>4. list_add_tail(h, current, TASK_LIST) \in Heap
        BY <1>1, <4>2, HeapClosed
      <4>5. /\ Append(list, current) \in Seq(Object)
            /\ Append(list, current) # <<>>
            /\ Head(Append(list, current)) = next
        BY <1>1, <1>3, <2>4, <4>2, HeadTailAppend
      <4>6. /\ Enqueue(h, st) = list_add_tail(h, current, TASK_LIST)
            /\ Enqueued(list, st) = Append(list, current)
        BY <3>1 DEF Enqueue, Enqueued
      <4>7. QED
        BY <4>3, <4>4, <4>5, <4>6
    <3>2. CASE st[current] # Running
      BY <1>1, <1>3, <2>4, <3>2 DEF Enqueue, Enqueued
    <3>3. QED
      BY <3>1, <3>2
  <2>8. /\ list_del_init(Enqueue(h, st), next) \in Heap
        /\ Represents(list_del_init(Enqueue(h, st), next), TASK_LIST, Tail(Enqueued(list, st)))
    <3>1. next \in Object
      BY <1>1, <2>3, <2>4
    <3>2. list_del_init(Enqueue(h, st), next) \in Heap
      BY <1>1, <2>7, <3>1, HeapClosed
    <3>3. Represents(list_del_init(Enqueue(h, st), Head(Enqueued(list, st))), TASK_LIST,
                     Tail(Enqueued(list, st)))
      BY <1>1, <2>7, ListDelInitFirstCorrect
    <3>4. QED
      BY <2>7, <3>2, <3>3
  <2>9. QED
    BY <2>5, <2>6, <2>8 DEF ListIntact, Dequeue
<1>4. QED
  BY <1>2, <1>3

-----------------------------------------------------------------------------
(* The invariant: that of the scheduler on sequences, and the pointers     *)
(* hold the sequence.                                                      *)
PointerInv == /\ A!SchedInv
              /\ heap \in Heap
              /\ ListIntact

(* What the invariant says of the caller and of the list.                  *)
LEMMA InvFacts ==
  ASSUME A!SchedInv
  PROVE  /\ current \in Task /\ task_list \in Seq(Task) /\ state \in [Task -> A!TaskState]
         /\ state[current] = Running
         /\ current \notin A!Listed(task_list)
         /\ A!Distinct(task_list)
         /\ \A t \in Task : state[t] = Sleeping <=> t \in A!Listed(task_list)
         /\ Running \in A!TaskState /\ Sleeping \in A!TaskState
         /\ Abstract!TASK_ZOMBIE \in A!TaskState
         /\ Running # Sleeping /\ Abstract!TASK_ZOMBIE # Sleeping
  BY DEF A!SchedInv, A!TypeOK, A!NoLostTask, A!NoDuplicate, A!Distinct, A!TaskState,
         A!TASK_RUNNING, A!TASK_SLEEPING, A!TASK_ZOMBIE, Running, Sleeping,
         Abstract!TASK_RUNNING, Abstract!TASK_SLEEPING, Abstract!TASK_ZOMBIE

LEMMA YieldOnPointers ==
  ASSUME DistinctAddresses, PointerInv, Yield
  PROVE  Abstract!Yield /\ heap' \in Heap /\ ListIntact'
<1>1. ~panicked /\ Schedule(heap, task_list, state)
  BY DEF Yield
<1>2. heap \in Heap /\ Represents(heap, TASK_LIST, task_list)
  BY DEF PointerInv, ListIntact
<1>3. QED
  BY <1>1, <1>2, InvFacts, ScheduleOnPointers DEF PointerInv, Abstract!Yield

LEMMA ExitOnPointers ==
  ASSUME DistinctAddresses, PointerInv, Exit
  PROVE  Abstract!Exit /\ heap' \in Heap /\ ListIntact'
<1> DEFINE st == [state EXCEPT ![current] = Abstract!TASK_ZOMBIE]
<1>1. ~panicked /\ current # init_task /\ Schedule(heap, task_list, st)
  BY DEF Exit
<1>2. heap \in Heap /\ Represents(heap, TASK_LIST, task_list)
  BY DEF PointerInv, ListIntact
<1>3. /\ st \in [Task -> A!TaskState]
      /\ st[current] # Sleeping
      /\ \A t \in Task : st[t] = Sleeping <=> t \in A!Listed(task_list)
  BY InvFacts DEF PointerInv
<1> HIDE DEF st
<1>4. Abstract!Schedule(task_list, st) /\ heap' \in Heap /\ ListIntact'
  BY <1>1, <1>2, <1>3, InvFacts, ScheduleOnPointers DEF PointerInv
<1>5. QED
  BY <1>1, <1>4 DEF Abstract!Exit, st

LEMMA TaskRunOnPointers ==
  ASSUME DistinctAddresses, init_task \in Task, PointerInv, NEW t \in Task, TaskRun(t)
  PROVE  Abstract!TaskRun(t) /\ heap' \in Heap /\ ListIntact'
<1> DEFINE st == [state EXCEPT ![t] = Sleeping]
           list == <<t>> \o task_list
           h == list_add(heap, t, TASK_LIST)
<1>1. /\ ~panicked
      /\ t \notin Abstract!Listed(task_list) \cup {current, init_task}
      /\ Schedule(h, list, st)
  BY DEF TaskRun
<1>2. t # current /\ t \notin A!Listed(task_list)
  BY <1>1 DEF A!Listed, Abstract!Listed
<1>3. /\ task_list \in Seq(Object) /\ t \in Object /\ TASK_LIST \in Object /\ t # TASK_LIST
      /\ \A i \in 1..Len(task_list) : task_list[i] # t
  <2>1. task_list \in Seq(Task) /\ DOMAIN task_list = 1..Len(task_list)
    BY InvFacts, LenProperties DEF PointerInv
  <2>2. QED
    BY <1>2, <2>1 DEF Object, DistinctAddresses, A!Listed
<1>4. h \in Heap /\ Represents(h, TASK_LIST, list)
  <2>1. heap \in Heap /\ Represents(heap, TASK_LIST, task_list)
    BY DEF PointerInv, ListIntact
  <2>2. Represents(list_add(heap, t, TASK_LIST), TASK_LIST, list)
    BY <1>3, <2>1, ListAddCorrect
  <2>3. list_add(heap, t, TASK_LIST) \in Heap
    BY <1>3, <2>1, HeapClosed
  <2>4. QED
    BY <2>2, <2>3
<1>5. /\ list \in Seq(Task)
      /\ A!Listed(list) = A!Listed(task_list) \cup {t}
  BY InvFacts, A!PrependListed DEF PointerInv
<1>6. /\ st \in [Task -> A!TaskState]
      /\ st[current] # Sleeping
      /\ current \notin A!Listed(list)
      /\ \A u \in Task : st[u] = Sleeping <=> u \in A!Listed(list)
  BY <1>2, <1>5, InvFacts DEF PointerInv
<1> HIDE DEF st, list, h
<1>7. Abstract!Schedule(list, st) /\ heap' \in Heap /\ ListIntact'
  BY <1>1, <1>4, <1>5, <1>6, InvFacts, ScheduleOnPointers DEF PointerInv
<1>8. QED
  BY <1>1, <1>7 DEF Abstract!TaskRun, st, list, Sleeping

LEMMA StepOnPointers ==
  ASSUME DistinctAddresses, init_task \in Task, PointerInv, [Next]_vars
  PROVE  PointerInv' /\ [Abstract!Next]_(Abstract!vars)
<1>1. [Abstract!Next]_(Abstract!vars) /\ heap' \in Heap /\ ListIntact'
  <2>1. CASE Yield
    BY <2>1, YieldOnPointers DEF Abstract!Next
  <2>2. CASE Exit
    BY <2>2, ExitOnPointers DEF Abstract!Next
  <2>3. CASE \E t \in Task : TaskRun(t)
    BY <2>3, TaskRunOnPointers DEF Abstract!Next
  <2>4. CASE UNCHANGED vars
    BY <2>4 DEF PointerInv, ListIntact, vars, Abstract!vars
  <2>5. QED
    BY <2>1, <2>2, <2>3, <2>4 DEF Next
<1>2. [A!Next]_(A!vars)
  BY <1>1, SameNext DEF A!vars, Abstract!vars
<1>3. A!SchedInv'
  BY <1>2, A!NextPreserves DEF PointerInv
<1>4. QED
  BY <1>1, <1>3 DEF PointerInv

LEMMA InitOnPointers ==
  ASSUME DistinctAddresses, init_task \in Task, Init
  PROVE  PointerInv
<1>1. A!SchedInv
  BY SameInit, A!InitEstablishes DEF Init
<1>2. heap \in Heap /\ heap.next[TASK_LIST] = TASK_LIST /\ heap.prev[TASK_LIST] = TASK_LIST
  BY DEF Init, Heap, Object, Pointer, DistinctAddresses
<1>3. Len(task_list) = 0
  BY EmptySeq DEF Init, Abstract!Init
<1>4. ListIntact
  BY <1>2, <1>3 DEF ListIntact, Represents, At
<1>5. QED
  BY <1>1, <1>2, <1>4 DEF PointerInv

-----------------------------------------------------------------------------
(* Whatever tasks start, yield and end, the pointers of the task list hold *)
(* the tasks that were put on it, in order and in both directions          *)
(* (sched.c:42-150, list.h:58-92, 190-194).                                *)
THEOREM TaskListIntact ==
  ASSUME DistinctAddresses, init_task \in Task
  PROVE  Spec => []ListIntact
<1>1. Init => PointerInv
  BY InitOnPointers
<1>2. PointerInv /\ [Next]_vars => PointerInv'
  BY StepOnPointers
<1>3. PointerInv => ListIntact
  BY DEF PointerInv
<1>4. QED
  BY <1>1, <1>2, <1>3, PTL DEF Spec

(* The scheduler on pointers takes only steps of the scheduler on a        *)
(* sequence, so that what is proved of the one holds of the other: no      *)
(* BUG_ON() fires, no task is lost (sched.c:42-150).                       *)
THEOREM RefinesSched ==
  ASSUME DistinctAddresses, init_task \in Task
  PROVE  Spec => ImplementsSched
<1>1. Init => PointerInv /\ Abstract!Init
  BY InitOnPointers DEF Init
<1>2. PointerInv /\ [Next]_vars => PointerInv' /\ [Abstract!Next]_(Abstract!vars)
  BY StepOnPointers
<1>3. QED
  BY <1>1, <1>2, PTL DEF Spec, ImplementsSched, Abstract!Spec

-----------------------------------------------------------------------------
(* What a step does to the task that runs, to those that wait and to the   *)
(* zombies: all that the context switch depends on.                        *)
Waiting == Abstract!Listed(task_list)

Zombies == {t \in Task : state[t] = Abstract!TASK_ZOMBIE}

LEMMA WaitingFacts ==
  ASSUME PointerInv
  PROVE  current \in Task /\ Waiting \subseteq Task /\ current \notin Waiting
<1>1. Waiting = A!Listed(task_list)
  BY DEF Waiting, A!Listed, Abstract!Listed
<1>2. /\ current \in Task /\ current \notin A!Listed(task_list)
      /\ task_list \in Seq(Task)
  BY InvFacts DEF PointerInv
<1>3. QED
  BY <1>1, <1>2, LenProperties DEF A!Listed

LEMMA RunningIsNoZombie ==
  ASSUME PointerInv
  PROVE  Zombies \subseteq Task \ {current}
  BY InvFacts DEF PointerInv, Zombies, Running, Abstract!TASK_RUNNING, Abstract!TASK_ZOMBIE

(* One call of schedule(), in terms of sets.                               *)
LEMMA ScheduleMoves ==
  ASSUME init_task \in Task, A!SchedInv,
         NEW list \in Seq(Task), NEW st \in [Task -> A!TaskState],
         list # <<>>, A!Distinct(list), current \notin A!Listed(list),
         st[current] \in {Running, Abstract!TASK_ZOMBIE},
         \A t \in Task : st[t] = Sleeping <=> t \in A!Listed(list),
         Abstract!Schedule(list, st)
  PROVE  /\ current' = Head(list) /\ current' \in Task /\ current' # current
         /\ current' \in A!Listed(list)
         /\ A!Listed(task_list') = IF st[current] = Running
                                   THEN (A!Listed(list) \ {current'}) \cup {current}
                                   ELSE A!Listed(list) \ {current'}
         /\ \A t \in Task : state'[t] = Abstract!TASK_ZOMBIE => st[t] = Abstract!TASK_ZOMBIE
<1> USE DEF Running, Sleeping, A!TASK_RUNNING, A!TASK_SLEEPING, A!TASK_ZOMBIE,
            Abstract!TASK_RUNNING, Abstract!TASK_SLEEPING, Abstract!TASK_ZOMBIE
<1>1. A!Schedule(list, st) /\ current \in Task /\ panicked = FALSE
  BY SameSchedule DEF A!SchedInv, A!TypeOK, A!NoBug
<1>2. /\ current' = Head(list)
      /\ state' = [A!PutToSleep(st) EXCEPT ![Head(list)] = "running"]
      /\ current' \in Task
      /\ A!Listed(task_list') = IF st[current] = "running"
                                THEN (A!Listed(list) \ {Head(list)}) \cup {current}
                                ELSE A!Listed(list) \ {Head(list)}
  BY <1>1, A!ScheduleSwitches
<1>3. Head(list) \in A!Listed(list)
  BY A!TailListed
<1>4. /\ A!PutToSleep(st) \in [Task -> A!TaskState]
      /\ \A t \in Task : A!PutToSleep(st)[t] = "zombie" => st[t] = "zombie"
  BY <1>1 DEF A!PutToSleep, A!TaskState
<1>5. \A t \in Task : state'[t] = "zombie" => st[t] = "zombie"
  BY <1>2, <1>4
<1>6. QED
  BY <1>2, <1>3, <1>5

LEMMA YieldMoves ==
  ASSUME DistinctAddresses, init_task \in Task, PointerInv, Yield
  PROVE  /\ current' \in Task
         /\ Zombies' \subseteq Zombies
         /\ \/ current' = current /\ Waiting' = Waiting
            \/ /\ current' # current /\ current' \in Waiting
               /\ Waiting' = (Waiting \ {current'}) \cup {current}
<1>1. Abstract!Yield
  BY YieldOnPointers
<1>2. Waiting = A!Listed(task_list) /\ Waiting' = A!Listed(task_list')
  BY DEF Waiting, A!Listed, Abstract!Listed
<1>3. CASE task_list = <<>>
  <2>1. UNCHANGED <<current, task_list, state>>
    BY <1>1, <1>3 DEF Abstract!Yield, Abstract!Schedule
  <2>2. QED
    BY <1>2, <2>1, InvFacts DEF PointerInv, Zombies
<1>4. CASE task_list # <<>>
  <2>1. Abstract!Schedule(task_list, state)
    BY <1>1 DEF Abstract!Yield
  <2>2. /\ current' \in Task /\ current' # current
        /\ current' \in A!Listed(task_list)
        /\ A!Listed(task_list') = (A!Listed(task_list) \ {current'}) \cup {current}
        /\ \A t \in Task : state'[t] = Abstract!TASK_ZOMBIE => state[t] = Abstract!TASK_ZOMBIE
    BY <1>4, <2>1, InvFacts, ScheduleMoves DEF PointerInv
  <2>3. QED
    BY <1>2, <2>2 DEF Zombies
<1>5. QED
  BY <1>3, <1>4

LEMMA TaskRunMoves ==
  ASSUME DistinctAddresses, init_task \in Task, PointerInv, NEW t \in Task, TaskRun(t)
  PROVE  /\ t \notin Waiting \cup {current, init_task}
         /\ current' = t
         /\ Waiting' = Waiting \cup {current}
         /\ Zombies' \subseteq Zombies
<1> DEFINE list == <<t>> \o task_list
           st == [state EXCEPT ![t] = Sleeping]
<1>1. /\ t \notin Abstract!Listed(task_list) \cup {current, init_task}
      /\ Abstract!Schedule(list, st)
  BY TaskRunOnPointers DEF Abstract!TaskRun, Sleeping
<1>2. Waiting = A!Listed(task_list) /\ Waiting' = A!Listed(task_list')
      /\ Abstract!Listed(task_list) = A!Listed(task_list)
  BY DEF Waiting, A!Listed, Abstract!Listed
<1>3. /\ list \in Seq(Task) /\ list # <<>> /\ Head(list) = t
      /\ A!Listed(list) = A!Listed(task_list) \cup {t}
      /\ A!Distinct(list)
  BY <1>1, <1>2, InvFacts, A!PrependListed DEF PointerInv
<1>4. /\ st \in [Task -> A!TaskState]
      /\ st[current] = Running
      /\ current \notin A!Listed(list)
      /\ \A u \in Task : st[u] = Sleeping <=> u \in A!Listed(list)
      /\ \A u \in Task : st[u] = Abstract!TASK_ZOMBIE => state[u] = Abstract!TASK_ZOMBIE
  BY <1>1, <1>2, <1>3, InvFacts DEF PointerInv
<1> HIDE DEF list, st
<1>5. /\ current' = t
      /\ A!Listed(task_list') = (A!Listed(list) \ {current'}) \cup {current}
      /\ \A u \in Task : state'[u] = Abstract!TASK_ZOMBIE => st[u] = Abstract!TASK_ZOMBIE
  BY <1>1, <1>3, <1>4, ScheduleMoves DEF PointerInv
<1>6. QED
  BY <1>1, <1>2, <1>3, <1>4, <1>5 DEF Zombies

LEMMA ExitMoves ==
  ASSUME DistinctAddresses, init_task \in Task, PointerInv, Exit
  PROVE  /\ current' # current /\ current' \in Waiting
         /\ Waiting' = Waiting \ {current'}
         /\ Zombies' \subseteq Zombies \cup {current}
<1> DEFINE st == [state EXCEPT ![current] = Abstract!TASK_ZOMBIE]
<1>1. current # init_task /\ Abstract!Schedule(task_list, st)
  BY ExitOnPointers DEF Abstract!Exit
<1>2. Waiting = A!Listed(task_list) /\ Waiting' = A!Listed(task_list')
  BY DEF Waiting, A!Listed, Abstract!Listed
<1>3. task_list # <<>>
  BY <1>1 DEF PointerInv, A!SchedInv, A!Listed
<1>4. /\ st \in [Task -> A!TaskState]
      /\ st[current] = Abstract!TASK_ZOMBIE
      /\ \A u \in Task : st[u] = Sleeping <=> u \in A!Listed(task_list)
      /\ \A u \in Task : st[u] = Abstract!TASK_ZOMBIE =>
            state[u] = Abstract!TASK_ZOMBIE \/ u = current
  BY InvFacts DEF PointerInv
<1>5. Abstract!TASK_ZOMBIE # Running
  BY DEF Abstract!TASK_ZOMBIE, Running, Abstract!TASK_RUNNING
<1> HIDE DEF st
<1>6. /\ current' # current /\ current' \in A!Listed(task_list)
      /\ A!Listed(task_list') = A!Listed(task_list) \ {current'}
      /\ \A u \in Task : state'[u] = Abstract!TASK_ZOMBIE => st[u] = Abstract!TASK_ZOMBIE
  BY <1>1, <1>3, <1>4, <1>5, InvFacts, ScheduleMoves DEF PointerInv
<1>7. QED
  BY <1>2, <1>4, <1>6 DEF Zombies

=============================================================================
