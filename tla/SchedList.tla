----------------------------- MODULE SchedList -----------------------------
(***************************************************************************)
(* The scheduler on the pointers of its task list: kernel/sched.c with the *)
(* functions of include/list.h it calls.  Every decision of schedule() is  *)
(* taken from the pointers; the sequence task_list only records what the   *)
(* calls were meant to do, and is what module Sched works on.              *)
(*                                                                         *)
(* A task stands for the address of its list_head as well.                 *)
(***************************************************************************)
EXTENDS List

CONSTANTS Task, init_task

TASK_LIST == "task_list"   \* the head of the list

(* The head is no task's list_head, and neither is the null pointer.       *)
DistinctAddresses == Task \cap {TASK_LIST, NULL} = {}

VARIABLES current, heap, state, panicked,
          task_list    \* history: the tasks put on the list, in order

vars == <<current, heap, state, panicked, task_list>>

Abstract == INSTANCE Sched

-----------------------------------------------------------------------------
(* LIST_HEAD() makes the head point to itself; the tasks are zero.         *)
Init == /\ Abstract!Init
        /\ heap = [next |-> [p \in Task \cup {TASK_LIST} |->
                               IF p = TASK_LIST THEN TASK_LIST ELSE NULL],
                   prev |-> [p \in Task \cup {TASK_LIST} |->
                               IF p = TASK_LIST THEN TASK_LIST ELSE NULL]]

Panic(h, list, st) == /\ panicked' = TRUE
                      /\ heap' = h
                      /\ task_list' = list
                      /\ state' = st
                      /\ UNCHANGED current

(* The first switch statement: a running task goes to sleep at the tail.   *)
Running == Abstract!TASK_RUNNING
Sleeping == Abstract!TASK_SLEEPING

PutToSleep(st) == IF st[current] = Running
                  THEN [st EXCEPT ![current] = Sleeping] ELSE st

(* Faulty variant: list_add() for list_add_tail().                         *)
EnqueueInFront(h, st) == IF st[current] = Running
                         THEN list_add(h, current, TASK_LIST) ELSE h

Enqueue(h, st) == IF st[current] = Running
                  THEN list_add_tail(h, current, TASK_LIST) ELSE h

Enqueued(list, st) == IF st[current] = Running THEN Append(list, current) ELSE list

(* Faulty variant: the task is unlinked by its own pointers only.          *)
DequeueHalf(h, next) == INIT_LIST_HEAD(h, next)

(* The task that runs next leaves the list.                                *)
Dequeue(h, next) == list_del_init(h, next)

(* schedule(), called with the list and the states as the caller has left  *)
(* them.                                                                   *)
Schedule(h, list, st) ==
    LET next == list_first_entry_or_null(h, TASK_LIST)
    IN IF next = NULL
       THEN /\ heap' = h
            /\ task_list' = list
            /\ state' = st
            /\ UNCHANGED <<current, panicked>>
       ELSE IF next = current \/ st[current] = Sleeping
       THEN Panic(h, list, st)
       ELSE IF PutToSleep(st)[next] # Sleeping
       THEN Panic(Enqueue(h, st), Enqueued(list, st), PutToSleep(st))
       ELSE /\ state' = [PutToSleep(st) EXCEPT ![next] = Running]
            /\ heap' = Dequeue(Enqueue(h, st), next)
            /\ task_list' = Tail(Enqueued(list, st))
            /\ current' = next
            /\ UNCHANGED panicked

Yield == ~panicked /\ Schedule(heap, task_list, state)

(* task_run(t) of a task that is neither running nor listed.               *)
TaskRun(t) == /\ ~panicked
              /\ t \notin Abstract!Listed(task_list) \cup {current, init_task}
              /\ Schedule(list_add(heap, t, TASK_LIST), <<t>> \o task_list,
                          [state EXCEPT ![t] = Sleeping])

(* exit_point().                                                           *)
Exit == /\ ~panicked
        /\ current # init_task
        /\ Schedule(heap, task_list, [state EXCEPT ![current] = Abstract!TASK_ZOMBIE])

Next == Yield \/ Exit \/ \E t \in Task : TaskRun(t)

Spec == Init /\ [][Next]_vars

-----------------------------------------------------------------------------
(* Type invariant.                                                         *)
TypeOK == /\ Abstract!TypeOK
          /\ heap.next \in [Task \cup {TASK_LIST} -> Task \cup {TASK_LIST, NULL}]
          /\ heap.prev \in [Task \cup {TASK_LIST} -> Task \cup {TASK_LIST, NULL}]

(* The pointers and the sequence tell the same story, in both directions.  *)
ListIntact == Represents(heap, TASK_LIST, task_list)

(* The scheduler on pointers does what module Sched says (sched.c:42-150,  *)
(* list.h:58-92, 190-194).                                                 *)
ImplementsSched == Abstract!Spec
=============================================================================
