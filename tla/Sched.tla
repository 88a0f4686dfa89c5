------------------------------- MODULE Sched -------------------------------
(***************************************************************************)
(* The scheduler, kernel/sched.c: the task list, the task states and the   *)
(* current task, as schedule(), task_run() and exit_point() change them.   *)
(*                                                                         *)
(* The kernel has one CPU and threads are never preempted, so a call of    *)
(* schedule() is one step: an interrupt may arrive in the middle of it,    *)
(* but no interrupt handler touches the variables of this module.          *)
(*                                                                         *)
(* The list is a sequence here; module ListRing shows that the pointer     *)
(* operations of include/list.h implement the operations on sequences.     *)
(* Stacks and registers are in module Switch.                              *)
(***************************************************************************)
EXTENDS Sequences

CONSTANTS Task,       \* the task structures of the kernel
          init_task   \* the one the kernel boots in, which runs main()

ASSUME InitTaskAssumption == init_task \in Task

VARIABLES current,    \* the task that has the CPU
          task_list,  \* the tasks waiting for it
          state,      \* task_struct.state of every task
          panicked    \* a BUG_ON() fired: panic() halts the CPU for good

vars == <<current, task_list, state, panicked>>

-----------------------------------------------------------------------------
TASK_RUNNING  == "running"
TASK_SLEEPING == "sleeping"
TASK_ZOMBIE   == "zombie"

TaskState == {TASK_RUNNING, TASK_SLEEPING, TASK_ZOMBIE}

Listed(list) == {list[i] : i \in DOMAIN list}

(* Static storage is zero, and 0 is TASK_RUNNING: a task that nobody has   *)
(* started yet is in that state too.                                       *)
Init == /\ current = init_task
        /\ task_list = <<>>
        /\ state = [t \in Task |-> TASK_RUNNING]
        /\ panicked = FALSE

-----------------------------------------------------------------------------
(* Faulty variants: the current task is put to sleep but not on the list;  *)
(* it is put right behind the next task, with list_add() instead of        *)
(* list_add_tail(); it is given a state nobody knows.                      *)
RequeueForgotten(list, st) == list

RequeueAtFront(list, st) == <<Head(list), current>> \o Tail(list)

PutToUnknownState(st) == [st EXCEPT ![current] = "stopped"]

(* A running task that gives up the CPU goes to sleep at the tail of the   *)
(* list; a zombie stays off the list.                                      *)
Requeue(list, st) == IF st[current] = TASK_RUNNING
                     THEN Append(list, current)
                     ELSE list

PutToSleep(st) == IF st[current] = TASK_RUNNING
                  THEN [st EXCEPT ![current] = TASK_SLEEPING]
                  ELSE st

(* The BUG_ON()s schedule() reaches before it has changed anything, and    *)
(* the ones it reaches after it has put the current task to sleep.         *)
BugBefore(next, st) == next = current \/ st[current] = TASK_SLEEPING

BugAfter(next, st) == PutToSleep(st)[next] # TASK_SLEEPING

(* A panic leaves the list and the states as they are at that point.       *)
Panic(list, st) == /\ panicked' = TRUE
                   /\ task_list' = list
                   /\ state' = st
                   /\ UNCHANGED current

(* Faulty variants: the next task stays on the list; it keeps sleeping.    *)
SwitchToStillListed(next, list, st) ==
    /\ current' = next
    /\ state' = [st EXCEPT ![next] = TASK_RUNNING]
    /\ task_list' = list
    /\ UNCHANGED panicked

SwitchToStillSleeping(next, list, st) ==
    /\ current' = next
    /\ state' = st
    /\ task_list' = Tail(list)
    /\ UNCHANGED panicked

(* The next task wakes up: list_del_init() takes it off the front.         *)
SwitchTo(next, list, st) == /\ current' = next
                            /\ state' = [st EXCEPT ![next] = TASK_RUNNING]
                            /\ task_list' = Tail(list)
                            /\ UNCHANGED panicked

(* schedule(), called with the list and the states as the caller has left  *)
(* them.  With nobody on the list it returns to its caller.                *)
Schedule(list, st) ==
    IF list = <<>>
    THEN /\ task_list' = list
         /\ state' = st
         /\ UNCHANGED <<current, panicked>>
    ELSE LET next == Head(list)
         IN IF BugBefore(next, st)
            THEN Panic(list, st)
            ELSE IF BugAfter(next, st)
                 THEN Panic(Requeue(list, st), PutToSleep(st))
                 ELSE SwitchTo(next, Requeue(list, st), PutToSleep(st))

-----------------------------------------------------------------------------
(* The running thread calls schedule().                                    *)
Yield == /\ ~panicked
         /\ Schedule(task_list, state)

(* Faulty variant: task_init() queues the new task behind the others.      *)
TaskRunAtTail(t) == /\ ~panicked
                    /\ t \notin Listed(task_list) \cup {current, init_task}
                    /\ Schedule(Append(task_list, t),
                                [state EXCEPT ![t] = TASK_SLEEPING])

(* The running thread calls task_run(t).  task_init() puts the task at the *)
(* head of the list, so that it is the one schedule() picks.  Callers hand *)
(* over a task that is neither running nor on the list: one that is new,   *)
(* or a zombie.                                                            *)
TaskRun(t) == /\ ~panicked
              /\ t \notin Listed(task_list) \cup {current, init_task}
              /\ Schedule(<<t>> \o task_list,
                          [state EXCEPT ![t] = TASK_SLEEPING])

(* Faulty variant: main() ends like any other thread.                      *)
ExitOfAnyTask == /\ ~panicked
                 /\ Schedule(task_list, [state EXCEPT ![current] = TASK_ZOMBIE])

(* The entry function of the running thread returns into exit_point().     *)
(* main(), which init_task runs, loops for ever.                           *)
Exit == /\ ~panicked
        /\ current # init_task
        /\ Schedule(task_list, [state EXCEPT ![current] = TASK_ZOMBIE])

Next == \/ Yield
        \/ \E t \in Task : TaskRun(t)
        \/ Exit

Spec == Init /\ [][Next]_vars

(* Preemption is voluntary: a thread that has the CPU sooner or later      *)
(* gives it up.                                                            *)
FairSpec == Spec /\ WF_vars(Next)

-----------------------------------------------------------------------------
(* Type invariant.                                                         *)
TypeOK == /\ current \in Task
          /\ task_list \in Seq(Task)
          /\ state \in [Task -> TaskState]
          /\ panicked \in BOOLEAN

(* No BUG_ON() of schedule() ever fires (sched.c:55, 66, 70, 77, 85, 89):  *)
(* whatever threads come, go and come back, schedule() finds the states it *)
(* expects.                                                                *)
NoBug == ~panicked

(* A task that sleeps is on the list, and only such tasks are: a task that *)
(* slept off the list would never run again (sched.c:57-91).               *)
NoLostTask == \A t \in Task :
                state[t] = TASK_SLEEPING <=> t \in Listed(task_list)

(* No task is on the list twice, which would let list_del_init() cut the   *)
(* list short (sched.c:61, 81, 137).                                       *)
NoDuplicate == \A i, j \in DOMAIN task_list :
                 task_list[i] = task_list[j] => i = j

(* The schedule() call of exit_point() never returns: a thread that has    *)
(* ended is never left on the CPU.  exit_point() has no caller to return   *)
(* to (sched.c:98-108, 113).                                               *)
ZombieNeverRuns == state[current] # TASK_ZOMBIE

(* The detailed scheduler implements the abstract one.                     *)
RR == INSTANCE RoundRobin WITH Thread <- Task, Root <- init_task,
                               runner <- current, queue <- task_list

ImplementsRoundRobin == RR!Spec

(* A task on the list gets the CPU sooner or later, however many tasks are *)
(* started, end and are started again meanwhile.                           *)
NoStarvation == \A t \in Task : t \in Listed(task_list) ~> current = t

-----------------------------------------------------------------------------
(* The inductive invariant behind NoBug and the others: the tasks split    *)
(* into the current one, the sleepers on the list and those that are       *)
(* neither, and init_task is never among the last.                         *)
SchedInv == /\ TypeOK
            /\ NoBug
            /\ NoDuplicate
            /\ NoLostTask
            /\ state[current] = TASK_RUNNING
            /\ current = init_task \/ init_task \in Listed(task_list)
=============================================================================
