---------------------------- MODULE SchedProofs ----------------------------
(***************************************************************************)
(* Proofs about the scheduler, for any set of tasks.                       *)
(***************************************************************************)
EXTENDS Sched, SequenceTheorems, TLAPS

USE DEF TASK_RUNNING, TASK_SLEEPING, TASK_ZOMBIE

(* A list that holds no task twice.                                        *)
Distinct(list) == \A i, j \in DOMAIN list : list[i] = list[j] => i = j

-----------------------------------------------------------------------------
(* Taking the first task off a list with no duplicates (list_del_init() in *)
(* schedule()) leaves exactly the others, with no duplicates.              *)
LEMMA TailListed ==
  ASSUME NEW list \in Seq(Task), list # <<>>, Distinct(list)
  PROVE  /\ Head(list) \in Task
         /\ Tail(list) \in Seq(Task)
         /\ Distinct(Tail(list))
         /\ Head(list) \in Listed(list)
         /\ Listed(Tail(list)) = Listed(list) \ {Head(list)}
<1>1. /\ Len(list) \in Nat \ {0}
      /\ list \in [1..Len(list) -> Task]
      /\ DOMAIN list = 1..Len(list)
      /\ Head(list) = list[1]
  BY EmptySeq, LenProperties
<1>2. /\ Tail(list) \in Seq(Task)
      /\ Len(Tail(list)) = Len(list) - 1
      /\ \A i \in 1..Len(Tail(list)) : Tail(list)[i] = list[i+1]
  BY HeadTailProperties
<1>3. DOMAIN Tail(list) = 1..(Len(list) - 1)
  BY <1>2, LenProperties
<1>4. Distinct(Tail(list))
  BY <1>1, <1>2, <1>3 DEF Distinct
<1>5. ASSUME NEW t \in Listed(Tail(list))
      PROVE  t \in Listed(list) \ {Head(list)}
  BY <1>1, <1>2, <1>3 DEF Distinct, Listed
<1>6. ASSUME NEW t \in Listed(list), t # Head(list)
      PROVE  t \in Listed(Tail(list))
  <2>1. PICK i \in 1..Len(list) : t = list[i]
    BY <1>1 DEF Listed
  <2>2. i # 1 /\ i - 1 \in 1..(Len(list) - 1)
    BY <1>1, <1>6, <2>1
  <2>3. Tail(list)[i - 1] = t
    BY <1>1, <1>2, <2>1, <2>2
  <2>4. QED
    BY <1>3, <2>2, <2>3 DEF Listed
<1>7. 1 \in DOMAIN list /\ list[1] \in Task
  BY <1>1
<1>8. Head(list) \in Listed(list) /\ Head(list) \in Task
  BY <1>1, <1>7 DEF Listed
<1>9. Listed(Tail(list)) = Listed(list) \ {Head(list)}
  BY <1>5, <1>6
<1>10. QED
  BY <1>2, <1>4, <1>8, <1>9

(* Adding a task at the tail (list_add_tail()).                            *)
LEMMA AppendListed ==
  ASSUME NEW list \in Seq(Task), NEW t \in Task
  PROVE  /\ Append(list, t) \in Seq(Task)
         /\ Append(list, t) # <<>>
         /\ Listed(Append(list, t)) = Listed(list) \cup {t}
         /\ list # <<>> => Head(Append(list, t)) = Head(list)
         /\ list # <<>> => Tail(Append(list, t)) = Append(Tail(list), t)
         /\ Distinct(list) /\ t \notin Listed(list) => Distinct(Append(list, t))
<1>1. /\ Append(list, t) \in Seq(Task)
      /\ Append(list, t) # <<>>
      /\ Len(Append(list, t)) = Len(list) + 1
      /\ \A i \in 1..Len(list) : Append(list, t)[i] = list[i]
      /\ Append(list, t)[Len(list) + 1] = t
  BY AppendProperties
<1>2. /\ Len(list) \in Nat
      /\ DOMAIN list = 1..Len(list)
      /\ DOMAIN Append(list, t) = 1..(Len(list) + 1)
  BY <1>1, LenProperties
<1>3. Listed(Append(list, t)) = Listed(list) \cup {t}
  BY <1>1, <1>2 DEF Listed
<1>4. list # <<>> => /\ Head(Append(list, t)) = Head(list)
                     /\ Tail(Append(list, t)) = Append(Tail(list), t)
  BY HeadTailAppend
<1>5. Distinct(list) /\ t \notin Listed(list) => Distinct(Append(list, t))
  BY <1>1, <1>2 DEF Distinct, Listed
<1>6. QED
  BY <1>1, <1>3, <1>4, <1>5

(* Adding a task at the head (list_add()).                                 *)
LEMMA PrependListed ==
  ASSUME NEW list \in Seq(Task), NEW t \in Task
  PROVE  /\ <<t>> \o list \in Seq(Task)
         /\ <<t>> \o list # <<>>
         /\ Head(<<t>> \o list) = t
         /\ Tail(<<t>> \o list) = list
         /\ Listed(<<t>> \o list) = Listed(list) \cup {t}
         /\ Distinct(list) /\ t \notin Listed(list) => Distinct(<<t>> \o list)
<1> DEFINE l == <<t>> \o list
<1>1. /\ <<t>> \in Seq(Task)
      /\ Len(<<t>>) = 1
      /\ <<t>>[1] = t
  OBVIOUS
<1>2. /\ l \in Seq(Task)
      /\ Len(l) = 1 + Len(list)
      /\ \A i \in 1..(1 + Len(list)) :
            l[i] = IF i <= 1 THEN <<t>>[i] ELSE list[i - 1]
  BY <1>1, ConcatProperties
<1>3. /\ Len(list) \in Nat
      /\ DOMAIN list = 1..Len(list)
      /\ DOMAIN l = 1..(1 + Len(list))
  BY <1>2, LenProperties
<1>4. /\ l[1] = t
      /\ \A i \in 1..Len(list) : l[i + 1] = list[i]
  BY <1>1, <1>2, <1>3
<1>5. l # <<>> /\ Head(l) = t
  BY <1>2, <1>3, <1>4, EmptySeq
<1>6. Tail(l) = list
  <2>1. /\ Tail(l) \in Seq(Task)
        /\ Len(Tail(l)) = Len(l) - 1
        /\ \A i \in 1..Len(Tail(l)) : Tail(l)[i] = l[i + 1]
    BY <1>2, <1>5, HeadTailProperties
  <2>2. Len(Tail(l)) = Len(list) /\ \A i \in 1..Len(Tail(l)) : Tail(l)[i] = list[i]
    BY <1>2, <1>3, <1>4, <2>1
  <2>3. QED
    BY <2>1, <2>2, SeqEqual
<1>7. Listed(l) = Listed(list) \cup {t}
  <2>1. ASSUME NEW u \in Listed(l) PROVE u \in Listed(list) \cup {t}
    BY <1>2, <1>3, <1>1 DEF Listed
  <2>2. t \in Listed(l)
    <3>1. 1 \in DOMAIN l
      BY <1>3
    <3>2. QED
      BY <1>4, <3>1 DEF Listed
  <2>3. ASSUME NEW u \in Listed(list) PROVE u \in Listed(l)
    <3>1. PICK i \in 1..Len(list) : u = list[i]
      BY <1>3 DEF Listed
    <3>2. i + 1 \in DOMAIN l /\ l[i + 1] = u
      BY <1>3, <1>4, <3>1
    <3>3. QED
      BY <3>2 DEF Listed
  <2>4. QED
    BY <2>1, <2>2, <2>3
<1>8. Distinct(list) /\ t \notin Listed(list) => Distinct(l)
  BY <1>1, <1>2, <1>3 DEF Distinct, Listed
<1>9. QED
  BY <1>2, <1>5, <1>6, <1>7, <1>8
-----------------------------------------------------------------------------
(* What a call of schedule() does when the caller runs, or has just become *)
(* a zombie, and everybody on the list sleeps: no BUG_ON() fires, the CPU  *)
(* goes to the head of the list, and the others keep their order.          *)
LEMMA ScheduleSwitches ==
  ASSUME NEW list \in Seq(Task), NEW st \in [Task -> TaskState],
         current \in Task, panicked = FALSE, list # <<>>,
         Distinct(list), current \notin Listed(list),
         st[current] \in {TASK_RUNNING, TASK_ZOMBIE},
         \A t \in Task : st[t] = TASK_SLEEPING <=> t \in Listed(list),
         Schedule(list, st)
  PROVE  /\ current' = Head(list)
         /\ task_list' = IF st[current] = TASK_RUNNING
                         THEN Append(Tail(list), current)
                         ELSE Tail(list)
         /\ state' = [PutToSleep(st) EXCEPT ![Head(list)] = TASK_RUNNING]
         /\ panicked' = FALSE
         /\ current' \in Task
         /\ task_list' \in Seq(Task)
         /\ state' \in [Task -> TaskState]
         /\ NoDuplicate'
         /\ NoLostTask'
         /\ state'[current'] = TASK_RUNNING
         /\ Listed(task_list') = IF st[current] = TASK_RUNNING
                                 THEN (Listed(list) \ {Head(list)}) \cup {current}
                                 ELSE Listed(list) \ {Head(list)}
<1> DEFINE next == Head(list)
<1>1. /\ next \in Task /\ next \in Listed(list) /\ next # current
      /\ Tail(list) \in Seq(Task)
      /\ Distinct(Tail(list))
      /\ Listed(Tail(list)) = Listed(list) \ {next}
  BY TailListed
<1>2. /\ PutToSleep(st) \in [Task -> TaskState]
      /\ \A t \in Task \ {current} : PutToSleep(st)[t] = st[t]
      /\ st[current] = TASK_RUNNING => PutToSleep(st)[current] = TASK_SLEEPING
      /\ st[current] = TASK_ZOMBIE => PutToSleep(st)[current] = TASK_ZOMBIE
  BY DEF PutToSleep, TaskState
<1>3. ~BugBefore(next, st) /\ ~BugAfter(next, st)
  BY <1>1, <1>2 DEF BugBefore, BugAfter
<1>4. SwitchTo(next, Requeue(list, st), PutToSleep(st))
  BY <1>3 DEF Schedule
<1>5. /\ current' = next
      /\ state' = [PutToSleep(st) EXCEPT ![next] = TASK_RUNNING]
      /\ task_list' = Tail(Requeue(list, st))
      /\ panicked' = FALSE
  BY <1>4 DEF SwitchTo
<1>6. task_list' = IF st[current] = TASK_RUNNING
                   THEN Append(Tail(list), current)
                   ELSE Tail(list)
  BY <1>5, AppendListed DEF Requeue
<1>7. /\ state' \in [Task -> TaskState]
      /\ state'[next] = TASK_RUNNING
      /\ \A t \in Task \ {next} : state'[t] = PutToSleep(st)[t]
  BY <1>1, <1>2, <1>5 DEF TaskState
<1>8. /\ task_list' \in Seq(Task)
      /\ Distinct(task_list')
      /\ Listed(task_list') = IF st[current] = TASK_RUNNING
                              THEN (Listed(list) \ {next}) \cup {current}
                              ELSE Listed(list) \ {next}
  <2>1. CASE st[current] = TASK_RUNNING
    <3>1. task_list' = Append(Tail(list), current)
      BY <1>6, <2>1
    <3>2. current \notin Listed(Tail(list))
      BY <1>1
    <3>3. /\ Append(Tail(list), current) \in Seq(Task)
          /\ Distinct(Append(Tail(list), current))
          /\ Listed(Append(Tail(list), current)) =
                Listed(Tail(list)) \cup {current}
      BY <1>1, <3>2, AppendListed
    <3>4. QED
      BY <1>1, <2>1, <3>1, <3>3
  <2>2. CASE st[current] # TASK_RUNNING
    BY <1>1, <1>6, <2>2
  <2>3. QED
    BY <2>1, <2>2
<1>9. NoDuplicate'
  BY <1>8 DEF NoDuplicate, Distinct
<1>10. ASSUME NEW t \in Task
       PROVE  state'[t] = TASK_SLEEPING <=> t \in Listed(task_list')
  <2>1. CASE t = next
    BY <1>1, <1>7, <1>8, <2>1
  <2>2. CASE t = current
    BY <1>1, <1>2, <1>7, <1>8, <2>2
  <2>3. CASE t # next /\ t # current
    BY <1>2, <1>7, <1>8, <2>3
  <2>4. QED
    BY <2>1, <2>2, <2>3
<1>11. NoLostTask'
  BY <1>10 DEF NoLostTask, Listed
<1>12. QED
  BY <1>1, <1>5, <1>6, <1>7, <1>8, <1>9, <1>11
-----------------------------------------------------------------------------
LEMMA InitEstablishes == Init => SchedInv
<1> SUFFICES ASSUME Init PROVE SchedInv
  OBVIOUS
<1>1. Listed(task_list) = {} /\ task_list \in Seq(Task)
  BY DEF Init, Listed
<1>2. TypeOK
  BY <1>1, InitTaskAssumption DEF Init, TypeOK, TaskState
<1>3. NoLostTask /\ NoDuplicate
  BY <1>1 DEF Init, NoLostTask, NoDuplicate
<1>4. QED
  BY <1>2, <1>3, InitTaskAssumption DEF Init, SchedInv, NoBug

(* Every step of a call of schedule(), task_run() or exit_point() keeps    *)
(* the invariant; the caller is never on the list, and the list is never   *)
(* empty when a thread ends, since init_task never does.                   *)
LEMMA YieldPreserves == SchedInv /\ Yield => SchedInv'
<1> SUFFICES ASSUME SchedInv, Yield PROVE SchedInv'
  OBVIOUS
<1>1. Distinct(task_list) /\ current \notin Listed(task_list)
  BY DEF SchedInv, NoDuplicate, NoLostTask, Distinct, TypeOK
<1>2. CASE task_list = <<>>
  <2>1. UNCHANGED vars
    BY <1>2 DEF Yield, Schedule, vars
  <2>2. QED
    BY <2>1 DEF SchedInv, TypeOK, NoBug, NoDuplicate, NoLostTask, Listed, vars
<1>3. CASE task_list # <<>>
  <2>1. /\ task_list \in Seq(Task) /\ state \in [Task -> TaskState]
        /\ current \in Task /\ panicked = FALSE
        /\ state[current] = TASK_RUNNING
        /\ \A t \in Task : state[t] = TASK_SLEEPING <=> t \in Listed(task_list)
        /\ Schedule(task_list, state)
    BY DEF SchedInv, TypeOK, NoBug, NoLostTask, Yield
  <2>2. /\ current' = Head(task_list)
        /\ current' \in Task /\ task_list' \in Seq(Task)
        /\ state' \in [Task -> TaskState] /\ panicked' = FALSE
        /\ NoDuplicate' /\ NoLostTask' /\ state'[current'] = TASK_RUNNING
        /\ Listed(task_list') = (Listed(task_list) \ {Head(task_list)}) \cup {current}
    BY <1>1, <1>3, <2>1, ScheduleSwitches
  <2>3. QED
    BY <2>2 DEF SchedInv, TypeOK, NoBug
<1>4. QED
  BY <1>2, <1>3

LEMMA TaskRunPreserves ==
  ASSUME NEW t \in Task, SchedInv, TaskRun(t)
  PROVE  SchedInv'
<1> DEFINE list == <<t>> \o task_list
           st == [state EXCEPT ![t] = TASK_SLEEPING]
<1>1. /\ task_list \in Seq(Task) /\ state \in [Task -> TaskState]
      /\ current \in Task /\ panicked = FALSE
      /\ t \notin Listed(task_list) /\ t # current /\ t # init_task
      /\ Distinct(task_list)
  BY DEF SchedInv, TypeOK, NoBug, NoDuplicate, Distinct, TaskRun
<1>2. /\ list \in Seq(Task) /\ list # <<>> /\ Head(list) = t
      /\ Listed(list) = Listed(task_list) \cup {t}
      /\ Distinct(list)
  BY <1>1, PrependListed
<1>3. /\ st \in [Task -> TaskState]
      /\ st[current] = TASK_RUNNING
      /\ current \notin Listed(list)
      /\ \A u \in Task : st[u] = TASK_SLEEPING <=> u \in Listed(list)
  BY <1>1, <1>2 DEF SchedInv, NoLostTask, TaskState
<1>4. Schedule(list, st)
  BY DEF TaskRun
<1> HIDE DEF list, st
<1>5. /\ current' = Head(list)
      /\ current' \in Task /\ task_list' \in Seq(Task)
      /\ state' \in [Task -> TaskState] /\ panicked' = FALSE
      /\ NoDuplicate' /\ NoLostTask' /\ state'[current'] = TASK_RUNNING
      /\ Listed(task_list') = (Listed(list) \ {Head(list)}) \cup {current}
  BY <1>1, <1>2, <1>3, <1>4, ScheduleSwitches
<1>6. current = init_task \/ init_task \in Listed(task_list)
  BY DEF SchedInv
<1>7. QED
  BY <1>1, <1>2, <1>5, <1>6 DEF SchedInv, TypeOK, NoBug

LEMMA ExitPreserves == SchedInv /\ Exit => SchedInv'
<1> SUFFICES ASSUME SchedInv, Exit PROVE SchedInv'
  OBVIOUS
<1> DEFINE st == [state EXCEPT ![current] = TASK_ZOMBIE]
<1>1. /\ task_list \in Seq(Task) /\ state \in [Task -> TaskState]
      /\ current \in Task /\ panicked = FALSE
      /\ current \notin Listed(task_list)
      /\ Distinct(task_list)
      /\ init_task \in Listed(task_list)
  BY DEF SchedInv, TypeOK, NoBug, NoDuplicate, NoLostTask, Distinct, Exit
<1>2. task_list # <<>>
  BY <1>1 DEF Listed
<1>3. /\ st \in [Task -> TaskState]
      /\ st[current] = TASK_ZOMBIE
      /\ \A u \in Task : st[u] = TASK_SLEEPING <=> u \in Listed(task_list)
  BY <1>1 DEF SchedInv, NoLostTask, TaskState
<1>4. Schedule(task_list, st)
  BY DEF Exit
<1> HIDE DEF st
<1>5. /\ current' = Head(task_list)
      /\ current' \in Task /\ task_list' \in Seq(Task)
      /\ state' \in [Task -> TaskState] /\ panicked' = FALSE
      /\ NoDuplicate' /\ NoLostTask' /\ state'[current'] = TASK_RUNNING
      /\ Listed(task_list') = Listed(task_list) \ {Head(task_list)}
  BY <1>1, <1>2, <1>3, <1>4, ScheduleSwitches
<1>6. QED
  BY <1>1, <1>5 DEF SchedInv, TypeOK, NoBug

LEMMA NextPreserves == SchedInv /\ [Next]_vars => SchedInv'
<1> SUFFICES ASSUME SchedInv, [Next]_vars PROVE SchedInv'
  OBVIOUS
<1>1. CASE Yield
  BY <1>1, YieldPreserves
<1>2. ASSUME NEW t \in Task, TaskRun(t) PROVE SchedInv'
  BY <1>2, TaskRunPreserves
<1>3. CASE Exit
  BY <1>3, ExitPreserves
<1>4. CASE UNCHANGED vars
  BY <1>4 DEF SchedInv, TypeOK, NoBug, NoDuplicate, NoLostTask, Listed, vars
<1>5. QED
  BY <1>1, <1>2, <1>3, <1>4 DEF Next

(* Whatever tasks the kernel has and in whatever order they start, yield,  *)
(* end and are started again, the scheduler keeps its invariant            *)
(* (sched.c:43-150).                                                       *)
THEOREM SchedInvariant == Spec => []SchedInv
<1>1. QED
  BY InitEstablishes, NextPreserves, PTL DEF Spec

(* Type correctness of the scheduler's state.                              *)
THEOREM TypeCorrect == Spec => []TypeOK
<1>1. SchedInv => TypeOK
  BY DEF SchedInv
<1>2. QED
  BY <1>1, SchedInvariant, PTL

(* No BUG_ON() of schedule() ever fires (sched.c:55-91).                   *)
THEOREM NoBugEver == Spec => []NoBug
<1>1. SchedInv => NoBug
  BY DEF SchedInv
<1>2. QED
  BY <1>1, SchedInvariant, PTL

(* No sleeping task ever falls off the list (sched.c:57-91, 136).          *)
THEOREM NoTaskLost == Spec => []NoLostTask
<1>1. SchedInv => NoLostTask
  BY DEF SchedInv
<1>2. QED
  BY <1>1, SchedInvariant, PTL

(* exit_point() never gets the CPU back (sched.c:98-108).                  *)
THEOREM ZombiesNeverRun == Spec => []ZombieNeverRuns
<1>1. SchedInv => ZombieNeverRuns
  BY DEF SchedInv, ZombieNeverRuns
<1>2. QED
  BY <1>1, SchedInvariant, PTL

-----------------------------------------------------------------------------
(* Every step of the scheduler is a step of cooperative round-robin: the   *)
(* task started last runs first, everybody else runs in the order they     *)
(* queued, and a thread that ends leaves the queue alone (sched.c:43-150). *)
THEOREM RefinesRoundRobin == Spec => ImplementsRoundRobin
<1>1. Init => RR!Init
  BY DEF Init, RR!Init
<1>2. ASSUME SchedInv, [Next]_vars PROVE [RR!Next]_(RR!vars)
  <2>1. /\ task_list \in Seq(Task) /\ state \in [Task -> TaskState]
        /\ current \in Task /\ panicked = FALSE
        /\ state[current] = TASK_RUNNING
        /\ current \notin Listed(task_list)
        /\ Distinct(task_list)
        /\ \A u \in Task : state[u] = TASK_SLEEPING <=> u \in Listed(task_list)
    BY <1>2 DEF SchedInv, TypeOK, NoBug, NoDuplicate, NoLostTask, Distinct
  <2>2. CASE Yield
    <3>1. CASE task_list = <<>>
      BY <2>2, <3>1 DEF Yield, Schedule, RR!vars
    <3>2. CASE task_list # <<>>
      <4>1. /\ current' = Head(task_list)
            /\ task_list' = Append(Tail(task_list), current)
        BY <2>1, <2>2, <3>2, ScheduleSwitches DEF Yield
      <4>2. QED
        BY <3>2, <4>1 DEF RR!Next, RR!Yield
    <3>3. QED
      BY <3>1, <3>2
  <2>3. ASSUME NEW t \in Task, TaskRun(t) PROVE RR!Next
    <3> DEFINE list == <<t>> \o task_list
               st == [state EXCEPT ![t] = TASK_SLEEPING]
    <3>1. t \notin Listed(task_list) /\ t # current /\ Schedule(list, st)
      BY <2>3 DEF TaskRun
    <3>2. /\ list \in Seq(Task) /\ list # <<>> /\ Head(list) = t
          /\ Tail(list) = task_list
          /\ Listed(list) = Listed(task_list) \cup {t}
          /\ Distinct(list)
      BY <2>1, <3>1, PrependListed
    <3>3. /\ st \in [Task -> TaskState]
          /\ st[current] = TASK_RUNNING
          /\ current \notin Listed(list)
          /\ \A u \in Task : st[u] = TASK_SLEEPING <=> u \in Listed(list)
      BY <2>1, <3>1, <3>2 DEF TaskState
    <3> HIDE DEF list, st
    <3>4. current' = Head(list) /\ task_list' = Append(Tail(list), current)
      BY <2>1, <3>1, <3>2, <3>3, ScheduleSwitches
    <3>5. RR!Spawn(t)
      BY <3>1, <3>2, <3>4 DEF RR!Spawn, RR!Waiting, Listed
    <3>6. QED
      BY <3>5 DEF RR!Next
  <2>4. CASE Exit
    <3> DEFINE st == [state EXCEPT ![current] = TASK_ZOMBIE]
    <3>1. /\ current # init_task /\ task_list # <<>> /\ Schedule(task_list, st)
      BY <1>2, <2>4 DEF Exit, SchedInv, Listed
    <3>2. /\ st \in [Task -> TaskState]
          /\ st[current] = TASK_ZOMBIE
          /\ \A u \in Task : st[u] = TASK_SLEEPING <=> u \in Listed(task_list)
      BY <2>1 DEF TaskState
    <3> HIDE DEF st
    <3>3. current' = Head(task_list) /\ task_list' = Tail(task_list)
      BY <2>1, <3>1, <3>2, ScheduleSwitches
    <3>4. QED
      BY <3>1, <3>3 DEF RR!Next, RR!Exit
  <2>5. CASE UNCHANGED vars
    BY <2>5 DEF vars, RR!vars
  <2>6. QED
    BY <1>2, <2>2, <2>3, <2>4, <2>5 DEF Next
<1>3. QED
  BY <1>1, <1>2, SchedInvariant, PTL DEF Spec, ImplementsRoundRobin, RR!Spec
=============================================================================
