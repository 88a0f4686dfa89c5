---------------------------- MODULE KernelProofs ----------------------------
(***************************************************************************)
(* Proofs about the kernel as it runs, for any tasks that main() starts in *)
(* any order, any devices and any depth of nested interrupts.              *)
(***************************************************************************)
EXTENDS Kernel, SequenceTheorems, TLAPS

(* What is proved of the scheduler and of the interrupts.                  *)
SP == INSTANCE SchedProofs
IP == INSTANCE IrqProofs WITH DriverLine <- {}, SpuriousLine <- {}

-----------------------------------------------------------------------------
(* The instances have their own copies of the definitions, which are the   *)
(* same.                                                                   *)
LEMMA SameSched ==
  ASSUME NEW list, NEW st
  PROVE  SP!Schedule(list, st) <=> S!Schedule(list, st)
  BY DEF SP!Schedule, S!Schedule, SP!BugBefore, S!BugBefore, SP!BugAfter,
         S!BugAfter, SP!Panic, S!Panic, SP!Requeue, S!Requeue,
         SP!PutToSleep, S!PutToSleep, SP!SwitchTo, S!SwitchTo,
         SP!TASK_RUNNING, S!TASK_RUNNING, SP!TASK_SLEEPING, S!TASK_SLEEPING

LEMMA SameSchedSteps ==
  /\ SP!Init <=> S!Init
  /\ SP!Yield <=> S!Yield
  /\ \A t : SP!TaskRun(t) <=> S!TaskRun(t)
  BY SameSched DEF SP!Init, S!Init, SP!Yield, S!Yield, SP!TaskRun, S!TaskRun, SP!Listed, S!Listed,
                   SP!TASK_RUNNING, S!TASK_RUNNING, SP!TASK_SLEEPING, S!TASK_SLEEPING

USE DEF IP!IRQ_NR, IP!CLOCK_IRQ, IP!Line, IP!Master, IP!Slave, IP!Up, IP!IrqRestore,
        I!IRQ_NR, I!CLOCK_IRQ, I!Line, I!Master, I!Slave, I!Up, I!IrqRestore,
        IP!Top, I!Top, IP!Goto, I!Goto, IP!kernel, I!kernel, IP!pic, I!pic

LEMMA SameBoot ==
  /\ IP!Init <=> I!Init
  /\ IP!Boot <=> I!Boot
<1>1. IP!Init <=> I!Init
  BY DEF IP!Init, I!Init
<1>2. IP!ClockInit <=> I!ClockInit
  BY DEF IP!ClockInit, I!ClockInit, IP!Install, I!Install, IP!WriteMask, I!WriteMask, IP!Half, I!Half
<1>3. (IP!IdtInit <=> I!IdtInit) /\ (IP!IrqInit <=> I!IrqInit) /\ (IP!IrqEnable <=> I!IrqEnable)
  BY DEF IP!IdtInit, I!IdtInit, IP!IrqInit, I!IrqInit, IP!IrqEnable, I!IrqEnable
<1>4. QED
  BY <1>1, <1>2, <1>3 DEF IP!Boot, I!Boot

LEMMA SameDelivery ==
  /\ \A n : IP!Raise(n) <=> I!Raise(n)
  /\ IP!Deliver <=> I!Deliver
  /\ IP!Halt <=> I!Halt
<1>1. \A n : IP!Raise(n) <=> I!Raise(n)
  BY DEF IP!Raise, I!Raise
<1>2. IP!Halt <=> I!Halt
  BY DEF IP!Halt, I!Halt, IP!Thread, I!Thread
<1>3. IP!Deliver <=> I!Deliver
  BY DEF IP!Deliver, I!Deliver, IP!Requested, I!Requested, IP!Enter, I!Enter, IP!Rank, I!Rank
<1>4. QED
  BY <1>1, <1>2, <1>3

LEMMA SameHandlers == IP!HandlerStep <=> I!HandlerStep
<1>1. IP!MaskAndAck <=> I!MaskAndAck
  BY DEF IP!MaskAndAck, I!MaskAndAck, IP!IrqReal, I!IrqReal, IP!WriteMask, I!WriteMask,
         IP!Half, I!Half, IP!Ack, I!Ack, IP!EndHighest, I!EndHighest
<1>2. (IP!Dispatch <=> I!Dispatch) /\ (IP!DriverHandler <=> I!DriverHandler)
  BY DEF IP!Dispatch, I!Dispatch, IP!DriverHandler, I!DriverHandler
<1>3. (IP!ClockHandler <=> I!ClockHandler) /\ (IP!End <=> I!End)
  BY DEF IP!ClockHandler, I!ClockHandler, IP!End, I!End, IP!EndOfIrq, I!EndOfIrq,
         IP!WriteMask, I!WriteMask, IP!Half, I!Half
<1>4. (IP!Iret <=> I!Iret) /\ (IP!Panic <=> I!Panic)
  BY DEF IP!Iret, I!Iret, IP!Panic, I!Panic
<1>5. QED
  BY <1>1, <1>2, <1>3, <1>4 DEF IP!HandlerStep, I!HandlerStep

-----------------------------------------------------------------------------
(* The machine beside the threads: every step of the kernel is a step of   *)
(* the interrupt module, or leaves its variables alone.                    *)
LEMMA IrqSide ==
  ASSUME IP!IrqInv, [Next]_vars
  PROVE  IP!IrqInv'
<1>1. [IP!Next]_(IP!vars)
  <2>1. CASE Boot
    BY <2>1, SameBoot DEF Boot, IP!Next
  <2>2. CASE \E n \in Device : Raise(n)
    BY <2>2, SameDelivery DEF Raise, IP!Next
  <2>3. CASE Deliver
    BY <2>3, SameDelivery DEF Deliver, IP!Next
  <2>4. CASE \E d \in 1..MaxDepth : HandlerStep(d)
    BY <2>4, SameHandlers DEF HandlerStep, IP!Next
  <2>5. CASE CpuHalt
    BY <2>5, SameDelivery DEF CpuHalt, IP!Next
  <2>6. CASE UNCHANGED irqs
    BY <2>6 DEF irqs, IP!vars
  <2>7. QED
    BY <2>1, <2>2, <2>3, <2>4, <2>5, <2>6
       DEF Next, ThreadStep, StartTask, EnterLoop, SayHello, CallSchedule, vars
<1>2. QED
  BY <1>1, KernelAssumption, IP!NextKeeps

(* The places of main.c a thread can be at.                                *)
Label == {"main", "printk", "cpu_halt", "schedule"}

(* A halted CPU waits in the hlt of the running thread, outside interrupt  *)
(* handlers.                                                               *)
HaltInv == halted => I!Up /\ frames = <<>> /\ pc[current] = "schedule"

LEMMA HaltInvKeeps ==
  ASSUME pc \in [Task -> Label], current \in Task, HaltInv, [Next]_vars
  PROVE  HaltInv'
<1>1. CASE ThreadStep \/ UNCHANGED vars
  <2>1. CASE CpuHalt
    <3>1. /\ pc' = [pc EXCEPT ![current] = "schedule"] /\ current' = current
          /\ boot' = boot /\ frames' = frames
          /\ boot = "done" /\ frames = <<>>
      BY <2>1 DEF CpuHalt, Goto, sched, At, I!Thread, I!Halt
    <3>2. pc'[current] = "schedule"
      BY <3>1
    <3>3. QED
      BY <3>1, <3>2 DEF HaltInv
  <2>2. CASE StartTask \/ EnterLoop \/ SayHello \/ CallSchedule
    BY <2>2 DEF HaltInv, StartTask, EnterLoop, SayHello, CallSchedule, At, I!Thread, irqs
  <2>3. CASE UNCHANGED vars
    BY <2>3 DEF HaltInv, vars, threads, sched, irqs
  <2>4. QED
    BY <1>1, <2>1, <2>2, <2>3 DEF ThreadStep
<1>2. CASE Boot
  BY <1>2 DEF HaltInv, Boot, I!Boot, I!ClockInit, I!IdtInit, I!IrqInit, I!IrqEnable, I!Install,
              threads, sched
<1>3. CASE \E n \in Device : Raise(n)
  BY <1>3 DEF HaltInv, Raise, I!Raise, threads, sched
<1>4. CASE Deliver
  BY <1>4 DEF HaltInv, Deliver, I!Deliver, I!Enter
<1>5. CASE \E d \in 1..MaxDepth : HandlerStep(d)
  <2>1. frames # <<>> /\ halted' = halted
    BY <1>5 DEF HandlerStep, I!HandlerStep, I!MaskAndAck, I!Dispatch, I!ClockHandler,
                I!DriverHandler, I!End, I!EndOfIrq, I!Iret, I!Panic
  <2>2. QED
    BY <2>1 DEF HaltInv
<1>6. QED
  BY <1>1, <1>2, <1>3, <1>4, <1>5 DEF Next

-----------------------------------------------------------------------------
(* Whose turn it is.  main() and the tasks it has started are the threads  *)
(* that run or wait; those that wait are about to say hello, main()        *)
(* perhaps about to start the next task.                                   *)
ThreadInv == /\ SP!SchedInv
             /\ pc \in [Task -> Label]
             /\ \A t \in Task : pc[t] = "main" => t = init_task
             /\ \A t \in Task \ {current} : pc[t] \in {"main", "printk"}
             /\ started \in 0..Len(TaskOrder)
             /\ SP!Listed(task_list) \cup {current} = Running \cup {init_task}
             /\ round \subseteq Running \cup {init_task}

(* The threads that have said hello in this round wait behind those that   *)
(* have not.  main() may come in between while it is starting tasks.       *)
TurnInv ==
    /\ pc[current] \in {"cpu_halt", "schedule"} => current \in round
    /\ \A i, j \in 1..Len(task_list) : i < j /\ task_list[i] \in round
         => task_list[j] \in round \cup {init_task}
    /\ pc[current] \in {"main", "printk"} /\ current \in round
         => SP!Listed(task_list) \subseteq round \cup {init_task}

LEMMA ThreadFacts ==
  ASSUME SP!SchedInv
  PROVE  /\ current \in Task /\ init_task \in Task
         /\ task_list \in Seq(Task) /\ Len(task_list) \in Nat
         /\ DOMAIN task_list = 1..Len(task_list)
         /\ \A i \in 1..Len(task_list) : task_list[i] \in Task
         /\ current \notin SP!Listed(task_list)
         /\ SP!Distinct(task_list)
<1>1. /\ current \in Task /\ task_list \in Seq(Task)
      /\ current \notin SP!Listed(task_list)
      /\ SP!Distinct(task_list)
  BY DEF SP!SchedInv, SP!TypeOK, SP!NoLostTask, SP!NoDuplicate, SP!Distinct,
         SP!TASK_RUNNING, SP!TASK_SLEEPING
<1>2. QED
  BY <1>1, KernelAssumption, LenProperties

(* A call of schedule(): the first of the list runs, the caller goes to    *)
(* the tail.                                                               *)
LEMMA YieldRotates ==
  ASSUME SP!SchedInv, S!Yield
  PROVE  /\ SP!SchedInv'
         /\ task_list = <<>> => UNCHANGED <<current, task_list>>
         /\ task_list # <<>> => /\ current' = Head(task_list)
                                /\ task_list' = Append(Tail(task_list), current)
<1>1. SP!Yield
  BY SameSchedSteps
<1>2. SP!SchedInv'
  BY <1>1, KernelAssumption, SP!YieldPreserves
<1>3. CASE task_list = <<>>
  BY <1>1, <1>2, <1>3 DEF SP!Yield, SP!Schedule
<1>4. CASE task_list # <<>>
  <2>1. /\ state \in [Task -> SP!TaskState] /\ panicked = FALSE
        /\ state[current] = SP!TASK_RUNNING
        /\ \A t \in Task : state[t] = SP!TASK_SLEEPING <=> t \in SP!Listed(task_list)
        /\ SP!Schedule(task_list, state)
    BY <1>1 DEF SP!SchedInv, SP!TypeOK, SP!NoBug, SP!NoLostTask, SP!Yield
  <2>2. current' = Head(task_list) /\ task_list' = Append(Tail(task_list), current)
    BY <1>4, <2>1, ThreadFacts, KernelAssumption, SP!ScheduleSwitches
  <2>3. QED
    BY <1>2, <1>4, <2>2
<1>5. QED
  BY <1>3, <1>4

(* A call of task_run(): the new task runs, the caller goes to the tail.   *)
LEMMA TaskRunRotates ==
  ASSUME SP!SchedInv, NEW t \in Task, S!TaskRun(t)
  PROVE  /\ SP!SchedInv'
         /\ t \notin SP!Listed(task_list) \cup {current}
         /\ current' = t
         /\ task_list' = Append(task_list, current)
<1>1. SP!TaskRun(t)
  BY SameSchedSteps
<1>2. SP!SchedInv'
  BY <1>1, KernelAssumption, SP!TaskRunPreserves
<1> DEFINE list == <<t>> \o task_list
           st == [state EXCEPT ![t] = SP!TASK_SLEEPING]
<1>3. /\ t \notin SP!Listed(task_list) \cup {current}
      /\ SP!Schedule(list, st)
  BY <1>1 DEF SP!TaskRun
<1>4. /\ list \in Seq(Task) /\ list # <<>> /\ Head(list) = t /\ Tail(list) = task_list
      /\ SP!Listed(list) = SP!Listed(task_list) \cup {t}
      /\ SP!Distinct(list)
  BY <1>3, ThreadFacts, KernelAssumption, SP!PrependListed
<1>5. /\ st \in [Task -> SP!TaskState]
      /\ st[current] = SP!TASK_RUNNING
      /\ current \notin SP!Listed(list)
      /\ \A u \in Task : st[u] = SP!TASK_SLEEPING <=> u \in SP!Listed(list)
      /\ panicked = FALSE
  BY <1>3, <1>4, ThreadFacts DEF SP!SchedInv, SP!TypeOK, SP!NoBug, SP!NoLostTask, SP!TaskState
<1> HIDE DEF list, st
<1>6. current' = Head(list) /\ task_list' = Append(Tail(list), current)
  BY <1>3, <1>4, <1>5, ThreadFacts, KernelAssumption, SP!ScheduleSwitches
<1>7. QED
  BY <1>2, <1>3, <1>4, <1>6

-----------------------------------------------------------------------------
LEMMA StartTaskTurn ==
  ASSUME ThreadInv, TurnInv, StartTask
  PROVE  ThreadInv' /\ TurnInv'
<1> DEFINE t == TaskOrder[started + 1]
           n == Len(task_list)
<1>1. /\ started \in Nat /\ started + 1 \in 1..Len(TaskOrder)
      /\ t \in Task \ {init_task}
      /\ started' = started + 1
      /\ UNCHANGED <<pc, round>>
      /\ pc[current] = "main"
      /\ S!TaskRun(t)
  <2>1. Len(TaskOrder) \in Nat /\ \A i \in 1..Len(TaskOrder) : TaskOrder[i] \in Task \ {init_task}
    BY KernelAssumption, LenProperties
  <2>2. QED
    BY <2>1 DEF ThreadInv, StartTask, At
<1>2. current = init_task
  BY <1>1, ThreadFacts DEF ThreadInv
<1>3. /\ SP!SchedInv'
      /\ t \notin SP!Listed(task_list) \cup {current}
      /\ current' = t
      /\ task_list' = Append(task_list, current)
  BY <1>1, TaskRunRotates DEF ThreadInv
<1>4. Running' = Running \cup {t}
  <2>1. ASSUME NEW i \in 1..started + 1
        PROVE  TaskOrder[i] \in Running \cup {t}
    <3>1. i = started + 1 \/ i \in 1..started
      BY <1>1
    <3>2. QED
      BY <3>1 DEF Running
  <2>2. t \in Running' /\ Running \subseteq Running'
    BY <1>1 DEF Running
  <2>3. QED
    BY <1>1, <2>1, <2>2 DEF Running
<1>5. /\ n \in Nat
      /\ Len(task_list') = n + 1
      /\ task_list'[n + 1] = init_task
      /\ \A i \in 1..n : task_list'[i] = task_list[i]
      /\ SP!Listed(task_list') = SP!Listed(task_list) \cup {init_task}
  BY <1>2, <1>3, ThreadFacts, AppendProperties, KernelAssumption, SP!AppendListed DEF ThreadInv
<1>6. t \notin round
  BY <1>2, <1>3 DEF ThreadInv
<1>7. ThreadInv'
  <2>1. SP!Listed(task_list)' \cup {current'} = Running' \cup {init_task}
    BY <1>2, <1>3, <1>4, <1>5 DEF ThreadInv, SP!Listed
  <2>2. \A u \in Task \ {current'} : pc'[u] \in {"main", "printk"}
    BY <1>1, <1>2 DEF ThreadInv
  <2>3. round' \subseteq Running' \cup {init_task}
    BY <1>1, <1>4 DEF ThreadInv
  <2>4. started' \in 0..Len(TaskOrder)
    BY <1>1
  <2>5. QED
    BY <1>1, <1>3, <2>1, <2>2, <2>3, <2>4 DEF ThreadInv
<1>8. TurnInv'
  <2>1. pc'[current'] = "printk"
    BY <1>1, <1>3 DEF ThreadInv
  <2>2. ASSUME NEW i \in 1..n + 1, NEW j \in 1..n + 1, i < j, task_list'[i] \in round
        PROVE  task_list'[j] \in round \cup {init_task}
    <3>1. CASE j = n + 1
      BY <1>5, <3>1
    <3>2. CASE j # n + 1
      <4>1. i \in 1..n /\ j \in 1..n
        BY <1>5, <2>2, <3>2
      <4>2. QED
        BY <1>5, <2>2, <4>1 DEF TurnInv
    <3>3. QED
      BY <3>1, <3>2
  <2>3. current' \notin round'
    BY <1>1, <1>3, <1>6
  <2>4. QED
    BY <1>1, <1>5, <2>1, <2>2, <2>3 DEF TurnInv
<1>9. QED
  BY <1>7, <1>8

LEMMA EnterLoopTurn ==
  ASSUME ThreadInv, TurnInv, EnterLoop
  PROVE  ThreadInv' /\ TurnInv'
<1>1. /\ pc[current] = "main"
      /\ pc' = [pc EXCEPT ![current] = "printk"]
      /\ UNCHANGED <<current, task_list, state, panicked, started, round>>
  BY DEF EnterLoop, Goto, sched, At
<1>2. SP!SchedInv' /\ Running' = Running /\ SP!Listed(task_list)' = SP!Listed(task_list)
  BY <1>1 DEF ThreadInv, Running, SP!Listed, SP!SchedInv, SP!TypeOK, SP!NoBug, SP!NoDuplicate,
              SP!NoLostTask
<1>3. pc' \in [Task -> Label] /\ pc'[current] = "printk"
  BY <1>1, ThreadFacts DEF ThreadInv, Label
<1>4. ThreadInv'
  BY <1>1, <1>2, <1>3, ThreadFacts DEF ThreadInv
<1>5. TurnInv'
  BY <1>1, <1>2, <1>3 DEF TurnInv
<1>6. QED
  BY <1>4, <1>5

LEMMA SayHelloTurn ==
  ASSUME ThreadInv, TurnInv, SayHello
  PROVE  /\ ThreadInv' /\ TurnInv'
         /\ current \in round => Running \subseteq round
<1>1. /\ pc[current] = "printk"
      /\ pc' = [pc EXCEPT ![current] = "cpu_halt"]
      /\ round' = IF current \in round THEN {current} ELSE round \cup {current}
      /\ UNCHANGED <<current, task_list, state, panicked, started>>
  BY DEF SayHello, Goto, sched, At
<1>2. SP!SchedInv' /\ Running' = Running /\ SP!Listed(task_list)' = SP!Listed(task_list)
  BY <1>1 DEF ThreadInv, Running, SP!Listed, SP!SchedInv, SP!TypeOK, SP!NoBug, SP!NoDuplicate,
              SP!NoLostTask
<1>3. pc' \in [Task -> Label] /\ pc'[current] = "cpu_halt"
  BY <1>1, ThreadFacts DEF ThreadInv, Label
<1>4. current \in round' /\ round' \subseteq round \cup {current}
  BY <1>1
<1>5. ThreadInv'
  BY <1>1, <1>2, <1>3, <1>4, ThreadFacts DEF ThreadInv
<1>6. TurnInv'
  <2>1. ASSUME NEW i \in 1..Len(task_list), NEW j \in 1..Len(task_list), i < j,
               task_list[i] \in round'
        PROVE  task_list[j] \in round' \cup {init_task}
    <3>1. task_list[i] # current
      BY ThreadFacts DEF ThreadInv, SP!Listed
    <3>2. current \notin round /\ round' = round \cup {current}
      BY <1>1, <2>1, <3>1
    <3>3. QED
      BY <2>1, <3>1, <3>2 DEF TurnInv
  <2>2. QED
    BY <1>1, <1>3, <1>4, <2>1 DEF TurnInv
<1>7. ASSUME current \in round
      PROVE  Running \subseteq round
  <2>1. SP!Listed(task_list) \subseteq round \cup {init_task}
    BY <1>1, <1>7 DEF TurnInv
  <2>2. init_task \notin Running
    <3>1. Len(TaskOrder) \in Nat
          /\ \A i \in 1..Len(TaskOrder) : TaskOrder[i] \in Task \ {init_task}
      BY KernelAssumption, LenProperties
    <3>2. QED
      BY <3>1 DEF Running, ThreadInv
  <2>3. QED
    BY <1>7, <2>1, <2>2 DEF ThreadInv
<1>8. QED
  BY <1>5, <1>6, <1>7

LEMMA CpuHaltTurn ==
  ASSUME ThreadInv, TurnInv, CpuHalt
  PROVE  ThreadInv' /\ TurnInv'
<1>1. /\ pc[current] = "cpu_halt"
      /\ pc' = [pc EXCEPT ![current] = "schedule"]
      /\ UNCHANGED <<current, task_list, state, panicked, started, round>>
  BY DEF CpuHalt, Goto, sched, At
<1>2. SP!SchedInv' /\ Running' = Running /\ SP!Listed(task_list)' = SP!Listed(task_list)
  BY <1>1 DEF ThreadInv, Running, SP!Listed, SP!SchedInv, SP!TypeOK, SP!NoBug, SP!NoDuplicate,
              SP!NoLostTask
<1>3. pc' \in [Task -> Label] /\ pc'[current] = "schedule"
  BY <1>1, ThreadFacts DEF ThreadInv, Label
<1>4. ThreadInv'
  BY <1>1, <1>2, <1>3, ThreadFacts DEF ThreadInv
<1>5. TurnInv'
  BY <1>1, <1>2, <1>3 DEF TurnInv
<1>6. QED
  BY <1>4, <1>5

LEMMA CallScheduleTurn ==
  ASSUME ThreadInv, TurnInv, CallSchedule
  PROVE  ThreadInv' /\ TurnInv'
<1> DEFINE n == Len(task_list)
<1>1. /\ pc[current] = "schedule" /\ current \in round
      /\ pc' = [pc EXCEPT ![current] = "printk"]
      /\ UNCHANGED <<started, round>>
      /\ S!Yield
  BY DEF CallSchedule, Goto, At, TurnInv
<1>2. /\ SP!SchedInv'
      /\ Running' = Running
      /\ pc' \in [Task -> Label] /\ pc'[current] = "printk"
      /\ \A u \in Task \ {current} : pc'[u] = pc[u]
      /\ \A u \in Task : /\ pc'[u] \in {"main", "printk"}
                         /\ pc'[u] = "main" => u = init_task
  BY <1>1, YieldRotates, ThreadFacts DEF ThreadInv, Label, Running
<1>3. CASE task_list = <<>>
  <2>1. n = 0 /\ SP!Listed(task_list) = {} /\ UNCHANGED <<current, task_list>>
    BY <1>1, <1>3, YieldRotates, ThreadFacts, EmptySeq DEF ThreadInv, SP!Listed
  <2>2. ThreadInv'
    BY <1>1, <1>2, <2>1 DEF ThreadInv, SP!Listed
  <2>3. TurnInv'
    BY <1>1, <1>2, <2>1 DEF TurnInv, SP!Listed
  <2>4. QED
    BY <2>2, <2>3
<1>4. CASE task_list # <<>>
  <2>1. /\ current' = Head(task_list)
        /\ task_list' = Append(Tail(task_list), current)
    BY <1>1, <1>4, YieldRotates DEF ThreadInv
  <2>2. /\ n \in Nat \ {0}
        /\ Head(task_list) = task_list[1]
        /\ Tail(task_list) \in Seq(Task)
        /\ Len(Tail(task_list)) = n - 1
        /\ \A i \in 1..n - 1 : Tail(task_list)[i] = task_list[i + 1]
    BY <1>4, ThreadFacts, EmptySeq, HeadTailProperties DEF ThreadInv
  <2>3. /\ Len(task_list') = n
        /\ task_list'[n] = current
        /\ \A i \in 1..n - 1 : task_list'[i] = task_list[i + 1]
    <3>1. current \in Task /\ (n - 1) + 1 = n
      BY <2>2, ThreadFacts DEF ThreadInv
    <3>2. QED
      BY <2>1, <2>2, <3>1, AppendProperties
  <2>4. /\ current' \in SP!Listed(task_list)
        /\ SP!Listed(task_list') = (SP!Listed(task_list) \ {current'}) \cup {current}
    <3>1. /\ Head(task_list) \in SP!Listed(task_list)
          /\ SP!Listed(Tail(task_list)) = SP!Listed(task_list) \ {Head(task_list)}
      BY <1>4, ThreadFacts, KernelAssumption, SP!TailListed DEF ThreadInv
    <3>2. SP!Listed(Append(Tail(task_list), current)) = SP!Listed(Tail(task_list)) \cup {current}
      BY <2>2, ThreadFacts, KernelAssumption, SP!AppendListed DEF ThreadInv
    <3>3. QED
      BY <2>1, <3>1, <3>2
  <2>5. ThreadInv'
    <3>1. SP!Listed(task_list)' \cup {current'} = Running' \cup {init_task}
      BY <1>2, <2>4 DEF ThreadInv, SP!Listed
    <3>2. QED
      BY <1>1, <1>2, <3>1 DEF ThreadInv
  <2>6. TurnInv'
    <3>1. ASSUME NEW i \in 1..n, NEW j \in 1..n, i < j, task_list'[i] \in round
          PROVE  task_list'[j] \in round \cup {init_task}
      <4>1. CASE j = n
        BY <1>1, <2>3, <4>1
      <4>2. CASE j # n
        <5>1. i \in 1..n - 1 /\ j \in 1..n - 1 /\ i + 1 \in 1..n /\ j + 1 \in 1..n /\ i + 1 < j + 1
          <6>1. n \in Nat
            BY <2>2
          <6>2. QED
            BY <3>1, <4>2, <6>1
        <5>2. QED
          BY <2>3, <3>1, <5>1 DEF TurnInv
      <4>3. QED
        BY <4>1, <4>2
    <3>2. ASSUME current' \in round
          PROVE  SP!Listed(task_list') \subseteq round \cup {init_task}
      <4>1. ASSUME NEW j \in 1..n
            PROVE  task_list[j] \in round \cup {init_task}
        BY <2>1, <2>2, <3>2 DEF TurnInv
      <4>2. SP!Listed(task_list) \subseteq round \cup {init_task}
        BY <4>1, ThreadFacts DEF ThreadInv, SP!Listed
      <4>3. QED
        BY <1>1, <2>4, <4>2
    <3>3. pc'[current'] \in {"main", "printk"}
      BY <1>2, ThreadFacts, <2>1, <2>2 DEF ThreadInv
    <3>4. SP!Listed(task_list)' = SP!Listed(task_list')
      BY DEF SP!Listed
    <3>5. QED
      BY <1>1, <2>3, <3>1, <3>2, <3>3, <3>4 DEF TurnInv
  <2>7. QED
    BY <2>5, <2>6
<1>5. QED
  BY <1>3, <1>4

-----------------------------------------------------------------------------
KernelInv == IP!IrqInv /\ ThreadInv /\ TurnInv /\ HaltInv

LEMMA KernelStep ==
  ASSUME KernelInv, [Next]_vars
  PROVE  KernelInv'
<1>1. IP!IrqInv'
  BY IrqSide DEF KernelInv
<1>2. HaltInv'
  <2>1. pc \in [Task -> Label] /\ current \in Task
    BY ThreadFacts DEF KernelInv, ThreadInv
  <2>2. QED
    BY <2>1, HaltInvKeeps DEF KernelInv
<1>3. ThreadInv' /\ TurnInv'
  <2>1. CASE UNCHANGED threads
    <3>1. UNCHANGED <<current, task_list, state, panicked, pc, started, round>>
      BY <2>1 DEF threads, sched
    <3>2. SP!SchedInv' /\ Running' = Running /\ SP!Listed(task_list)' = SP!Listed(task_list)
      BY <3>1 DEF KernelInv, ThreadInv, Running, SP!Listed, SP!SchedInv, SP!TypeOK, SP!NoBug,
                  SP!NoDuplicate, SP!NoLostTask
    <3>3. ThreadInv'
      BY <3>1, <3>2 DEF KernelInv, ThreadInv
    <3>4. TurnInv'
      BY <3>1, <3>2 DEF KernelInv, TurnInv
    <3>5. QED
      BY <3>3, <3>4
  <2>2. CASE ThreadStep
    BY <2>2, StartTaskTurn, EnterLoopTurn, SayHelloTurn, CpuHaltTurn, CallScheduleTurn
       DEF KernelInv, ThreadStep
  <2>3. QED
    BY <2>1, <2>2 DEF Next, Boot, Raise, Deliver, HandlerStep, vars
<1>4. QED
  BY <1>1, <1>2, <1>3 DEF KernelInv

LEMMA KernelInit ==
  ASSUME Init
  PROVE  KernelInv
<1>1. IP!IrqInv
  BY SameBoot, KernelAssumption, IP!InitKeeps DEF Init
<1>2. SP!SchedInv
  BY SameSchedSteps, KernelAssumption, SP!InitEstablishes DEF Init
<1>3. /\ current = init_task /\ task_list = <<>> /\ Len(task_list) = 0
      /\ SP!Listed(task_list) = {} /\ Running = {}
  BY EmptySeq DEF Init, S!Init, SP!Listed, Running
<1>4. pc \in [Task -> Label] /\ pc = [t \in Task |-> IF t = init_task THEN "main" ELSE "printk"]
  BY DEF Init, Label
<1>5. started \in 0..Len(TaskOrder) /\ round = {}
  BY KernelAssumption, LenProperties DEF Init
<1>6. ThreadInv
  BY <1>2, <1>3, <1>4, <1>5 DEF ThreadInv
<1>7. TurnInv
  BY <1>3, <1>4, <1>5, KernelAssumption DEF TurnInv
<1>8. HaltInv
  BY DEF HaltInv, Init, I!Init
<1>9. QED
  BY <1>1, <1>6, <1>7, <1>8 DEF KernelInv

(* Whatever tasks main() starts and however interrupts nest, the CPU halts *)
(* only where the clock will wake it (main.c:18, init.c:5-10).             *)
THEOREM HaltAlwaysSafe == Spec => []HaltIsSafe
<1>1. Init => KernelInv
  BY KernelInit
<1>2. KernelInv /\ [Next]_vars => KernelInv'
  BY KernelStep
<1>3. KernelInv => HaltIsSafe
  <2>1. SUFFICES ASSUME KernelInv, halted
                 PROVE  /\ intr_flag /\ I!CLOCK_IRQ \notin imr /\ isr = {}
                        /\ pc[current] = "schedule"
    BY DEF HaltIsSafe
  <2>2. IP!Up /\ frames = <<>> /\ pc[current] = "schedule"
    BY <2>1 DEF KernelInv, HaltInv
  <2>3. isr = {} /\ \A n \in IP!Line : n \in irq_mask => ~IP!Handled(n)
    BY <2>1, <2>2, KernelAssumption, IP!ThreadFacts DEF KernelInv
  <2>4. IP!Handled(0) /\ 0 \in IP!Line /\ irq_mask = imr /\ intr_flag
    BY <2>1, <2>2 DEF KernelInv, IP!IrqInv, IP!ClockStays, IP!MaskWritten, IP!Handled,
                      IP!ThreadEnabled
  <2>5. QED
    BY <2>2, <2>3, <2>4
<1>4. QED
  BY <1>1, <1>2, <1>3, PTL DEF Spec

(* Nobody says hello twice before all the tasks started by then have said  *)
(* it once, for any number of tasks, while main() is still starting them   *)
(* too (main.c:34-42, sched.c:57-94).                                      *)
THEOREM GreetingsInTurn == Spec => InTurn
<1>1. Init => KernelInv
  BY KernelInit
<1>2. KernelInv /\ [Next]_vars => KernelInv'
  BY KernelStep
<1>3. KernelInv /\ [Next]_vars =>
        [pc[current] = "printk" /\ pc'[current] = "cpu_halt" /\ current \in round
           => Running \subseteq round]_vars
  <2>1. SUFFICES ASSUME KernelInv, Next, pc[current] = "printk", pc'[current] = "cpu_halt",
                        current \in round
                 PROVE  Running \subseteq round
    OBVIOUS
  <2>2. pc \in [Task -> Label] /\ current \in Task
    BY <2>1, ThreadFacts DEF KernelInv, ThreadInv
  <2>3. SayHello
    <3>1. pc' # pc
      BY <2>1
    <3>2. ThreadStep
      BY <2>1, <3>1 DEF Next, Boot, Raise, Deliver, HandlerStep, threads
    <3>3. ~StartTask /\ ~EnterLoop /\ ~CpuHalt /\ ~CallSchedule
      BY <2>1, <2>2 DEF StartTask, EnterLoop, CpuHalt, CallSchedule, At
    <3>4. QED
      BY <3>2, <3>3 DEF ThreadStep
  <2>4. QED
    BY <2>1, <2>3, SayHelloTurn DEF KernelInv
<1>4. QED
  BY <1>1, <1>2, <1>3, PTL DEF Spec, InTurn

=============================================================================
