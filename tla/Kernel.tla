------------------------------- MODULE Kernel -------------------------------
(***************************************************************************)
(* The kernel as it runs: init/main.c on top of the scheduler (module      *)
(* Sched) and of the interrupt machinery (module Irq).                     *)
(*                                                                         *)
(* main() starts the tasks one after the other and then becomes a worker   *)
(* like them.  A worker says hello, halts the CPU until the next interrupt *)
(* and calls schedule().  Nothing but the clock drives the rotation of the *)
(* threads, and nothing but the threads' own calls switches them.          *)
(***************************************************************************)
EXTENDS Integers, Sequences

CONSTANTS Task, init_task,
          TaskOrder,       \* the tasks, in the order main() starts them
          Device, MaxDepth

ASSUME KernelAssumption == /\ init_task \in Task
                           /\ TaskOrder \in Seq(Task \ {init_task})
                           /\ 0 \in Device
                           /\ Device \subseteq 0..15 \ {2}
                           /\ MaxDepth \in Nat

VARIABLES current, task_list, state, panicked,
          irq_mask, irq_handler, gate, spurious_irq_mask, boot,
          intr_flag, halted, frames, imr, irr, isr,
          pc,        \* what each thread does next
          started,   \* how many tasks main() has started
          round      \* history: the threads that have said hello since
                     \* somebody last did so for the second time

S == INSTANCE Sched
I == INSTANCE Irq WITH DriverLine <- {}, SpuriousLine <- {}

sched == <<current, task_list, state, panicked>>
irqs == <<irq_mask, irq_handler, gate, spurious_irq_mask, boot,
          intr_flag, halted, frames, imr, irr, isr>>
threads == <<sched, pc, started, round>>
vars == <<threads, irqs>>

-----------------------------------------------------------------------------
Init == /\ S!Init
        /\ I!Init
        /\ pc = [t \in Task |-> IF t = init_task THEN "main" ELSE "printk"]
        /\ started = 0
        /\ round = {}

At(label) == I!Thread /\ ~panicked /\ pc[current] = label

Goto(label) == pc' = [pc EXCEPT ![current] = label]

(* main() calls task_run() for the next task.                              *)
StartTask == /\ At("main")
             /\ started < Len(TaskOrder)
             /\ S!TaskRun(TaskOrder[started + 1])
             /\ started' = started + 1
             /\ UNCHANGED <<pc, round, irqs>>

(* When all of them run, main() enters its own loop.                       *)
EnterLoop == /\ At("main")
             /\ started = Len(TaskOrder)
             /\ Goto("printk")
             /\ UNCHANGED <<sched, started, round, irqs>>

(* worker(): printk("hello from pid ..."),                                 *)
SayHello == /\ At("printk")
            /\ round' = IF current \in round THEN {current} ELSE round \cup {current}
            /\ Goto("cpu_halt")
            /\ UNCHANGED <<sched, started, irqs>>

(* cpu_halt(), which goes on after the handler of the next interrupt,      *)
CpuHalt == /\ At("cpu_halt")
           /\ I!Halt
           /\ Goto("schedule")
           /\ UNCHANGED <<sched, started, round>>

(* Faulty variant: the worker goes round without giving up the CPU.        *)
CallScheduleForgotten == /\ At("schedule")
                         /\ Goto("printk")
                         /\ UNCHANGED <<sched, started, round, irqs>>

(* schedule(), and round again once the thread gets the CPU back.          *)
CallSchedule == /\ At("schedule")
                /\ S!Yield
                /\ Goto("printk")
                /\ UNCHANGED <<started, round, irqs>>

ThreadStep == StartTask \/ EnterLoop \/ SayHello \/ CpuHalt \/ CallSchedule

(* The rest of the machine goes on beside the threads: booting, devices    *)
(* and interrupt handlers, none of which touches the scheduler.            *)
Raise(n) == I!Raise(n) /\ UNCHANGED threads

Deliver == I!Deliver /\ UNCHANGED threads

HandlerStep(d) == I!HandlerStep /\ Len(frames) = d /\ UNCHANGED threads

Boot == I!Boot /\ UNCHANGED threads

Next == \/ ThreadStep
        \/ Boot
        \/ \E n \in Device : Raise(n)
        \/ Deliver
        \/ \E d \in 1..MaxDepth : HandlerStep(d)

(* The clock ticks and the CPU executes; handlers take far less than the   *)
(* 10 ms between two ticks, so interrupted code gets on.                   *)
Fairness == /\ WF_vars(Boot)
            /\ WF_vars(Raise(I!CLOCK_IRQ))
            /\ WF_vars(Deliver)
            /\ \A d \in 1..MaxDepth : SF_vars(HandlerStep(d))
            /\ SF_vars(ThreadStep)

Spec == Init /\ [][Next]_vars /\ Fairness

-----------------------------------------------------------------------------
Running == {TaskOrder[i] : i \in 1..started}

(* Every thread of main.c says hello again and again: the clock wakes each *)
(* hlt, each wake-up leads to a switch, and the switches serve everybody   *)
(* (main.c:15-20, 32-48).                                                  *)
EveryoneGreets == \A t \in Task :
                    []<>(current = t /\ pc[t] = "printk")

(* Nobody says hello twice before every task that has been started has     *)
(* said it once, not even while main() is still starting tasks             *)
(* (main.c:34-42, sched.c:57-94).                                          *)
InTurn == [][ pc[current] = "printk" /\ pc'[current] = "cpu_halt" /\ current \in round
                => Running \subseteq round ]_vars

(* The CPU halts only where an interrupt will wake it: interrupts are      *)
(* enabled, the clock is unmasked and no line is left in service           *)
(* (main.c:18, init.c:5-10).                                               *)
HaltIsSafe == halted => /\ intr_flag
                        /\ I!CLOCK_IRQ \notin imr
                        /\ isr = {}
                        /\ pc[current] = "schedule"
=============================================================================
