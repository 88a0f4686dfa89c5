------------------------------- MODULE Switch -------------------------------
(***************************************************************************)
(* Kernel threads on the machine: the stacks and the registers, as         *)
(* switch_to(), stack_init() and exit_point() of kernel/sched.c and the    *)
(* interrupt stub of kernel/irq.S handle them.  The task list, with its    *)
(* pointers, and the task states are those of module SchedList, and every  *)
(* call of the scheduler here takes the step of SchedList it stands for.   *)
(*                                                                         *)
(* A word of memory, or a register, is a triple <<tag, n, task>>: what the *)
(* word is and whose it is.  A stack is the sequence of its words, the     *)
(* deepest first; a stack pointer names a stack and a depth.               *)
(***************************************************************************)
EXTENDS Integers, Sequences, FiniteSets

CONSTANTS Task, init_task,
          MaxFrames,    \* bound on nested calls inside a thread
          MaxNested,    \* bound on interrupts being handled at a time
          MaxValue      \* the values a thread computes and returns

ASSUME SwitchAssumption == /\ init_task \in Task
                           /\ MaxFrames \in Nat
                           /\ MaxNested \in Nat
                           /\ MaxValue \in Nat \ {0}

VARIABLES current, heap, task_list, state, panicked,   \* of module SchedList
          stack,   \* the words on each task's stack
          sp,      \* task_struct.sp: the saved stack pointer
          ret,     \* task_struct.ret: the return code
          esp, regs, pc,   \* the CPU
          \* History: the values each thread has in the registers a call
          \* preserves, its open calls, the value its entry returned.
          ctx, frames, returned

sched == <<current, heap, task_list, state, panicked>>
machine == <<stack, sp, ret, esp, regs, pc>>
history == <<ctx, frames, returned>>
vars == <<sched, machine, history>>

S == INSTANCE SchedList

ASSUME AddressAssumption == S!DistinctAddresses

-----------------------------------------------------------------------------
(* The C calling convention: a call may change the other registers.        *)
CalleeSaved == {"ebx", "ebp", "esi", "edi"}

Reg == CalleeSaved \cup {"eax", "ecx", "edx"}

PushOrder == <<"eax", "ecx", "edx", "ebx", "ebp", "esi", "edi">>

(* Faulty variant: two registers come back in each other's place.          *)
PopOrderSwapped == <<"edi", "esi", "ebx", "ebp", "edx", "ecx", "eax">>

PopOrder == <<"edi", "esi", "ebp", "ebx", "edx", "ecx", "eax">>

Zero == <<"value", 0, init_task>>
Garbage == <<"garbage", 0, init_task>>
ExitPointAddr == <<"exit_point", 0, init_task>>
AfterExit == <<"after_exit", 0, init_task>>
Isr == <<"default_irq_handler", 0, init_task>>
IrqNumber == <<"irq", 0, init_task>>
EFlags == <<"eflags", 0, init_task>>
Segment == <<"segment", 0, init_task>>
Entry(t) == <<"entry", 0, t>>
Code(t) == <<"code", 0, t>>

Top(s) == [of |-> s, depth |-> 0]

(* Reading below the bottom of a stack finds whatever is there.            *)
WordAt(mem, p, i) == IF p.depth - i \in DOMAIN mem[p.of]
                     THEN mem[p.of][p.depth - i]
                     ELSE Garbage

Up(p, n) == [p EXCEPT !.depth = @ + n]

PushAll(mem, p, words) ==
    [mem EXCEPT ![p.of] = SubSeq(@, 1, p.depth) \o words]

(* What is beyond the stack pointer is lost: an interrupt may overwrite it *)
(* at any moment.                                                          *)
Forget(mem, p) == [mem EXCEPT ![p.of] = SubSeq(@, 1, p.depth)]

PushRegs(mem, p, r) == PushAll(mem, p, [i \in 1..7 |-> r[PushOrder[i]]])

PopRegs(mem, p) ==
    [r \in Reg |-> WordAt(mem, p, (CHOOSE i \in 1..7 : PopOrder[i] = r) - 1)]

-----------------------------------------------------------------------------
Init == /\ S!Init
        /\ stack = [t \in Task |-> <<>>]
        /\ sp = [t \in Task |-> Top(t)]
        /\ ret = [t \in Task |-> Zero]
        /\ esp = Top(init_task)
        /\ regs = [r \in Reg |-> Zero]
        /\ pc = Entry(init_task)
        /\ ctx = [t \in Task |-> [r \in CalleeSaved |-> Zero]]
        /\ frames = [t \in Task |-> 0]
        /\ returned = [t \in Task |-> Zero]

(* switch_to(next->sp, &prev->sp), entered with stack pointer p: it saves  *)
(* the registers and the stack pointer, takes over the other stack, pops   *)
(* the registers and returns to the address it finds there.                *)
SwitchTo(mem, sps, p, prev, next) ==
    LET r == [regs EXCEPT !["eax"] = <<"sp", 0, next>>,
                          !["edx"] = <<"&sp", 0, prev>>,
                          !["ecx"] = Garbage]
        mem2 == PushRegs(mem, p, r)
        sps2 == [sps EXCEPT ![prev] = Up(p, 7)]
        new == sps2[next]
    IN /\ stack' = Forget(mem2, Up(new, -8))
       /\ sp' = sps2
       /\ regs' = PopRegs(mem2, new)
       /\ pc' = WordAt(mem2, new, 7)
       /\ esp' = Up(new, -8)

(* A call of schedule() that is to return to address back.  The scheduler  *)
(* decides who is next; it returns to its caller if nobody is.             *)
CallSchedule(mem, sps, back) ==
    IF current' # current
    THEN SwitchTo(PushAll(mem, esp, <<back>>), sps, Up(esp, 1), current, current')
    ELSE /\ stack' = mem
         /\ sp' = sps
         /\ regs' = [regs EXCEPT !["eax"] = Garbage, !["ecx"] = Garbage,
                                 !["edx"] = Garbage]
         /\ pc' = back
         /\ UNCHANGED esp

-----------------------------------------------------------------------------
(* The CPU is executing the functions of the thread t.                     *)
InCode(t) == pc \in {Entry(t), Code(t)}

(* The running thread computes something in its registers.                 *)
Compute(v) == /\ InCode(current)
              /\ regs' = [r \in Reg |-> <<r, v, current>>]
              /\ pc' = Code(current)
              /\ ctx' = [ctx EXCEPT ![current] = [r \in CalleeSaved |-> regs'[r]]]
              /\ UNCHANGED <<sched, stack, sp, ret, esp, frames, returned>>

(* It calls a function of its own, whose locals go on the stack.           *)
CallFunction == /\ InCode(current)
                /\ frames[current] < MaxFrames
                /\ stack' = PushAll(stack, esp, <<Code(current)>>)
                /\ esp' = Up(esp, 1)
                /\ pc' = Code(current)
                /\ frames' = [frames EXCEPT ![current] = @ + 1]
                /\ UNCHANGED <<sched, sp, ret, regs, ctx, returned>>

(* A function of the thread returns: from the entry function, with its     *)
(* return code in eax, into whatever the bottom of the stack says.  main() *)
(* never returns.                                                          *)
Return(v) == /\ InCode(current)
             /\ frames[current] > 0 \/ current # init_task
             /\ pc' = WordAt(stack, esp, 0)
             /\ esp' = Up(esp, -1)
             /\ regs' = [regs EXCEPT !["eax"] = <<"eax", v, current>>]
             /\ IF frames[current] > 0
                THEN /\ frames' = [frames EXCEPT ![current] = @ - 1]
                     /\ UNCHANGED returned
                ELSE /\ returned' = [returned EXCEPT ![current] = regs'["eax"]]
                     /\ UNCHANGED frames
             /\ stack' = Forget(stack, esp')
             /\ UNCHANGED <<sched, sp, ret, ctx>>

(* The running thread calls schedule().                                    *)
Yield == /\ InCode(current)
         /\ S!Yield
         /\ CallSchedule(stack, sp, Code(current))
         /\ UNCHANGED <<ret, history>>

(* The first stack of a new task, as if it had called switch_to() from the *)
(* first instruction of its entry function.                                *)
StackInit(t) == <<ExitPointAddr, Entry(t)>> \o [i \in 1..7 |-> Zero]

(* Faulty variant of task_init(): the stack pointer is not taken back to   *)
(* the top of the stack.                                                   *)
TaskInitKeepsTop(t) == Up(sp[t], Len(StackInit(t)))

TaskInit(t) == Up(Top(t), Len(StackInit(t)))

(* The running thread calls task_run(t).                                   *)
TaskRun(t) ==
    /\ InCode(current)
    /\ S!TaskRun(t)
    /\ CallSchedule(PushAll(stack, Up(TaskInit(t), -Len(StackInit(t))), StackInit(t)),
                    [sp EXCEPT ![t] = TaskInit(t)],
                    Code(current))
    /\ ctx' = [ctx EXCEPT ![t] = [r \in CalleeSaved |-> Zero]]
    /\ frames' = [frames EXCEPT ![t] = 0]
    /\ UNCHANGED <<ret, returned>>

(* Faulty variant: the return code is fetched after schedule()'s arguments *)
(* have gone through eax.                                                  *)
ExitPointLateRet == /\ pc = ExitPointAddr
                    /\ S!Exit
                    /\ CallSchedule(stack, sp, AfterExit)
                    /\ ret' = [ret EXCEPT ![current] = <<"sp", 0, current'>>]
                    /\ UNCHANGED history

(* exit_point(): it runs where the entry function of the thread returns.   *)
ExitPoint == /\ pc = ExitPointAddr
             /\ ret' = [ret EXCEPT ![current] = regs["eax"]]
             /\ S!Exit
             /\ CallSchedule(stack, sp, AfterExit)
             /\ UNCHANGED history

(* An interrupt, on the stack of whatever is running: the CPU pushes       *)
(* eflags, cs and eip, the stub the number of the line, two segment        *)
(* registers and the registers, and calls the handler with the address of  *)
(* all that.  The handler changes the registers that a C function may.     *)
InterruptEnter ==
    /\ Cardinality({i \in DOMAIN stack[esp.of] : stack[esp.of][i] = IrqNumber})
         < MaxNested
    /\ stack' = PushRegs(PushAll(stack, esp, <<EFlags, Segment, pc,
                                              IrqNumber, Segment, Segment>>),
                         Up(esp, 6), regs)
    /\ esp' = Up(esp, 13)
    /\ regs' = [regs EXCEPT !["eax"] = Garbage, !["ecx"] = Garbage,
                            !["edx"] = Garbage]
    /\ pc' = Isr
    /\ UNCHANGED <<sched, sp, ret, history>>

(* Faulty variant: the number of the line is not taken off the stack.      *)
InterruptReturnKeepsNumber ==
    /\ pc = Isr
    /\ regs' = PopRegs(stack, esp)
    /\ pc' = WordAt(stack, Up(esp, -9), 0)
    /\ esp' = Up(esp, -12)
    /\ stack' = Forget(stack, esp')
    /\ UNCHANGED <<sched, sp, ret, history>>

(* The handler has returned: the stub pops the registers and the segment   *)
(* registers, skips the number of the line, and iret takes the rest.       *)
InterruptReturn ==
    /\ pc = Isr
    /\ regs' = PopRegs(stack, esp)
    /\ pc' = WordAt(stack, Up(esp, -10), 0)
    /\ esp' = Up(esp, -13)
    /\ stack' = Forget(stack, esp')
    /\ UNCHANGED <<sched, sp, ret, history>>

Next == \/ \E v \in 1..MaxValue : Compute(v) \/ Return(v)
        \/ CallFunction
        \/ Yield
        \/ \E t \in Task : TaskRun(t)
        \/ ExitPoint
        \/ InterruptEnter
        \/ InterruptReturn

Spec == Init /\ [][Next]_vars

-----------------------------------------------------------------------------
(* The CPU only ever executes the code of the current task, exit_point on  *)
(* its behalf or an interrupt handler, and does so on that task's stack:   *)
(* it never returns to a word that is no address, to the code of another   *)
(* thread, or from exit_point() (sched.c:18-40, 94, 113-114, irq.S:34-73). *)
RunsOwnCode == /\ InCode(current) \/ pc \in {ExitPointAddr, Isr}
               /\ esp.of = current

(* Between two calls a thread finds in the preserved registers what it put *)
(* there, however many other threads and interrupt handlers have used them *)
(* (sched.c:21-38, irq.S:37-62).                                           *)
OwnRegisters == InCode(current) =>
                  \A r \in CalleeSaved : regs[r] = ctx[current][r]

(* Switching leaks no stack: while a thread runs, its stack holds its open *)
(* calls and, for all but init_task, the way to exit_point(), and nothing  *)
(* else (sched.c:29-30, 111-122, 132).                                     *)
StackBalanced == InCode(current) =>
                   esp.depth = frames[current] + (IF current = init_task THEN 0 ELSE 1)

(* Under all this the task list keeps its pointers, and the scheduler is   *)
(* the one module Sched describes (sched.c:42-150).                        *)
ListIntact == S!ListIntact

ImplementsSched == S!ImplementsSched

(* A task that has ended carries the return code of its entry function     *)
(* until it is started again, also if it is interrupted while the code is  *)
(* only in eax (sched.c:100-103, irq.S:37-62).                             *)
ReturnCode == \A t \in Task :
                state[t] = S!Abstract!TASK_ZOMBIE => ret[t] = returned[t]
=============================================================================
