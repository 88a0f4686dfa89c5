-------------------------------- MODULE Irq --------------------------------
(***************************************************************************)
(* Interrupts: kernel/interrupt.c, the stubs of kernel/irq.S, the clock    *)
(* driver, panic() and the boot order of kernel/init.c, over the two 8259  *)
(* interrupt controllers of a PC.                                          *)
(*                                                                         *)
(* The gates of the interrupt lines are trap gates, which leave interrupts *)
(* enabled: a handler can be interrupted between any two instructions      *)
(* outside irq_save() ... irq_restore().  Each such section is one action  *)
(* here, and so is everything between two of them.                         *)
(*                                                                         *)
(* Sets of lines stand for the bit masks of the code and of the hardware.  *)
(***************************************************************************)
EXTENDS Integers, Sequences

CONSTANTS Device,         \* the lines some device raises
          DriverLine,     \* what drivers pass to (un)install_interrupt_handler
          SpuriousLine,   \* the lines noise makes the controllers report
          MaxDepth        \* bound on nested interrupts

IRQ_NR == 16
CLOCK_IRQ == 0

Line == 0..IRQ_NR - 1
Master == 0..7
Slave == 8..15

ASSUME IrqAssumption == /\ Device \subseteq Line \ {2}
                        /\ DriverLine \subseteq Nat \ {2}
                        /\ SpuriousLine \subseteq {7, 15}
                        /\ MaxDepth \in Nat

VARIABLES
    irq_mask,           \* what the kernel thinks is masked
    irq_handler,        \* the handler of each line; entry 16 is the memory
                        \* behind the array
    gate,               \* the gate type of each line's IDT entry
    spurious_irq_mask,  \* the spurious lines reported so far
    boot,               \* the next initialisation function to call
    intr_flag,          \* EFLAGS.IF
    halted,             \* the interrupted code is in hlt
    frames,             \* the interrupts being handled, the outermost first
    imr, irr, isr       \* the registers of the controllers: masked lines,
                        \* latched requests, lines in service

kernel == <<irq_mask, irq_handler, gate, spurious_irq_mask, boot>>
pic == <<imr, irr, isr>>
vars == <<kernel, pic, intr_flag, halted, frames>>

-----------------------------------------------------------------------------
(* The two 8259 controllers.  An end of interrupt either names a line or   *)
(* ends the most urgent one in service on that controller.                 *)
Half(n) == IF (n \div 8) % 2 = 1 THEN Slave ELSE Master

WriteMask(n, mask) == (imr \ Half(n)) \cup (mask \cap Half(n))

EndHighest(service, half) ==
    service \ {n \in service \cap half : \A k \in service \cap half : n <= k}

(* A request gets through if it is not masked and more urgent than         *)
(* everything in service; those of the slave pass through line 2.          *)
Requested(n) ==
    /\ n \in irr \ imr
    /\ IF n \in Master
       THEN \A k \in isr \cap Master : n < k
       ELSE /\ 2 \notin imr
            /\ \A k \in isr \cap Slave : n < k
            /\ \A k \in isr \cap Master : 2 < k

Rank(n) == IF n < 2 THEN n ELSE IF n \in Slave THEN n - 6 ELSE n + 7

-----------------------------------------------------------------------------
(* A boot loader hands over with interrupts disabled and the controllers   *)
(* as the firmware left them.                                              *)
Init == /\ irq_mask = Line
        /\ irq_handler = [n \in 0..IRQ_NR |-> IF n < IRQ_NR THEN "unhandled" ELSE "other"]
        /\ gate = [n \in 0..IRQ_NR |-> "none"]
        /\ spurious_irq_mask = {}
        /\ boot = "clock_init"
        /\ intr_flag = FALSE
        /\ halted = FALSE
        /\ frames = <<>>
        /\ imr \in {{}, Line}
        /\ irr = {}
        /\ isr = {}

Up == boot = "done"

Top == frames[Len(frames)]

Goto(pc) == [frames EXCEPT ![Len(frames)].pc = pc]

(* panic() has disabled interrupts and halted the CPU.                     *)
Dead == frames # <<>> /\ Top.pc = "dead"

(* Code outside interrupt handlers has the CPU.                            *)
Thread == Up /\ frames = <<>> /\ ~halted

-----------------------------------------------------------------------------
(* A device asserts its line: the controller latches the request.          *)
Raise(n) == /\ irr' = irr \cup {n}
            /\ UNCHANGED <<kernel, imr, isr, intr_flag, halted, frames>>

(* The CPU takes interrupt n through its gate.                             *)
Enter(n, spurious) ==
    /\ intr_flag
    /\ Len(frames) < MaxDepth
    /\ frames' = Append(frames, [irq |-> n, pc |-> "entry", flags |-> intr_flag,
                                 spurious |-> spurious])
    /\ intr_flag' = (gate[n] = "trap")
    /\ halted' = FALSE
    /\ UNCHANGED kernel

(* The most urgent request is delivered and its line is in service.        *)
Deliver == \E n \in Line :
    /\ Requested(n)
    /\ \A k \in Line : Requested(k) => Rank(n) <= Rank(k)
    /\ Enter(n, FALSE)
    /\ irr' = irr \ {n}
    /\ isr' = isr \cup {n} \cup (IF n \in Slave THEN {2} ELSE {})
    /\ UNCHANGED imr

(* A request that vanishes too early is reported as the last line of its   *)
(* controller, whatever the mask, and is not in service.  One of the slave *)
(* still has to get through line 2.                                        *)
DeliverSpurious(n) ==
    /\ n \in Slave => 2 \notin imr /\ \A k \in isr \cap Master : 2 < k
    /\ Enter(n, TRUE)
    /\ isr' = isr \cup (IF n \in Slave THEN {2} ELSE {})
    /\ UNCHANGED <<imr, irr>>

-----------------------------------------------------------------------------
(* Faulty variant: "Restore EFLAGS and enable interrupts".                 *)
IrqRestoreEnables(flags) == TRUE

(* irq_restore(flags).                                                     *)
IrqRestore(flags) == flags

(* Is the line in service?                                                 *)
IrqReal(n) == n \in isr

(* Faulty variant of the acknowledgement: only the slave is told.          *)
AckSlaveOnly(n) == IF n \in Slave
                   THEN EndHighest(isr \ {n, 10}, Slave)
                   ELSE EndHighest(isr \ {n}, Master)

(* The service bits after the end-of-interrupt commands of                 *)
(* mask_and_ack_irq().  For a slave line, the command meant to end line 2  *)
(* goes to the slave, where it names line 10.                              *)
Ack(n) == IF n \in Slave
          THEN EndHighest(EndHighest(isr \ {n, 10}, Slave), Master)
          ELSE EndHighest(isr \ {n}, Master)

(* Faulty variant: the line is acknowledged but not masked.                *)
MaskAndAckNoMask ==
    /\ Top.pc = "entry"
    /\ spurious_irq_mask' = IF Top.irq \in irq_mask /\ ~IrqReal(Top.irq)
                            THEN spurious_irq_mask \cup {Top.irq}
                            ELSE spurious_irq_mask
    /\ isr' = Ack(Top.irq)
    /\ intr_flag' = IrqRestore(intr_flag)
    /\ frames' = Goto("dispatch")
    /\ UNCHANGED <<irq_mask, imr, irq_handler, gate, boot, irr, halted>>

(* mask_and_ack_irq(): the line is masked, then acknowledged, spurious or  *)
(* not.                                                                    *)
MaskAndAck ==
    /\ Top.pc = "entry"
    /\ spurious_irq_mask' = IF Top.irq \in irq_mask /\ ~IrqReal(Top.irq)
                            THEN spurious_irq_mask \cup {Top.irq}
                            ELSE spurious_irq_mask
    /\ irq_mask' = irq_mask \cup {Top.irq}
    /\ imr' = WriteMask(Top.irq, irq_mask')
    /\ isr' = Ack(Top.irq)
    /\ intr_flag' = IrqRestore(intr_flag)
    /\ frames' = Goto("dispatch")
    /\ UNCHANGED <<irq_handler, gate, boot, irr, halted>>

(* default_irq_handler() calls the handler of the line.                    *)
Dispatch ==
    /\ Top.pc = "dispatch"
    /\ frames' = Goto(CASE irq_handler[Top.irq] = "unhandled" -> "panic"
                        [] irq_handler[Top.irq] = "null" -> "wild"
                        [] OTHER -> "handler")
    /\ UNCHANGED <<kernel, pic, intr_flag, halted>>

(* Faulty variants of pic_enable_irq(): the mask bit is cleared in the     *)
(* controller only; the line stays masked.                                 *)
EnableOnlyImr(n, pcNext) ==
    /\ imr' = WriteMask(n, irq_mask \ {n})
    /\ frames' = Goto(pcNext)
    /\ intr_flag' = IrqRestore(intr_flag)
    /\ UNCHANGED <<irq_mask, irq_handler, gate, spurious_irq_mask, boot, irr, isr, halted>>

EnableForgotten(n, pcNext) ==
    /\ frames' = Goto(pcNext)
    /\ intr_flag' = IrqRestore(intr_flag)
    /\ UNCHANGED <<irq_mask, imr, irq_handler, gate, spurious_irq_mask, boot, irr, isr, halted>>

(* end_of_irq(): pic_enable_irq() for the line of the interrupt.           *)
EndOfIrq(n, pcNext) ==
    /\ irq_mask' = irq_mask \ {n}
    /\ imr' = WriteMask(n, irq_mask')
    /\ frames' = Goto(pcNext)
    /\ intr_flag' = IrqRestore(intr_flag)
    /\ UNCHANGED <<irq_handler, gate, spurious_irq_mask, boot, irr, isr, halted>>

(* clock_handler() ends the interrupt itself, before default_irq_handler() *)
(* does so again.                                                          *)
ClockHandler == /\ Top.pc = "handler"
                /\ irq_handler[Top.irq] = "clock"
                /\ EndOfIrq(Top.irq, "eoi")

(* A driver's handler serves its device and returns.                       *)
DriverHandler == /\ Top.pc = "handler"
                 /\ irq_handler[Top.irq] = "driver"
                 /\ frames' = Goto("eoi")
                 /\ UNCHANGED <<kernel, pic, intr_flag, halted>>

End == /\ Top.pc = "eoi"
       /\ EndOfIrq(Top.irq, "iret")

(* The stub pops the context and returns to what was interrupted.          *)
Iret == /\ Top.pc = "iret"
        /\ frames' = SubSeq(frames, 1, Len(frames) - 1)
        /\ intr_flag' = Top.flags
        /\ UNCHANGED <<kernel, pic, halted>>

(* Faulty variant: panic() leaves interrupts enabled.                      *)
PanicKeepsIrqs == /\ Top.pc = "panic"
                  /\ frames' = Goto("dead")
                  /\ UNCHANGED <<kernel, pic, intr_flag, halted>>

(* panic(): the message has been printed, with interrupts as they were.    *)
Panic == /\ Top.pc = "panic"
         /\ intr_flag' = FALSE
         /\ frames' = Goto("dead")
         /\ UNCHANGED <<kernel, pic, halted>>

HandlerStep == /\ frames # <<>>
               /\ \/ MaskAndAck
                  \/ Dispatch
                  \/ ClockHandler
                  \/ DriverHandler
                  \/ End
                  \/ Iret
                  \/ Panic

(* The running code faults; default_exc_handler() panics.  Some exceptions *)
(* have interrupt gates, which disable interrupts.                         *)
Exception ==
    /\ Up /\ ~halted /\ ~Dead
    /\ Len(frames) < MaxDepth
    /\ intr_flag' \in {intr_flag, FALSE}
    /\ frames' = Append(frames, [irq |-> -1, pc |-> "panic", flags |-> intr_flag,
                                 spurious |-> FALSE])
    /\ UNCHANGED <<kernel, pic, halted>>

-----------------------------------------------------------------------------
(* install_interrupt_handler() and uninstall_interrupt_handler(); a line   *)
(* they refuse changes nothing.                                            *)
Install(n, handler, type) ==
    /\ n <= IRQ_NR
    /\ irq_handler' = [irq_handler EXCEPT ![n] = handler]
    /\ gate' = [gate EXCEPT ![n] = type]
    /\ irq_mask' = irq_mask \ {n}
    /\ imr' = WriteMask(n, irq_mask')
    /\ intr_flag' = IrqRestore(intr_flag)
    /\ UNCHANGED <<spurious_irq_mask, irr, isr, halted, frames>>

(* Faulty variant: the line is not disabled.                               *)
UninstallStillEnabled(n) ==
    /\ n <= IRQ_NR
    /\ irq_handler' = [irq_handler EXCEPT ![n] = "null"]
    /\ intr_flag' = IrqRestore(intr_flag)
    /\ UNCHANGED <<irq_mask, imr, gate, spurious_irq_mask, boot, irr, isr, halted, frames>>

Uninstall(n) ==
    /\ n <= IRQ_NR
    /\ irq_mask' = (irq_mask \cup {n}) \cap Line
    /\ imr' = WriteMask(n, irq_mask')
    /\ irq_handler' = [irq_handler EXCEPT ![n] = "null"]
    /\ intr_flag' = IrqRestore(intr_flag)
    /\ UNCHANGED <<gate, spurious_irq_mask, boot, irr, isr, halted, frames>>

(* A driver's thread installs or removes the handler of its line.          *)
DriverInstall(n) == /\ Thread
                    /\ \E type \in {"trap", "int"} : Install(n, "driver", type)
                    /\ UNCHANGED boot

DriverUninstall(n) == Thread /\ Uninstall(n)

(* cpu_halt(): hlt waits for the next interrupt.                           *)
Halt == /\ Thread
        /\ halted' = TRUE
        /\ UNCHANGED <<kernel, pic, intr_flag, frames>>

-----------------------------------------------------------------------------
(* init() after console_init(): the clock driver is installed first, while *)
(* neither the IDT nor the controllers have been set up.                   *)
ClockInit == /\ boot = "clock_init"
             /\ boot' = "idt_init"
             /\ Install(CLOCK_IRQ, "clock", "trap")

(* Every line gets a trap gate, whatever its driver asked for before.      *)
IdtInit == /\ boot = "idt_init"
           /\ boot' = "irq_init"
           /\ gate' = [n \in 0..IRQ_NR |-> IF n < IRQ_NR THEN "trap" ELSE "int"]
           /\ UNCHANGED <<irq_mask, irq_handler, spurious_irq_mask, pic,
                          intr_flag, halted, frames>>

(* Faulty variant: the mask is not written back.                           *)
IrqInitNoMask == /\ boot = "irq_init"
                 /\ boot' = "irq_enable"
                 /\ irr' = {}
                 /\ isr' = {}
                 /\ imr' = {}
                 /\ irq_mask' = irq_mask \ {2}
                 /\ UNCHANGED <<irq_handler, gate, spurious_irq_mask,
                                intr_flag, halted, frames>>

(* Initialisation clears the controllers; then the mask is written back.   *)
IrqInit == /\ boot = "irq_init"
           /\ boot' = "irq_enable"
           /\ irr' = {}
           /\ isr' = {}
           /\ irq_mask' = irq_mask \ {2}
           /\ imr' = irq_mask'
           /\ UNCHANGED <<irq_handler, gate, spurious_irq_mask,
                          intr_flag, halted, frames>>

IrqEnable == /\ boot = "irq_enable"
             /\ boot' = "done"
             /\ intr_flag' = TRUE
             /\ UNCHANGED <<irq_mask, irq_handler, gate, spurious_irq_mask,
                            pic, halted, frames>>

Boot == ClockInit \/ IdtInit \/ IrqInit \/ IrqEnable

-----------------------------------------------------------------------------
Driver == \E n \in DriverLine : DriverInstall(n) \/ DriverUninstall(n)

Next == \/ Boot
        \/ \E n \in Device : Raise(n)
        \/ Deliver
        \/ \E n \in SpuriousLine : DeliverSpurious(n)
        \/ HandlerStep
        \/ Exception
        \/ Driver
        \/ Halt

Spec == Init /\ [][Next]_vars

(* The CPU keeps executing, the clock keeps ticking, and interrupts do not *)
(* come so fast that interrupted code never gets on: the clock ticks every *)
(* 10 ms.                                                                  *)
FairSpec == /\ Spec
            /\ WF_vars(Boot)
            /\ WF_vars(Raise(CLOCK_IRQ))
            /\ WF_vars(Deliver)
            /\ \A d \in 1..MaxDepth : SF_vars(HandlerStep /\ Len(frames) = d)

-----------------------------------------------------------------------------
(* Type invariant.                                                         *)
TypeOK == /\ irq_mask \subseteq Line
          /\ irq_handler \in [0..IRQ_NR -> {"unhandled", "clock", "driver", "null", "other"}]
          /\ gate \in [0..IRQ_NR -> {"none", "trap", "int"}]
          /\ spurious_irq_mask \subseteq Line
          /\ boot \in {"clock_init", "idt_init", "irq_init", "irq_enable", "done"}
          /\ intr_flag \in BOOLEAN
          /\ halted \in BOOLEAN
          /\ frames \in Seq([irq : Line \cup {-1},
                             pc : {"entry", "dispatch", "handler", "eoi",
                                   "iret", "panic", "dead", "wild"},
                             flags : BOOLEAN, spurious : BOOLEAN])
          /\ imr \subseteq Line
          /\ irr \subseteq Line
          /\ isr \subseteq Line

(* No interrupt is taken before the IDT and the controllers are set up,    *)
(* although clock_init() has unmasked its line by then (init.c:5-10,       *)
(* interrupt.h:18-19, clock.c:28-39).                                      *)
BootSafe == ~Up => frames = <<>> /\ ~intr_flag

(* The kernel's idea of the mask is the controllers' mask: nested handlers *)
(* that update both never get in each other's way (interrupt.c:139-160,    *)
(* 170-197).                                                               *)
MaskMirrors == Up => irq_mask = imr

(* A line whose handler runs, up to its end_of_irq(), is not taken again   *)
(* on top of it, although interrupts are enabled and other handlers, which *)
(* write the same masks, nest, spurious ones included.  Only the lines on  *)
(* which spurious interrupts arrive are not safe from it                   *)
(* (interrupt.c:120-167, 235-243).                                         *)
NotReentered ==
    \A i, j \in 1..Len(frames) :
        i < j /\ frames[i].irq = frames[j].irq /\ frames[i].irq \notin SpuriousLine
            => frames[i].pc \notin {"dispatch", "handler"}

(* Acknowledging twice, with a named and an unnamed end of interrupt, may  *)
(* end the service of an interrupted line early, but leaves none in        *)
(* service for ever, which would block the less urgent lines: the bits in  *)
(* service belong to interrupts that have not been acknowledged yet        *)
(* (interrupt.c:142-164).                                                  *)
NoStuckService ==
    \A n \in isr : \E i \in 1..Len(frames) :
        /\ frames[i].pc = "entry"
        /\ frames[i].irq = n \/ (n = 2 /\ frames[i].irq \in Slave)

(* No real interrupt reaches a line without a handler: for those,          *)
(* unhandled_interrupt() is never called, nor is the null pointer that     *)
(* uninstalling leaves (interrupt.c:65, 238-241, 380).                     *)
AlwaysHandled == \A i \in 1..Len(frames) :
                   frames[i].irq \notin SpuriousLine =>
                     /\ frames[i].pc # "wild"
                     /\ frames[i].pc \in {"panic", "dead"} => frames[i].irq = -1

(* No real interrupt is mistaken for a spurious one, even if a more urgent *)
(* line has ended its service (interrupt.c:103-117, 136).                  *)
NoFalseAlarm == spurious_irq_mask \subseteq SpuriousLine

(* Code outside interrupt handlers runs with interrupts enabled and the    *)
(* clock unmasked, so that hlt always wakes up (clock.c:19-22, main.c:18). *)
ClockEnabled == Up /\ frames = <<>> =>
                  intr_flag /\ CLOCK_IRQ \notin imr /\ isr = {}

(* Why the properties above hold: the inductive invariant.                 *)
Handled(n) == irq_handler[n] \in {"clock", "driver"}

Serving == {"dispatch", "handler", "eoi"}

MaskWritten == boot \in {"irq_enable", "done"} => irq_mask = imr

NoCascade == 2 \notin irr

UnmaskedHandled == \A n \in Line :
                     /\ irq_handler[n] # "other"
                     /\ n # 2 /\ n \notin irq_mask => Handled(n)

ClockStays == boot # "clock_init" /\ CLOCK_IRQ \notin DriverLine
                => irq_handler[CLOCK_IRQ] = "clock"

ThreadEnabled == Up /\ frames = <<>> => intr_flag

FrameOK(f) ==
    /\ f.irq # 2
    /\ f.irq = -1 => f.pc \in {"panic", "dead"}
    /\ f.irq # -1 => f.flags
    /\ f.irq \in Line \ SpuriousLine => Handled(f.irq) /\ f.pc \notin {"panic", "dead", "wild"}
    /\ f.pc \in {"handler", "eoi", "iret"} => Handled(f.irq)

FramesOK == \A i \in 1..Len(frames) : FrameOK(frames[i])

(* A handled line is masked only while an interrupt on it is served.       *)
MaskedIsServed ==
    \A n \in Line : n \in irq_mask /\ Handled(n) =>
        \E i \in 1..Len(frames) : frames[i].irq = n /\ frames[i].pc \in Serving

(* The line of a running handler is masked, and nothing over it has it.    *)
ServedIsMasked ==
    \A i \in 1..Len(frames) :
        frames[i].pc \in {"dispatch", "handler"} /\ frames[i].irq \notin SpuriousLine =>
            /\ frames[i].irq \in irq_mask
            /\ \A j \in i + 1..Len(frames) : frames[j].irq # frames[i].irq

(* A line taken but not yet acknowledged is masked only because it was     *)
(* taken again and is served over it.                                      *)
EntryUnmasked ==
    \A i \in 1..Len(frames) :
        /\ frames[i].pc = "entry"
        /\ frames[i].irq \notin SpuriousLine
        /\ frames[i].irq \in irq_mask
        => \E j \in i + 1..Len(frames) : /\ frames[j].irq = frames[i].irq
                                        /\ frames[j].pc \in Serving

(* What is in service above line 2 was taken after the slave's interrupts, *)
(* so that acknowledging one of these ends line 2.                         *)
ServiceOrder ==
    \A i \in 1..Len(frames) : frames[i].pc = "entry" /\ frames[i].irq \in Slave =>
        \A k \in isr : k < 2 =>
            \E j \in i + 1..Len(frames) : frames[j].pc = "entry" /\ frames[j].irq = k

(* The lines are masked, served and in service as the handlers nested in   *)
(* the frames left them (interrupt.c:120-243).                             *)
IrqInv == /\ TypeOK
          /\ BootSafe
          /\ MaskWritten
          /\ NoCascade
          /\ UnmaskedHandled
          /\ ClockStays
          /\ ThreadEnabled
          /\ FramesOK
          /\ MaskedIsServed
          /\ ServedIsMasked
          /\ EntryUnmasked
          /\ ServiceOrder
          /\ NoStuckService
          /\ NoFalseAlarm

(* A pending tick is taken sooner or later, whatever handlers are running, *)
(* unless the kernel dies (interrupt.c:120-243).                           *)
TickTaken == Up /\ CLOCK_IRQ \in irr ~> CLOCK_IRQ \notin irr \/ Dead

(* hlt does not wait for ever.                                             *)
HaltWakes == halted ~> ~halted

(* A panic stops the machine for good, even though interrupts are enabled  *)
(* until it has printed its message (panic.c:6-12).                        *)
PanicIsFinal == (\E i \in 1..Len(frames) : frames[i].pc = "panic") ~> []Dead

-----------------------------------------------------------------------------
(* "At this point we can be sure the IRQ is spurious, lets ACK and report  *)
(* it": a spurious interrupt is acknowledged and reported, not handed to a *)
(* handler (interrupt.c:107-116).                                          *)
SpuriousOnlyReported ==
    \A i \in 1..Len(frames) :
        frames[i].spurious => frames[i].pc \notin {"handler", "panic", "dead", "wild"}

(* "Total amount of supported interrupts": a line that is not supported is *)
(* refused, and the memory behind the array of handlers stays as it is     *)
(* (interrupt.c:21-22, 375, 391).                                          *)
UnsupportedRefused == irq_handler[IRQ_NR] = "other"
=============================================================================
