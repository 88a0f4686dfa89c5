----------------------------- MODULE IrqProofs -----------------------------
(***************************************************************************)
(* Proofs about the interrupts, for any devices, drivers and spurious      *)
(* lines, and for any depth of nesting.                                    *)
(***************************************************************************)
EXTENDS Irq, SequenceTheorems, TLAPS

USE DEF IRQ_NR, CLOCK_IRQ, Line, Master, Slave, Up, IrqRestore

PC == {"entry", "dispatch", "handler", "eoi", "iret", "panic", "dead", "wild"}

Frame == [irq : Line \cup {-1}, pc : PC, flags : BOOLEAN, spurious : BOOLEAN]

-----------------------------------------------------------------------------
(* The stack of frames: moving the innermost handler on, taking an         *)
(* interrupt and returning from one leave the other frames alone.          *)
LEMMA GotoFrames ==
  ASSUME frames \in Seq(Frame), frames # <<>>, NEW p \in PC
  PROVE  /\ Len(frames) \in 1..Len(frames)
         /\ Goto(p) \in Seq(Frame)
         /\ Goto(p) # <<>>
         /\ Len(Goto(p)) = Len(frames)
         /\ \A i \in 1..Len(frames) :
              /\ frames[i] \in Frame
              /\ Goto(p)[i].irq = frames[i].irq
              /\ Goto(p)[i].flags = frames[i].flags
              /\ i = Len(frames) => Goto(p)[i].pc = p
              /\ i # Len(frames) => Goto(p)[i].pc = frames[i].pc
<1>1. /\ Len(frames) \in Nat \ {0}
      /\ frames \in [1..Len(frames) -> Frame]
      /\ DOMAIN frames = 1..Len(frames)
  BY EmptySeq, LenProperties
<1>2. \A f \in Frame : [f EXCEPT !.pc = p] \in Frame
  BY DEF Frame
<1>3. Goto(p) = [frames EXCEPT ![Len(frames)] = [frames[Len(frames)] EXCEPT !.pc = p]]
  BY DEF Goto
<1>4. Goto(p) \in [1..Len(frames) -> Frame]
  BY <1>1, <1>2, <1>3
<1>5. Goto(p) \in Seq(Frame) /\ Len(Goto(p)) = Len(frames)
  BY <1>1, <1>4, SeqDef, LenProperties
<1>6. ASSUME NEW i \in 1..Len(frames)
      PROVE  /\ frames[i] \in Frame
             /\ Goto(p)[i].irq = frames[i].irq
             /\ Goto(p)[i].flags = frames[i].flags
             /\ i = Len(frames) => Goto(p)[i].pc = p
             /\ i # Len(frames) => Goto(p)[i].pc = frames[i].pc
  BY <1>1, <1>3 DEF Frame
<1>7. QED
  <2>1. Goto(p) # <<>>
    BY <1>1, <1>5, EmptySeq
  <2>2. Len(frames) \in 1..Len(frames)
    BY <1>1
  <2>3. QED
    BY <1>5, <1>6, <2>1, <2>2, Zenon

LEMMA AppendFrames ==
  ASSUME frames \in Seq(Frame), NEW f \in Frame
  PROVE  /\ Len(frames) \in Nat
         /\ Append(frames, f) \in Seq(Frame)
         /\ Append(frames, f) # <<>>
         /\ Len(Append(frames, f)) = Len(frames) + 1
         /\ Append(frames, f)[Len(frames) + 1] = f
         /\ \A i \in 1..Len(frames) : /\ frames[i] \in Frame
                                      /\ Append(frames, f)[i] = frames[i]
  BY AppendProperties, LenProperties, EmptySeq

LEMMA PopFrames ==
  ASSUME frames \in Seq(Frame), frames # <<>>,
         NEW s, s = SubSeq(frames, 1, Len(frames) - 1)
  PROVE  /\ Len(frames) \in 1..Len(frames)
         /\ s \in Seq(Frame)
         /\ Len(s) = Len(frames) - 1
         /\ \A i \in 1..Len(s) : s[i] = frames[i]
         /\ \A i \in 1..Len(frames) : frames[i] \in Frame
<1>1. /\ Len(frames) \in Nat \ {0}
      /\ frames \in [1..Len(frames) -> Frame]
  BY EmptySeq, LenProperties
<1>2. QED
  BY <1>1, SubSeqProperties

-----------------------------------------------------------------------------
(* The masks: a line belongs to the half of the mask written for it.       *)
LEMMA MaskHalf ==
  ASSUME NEW n \in 0..IRQ_NR, NEW mask, mask \subseteq Line, imr \subseteq Line,
         imr \ {n} = mask \ {n}, n = IRQ_NR => imr = mask
  PROVE  WriteMask(n, mask) = mask
<1>1. Half(n) \in {Master, Slave}
  BY DEF Half
<1>2. n < IRQ_NR => n \in Half(n)
  BY DEF Half
<1>3. QED
  BY <1>1, <1>2 DEF WriteMask

LEMMA WriteMaskType ==
  ASSUME NEW n, NEW mask, mask \subseteq Line, imr \subseteq Line
  PROVE  WriteMask(n, mask) \subseteq Line
  BY DEF WriteMask

-----------------------------------------------------------------------------
(* What the end-of-interrupt commands do: the line that is acknowledged is *)
(* not in service any more, nothing else enters service, and line 2 ends   *)
(* with a line of the slave if nothing above it is in service.             *)
LEMMA AckEnds ==
  ASSUME NEW n \in Line, isr \subseteq Line
  PROVE  /\ Ack(n) \subseteq isr
         /\ n \notin Ack(n)
         /\ n \in Slave /\ (\A k \in isr : ~(k < 2)) => 2 \notin Ack(n)
  BY DEF Ack, EndHighest

(* mask_and_ack_irq() of the innermost interrupt.                          *)
LEMMA MaskAndAckKeeps ==
  ASSUME IrqInv, frames # <<>>, MaskAndAck
  PROVE  IrqInv'
<1> DEFINE t == Len(frames)
           n == frames[t].irq
<1>1. /\ t \in 1..t
      /\ frames' \in Seq(Frame)
      /\ frames' # <<>>
      /\ Len(frames') = t
      /\ \A i \in 1..t : /\ frames[i] \in Frame
                         /\ frames'[i].irq = frames[i].irq
                         /\ frames'[i].flags = frames[i].flags
                         /\ i = t => frames'[i].pc = "dispatch"
                         /\ i # t => frames'[i].pc = frames[i].pc
  <2>1. frames \in Seq(Frame) /\ "dispatch" \in PC
    BY DEF IrqInv, TypeOK, Frame, PC
  <2>2. frames' = Goto("dispatch")
    BY DEF MaskAndAck
  <2>3. QED
    BY <2>1, <2>2, GotoFrames
<1>2. /\ frames[t].pc = "entry"
      /\ n \in Line
      /\ n # 2
  BY <1>1 DEF IrqInv, FramesOK, FrameOK, MaskAndAck, Top, Frame
<1>3. /\ irq_mask' = irq_mask \cup {n}
      /\ imr' = WriteMask(n, irq_mask')
      /\ isr' = Ack(n)
      /\ intr_flag' = intr_flag
      /\ UNCHANGED <<irq_handler, gate, boot, irr, halted>>
      /\ spurious_irq_mask' = IF n \in irq_mask /\ n \notin isr
                            THEN spurious_irq_mask \cup {n}
                            ELSE spurious_irq_mask
  BY DEF MaskAndAck, Top, IrqReal
<1>4. /\ isr' \subseteq isr
      /\ n \notin isr'
      /\ n \in Slave /\ (\A k \in isr : ~(k < 2)) => 2 \notin isr'
  BY <1>2, <1>3, AckEnds DEF IrqInv, TypeOK
<1>5. TypeOK'
  BY <1>1, <1>2, <1>3, <1>4, WriteMaskType DEF IrqInv, TypeOK, Frame, PC
<1>6. Up /\ MaskWritten'
  <2>1. Up
    BY DEF IrqInv, BootSafe
  <2>2. imr \subseteq Line /\ imr = irq_mask /\ irq_mask' \subseteq Line
    BY <1>5, <2>1 DEF IrqInv, MaskWritten, TypeOK
  <2>3. imr \ {n} = irq_mask' \ {n} /\ n \in 0..IRQ_NR /\ n # IRQ_NR
    BY <1>2, <1>3, <2>2
  <2>4. WriteMask(n, irq_mask') = irq_mask'
    BY <2>2, <2>3, MaskHalf
  <2>5. QED
    BY <1>3, <2>1, <2>4 DEF MaskWritten
<1>7. BootSafe' /\ NoCascade' /\ ClockStays' /\ ThreadEnabled'
  BY <1>1, <1>3, <1>6 DEF IrqInv, BootSafe, NoCascade, ClockStays, ThreadEnabled
<1>8. UnmaskedHandled'
  BY <1>3 DEF IrqInv, UnmaskedHandled, Handled
<1>9. FramesOK'
  <2>1. SUFFICES ASSUME NEW i \in 1..t
                 PROVE  FrameOK(frames[i])'
    BY <1>1 DEF FramesOK
  <2>2. FrameOK(frames[i])
    BY DEF IrqInv, FramesOK
  <2>3. QED
    BY <1>1, <1>2, <1>3, <2>2 DEF FrameOK, Handled
<1>10. MaskedIsServed'
  <2>1. SUFFICES ASSUME NEW m \in Line, m \in irq_mask', Handled(m)
                 PROVE  \E i \in 1..t : frames'[i].irq = m /\ frames'[i].pc \in Serving
    BY <1>1, <1>3 DEF MaskedIsServed, Handled
  <2>2. CASE m = n
    BY <1>1, <2>2 DEF Serving
  <2>3. CASE m # n
    <3>1. PICK i \in 1..t : frames[i].irq = m /\ frames[i].pc \in Serving
      BY <1>3, <2>1, <2>3 DEF IrqInv, MaskedIsServed
    <3>2. QED
      BY <1>1, <1>2, <3>1 DEF Serving
  <2>4. QED
    BY <2>2, <2>3
<1>11. ServedIsMasked'
  BY <1>1, <1>2, <1>3 DEF IrqInv, ServedIsMasked
<1>12. EntryUnmasked'
  BY <1>1, <1>2, <1>3 DEF IrqInv, EntryUnmasked, Serving
<1>13. ServiceOrder'
  <2>1. SUFFICES ASSUME NEW i \in 1..t, frames'[i].pc = "entry", frames'[i].irq \in Slave,
                        NEW k \in isr', k < 2
                 PROVE  \E j \in i + 1..t : frames'[j].pc = "entry" /\ frames'[j].irq = k
    BY <1>1 DEF ServiceOrder
  <2>2. PICK j \in i + 1..t : frames[j].pc = "entry" /\ frames[j].irq = k
    BY <1>1, <1>2, <1>4, <2>1 DEF IrqInv, ServiceOrder
  <2>3. QED
    BY <1>1, <1>4, <2>2
<1>14. NoStuckService'
  BY <1>1, <1>2, <1>4 DEF IrqInv, NoStuckService, ServiceOrder
<1>15. NoFalseAlarm'
  BY <1>1, <1>2, <1>3 DEF IrqInv, NoFalseAlarm, EntryUnmasked
<1>16. QED
  BY <1>5, <1>6, <1>7, <1>8, <1>9, <1>10, <1>11, <1>12, <1>13, <1>14, <1>15 DEF IrqInv

(* end_of_irq() of the innermost interrupt, by clock_handler() and by      *)
(* default_irq_handler().                                                  *)
LEMMA EndOfIrqKeeps ==
  ASSUME IrqInv, frames # <<>>, NEW p \in {"eoi", "iret"},
         Top.pc \in {"handler", "eoi"}, EndOfIrq(Top.irq, p)
  PROVE  IrqInv'
<1> DEFINE t == Len(frames)
           n == frames[t].irq
<1>1. /\ t \in 1..t
      /\ frames' \in Seq(Frame)
      /\ frames' # <<>>
      /\ Len(frames') = t
      /\ \A i \in 1..t : /\ frames[i] \in Frame
                         /\ frames'[i].irq = frames[i].irq
                         /\ frames'[i].flags = frames[i].flags
                         /\ i = t => frames'[i].pc = p
                         /\ i # t => frames'[i].pc = frames[i].pc
  <2>1. frames \in Seq(Frame) /\ p \in PC
    BY DEF IrqInv, TypeOK, Frame, PC
  <2>2. frames' = Goto(p)
    BY DEF EndOfIrq
  <2>3. QED
    BY <2>1, <2>2, GotoFrames
<1>2. /\ frames[t].pc \in {"handler", "eoi"}
      /\ n \in Line
      /\ n # 2
      /\ Handled(n)
  BY <1>1 DEF IrqInv, FramesOK, FrameOK, Top, Frame
<1>3. /\ irq_mask' = irq_mask \ {n}
      /\ imr' = WriteMask(n, irq_mask')
      /\ intr_flag' = intr_flag
      /\ UNCHANGED <<irq_handler, gate, spurious_irq_mask, boot, irr, isr, halted>>
  BY DEF EndOfIrq, Top
<1>4. TypeOK'
  BY <1>1, <1>2, <1>3, WriteMaskType DEF IrqInv, TypeOK, Frame, PC
<1>5. Up /\ MaskWritten'
  <2>1. Up
    BY DEF IrqInv, BootSafe
  <2>2. imr \subseteq Line /\ imr = irq_mask /\ irq_mask' \subseteq Line
    BY <1>4, <2>1 DEF IrqInv, MaskWritten, TypeOK
  <2>3. imr \ {n} = irq_mask' \ {n} /\ n \in 0..IRQ_NR /\ n # IRQ_NR
    BY <1>2, <1>3, <2>2
  <2>4. WriteMask(n, irq_mask') = irq_mask'
    BY <2>2, <2>3, MaskHalf
  <2>5. QED
    BY <1>3, <2>1, <2>4 DEF MaskWritten
<1>6. BootSafe' /\ NoCascade' /\ ClockStays' /\ ThreadEnabled' /\ NoFalseAlarm'
  BY <1>1, <1>3, <1>5
     DEF IrqInv, BootSafe, NoCascade, ClockStays, ThreadEnabled, NoFalseAlarm
<1>7. UnmaskedHandled'
  BY <1>2, <1>3 DEF IrqInv, UnmaskedHandled, Handled
<1>8. FramesOK'
  <2>1. SUFFICES ASSUME NEW i \in 1..t
                 PROVE  FrameOK(frames[i])'
    BY <1>1 DEF FramesOK
  <2>2. FrameOK(frames[i])
    BY DEF IrqInv, FramesOK
  <2>3. QED
    BY <1>1, <1>2, <1>3, <2>2 DEF FrameOK, Handled
<1>9. MaskedIsServed'
  <2>1. SUFFICES ASSUME NEW m \in Line, m \in irq_mask', Handled(m)
                 PROVE  \E i \in 1..t : frames'[i].irq = m /\ frames'[i].pc \in Serving
    BY <1>1, <1>3 DEF MaskedIsServed, Handled
  <2>2. PICK i \in 1..t : frames[i].irq = m /\ frames[i].pc \in Serving
    BY <1>3, <2>1 DEF IrqInv, MaskedIsServed
  <2>3. i # t
    BY <1>3, <2>1, <2>2
  <2>4. QED
    BY <1>1, <2>2, <2>3
<1>10. ServedIsMasked'
  BY <1>1, <1>2, <1>3 DEF IrqInv, ServedIsMasked
<1>11. EntryUnmasked'
  <2>1. SUFFICES ASSUME NEW i \in 1..t, frames'[i].pc = "entry",
                        frames'[i].irq \notin SpuriousLine, frames'[i].irq \in irq_mask'
                 PROVE  \E j \in i + 1..t : /\ frames'[j].irq = frames'[i].irq
                                            /\ frames'[j].pc \in Serving
    BY <1>1 DEF EntryUnmasked
  <2>2. PICK j \in i + 1..t : frames[j].irq = frames[i].irq /\ frames[j].pc \in Serving
    BY <1>1, <1>2, <1>3, <2>1 DEF IrqInv, EntryUnmasked
  <2>3. j # t
    BY <1>1, <1>3, <2>1, <2>2
  <2>4. QED
    BY <1>1, <2>2, <2>3
<1>12. ServiceOrder'
  <2>1. SUFFICES ASSUME NEW i \in 1..t, frames'[i].pc = "entry", frames'[i].irq \in Slave,
                        NEW k \in isr, k < 2
                 PROVE  \E j \in i + 1..t : frames'[j].pc = "entry" /\ frames'[j].irq = k
    BY <1>1, <1>3 DEF ServiceOrder
  <2>2. PICK j \in i + 1..t : frames[j].pc = "entry" /\ frames[j].irq = k
    BY <1>1, <1>2, <2>1 DEF IrqInv, ServiceOrder
  <2>3. QED
    BY <1>1, <1>2, <2>2
<1>13. NoStuckService'
  BY <1>1, <1>2, <1>3 DEF IrqInv, NoStuckService
<1>14. QED
  BY <1>4, <1>5, <1>6, <1>7, <1>8, <1>9, <1>10, <1>11, <1>12, <1>13 DEF IrqInv

(* The innermost handler moves on without touching the masks or the        *)
(* controllers: Dispatch, DriverHandler and Panic.  It leaves its service  *)
(* of the line only if the line has no handler.                            *)
LEMMA MoveKeeps ==
  ASSUME IrqInv, frames # <<>>,
         NEW p \in {"handler", "eoi", "panic", "wild", "dead"},
         frames' = Goto(p),
         intr_flag' \in {intr_flag, FALSE},
         UNCHANGED <<kernel, pic, halted>>,
         Top.pc \in {"dispatch", "handler", "panic"},
         p = "handler" => Top.pc = "dispatch",
         p \in {"handler", "eoi"} => Top.pc \in Serving /\ Handled(Top.irq),
         p \notin {"handler", "eoi"} =>
           \/ Top.pc = "panic" /\ p = "dead"
           \/ Top.pc = "dispatch" /\ ~Handled(Top.irq)
  PROVE  IrqInv'
<1> DEFINE t == Len(frames)
           n == frames[t].irq
<1>1. /\ t \in 1..t
      /\ frames' \in Seq(Frame)
      /\ frames' # <<>>
      /\ Len(frames') = t
      /\ \A i \in 1..t : /\ frames[i] \in Frame
                         /\ frames'[i].irq = frames[i].irq
                         /\ frames'[i].flags = frames[i].flags
                         /\ i = t => frames'[i].pc = p
                         /\ i # t => frames'[i].pc = frames[i].pc
  <2>1. frames \in Seq(Frame) /\ p \in PC
    BY DEF IrqInv, TypeOK, Frame, PC
  <2>2. QED
    BY <2>1, GotoFrames
<1>2. UNCHANGED <<irq_mask, irq_handler, gate, spurious_irq_mask, boot, imr, irr, isr, halted>>
  BY DEF kernel, pic
<1>3. FrameOK(frames[t])
  BY <1>1 DEF IrqInv, FramesOK
<1>4. TypeOK'
  BY <1>1, <1>2 DEF IrqInv, TypeOK, Frame, PC
<1>5. /\ BootSafe' /\ MaskWritten' /\ NoCascade' /\ ClockStays' /\ ThreadEnabled'
      /\ NoFalseAlarm' /\ UnmaskedHandled'
  BY <1>1, <1>2 DEF IrqInv, BootSafe, MaskWritten, NoCascade, ClockStays, ThreadEnabled,
                    NoFalseAlarm, UnmaskedHandled, Handled
<1>6. /\ n # 2
      /\ n = -1 => p = "dead"
      /\ n # -1 => frames[t].flags
      /\ n \in Line \ SpuriousLine => Handled(n) /\ p \in {"handler", "eoi"}
      /\ p \in {"handler", "eoi"} => Handled(n)
  BY <1>1, <1>3 DEF FrameOK, Top, Serving
<1>7. FramesOK'
  <2>1. SUFFICES ASSUME NEW i \in 1..t
                 PROVE  FrameOK(frames[i])'
    BY <1>1 DEF FramesOK
  <2>2. FrameOK(frames[i])
    BY DEF IrqInv, FramesOK
  <2>3. CASE i = t
    BY <1>1, <1>2, <1>6, <2>3 DEF FrameOK, Handled
  <2>4. CASE i # t
    BY <1>1, <1>2, <2>2, <2>4 DEF FrameOK, Handled
  <2>5. QED
    BY <2>3, <2>4
<1>8. MaskedIsServed'
  <2>1. SUFFICES ASSUME NEW m \in Line, m \in irq_mask, Handled(m)
                 PROVE  \E i \in 1..t : frames'[i].irq = m /\ frames'[i].pc \in Serving
    BY <1>1, <1>2 DEF MaskedIsServed, Handled
  <2>2. PICK i \in 1..t : frames[i].irq = m /\ frames[i].pc \in Serving
    BY <2>1 DEF IrqInv, MaskedIsServed
  <2>3. CASE i = t
    BY <1>1, <2>1, <2>2, <2>3 DEF Serving, Top
  <2>4. CASE i # t
    BY <1>1, <2>2, <2>4
  <2>5. QED
    BY <2>3, <2>4
<1>9. ServedIsMasked'
  BY <1>1, <1>2 DEF IrqInv, ServedIsMasked, Top
<1>10. EntryUnmasked'
  <2>1. SUFFICES ASSUME NEW i \in 1..t, frames'[i].pc = "entry",
                        frames'[i].irq \notin SpuriousLine, frames'[i].irq \in irq_mask
                 PROVE  \E j \in i + 1..t : /\ frames'[j].irq = frames'[i].irq
                                            /\ frames'[j].pc \in Serving
    BY <1>1, <1>2 DEF EntryUnmasked
  <2>2. PICK j \in i + 1..t : frames[j].irq = frames[i].irq /\ frames[j].pc \in Serving
    BY <1>1, <2>1 DEF IrqInv, EntryUnmasked
  <2>3. CASE j = t
    <3>1. n \in Line \ SpuriousLine
      BY <1>1, <2>1, <2>2, <2>3 DEF IrqInv, TypeOK
    <3>2. QED
      BY <1>1, <1>6, <2>2, <2>3, <3>1 DEF Serving
  <2>4. CASE j # t
    BY <1>1, <2>2, <2>4
  <2>5. QED
    BY <2>3, <2>4
<1>11. ServiceOrder'
  <2>1. SUFFICES ASSUME NEW i \in 1..t, frames'[i].pc = "entry", frames'[i].irq \in Slave,
                        NEW k \in isr, k < 2
                 PROVE  \E j \in i + 1..t : frames'[j].pc = "entry" /\ frames'[j].irq = k
    BY <1>1, <1>2 DEF ServiceOrder
  <2>2. PICK j \in i + 1..t : frames[j].pc = "entry" /\ frames[j].irq = k
    BY <1>1, <2>1 DEF IrqInv, ServiceOrder
  <2>3. QED
    BY <1>1, <2>2 DEF Top
<1>12. NoStuckService'
  BY <1>1, <1>2 DEF IrqInv, NoStuckService, Top
<1>13. QED
  BY <1>4, <1>5, <1>7, <1>8, <1>9, <1>10, <1>11, <1>12 DEF IrqInv

(* The stub returns to what it interrupted.                                *)
LEMMA IretKeeps ==
  ASSUME IrqInv, frames # <<>>, Iret
  PROVE  IrqInv'
<1> DEFINE t == Len(frames)
<1>1. /\ t \in 1..t
      /\ frames' \in Seq(Frame)
      /\ Len(frames') = t - 1
      /\ \A i \in 1..t - 1 : frames'[i] = frames[i]
      /\ \A i \in 1..t : frames[i] \in Frame
  <2>1. frames \in Seq(Frame)
    BY DEF IrqInv, TypeOK, Frame, PC
  <2>2. frames' = SubSeq(frames, 1, t - 1)
    BY DEF Iret
  <2>3. QED
    BY <2>1, <2>2, PopFrames
<1>2. UNCHANGED <<irq_mask, irq_handler, gate, spurious_irq_mask, boot, imr, irr, isr, halted>>
  BY DEF kernel, pic, Iret
<1>3. frames[t].pc = "iret" /\ intr_flag'
  BY <1>1 DEF IrqInv, FramesOK, FrameOK, Iret, Top
<1>4. TypeOK'
  BY <1>1, <1>2, <1>3 DEF IrqInv, TypeOK, Frame, PC, Iret, Top
<1>5. /\ BootSafe' /\ MaskWritten' /\ NoCascade' /\ ClockStays' /\ ThreadEnabled'
      /\ NoFalseAlarm' /\ UnmaskedHandled'
  BY <1>2, <1>3 DEF IrqInv, BootSafe, MaskWritten, NoCascade, ClockStays, ThreadEnabled,
                    NoFalseAlarm, UnmaskedHandled, Handled
<1>6. FramesOK'
  <2>1. SUFFICES ASSUME NEW i \in 1..t - 1
                 PROVE  FrameOK(frames[i])'
    BY <1>1 DEF FramesOK
  <2>2. FrameOK(frames[i]) /\ frames'[i] = frames[i]
    BY <1>1 DEF IrqInv, FramesOK
  <2>3. QED
    BY <1>2, <2>2 DEF FrameOK, Handled
<1>7. MaskedIsServed'
  <2>1. SUFFICES ASSUME NEW m \in Line, m \in irq_mask, Handled(m)
                 PROVE  \E i \in 1..t - 1 : frames'[i].irq = m /\ frames'[i].pc \in Serving
    BY <1>1, <1>2 DEF MaskedIsServed, Handled
  <2>2. PICK i \in 1..t : frames[i].irq = m /\ frames[i].pc \in Serving
    BY <2>1 DEF IrqInv, MaskedIsServed
  <2>3. i # t
    BY <1>3, <2>2 DEF Serving
  <2>4. QED
    BY <1>1, <2>2, <2>3
<1>8. ServedIsMasked'
  BY <1>1, <1>2 DEF IrqInv, ServedIsMasked
<1>9. EntryUnmasked'
  <2>1. SUFFICES ASSUME NEW i \in 1..t - 1, frames[i].pc = "entry",
                        frames[i].irq \notin SpuriousLine, frames[i].irq \in irq_mask
                 PROVE  \E j \in i + 1..t - 1 : /\ frames'[j].irq = frames[i].irq
                                                /\ frames'[j].pc \in Serving
    BY <1>1, <1>2 DEF EntryUnmasked
  <2>2. i \in 1..t
    BY <1>1
  <2>3. PICK j \in i + 1..t : frames[j].irq = frames[i].irq /\ frames[j].pc \in Serving
    BY <2>1, <2>2 DEF IrqInv, EntryUnmasked
  <2>4. j # t
    BY <1>3, <2>3 DEF Serving
  <2>5. t \in Nat /\ j \in i + 1..t - 1 /\ j \in 1..t - 1
    <3>1. t \in Nat
      BY <1>1
    <3>2. QED
      BY <2>2, <2>4, <3>1
  <2>6. frames'[j] = frames[j]
    BY <1>1, <2>5
  <2>7. QED
    BY <2>3, <2>5, <2>6
<1>10. ServiceOrder'
  <2>1. SUFFICES ASSUME NEW i \in 1..t - 1, frames[i].pc = "entry", frames[i].irq \in Slave,
                        NEW k \in isr, k < 2
                 PROVE  \E j \in i + 1..t - 1 : frames'[j].pc = "entry" /\ frames'[j].irq = k
    <3>1. isr' = isr /\ Len(frames') = t - 1 /\ \A i \in 1..t - 1 : frames'[i] = frames[i]
      BY <1>1, <1>2
    <3>2. QED
      BY <3>1 DEF ServiceOrder
  <2>2. i \in 1..t
    BY <1>1
  <2>3. PICK j \in i + 1..t : frames[j].pc = "entry" /\ frames[j].irq = k
    BY <2>1, <2>2 DEF IrqInv, ServiceOrder
  <2>4. j # t /\ t \in Nat
    BY <1>1, <1>3, <2>3
  <2>5. j \in i + 1..t - 1 /\ j \in 1..t - 1
    BY <2>2, <2>4
  <2>6. frames'[j] = frames[j]
    BY <1>1, <2>5
  <2>7. QED
    BY <2>3, <2>5, <2>6
<1>11. NoStuckService'
  BY <1>1, <1>2, <1>3 DEF IrqInv, NoStuckService
<1>12. QED
  BY <1>4, <1>5, <1>6, <1>7, <1>8, <1>9, <1>10, <1>11 DEF IrqInv

(* Every step of a handler.                                                *)
LEMMA HandlerStepKeeps ==
  ASSUME IrqInv, HandlerStep
  PROVE  IrqInv'
<1>1. frames # <<>>
  BY DEF HandlerStep
<1>2. CASE MaskAndAck
  BY <1>1, <1>2, MaskAndAckKeeps
<1>3. CASE Dispatch
  <2>1. Top \in Frame /\ Top.irq \in Line
    <3>1. frames \in Seq(Frame) /\ "handler" \in PC
      BY DEF IrqInv, TypeOK, Frame, PC
    <3>2. Len(frames) \in 1..Len(frames) /\ frames[Len(frames)] \in Frame
      BY <1>1, <3>1, GotoFrames
    <3>3. FrameOK(Top)
      BY <3>2 DEF IrqInv, FramesOK, Top
    <3>4. QED
      BY <1>3, <3>2, <3>3 DEF FrameOK, Dispatch, Top, Frame
  <2>2. Handled(Top.irq) <=> irq_handler[Top.irq] \notin {"unhandled", "null"}
    BY <2>1 DEF IrqInv, UnmaskedHandled, TypeOK, Handled
  <2>3. PICK p \in {"handler", "panic", "wild"} :
           frames' = Goto(p) /\ (p = "handler" <=> Handled(Top.irq))
    <3>1. CASE irq_handler[Top.irq] = "unhandled"
      BY <1>3, <2>2, <3>1 DEF Dispatch
    <3>2. CASE irq_handler[Top.irq] = "null"
      BY <1>3, <2>2, <3>2 DEF Dispatch
    <3>3. CASE irq_handler[Top.irq] \notin {"unhandled", "null"}
      BY <1>3, <2>2, <3>3 DEF Dispatch
    <3>4. QED
      BY <3>1, <3>2, <3>3
  <2>4. Top.pc = "dispatch" /\ intr_flag' = intr_flag /\ UNCHANGED <<kernel, pic, halted>>
    BY <1>3 DEF Dispatch
  <2>5. QED
    BY <1>1, <2>3, <2>4, MoveKeeps DEF Serving
<1>4. CASE ClockHandler
  BY <1>1, <1>4, EndOfIrqKeeps DEF ClockHandler
<1>5. CASE DriverHandler
  <2>1. /\ Top.pc = "handler" /\ Handled(Top.irq)
        /\ frames' = Goto("eoi")
        /\ intr_flag' = intr_flag /\ UNCHANGED <<kernel, pic, halted>>
    BY <1>5 DEF DriverHandler, Handled
  <2>2. QED
    BY <1>1, <2>1, MoveKeeps DEF Serving
<1>6. CASE End
  BY <1>1, <1>6, EndOfIrqKeeps DEF End
<1>7. CASE Iret
  BY <1>1, <1>7, IretKeeps
<1>8. CASE Panic
  <2>1. /\ Top.pc = "panic"
        /\ frames' = Goto("dead")
        /\ intr_flag' = FALSE /\ UNCHANGED <<kernel, pic, halted>>
    BY <1>8 DEF Panic
  <2>2. QED
    BY <1>1, <2>1, MoveKeeps
<1>9. QED
  BY <1>2, <1>3, <1>4, <1>5, <1>6, <1>7, <1>8 DEF HandlerStep

-----------------------------------------------------------------------------
(* The CPU takes an interrupt: a line that is not masked, or a spurious    *)
(* one; one of the slave only when nothing above line 2 is in service.     *)
LEMMA EnterKeeps ==
  ASSUME IrqInv, NEW n \in Line, NEW spurious \in BOOLEAN,
         Enter(n, spurious),
         n # 2,
         n \notin imr \/ n \in SpuriousLine,
         n \in Slave => \A k \in isr : ~(k < 2),
         irr' \subseteq irr,
         isr' \subseteq isr \cup {n} \cup (IF n \in Slave THEN {2} ELSE {}),
         UNCHANGED imr
  PROVE  IrqInv'
<1> DEFINE t == Len(frames)
           f == [irq |-> n, pc |-> "entry", flags |-> intr_flag, spurious |-> spurious]
<1>1. /\ t \in Nat
      /\ frames' \in Seq(Frame)
      /\ frames' # <<>>
      /\ Len(frames') = t + 1
      /\ frames'[t + 1] = f
      /\ \A i \in 1..t : frames[i] \in Frame /\ frames'[i] = frames[i]
  <2>1. frames \in Seq(Frame) /\ f \in Frame
    BY DEF IrqInv, TypeOK, Frame, PC
  <2>2. frames' = Append(frames, f)
    BY DEF Enter
  <2>3. QED
    BY <2>1, <2>2, AppendFrames
<1>2. /\ intr_flag
      /\ Up
      /\ UNCHANGED <<irq_mask, irq_handler, gate, spurious_irq_mask, boot, imr>>
  BY DEF kernel, Enter, IrqInv, BootSafe
<1>3. n \in SpuriousLine \/ (n \notin irq_mask /\ Handled(n))
  <2>1. irq_mask = imr
    BY <1>2 DEF IrqInv, MaskWritten
  <2>2. n \notin irq_mask => Handled(n)
    BY DEF IrqInv, UnmaskedHandled
  <2>3. QED
    BY <2>1, <2>2
<1>4. isr' \subseteq isr \cup {n, 2}
  OBVIOUS
<1>5. TypeOK'
  <2>1. intr_flag' \in BOOLEAN /\ halted' \in BOOLEAN
    BY DEF Enter
  <2>2. QED
    BY <1>1, <1>2, <1>4, <2>1 DEF IrqInv, TypeOK, Frame, PC
<1>6. /\ BootSafe' /\ MaskWritten' /\ NoCascade' /\ ClockStays' /\ ThreadEnabled'
      /\ NoFalseAlarm' /\ UnmaskedHandled'
  BY <1>1, <1>2 DEF IrqInv, BootSafe, MaskWritten, NoCascade, ClockStays, ThreadEnabled,
                    NoFalseAlarm, UnmaskedHandled, Handled
<1>7. FramesOK'
  <2>1. SUFFICES ASSUME NEW i \in 1..t + 1
                 PROVE  FrameOK(frames[i])'
    BY <1>1 DEF FramesOK
  <2>2. CASE i = t + 1
    BY <1>1, <1>2, <1>3, <2>2 DEF FrameOK, Handled
  <2>3. CASE i # t + 1
    <3>1. i \in 1..t /\ frames'[i] = frames[i]
      BY <1>1, <2>3
    <3>2. FrameOK(frames[i])
      BY <3>1 DEF IrqInv, FramesOK
    <3>3. QED
      BY <1>2, <3>1, <3>2 DEF FrameOK, Handled
  <2>4. QED
    BY <2>2, <2>3
<1>8. MaskedIsServed'
  <2>1. SUFFICES ASSUME NEW m \in Line, m \in irq_mask, Handled(m)
                 PROVE  \E i \in 1..t + 1 : frames'[i].irq = m /\ frames'[i].pc \in Serving
    BY <1>1, <1>2 DEF MaskedIsServed, Handled
  <2>2. PICK i \in 1..t : frames[i].irq = m /\ frames[i].pc \in Serving
    BY <2>1 DEF IrqInv, MaskedIsServed
  <2>3. QED
    BY <1>1, <2>2
<1>9. ServedIsMasked'
  <2>1. SUFFICES ASSUME NEW i \in 1..t + 1, frames'[i].pc \in {"dispatch", "handler"},
                        frames'[i].irq \notin SpuriousLine
                 PROVE  /\ frames'[i].irq \in irq_mask
                        /\ \A j \in i + 1..t + 1 : frames'[j].irq # frames'[i].irq
    BY <1>1, <1>2 DEF ServedIsMasked
  <2>2. i \in 1..t /\ frames'[i] = frames[i]
    BY <1>1, <2>1
  <2>3. /\ frames[i].irq \in irq_mask
        /\ \A j \in i + 1..t : frames[j].irq # frames[i].irq
    BY <2>1, <2>2 DEF IrqInv, ServedIsMasked
  <2>4. n # frames[i].irq
    BY <1>3, <2>1, <2>2, <2>3
  <2>5. QED
    BY <1>1, <2>2, <2>3, <2>4
<1>10. EntryUnmasked'
  BY <1>1, <1>2, <1>3 DEF IrqInv, EntryUnmasked
<1>11. ServiceOrder'
  <2>1. SUFFICES ASSUME NEW i \in 1..t + 1, frames'[i].pc = "entry", frames'[i].irq \in Slave,
                        NEW k \in isr', k < 2
                 PROVE  \E j \in i + 1..t + 1 : frames'[j].pc = "entry" /\ frames'[j].irq = k
    BY <1>1 DEF ServiceOrder
  <2>2. CASE k = n
    BY <1>1, <2>1, <2>2
  <2>3. CASE k # n
    <3>1. k \in isr /\ i # t + 1
      BY <1>1, <1>4, <2>1, <2>3
    <3>2. PICK j \in i + 1..t : frames[j].pc = "entry" /\ frames[j].irq = k
      BY <1>1, <2>1, <3>1 DEF IrqInv, ServiceOrder
    <3>3. QED
      BY <1>1, <3>2
  <2>4. QED
    BY <2>2, <2>3
<1>12. NoStuckService'
  BY <1>1, <1>4 DEF IrqInv, NoStuckService
<1>13. QED
  BY <1>5, <1>6, <1>7, <1>8, <1>9, <1>10, <1>11, <1>12 DEF IrqInv

(* An interrupt that is requested, and a spurious one.                     *)
LEMMA DeliverKeeps ==
  ASSUME IrqInv, Deliver
  PROVE  IrqInv'
<1>1. PICK n \in Line : /\ Requested(n)
                        /\ Enter(n, FALSE)
                        /\ irr' = irr \ {n}
                        /\ isr' = isr \cup {n} \cup (IF n \in Slave THEN {2} ELSE {})
                        /\ UNCHANGED imr
  BY DEF Deliver
<1>2. n # 2 /\ n \notin imr
  BY <1>1 DEF Requested, IrqInv, NoCascade
<1>3. n \in Slave => \A k \in isr : ~(k < 2)
  BY <1>1 DEF Requested, IrqInv, TypeOK
<1>4. QED
  BY <1>1, <1>2, <1>3, EnterKeeps

LEMMA DeliverSpuriousKeeps ==
  ASSUME IrqInv, NEW n \in SpuriousLine, DeliverSpurious(n)
  PROVE  IrqInv'
<1>1. n \in Line /\ n # 2
  BY IrqAssumption
<1>2. n \in Slave => \A k \in isr : ~(k < 2)
  BY DEF DeliverSpurious, IrqInv, TypeOK
<1>3. /\ Enter(n, TRUE)
      /\ irr' \subseteq irr
      /\ isr' \subseteq isr \cup {n} \cup (IF n \in Slave THEN {2} ELSE {})
      /\ UNCHANGED imr
  BY DEF DeliverSpurious
<1>4. QED
  BY <1>1, <1>2, <1>3, EnterKeeps

(* The running code faults.                                                *)
LEMMA ExceptionKeeps ==
  ASSUME IrqInv, Exception
  PROVE  IrqInv'
<1> DEFINE t == Len(frames)
           f == [irq |-> -1, pc |-> "panic", flags |-> intr_flag, spurious |-> FALSE]
<1>1. /\ t \in Nat
      /\ frames' \in Seq(Frame)
      /\ frames' # <<>>
      /\ Len(frames') = t + 1
      /\ frames'[t + 1] = f
      /\ \A i \in 1..t : frames[i] \in Frame /\ frames'[i] = frames[i]
  <2>1. frames \in Seq(Frame) /\ f \in Frame
    BY DEF IrqInv, TypeOK, Frame, PC
  <2>2. frames' = Append(frames, f)
    BY DEF Exception
  <2>3. QED
    BY <2>1, <2>2, AppendFrames
<1>2. /\ Up
      /\ UNCHANGED <<irq_mask, irq_handler, gate, spurious_irq_mask, boot, imr, irr, isr, halted>>
  BY DEF kernel, pic, Exception
<1>3. TypeOK'
  <2>1. intr_flag' \in BOOLEAN
    BY DEF IrqInv, TypeOK, Exception
  <2>2. QED
    BY <1>1, <1>2, <2>1 DEF IrqInv, TypeOK, Frame, PC
<1>4. /\ BootSafe' /\ MaskWritten' /\ NoCascade' /\ ClockStays' /\ ThreadEnabled'
      /\ NoFalseAlarm' /\ UnmaskedHandled'
  BY <1>1, <1>2 DEF IrqInv, BootSafe, MaskWritten, NoCascade, ClockStays, ThreadEnabled,
                    NoFalseAlarm, UnmaskedHandled, Handled
<1>5. FramesOK'
  <2>1. SUFFICES ASSUME NEW i \in 1..t + 1
                 PROVE  FrameOK(frames[i])'
    BY <1>1 DEF FramesOK
  <2>2. CASE i = t + 1
    BY <1>1, <1>2, <2>2 DEF FrameOK, Handled
  <2>3. CASE i # t + 1
    <3>1. i \in 1..t /\ frames'[i] = frames[i]
      BY <1>1, <2>3
    <3>2. FrameOK(frames[i])
      BY <3>1 DEF IrqInv, FramesOK
    <3>3. QED
      BY <1>2, <3>1, <3>2 DEF FrameOK, Handled
  <2>4. QED
    BY <2>2, <2>3
<1>6. MaskedIsServed'
  <2>1. SUFFICES ASSUME NEW m \in Line, m \in irq_mask, Handled(m)
                 PROVE  \E i \in 1..t + 1 : frames'[i].irq = m /\ frames'[i].pc \in Serving
    BY <1>1, <1>2 DEF MaskedIsServed, Handled
  <2>2. PICK i \in 1..t : frames[i].irq = m /\ frames[i].pc \in Serving
    BY <2>1 DEF IrqInv, MaskedIsServed
  <2>3. QED
    BY <1>1, <2>2
<1>7. ServedIsMasked'
  <2>1. SUFFICES ASSUME NEW i \in 1..t + 1, frames'[i].pc \in {"dispatch", "handler"},
                        frames'[i].irq \notin SpuriousLine
                 PROVE  /\ frames'[i].irq \in irq_mask
                        /\ \A j \in i + 1..t + 1 : frames'[j].irq # frames'[i].irq
    BY <1>1, <1>2 DEF ServedIsMasked
  <2>2. i \in 1..t /\ frames'[i] = frames[i]
    BY <1>1, <2>1
  <2>3. /\ frames[i].irq \in irq_mask
        /\ \A j \in i + 1..t : frames[j].irq # frames[i].irq
    BY <2>1, <2>2 DEF IrqInv, ServedIsMasked
  <2>4. frames[i].irq # -1
    BY <2>3 DEF IrqInv, TypeOK
  <2>5. QED
    BY <1>1, <2>2, <2>3, <2>4
<1>8. EntryUnmasked'
  BY <1>1, <1>2 DEF IrqInv, EntryUnmasked
<1>9. ServiceOrder'
  <2>1. SUFFICES ASSUME NEW i \in 1..t + 1, frames'[i].pc = "entry", frames'[i].irq \in Slave,
                        NEW k \in isr, k < 2
                 PROVE  \E j \in i + 1..t + 1 : frames'[j].pc = "entry" /\ frames'[j].irq = k
    BY <1>1, <1>2 DEF ServiceOrder
  <2>2. i \in 1..t /\ frames'[i] = frames[i]
    BY <1>1, <2>1
  <2>3. PICK j \in i + 1..t : frames[j].pc = "entry" /\ frames[j].irq = k
    BY <2>1, <2>2 DEF IrqInv, ServiceOrder
  <2>4. QED
    BY <1>1, <2>3
<1>10. NoStuckService'
  BY <1>1, <1>2 DEF IrqInv, NoStuckService
<1>11. QED
  BY <1>3, <1>4, <1>5, <1>6, <1>7, <1>8, <1>9, <1>10 DEF IrqInv

-----------------------------------------------------------------------------
(* While no interrupt is handled, no line is in service and every line     *)
(* with a handler is enabled.                                              *)
LEMMA ThreadFacts ==
  ASSUME IrqInv, frames = <<>>
  PROVE  /\ isr = {}
         /\ \A n \in Line : n \in irq_mask => ~Handled(n)
<1>1. Len(frames) = 0
  BY EmptySeq
<1>2. QED
  BY <1>1 DEF IrqInv, TypeOK, NoStuckService, MaskedIsServed

(* What says nothing when no interrupt is handled.                         *)
LEMMA NoFrames ==
  ASSUME frames' = <<>>
  PROVE  FramesOK' /\ ServedIsMasked' /\ EntryUnmasked' /\ ServiceOrder'
<1>1. Len(frames') = 0
  BY EmptySeq
<1>2. QED
  BY <1>1 DEF FramesOK, ServedIsMasked, EntryUnmasked, ServiceOrder

(* install_interrupt_handler() outside interrupt handlers: at boot and by  *)
(* a driver.                                                               *)
LEMMA InstallKeeps ==
  ASSUME IrqInv, frames = <<>>,
         NEW n \in Nat, n # 2, NEW handler \in {"clock", "driver"}, NEW type \in {"trap", "int"},
         Install(n, handler, type),
         \/ boot' = boot /\ n \in DriverLine
         \/ boot = "clock_init" /\ boot' = "idt_init" /\ n = CLOCK_IRQ /\ handler = "clock"
  PROVE  IrqInv'
<1>1. /\ n \in 0..IRQ_NR
      /\ irq_handler' = [irq_handler EXCEPT ![n] = handler]
      /\ gate' = [gate EXCEPT ![n] = type]
      /\ irq_mask' = irq_mask \ {n}
      /\ imr' = WriteMask(n, irq_mask')
      /\ UNCHANGED <<intr_flag, spurious_irq_mask, irr, isr, halted, frames>>
  BY DEF Install
<1>2. isr = {} /\ \A m \in Line : m \in irq_mask => ~Handled(m)
  BY ThreadFacts
<1>3. TypeOK'
  <2>1. irq_mask' \subseteq Line /\ imr' \subseteq Line
    BY <1>1, WriteMaskType DEF IrqInv, TypeOK
  <2>2. QED
    BY <1>1, <2>1 DEF IrqInv, TypeOK
<1>4. MaskWritten'
  <2>1. SUFFICES ASSUME boot \in {"irq_enable", "done"}
                 PROVE  imr' = irq_mask'
    BY DEF MaskWritten
  <2>2. imr \subseteq Line /\ imr = irq_mask /\ irq_mask' \subseteq Line
    BY <1>3, <2>1 DEF IrqInv, MaskWritten, TypeOK
  <2>3. imr \ {n} = irq_mask' \ {n} /\ (n = IRQ_NR => imr = irq_mask')
    BY <1>1, <2>2
  <2>4. QED
    BY <1>1, <2>2, <2>3, MaskHalf
<1>5. UnmaskedHandled'
  BY <1>1 DEF IrqInv, UnmaskedHandled, Handled, TypeOK
<1>6. MaskedIsServed'
  BY <1>1, <1>2 DEF IrqInv, MaskedIsServed, Handled, TypeOK
<1>7. ClockStays'
  BY <1>1 DEF IrqInv, ClockStays, TypeOK
<1>8. /\ BootSafe' /\ NoCascade' /\ ThreadEnabled' /\ NoFalseAlarm'
  BY <1>1 DEF IrqInv, BootSafe, NoCascade, ThreadEnabled, NoFalseAlarm
<1>9. NoStuckService'
  BY <1>1, <1>2 DEF NoStuckService
<1>10. QED
  BY <1>1, <1>3, <1>4, <1>5, <1>6, <1>7, <1>8, <1>9, NoFrames DEF IrqInv

(* uninstall_interrupt_handler() by a driver.                              *)
LEMMA UninstallKeeps ==
  ASSUME IrqInv, frames = <<>>, NEW n \in DriverLine, Uninstall(n)
  PROVE  IrqInv'
<1>1. /\ n \in 0..IRQ_NR
      /\ irq_handler' = [irq_handler EXCEPT ![n] = "null"]
      /\ irq_mask' = (irq_mask \cup {n}) \cap Line
      /\ imr' = WriteMask(n, irq_mask')
      /\ UNCHANGED <<intr_flag, gate, spurious_irq_mask, boot, irr, isr, halted, frames>>
  BY IrqAssumption DEF Uninstall
<1>2. isr = {} /\ \A m \in Line : m \in irq_mask => ~Handled(m)
  BY ThreadFacts
<1>3. TypeOK'
  <2>1. irq_mask' \subseteq Line /\ imr' \subseteq Line
    BY <1>1, WriteMaskType DEF IrqInv, TypeOK
  <2>2. QED
    BY <1>1, <2>1 DEF IrqInv, TypeOK
<1>4. MaskWritten'
  <2>1. SUFFICES ASSUME boot \in {"irq_enable", "done"}
                 PROVE  imr' = irq_mask'
    BY <1>1 DEF MaskWritten
  <2>2. imr \subseteq Line /\ imr = irq_mask /\ irq_mask' \subseteq Line
    BY <1>3, <2>1 DEF IrqInv, MaskWritten, TypeOK
  <2>3. imr \ {n} = irq_mask' \ {n} /\ (n = IRQ_NR => imr = irq_mask')
    <3>1. n = IRQ_NR => n \notin Line
      OBVIOUS
    <3>2. QED
      BY <1>1, <2>2, <3>1
  <2>4. QED
    BY <1>1, <2>2, <2>3, MaskHalf
<1>5. UnmaskedHandled'
  BY <1>1 DEF IrqInv, UnmaskedHandled, Handled, TypeOK
<1>6. MaskedIsServed'
  BY <1>1, <1>2 DEF IrqInv, MaskedIsServed, Handled, TypeOK
<1>7. ClockStays'
  BY <1>1 DEF IrqInv, ClockStays, TypeOK
<1>8. /\ BootSafe' /\ NoCascade' /\ ThreadEnabled' /\ NoFalseAlarm'
  BY <1>1 DEF IrqInv, BootSafe, NoCascade, ThreadEnabled, NoFalseAlarm
<1>9. NoStuckService'
  BY <1>1, <1>2 DEF NoStuckService
<1>10. QED
  BY <1>1, <1>3, <1>4, <1>5, <1>6, <1>7, <1>8, <1>9, NoFrames DEF IrqInv

-----------------------------------------------------------------------------
(* The rest of the boot: idt_init(), irq_init(), and interrupts enabled.   *)
LEMMA BootKeeps ==
  ASSUME IrqInv, IdtInit \/ IrqInit \/ IrqEnable
  PROVE  IrqInv'
<1>1. ~Up /\ frames = <<>> /\ frames' = <<>> /\ irq_handler' = irq_handler
  BY DEF IrqInv, BootSafe, IdtInit, IrqInit, IrqEnable
<1>2. isr = {} /\ \A m \in Line : m \in irq_mask => ~Handled(m)
  BY <1>1, ThreadFacts
<1>3. /\ irq_mask' \subseteq irq_mask
      /\ \A n \in Line : n # 2 => (n \in irq_mask <=> n \in irq_mask')
      /\ isr' = {} /\ irr' \subseteq irr /\ spurious_irq_mask' = spurious_irq_mask
  BY <1>2, IrqAssumption DEF IdtInit, IrqInit, IrqEnable, pic
<1>4. TypeOK'
  <2>1. CASE IdtInit
    BY <2>1 DEF IrqInv, TypeOK, IdtInit, pic
  <2>2. CASE IrqInit
    BY <2>2 DEF IrqInv, TypeOK, IrqInit, pic
  <2>3. CASE IrqEnable
    BY <2>3 DEF IrqInv, TypeOK, IrqEnable, pic
  <2>4. QED
    BY <2>1, <2>2, <2>3
<1>5. /\ BootSafe' /\ MaskWritten' /\ NoCascade' /\ ClockStays' /\ ThreadEnabled'
      /\ NoFalseAlarm'
  BY <1>1, <1>3 DEF IrqInv, BootSafe, MaskWritten, NoCascade, ClockStays, ThreadEnabled,
                    NoFalseAlarm, IdtInit, IrqInit, IrqEnable, pic
<1>6. UnmaskedHandled' /\ MaskedIsServed'
  BY <1>1, <1>2, <1>3 DEF IrqInv, UnmaskedHandled, MaskedIsServed, Handled
<1>7. NoStuckService'
  BY <1>3 DEF NoStuckService
<1>8. QED
  BY <1>1, <1>4, <1>5, <1>6, <1>7, NoFrames DEF IrqInv

(* A device asserts its line, the CPU halts, or nothing happens.           *)
LEMMA QuietKeeps ==
  ASSUME IrqInv, \/ Halt
                 \/ \E n \in Device : Raise(n)
                 \/ UNCHANGED vars
  PROVE  IrqInv'
<1>1. /\ UNCHANGED <<irq_mask, irq_handler, gate, spurious_irq_mask, boot, imr, isr,
                     intr_flag, frames>>
      /\ halted' \in BOOLEAN
      /\ irr' \subseteq Line
      /\ 2 \notin irr'
  BY IrqAssumption DEF Halt, Raise, vars, kernel, pic, IrqInv, TypeOK, NoCascade
<1>2. TypeOK' /\ NoCascade'
  BY <1>1 DEF IrqInv, TypeOK, NoCascade
<1>3. QED
  BY <1>1, <1>2 DEF IrqInv, BootSafe, MaskWritten, UnmaskedHandled, ClockStays, ThreadEnabled,
                    FramesOK, FrameOK, MaskedIsServed, ServedIsMasked, EntryUnmasked,
                    ServiceOrder, NoStuckService, NoFalseAlarm, Handled, Zenon

-----------------------------------------------------------------------------
LEMMA InitKeeps ==
  ASSUME Init
  PROVE  IrqInv
<1>1. frames = <<>> /\ Len(frames) = 0 /\ irr = {} /\ isr = {} /\ irq_mask = Line
  BY EmptySeq DEF Init
<1>2. \A n \in Line : irq_handler[n] = "unhandled"
  BY DEF Init
<1>3. TypeOK
  BY <1>1, EmptySeq DEF Init, TypeOK
<1>4. BootSafe /\ MaskWritten /\ NoCascade /\ ClockStays /\ ThreadEnabled /\ NoFalseAlarm
  BY DEF Init, BootSafe, MaskWritten, NoCascade, ClockStays, ThreadEnabled, NoFalseAlarm
<1>5. UnmaskedHandled /\ MaskedIsServed
  BY <1>1, <1>2 DEF UnmaskedHandled, MaskedIsServed, Handled
<1>6. FramesOK /\ ServedIsMasked /\ EntryUnmasked /\ ServiceOrder /\ NoStuckService
  BY <1>1 DEF FramesOK, ServedIsMasked, EntryUnmasked, ServiceOrder, NoStuckService
<1>7. QED
  BY <1>3, <1>4, <1>5, <1>6 DEF IrqInv

LEMMA NextKeeps ==
  ASSUME IrqInv, [Next]_vars
  PROVE  IrqInv'
<1>1. CASE Boot
  <2>1. CASE ClockInit
    BY <2>1, InstallKeeps DEF ClockInit, IrqInv, BootSafe
  <2>2. QED
    BY <1>1, <2>1, BootKeeps DEF Boot
<1>2. CASE (\E n \in Device : Raise(n)) \/ Halt \/ UNCHANGED vars
  BY <1>2, QuietKeeps
<1>3. CASE Deliver
  BY <1>3, DeliverKeeps
<1>4. CASE \E n \in SpuriousLine : DeliverSpurious(n)
  BY <1>4, DeliverSpuriousKeeps
<1>5. CASE HandlerStep
  BY <1>5, HandlerStepKeeps
<1>6. CASE Exception
  BY <1>6, ExceptionKeeps
<1>7. CASE Driver
  <2>1. PICK n \in DriverLine : DriverInstall(n) \/ DriverUninstall(n)
    BY <1>7 DEF Driver
  <2>2. frames = <<>> /\ n \in Nat /\ n # 2
    BY <2>1, IrqAssumption DEF DriverInstall, DriverUninstall, Thread
  <2>3. CASE DriverInstall(n)
    <3>1. PICK type \in {"trap", "int"} : Install(n, "driver", type)
      BY <2>3 DEF DriverInstall
    <3>2. boot' = boot
      BY <2>3 DEF DriverInstall
    <3>3. QED
      BY <2>2, <3>1, <3>2, InstallKeeps
  <2>4. CASE DriverUninstall(n)
    BY <2>2, <2>4, UninstallKeeps DEF DriverUninstall
  <2>5. QED
    BY <2>1, <2>3, <2>4
<1>8. QED
  BY <1>1, <1>2, <1>3, <1>4, <1>5, <1>6, <1>7 DEF Next

(* The inductive invariant: the masks, the handlers and the lines in       *)
(* service agree with the frames on the stack, however deep interrupts     *)
(* nest and whatever lines devices, drivers and noise use                  *)
(* (interrupt.c:120-243).                                                  *)
THEOREM IrqInvariant == Spec => []IrqInv
<1>1. Init => IrqInv
  BY InitKeeps
<1>2. IrqInv /\ [Next]_vars => IrqInv'
  BY NextKeeps
<1>3. QED
  BY <1>1, <1>2, PTL DEF Spec

(* Type correctness.                                                       *)
THEOREM TypeCorrect == Spec => []TypeOK
<1>1. IrqInv => TypeOK
  BY DEF IrqInv
<1>2. QED
  BY <1>1, IrqInvariant, PTL

(* No interrupt is taken before init() has set up the IDT and the          *)
(* controllers (init.c:5-10).                                              *)
THEOREM BootIsSafe == Spec => []BootSafe
<1>1. IrqInv => BootSafe
  BY DEF IrqInv
<1>2. QED
  BY <1>1, IrqInvariant, PTL

(* irq_mask is what the controllers have, at every depth of nesting        *)
(* (interrupt.c:139-160, 170-197).                                         *)
THEOREM MasksAgree == Spec => []MaskMirrors
<1>1. IrqInv => MaskMirrors
  BY DEF IrqInv, MaskWritten, MaskMirrors
<1>2. QED
  BY <1>1, IrqInvariant, PTL

(* Between mask_and_ack_irq() and end_of_irq() no handler is entered again *)
(* by its own line, but for spurious lines (interrupt.c:120-167, 235-243). *)
THEOREM NeverReentered == Spec => []NotReentered
<1>1. IrqInv => NotReentered
  BY DEF IrqInv, ServedIsMasked, NotReentered
<1>2. QED
  BY <1>1, IrqInvariant, PTL

(* Every line in service belongs to an interrupt that is still to be       *)
(* acknowledged (interrupt.c:142-164).                                     *)
THEOREM ServiceEnds == Spec => []NoStuckService
<1>1. IrqInv => NoStuckService
  BY DEF IrqInv
<1>2. QED
  BY <1>1, IrqInvariant, PTL

(* No real interrupt reaches a line without a handler                      *)
(* (interrupt.c:65, 238-241, 380).                                         *)
THEOREM HandlerThere == Spec => []AlwaysHandled
<1>1. IrqInv => AlwaysHandled
  <2>1. SUFFICES ASSUME IrqInv, NEW i \in 1..Len(frames), frames[i].irq \notin SpuriousLine
                 PROVE  /\ frames[i].pc # "wild"
                        /\ frames[i].pc \in {"panic", "dead"} => frames[i].irq = -1
    BY DEF AlwaysHandled
  <2>2. frames[i].irq \in Line \cup {-1} /\ FrameOK(frames[i])
    <3>1. frames \in Seq(Frame)
      BY <2>1 DEF IrqInv, TypeOK, Frame, PC
    <3>2. frames[i] \in Frame
      BY <3>1, LenProperties
    <3>3. QED
      BY <2>1, <3>2 DEF Frame, IrqInv, FramesOK
  <2>3. QED
    BY <2>1, <2>2 DEF FrameOK
<1>2. QED
  BY <1>1, IrqInvariant, PTL

(* No real interrupt is reported as spurious (interrupt.c:103-117, 136).   *)
THEOREM ReportsAreTrue == Spec => []NoFalseAlarm
<1>1. IrqInv => NoFalseAlarm
  BY DEF IrqInv
<1>2. QED
  BY <1>1, IrqInvariant, PTL

(* Unless a driver takes over the clock's line, code outside interrupt     *)
(* handlers runs with interrupts enabled, the clock unmasked and nothing   *)
(* in service (clock.c:19-22, main.c:18).                                  *)
THEOREM ThreadsHaveTheClock ==
  ASSUME CLOCK_IRQ \notin DriverLine
  PROVE  Spec => []ClockEnabled
<1>1. IrqInv => ClockEnabled
  <2>1. SUFFICES ASSUME IrqInv, Up, frames = <<>>
                 PROVE  intr_flag /\ CLOCK_IRQ \notin imr /\ isr = {}
    BY DEF ClockEnabled
  <2>2. isr = {} /\ \A n \in Line : n \in irq_mask => ~Handled(n)
    BY <2>1, ThreadFacts
  <2>3. Handled(CLOCK_IRQ) /\ CLOCK_IRQ \in Line /\ irq_mask = imr
    BY <2>1 DEF IrqInv, ClockStays, MaskWritten, Handled
  <2>4. QED
    BY <2>1, <2>2, <2>3 DEF IrqInv, ThreadEnabled
<1>2. QED
  BY <1>1, IrqInvariant, PTL

-----------------------------------------------------------------------------
(* The end of panic(): only the innermost frame is dead, and interrupts    *)
(* are disabled then.                                                      *)
DeadQuiet == \A i \in 1..Len(frames) : frames[i].pc = "dead" => i = Len(frames) /\ ~intr_flag

(* Nothing moves a dead CPU.                                               *)
LEMMA DeadStops ==
  ASSUME IrqInv, DeadQuiet, Dead, [Next]_vars
  PROVE  UNCHANGED <<frames, intr_flag>>
<1>1. /\ frames \in Seq(Frame) /\ frames # <<>> /\ Top.pc = "dead"
      /\ Len(frames) \in 1..Len(frames)
  <2>1. frames \in Seq(Frame) /\ "dead" \in PC
    BY DEF IrqInv, TypeOK, Frame, PC
  <2>2. QED
    BY <2>1, GotoFrames DEF Dead
<1>2. Up /\ ~intr_flag
  BY <1>1 DEF IrqInv, BootSafe, DeadQuiet, Top
<1>3. ~Boot /\ ~Driver /\ ~Halt /\ ~Exception
  BY <1>1, <1>2 DEF Boot, ClockInit, IdtInit, IrqInit, IrqEnable, Driver, DriverInstall,
                    DriverUninstall, Thread, Halt, Exception
<1>4. ~Deliver /\ ~(\E n \in SpuriousLine : DeliverSpurious(n))
  BY <1>2 DEF Deliver, DeliverSpurious, Enter
<1>5. ~HandlerStep
  BY <1>1 DEF HandlerStep, MaskAndAck, Dispatch, ClockHandler, DriverHandler, End, Iret, Panic
<1>6. QED
  BY <1>3, <1>4, <1>5 DEF Next, Raise, vars

LEMMA DeadQuietKeeps ==
  ASSUME IrqInv, DeadQuiet, [Next]_vars
  PROVE  DeadQuiet'
<1>1. frames \in Seq(Frame)
  BY DEF IrqInv, TypeOK, Frame, PC
<1>2. CASE Dead
  BY <1>2, DeadStops DEF DeadQuiet
<1>3. ASSUME ~Dead
      PROVE  \A i \in 1..Len(frames) : frames[i].pc # "dead"
  BY <1>1, <1>3, EmptySeq, LenProperties DEF Dead, DeadQuiet, Top
<1>4. ASSUME NEW p \in PC, frames # <<>>, frames' = Goto(p), p = "dead" => ~intr_flag', ~Dead
      PROVE  DeadQuiet'
  <2>1. /\ Len(frames') = Len(frames)
        /\ \A i \in 1..Len(frames) :
             /\ i = Len(frames) => frames'[i].pc = p
             /\ i # Len(frames) => frames'[i].pc = frames[i].pc
    BY <1>1, <1>4, GotoFrames
  <2>2. QED
    BY <1>3, <1>4, <2>1 DEF DeadQuiet
<1>5. ASSUME NEW f \in Frame, f.pc # "dead", frames' = Append(frames, f), ~Dead
      PROVE  DeadQuiet'
  <2>1. /\ Len(frames) \in Nat
        /\ Len(frames') = Len(frames) + 1
        /\ frames'[Len(frames) + 1] = f
        /\ \A i \in 1..Len(frames) : frames'[i] = frames[i]
    BY <1>1, <1>5, AppendFrames
  <2>2. QED
    BY <1>3, <1>5, <2>1 DEF DeadQuiet
<1>6. ASSUME UNCHANGED frames, ~Dead
      PROVE  DeadQuiet'
  BY <1>3, <1>6 DEF DeadQuiet
<1>7. CASE HandlerStep /\ ~Dead
  <2>1. frames # <<>>
    BY <1>7 DEF HandlerStep
  <2>2. CASE Iret
    <3>1. /\ Len(frames) \in 1..Len(frames)
          /\ Len(frames') = Len(frames) - 1
          /\ \A i \in 1..Len(frames') : frames'[i] = frames[i]
      BY <1>1, <2>1, <2>2, PopFrames DEF Iret
    <3>2. QED
      BY <1>3, <1>7, <3>1 DEF DeadQuiet
  <2>3. CASE Panic
    BY <1>4, <1>7, <2>1, <2>3 DEF Panic, PC
  <2>4. CASE Dispatch
    <3>1. \E p \in {"panic", "wild", "handler"} : frames' = Goto(p)
      <4>1. CASE irq_handler[Top.irq] = "unhandled"
        BY <2>4, <4>1 DEF Dispatch
      <4>2. CASE irq_handler[Top.irq] = "null"
        BY <2>4, <4>2 DEF Dispatch
      <4>3. CASE irq_handler[Top.irq] \notin {"unhandled", "null"}
        BY <2>4, <4>3 DEF Dispatch
      <4>4. QED
        BY <4>1, <4>2, <4>3
    <3>2. QED
      BY <1>4, <1>7, <2>1, <3>1 DEF PC
  <2>5. CASE MaskAndAck \/ ClockHandler \/ DriverHandler \/ End
    <3>1. \E p \in {"dispatch", "eoi", "iret"} : frames' = Goto(p)
      BY <2>5 DEF MaskAndAck, ClockHandler, DriverHandler, End, EndOfIrq
    <3>2. QED
      BY <1>4, <1>7, <2>1, <3>1 DEF PC
  <2>6. QED
    BY <1>7, <2>2, <2>3, <2>4, <2>5 DEF HandlerStep
<1>8. CASE (Deliver \/ \E n \in SpuriousLine : DeliverSpurious(n)) /\ ~Dead
  <2>1. PICK n \in Line, spurious \in BOOLEAN : Enter(n, spurious)
    <3>1. CASE Deliver
      BY <3>1, TRUE \in BOOLEAN, FALSE \in BOOLEAN DEF Deliver
    <3>2. CASE \E n \in SpuriousLine : DeliverSpurious(n)
      <4>1. PICK n \in SpuriousLine : Enter(n, TRUE)
        BY <3>2 DEF DeliverSpurious
      <4>2. n \in Line
        BY IrqAssumption
      <4>3. QED
        BY <4>1, <4>2
    <3>3. QED
      BY <1>8, <3>1, <3>2
  <2>2. [irq |-> n, pc |-> "entry", flags |-> intr_flag, spurious |-> spurious] \in Frame
    BY DEF IrqInv, TypeOK, Frame, PC
  <2>3. QED
    BY <1>5, <1>8, <2>1, <2>2 DEF Enter
<1>9. CASE Exception /\ ~Dead
  <2>1. [irq |-> -1, pc |-> "panic", flags |-> intr_flag, spurious |-> FALSE] \in Frame
    BY DEF IrqInv, TypeOK, Frame, PC
  <2>2. QED
    BY <1>5, <1>9, <2>1 DEF Exception
<1>10. CASE /\ ~Dead
            /\ \/ Boot
               \/ \E n \in Device : Raise(n)
               \/ Driver
               \/ Halt
               \/ UNCHANGED vars
  BY <1>6, <1>10 DEF Boot, ClockInit, IdtInit, IrqInit, IrqEnable, Install, Uninstall, Raise,
                     Driver, DriverInstall, DriverUninstall, Halt, vars
<1>11. QED
  BY <1>2, <1>7, <1>8, <1>9, <1>10 DEF Next

(* A panic is final: once panic() has halted the CPU with interrupts       *)
(* disabled, no interrupt, exception or driver gets it going again         *)
(* (panic.c:6-12).  This is the safety half of PanicIsFinal.               *)
THEOREM DeadIsFinal == Spec => [][Dead => Dead']_vars
<1>1. Init => DeadQuiet
  BY EmptySeq DEF Init, DeadQuiet
<1>2. IrqInv /\ DeadQuiet /\ [Next]_vars => DeadQuiet'
  BY DeadQuietKeeps
<1>3. IrqInv /\ DeadQuiet /\ [Next]_vars => [Dead => Dead']_vars
  BY DeadStops DEF Dead, Top
<1>4. QED
  BY <1>1, <1>2, <1>3, IrqInvariant, PTL DEF Spec

=============================================================================
