---------------------------- MODULE SwitchProofs ----------------------------
(***************************************************************************)
(* Proofs about the context switch and the interrupt stub, for any set of  *)
(* tasks, any depth of calls and any depth of nested interrupts.           *)
(*                                                                         *)
(* What happens to the task list is taken from SchedListProofs; here it is *)
(* about the words on the stacks.  The first lemmas are about pushing and  *)
(* popping, the next ones about the invariant, one for every action.       *)
(***************************************************************************)
EXTENDS Switch, SequenceTheorems, TLAPS

L == INSTANCE SchedListProofs

Tag == Reg \cup {"value", "garbage", "exit_point", "after_exit", "default_irq_handler",
                 "irq", "eflags", "segment", "entry", "code", "sp", "&sp"}

Word == Tag \X Nat \X Task

Memory == [Task -> Seq(Word)]

Pointer == [of : Task, depth : Nat]

Ptr(t, d) == [of |-> t, depth |-> d]

-----------------------------------------------------------------------------
LEMMA Words ==
  /\ {Zero, Garbage, ExitPointAddr, AfterExit, Isr, IrqNumber, EFlags, Segment} \subseteq Word
  /\ \A t \in Task : {Entry(t), Code(t), <<"sp", 0, t>>, <<"&sp", 0, t>>} \subseteq Word
  /\ \A t \in Task, v \in Nat, r \in Reg : <<r, v, t>> \in Word
  /\ Isr # ExitPointAddr
  /\ \A t \in Task : {Isr, ExitPointAddr} \cap {Entry(t), Code(t)} = {}
<1> USE SwitchAssumption
<1>1. \A tag \in Tag, n \in Nat, t \in Task : <<tag, n, t>> \in Word
  BY DEF Word
<1>2. /\ Reg \subseteq Tag
      /\ {"value", "garbage", "exit_point", "after_exit", "default_irq_handler", "irq",
          "eflags", "segment", "entry", "code", "sp", "&sp"} \subseteq Tag
  BY DEF Tag
<1>3. {Zero, Garbage, ExitPointAddr, AfterExit, Isr, IrqNumber, EFlags, Segment} \subseteq Word
  BY <1>1, <1>2 DEF Zero, Garbage, ExitPointAddr, AfterExit, Isr, IrqNumber, EFlags, Segment
<1>4. \A t \in Task : {Entry(t), Code(t), <<"sp", 0, t>>, <<"&sp", 0, t>>} \subseteq Word
  BY <1>1, <1>2 DEF Entry, Code
<1>5. /\ Isr # ExitPointAddr
      /\ \A t \in Task : {Isr, ExitPointAddr} \cap {Entry(t), Code(t)} = {}
  BY DEF Isr, ExitPointAddr, Entry, Code
<1>6. QED
  BY <1>1, <1>2, <1>3, <1>4, <1>5

LEMMA Registers ==
  /\ \A j \in 1..7 : PushOrder[j] \in Reg
  /\ \A j \in 4..7 : PushOrder[j] \in CalleeSaved
  /\ \A r \in CalleeSaved : \E j \in 4..7 : PushOrder[j] = r
  /\ PushOrder[1] = "eax" /\ PushOrder[2] = "ecx" /\ PushOrder[3] = "edx"
  /\ \A i, j \in 1..7 : PushOrder[i] = PushOrder[j] => i = j
  /\ \A j \in 1..7 : PopOrder[8 - j] = PushOrder[j]
  /\ CalleeSaved \subseteq Reg
  /\ \A r \in CalleeSaved : r \notin {"eax", "ecx", "edx"}
  /\ \A r \in Reg : \E j \in 1..7 : PushOrder[j] = r
<1>1. /\ PushOrder[1] = "eax" /\ PushOrder[2] = "ecx" /\ PushOrder[3] = "edx"
      /\ PushOrder[4] = "ebx" /\ PushOrder[5] = "ebp" /\ PushOrder[6] = "esi"
      /\ PushOrder[7] = "edi"
  BY DEF PushOrder
<1>2. /\ PopOrder[1] = "edi" /\ PopOrder[2] = "esi" /\ PopOrder[3] = "ebp"
      /\ PopOrder[4] = "ebx" /\ PopOrder[5] = "edx" /\ PopOrder[6] = "ecx"
      /\ PopOrder[7] = "eax"
  BY DEF PopOrder
<1>3. /\ \A j \in 1..7 : j \in {1, 2, 3, 4, 5, 6, 7}
      /\ \A j \in 4..7 : j \in {4, 5, 6, 7}
  OBVIOUS
<1>4. /\ \A j \in 1..7 : PushOrder[j] \in Reg
      /\ \A j \in 4..7 : PushOrder[j] \in CalleeSaved
      /\ \A i, j \in 1..7 : PushOrder[i] = PushOrder[j] => i = j
  BY <1>1, <1>3 DEF Reg, CalleeSaved
<1>5. \A j \in 1..7 : PopOrder[8 - j] = PushOrder[j]
  BY <1>1, <1>2, <1>3
<1>6. /\ \A r \in CalleeSaved : \E j \in 4..7 : PushOrder[j] = r
      /\ \A r \in Reg : \E j \in 1..7 : PushOrder[j] = r
  BY <1>1 DEF Reg, CalleeSaved
<1>7. QED
  BY <1>1, <1>4, <1>5, <1>6 DEF Reg, CalleeSaved

-----------------------------------------------------------------------------
LEMMA Joined ==
  ASSUME NEW s \in Seq(Word), NEW w \in Seq(Word)
  PROVE  /\ s \o w \in Seq(Word)
         /\ Len(s \o w) = Len(s) + Len(w)
         /\ \A i \in 1..Len(s) : (s \o w)[i] = s[i]
         /\ \A i \in 1..Len(w) : (s \o w)[Len(s) + i] = w[i]
  BY LenProperties

(* Pushing on a stack whose pointer is at its end.                         *)
LEMMA PushEffect ==
  ASSUME NEW mem \in Memory, NEW t \in Task, NEW words \in Seq(Word), NEW d \in Nat,
         d <= Len(mem[t])
  PROVE  LET m == PushAll(mem, Ptr(t, d), words)
         IN /\ m \in Memory
            /\ \A u \in Task \ {t} : m[u] = mem[u]
            /\ Len(m[t]) = d + Len(words)
            /\ \A i \in 1..d : m[t][i] = mem[t][i]
            /\ \A i \in 1..Len(words) : m[t][d + i] = words[i]
<1> DEFINE s == SubSeq(mem[t], 1, d)
           m == PushAll(mem, Ptr(t, d), words)
<1>1. mem[t] \in Seq(Word) /\ Len(mem[t]) \in Nat
  BY DEF Memory
<1>2. s \in Seq(Word) /\ Len(s) = d /\ \A i \in 1..d : s[i] = mem[t][i]
  BY <1>1
<1> HIDE DEF s
<1>3. /\ s \o words \in Seq(Word) /\ Len(s \o words) = d + Len(words)
      /\ \A i \in 1..d : (s \o words)[i] = s[i]
      /\ \A i \in 1..Len(words) : (s \o words)[d + i] = words[i]
  BY <1>2, LenProperties
<1>4. m = [mem EXCEPT ![t] = s \o words]
  BY DEF PushAll, Ptr, s, Memory
<1>5. m[t] = s \o words /\ m \in Memory /\ \A u \in Task \ {t} : m[u] = mem[u]
  BY <1>3, <1>4 DEF Memory
<1>6. QED
  BY <1>2, <1>3, <1>5

LEMMA PushOneEffect ==
  ASSUME NEW mem \in Memory, NEW t \in Task, NEW word \in Word, NEW d \in Nat,
         d = Len(mem[t])
  PROVE  LET m == PushAll(mem, Ptr(t, d), <<word>>)
         IN /\ m \in Memory
            /\ \A u \in Task \ {t} : m[u] = mem[u]
            /\ Len(m[t]) = d + 1
            /\ \A i \in 1..d : m[t][i] = mem[t][i]
            /\ m[t][d + 1] = word
<1>1. /\ <<word>> \in Seq(Word) /\ Len(<<word>>) = 1
      /\ <<word>>[1] = word /\ 1 \in 1..1
  OBVIOUS
<1>2. d <= Len(mem[t])
  OBVIOUS
<1>3. LET m == PushAll(mem, Ptr(t, d), <<word>>)
      IN /\ m \in Memory
         /\ \A u \in Task \ {t} : m[u] = mem[u]
         /\ Len(m[t]) = d + Len(<<word>>)
         /\ \A i \in 1..d : m[t][i] = mem[t][i]
         /\ \A i \in 1..Len(<<word>>) : m[t][d + i] = <<word>>[i]
  BY <1>1, <1>2, PushEffect, Zenon
<1>4. QED
  BY <1>1, <1>3

LEMMA ForgetEffect ==
  ASSUME NEW mem \in Memory, NEW t \in Task, NEW d \in Nat, d <= Len(mem[t])
  PROVE  LET m == Forget(mem, Ptr(t, d))
         IN /\ m \in Memory
            /\ \A u \in Task \ {t} : m[u] = mem[u]
            /\ Len(m[t]) = d
            /\ \A i \in 1..d : m[t][i] = mem[t][i]
<1> DEFINE s == SubSeq(mem[t], 1, d)
           m == Forget(mem, Ptr(t, d))
<1>1. mem[t] \in Seq(Word) /\ Len(mem[t]) \in Nat
  BY DEF Memory
<1>2. s \in Seq(Word) /\ Len(s) = d /\ \A i \in 1..d : s[i] = mem[t][i]
  BY <1>1
<1> HIDE DEF s
<1>3. m = [mem EXCEPT ![t] = s]
  BY DEF Forget, Ptr, s
<1>4. m[t] = s /\ m \in Memory /\ \A u \in Task \ {t} : m[u] = mem[u]
  BY <1>2, <1>3 DEF Memory
<1>5. QED
  BY <1>2, <1>4

LEMMA PushRegsEffect ==
  ASSUME NEW mem \in Memory, NEW t \in Task, NEW r \in [Reg -> Word], NEW d \in Nat,
         d <= Len(mem[t])
  PROVE  LET m == PushRegs(mem, Ptr(t, d), r)
         IN /\ m \in Memory
            /\ \A u \in Task \ {t} : m[u] = mem[u]
            /\ Len(m[t]) = d + 7
            /\ \A i \in 1..d : m[t][i] = mem[t][i]
            /\ \A i \in 1..7 : m[t][d + i] = r[PushOrder[i]]
<1> DEFINE words == [i \in 1..7 |-> r[PushOrder[i]]]
<1>1. words \in [1..7 -> Word]
  BY Registers
<1>2. words \in Seq(Word) /\ Len(words) = 7
  BY <1>1
<1>3. \A i \in 1..7 : words[i] = r[PushOrder[i]]
  OBVIOUS
<1>4. PushRegs(mem, Ptr(t, d), r) = PushAll(mem, Ptr(t, d), words)
  BY DEF PushRegs
<1> HIDE DEF words
<1>5. LET m == PushAll(mem, Ptr(t, d), words)
      IN /\ m \in Memory
         /\ \A u \in Task \ {t} : m[u] = mem[u]
         /\ Len(m[t]) = d + Len(words)
         /\ \A i \in 1..d : m[t][i] = mem[t][i]
         /\ \A i \in 1..Len(words) : m[t][d + i] = words[i]
  BY <1>2, PushEffect, Zenon
<1>6. QED
  BY <1>2, <1>3, <1>4, <1>5

(* Popping takes the registers back in the order they were pushed in.      *)
LEMMA PopRegsEffect ==
  ASSUME NEW mem \in Memory, NEW t \in Task, NEW d \in Nat, d = Len(mem[t]), d >= 7
  PROVE  /\ PopRegs(mem, Ptr(t, d)) \in [Reg -> Word]
         /\ \A j \in 1..7 : PopRegs(mem, Ptr(t, d))[PushOrder[j]] = mem[t][d - 7 + j]
<1> DEFINE pop == PopRegs(mem, Ptr(t, d))
           Slot(r) == CHOOSE i \in 1..7 : PopOrder[i] = r
<1>1. pop = [r \in Reg |-> WordAt(mem, Ptr(t, d), Slot(r) - 1)]
  BY DEF PopRegs
<1>2. \A j \in 1..7 : Slot(PushOrder[j]) = 8 - j
  <2> SUFFICES ASSUME NEW j \in 1..7 PROVE Slot(PushOrder[j]) = 8 - j
    OBVIOUS
  <2>1. 8 - j \in 1..7 /\ PopOrder[8 - j] = PushOrder[j]
    BY Registers
  <2>2. Slot(PushOrder[j]) \in 1..7 /\ PopOrder[Slot(PushOrder[j])] = PushOrder[j]
    BY <2>1
  <2> HIDE DEF Slot
  <2>3. /\ 8 - Slot(PushOrder[j]) \in 1..7
        /\ 8 - (8 - Slot(PushOrder[j])) = Slot(PushOrder[j])
    BY <2>2
  <2>4. PopOrder[8 - (8 - Slot(PushOrder[j]))] = PushOrder[8 - Slot(PushOrder[j])]
    BY <2>3, Registers
  <2>5. PushOrder[8 - Slot(PushOrder[j])] = PushOrder[j]
    BY <2>2, <2>3, <2>4
  <2>6. 8 - Slot(PushOrder[j]) = j
    BY <2>3, <2>5, Registers
  <2>7. QED
    BY <2>2, <2>6
<1> HIDE DEF Slot
<1>3. /\ mem[t] \in Seq(Word) /\ DOMAIN mem[t] = 1..d
      /\ \A i \in 1..d : mem[t][i] \in Word
  BY LenProperties, ElementOfSeq DEF Memory
<1>4. \A j \in 1..7 : /\ pop[PushOrder[j]] = mem[t][d - 7 + j]
                      /\ mem[t][d - 7 + j] \in Word
  <2> SUFFICES ASSUME NEW j \in 1..7
               PROVE  /\ pop[PushOrder[j]] = mem[t][d - 7 + j]
                      /\ mem[t][d - 7 + j] \in Word
    OBVIOUS
  <2>1. d - (8 - j - 1) = d - 7 + j /\ d - 7 + j \in 1..d
    OBVIOUS
  <2>2. pop[PushOrder[j]] = WordAt(mem, Ptr(t, d), (8 - j) - 1)
    BY <1>1, <1>2, Registers
  <2>3. QED
    BY <1>3, <2>1, <2>2 DEF WordAt, Ptr
<1>5. ASSUME NEW r \in Reg PROVE pop[r] \in Word
  <2>1. PICK j \in 1..7 : PushOrder[j] = r
    BY Registers
  <2>2. QED
    BY <1>4, <2>1
<1>6. QED
  BY <1>1, <1>4, <1>5

-----------------------------------------------------------------------------
(* The words of a thread's open calls: below them, for all but init_task,  *)
(* lies the address of exit_point().                                       *)
BaseLen(fr, t) == fr[t] + (IF t = init_task THEN 0 ELSE 1)

HoldsCalls(s, n, t) ==
    \A i \in 1..n : s[i] = IF i = 1 /\ t # init_task THEN ExitPointAddr ELSE Code(t)

(* Above depth n, seven registers of which the preserved ones are c.       *)
Saved(s, n, c) == \A j \in 4..7 : s[n + j] = c[PushOrder[j]]

(* A thread that waits: its calls, the address it goes on at, and its      *)
(* registers, with the saved stack pointer above them.                     *)
Suspended(mem, sps, cx, fr, t) ==
    LET n == BaseLen(fr, t)
    IN /\ sps[t] = Ptr(t, n + 8)
       /\ Len(mem[t]) = n + 8
       /\ HoldsCalls(mem[t], n, t)
       /\ mem[t][n + 1] \in {Entry(t), Code(t)}
       /\ Saved(mem[t], n + 1, cx[t])

(* The thread t has the CPU, at address o of its own code or, when its     *)
(* calls are all gone, in exit_point(), under k interrupts being handled.  *)
Floor(t, o) == IF o = ExitPointAddr THEN 0 ELSE BaseLen(frames, t)

OnCpu(t, o, k) ==
    LET b == Floor(t, o)
    IN /\ esp = Ptr(t, b + 13 * k)
       /\ Len(stack[t]) = b + 13 * k
       /\ pc = IF k = 0 THEN o ELSE Isr
       /\ \A r \in CalleeSaved : regs[r] = ctx[t][r]
       /\ \A m \in 0..k - 1 : /\ stack[t][b + 13 * m + 3] = IF m = 0 THEN o ELSE Isr
                             /\ Saved(stack[t], b + 13 * m + 6, ctx[t])
       /\ IF o = ExitPointAddr
          THEN /\ t # init_task /\ frames[t] = 0
               /\ returned[t] = IF k = 0 THEN regs["eax"] ELSE stack[t][7]
          ELSE HoldsCalls(stack[t], b, t)

Types == /\ stack \in Memory
         /\ sp \in [Task -> Pointer]
         /\ ret \in [Task -> Word]
         /\ regs \in [Reg -> Word]
         /\ pc \in Word
         /\ ctx \in [Task -> [CalleeSaved -> Word]]
         /\ frames \in [Task -> Nat]
         /\ returned \in [Task -> Word]

CpuInv == \E k \in Nat : \E o \in {Entry(current), Code(current), ExitPointAddr} :
             OnCpu(current, o, k)

WaitInv == \A t \in L!Waiting : Suspended(stack, sp, ctx, frames, t)

RetInv == \A t \in L!Zombies : ret[t] = returned[t]

SwitchInv == L!PointerInv /\ Types /\ CpuInv /\ WaitInv /\ RetInv

-----------------------------------------------------------------------------
LEMMA SameAddresses == L!DistinctAddresses /\ init_task \in Task
  BY SwitchAssumption, AddressAssumption
     DEF L!DistinctAddresses, S!DistinctAddresses, L!TASK_LIST, S!TASK_LIST, L!NULL, S!NULL

LEMMA SameSchedule ==
  ASSUME NEW h, NEW list, NEW st
  PROVE  L!Schedule(h, list, st) <=> S!Schedule(h, list, st)
  BY DEF L!Schedule, S!Schedule, L!list_first_entry_or_null, S!list_first_entry_or_null,
     L!NULL, S!NULL, L!TASK_LIST, S!TASK_LIST, L!Panic, S!Panic, L!Enqueue, S!Enqueue,
     L!Enqueued, S!Enqueued, L!PutToSleep, S!PutToSleep, L!Dequeue, S!Dequeue,
     L!Running, S!Running, L!Sleeping, S!Sleeping, L!Abstract!TASK_RUNNING,
     S!Abstract!TASK_RUNNING, L!Abstract!TASK_SLEEPING, S!Abstract!TASK_SLEEPING,
     L!list_add_tail, S!list_add_tail, L!list_del_init, S!list_del_init,
     L!ListAddBetween, S!ListAddBetween, L!ListDelEntry, S!ListDelEntry,
     L!ListDelBetween, S!ListDelBetween, L!INIT_LIST_HEAD, S!INIT_LIST_HEAD,
     L!SetNext, S!SetNext, L!SetPrev, S!SetPrev

LEMMA SameSteps ==
  /\ L!Yield <=> S!Yield
  /\ L!Exit <=> S!Exit
  /\ \A t : L!TaskRun(t) <=> S!TaskRun(t)
  BY SameSchedule
     DEF L!Yield, S!Yield, L!Exit, S!Exit, L!TaskRun, S!TaskRun, L!Abstract!Listed,
     S!Abstract!Listed, L!Abstract!TASK_ZOMBIE, S!Abstract!TASK_ZOMBIE, L!Sleeping,
     S!Sleeping, L!Abstract!TASK_SLEEPING, S!Abstract!TASK_SLEEPING, L!list_add,
     S!list_add, L!ListAddBetween, S!ListAddBetween, L!SetNext, S!SetNext, L!SetPrev,
     S!SetPrev, L!TASK_LIST, S!TASK_LIST

LEMMA SameInit == L!Init <=> S!Init
  BY DEF L!Init, S!Init, L!Abstract!Init, S!Abstract!Init, L!Abstract!TASK_RUNNING,
     S!Abstract!TASK_RUNNING, L!TASK_LIST, S!TASK_LIST, L!NULL, S!NULL

LEMMA SameIntact == L!ListIntact <=> S!ListIntact
  BY DEF L!ListIntact, S!ListIntact, L!Represents, S!Represents, L!At, S!At,
     L!TASK_LIST, S!TASK_LIST

-----------------------------------------------------------------------------
(* switch_to(), from the end of the stack of prev to that of next.         *)
LEMMA SwitchEffect ==
  ASSUME Types,
         NEW mem \in Memory, NEW sps \in [Task -> Pointer],
         NEW prev \in Task, NEW next \in Task, prev # next,
         NEW d \in Nat, d = Len(mem[prev]),
         NEW n \in Nat, Len(mem[next]) = n + 8, sps[next] = Ptr(next, n + 8),
         SwitchTo(mem, sps, Ptr(prev, d), prev, next)
  PROVE  /\ stack' \in Memory /\ sp' \in [Task -> Pointer]
         /\ regs' \in [Reg -> Word] /\ pc' \in Word
         /\ \A u \in Task \ {prev, next} : stack'[u] = mem[u] /\ sp'[u] = sps[u]
         /\ sp'[prev] = Ptr(prev, d + 7)
         /\ Len(stack'[prev]) = d + 7
         /\ \A i \in 1..d : stack'[prev][i] = mem[prev][i]
         /\ Saved(stack'[prev], d, regs)
         /\ Len(stack'[next]) = n
         /\ \A i \in 1..n : stack'[next][i] = mem[next][i]
         /\ Saved(mem[next], n + 1, regs')
         /\ pc' = mem[next][n + 1]
         /\ esp' = Ptr(next, n)
<1> DEFINE r == [regs EXCEPT !["eax"] = <<"sp", 0, next>>,
                             !["edx"] = <<"&sp", 0, prev>>,
                             !["ecx"] = Garbage]
           mem2 == PushRegs(mem, Ptr(prev, d), r)
           sps2 == [sps EXCEPT ![prev] = Up(Ptr(prev, d), 7)]
<1>1. Up(Ptr(prev, d), 7) = Ptr(prev, d + 7) /\ Up(Ptr(next, n + 8), -8) = Ptr(next, n)
  BY DEF Up, Ptr
<1>2. sps2[next] = Ptr(next, n + 8)
  OBVIOUS
<1>3. /\ stack' = Forget(mem2, Ptr(next, n))
      /\ sp' = sps2
      /\ regs' = PopRegs(mem2, Ptr(next, n + 8))
      /\ pc' = WordAt(mem2, Ptr(next, n + 8), 7)
      /\ esp' = Ptr(next, n)
  BY <1>1, <1>2 DEF SwitchTo
<1>4. /\ r \in [Reg -> Word]
      /\ \A j \in 4..7 : r[PushOrder[j]] = regs[PushOrder[j]]
  BY Words, Registers DEF Types
<1> HIDE DEF r
<1>5. /\ mem2 \in Memory
      /\ \A u \in Task \ {prev} : mem2[u] = mem[u]
      /\ Len(mem2[prev]) = d + 7
      /\ \A i \in 1..d : mem2[prev][i] = mem[prev][i]
      /\ \A i \in 1..7 : mem2[prev][d + i] = r[PushOrder[i]]
  <2>1. d <= Len(mem[prev])
    OBVIOUS
  <2>2. QED
    BY <1>4, <2>1, PushRegsEffect
<1> HIDE DEF mem2
<1>6. mem2[next] = mem[next] /\ Len(mem2[next]) = n + 8 /\ n + 8 \in Nat /\ n + 8 >= 7
  BY <1>5
<1>7. /\ regs' \in [Reg -> Word]
      /\ \A j \in 1..7 : regs'[PushOrder[j]] = mem2[next][(n + 8) - 7 + j]
  BY <1>3, <1>5, <1>6, PopRegsEffect
<1>8. /\ stack' \in Memory
      /\ \A u \in Task \ {next} : stack'[u] = mem2[u]
      /\ Len(stack'[next]) = n
      /\ \A i \in 1..n : stack'[next][i] = mem2[next][i]
  <2>1. n <= Len(mem2[next])
    BY <1>6
  <2>2. LET m == Forget(mem2, Ptr(next, n))
        IN /\ m \in Memory
           /\ \A u \in Task \ {next} : m[u] = mem2[u]
           /\ Len(m[next]) = n
           /\ \A i \in 1..n : m[next][i] = mem2[next][i]
    BY <1>5, <2>1, ForgetEffect, Zenon
  <2>3. QED
    BY <1>3, <2>2
<1>9. pc' = mem[next][n + 1] /\ pc' \in Word
  <2>1. mem2[next] \in Seq(Word) /\ DOMAIN mem2[next] = 1..(n + 8)
    BY <1>5, <1>6, LenProperties DEF Memory
  <2>2. n + 8 - 7 = n + 1 /\ n + 1 \in 1..(n + 8)
    OBVIOUS
  <2>3. pc' = mem2[next][n + 1]
    BY <1>3, <2>1, <2>2 DEF WordAt, Ptr
  <2>4. mem2[next][n + 1] \in Word
    BY <2>1, <2>2, ElementOfSeq, <1>6
  <2>5. QED
    BY <1>6, <2>3, <2>4
<1>10. \A j \in 1..7 : regs'[PushOrder[j]] = mem[next][n + 1 + j]
  <2> SUFFICES ASSUME NEW j \in 1..7 PROVE regs'[PushOrder[j]] = mem[next][n + 1 + j]
    OBVIOUS
  <2>1. (n + 8) - 7 + j = n + 1 + j
    OBVIOUS
  <2>2. QED
    BY <1>6, <1>7, <2>1
<1>11. /\ sp' \in [Task -> Pointer]
       /\ \A u \in Task \ {prev} : sp'[u] = sps[u]
       /\ sp'[prev] = Ptr(prev, d + 7)
  BY <1>1, <1>3 DEF Pointer, Ptr
<1>12. /\ stack'[prev] = mem2[prev]
       /\ \A j \in 4..7 : stack'[prev][d + j] = regs[PushOrder[j]]
  <2>1. stack'[prev] = mem2[prev]
    BY <1>8
  <2>2. \A j \in 4..7 : j \in 1..7
    OBVIOUS
  <2>3. QED
    BY <1>4, <1>5, <2>1, <2>2
<1>13. Saved(mem[next], n + 1, regs')
  <2> SUFFICES ASSUME NEW j \in 4..7 PROVE mem[next][(n + 1) + j] = regs'[PushOrder[j]]
    BY DEF Saved
  <2>1. j \in 1..7
    OBVIOUS
  <2>2. QED
    BY <1>10, <2>1
<1>14. QED
  BY <1>3, <1>5, <1>6, <1>7, <1>8, <1>9, <1>11, <1>12, <1>13 DEF Saved

-----------------------------------------------------------------------------
(* A step that the scheduler has no part in.                               *)
LEMMA Facts ==
  ASSUME SwitchInv
  PROVE  /\ current \in Task /\ L!Waiting \subseteq Task /\ current \notin L!Waiting
         /\ \A t \in Task : BaseLen(frames, t) \in Nat
  BY L!WaitingFacts DEF SwitchInv, Types, BaseLen

LEMMA QuietStep ==
  ASSUME SwitchInv, UNCHANGED sched
  PROVE  /\ L!PointerInv'
         /\ current' = current /\ L!Waiting' = L!Waiting /\ L!Zombies' = L!Zombies
<1>1. L!vars' = L!vars
  BY DEF sched, L!vars
<1>2. L!PointerInv'
  BY <1>1, SameAddresses, L!StepOnPointers DEF SwitchInv
<1>3. QED
  BY <1>2 DEF sched, L!Waiting, L!Zombies, L!Abstract!Listed, L!Abstract!TASK_ZOMBIE

LEMMA OthersWait ==
  ASSUME SwitchInv, UNCHANGED sched,
         \A u \in Task \ {current} : /\ stack'[u] = stack[u] /\ sp'[u] = sp[u]
                                     /\ ctx'[u] = ctx[u] /\ frames'[u] = frames[u]
  PROVE  WaitInv'
<1>1. \A t \in L!Waiting : t \in Task \ {current}
  BY Facts
<1>2. \A t \in L!Waiting : Suspended(stack, sp, ctx, frames, t)
  BY DEF SwitchInv, WaitInv
<1>3. \A t \in L!Waiting : Suspended(stack', sp', ctx', frames', t)
  BY <1>1, <1>2 DEF Suspended, BaseLen
<1>4. QED
  BY <1>3, QuietStep DEF WaitInv

(* What is known while a thread executes its own code, and what is enough  *)
(* to say that it does.                                                    *)
LEMMA InThread ==
  ASSUME SwitchInv, InCode(current)
  PROVE  LET n == BaseLen(frames, current)
         IN /\ esp = Ptr(current, n)
            /\ Len(stack[current]) = n
            /\ HoldsCalls(stack[current], n, current)
            /\ \A r \in CalleeSaved : regs[r] = ctx[current][r]
<1>1. PICK k \in Nat, o \in {Entry(current), Code(current), ExitPointAddr} :
           OnCpu(current, o, k)
  BY DEF SwitchInv, CpuInv
<1>2. pc # Isr /\ pc # ExitPointAddr
  BY Facts, Words DEF InCode
<1>3. k = 0 /\ pc = o /\ o # ExitPointAddr
  BY <1>1, <1>2 DEF OnCpu
<1>4. /\ Floor(current, o) = BaseLen(frames, current)
      /\ Floor(current, o) + 13 * k = BaseLen(frames, current)
  BY <1>3, Facts DEF Floor
<1>5. QED
  BY <1>1, <1>3, <1>4 DEF OnCpu

LEMMA EnterThread ==
  ASSUME NEW t \in Task, t = current', NEW n \in Nat, n = BaseLen(frames', t),
         NEW o \in {Entry(t), Code(t)}, pc' = o,
         esp' = Ptr(t, n), Len(stack'[t]) = n, HoldsCalls(stack'[t], n, t),
         \A r \in CalleeSaved : regs'[r] = ctx'[t][r]
  PROVE  CpuInv'
<1>1. o # ExitPointAddr
  BY Words
<1>2. Floor(t, o)' = n
  BY <1>1 DEF Floor
<1>3. n + 13 * 0 = n /\ \A m \in 0..0 - 1 : FALSE
  OBVIOUS
<1>4. OnCpu(t, o, 0)'
  BY <1>1, <1>2, <1>3 DEF OnCpu
<1>5. QED
  BY <1>4 DEF CpuInv

LEMMA ComputeStep ==
  ASSUME SwitchInv, NEW v \in 1..MaxValue, Compute(v)
  PROVE  SwitchInv'
<1> USE DEF Compute
<1>v. v \in Nat
  BY SwitchAssumption
<1>1. /\ current \in Task /\ v \in Nat /\ UNCHANGED sched
      /\ Code(current) \in Word /\ BaseLen(frames, current) \in Nat
  BY <1>v, Facts, Words
<1>2. L!PointerInv' /\ current' = current /\ L!Zombies' = L!Zombies
  BY <1>1, QuietStep
<1>3. /\ \A r \in Reg : regs'[r] = <<r, v, current>> /\ regs'[r] \in Word
      /\ regs' \in [Reg -> Word]
  BY <1>1, Words
<1>4. ctx' \in [Task -> [CalleeSaved -> Word]] /\ \A r \in CalleeSaved : regs'[r] = ctx'[current][r]
  BY <1>1, <1>3, Registers DEF SwitchInv, Types
<1>5. Types'
  BY <1>1, <1>3, <1>4 DEF SwitchInv, Types
<1>6. CpuInv'
  <2>1. BaseLen(frames', current) = BaseLen(frames, current)
    BY DEF BaseLen
  <2>2. QED
    BY <1>1, <1>2, <1>4, <2>1, InThread, EnterThread
<1>7. WaitInv'
  BY <1>1, OthersWait DEF SwitchInv, Types
<1>8. RetInv'
  BY <1>2 DEF SwitchInv, RetInv
<1>9. QED
  BY <1>2, <1>5, <1>6, <1>7, <1>8 DEF SwitchInv

LEMMA CallStep ==
  ASSUME SwitchInv, CallFunction
  PROVE  SwitchInv'
<1> DEFINE n == BaseLen(frames, current)
<1> USE DEF CallFunction
<1>1. /\ current \in Task /\ UNCHANGED sched /\ Code(current) \in Word /\ n \in Nat
  BY Facts, Words
<1>2. L!PointerInv' /\ current' = current /\ L!Zombies' = L!Zombies
  BY <1>1, QuietStep
<1>3. /\ esp = Ptr(current, n) /\ Len(stack[current]) = n
      /\ HoldsCalls(stack[current], n, current)
      /\ \A r \in CalleeSaved : regs[r] = ctx[current][r]
  BY InThread
<1>4. frames' \in [Task -> Nat] /\ BaseLen(frames', current) = n + 1
  BY <1>1 DEF SwitchInv, Types, BaseLen
<1>5. n = 0 => current = init_task
  BY <1>1 DEF SwitchInv, Types, BaseLen
<1> HIDE DEF n
<1>6. esp' = Ptr(current, n + 1)
  BY <1>3 DEF Up, Ptr
<1>7. /\ stack' \in Memory
      /\ \A u \in Task \ {current} : stack'[u] = stack[u]
      /\ Len(stack'[current]) = n + 1
      /\ \A i \in 1..n : stack'[current][i] = stack[current][i]
      /\ stack'[current][n + 1] = Code(current)
  <2>1. /\ stack \in Memory /\ n = Len(stack[current])
        /\ current \in Task /\ Code(current) \in Word /\ n \in Nat
    BY <1>1, <1>3 DEF SwitchInv, Types
  <2>2. stack' = PushAll(stack, Ptr(current, n), <<Code(current)>>)
    BY <1>3
  <2>3. stack' \in Memory
    BY <2>1, <2>2, PushOneEffect
  <2>4. \A u \in Task \ {current} : stack'[u] = stack[u]
    BY <2>1, <2>2, PushOneEffect
  <2>5. /\ Len(stack'[current]) = n + 1
        /\ stack'[current][n + 1] = Code(current)
    BY <2>1, <2>2, PushOneEffect
  <2>6. \A i \in 1..n : stack'[current][i] = stack[current][i]
    BY <2>1, <2>2, PushOneEffect
  <2>7. QED
    BY <2>3, <2>4, <2>5, <2>6
<1>8. HoldsCalls(stack'[current], n + 1, current)
  <2> SUFFICES ASSUME NEW i \in 1..n + 1
               PROVE  stack'[current][i] = IF i = 1 /\ current # init_task
                                           THEN ExitPointAddr ELSE Code(current)
    BY DEF HoldsCalls
  <2>1. CASE i \in 1..n
    BY <1>3, <1>7, <2>1 DEF HoldsCalls
  <2>2. CASE i = n + 1
    BY <1>1, <1>5, <1>7, <2>2
  <2>3. QED
    BY <1>1, <2>1, <2>2
<1>9. CpuInv'
  <2>1. /\ n + 1 \in Nat /\ n + 1 = BaseLen(frames', current)
        /\ pc' = Code(current) /\ Len(stack'[current]) = n + 1
    BY <1>1, <1>4, <1>7
  <2>2. \A r \in CalleeSaved : regs'[r] = ctx'[current][r]
    BY <1>3
  <2>3. QED
    BY <1>1, <1>2, <1>6, <1>8, <2>1, <2>2, EnterThread
<1>10. Types'
  BY <1>1, <1>4, <1>7 DEF SwitchInv, Types
<1>11. WaitInv'
  BY <1>1, <1>7, OthersWait DEF SwitchInv, Types
<1>12. RetInv'
  BY <1>2 DEF SwitchInv, RetInv
<1>13. QED
  BY <1>2, <1>9, <1>10, <1>11, <1>12 DEF SwitchInv

LEMMA ReturnStep ==
  ASSUME SwitchInv, NEW v \in 1..MaxValue, Return(v)
  PROVE  SwitchInv'
<1> DEFINE n == BaseLen(frames, current)
<1> USE DEF Return
<1>v. v \in Nat
  BY SwitchAssumption
<1>1. /\ current \in Task /\ UNCHANGED sched /\ Code(current) \in Word /\ n \in Nat
      /\ v \in Nat /\ frames[current] \in Nat
  BY <1>v, Facts, Words DEF SwitchInv, Types
<1>2. L!PointerInv' /\ current' = current /\ L!Zombies' = L!Zombies
  BY <1>1, QuietStep
<1>3. /\ esp = Ptr(current, n) /\ Len(stack[current]) = n
      /\ HoldsCalls(stack[current], n, current)
      /\ \A r \in CalleeSaved : regs[r] = ctx[current][r]
  BY InThread
<1>4. n > 0
  BY <1>1 DEF BaseLen
<1>5. n - 1 \in Nat /\ n \in 1..n /\ esp' = Ptr(current, n - 1)
  BY <1>1, <1>3, <1>4 DEF Up, Ptr
<1>6. /\ stack' \in Memory
      /\ \A u \in Task \ {current} : stack'[u] = stack[u]
      /\ Len(stack'[current]) = n - 1
      /\ \A i \in 1..n - 1 : stack'[current][i] = stack[current][i]
  <2>1. stack \in Memory /\ n - 1 <= Len(stack[current])
    BY <1>1, <1>3 DEF SwitchInv, Types
  <2>2. LET m == Forget(stack, Ptr(current, n - 1))
        IN /\ m \in Memory
           /\ \A u \in Task \ {current} : m[u] = stack[u]
           /\ Len(m[current]) = n - 1
           /\ \A i \in 1..n - 1 : m[current][i] = stack[current][i]
    BY <1>1, <1>5, <2>1, ForgetEffect, Zenon
  <2>3. stack' = Forget(stack, Ptr(current, n - 1))
    BY <1>5
  <2>4. QED
    BY <2>2, <2>3
<1>7. pc' = stack[current][n] /\ pc' \in Word
  <2>1. stack[current] \in Seq(Word) /\ DOMAIN stack[current] = 1..n
    BY <1>1, <1>3, LenProperties DEF SwitchInv, Types, Memory
  <2>2. n - 0 = n
    BY <1>1
  <2>3. pc' = stack[current][n]
    BY <1>3, <1>5, <2>1, <2>2 DEF WordAt, Ptr
  <2>4. QED
    BY <1>3, <1>5, <2>1, <2>3, ElementOfSeq
<1>8. /\ regs' \in [Reg -> Word]
      /\ regs'["eax"] = <<"eax", v, current>> /\ regs'["eax"] \in Word
      /\ \A r \in CalleeSaved : regs'[r] = ctx'[current][r]
  <2>1. "eax" \in Reg /\ <<"eax", v, current>> \in Word
    BY <1>1, Words DEF Reg
  <2>2. QED
    BY <1>3, <2>1, Registers DEF SwitchInv, Types
<1>9. Types'
  <2>1. frames' \in [Task -> Nat] /\ returned' \in [Task -> Word]
    <3>1. CASE frames[current] > 0
      BY <1>1, <3>1 DEF SwitchInv, Types
    <3>2. CASE ~(frames[current] > 0)
      BY <1>1, <1>8, <3>2 DEF SwitchInv, Types
    <3>3. QED
      BY <3>1, <3>2
  <2>2. QED
    BY <1>6, <1>7, <1>8, <2>1 DEF SwitchInv, Types
<1>10. WaitInv'
  <2>1. \A u \in Task \ {current} : frames'[u] = frames[u]
    BY DEF SwitchInv, Types
  <2>2. QED
    BY <1>1, <1>6, <2>1, OthersWait
<1>11. RetInv'
  <2>1. ret' = ret /\ \A t \in Task \ {current} : returned'[t] = returned[t]
    BY DEF SwitchInv, Types
  <2>2. L!Zombies \subseteq Task \ {current}
    BY L!RunningIsNoZombie DEF SwitchInv
  <2>3. QED
    BY <1>2, <2>1, <2>2 DEF SwitchInv, RetInv
<1>12. CpuInv'
  <2>1. CASE frames[current] > 0
    <3>1. BaseLen(frames', current) = n - 1
      BY <1>1, <2>1 DEF SwitchInv, Types, BaseLen
    <3>2. ~(n = 1 /\ current # init_task)
      BY <1>1, <2>1 DEF BaseLen
    <3> HIDE DEF n
    <3>3. pc' = Code(current)
      BY <1>3, <1>5, <1>7, <3>2 DEF HoldsCalls
    <3>4. \A i \in 1..n - 1 : i \in 1..n
      BY <1>1
    <3>5. HoldsCalls(stack'[current], n - 1, current)
      BY <1>3, <1>6, <3>4 DEF HoldsCalls
    <3>6. QED
      BY <1>1, <1>2, <1>5, <1>6, <1>8, <3>1, <3>3, <3>5, EnterThread
  <2>2. CASE ~(frames[current] > 0)
    <3>1. frames[current] = 0 /\ current # init_task /\ n = 1
      BY <1>1, <2>2 DEF BaseLen
    <3>2. pc' = ExitPointAddr
      BY <1>3, <1>5, <1>7, <3>1 DEF HoldsCalls
    <3>3. frames' = frames /\ returned'[current] = regs'["eax"]
      BY <1>1, <2>2 DEF SwitchInv, Types
    <3>4. 0 + 13 * 0 = 0 /\ n - 1 = 0 /\ \A m \in 0..0 - 1 : FALSE
      BY <3>1
    <3>5. Len(stack'[current]) = 0 /\ esp' = Ptr(current, 0)
      BY <1>5, <1>6, <3>4
    <3>6. Floor(current, ExitPointAddr)' = 0
      BY DEF Floor
    <3>7. OnCpu(current, ExitPointAddr, 0)'
      BY <1>2, <1>8, <3>1, <3>2, <3>3, <3>4, <3>5, <3>6 DEF OnCpu, ExitPointAddr
    <3>8. QED
      BY <1>2, <3>7 DEF CpuInv
  <2>3. QED
    BY <2>1, <2>2
<1>13. QED
  BY <1>2, <1>9, <1>10, <1>11, <1>12 DEF SwitchInv

-----------------------------------------------------------------------------
LEMMA InterruptEnterStep ==
  ASSUME SwitchInv, InterruptEnter
  PROVE  SwitchInv'
<1>1. current \in Task /\ UNCHANGED sched
  BY Facts DEF InterruptEnter
<1>2. L!PointerInv' /\ current' = current /\ L!Zombies' = L!Zombies
  BY <1>1, QuietStep
<1>3. PICK k \in Nat, o \in {Entry(current), Code(current), ExitPointAddr} :
           OnCpu(current, o, k)
  BY DEF SwitchInv, CpuInv
<1> DEFINE b == Floor(current, o)
           d == b + 13 * k
           low == <<EFlags, Segment, pc, IrqNumber, Segment, Segment>>
           mem == PushAll(stack, esp, low)
<1>4. /\ b \in Nat /\ d \in Nat /\ b <= d /\ d + 6 \in Nat
      /\ Types /\ stack \in Memory /\ regs \in [Reg -> Word]
  BY <1>1, Facts DEF Floor, SwitchInv, Types
<1>5. /\ esp = Ptr(current, d) /\ Len(stack[current]) = d
      /\ pc = IF k = 0 THEN o ELSE Isr
      /\ \A r \in CalleeSaved : regs[r] = ctx[current][r]
      /\ \A m \in 0..k - 1 : /\ stack[current][b + 13 * m + 3] = IF m = 0 THEN o ELSE Isr
                            /\ Saved(stack[current], b + 13 * m + 6, ctx[current])
      /\ o = ExitPointAddr =>
           /\ current # init_task /\ frames[current] = 0
           /\ returned[current] = IF k = 0 THEN regs["eax"] ELSE stack[current][7]
      /\ o # ExitPointAddr => HoldsCalls(stack[current], b, current)
  BY <1>3 DEF OnCpu
<1>6. o = ExitPointAddr => b = 0
  BY DEF Floor
<1>7. Floor(current, o)' = b
  BY <1>2 DEF Floor, BaseLen, InterruptEnter, history
<1> HIDE DEF b
<1>8. low \in Seq(Word) /\ Len(low) = 6 /\ low[3] = pc /\ 3 \in 1..Len(low)
  BY <1>4, Words DEF Types
<1> HIDE DEF low
<1>9. /\ mem \in Memory
      /\ \A u \in Task \ {current} : mem[u] = stack[u]
      /\ Len(mem[current]) = d + 6
      /\ \A i \in 1..d : mem[current][i] = stack[current][i]
      /\ mem[current][d + 3] = pc
  <2>1. d <= Len(stack[current])
    BY <1>4, <1>5
  <2>2. LET m == PushAll(stack, Ptr(current, d), low)
        IN /\ m \in Memory
           /\ \A u \in Task \ {current} : m[u] = stack[u]
           /\ Len(m[current]) = d + Len(low)
           /\ \A i \in 1..d : m[current][i] = stack[current][i]
           /\ \A i \in 1..Len(low) : m[current][d + i] = low[i]
    BY <1>1, <1>4, <1>8, <2>1, PushEffect, Zenon
  <2>3. QED
    BY <1>5, <1>8, <2>2
<1> HIDE DEF d
<1>10. /\ stack' = PushRegs(mem, Ptr(current, d + 6), regs)
       /\ esp' = Ptr(current, d + 13)
  BY <1>4, <1>5 DEF InterruptEnter, Up, Ptr, low
<1> HIDE DEF mem
<1>11. /\ stack' \in Memory
       /\ \A u \in Task \ {current} : stack'[u] = stack[u]
       /\ Len(stack'[current]) = d + 13
       /\ \A i \in 1..d : stack'[current][i] = stack[current][i]
       /\ stack'[current][d + 3] = pc
       /\ \A j \in 1..7 : stack'[current][d + 6 + j] = regs[PushOrder[j]]
  <2> DEFINE e == d + 6
  <2>1. /\ e \in Nat /\ e <= Len(mem[current])
        /\ mem \in Memory /\ current \in Task /\ regs \in [Reg -> Word]
    BY <1>1, <1>4, <1>9
  <2>2. e + 7 = d + 13 /\ d + 3 \in 1..e /\ \A i \in 1..d : i \in 1..e
    BY <1>4
  <2>3. stack' = PushRegs(mem, Ptr(current, e), regs)
    BY <1>10
  <2> HIDE DEF e
  <2>4. LET m == PushRegs(mem, Ptr(current, e), regs)
        IN /\ m \in Memory
           /\ \A u \in Task \ {current} : m[u] = mem[u]
           /\ Len(m[current]) = e + 7
           /\ \A i \in 1..e : m[current][i] = mem[current][i]
           /\ \A i \in 1..7 : m[current][e + i] = regs[PushOrder[i]]
    BY <2>1, PushRegsEffect, Zenon
  <2>5. QED
    BY <1>9, <2>2, <2>3, <2>4 DEF e
<1>12. /\ regs' \in [Reg -> Word] /\ pc' = Isr /\ pc' \in Word
       /\ \A r \in CalleeSaved : regs'[r] = regs[r]
  BY <1>4, Words, Registers DEF InterruptEnter
<1>13. /\ UNCHANGED <<sp, ret, ctx, frames, returned>>
  BY DEF InterruptEnter, history
<1>14. Types'
  BY <1>4, <1>11, <1>12, <1>13 DEF Types
<1>15. WaitInv'
  BY <1>1, <1>11, <1>13, OthersWait
<1>16. RetInv'
  BY <1>2, <1>13 DEF SwitchInv, RetInv
<1>17. CpuInv'
  <2>1. /\ b + 13 * (k + 1) = d + 13 /\ k + 1 \in Nat /\ k + 1 # 0
        /\ \A m \in 0..(k + 1) - 1 : m \in 0..k - 1 \/ m = k
    BY <1>4 DEF d
  <2>2. ASSUME NEW m \in 0..(k + 1) - 1
        PROVE  /\ stack'[current][b + 13 * m + 3] = IF m = 0 THEN o ELSE Isr
               /\ Saved(stack'[current], b + 13 * m + 6, ctx[current])
    <3>1. CASE m \in 0..k - 1
      <4>1. /\ b + 13 * m + 3 \in 1..d
            /\ \A j \in 4..7 : b + 13 * m + 6 + j \in 1..d
        BY <1>4, <3>1 DEF d
      <4>2. QED
        BY <1>5, <1>11, <3>1, <4>1 DEF Saved
    <3>2. CASE m = k
      <4>1. b + 13 * m = d
        BY <3>2 DEF d
      <4>2. \A j \in 4..7 : stack'[current][d + 6 + j] = ctx[current][PushOrder[j]]
        <5>1. \A j \in 4..7 : j \in 1..7 /\ PushOrder[j] \in CalleeSaved
          BY Registers
        <5>2. QED
          BY <1>5, <1>11, <5>1
      <4>3. QED
        BY <1>5, <1>11, <3>2, <4>1, <4>2 DEF Saved
    <3>3. QED
      BY <2>1, <3>1, <3>2
  <2>3. IF o = ExitPointAddr
        THEN /\ current # init_task /\ frames[current] = 0
             /\ returned[current] = stack'[current][7]
        ELSE HoldsCalls(stack'[current], b, current)
    <3>1. CASE o = ExitPointAddr /\ k = 0
      <4>1. d = 0 /\ d + 6 + 1 = 7 /\ 1 \in 1..7
        BY <1>4, <1>6, <3>1 DEF d
      <4>2. stack'[current][d + 6 + 1] = regs["eax"]
        BY <1>11, <4>1, Registers
      <4>3. QED
        BY <1>5, <3>1, <4>1, <4>2
    <3>2. CASE o = ExitPointAddr /\ k # 0
      <4>1. 7 \in 1..d
        BY <1>4, <3>2 DEF d
      <4>2. QED
        BY <1>5, <1>11, <3>2, <4>1
    <3>3. CASE o # ExitPointAddr
      <4>1. \A i \in 1..b : i \in 1..d
        BY <1>4
      <4>2. QED
        BY <1>5, <1>11, <3>3, <4>1 DEF HoldsCalls
    <3>4. QED
      BY <3>1, <3>2, <3>3
  <2>4. OnCpu(current, o, k + 1)'
    BY <1>2, <1>5, <1>7, <1>10, <1>11, <1>12, <1>13, <2>1, <2>2, <2>3 DEF OnCpu
  <2>5. QED
    BY <1>2, <2>1, <2>4 DEF CpuInv
<1>18. QED
  BY <1>2, <1>14, <1>15, <1>16, <1>17 DEF SwitchInv

LEMMA InterruptReturnStep ==
  ASSUME SwitchInv, InterruptReturn
  PROVE  SwitchInv'
<1>1. current \in Task /\ UNCHANGED sched
  BY Facts DEF InterruptReturn
<1>2. L!PointerInv' /\ current' = current /\ L!Zombies' = L!Zombies
  BY <1>1, QuietStep
<1>3. PICK k \in Nat, o \in {Entry(current), Code(current), ExitPointAddr} :
           OnCpu(current, o, k)
  BY DEF SwitchInv, CpuInv
<1> DEFINE b == Floor(current, o)
           c == k - 1
           d == b + 13 * c
<1>4. k # 0
  BY <1>1, <1>3, Words DEF OnCpu, InterruptReturn
<1>5. /\ b \in Nat /\ c \in Nat /\ d \in Nat /\ b <= d /\ d + 13 \in Nat
      /\ k = c + 1 /\ c \in 0..k - 1 /\ b + 13 * k = d + 13
      /\ Types /\ stack \in Memory
  BY <1>1, <1>4, Facts DEF Floor, SwitchInv, Types
<1>6. /\ esp = Ptr(current, d + 13) /\ Len(stack[current]) = d + 13
      /\ \A m \in 0..k - 1 : /\ stack[current][b + 13 * m + 3] = IF m = 0 THEN o ELSE Isr
                            /\ Saved(stack[current], b + 13 * m + 6, ctx[current])
      /\ o = ExitPointAddr =>
           /\ current # init_task /\ frames[current] = 0
           /\ returned[current] = stack[current][7]
      /\ o # ExitPointAddr => HoldsCalls(stack[current], b, current)
  BY <1>3, <1>4, <1>5 DEF OnCpu
<1>7. o = ExitPointAddr => b = 0
  BY DEF Floor
<1>8. Floor(current, o)' = b
  BY <1>2 DEF Floor, BaseLen, InterruptReturn, history
<1> HIDE DEF b, c
<1>9. /\ esp' = Ptr(current, d)
      /\ stack' = Forget(stack, Ptr(current, d))
      /\ Up(esp, -10) = Ptr(current, d + 3)
  <2>1. /\ d + 13 + -13 = d /\ d + 13 + -10 = d + 3
        /\ \A n \in Int : Up(Ptr(current, d + 13), n) = Ptr(current, d + 13 + n)
    BY <1>5 DEF Up, Ptr
  <2>2. Up(esp, -13) = Ptr(current, d) /\ Up(esp, -10) = Ptr(current, d + 3)
    BY <1>6, <2>1
  <2>3. QED
    BY <2>2 DEF InterruptReturn
<1>10. stack[current][d + 3] = (IF c = 0 THEN o ELSE Isr)
       /\ \A j \in 4..7 : stack[current][d + 6 + j] = ctx[current][PushOrder[j]]
  BY <1>5, <1>6 DEF Saved
<1> HIDE DEF d
<1>11. pc' = IF c = 0 THEN o ELSE Isr
  <2>1. DOMAIN stack[current] = 1..d + 13
    BY <1>1, <1>5, <1>6, LenProperties DEF Memory
  <2>2. d + 3 - 0 = d + 3 /\ d + 3 \in 1..d + 13
    BY <1>5
  <2>3. WordAt(stack, Ptr(current, d + 3), 0) = stack[current][d + 3]
    BY <1>5, <2>1, <2>2 DEF WordAt, Ptr
  <2>4. QED
    BY <1>9, <1>10, <2>3 DEF InterruptReturn
<1>12. /\ regs' \in [Reg -> Word]
       /\ \A j \in 1..7 : regs'[PushOrder[j]] = stack[current][d + 6 + j]
  <2>1. d + 13 >= 7 /\ \A j \in 1..7 : (d + 13) - 7 + j = d + 6 + j
    BY <1>5
  <2>2. regs' = PopRegs(stack, Ptr(current, d + 13))
    BY <1>6 DEF InterruptReturn
  <2>3. /\ regs' \in [Reg -> Word]
        /\ \A j \in 1..7 : regs'[PushOrder[j]] = stack[current][(d + 13) - 7 + j]
    BY <1>1, <1>5, <1>6, <2>1, <2>2, PopRegsEffect
  <2>4. QED
    BY <2>1, <2>3
<1>13. \A r \in CalleeSaved : regs'[r] = ctx[current][r]
  <2> SUFFICES ASSUME NEW r \in CalleeSaved PROVE regs'[r] = ctx[current][r]
    OBVIOUS
  <2>1. PICK j \in 4..7 : PushOrder[j] = r
    BY Registers
  <2>2. j \in 1..7
    BY <2>1
  <2>3. QED
    BY <1>10, <1>12, <2>1, <2>2
<1>14. /\ stack' \in Memory
       /\ \A u \in Task \ {current} : stack'[u] = stack[u]
       /\ Len(stack'[current]) = d
       /\ \A i \in 1..d : stack'[current][i] = stack[current][i]
  <2>1. d <= Len(stack[current])
    BY <1>5, <1>6
  <2>2. LET m == Forget(stack, Ptr(current, d))
        IN /\ m \in Memory
           /\ \A u \in Task \ {current} : m[u] = stack[u]
           /\ Len(m[current]) = d
           /\ \A i \in 1..d : m[current][i] = stack[current][i]
    BY <1>1, <1>5, <2>1, ForgetEffect, Zenon
  <2>3. QED
    BY <1>9, <2>2
<1>15. /\ UNCHANGED <<sp, ret, ctx, frames, returned>>
  BY DEF InterruptReturn, history
<1>16. Types'
  <2>1. pc' \in Word
    BY <1>1, <1>11, Words
  <2>2. QED
    BY <1>5, <1>12, <1>14, <1>15, <2>1 DEF Types
<1>17. WaitInv'
  BY <1>1, <1>14, <1>15, OthersWait
<1>18. RetInv'
  BY <1>2, <1>15 DEF SwitchInv, RetInv
<1>19. CpuInv'
  <2>1. ASSUME NEW m \in 0..c - 1
        PROVE  /\ stack'[current][b + 13 * m + 3] = IF m = 0 THEN o ELSE Isr
               /\ Saved(stack'[current], b + 13 * m + 6, ctx[current])
    <3>1. /\ m \in 0..k - 1 /\ b + 13 * m + 3 \in 1..d
          /\ \A j \in 4..7 : b + 13 * m + 6 + j \in 1..d
      BY <1>5 DEF d
    <3>2. /\ stack[current][b + 13 * m + 3] = IF m = 0 THEN o ELSE Isr
          /\ Saved(stack[current], b + 13 * m + 6, ctx[current])
      BY <1>6, <3>1
    <3>3. QED
      BY <1>14, <3>1, <3>2 DEF Saved
  <2>2. IF o = ExitPointAddr
        THEN /\ current # init_task /\ frames[current] = 0
             /\ returned[current] = IF c = 0 THEN regs'["eax"] ELSE stack'[current][7]
        ELSE HoldsCalls(stack'[current], b, current)
    <3>1. CASE o = ExitPointAddr /\ c = 0
      <4>1. d = 0 /\ d + 6 + 1 = 7 /\ 1 \in 1..7
        BY <1>5, <1>7, <3>1 DEF d
      <4>2. regs'["eax"] = stack[current][d + 6 + 1]
        BY <1>12, <4>1, Registers
      <4>3. QED
        BY <1>6, <3>1, <4>1, <4>2
    <3>2. CASE o = ExitPointAddr /\ c # 0
      <4>1. 7 \in 1..d
        BY <1>5, <3>2 DEF d
      <4>2. QED
        BY <1>6, <1>14, <3>2, <4>1
    <3>3. CASE o # ExitPointAddr
      <4>1. \A i \in 1..b : i \in 1..d
        BY <1>5
      <4>2. QED
        BY <1>6, <1>14, <3>3, <4>1 DEF HoldsCalls
    <3>4. QED
      BY <3>1, <3>2, <3>3
  <2>3. d = b + 13 * c
    BY DEF d
  <2>4. OnCpu(current, o, c)'
    BY <1>2, <1>8, <1>9, <1>11, <1>13, <1>14, <1>15, <2>1, <2>2, <2>3 DEF OnCpu
  <2>5. QED
    BY <1>2, <1>5, <2>4 DEF CpuInv
<1>20. QED
  BY <1>2, <1>16, <1>17, <1>18, <1>19 DEF SwitchInv

-----------------------------------------------------------------------------
(* A call of schedule() that switches to next, whose stack in mem is that  *)
(* of a thread that waits.  The thread that calls leaves on its stack the  *)
(* address it goes on at and its registers.                                *)
LEMMA SwitchAway ==
  ASSUME Types, NEW mem \in Memory, NEW sps \in [Task -> Pointer], NEW back \in Word,
         current \in Task, NEW next \in Task, next = current', next # current,
         NEW d \in Nat, esp = Ptr(current, d), Len(mem[current]) = d,
         NEW n \in Nat, BaseLen(frames', next) = n,
         Suspended(mem, sps, ctx', frames', next),
         CallSchedule(mem, sps, back)
  PROVE  /\ CpuInv'
         /\ stack' \in Memory /\ sp' \in [Task -> Pointer]
         /\ regs' \in [Reg -> Word] /\ pc' \in Word
         /\ \A u \in Task \ {current, next} : stack'[u] = mem[u] /\ sp'[u] = sps[u]
         /\ sp'[current] = Ptr(current, d + 8)
         /\ Len(stack'[current]) = d + 8
         /\ \A i \in 1..d : stack'[current][i] = mem[current][i]
         /\ stack'[current][d + 1] = back
         /\ Saved(stack'[current], d + 1, regs)
<1> DEFINE mem2 == PushAll(mem, esp, <<back>>)
           e == d + 1
<1>1. SwitchTo(mem2, sps, Ptr(current, e), current, next)
  <2>1. Up(esp, 1) = Ptr(current, e)
    BY DEF Up, Ptr
  <2>2. QED
    BY <2>1 DEF CallSchedule
<1>2. e \in Nat /\ e + 7 = d + 8 /\ \A i \in 1..d : i \in 1..e
  OBVIOUS
<1>3. /\ mem2 \in Memory
      /\ \A u \in Task \ {current} : mem2[u] = mem[u]
      /\ Len(mem2[current]) = e
      /\ \A i \in 1..d : mem2[current][i] = mem[current][i]
      /\ mem2[current][e] = back
  BY PushOneEffect
<1> HIDE DEF mem2
<1>4. /\ sps[next] = Ptr(next, n + 8) /\ Len(mem2[next]) = n + 8
      /\ HoldsCalls(mem2[next], n, next)
      /\ mem2[next][n + 1] \in {Entry(next), Code(next)}
      /\ Saved(mem2[next], n + 1, ctx'[next])
  <2>1. mem2[next] = mem[next]
    BY <1>3
  <2>2. QED
    BY <2>1 DEF Suspended
<1> HIDE DEF e
<1>5. /\ stack' \in Memory /\ sp' \in [Task -> Pointer]
      /\ regs' \in [Reg -> Word] /\ pc' \in Word
      /\ \A u \in Task \ {current, next} : stack'[u] = mem2[u] /\ sp'[u] = sps[u]
      /\ sp'[current] = Ptr(current, e + 7)
      /\ Len(stack'[current]) = e + 7
      /\ \A i \in 1..e : stack'[current][i] = mem2[current][i]
      /\ Saved(stack'[current], e, regs)
      /\ Len(stack'[next]) = n
      /\ \A i \in 1..n : stack'[next][i] = mem2[next][i]
      /\ Saved(mem2[next], n + 1, regs')
      /\ pc' = mem2[next][n + 1]
      /\ esp' = Ptr(next, n)
  <2>1. /\ e \in Nat /\ e = Len(mem2[current]) /\ current # next
        /\ mem2 \in Memory /\ Len(mem2[next]) = n + 8
    BY <1>2, <1>3, <1>4
  <2>2. sps[next] = Ptr(next, n + 8)
    BY <1>4
  <2>3. QED
    <3>1. /\ stack' \in Memory /\ sp' \in [Task -> Pointer]
          /\ regs' \in [Reg -> Word] /\ pc' \in Word
      BY <1>1, <2>1, <2>2, SwitchEffect
    <3>2. \A u \in Task \ {current, next} : stack'[u] = mem2[u] /\ sp'[u] = sps[u]
      BY <1>1, <2>1, <2>2, SwitchEffect
    <3>3. /\ sp'[current] = Ptr(current, e + 7)
          /\ Len(stack'[current]) = e + 7
      BY <1>1, <2>1, <2>2, SwitchEffect
    <3>4. \A i \in 1..e : stack'[current][i] = mem2[current][i]
      BY <1>1, <2>1, <2>2, SwitchEffect
    <3>5. Saved(stack'[current], e, regs)
      BY <1>1, <2>1, <2>2, SwitchEffect
    <3>6. /\ Len(stack'[next]) = n
          /\ \A i \in 1..n : stack'[next][i] = mem2[next][i]
      BY <1>1, <2>1, <2>2, SwitchEffect
    <3>7. /\ Saved(mem2[next], n + 1, regs')
          /\ pc' = mem2[next][n + 1]
          /\ esp' = Ptr(next, n)
      BY <1>1, <2>1, <2>2, SwitchEffect
    <3>8. QED
      BY <3>1, <3>2, <3>3, <3>4, <3>5, <3>6, <3>7
<1>6. CpuInv'
  <2>1. \A r \in CalleeSaved : regs'[r] = ctx'[next][r]
    <3> SUFFICES ASSUME NEW r \in CalleeSaved PROVE regs'[r] = ctx'[next][r]
      OBVIOUS
    <3>1. PICK j \in 4..7 : PushOrder[j] = r
      BY Registers
    <3>2. QED
      BY <1>4, <1>5, <3>1 DEF Saved
  <2>2. HoldsCalls(stack'[next], n, next)
    BY <1>4, <1>5 DEF HoldsCalls
  <2>3. \E o \in {Entry(next), Code(next)} : pc' = o
    BY <1>4, <1>5
  <2>4. QED
    BY <1>5, <2>1, <2>2, <2>3, EnterThread
<1>7. /\ \A u \in Task \ {current, next} : stack'[u] = mem[u] /\ sp'[u] = sps[u]
      /\ \A i \in 1..d : stack'[current][i] = mem[current][i]
  BY <1>2, <1>3, <1>5
<1>8. e \in 1..e /\ stack'[current][e] = back
  <2>1. e \in 1..e
    BY DEF e
  <2>2. QED
    BY <1>3, <1>5, <2>1
<1>9. QED
  BY <1>2, <1>5, <1>6, <1>7, <1>8 DEF e

(* A thread that calls schedule() from its own code waits as it should.    *)
LEMMA CallerWaits ==
  ASSUME Types, NEW mem \in Memory, NEW sps \in [Task -> Pointer],
         current \in Task, NEW next \in Task, next = current', next # current,
         NEW d \in Nat, esp = Ptr(current, d), Len(mem[current]) = d,
         HoldsCalls(mem[current], d, current), BaseLen(frames', current) = d,
         \A r \in CalleeSaved : regs[r] = ctx'[current][r],
         NEW n \in Nat, BaseLen(frames', next) = n,
         Suspended(mem, sps, ctx', frames', next),
         CallSchedule(mem, sps, Code(current))
  PROVE  /\ CpuInv'
         /\ stack' \in Memory /\ sp' \in [Task -> Pointer]
         /\ regs' \in [Reg -> Word] /\ pc' \in Word
         /\ \A u \in Task \ {current, next} : stack'[u] = mem[u] /\ sp'[u] = sps[u]
         /\ Suspended(stack', sp', ctx', frames', current)
<1>1. Code(current) \in Word
  BY Words
<1>2. /\ CpuInv'
      /\ stack' \in Memory /\ sp' \in [Task -> Pointer]
      /\ regs' \in [Reg -> Word] /\ pc' \in Word
      /\ \A u \in Task \ {current, next} : stack'[u] = mem[u] /\ sp'[u] = sps[u]
      /\ sp'[current] = Ptr(current, d + 8)
      /\ Len(stack'[current]) = d + 8
      /\ \A i \in 1..d : stack'[current][i] = mem[current][i]
      /\ stack'[current][d + 1] = Code(current)
      /\ Saved(stack'[current], d + 1, regs)
  BY <1>1, SwitchAway, SMTT(30)
<1>3. HoldsCalls(stack'[current], d, current)
  BY <1>2 DEF HoldsCalls
<1>4. Saved(stack'[current], d + 1, ctx'[current])
  BY <1>2, Registers DEF Saved
<1>5. QED
  BY <1>2, <1>3, <1>4 DEF Suspended

LEMMA YieldStep ==
  ASSUME SwitchInv, Yield
  PROVE  SwitchInv'
<1> DEFINE d == BaseLen(frames, current)
<1>1. /\ current \in Task /\ L!Waiting \subseteq Task /\ current \notin L!Waiting
      /\ \A t \in Task : BaseLen(frames, t) \in Nat
      /\ InCode(current) /\ L!Yield /\ CallSchedule(stack, sp, Code(current))
      /\ UNCHANGED <<ret, ctx, frames, returned>>
  BY Facts, SameSteps DEF Yield, history
<1>2. /\ current' \in Task /\ L!Zombies' \subseteq L!Zombies
      /\ \/ current' = current /\ L!Waiting' = L!Waiting
         \/ /\ current' # current /\ current' \in L!Waiting
            /\ L!Waiting' = (L!Waiting \ {current'}) \cup {current}
  BY <1>1, SameAddresses, L!YieldMoves DEF SwitchInv
<1>3. L!PointerInv'
  BY <1>1, SameAddresses, L!StepOnPointers DEF SwitchInv, L!Next
<1>4. /\ esp = Ptr(current, d) /\ Len(stack[current]) = d
      /\ HoldsCalls(stack[current], d, current)
      /\ \A r \in CalleeSaved : regs[r] = ctx[current][r]
  BY <1>1, InThread
<1>5. RetInv'
  BY <1>1, <1>2 DEF SwitchInv, RetInv
<1>6. CASE current' = current
  <2>1. /\ stack' = stack /\ sp' = sp /\ esp' = esp /\ pc' = Code(current)
        /\ regs' = [regs EXCEPT !["eax"] = Garbage, !["ecx"] = Garbage,
                                !["edx"] = Garbage]
    BY <1>1, <1>6 DEF CallSchedule
  <2>2. regs' \in [Reg -> Word] /\ \A r \in CalleeSaved : regs'[r] = ctx'[current][r]
    BY <1>1, <1>4, <2>1, Words, Registers DEF SwitchInv, Types
  <2>3. Types'
    BY <1>1, <2>1, <2>2, Words DEF SwitchInv, Types
  <2>4. CpuInv'
    <3>1. BaseLen(frames', current) = d /\ d \in Nat
      BY <1>1
    <3>2. QED
      BY <1>1, <1>4, <1>6, <2>1, <2>2, <3>1, EnterThread
  <2>5. WaitInv'
    BY <1>1, <1>2, <1>6, <2>1 DEF SwitchInv, WaitInv
  <2>6. QED
    BY <1>3, <1>5, <2>3, <2>4, <2>5 DEF SwitchInv
<1>7. CASE current' # current
  <2>1. Suspended(stack, sp, ctx', frames', current')
    BY <1>1, <1>2, <1>7 DEF SwitchInv, WaitInv
  <2>2. /\ CpuInv'
        /\ stack' \in Memory /\ sp' \in [Task -> Pointer]
        /\ regs' \in [Reg -> Word] /\ pc' \in Word
        /\ \A u \in Task \ {current, current'} : stack'[u] = stack[u] /\ sp'[u] = sp[u]
        /\ Suspended(stack', sp', ctx', frames', current)
    <3>1. /\ BaseLen(frames', current) = d /\ d \in Nat
          /\ BaseLen(frames', current') \in Nat
          /\ \A r \in CalleeSaved : regs[r] = ctx'[current][r]
          /\ Types /\ stack \in Memory /\ sp \in [Task -> Pointer]
      BY <1>1, <1>2, <1>4 DEF SwitchInv, Types
    <3>2. QED
      BY <1>1, <1>2, <1>4, <1>7, <2>1, <3>1, CallerWaits
  <2>3. Types'
    BY <1>1, <2>2 DEF SwitchInv, Types
  <2>4. WaitInv'
    <3> SUFFICES ASSUME NEW t \in L!Waiting'
                 PROVE  Suspended(stack', sp', ctx', frames', t)
      BY DEF WaitInv
    <3>1. CASE t = current
      BY <2>2, <3>1
    <3>2. CASE t # current
      <4>1. t \in L!Waiting /\ t \in Task \ {current, current'}
        BY <1>1, <1>2, <1>7, <3>2
      <4>2. Suspended(stack, sp, ctx, frames, t)
        BY <4>1 DEF SwitchInv, WaitInv
      <4>3. QED
        BY <1>1, <2>2, <4>1, <4>2 DEF Suspended
    <3>3. QED
      BY <3>1, <3>2
  <2>5. QED
    BY <1>3, <1>5, <2>2, <2>3, <2>4 DEF SwitchInv
<1>8. QED
  BY <1>6, <1>7

(* The stack that task_init() builds is that of a thread that waits at the *)
(* first instruction of its entry function.                                *)
LEMMA FirstStack ==
  ASSUME NEW mem \in Memory, NEW t \in Task, t # init_task,
         NEW sps \in [Task -> Pointer],
         NEW cx, cx[t] = [r \in CalleeSaved |-> Zero], NEW fr, fr[t] = 0
  PROVE  LET m == PushAll(mem, Up(TaskInit(t), -Len(StackInit(t))), StackInit(t))
             s == [sps EXCEPT ![t] = TaskInit(t)]
         IN /\ m \in Memory /\ s \in [Task -> Pointer]
            /\ \A u \in Task \ {t} : m[u] = mem[u] /\ s[u] = sps[u]
            /\ BaseLen(fr, t) = 1
            /\ Suspended(m, s, cx, fr, t)
<1> DEFINE zeros == [i \in 1..7 |-> Zero]
           first == <<ExitPointAddr, Entry(t)>>
           m == PushAll(mem, Ptr(t, 0), StackInit(t))
           s == [sps EXCEPT ![t] = TaskInit(t)]
<1>1. /\ zeros \in Seq(Word) /\ Len(zeros) = 7 /\ \A i \in 1..7 : zeros[i] = Zero
      /\ first \in Seq(Word) /\ Len(first) = 2
      /\ first[1] = ExitPointAddr /\ first[2] = Entry(t)
  <2>1. Zero \in Word /\ ExitPointAddr \in Word /\ Entry(t) \in Word
    BY Words
  <2>2. zeros \in [1..7 -> Word] /\ \A i \in 1..7 : zeros[i] = Zero
    BY <2>1
  <2>3. zeros \in Seq(Word) /\ Len(zeros) = 7
    BY <2>2
  <2>4. /\ first \in Seq(Word) /\ Len(first) = 2
        /\ first[1] = ExitPointAddr /\ first[2] = Entry(t)
    BY <2>1
  <2>5. QED
    BY <2>2, <2>3, <2>4
<1>2. StackInit(t) = first \o zeros
  BY DEF StackInit
<1> HIDE DEF zeros, first
<1>3. /\ StackInit(t) \in Seq(Word) /\ Len(StackInit(t)) = 9
      /\ StackInit(t)[1] = ExitPointAddr /\ StackInit(t)[2] = Entry(t)
      /\ \A j \in 1..7 : StackInit(t)[2 + j] = Zero
  <2>1. /\ first \in Seq(Word) /\ zeros \in Seq(Word)
        /\ Len(first) = 2 /\ Len(zeros) = 7
    BY <1>1
  <2>2. /\ first \o zeros \in Seq(Word)
        /\ Len(first \o zeros) = Len(first) + Len(zeros)
        /\ \A i \in 1..Len(first) : (first \o zeros)[i] = first[i]
        /\ \A i \in 1..Len(zeros) : (first \o zeros)[Len(first) + i] = zeros[i]
    BY <2>1, Joined
  <2>3. StackInit(t) \in Seq(Word) /\ Len(StackInit(t)) = 9
    BY <1>2, <2>1, <2>2
  <2>4. /\ \A i \in 1..2 : StackInit(t)[i] = first[i]
        /\ \A i \in 1..7 : StackInit(t)[2 + i] = zeros[i]
    BY <1>2, <2>1, <2>2, Zenon
  <2>5. 1 \in 1..2 /\ 2 \in 1..2
    OBVIOUS
  <2>6. QED
    BY <1>1, <2>3, <2>4, <2>5
<1>4. TaskInit(t) = Ptr(t, 9) /\ Up(TaskInit(t), -Len(StackInit(t))) = Ptr(t, 0)
  <2>1. /\ 0 + 9 = 9 /\ 9 + (-9) = 0
        /\ \A a, b \in Int : Up(Ptr(t, a), b) = Ptr(t, a + b)
    BY DEF Up, Ptr
  <2>2. Top(t) = Ptr(t, 0)
    BY DEF Top, Ptr
  <2>3. TaskInit(t) = Ptr(t, 9)
    BY <1>3, <2>1, <2>2 DEF TaskInit
  <2>4. Up(Ptr(t, 9), -9) = Ptr(t, 0)
    BY <2>1
  <2>5. QED
    BY <1>3, <2>3, <2>4
<1>5. /\ m \in Memory
      /\ \A u \in Task \ {t} : m[u] = mem[u]
      /\ Len(m[t]) = 9
      /\ \A i \in 1..9 : m[t][i] = StackInit(t)[i]
  <2>1. 0 \in Nat /\ 0 <= Len(mem[t])
    BY LenProperties DEF Memory
  <2>2. LET mm == PushAll(mem, Ptr(t, 0), StackInit(t))
        IN /\ mm \in Memory
           /\ \A u \in Task \ {t} : mm[u] = mem[u]
           /\ Len(mm[t]) = 0 + Len(StackInit(t))
           /\ \A i \in 1..Len(StackInit(t)) : mm[t][0 + i] = StackInit(t)[i]
    <3>1. StackInit(t) \in Seq(Word)
      BY <1>3
    <3>2. PICK z \in Nat : z = 0
      OBVIOUS
    <3>3. z <= Len(mem[t])
      BY <2>1, <3>2
    <3>4. LET mm == PushAll(mem, Ptr(t, z), StackInit(t))
          IN /\ mm \in Memory
             /\ \A u \in Task \ {t} : mm[u] = mem[u]
             /\ Len(mm[t]) = z + Len(StackInit(t))
             /\ \A i \in 1..Len(StackInit(t)) : mm[t][z + i] = StackInit(t)[i]
      BY <3>1, <3>3, PushEffect
    <3>5. QED
      BY <3>2, <3>4
  <2>3. \A i \in 1..9 : 0 + i = i
    OBVIOUS
  <2>4. QED
    BY <1>3, <2>2, <2>3
<1>6. /\ s \in [Task -> Pointer] /\ s[t] = Ptr(t, 9)
      /\ \A u \in Task \ {t} : s[u] = sps[u]
  BY <1>4 DEF Pointer, Ptr
<1> HIDE DEF m, s
<1>7. BaseLen(fr, t) = 1
  BY DEF BaseLen
<1>8. Suspended(m, s, cx, fr, t)
  <2>1. 1 + 8 = 9 /\ 1 + 1 = 2 /\ 1 \in 1..9 /\ 2 \in 1..9
    OBVIOUS
  <2>2. m[t][1] = ExitPointAddr /\ m[t][2] = Entry(t)
    BY <1>3, <1>5, <2>1
  <2>3. HoldsCalls(m[t], 1, t)
    <3>1. \A i \in 1..1 : i = 1
      OBVIOUS
    <3>2. QED
      BY <2>2, <3>1 DEF HoldsCalls
  <2>4. Saved(m[t], 2, cx[t])
    <3> SUFFICES ASSUME NEW j \in 4..7 PROVE m[t][2 + j] = cx[t][PushOrder[j]]
      BY DEF Saved
    <3>1. j \in 1..7 /\ 2 + j \in 1..9
      OBVIOUS
    <3>2. QED
      BY <1>3, <1>5, <3>1, Registers
  <2>5. QED
    BY <1>5, <1>6, <1>7, <2>1, <2>2, <2>3, <2>4 DEF Suspended
<1>9. QED
  BY <1>4, <1>5, <1>6, <1>7, <1>8 DEF m, s

LEMMA TaskRunStep ==
  ASSUME SwitchInv, NEW t \in Task, TaskRun(t)
  PROVE  SwitchInv'
<1> DEFINE d == BaseLen(frames, current)
           mem == PushAll(stack, Up(TaskInit(t), -Len(StackInit(t))), StackInit(t))
           sps == [sp EXCEPT ![t] = TaskInit(t)]
<1>1. /\ current \in Task /\ L!Waiting \subseteq Task /\ current \notin L!Waiting
      /\ \A u \in Task : BaseLen(frames, u) \in Nat
      /\ InCode(current) /\ L!TaskRun(t) /\ CallSchedule(mem, sps, Code(current))
      /\ ctx' = [ctx EXCEPT ![t] = [r \in CalleeSaved |-> Zero]]
      /\ frames' = [frames EXCEPT ![t] = 0]
      /\ UNCHANGED <<ret, returned>>
  BY Facts, SameSteps DEF TaskRun
<1>2. /\ t \notin L!Waiting \cup {current, init_task}
      /\ current' = t
      /\ L!Waiting' = L!Waiting \cup {current}
      /\ L!Zombies' \subseteq L!Zombies
  BY <1>1, SameAddresses, L!TaskRunMoves DEF SwitchInv
<1>3. L!PointerInv'
  BY <1>1, SameAddresses, L!StepOnPointers DEF SwitchInv, L!Next
<1>4. /\ esp = Ptr(current, d) /\ Len(stack[current]) = d
      /\ HoldsCalls(stack[current], d, current)
      /\ \A r \in CalleeSaved : regs[r] = ctx[current][r]
  BY <1>1, InThread
<1>5. RetInv'
  BY <1>1, <1>2 DEF SwitchInv, RetInv
<1>6. /\ Types /\ stack \in Memory /\ sp \in [Task -> Pointer]
      /\ ctx' \in [Task -> [CalleeSaved -> Word]] /\ frames' \in [Task -> Nat]
      /\ ctx'[t] = [r \in CalleeSaved |-> Zero] /\ frames'[t] = 0
      /\ \A u \in Task \ {t} : ctx'[u] = ctx[u] /\ frames'[u] = frames[u]
  BY <1>1, Words DEF SwitchInv, Types
<1>7. /\ mem \in Memory /\ sps \in [Task -> Pointer]
      /\ \A u \in Task \ {t} : mem[u] = stack[u] /\ sps[u] = sp[u]
      /\ BaseLen(frames', t) = 1
      /\ Suspended(mem, sps, ctx', frames', t)
  BY <1>2, <1>6, FirstStack
<1> HIDE DEF mem, sps
<1>8. /\ CpuInv'
      /\ stack' \in Memory /\ sp' \in [Task -> Pointer]
      /\ regs' \in [Reg -> Word] /\ pc' \in Word
      /\ \A u \in Task \ {current, t} : stack'[u] = mem[u] /\ sp'[u] = sps[u]
      /\ Suspended(stack', sp', ctx', frames', current)
  <2>1. /\ BaseLen(frames', current) = d /\ d \in Nat /\ 1 \in Nat
        /\ mem[current] = stack[current] /\ t # current
    BY <1>1, <1>2, <1>6, <1>7 DEF BaseLen
  <2>2. \A r \in CalleeSaved : regs[r] = ctx'[current][r]
    BY <1>1, <1>4, <1>6, <2>1
  <2>3. Len(mem[current]) = d /\ HoldsCalls(mem[current], d, current)
    BY <1>4, <2>1
  <2> HIDE DEF d
  <2>4. QED
    BY <1>1, <1>2, <1>4, <1>6, <1>7, <2>1, <2>2, <2>3, CallerWaits
<1>9. Types'
  BY <1>1, <1>6, <1>8 DEF Types
<1>10. WaitInv'
  <2> SUFFICES ASSUME NEW u \in L!Waiting'
               PROVE  Suspended(stack', sp', ctx', frames', u)
    BY DEF WaitInv
  <2>1. CASE u = current
    BY <1>8, <2>1
  <2>2. CASE u # current
    <3>1. u \in L!Waiting /\ u \in Task \ {current, t} /\ u \in Task \ {t}
      BY <1>1, <1>2, <2>2
    <3>2. Suspended(stack, sp, ctx, frames, u)
      BY <3>1 DEF SwitchInv, WaitInv
    <3>3. /\ stack'[u] = stack[u] /\ sp'[u] = sp[u]
          /\ ctx'[u] = ctx[u] /\ frames'[u] = frames[u]
      BY <1>6, <1>7, <1>8, <3>1
    <3>4. QED
      BY <3>2, <3>3 DEF Suspended, BaseLen
  <2>3. QED
    BY <2>1, <2>2
<1>11. QED
  BY <1>3, <1>5, <1>8, <1>9, <1>10 DEF SwitchInv

LEMMA ExitPointStep ==
  ASSUME SwitchInv, ExitPoint
  PROVE  SwitchInv'
<1>1. /\ current \in Task /\ L!Waiting \subseteq Task /\ current \notin L!Waiting
      /\ \A u \in Task : BaseLen(frames, u) \in Nat
      /\ pc = ExitPointAddr /\ L!Exit /\ CallSchedule(stack, sp, AfterExit)
      /\ ret' = [ret EXCEPT ![current] = regs["eax"]]
      /\ UNCHANGED <<ctx, frames, returned>>
      /\ Types /\ stack \in Memory /\ sp \in [Task -> Pointer]
  BY Facts, SameSteps DEF ExitPoint, history, SwitchInv, Types
<1>2. /\ current' # current /\ current' \in L!Waiting
      /\ L!Waiting' = L!Waiting \ {current'}
      /\ L!Zombies' \subseteq L!Zombies \cup {current}
  BY <1>1, SameAddresses, L!ExitMoves DEF SwitchInv
<1>3. L!PointerInv'
  BY <1>1, SameAddresses, L!StepOnPointers DEF SwitchInv, L!Next
<1>4. /\ esp = Ptr(current, 0) /\ Len(stack[current]) = 0
      /\ returned[current] = regs["eax"]
  <2>1. PICK k \in Nat, o \in {Entry(current), Code(current), ExitPointAddr} :
             OnCpu(current, o, k)
    BY DEF SwitchInv, CpuInv
  <2>2. k = 0 /\ o = ExitPointAddr
    BY <1>1, <2>1, Words DEF OnCpu
  <2>3. Floor(current, o) + 13 * k = 0
    BY <2>2 DEF Floor
  <2>4. QED
    BY <2>1, <2>2, <2>3 DEF OnCpu
<1>5. RetInv'
  <2>1. ret'[current] = returned[current]
    BY <1>1, <1>4 DEF Types
  <2>2. \A u \in L!Zombies : ret'[u] = returned[u]
    BY <1>1, <2>1, L!RunningIsNoZombie DEF SwitchInv, RetInv, Types
  <2>3. QED
    BY <1>1, <1>2, <2>1, <2>2 DEF RetInv
<1>6. Suspended(stack, sp, ctx', frames', current') /\ current' \in Task
  BY <1>1, <1>2 DEF SwitchInv, WaitInv
<1>7. /\ CpuInv'
      /\ stack' \in Memory /\ sp' \in [Task -> Pointer]
      /\ regs' \in [Reg -> Word] /\ pc' \in Word
      /\ \A u \in Task \ {current, current'} : stack'[u] = stack[u] /\ sp'[u] = sp[u]
  <2>1. AfterExit \in Word /\ 0 \in Nat /\ BaseLen(frames', current') \in Nat
    BY <1>1, <1>6, Words
  <2>2. QED
    BY <1>1, <1>2, <1>4, <1>6, <2>1, SwitchAway
<1>8. Types'
  <2>1. ret' \in [Task -> Word]
    <3>1. "eax" \in Reg
      BY DEF Reg
    <3>2. QED
      BY <1>1, <3>1 DEF Types
  <2>2. QED
    BY <1>1, <1>7, <2>1 DEF Types
<1>9. WaitInv'
  <2> SUFFICES ASSUME NEW u \in L!Waiting'
               PROVE  Suspended(stack', sp', ctx', frames', u)
    BY DEF WaitInv
  <2>1. u \in L!Waiting /\ u \in Task \ {current, current'}
    BY <1>1, <1>2
  <2>2. Suspended(stack, sp, ctx, frames, u)
    BY <2>1 DEF SwitchInv, WaitInv
  <2>3. stack'[u] = stack[u] /\ sp'[u] = sp[u]
    BY <1>7, <2>1
  <2>4. QED
    BY <1>1, <2>2, <2>3 DEF Suspended
<1>10. QED
  BY <1>3, <1>5, <1>7, <1>8, <1>9 DEF SwitchInv

-----------------------------------------------------------------------------
LEMMA InitHolds == Init => SwitchInv
<1> SUFFICES ASSUME Init PROVE SwitchInv
  OBVIOUS
<1>1. /\ L!PointerInv /\ init_task \in Task /\ current = init_task /\ task_list = <<>>
      /\ state[init_task] = L!Abstract!TASK_RUNNING
  BY SameAddresses, SameInit, L!InitOnPointers DEF Init, S!Init, S!Abstract!Init,
     S!Abstract!TASK_RUNNING, L!Abstract!TASK_RUNNING
<1>2. Types
  <2>1. Zero \in Word /\ Entry(init_task) \in Word
    BY <1>1, Words
  <2>2. \A t \in Task : Top(t) \in Pointer
    BY DEF Top, Pointer
  <2>3. stack \in Memory
    BY EmptySeq DEF Init, Memory
  <2>4. QED
    BY <2>1, <2>2, <2>3 DEF Init, Types
<1>3. WaitInv
  BY <1>1, EmptySeq DEF WaitInv, L!Waiting, L!Abstract!Listed
<1>4. RetInv
  BY DEF Init, RetInv, L!Zombies
<1>5. CpuInv
  <2>1. Floor(init_task, Entry(init_task)) = 0
    BY <1>1, Words DEF Floor, BaseLen, Init
  <2>2. 0 + 13 * 0 = 0 /\ \A m \in 0..0 - 1 : FALSE
    OBVIOUS
  <2>3. esp = Ptr(init_task, 0) /\ Len(stack[init_task]) = 0 /\ pc = Entry(init_task)
    BY <1>1, EmptySeq DEF Init, Top, Ptr
  <2>4. \A r \in CalleeSaved : regs[r] = ctx[init_task][r]
    BY <1>1, Registers DEF Init
  <2>5. HoldsCalls(stack[init_task], 0, init_task)
    BY DEF HoldsCalls
  <2>6. Entry(init_task) # ExitPointAddr
    BY <1>1, Words
  <2>7. OnCpu(init_task, Entry(init_task), 0)
    BY <2>1, <2>2, <2>3, <2>4, <2>5, <2>6 DEF OnCpu
  <2>8. QED
    BY <1>1, <2>7 DEF CpuInv
<1>6. QED
  BY <1>1, <1>2, <1>3, <1>4, <1>5 DEF SwitchInv

LEMMA NextPreserves == SwitchInv /\ [Next]_vars => SwitchInv'
<1> SUFFICES ASSUME SwitchInv, [Next]_vars PROVE SwitchInv'
  OBVIOUS
<1>1. CASE \E v \in 1..MaxValue : Compute(v)
  BY <1>1, ComputeStep
<1>2. CASE \E v \in 1..MaxValue : Return(v)
  BY <1>2, ReturnStep
<1>3. CASE CallFunction
  BY <1>3, CallStep
<1>4. CASE Yield
  BY <1>4, YieldStep
<1>5. CASE \E t \in Task : TaskRun(t)
  BY <1>5, TaskRunStep
<1>6. CASE ExitPoint
  BY <1>6, ExitPointStep
<1>7. CASE InterruptEnter
  BY <1>7, InterruptEnterStep
<1>8. CASE InterruptReturn
  BY <1>8, InterruptReturnStep
<1>9. CASE UNCHANGED vars
  <2>1. /\ UNCHANGED sched
        /\ UNCHANGED <<stack, sp, ret, esp, regs, pc, ctx, frames, returned>>
    BY <1>9 DEF vars, machine, history
  <2>2. L!PointerInv' /\ current' = current /\ L!Waiting' = L!Waiting
        /\ L!Zombies' = L!Zombies
    BY <2>1, QuietStep
  <2>3. Types' /\ WaitInv' /\ RetInv'
    BY <2>1, <2>2 DEF SwitchInv, Types, WaitInv, RetInv
  <2>4. CpuInv'
    <3>1. PICK k \in Nat, o \in {Entry(current), Code(current), ExitPointAddr} :
               OnCpu(current, o, k)
      BY DEF SwitchInv, CpuInv
    <3>2. Floor(current, o)' = Floor(current, o)
      BY <2>1, <2>2 DEF Floor, BaseLen
    <3>3. OnCpu(current, o, k)'
      BY <2>1, <2>2, <3>1, <3>2 DEF OnCpu
    <3>4. QED
      BY <2>2, <3>3 DEF CpuInv
  <2>5. QED
    BY <2>2, <2>3, <2>4 DEF SwitchInv
<1>10. QED
  BY <1>1, <1>2, <1>3, <1>4, <1>5, <1>6, <1>7, <1>8, <1>9 DEF Next

-----------------------------------------------------------------------------
(* The invariant: on the stack of every thread that waits lie its calls,   *)
(* its return address and its registers, where its saved stack pointer     *)
(* says; on that of the running one its calls and the frames of the        *)
(* interrupts it is under (sched.c:18-40, 100-150, irq.S:34-73).           *)
THEOREM SwitchInvariant == Spec => []SwitchInv
  BY InitHolds, NextPreserves, PTL DEF Spec

(* The CPU executes nothing but the code of the current task, exit_point() *)
(* on its behalf and interrupt handlers, on that task's stack, whatever    *)
(* switches and interrupts come (sched.c:18-40, 94, 113-114, irq.S:34-73). *)
THEOREM RunsItsOwnCode == Spec => []RunsOwnCode
<1>1. SwitchInv => RunsOwnCode
  <2> SUFFICES ASSUME SwitchInv PROVE RunsOwnCode
    OBVIOUS
  <2>1. PICK k \in Nat, o \in {Entry(current), Code(current), ExitPointAddr} :
             OnCpu(current, o, k)
    BY DEF SwitchInv, CpuInv
  <2>2. esp.of = current /\ pc \in {o, Isr}
    BY <2>1 DEF OnCpu, Ptr
  <2>3. QED
    BY <2>2 DEF RunsOwnCode, InCode
<1>2. QED
  BY <1>1, SwitchInvariant, PTL

(* A thread finds its values in the registers a call preserves, however    *)
(* many threads and handlers ran in between (sched.c:21-38, irq.S:37-62).  *)
THEOREM KeepsItsRegisters == Spec => []OwnRegisters
<1>1. SwitchInv => OwnRegisters
  BY InThread DEF OwnRegisters
<1>2. QED
  BY <1>1, SwitchInvariant, PTL

(* No switch, start or interrupt leaves a word too many or too few on a    *)
(* thread's stack (sched.c:29-30, 111-122, 132, irq.S:34-73).              *)
THEOREM NoStackLeak == Spec => []StackBalanced
<1>1. SwitchInv => StackBalanced
  BY InThread DEF StackBalanced, BaseLen, Ptr
<1>2. QED
  BY <1>1, SwitchInvariant, PTL

(* A task that has ended carries the return code of its entry function     *)
(* (sched.c:100-103, irq.S:37-62).                                         *)
THEOREM ReturnCodeKept == Spec => []ReturnCode
<1>1. SwitchInv => ReturnCode
  BY DEF SwitchInv, RetInv, ReturnCode, L!Zombies, L!Abstract!TASK_ZOMBIE,
     S!Abstract!TASK_ZOMBIE
<1>2. QED
  BY <1>1, SwitchInvariant, PTL

(* The pointers of the task list hold the waiting tasks, with the stacks   *)
(* and interrupts in the picture too (sched.c:42-150, list.h:58-92).       *)
THEOREM TaskListKept == Spec => []ListIntact
<1>1. SwitchInv => ListIntact
  BY SameIntact DEF SwitchInv, L!PointerInv, ListIntact
<1>2. QED
  BY <1>1, SwitchInvariant, PTL

(* Threads on the machine, with their stacks and their interrupts, are     *)
(* scheduled as module Sched says: no BUG_ON() fires, nobody is lost       *)
(* (sched.c:42-150).                                                       *)
THEOREM MachineRefinesSched == Spec => ImplementsSched
<1>1. Init => S!Abstract!Init
  BY DEF Init, S!Init
<1>2. SwitchInv /\ [Next]_vars => [S!Abstract!Next]_(S!Abstract!vars)
  <2> SUFFICES ASSUME SwitchInv, [Next]_vars
               PROVE  [S!Abstract!Next]_(S!Abstract!vars)
    OBVIOUS
  <2>1. [L!Next]_(L!vars)
    <3>1. CASE Yield \/ ExitPoint \/ \E t \in Task : TaskRun(t)
      BY <3>1, SameSteps DEF Yield, ExitPoint, TaskRun, L!Next
    <3>2. CASE UNCHANGED sched
      BY <3>2 DEF sched, L!vars
    <3>3. QED
      BY <3>1, <3>2 DEF Next, vars, Compute, CallFunction, Return, InterruptEnter,
         InterruptReturn
  <2>2. [L!Abstract!Next]_(L!Abstract!vars)
    BY <2>1, SameAddresses, L!StepOnPointers DEF SwitchInv
  <2>3. \A list, st : L!Abstract!Schedule(list, st) <=> S!Abstract!Schedule(list, st)
    BY DEF L!Abstract!Schedule, S!Abstract!Schedule, L!Abstract!BugBefore,
       S!Abstract!BugBefore, L!Abstract!BugAfter, S!Abstract!BugAfter, L!Abstract!Panic,
       S!Abstract!Panic, L!Abstract!Requeue, S!Abstract!Requeue, L!Abstract!PutToSleep,
       S!Abstract!PutToSleep, L!Abstract!SwitchTo, S!Abstract!SwitchTo,
       L!Abstract!TASK_RUNNING, S!Abstract!TASK_RUNNING, L!Abstract!TASK_SLEEPING,
       S!Abstract!TASK_SLEEPING
  <2>4. L!Abstract!Next <=> S!Abstract!Next
    BY <2>3 DEF L!Abstract!Next, S!Abstract!Next, L!Abstract!Yield, S!Abstract!Yield,
       L!Abstract!Exit, S!Abstract!Exit, L!Abstract!TaskRun, S!Abstract!TaskRun,
       L!Abstract!Listed, S!Abstract!Listed, L!Abstract!TASK_SLEEPING,
       S!Abstract!TASK_SLEEPING, L!Abstract!TASK_ZOMBIE, S!Abstract!TASK_ZOMBIE
  <2>5. QED
    BY <2>2, <2>4 DEF L!Abstract!vars, S!Abstract!vars
<1>3. QED
  BY <1>1, <1>2, SwitchInvariant, PTL DEF Spec, ImplementsSched, S!ImplementsSched,
     S!Abstract!Spec
=============================================================================
