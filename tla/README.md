# PastaOS in TLA+

PastaOS is a small 32-bit x86 kernel: kernel threads with a cooperative
round-robin scheduler, interrupts through two 8259 controllers, a text console
and a few library functions. It runs on one CPU and allocates no memory. This
directory holds TLA+ models of its parts, TLC configurations that check them on
small instances, and TLAPS proofs of the results that do not depend on the size
of the instance.

## 1. Inventory

| Component | Code | State | Operations |
|---|---|---|---|
| Scheduler | `kernel/sched.c`, `include/sched.h` | `current`, `task_list`, `task_struct.state` | `schedule`, `task_run` (with `task_init`), `exit_point` |
| Context switch | `kernel/sched.c` (`switch_to`, `stack_init`) | the stacks, `task_struct.sp`, `.ret`, the CPU registers | `switch_to`, `stack_init`, entering `exit_point` |
| Interrupts | `kernel/interrupt.c`, `kernel/irq.S`, `include/interrupt.h` | `irq_mask`, `irq_handler[]`, the IDT, `spurious_irq_mask`, the controllers | `default_irq_handler`, `default_exc_handler`, `mask_and_ack_irq`, `pic_enable_irq`, `pic_disable_irq`, (un)installing handlers, `idt_init`, `irq_init` |
| Clock driver | `kernel/clock.c` | none of its own | `clock_init`, `clock_handler` |
| Panic | `kernel/panic.c`, `include/panic.h` (`BUG_ON`) | `EFLAGS.IF`, halted CPU | `panic` |
| Boot | `kernel/boot.S`, `kernel/init.c` | the order of initialisation | `init` |
| Main program | `init/main.c` | ten stacks and task structures | `main`, `worker` |
| Linked lists | `include/list.h` | `next` and `prev`, `first` and `pprev` pointers | the `list_*` and `hlist_*` operations, tests and loops |
| Console | `kernel/console.c`, `include/console.h` | `console_buffer`, `console_pos`, the cursor registers | `kputchar`, `console_scroll_up`, `__console_clear`, `printk` |
| Formatting | `lib/vsprintf.c` | the buffer of the caller | `number`, `vsnprintf`, `simple_strtoul`, `vsscanf` and their relatives |
| Strings, ctype | `include/string.h`, `lib/string.c`, `lib/ctype.c` | the memory of the caller | `memcpy`, `strcmp`, `strstr`, `strsep`, `isspace`, ... |

**How the parts interact.** `init()` clears the console, installs the clock
driver, sets up the IDT and the controllers and enables interrupts, in that
order; then `main()` runs as `init_task`. It starts nine tasks with
`task_run()`, each of which takes the CPU at once, and then loops like them:
print, `hlt`, `schedule()`. Interrupts arrive on the stack of whatever thread is
running. They share state with each other (the masks, the handlers, the
controllers) but not with the scheduler: nothing preempts a thread. The
scheduler keeps its tasks on a list of `list.h`; a panic and every worker print
through the console.

**What is hard here.**

* *Nesting interrupts.* The gates of the sixteen lines are trap gates, so a
  handler is interrupted at any point outside `irq_save()` ...
  `irq_restore()`; handlers update one software mask and two hardware masks,
  acknowledge twice (a named and an unnamed end of interrupt), and a line is
  enabled again before its stub has returned. The clock does so twice.
* *Boot order.* The clock's line is unmasked before the IDT exists.
* *Sequences of starts, yields, exits and restarts.* `schedule()` asserts what it
  expects with six `BUG_ON()`s; a state or list entry left over by an earlier
  call would only show much later.
* *The machine level.* The order of seven `pushl` and seven `popl` and the layout
  written by hand in `stack_init()` must agree; the return code of a thread is
  only in `eax` for a moment.
* *Pointer surgery with neighbouring arguments* in `list.h`, and loops over a list
  that loses entries on the way.
* *A panic in the middle of `kputchar()`*, which prints through the same
  `kputchar()` with the position past the end of the screen.
* *Boundaries*: the last cell of the screen, the range check of an interrupt
  number, the end of the buffer of `vsnprintf()`, a 64-bit division made of two
  32-bit ones, the width that one `%s` leaves to the next.
* *Something must always happen*: only the clock wakes `hlt`, and only voluntary
  calls rotate the threads.

Nothing is persisted and there is one CPU, so neither crash recovery nor memory
ordering is an issue.

**What makes each component correct.**

| Component | Properties |
|---|---|
| Scheduler | no `BUG_ON()` fires; a task sleeps exactly while it is listed, once; an ended thread never gets the CPU back; it is FIFO round-robin; nobody starves |
| Context switch | each thread resumes its own code on its own stack with its own registers; stacks neither leak nor underflow; the return code is kept |
| Interrupts | no interrupt before boot is complete; software and hardware masks agree; a line is not re-entered while its handler runs; no line stays in service; every interrupt has a handler; no real interrupt is taken for a spurious one; ticks are taken |
| Panic | it stops the machine for good, and its message can be read |
| Main program | `hlt` is always woken; every thread says hello for ever, and in turn |
| Lists | forwards and backwards the pointers give the promised sequence; tests on two pointers answer for the whole list; every loop visits what it should |
| Console | the cursor stays inside the video memory; the array behaves as a terminal |
| Formatting | a number printed is the number read; nothing is written past the buffer; what is printed with a format is read with it |
| Strings | found, ordered and copied as by definition, and nothing else touched |

## 2. Modules

| Module | Models | State and actions |
|---|---|---|
| `RoundRobin` | abstract: what the scheduler promises | runner and FIFO queue; `Yield`, `Spawn`, `Exit` |
| `Sched` | the scheduler | the variables of `sched.c` and whether a `BUG_ON()` has fired; `Yield` (a thread calls `schedule()`), `TaskRun(t)`, `Exit`. `Schedule(list, st)` is the function itself, called with what the caller has written before |
| `SchedProofs` | proofs about `Sched` | |
| `SchedList` | the scheduler on the pointers of its list | as `Sched`, with `heap`, the pointers, from which every decision is taken; `task_list` records what the calls were meant to do. Shown to implement `Sched` |
| `SchedListProofs` | proofs about `SchedList` and the three operations of `List` it calls | uses `SchedProofs` |
| `Switch` | stacks and registers | every call takes the step of `SchedList` it stands for (`S == INSTANCE SchedList`) and moves words: `CallSchedule` pushes the return address, `SwitchTo` does what the assembly does. `Compute`, `CallFunction` and `Return` are what a thread does between two calls; `InterruptEnter` and `InterruptReturn` are the stub of `irq.S` around a handler |
| `SwitchProofs` | proofs about `Switch` | uses `SchedListProofs` |
| `Irq` | interrupts, clock, panic, boot order, the two 8259s | `frames` is the stack of interrupts being handled, each with the point it has reached; one action per critical section or stretch of code between two of them |
| `IrqProofs` | proofs about `Irq` | |
| `Kernel`, `MCKernel` | `main.c` over `Sched` and `Irq` | thread steps are guarded by `I!Thread` (no handler is running, the CPU is not halted); `Sched` and `Irq` steps leave each other's variables alone |
| `KernelProofs` | proofs about `Kernel` | uses `SchedProofs` and `IrqProofs` |
| `List`, `HList` | the pointer operations of `list.h`, `list_*` and `hlist_*` | operators from pointers to pointers, assignment by assignment |
| `ListSeq` | abstract: lists as sequences | one action per operation, guarded by what the comments ask of the caller |
| `ListRing`, `HListRing` | `List` or `HList`, and `ListSeq`, side by side | each call changes the pointers with the one and the sequences with the other |
| `Lists` | composes the two | a program uses either kind of list |
| `ListWalk` | the loops of `list.h` | operators that yield the entries a loop visits; for the safe ones, also the pointers it leaves when its body deletes some |
| `ListLoops` | `Lists` and `ListWalk` | in every state the loops are compared with the sequences |
| `ListProofs` | proofs about `Lists` | |
| `Terminal` | abstract: a screen of rows and columns | rows, cursor row and column |
| `Console` | `console.c` | the array, the position, the cursor registers; `kputchar(c)`, `console_clear` |
| `ConsolePanic` | `kputchar()` store by store, and panics on top of it | extends `Console`; one action per store, `Interrupted` starts a panic (and a panic inside it) anywhere |
| `ConsoleProofs` | proofs about `Console` and `ConsolePanic` | |
| `Ctype`, `Strings` | `ctype.h`, `string.h`, `string.c` | operators; a pointer that is only read is the rest of the string from there on, the functions that write work on a memory |
| `FormatWord` | where the width of a word matters in `vsprintf.c` | `do_div` and the end of the buffer, for any `WORD` |
| `Format`, `Scan` | formatted output and `printk()`; formatted input | operators; a format is a sequence of directives |
| `Lib` | a program that calls the library | one action per kind of call, which chooses the inputs |
| `FormatWordProofs` | proofs about `FormatWord` | |

Definitions called "Faulty variant" are not part of the specifications: each is
a plausible mistake in the definition that follows it, kept to show that the
properties notice it (`PROJECT.json`, "mutants").

Some decisions of the models:

* `schedule()` is one step. Interrupts arrive in the middle of it, but no handler
  reads or writes what it changes, and no thread is preempted, so no other order
  of steps is visible.
* `task_run()` is taken to be called with a task that is neither running nor
  listed nor `init_task`. The code does not check this; `main()` keeps to it.
* Writing beyond the end of `irq_handler` is modelled as entry 16 of the array;
  what lies there is not known, so it is only called "other".
* The controllers are external. Modelled is what the code relies on: masks,
  latched requests, fixed priorities with the slave on line 2, specific and
  non-specific ends of interrupt, and spurious requests on lines 7 and 15, which
  ignore the mask and set no service bit (on the slave: only that of line 2 of
  the master).
* The firmware may leave the controllers masked or not: `Init` allows both.
* `mask_and_ack_irq()` sends the command that should end line 2 to the slave's
  port (`interrupt.c:149`), where it names line 10; `Ack` does the same.
* A thread that ends leaves nothing to come back to: `Switch` has a return
  address behind the `schedule()` of `exit_point()` and shows it is never used.
* What lies beyond the stack pointer is forgotten after each switch, since an
  interrupt may overwrite it at any moment.
* An interrupt in `Switch` leaves arbitrary values in `eax`, `ecx` and `edx`, as a C
  function may; the segment registers never change. It can strike wherever a
  thread runs, at the entry of `exit_point()` and inside another handler. Inside
  `schedule()` it finds a consistent stack too, since `switch_to()` changes the
  stack pointer in one instruction; those points are not separate states.
* `ConsolePanic` does not rely on an order of the stores in `kputchar()` that the
  language does not give: the compiler holds the position in a register, so the
  cell and `console_pos` may be written in either order, and `console_pos` not at
  all before the scrolling. The colours are left out. A panic forgets the frame
  it interrupts, to which it never returns.
* The text of a format is not taken apart: `skip_atoi()` and the tests for flag and
  qualifier letters are what the fields of a directive stand for. A directive of
  `vsscanf()` whose qualifier or width is malformed is not modelled.
* A string of `Strings` is not longer than the address space; `char` is signed, as
  in the build.
* In `Lib`, a word has 32 values, a long long 1024 and a short 8; the code only
  depends on their relation, and `FormatWordProofs` covers the two places where
  it might not.

## 3. Runs

| Run | Instance | What it checks |
|---|---|---|
| `sched` | `init_task` and four tasks | `NoBug`, `NoLostTask`, `ZombieNeverRuns`, the inductive invariant `SchedInv`, `ImplementsRoundRobin` (refinement) and `NoStarvation` |
| `switch` | three tasks, one nested call, two interrupts deep, two values | `RunsOwnCode`, `OwnRegisters`, `StackBalanced`, `ReturnCode`, `ListIntact`, `ImplementsSched` (refinement) |
| `irq` | lines 0, 3 and 10, spurious interrupts on 7 and 15, three interrupts deep | the inductive invariant `IrqInv`, `BootSafe`, `MaskMirrors`, `NotReentered`, `NoStuckService`, `AlwaysHandled`, `NoFalseAlarm`, `ClockEnabled` |
| `irq_live` | lines 0 and 1, two deep, with fairness | `TickTaken`, `HaltWakes`, `PanicIsFinal` |
| `kernel` | the nine tasks of `main.c`, two interrupts deep, with fairness | `HaltIsSafe`, `EveryoneGreets`, `InTurn` |
| `list` | two heads, four entries, with symmetry, either kind of list | `KeepsContract`, `AnswersRight`, `LoopsVisitAll` |
| `console` | 3 x 3 cells, a tab of 2 | `InsideBuffer`, `IsTerminal` (refinement) |
| `console_panic` | 4 x 3 cells, a tab of 2, a panic inside a panic | `LittleOutside`, `PanicReadable` |
| `lib` | strings of up to three of four characters, formats of up to three directives, words of 32 values | `NumberReadsBack`, `PrintFits`, `ReadsBack`, `SearchesRight`, `ComparesRight`, `CopiesRight` |
| `irq_spurious` | a spurious IRQ 7 and no driver | violated: `SpuriousOnlyReported` |
| `irq_bounds` | a driver for line 16 | violated: `UnsupportedRefused` |
| `scan_width` | two words, the first with a width | violated: `WordsWhole` |

**Why the bounds are enough.** Four tasks beside `init_task` give one that runs,
two that wait, one that is a zombie and one that has not been started, which is
every role the scheduler tells apart; the proofs remove the bound, and those of
`switch` and `irq` too (section 4). In `switch`, a
thread's words are tagged with their owner, so two others suffice to mix
anything up, and two values to tell old from new; an interrupt in an interrupt
is the only way a stub can find another stub's words under its own. In `irq`,
line 0 is the clock, 3 is less urgent than the slave, 10 is a slave line and the
one the misdirected command names, 7 and 15 are the only lines that can be
spurious; `MaxDepth` 3 lets a handler be interrupted by one that
is itself interrupted, including by the line of the first. The nesting depth is
not bounded in the code; the invariants of `irq` are proved for every `MaxDepth`,
the liveness properties of `irq_live` and `kernel` are checked two deep only.
`kernel` is `main.c` at its full size.
Four entries give lists with first, last, and two neighbouring inner entries;
the proofs remove this bound but for the loops.
A screen of three rows has a top, an inner and a bottom row, and a tab of two
crosses the end of a line and of the screen; the real sizes are covered by the
proofs. In `console_panic` the panic messages are three characters
long, which is as much as the screen must hold for `PanicReadable` to say
something, and the position is split into two registers of four values each, so
that a mixture of two halves is another cell. One panic inside another is as deep
as it needs to be: a third finds what the second found, one cell further at most
(`PanicAssumption` is what keeps that within a line). In `lib` the inputs are not
all there are but those at the boundaries: numbers at both ends of each type and
around the powers of the bases, widths that are too small, exact and too large,
given or taken from a negative argument, buffers of size 0, 1, too small, enough
and beyond the last address; two capital and small letters that are equal but
for the case, and one character above 127. Strings of three characters can have a
match that starts inside a failed one.

**Fairness.** `Sched` has weak fairness of its next-state relation: preemption is
voluntary, and the statement assumes the threads are. `Irq` and `Kernel` assume
that booting goes on, that the timer ticks and that the CPU takes the interrupt
that is requested (weak fairness), and that a handler at a given depth, or a
thread, that can execute again and again does so (strong fairness). The last
assumption is not weak fairness because a nested interrupt disables the steps
below it; it is justified because the clock ticks every 10 ms and a handler is a
few dozen instructions, so interrupted code gets on between two interrupts. In
`kernel`, only the timer ticks are required; other devices may raise their line
or not. `irq_live` does not assume that threads do anything.

### Three disagreements between code and text

* `irq_spurious`: `handle_spurious_irq()` recognises a spurious interrupt, "lets
  ACK and report it" (`interrupt.c:110-111`), but cannot tell its caller. The
  interrupt goes on to the handler of the line, and if there is none, to
  `unhandled_interrupt()` and `panic()`. For the same reason `NotReentered`,
  `AlwaysHandled` and `NoFalseAlarm` make no promise for the lines that noise is on:
  a spurious IRQ 7 runs the handler of line 7 on top of itself.
* `irq_bounds`: `install_interrupt_handler()` and `uninstall_interrupt_handler()`
  refuse `irq > IRQ_NR`, but the arrays have `IRQ_NR` elements.
* `scan_width`: `vsscanf()` sets `field_width` to -1 once, before its loop. What one
  `%s` has not used up of its width is the width of the next that has none:
  `sscanf("abc def", "%3s %s", a, b)` leaves `b` empty, although the code copies
  "until next white space" (`vsprintf.c:598`). `ReadsBack` is about formats without
  widths, and about the first word of one with a width.

Read in passing, without a run: the comment of `irq_restore()`
(`interrupt.h:18`) says it enables interrupts, which it does not, and must not
(`BootSafe` fails if it does); the README says that paging is enabled, and no
code of the repository does so. In the library, as modelled and not contradicted
by any text: `%c` of `sscanf()` without a width copies two characters; its integer
conversions refuse a text that starts with a sign or a hexadecimal letter; `%Zd`
does not extend the sign; `strcmp()` compares signed characters, `strncmp()`
unsigned ones; `toupper()` takes 223 and 255 to characters that are no letters of
the same kind.

## 4. Proofs

**Scheduler** (`SchedProofs`), from `InitTaskAssumption` alone
(`init_task \in Task`; `Task` may be any set, also an infinite one).
`NoBug` is not inductive: that `schedule()` meets no `BUG_ON()` depends on who is
on the list. `SchedInv` adds that sleepers are exactly the listed tasks
(`NoLostTask`), once each, that the current task is running, and that
`init_task` is current or listed, which keeps the list from being empty when a
thread ends. The lemma `ScheduleSwitches` says what `schedule()` does when the
list it is given is as the invariant promises: no `BUG_ON()`, the head becomes
current, the old task goes to the tail if it is running. Each action then
preserves `SchedInv` by this lemma and by three lemmas on what `Tail`, `Append`
and prepending do to the set of listed tasks. `TypeCorrect`, `NoBugEver`,
`NoTaskLost` and `ZombiesNeverRun` follow. `RefinesRoundRobin` shows, with the
same invariant, that every step is a step of `RoundRobin` or a stutter.

**The scheduler on pointers** (`SchedListProofs`), from `DistinctAddresses` (no
task lies where the head of the list or the null pointer is) and
`init_task \in Task`. The invariant `PointerInv` is `SchedInv`, the type of the
pointers, and `ListIntact`. `ScheduleOnPointers` is the heart: if the pointers
represent the list, then `list_first_entry_or_null()` finds the head of the
sequence, `list_add_tail()` and `list_del_init()` are called as their theorems
(`ListAddTailCorrect`, `ListDelInitFirstCorrect`, and `ListAddCorrect` for
`list_add()`) ask: the running task is not listed, the next one is the first.
The outcome is the one of `Schedule` in `Sched`. `TaskListIntact` and `RefinesSched`
follow, and with them everything `SchedProofs` says holds of the pointers. The
lemmas at the end (`YieldMoves`, `TaskRunMoves`, `ExitMoves`) state a step in terms
of who runs, who waits and who has ended: the interface `SwitchProofs` uses.

**Context switch** (`SwitchProofs`), from `SwitchAssumption` and
`AddressAssumption`, for any set of tasks, any depth of calls, any number of
nested interrupts and any values. That a thread finds its registers depends on
words that were put on a stack many steps before, so the properties are not
inductive. `SwitchInv` says what every stack holds: that of a thread that waits,
the way to `exit_point()`, its open calls, the address it goes on at and its
preserved registers, exactly up to its saved stack pointer (`Suspended`); that of
the running thread, its calls and then one frame of thirteen words per interrupt,
each with the interrupted address and the registers (`OnCpu`). A thread in
`exit_point()` has an empty stack, and its return code is in `eax`, or in the word
the first interrupt pushed `eax` to. The lemmas up to `SwitchEffect` say what
pushing, popping and `switch_to()` do to the words; the order of the pushes and
pops enters in `Registers` and `PopRegsEffect` only. `FirstStack` is that what
`stack_init()` writes is the stack of a thread that waits. Then there is one
lemma per action. All six properties of the run `switch` follow.

**Interrupts** (`IrqProofs`), from `IrqAssumption` (no device and no driver on
line 2, which is the cascade; spurious requests on 7 and 15 only), for every
nesting depth and any set of devices and driver lines, those beyond the array of
handlers included. `IrqInv`, which the run `irq` checks, relates each frame to
the shared state. `MaskMirrors`, `BootSafe`, `NoFalseAlarm` and `NoStuckService` are
conjuncts. A line that is masked although it has a handler has a frame that is
between masking and unmasking it (`MaskedIsServed`), and the line of such a frame
is masked with no frame of the same line over it (`ServedIsMasked`): the first is
why the clock is unmasked when no handler runs, the second why a handler is not
entered over itself. `EntryUnmasked`
covers the frames that have been taken but have not masked their line yet. A
non-specific end of interrupt ends the most urgent line in service, so
`ServiceOrder` says that whatever is more urgent than the slave's line 2 was taken
over it and will end first: this is why the misdirected command of
`interrupt.c:149` leaves nothing in service. `ClockEnabled` is proved under the
assumption that no driver installs itself on the clock's line, which the property
needs and the code does not refuse. `DeadIsFinal` is the safety half of
`PanicIsFinal`.

**Main program** (`KernelProofs`), from `KernelAssumption`, for any sequence of
tasks to start and every nesting depth. `HaltIsSafe` rests on `IrqInv` of the
interrupts, since a step of a thread leaves their state alone or is one of their
steps, and on `HaltInv`: the CPU is halted only on behalf of the current thread.
`InTurn` is an action property; what makes it true is the order of the list
(`TurnInv`): the threads that have said hello in this round wait behind those
that have not. `main()` is the exception while it starts tasks, since it is put
at the tail each time without having said anything, and the invariant says so.

**Lists** (`ListProofs`), from `ListAssumption` (no head lies where an entry lies,
no entry where NULL points), for any heads, any entries and lists of any length:
`KeepsContract` and `AnswersRight` hold after every sequence of calls. The
difficulty is that the arguments of a call may be neighbours, the first or the
last entry, or the head itself; the second of the two entries that `list_swap()`
exchanges may be right behind or right before the first. The proof avoids most
of these cases. It reads the pointers as *words*, sequences of objects none
of which occurs twice. The invariant `RingState` says that each head followed by
its entries is a ring, a chain in both directions whose ends are tied, and that
no entry is on two lists. A ring can be turned (`TurnRing`): it can be read from
any of its objects on. So a call always works between the end and the start of
some reading (`Rest`), and inserting, removing or replacing an entry, or a whole
list, changes one tie (`StateInsert`, `StateRemove`, `StateReplace`, `SpliceState`,
`CutState`). `NextKept` and `PrevKept` say what a call leaves alone, which keeps the
other rings (`ChangeOne`, `ChangeTwo`). `SwapStep`
follows the code: `list_del()` of the second entry, `list_replace()` of the first by
it, `list_add()` of the first behind what came before the second, which is now the
second itself if that was the first. That is the only case split (`Other`, `Trade`:
the name a place has after the exchange); `TradeRest` shows that the ring read from
another object is traded in the same way. `list_bulk_move_tail()` takes a strand out
of the ring (`TakeOut`; `BulkIs`: its first two assignments are a `__list_del()`)
and puts it in before the head (`BulkInEffect`), which also covers entries that are
already last. `list_replace_init()` of a head (`ReplaceHeadState`) hands its whole
list to another head; on an empty list the head is its own neighbour, and the new
head is tied to itself because the third assignment reads what the second wrote
(`ReplaceHeadEffect`).

An hlist is a *line*, a chain that ends in NULL and in which an entry keeps the
address of the pointer that leads to it (`Adr`). Lines cannot be turned, but there
is only one place where the ends matter: nobody is behind the last entry
(`LineGap`). The invariant `HState` needs one thing more about the entries on no
list (`Calm`): one that looks unhashed, or hashed by itself, holds a NULL pointer.
Otherwise `hlist_del()` of an entry faked by `hlist_add_fake()` would write into a
list it has long left.

**Console** (`ConsoleProofs`), from `ConsoleAssumption` (the screen has a cell, a
tab is not longer than a line): `InsideBuffer` is inductive. The work is in
`LineStartBounds` and `MovedBounds`: no character moves the cursor to more than
`CONSOLE_WIDTH` beyond the last cell, so one `console_scroll_up()` is enough.
`ConsoleIsTerminal` is the refinement of `Terminal` by the array and the one
position, for every size. A position is a row and a column in one way only
(`QuotientRemainder`); a store changes one cell of one row (`RowsStore`); copying
the cells up by a line and blanking the last one drops the top row and adds a
blank one (`RowsScroll`). `PutStep` then compares the two for each kind of
character, scrolling or not.

For `LittleOutside` of `ConsolePanic`, with `PanicAssumption`, the invariant
(`PanicInv`) says how far the position is from the screen at each point of
`kputchar()`: a thread leaves it at most a tab beyond the last cell (a new line
starts at the cell behind the last at most, `NewLineBounds`), each panic adds at
most one cell before its first character has been scrolled, and once that is
done the position is inside again. `PanicReadable` needs two more invariants.
`MessageInv` says where the characters of the message are once one, two or all of
them have been taken, at every store and in the middle of the scrolling, where a
cell is to be looked up a line higher once the loop has passed (`Seen`).
`CursorInv` says that the controller has the upper half of the position before it
gets the lower one. `HeightAssumption` asks for three lines (the screen has 25):
on two, the newline behind the message can push the message off the screen. The
messages are the ones of the model: two panics, two printable characters and a
newline each.

**Words** (`FormatWordProofs`), from `WordAssumption` (a word has more than one
value): `DoDivExact` says that `do_div()` of any long long by any base up to the
size of a word gives the quotient and the remainder, and that its `divl` cannot
fault. The argument is that the upper word is first reduced modulo the base, so
that what is left for `divl` is less than `base * WORD`; the two partial quotients
are then put together by the uniqueness of quotient and remainder (`DivUnique`).
`BufferEndRight` says that the end `vsnprintf()` computes is that of the buffer cut
off at the last address. The run `lib` checks with 32-value words what the rest of
`number()` and `vsnprintf()` makes of these two.

**Only model-checked**: the liveness properties (`NoStarvation`, `TickTaken`,
`HaltWakes`, `PanicIsFinal`, `EveryoneGreets`), the loops of `list.h`
(`LoopsVisitAll`) and the library (the six properties of the run `lib`). Liveness
under fairness is outside of what the prover supports, and so is what the
recursive operators of `ListWalk`, `Strings`, `Format` and `Scan` compute for every
input, since that needs an induction over the input.

## 5. What is not modelled

* The character tests of `ctype.h` the library does not use (`isalnum()`,
  `isgraph()`, ...): they read the same table, and nothing calls them.
* `list_safe_reset_next()`, which re-reads one pointer and which no loop uses.
* `kernel/boot.S` sets up segments and a stack before anything can happen; the
  remaining headers declare types and constants; the Makefiles and `linker.ld` are
  build rules.
* The stub of the exceptions: its handler ends in a panic and it never returns.
* Vectors 0x30 to 0xff, which no device raises.
* Colours on the console.
* What happens if a handler is uninstalled while it runs, or `task_run()` is
  called with a listed task: nothing in the repository says what should.

## 6. Plan

The modules were written in the order of their importance to the system:
`RoundRobin`, `Sched` and its proofs; `Switch`; `Irq`; `Kernel`, which composes
`Sched` and `Irq`; `List`, `ListSeq` and `ListRing`; `Terminal` and `Console`;
`SchedList`, now under `Switch`; `HList`, `HListRing`, `Lists`, `ListWalk` and
`ListLoops`; `ConsolePanic`; `Ctype`, `Strings`, `FormatWord`, `Format`, `Scan` and
`Lib`. The proofs followed: the scheduler, the three list operations it uses and
`FormatWord`; then `SchedList`, `Irq`, `Kernel` and `Switch`; then all of `Console`
and `ConsolePanic`, and all calls of `list.h`.

Nothing of the plan is left to be modelled (section 5 says what is left out and
why), and every safety property of a run that is not about a recursive operator
is a theorem. A change of the code should start at the definition that
`PROJECT.json` maps to its lines; the runs show within minutes whether the
properties survive, and the proofs whether they do so for every size.
