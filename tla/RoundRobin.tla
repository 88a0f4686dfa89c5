----------------------------- MODULE RoundRobin -----------------------------
(***************************************************************************)
(* What the scheduler of kernel/sched.c promises its threads: cooperative  *)
(* round-robin.  One thread runs; the others that can run wait in a        *)
(* first-in first-out queue.  A thread leaves the CPU only by asking to:   *)
(* it yields, starts another thread, or ends.  Task structures, task       *)
(* states, linked lists and stacks are matters of the implementation.      *)
(***************************************************************************)
EXTENDS Sequences

CONSTANTS Thread,   \* the threads that can ever run
          Root      \* the thread the machine boots into; it never ends

VARIABLES runner,   \* the thread that has the CPU
          queue     \* the threads waiting for it, the next one first

vars == <<runner, queue>>

Waiting == {queue[i] : i \in DOMAIN queue}

Init == /\ runner = Root
        /\ queue = <<>>

(* The runner goes to the back of the queue and the front thread runs.     *)
Yield == /\ queue # <<>>
         /\ runner' = Head(queue)
         /\ queue' = Append(Tail(queue), runner)

(* A new thread runs at once, ahead of everyone who waits; the thread that *)
(* started it goes to the back.  Nobody who waits loses his place.         *)
Spawn(t) == /\ t \notin Waiting \cup {runner}
            /\ runner' = t
            /\ queue' = Append(queue, runner)

(* The runner ends; it can only come back by being spawned again.          *)
Exit == /\ runner # Root
        /\ queue # <<>>
        /\ runner' = Head(queue)
        /\ queue' = Tail(queue)

Next == Yield \/ Exit \/ \E t \in Thread : Spawn(t)

Spec == Init /\ [][Next]_vars
=============================================================================
