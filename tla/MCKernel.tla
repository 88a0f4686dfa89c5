------------------------------ MODULE MCKernel ------------------------------
(***************************************************************************)
(* The nine tasks of init/main.c, and a device whose line is never enabled *)
(* beside the clock.                                                       *)
(***************************************************************************)
EXTENDS Kernel

CONSTANTS t1, t2, t3, t4, t5, t6, t7, t8, t9

MCTask == {init_task, t1, t2, t3, t4, t5, t6, t7, t8, t9}
MCTaskOrder == <<t1, t2, t3, t4, t5, t6, t7, t8, t9>>
=============================================================================
