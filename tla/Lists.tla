------------------------------- MODULE Lists -------------------------------
(***************************************************************************)
(* Programs that use include/list.h: with the circular lists (ListRing) or *)
(* with the hlists (HListRing).                                            *)
(***************************************************************************)
CONSTANTS ListHead, Node

VARIABLES kind,      \* the kind of lists the program uses
          rings,     \* the pointers of the circular lists
          hlists,    \* the pointers of the hlists
          lists      \* what the contract says is on each list

vars == <<kind, rings, hlists, lists>>

R == INSTANCE ListRing WITH heap <- rings
HR == INSTANCE HListRing WITH heap <- hlists

(* No head lies where an entry lies, and no entry where NULL points to.    *)
ASSUME ListAssumption == ListHead \cap Node = {} /\ HR!NULL \notin Node

Init == /\ kind \in {"list", "hlist"}
        /\ R!Init
        /\ HR!Init

Next == \/ kind = "list" /\ R!Step /\ UNCHANGED <<kind, hlists>>
        \/ kind = "hlist" /\ HR!Step /\ UNCHANGED <<kind, rings>>

Spec == Init /\ [][Next]_vars

-----------------------------------------------------------------------------
(* The pointers give the sequences the contract promises, whichever calls  *)
(* were made and however close to each other their arguments were on the   *)
(* lists: forwards and backwards for circular lists, forwards and with the *)
(* way to each node for hlists (list.h:46-490, 780-958).                   *)
KeepsContract == IF kind = "list" THEN R!KeepsContract ELSE HR!KeepsContract

(* The questions that are answered from two pointers are answered as if    *)
(* from the whole list (list.h:247-349, 531, 794-819, 924-942).            *)
AnswersRight == IF kind = "list" THEN R!AnswersRight ELSE HR!AnswersRight
=============================================================================
