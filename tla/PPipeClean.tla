------------------------------ MODULE PPipeClean ------------------------------
(***************************************************************************)
(* Two facts ppipe.c relies on without checking them, the same as pipe.c:  *)
(* there are at least as many slots as processes (MAX_PPIPE_PROC is 16,    *)
(* MAX_PROCESSES is 7), and the pages of a new pipe hold nothing that      *)
(* reads as a slot in use (alloc_ppipe_info initialises slot 0 only).      *)
(***************************************************************************)
EXTENDS PPipe

ASSUME EnoughSlots == Cardinality(Proc) <= MaxPPipeProc

ASSUME CleanPages ==
  \A page \in PageContents, i \in Slot : ~ page[i].valid /\ page[i].open = {}
===============================================================================
