------------------------------ MODULE MCOpenFiles ------------------------------
(* A small instance of OpenFiles *)
EXTENDS OpenFiles, TLC

MCProc2 == 1 .. 2

MCCleanPages == {NoTable}

\* File objects are pages, and one is as good as another.
MCSymmetry == Permutations(Object)

\* No guard reads what the last call returned.
MCView == <<state, files, refCount, kernel, slot, ring, live, objVars>>
===============================================================================
