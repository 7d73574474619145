------------------------------ MODULE MCDebugger ------------------------------
(* A small instance of Debugger: f and g call each other, f itself too, and g calls h. *)
EXTENDS Debugger

CONSTANTS f, g, h, main

MCCallGraph == {<<main, f>>, <<f, f>>, <<f, g>>, <<g, f>>, <<g, h>>}
===============================================================================
