--------------------------- MODULE MCProductTasks ---------------------------
(* A task with a child in the inbox and room for a third, one project, the *)
(* user interface and one worker.                                          *)
EXTENDS ProductTasks

CONSTANTS t1, t2, t3
MCFirst == {t1, t2}
=============================================================================
