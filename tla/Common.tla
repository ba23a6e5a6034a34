------------------------------- MODULE Common -------------------------------
(* What the modules of the local tools share.                              *)
CONSTANT None \* no value: Python's None, a file that is missing, a process at rest
=============================================================================
