------------------------------ MODULE PidFileMC ------------------------------
(* PidFile on a small instance: the processes are interchangeable. *)
EXTENDS PidFile, TLC

Starts == Permutations(Procs)
=============================================================================
