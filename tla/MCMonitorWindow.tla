-------------------------- MODULE MCMonitorWindow --------------------------
(***************************************************************************)
(* A finite instance of MonitorWindow.  The numbers are smaller than the   *)
(* program's 5, 2, 5 and 5 seconds and keep what matters between them: a   *)
(* timeout is longer than the first pause, and there are intervals shorter *)
(* and longer than a timeout and than a turn of the sweeper.               *)
(***************************************************************************)
EXTENDS MonitorWindow

MCIntervals == {1, 3}
=============================================================================
