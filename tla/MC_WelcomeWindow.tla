-------------------------- MODULE MC_WelcomeWindow --------------------------
(***************************************************************************)
(* Instances of WelcomeWindow for TLC: two applications and the intervals  *)
(* of the code.                                                            *)
(***************************************************************************)
EXTENDS WelcomeWindow

MCInterval == 2        \* WelcomeDialog.xaml.cs and config.psd1
MCLoopFresh == 5       \* EvaluateRunningProcessesAsync
MCWindowFresh == 20    \* EvaluateRunningProcesses
=============================================================================
