------------------------ MODULE MC_ProcessExecution ------------------------
(***************************************************************************)
(* Instances of ProcessExecution for TLC: the exit codes and the calls.    *)
(***************************************************************************)
EXTENDS ProcessExecution

\* Success, reboot, busy, an error, and msiexec's "not installed".
MCExitCodes == {0, 3010, 1618, 1605}

Direct(program) ==
    [via |-> "script", program |-> program, waitForMsi |-> FALSE, noWait |-> FALSE,
     timeout |-> 1, ignore |-> {}, success |-> SuccessCodes, reboot |-> RebootCodes,
     onError |-> "Stop"]

\* Every option once: an MSI, a patient installer of another kind, one left
\* behind, one whose codes do not matter, an endless wait, and an MSI started
\* through Start-ADTMsiProcess.
MCCalls ==
    {Direct("msiexec"),
     [Direct("other") EXCEPT !.waitForMsi = TRUE, !.onError = "Continue"],
     [Direct("msiexec") EXCEPT !.noWait = TRUE, !.onError = "Silent"],
     [Direct("other") EXCEPT !.ignore = {3010}],
     [Direct("msiexec") EXCEPT !.timeout = LongestWait + 1],
     [Direct("msiexec") EXCEPT !.via = "module"]}

MCMsiCalls == {[Direct("msiexec") EXCEPT !.via = "module"]}
MCMixedCalls == MCMsiCalls \cup {Direct("other")}
=============================================================================
