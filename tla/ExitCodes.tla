----------------------------- MODULE ExitCodes -----------------------------
(***************************************************************************)
(* What a session's exit code means: the status a deployment closes with   *)
(* and the code it reports.                                                *)
(***************************************************************************)
EXTENDS Integers

CONSTANTS
    FastRetryCodes,   \* UI.DefaultExitCode and UI.DeferExitCode
    RebootCodes,      \* AppRebootExitCodes
    SuccessCodes      \* AppSuccessExitCodes

OpenFailure == 60008
Unhandled == 60001

\* DeploymentSession.GetDeploymentStatus: the first list that has the code.
Status(c) ==
    IF c \in FastRetryCodes THEN "FastRetry"
    ELSE IF c \in RebootCodes THEN "RestartRequired"
    ELSE IF c \in SuccessCodes THEN "Complete"
    ELSE "Error"

Successful(c) == Status(c) \in {"RestartRequired", "Complete"}

\* The session's exit code once Close has processed its status.
ClosedAs(c, passThru) ==
    IF Successful(c) /\ ~(Status(c) = "RestartRequired" /\ passThru) THEN 0 ELSE c

\* Close-ADTSession -ExitCode: the given code replaces the session's, except
\* that 60001 never hides a code the session already has.
CloseWith(c, given) ==
    IF given # {} /\ (c = 0 \/ given # {Unhandled}) THEN CHOOSE g \in given : TRUE ELSE c
=============================================================================
