------------------------- MODULE DeploymentVerdict -------------------------
(***************************************************************************)
(* What the deployment sessions promise to whatever started the host: the  *)
(* exit code reported once the last session has closed is the last         *)
(* non-zero result of the sessions closed since the first was opened, or   *)
(* 60001 when that last close failed; and 60008 is reported as soon as a   *)
(* session cannot be opened.  DeploymentSession implements it.             *)
(***************************************************************************)
EXTENDS ExitCodes, SequencesExt

CONSTANTS Code

VARIABLES
    codes,      \* exit codes of the open sessions, the active one last
    verdict,    \* last non-zero result so far; 0 when no session is open
    due,        \* {c}: the exit code c must be reported next
    report      \* what was reported last

vars == <<codes, verdict, due, report>>

Init ==
    /\ codes = <<>>
    /\ verdict = 0
    /\ due = {}
    /\ report = [how |-> "running", code |-> 0]

\* Opening the first session starts from a verdict of 0, a nested one keeps it.
Begin ==
    /\ due = {}
    /\ codes' = Append(codes, 0)
    /\ UNCHANGED <<verdict, due, report>>

SetCode ==
    /\ due = {} /\ codes # <<>>
    /\ \E c \in Code : codes' = [codes EXCEPT ![Len(codes)] = c]
    /\ UNCHANGED <<verdict, due, report>>

\* A code that means success, possibly after a reboot, may be closed as 0; an
\* error or a request to retry never is.
Results(c) ==
    IF Successful(c) THEN {0, c} ELSE {c}

Latest(c) == IF c = 0 THEN verdict ELSE c

\* Only a close that fails may leave the verdict alone.
Finish ==
    /\ due = {} /\ codes # <<>>
    /\ codes' = Front(codes)
    /\ \E c \in Results(Last(codes)), failed \in BOOLEAN :
         LET v == Latest(c) IN
         IF Len(codes) = 1
         THEN due' = {IF failed THEN Unhandled ELSE v} /\ verdict' = 0
         ELSE /\ UNCHANGED due
              /\ verdict' = v \/ (failed /\ 0 \in Results(Last(codes)) /\ verdict' = verdict)
    /\ UNCHANGED report

FailToOpen ==
    /\ due = {}
    /\ due' = {OpenFailure}
    /\ codes = <<>> => verdict' = 0
    /\ codes # <<>> => verdict' \in {verdict, OpenFailure}
    /\ UNCHANGED <<codes, report>>

\* The host goes on under its shell, or ends; sessions still open end with it.
Report ==
    /\ \E c \in due : \/ report' = [how |-> "returned", code |-> c] /\ UNCHANGED <<codes, verdict>>
                      \/ /\ report' = [how |-> "exited", code |-> c]
                         /\ codes' = <<>> /\ verdict' = 0
    /\ due' = {}

\* A fresh start from the console drops the open sessions; a host may be killed.
Abandon ==
    /\ codes' = <<>> /\ verdict' = 0 /\ due' = {}
    /\ \/ due = {} /\ UNCHANGED report
       \/ report' = [how |-> "killed", code |-> 0]

NewHost ==
    /\ codes = <<>> /\ due = {}
    /\ report' = [how |-> "running", code |-> 0]
    /\ UNCHANGED <<codes, verdict, due>>

Next == Begin \/ SetCode \/ Finish \/ FailToOpen \/ Report \/ Abandon \/ NewHost

Spec == Init /\ [][Next]_vars

(* A failure is never forgotten: while a session is open, the verdict does  *)
(* not return to 0 (LastExitCode is sticky).                                *)
VerdictSticks == [][verdict # 0 /\ codes' # <<>> => verdict' # 0]_vars
=============================================================================
