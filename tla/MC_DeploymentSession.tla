------------------------ MODULE MC_DeploymentSession ------------------------
(***************************************************************************)
(* Instances of DeploymentSession for TLC.  Each run keeps the parameters  *)
(* its question needs and empties the others: exit codes, resources,       *)
(* terminal server mode or callbacks.                                      *)
(***************************************************************************)
EXTENDS DeploymentSession

\* Success, reboot, fast retry, and the two codes the toolkit sets itself
\* (which are errors to DeploymentSession.GetDeploymentStatus).
MCCodes == {0, 3010, 60001, 60008, 60012}

\* Where only the control flow around failures matters.
MCFailureCodes == {0, 60001, 60008}
=============================================================================
