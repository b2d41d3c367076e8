----------------------- MODULE MC_InstallationWelcome -----------------------
(***************************************************************************)
(* Instances of InstallationWelcome for TLC: the ways a deployment script  *)
(* calls Show-ADTInstallationWelcome, as in the script's own frontend.     *)
(***************************************************************************)
EXTENDS InstallationWelcome

Plain == [allowDefer |-> FALSE, deferClose |-> FALSE, times |-> 0, days |-> 0,
          deadline |-> None, countdown |-> "none", silent |-> FALSE, checkDisk |-> FALSE]

Times == [Plain EXCEPT !.allowDefer = TRUE, !.times = 2, !.checkDisk = TRUE]
TimesForClosing == [Times EXCEPT !.deferClose = TRUE]
ForceClose == [Times EXCEPT !.countdown = "forceClose"]
ForceCountdown == [Times EXCEPT !.countdown = "force"]
Silent == [Times EXCEPT !.silent = TRUE]

Days == [Plain EXCEPT !.allowDefer = TRUE, !.days = 1]
TimesAndDays == [Times EXCEPT !.days = 1]
DeferOrCountdown == [Times EXCEPT !.countdown = "close", !.checkDisk = FALSE]
DaysOrCountdown == [DeferOrCountdown EXCEPT !.days = 1]
\* A deadline no later than the end of the days, counted from any call.
DeadlineOrCountdown == [DeferOrCountdown EXCEPT !.deadline = 1]

MCTimes == {Times, TimesForClosing, ForceClose, ForceCountdown, Silent}
MCDates == {DaysOrCountdown, DeadlineOrCountdown}
MCDays == {Days, TimesAndDays}
MCInstallAndUninstall == {Times, Plain}
MCDeferOrCountdown == {DeferOrCountdown}
=============================================================================
