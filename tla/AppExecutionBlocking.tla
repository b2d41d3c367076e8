------------------------ MODULE AppExecutionBlocking ------------------------
(***************************************************************************)
(* Block-ADTAppExecution and Unblock-ADTAppExecution on one machine.       *)
(*                                                                         *)
(* A deployment blocks applications by giving their executables a Debugger *)
(* value under Image File Execution Options, and registers a startup task  *)
(* that removes the values should the deployment be interrupted.  The      *)
(* values and the tasks belong to the machine and outlive the host that    *)
(* made them.  Every value removed or set is a step of its own: the        *)
(* registry may refuse it, the host may die before the next one, and       *)
(* another deployment or a startup task may run in between.                *)
(*                                                                         *)
(* Concurrent = FALSE: a deployment starts when no other one, and no       *)
(* startup task, is running.                                               *)
(***************************************************************************)
EXTENDS Naturals

CONSTANTS
    Host,         \* hosts that run deployments
    App,          \* install names; each has its own startup task
    Exe,          \* executables
    Failures,     \* the registry or the task scheduler may refuse
    Concurrent    \* deployments and startup tasks may overlap

ASSUME FlagAssumption == Failures \in BOOLEAN /\ Concurrent \in BOOLEAN

VARIABLES
    \* the machine
    debugger,     \* executables with a Debugger value of the toolkit
    tasks,        \* install names with a registered startup task
    booting,      \* startup tasks still running since the last boot
    visiting,     \* executables a startup task has yet to visit
    \* each host
    pc,
    named,        \* tasks the call in progress will register or unregister
    todo,         \* executables it has yet to block, or yet to visit
    callback,     \* Unblock-ADTAppExecution is a Finishing callback
    closing,      \* this Unblock is that callback
    \* history
    made,         \* values this deployment has set and not removed itself
    refused       \* a call of this deployment has failed

machine == <<debugger, tasks, booting, visiting>>
locals == <<named, todo, closing>>
vars == <<machine, pc, locals, callback, made, refused>>

-----------------------------------------------------------------------------
Down == {"closed", "killed"}
PC == Down \cup {"run", "cleanup", "unblock", "register", "keys"}

Init ==
    /\ debugger = {}
    /\ tasks = {}
    /\ booting = {}
    /\ visiting = [a \in App |-> {}]
    /\ pc = [h \in Host |-> "closed"]
    /\ named = [h \in Host |-> {}]
    /\ todo = [h \in Host |-> {}]
    /\ closing = [h \in Host |-> FALSE]
    /\ callback = [h \in Host |-> FALSE]
    /\ made = [h \in Host |-> {}]
    /\ refused = [h \in Host |-> FALSE]

Goto(h, label) == pc' = [pc EXCEPT ![h] = label]

ForgetLocals(h) ==
    /\ named' = [named EXCEPT ![h] = {}]
    /\ todo' = [todo EXCEPT ![h] = {}]
    /\ closing' = [closing EXCEPT ![h] = FALSE]

Start(h) ==
    /\ pc[h] \in Down
    /\ Concurrent \/ (booting = {} /\ \A g \in Host : pc[g] \in Down)
    /\ Goto(h, "run")
    /\ callback' = [callback EXCEPT ![h] = FALSE]
    /\ made' = [made EXCEPT ![h] = {}]
    /\ refused' = [refused EXCEPT ![h] = FALSE]
    /\ UNCHANGED <<machine, locals>>

-----------------------------------------------------------------------------
(* Unblock-ADTAppExecutionInternal: visit every key in turn, then unregister *)
(* the tasks.  It returns to the script or, as a callback, ends the host.    *)
Return(h) ==
    /\ Goto(h, IF closing[h] THEN "closed" ELSE "run")
    /\ ForgetLocals(h)

Fail(h) ==
    /\ Return(h)
    /\ refused' = [refused EXCEPT ![h] = TRUE]

\* Mutant: the pipeline ends after the first key.
Visit_FirstOnly(h) ==
    \E e \in todo[h] :
        /\ todo' = [todo EXCEPT ![h] = {}]
        /\ debugger' = debugger \ {e}
        /\ made' = [made EXCEPT ![h] = @ \ {e}]
        /\ UNCHANGED <<pc, named, closing, refused>>

Visit(h) ==
    \E e \in todo[h] :
        \/ /\ todo' = [todo EXCEPT ![h] = @ \ {e}]
           /\ debugger' = debugger \ {e}
           /\ made' = [made EXCEPT ![h] = @ \ {e}]
           /\ UNCHANGED <<pc, named, closing, refused>>
        \/ /\ Failures
           /\ e \in debugger
           /\ Fail(h)
           /\ UNCHANGED <<debugger, made>>

\* A task that is gone already makes the pipeline throw.
Unregister(h) ==
    /\ todo[h] = {}
    /\ \/ /\ named[h] \subseteq tasks
          /\ tasks' = tasks \ named[h]
          /\ callback' = [callback EXCEPT ![h] = FALSE]
          /\ IF pc[h] = "cleanup"
             THEN Goto(h, "register") /\ UNCHANGED locals
             ELSE Return(h)
          /\ UNCHANGED refused
       \/ /\ Failures \/ ~(named[h] \subseteq tasks)
          /\ \E d \in SUBSET named[h] : tasks' = tasks \ d
          /\ Fail(h)
          /\ UNCHANGED callback

UnblockStep(h) ==
    /\ pc[h] \in {"cleanup", "unblock"}
    /\ \/ Visit(h) /\ UNCHANGED <<tasks, callback>>
       \/ Unregister(h) /\ UNCHANGED <<debugger, made>>
    /\ UNCHANGED <<booting, visiting>>

\* Called by the script, or as Finishing callback when the last session closes.
Unblock(h, last) ==
    /\ pc[h] = "run"
    /\ last => callback[h]
    /\ Goto(h, "unblock")
    /\ named' = [named EXCEPT ![h] = tasks]
    /\ todo' = [todo EXCEPT ![h] = Exe]
    /\ closing' = [closing EXCEPT ![h] = last]
    /\ UNCHANGED <<machine, callback, made, refused>>

CloseWithoutCallback(h) ==
    /\ pc[h] = "run"
    /\ ~callback[h]
    /\ Goto(h, "closed")
    /\ UNCHANGED <<machine, locals, callback, made, refused>>

-----------------------------------------------------------------------------
(* Block-ADTAppExecution.  A task of the same name is taken for the remains  *)
(* of an earlier attempt and is cleaned up first, with every value there is. *)
Block(h, a) ==
    /\ pc[h] = "run"
    /\ named' = [named EXCEPT ![h] = {a}]
    /\ IF a \in tasks
       THEN Goto(h, "cleanup") /\ todo' = [todo EXCEPT ![h] = Exe]
       ELSE Goto(h, "register") /\ UNCHANGED todo
    /\ UNCHANGED <<machine, callback, closing, made, refused>>

\* Mutant: a task that cannot be registered does not stop the blocking.
RegisterTask_Ignored(h) ==
    /\ pc[h] = "register"
    /\ tasks' \in {tasks, tasks \cup named[h]}
    /\ Goto(h, "keys")
    /\ \E exes \in SUBSET Exe \ {{}} : todo' = [todo EXCEPT ![h] = exes]
    /\ UNCHANGED <<debugger, booting, visiting, named, callback, closing, made, refused>>

\* Registering fails when the name is taken; then nothing is blocked.
RegisterTask(h) ==
    /\ pc[h] = "register"
    /\ \/ /\ named[h] \cap tasks = {}
          /\ tasks' = tasks \cup named[h]
          /\ Goto(h, "keys")
          /\ \E exes \in SUBSET Exe \ {{}} : todo' = [todo EXCEPT ![h] = exes]
          /\ UNCHANGED <<named, closing, refused>>
       \/ /\ Failures \/ named[h] \cap tasks # {}
          /\ Fail(h)
          /\ UNCHANGED tasks
    /\ UNCHANGED <<debugger, booting, visiting, callback, made>>

SetDebugger(h) ==
    /\ pc[h] = "keys"
    /\ \E e \in todo[h] :
         \/ /\ debugger' = debugger \cup {e}
            /\ made' = [made EXCEPT ![h] = @ \cup {e}]
            /\ todo' = [todo EXCEPT ![h] = @ \ {e}]
            /\ UNCHANGED <<pc, named, closing, refused>>
         \/ /\ Failures
            /\ Fail(h)
            /\ UNCHANGED <<debugger, made>>
    /\ UNCHANGED <<tasks, booting, visiting, callback>>

\* Mutant: the Finishing callback is never added.
BlockDone_NoCallback(h) ==
    /\ pc[h] = "keys"
    /\ todo[h] = {}
    /\ Return(h)
    /\ UNCHANGED <<machine, callback, made, refused>>

BlockDone(h) ==
    /\ pc[h] = "keys"
    /\ todo[h] = {}
    /\ callback' = [callback EXCEPT ![h] = TRUE]
    /\ Return(h)
    /\ UNCHANGED <<machine, made, refused>>

-----------------------------------------------------------------------------
(* The environment. *)
Kill(h) ==
    /\ pc[h] \notin Down
    /\ Goto(h, "killed")
    /\ ForgetLocals(h)
    /\ UNCHANGED <<machine, callback, made, refused>>

Reboot ==
    /\ pc' = [h \in Host |-> IF pc[h] \in Down THEN pc[h] ELSE "killed"]
    /\ named' = [h \in Host |-> {}]
    /\ todo' = [h \in Host |-> {}]
    /\ closing' = [h \in Host |-> FALSE]
    /\ booting' = tasks
    /\ visiting' = [a \in App |-> IF a \in tasks THEN Exe ELSE {}]
    /\ UNCHANGED <<debugger, tasks, callback, made, refused>>

\* The startup task: the same visit of every key, then the task itself.
StartupVisit(a, e) ==
    /\ a \in booting
    /\ e \in visiting[a]
    /\ visiting' = [visiting EXCEPT ![a] = @ \ {e}]
    /\ debugger' = debugger \ {e}
    /\ UNCHANGED <<tasks, booting, pc, locals, callback, made, refused>>

\* Mutant: the task unregisters itself before it has visited the keys.
StartupUnregister_First(a) ==
    /\ a \in booting
    /\ tasks' = tasks \ {a}
    /\ booting' = IF visiting[a] = {} THEN booting \ {a} ELSE booting
    /\ UNCHANGED <<debugger, visiting, pc, locals, callback, made, refused>>

StartupUnregister(a) ==
    /\ a \in booting
    /\ visiting[a] = {}
    /\ tasks' = tasks \ {a}
    /\ booting' = booting \ {a}
    /\ UNCHANGED <<debugger, visiting, pc, locals, callback, made, refused>>

Next ==
    \/ \E h \in Host :
         \/ Start(h)
         \/ UnblockStep(h)
         \/ \E last \in BOOLEAN : Unblock(h, last)
         \/ CloseWithoutCallback(h)
         \/ \E a \in App : Block(h, a)
         \/ RegisterTask(h)
         \/ SetDebugger(h)
         \/ BlockDone(h)
         \/ Kill(h)
    \/ Reboot
    \/ \E a \in App :
         \/ \E e \in Exe : StartupVisit(a, e)
         \/ StartupUnregister(a)

Spec == Init /\ [][Next]_vars

\* The machine is rebooted some day, and reboots do not for ever prevent a
\* startup task from reaching the key of an executable.
FairSpec ==
    /\ Spec
    /\ WF_vars(Reboot)
    /\ \A a \in App, e \in Exe : SF_vars(StartupVisit(a, e))

-----------------------------------------------------------------------------
TypeOK ==
    /\ debugger \subseteq Exe
    /\ tasks \subseteq App
    /\ booting \subseteq App
    /\ visiting \in [App -> SUBSET Exe]
    /\ pc \in [Host -> PC]
    /\ named \in [Host -> SUBSET App]
    /\ todo \in [Host -> SUBSET Exe]
    /\ callback \in [Host -> BOOLEAN]
    /\ closing \in [Host -> BOOLEAN]
    /\ made \in [Host -> SUBSET Exe]
    /\ refused \in [Host -> BOOLEAN]

(* "Creates a scheduled task to restore the IFEO registry key values in case *)
(* the script is terminated uncleanly": while an executable is blocked there *)
(* is a startup task that will unblock it, wherever the hosts are killed.    *)
SafetyNet == debugger # {} => tasks # {}

(* Why SafetyNet holds of deployments that do not overlap: whoever is to     *)
(* unregister a task has yet to visit every executable that is blocked.      *)
SequentialInv ==
    /\ TypeOK
    /\ \A g, h \in Host : pc[g] \notin Down /\ pc[h] \notin Down => g = h
    /\ \A h \in Host : booting # {} => pc[h] \in Down
    /\ \A h \in Host : pc[h] \in {"cleanup", "unblock"} => debugger \subseteq todo[h]
    /\ \A h \in Host : pc[h] \in {"cleanup", "register"} => named[h] # {}
    /\ \A h \in Host : pc[h] = "keys" => tasks # {}
    /\ \A a \in booting : debugger \subseteq visiting[a]
    /\ SafetyNet

(* "Add callback to remove all blocked app executions during the shutdown of *)
(* the final session": a deployment none of whose calls has failed leaves    *)
(* none of the values it has set behind when it closes.                      *)
UnblockedAtClose ==
    \A h \in Host : pc[h] = "closed" /\ ~refused[h] => made[h] \cap debugger = {}

(* The same said of every deployment that closes, failed calls or not.       *)
AlwaysUnblockedAtClose ==
    \A h \in Host : pc[h] = "closed" => made[h] \cap debugger = {}

(* Why UnblockedAtClose holds: without the callback nothing has been set,    *)
(* unless a call has failed, and an Unblock visits all that has.             *)
CloseInv ==
    /\ SequentialInv
    /\ \A h \in Host : pc[h] = "register" => named[h] \cap tasks = {}
    /\ \A h \in Host : pc[h] \in {"cleanup", "unblock"} => named[h] \subseteq tasks
    /\ \A h \in Host : pc[h] \in {"cleanup", "unblock"} => made[h] \subseteq todo[h]
    /\ \A h \in Host : pc[h] \in {"run", "register"} /\ ~callback[h] /\ ~refused[h]
                         => made[h] = {}
    /\ \A h \in Host : pc[h] = "closed" /\ ~refused[h] => made[h] = {}
    /\ \A h \in Host : closing[h] => pc[h] = "unblock"

(* Whatever is interrupted, nothing stays blocked for ever.                  *)
BlockEnds == \A e \in Exe : e \in debugger ~> e \notin debugger
=============================================================================
