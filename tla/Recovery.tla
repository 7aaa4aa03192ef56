------------------------------- MODULE Recovery -------------------------------
(***************************************************************************)
(* The watchdog supervisor over the executive of module Banks: it launches *)
(* the executive, kills it when its heartbeats stop, starts it again when  *)
(* it dies, with the safe configuration after SafeThreshold failures in a  *)
(* row, and stops after MaxCrashes.  The count of failures is kept in a    *)
(* file that is rewritten (cut, then written) around every launch.         *)
(*                                                                         *)
(* Either process may die at any step.  An executive whose supervisor died *)
(* runs on and holds the lock of the file root until its next heartbeat,   *)
(* written to a pipe nobody reads, kills it.                               *)
(***************************************************************************)
EXTENDS Banks

CONSTANTS
  Masters, Safe, \* masters the vehicle may be configured with; the safe one
  MaxCrashes, SafeThreshold,
  MaxFailures,   \* bound: executives that die or hang
  MaxStarts      \* bound: times the supervisor is started

ASSUME LimitsAssumption == SafeThreshold \in Nat /\ MaxCrashes \in Nat \ {0}

Lost == MaxCrashes + 1  \* a state file that cannot be read

VARIABLES
  master,   \* the configured master
  spc,      \* where the supervisor is
  crashes,  \* state_.consecutiveCrashes
  saved,    \* the same in the state file
  next,     \* where the supervisor goes after it has saved
  mine,     \* the running executive is the supervisor's child
  exit,     \* how the child ended: "none", "zero", "fail"
  hung,     \* the executive has stopped making progress
  shutdown, \* shutdownRequested_
  streak,   \* children that failed since the last clean exit
  failures, \* executives that died or hung
  starts, deaths, \* how often the supervisor was started, and died
  lost      \* the count was given up: the file was cut, a wait interrupted

count == <<crashes, saved, next>>
child == <<mine, exit, hung>>
tally == <<streak, failures, starts, deaths, lost>>
supVars == <<master, spc, count, child, shutdown, tally>>
vars == <<bankVars, supVars>>

Init ==
  /\ BankInit
  /\ master \in Masters
  /\ spc = "down" /\ crashes = 0 /\ saved = 0 /\ next = "check"
  /\ mine = FALSE /\ exit = "none" /\ hung = FALSE /\ shutdown = FALSE
  /\ streak = 0 /\ failures = 0 /\ starts = 0 /\ deaths = 0 /\ lost = FALSE

Alive == pc # "off"

(***************************************************************************)
(* The executive under the supervisor.                                     *)
(***************************************************************************)
Run ==
  /\ ~hung
  /\ BootStep \/ SwapStep \/ Command
  /\ UNCHANGED supVars

\* It crashes, or hangs.
Fail ==
  /\ Alive /\ ~hung /\ failures < MaxFailures
  /\ failures' = failures + 1
  /\ \/ Die /\ exit' = (IF mine THEN "fail" ELSE exit) /\ mine' = FALSE /\ hung' = hung
     \/ hung' = TRUE /\ UNCHANGED <<bankVars, mine, exit>>
  /\ UNCHANGED <<master, spc, count, shutdown, streak, starts, deaths, lost>>

\* It ends on its own schedule: with an error if it was held.
End ==
  /\ At("serve") /\ ~hung
  /\ exit' = IF ~mine THEN exit ELSE IF held THEN "fail" ELSE "zero"
  /\ mine' = FALSE
  /\ Die
  /\ UNCHANGED <<master, spc, count, hung, shutdown, tally>>

\* emitHeartbeat of an executive without a supervisor: SIGPIPE.
OrphanEnds ==
  /\ Alive /\ ~mine /\ ~hung
  /\ Die
  /\ UNCHANGED supVars

(***************************************************************************)
(* The supervisor.                                                         *)
(***************************************************************************)
\* loadState, whenever the supervisor is started again.
SupervisorStarts ==
  /\ spc \in {"down", "ended"} /\ starts < MaxStarts
  /\ starts' = starts + 1
  /\ crashes' = IF saved = Lost THEN 0 ELSE saved
  /\ lost' = (lost \/ saved = Lost)
  /\ spc' = "check" /\ shutdown' = FALSE
  /\ UNCHANGED <<bankVars, master, saved, next, child, streak, failures, deaths>>

\* saveState, first half: fopen("wb") cuts the file.
CutState(then) ==
  /\ saved' = Lost
  /\ next' = then
  /\ spc' = "save"

Save ==
  /\ spc = "save"
  /\ saved' = crashes
  /\ spc' = next
  /\ UNCHANGED <<bankVars, master, crashes, next, child, shutdown, tally>>

\* Slip: one launch too many.
BeyondMax == crashes > MaxCrashes

AtMax == crashes >= MaxCrashes

\* The head of run()'s loop: stop, full stop, or record the launch.
Check ==
  /\ spc = "check"
  /\ IF shutdown THEN spc' = "ended" /\ UNCHANGED <<saved, next>>
     ELSE IF AtMax THEN spc' = "fullstop" /\ UNCHANGED <<saved, next>>
     ELSE CutState("launch")
  /\ UNCHANGED <<bankVars, master, crashes, child, shutdown, tally>>

Degraded == crashes >= SafeThreshold

\* launchChild; while another executive holds the lock of the root the child
\* refuses to start.
Launch ==
  /\ spc = "launch"
  /\ spc' = "monitor"
  /\ IF Alive THEN exit' = "fail" /\ UNCHANGED <<bankVars, mine>>
              ELSE exit' = "none" /\ mine' = TRUE /\ StartWith(IF Degraded THEN Safe ELSE master)
  /\ UNCHANGED <<master, count, hung, shutdown, tally>>

Counted == crashes' = crashes + 1 /\ streak' = streak + 1

\* Slip: the timeout applies to a child that boots only.
TimeoutBooting ==
  /\ spc = "monitor" /\ mine /\ Booting /\ ~shutdown /\ failures < MaxFailures
  /\ failures' = failures + 1
  /\ Die /\ mine' = FALSE /\ hung' = FALSE
  /\ Counted /\ CutState("check")
  /\ UNCHANGED <<master, exit, shutdown, starts, deaths, lost>>

\* No byte within the timeout, from a hung child or one that boots for too
\* long: SIGKILL.
Timeout ==
  /\ spc = "monitor" /\ mine /\ (hung \/ Booting) /\ ~shutdown
  /\ hung \/ failures < MaxFailures
  /\ failures' = IF hung THEN failures ELSE failures + 1
  /\ Die /\ mine' = FALSE /\ hung' = FALSE
  /\ Counted /\ CutState("check")
  /\ UNCHANGED <<master, exit, shutdown, starts, deaths, lost>>

\* The pipe is closed: the child is gone or is about to be.
Closed ==
  /\ spc = "monitor" /\ exit # "none" /\ ~shutdown
  /\ spc' = "reap"
  /\ UNCHANGED <<bankVars, master, count, child, shutdown, tally>>

\* waitpid and the count; the loop goes on, or ends after a clean exit.
ReapClean ==
  /\ spc = "reap" /\ exit = "zero"
  /\ crashes' = 0 /\ streak' = 0
  /\ CutState("ended")
  /\ UNCHANGED <<bankVars, master, child, shutdown, failures, starts, deaths, lost>>

ReapFailed ==
  /\ spc = "reap" /\ exit = "fail"
  /\ Counted /\ CutState("check")
  /\ UNCHANGED <<bankVars, master, child, shutdown, failures, starts, deaths, lost>>

\* waitpid is interrupted by the signal that asks for shutdown: the status
\* is still zero and counts as a clean exit.
ReapInterrupted ==
  /\ spc = "reap" /\ ~shutdown
  /\ shutdown' = TRUE
  /\ crashes' = 0 /\ lost' = TRUE
  /\ CutState("ended")
  /\ UNCHANGED <<bankVars, master, child, streak, failures, starts, deaths>>

RequestShutdown ==
  /\ spc \notin {"down", "ended"} /\ ~shutdown
  /\ shutdown' = TRUE
  /\ UNCHANGED <<bankVars, master, spc, count, child, tally>>

\* SIGTERM to the child, then waitpid: a hung child never ends.
ForwardStop ==
  /\ spc = "monitor" /\ shutdown /\ (mine => ~hung)
  /\ spc' = "ended"
  /\ exit' = "zero" /\ mine' = FALSE
  /\ IF mine THEN Die ELSE UNCHANGED bankVars
  /\ UNCHANGED <<master, count, hung, shutdown, tally>>

LeaveFullStop ==
  /\ spc = "fullstop" /\ shutdown
  /\ spc' = "ended"
  /\ UNCHANGED <<bankVars, master, count, child, shutdown, tally>>

\* The supervisor dies; its child, if any, is an orphan.  A failure it had
\* not saved is forgotten.
SupervisorDies ==
  /\ spc \notin {"down", "ended"}
  /\ spc' = "down" /\ shutdown' = FALSE /\ deaths' = deaths + 1
  /\ mine' = FALSE /\ exit' = "none"
  /\ streak' = IF exit = "fail" /\ spc \in {"monitor", "reap"} THEN streak + 1 ELSE streak
  /\ UNCHANGED <<bankVars, master, count, hung, failures, starts, lost>>

SupervisorStep ==
  Save \/ Check \/ Launch \/ Timeout \/ Closed \/ ReapClean \/ ReapFailed
    \/ ForwardStop \/ LeaveFullStop

Next == Run \/ Fail \/ End \/ OrphanEnds \/ SupervisorStarts \/ SupervisorStep \/ ReapInterrupted
        \/ RequestShutdown \/ SupervisorDies

BootRuns == ~hung /\ (BootStep \/ SwapStep) /\ UNCHANGED supVars

\* The supervisor and a boot run; nothing else need happen, not even that a
\* supervisor that is gone is started again.
Spec == Init /\ [][Next]_vars /\ WF_vars(SupervisorStep) /\ WF_vars(BootRuns)

(***************************************************************************)
(* Properties.                                                             *)
(***************************************************************************)
TypeOK ==
  /\ BankTypeOK
  /\ crashes \in 0..MaxCrashes /\ saved \in 0..Lost
  /\ exit \in {"none", "zero", "fail"} /\ (mine => Alive)
  /\ spc \in {"down", "check", "save", "launch", "monitor", "reap", "fullstop", "ended"}
  /\ {mine, hung, shutdown, lost} \subseteq BOOLEAN

\* The launches in a row are bounded: while the child runs, the failures
\* since the last clean exit are fewer than MaxCrashes, but for one that
\* every dead supervisor may have failed to save, and unless the state file
\* was lost or an interrupted wait reset the count.
LaunchesBounded ==
  spc = "monitor" /\ mine /\ ~lost => streak < MaxCrashes + deaths

\* "Crashes since last clean exit": only a clean exit resets the count.
CleanExitResets == [][spc = "reap" /\ crashes > 0 /\ crashes' = 0 => exit = "zero"]_vars

\* The count survives the supervisor: LaunchesBounded without exceptions for
\* a lost state file.
CountSurvives == spc = "monitor" /\ mine => streak < MaxCrashes + deaths

\* Every boot chain ends: the fallback is tried once.
BootSettles == Booting /\ ~hung ~> pc \in {"off", "serve"} \/ hung

\* A hung child is killed, unless its supervisor dies or is told to stop.
HungIsKilled == hung /\ mine ~> ~hung \/ ~mine \/ shutdown
=============================================================================
