-------------------------------- MODULE Banks --------------------------------
(***************************************************************************)
(* How the executive comes up on its two file banks and how a parameter    *)
(* file is exchanged between them at run time.                             *)
(*                                                                         *)
(* A boot unpacks the configured master into the active bank, loads the    *)
(* payload it finds there and, when it is refused, writes a marker, flips  *)
(* the active bank and starts itself again; a boot that finds the marker   *)
(* leaves the master packed.  When no bank can be tried any more it holds: *)
(* it serves commands and runs no task.  Ground uploads payloads into the  *)
(* inactive bank; RELOAD_TPRM loads one and swaps the two files by three   *)
(* renames.  The process may die between any two of these steps.           *)
(*                                                                         *)
(* One banked file stands for all; the ingest policy is STRICT, so that a  *)
(* missing payload is refused like a bad one.                              *)
(***************************************************************************)
EXTENDS Naturals, FiniteSets

CONSTANTS
  Good, Bad,   \* payloads the ingest accepts, and refuses
  Torn,        \* a file whose writing was cut short
  NoFile,
  MaxUploads,  \* bound: uploads by ground
  MaxFaults    \* bound: failing renames

Bank == {"A", "B"}
Other(b) == IF b = "A" THEN "B" ELSE "A"
Payload == Good \cup Bad
Content == Payload \cup {NoFile}

ASSUME PayloadAssumption == Torn \in Bad /\ Good \cap Bad = {} /\ NoFile \notin Payload

VARIABLES
  file,     \* the parameter file in either bank
  temp,     \* the temporary a swap moves the active file to
  marker,   \* active_bank on disk; Torn while it is being rewritten
  attempt,  \* .ingest_fallback exists
  pc,       \* where the executive is; "off" when there is no process
  active,   \* activeBank_
  loaded,   \* the payload the component runs with
  held,     \* ingestHold_
  stale,    \* a swap has failed and has been reported
  config,   \* the master the process was started with
  before,   \* the two files when the swap began
  uploads, faults

disk == <<file, temp, marker, attempt>>
memory == <<active, loaded, held, stale, config>>
bounds == <<uploads, faults>>
bankVars == <<disk, pc, memory, before, bounds>>

BankInit ==
  /\ file \in [Bank -> {NoFile} \cup Good] /\ file["A"] = NoFile
  /\ temp = NoFile /\ marker = "A" /\ attempt = FALSE
  /\ pc = "off"
  /\ active = "A" /\ loaded = NoFile /\ held = FALSE /\ stale = FALSE
  /\ config = NoFile
  /\ before = {}
  /\ uploads = 0 /\ faults = 0

At(label) == pc = label
Goto(label) == pc' = label

(***************************************************************************)
(* Boot.                                                                   *)
(***************************************************************************)
\* readActiveBankMarker: an empty file reads as bank A.
MarkedBank == IF marker = "B" THEN "B" ELSE "A"

\* The process starts with master m, or starts itself again: it takes the
\* root's lock and reads the active bank.
StartWith(m) ==
  /\ config' = m
  /\ active' = MarkedBank
  /\ loaded' = NoFile /\ held' = FALSE /\ stale' = FALSE
  /\ Goto(IF attempt \/ m = NoFile THEN "judge" ELSE "extract")
  /\ UNCHANGED <<disk, before, bounds>>

\* unpackMasterTprm rewrites the file in the active bank.
Extract ==
  /\ At("extract")
  /\ file' = [file EXCEPT ![active] = Torn]
  /\ Goto("write")
  /\ UNCHANGED <<temp, marker, attempt, memory, before, bounds>>

Write ==
  /\ At("write")
  /\ file' = [file EXCEPT ![active] = config]
  /\ Goto("judge")
  /\ UNCHANGED <<temp, marker, attempt, memory, before, bounds>>

\* Slip: the boot that fell back may fall back again.
AlwaysFallBack == file[Other(active)] # NoFile

\* One attempt, and only if the other bank has something to offer.
MayFallBack == ~attempt /\ file[Other(active)] # NoFile

\* The ingest barrier.
Judge ==
  /\ At("judge")
  /\ IF file[active] \in Good
       THEN loaded' = file[active] /\ held' = FALSE /\ Goto("unmark")
       ELSE loaded' = loaded
            /\ IF MayFallBack
                 THEN held' = FALSE /\ Goto("mark")
                 ELSE held' = TRUE /\ Goto("unmark")
  /\ UNCHANGED <<disk, active, stale, config, before, bounds>>

\* attemptIngestFallback: the marker, then flipActiveBank (the file is cut,
\* then written), then the process starts itself again.
Mark ==
  /\ At("mark")
  /\ attempt' = TRUE
  /\ Goto("cut")
  /\ UNCHANGED <<file, temp, marker, memory, before, bounds>>

Cut ==
  /\ At("cut")
  /\ marker' = Torn
  /\ Goto("flip")
  /\ UNCHANGED <<file, temp, attempt, memory, before, bounds>>

Flip ==
  /\ At("flip")
  /\ marker' = Other(active)
  /\ active' = Other(active)
  /\ Goto("exec")
  /\ UNCHANGED <<file, temp, attempt, loaded, held, stale, config, before, bounds>>

Exec == At("exec") /\ StartWith(config)

\* The attempt is over, whether the barrier was passed or holds.
Unmark ==
  /\ At("unmark")
  /\ attempt' = FALSE
  /\ Goto("serve")
  /\ UNCHANGED <<file, temp, marker, memory, before, bounds>>

(***************************************************************************)
(* Commands.                                                               *)
(***************************************************************************)
\* FILE_TRANSFER into the inactive bank.
Upload(p) ==
  /\ At("serve") /\ uploads < MaxUploads
  /\ file' = [file EXCEPT ![Other(active)] = p]
  /\ uploads' = uploads + 1
  /\ UNCHANGED <<temp, marker, attempt, pc, memory, before, faults>>

\* RELOAD_TPRM: a payload that fails the check is refused before anything is
\* changed; otherwise it is loaded and the files are swapped, or moved into
\* an empty active bank.
Reload ==
  /\ At("serve") /\ file[Other(active)] \in Good
  /\ loaded' = file[Other(active)]
  /\ before' = {file["A"], file["B"]} \ {NoFile}
  /\ Goto(IF file[active] = NoFile THEN "deploy" ELSE "swap1")
  /\ UNCHANGED <<disk, active, held, stale, config, bounds>>

\* A rename that fails: the command goes on, and the swap is reported.
RenameFails(undone) ==
  /\ faults < MaxFaults
  /\ faults' = faults + 1
  /\ stale' = TRUE
  /\ file' = undone.file /\ temp' = undone.temp
  /\ Goto("serve")
  /\ UNCHANGED <<marker, attempt, active, loaded, held, config, before, uploads>>

AsIs == [file |-> file, temp |-> temp]

Renamed(newFile, newTemp, label) ==
  /\ file' = newFile /\ temp' = newTemp
  /\ Goto(label)
  /\ UNCHANGED <<marker, attempt, memory, before, bounds>>

Deploy ==
  /\ At("deploy")
  /\ \/ Renamed([file EXCEPT ![active] = file[Other(active)], ![Other(active)] = NoFile],
                temp, "serve")
     \/ RenameFails(AsIs)

\* Slip: the new file is renamed over the active one.
Swap1Over ==
  /\ At("swap1")
  /\ Renamed([file EXCEPT ![active] = file[Other(active)], ![Other(active)] = NoFile],
             temp, "swap3")

\* active -> temporary
Swap1 ==
  /\ At("swap1")
  /\ \/ Renamed([file EXCEPT ![active] = NoFile], file[active], "swap2")
     \/ RenameFails(AsIs)

\* Slip: a failure is taken for success.
Swap2Ignored ==
  /\ At("swap2")
  /\ \/ Renamed([file EXCEPT ![active] = file[Other(active)], ![Other(active)] = NoFile],
                temp, "swap3")
     \/ Renamed(file, temp, "swap3")

\* inactive -> active; a failure puts the active file back.
Swap2 ==
  /\ At("swap2")
  /\ \/ Renamed([file EXCEPT ![active] = file[Other(active)], ![Other(active)] = NoFile],
                temp, "swap3")
     \/ RenameFails([file |-> [file EXCEPT ![active] = temp], temp |-> NoFile])

\* temporary -> inactive
Swap3 ==
  /\ At("swap3")
  /\ \/ Renamed([file EXCEPT ![Other(active)] = temp], NoFile, "serve")
     \/ RenameFails(AsIs)

\* RELOAD_EXECUTIVE with no new binary: the process starts itself again.
Restart == At("serve") /\ StartWith(config)

\* The process is gone; the files stay as they are.
Die ==
  /\ Goto("off")
  /\ active' = "A" /\ loaded' = NoFile /\ held' = FALSE /\ stale' = FALSE /\ config' = NoFile
  /\ before' = {}
  /\ UNCHANGED <<disk, bounds>>

BootStep == Extract \/ Write \/ Judge \/ Mark \/ Cut \/ Flip \/ Exec \/ Unmark
SwapStep == Deploy \/ Swap1 \/ Swap2 \/ Swap3
Command == Reload \/ Restart \/ \E p \in Payload : Upload(p)

Booting == pc \in {"extract", "write", "judge", "mark", "cut", "flip", "exec", "unmark"}
Swapping == pc \in {"deploy", "swap1", "swap2", "swap3"}

BankTypeOK ==
  /\ file \in [Bank -> Content] /\ temp \in Content
  /\ marker \in Bank \cup {Torn} /\ attempt \in BOOLEAN
  /\ Booting \/ Swapping \/ pc \in {"off", "serve"}
  /\ active \in Bank /\ loaded \in Good \cup {NoFile} /\ config \in Content
  /\ held \in BOOLEAN /\ stale \in BOOLEAN
  /\ before \subseteq Payload

(***************************************************************************)
(* Properties.                                                             *)
(***************************************************************************)
\* Between commands a running executive has in its active bank the payload
\* it runs with, and the next boot will use the same bank, unless a failing
\* swap was reported.
DiskMatchesMemory ==
  At("serve") /\ ~held /\ ~stale => file[active] = loaded /\ MarkedBank = active

\* Both payloads are on disk at every point of a swap, whatever fails, so
\* the exchange can be repeated backwards.
SwapKeepsBoth == Swapping => before \subseteq {file["A"], file["B"], temp}

\* "SAFE HOLD: no bank passes ingest".
HoldIsLast == [][At("judge") /\ held' => \A b \in Bank : file[b] \notin Good]_bankVars
=============================================================================
