--------------------------- MODULE RecoveryProofs ---------------------------
(***************************************************************************)
(* What holds of the banks and of the supervisor however often either      *)
(* process dies, is started, or a rename fails: memory agrees with the     *)
(* active bank, a swap keeps both payloads, and launches are bounded.      *)
(***************************************************************************)
EXTENDS Recovery, Integers, TLAPS

MastersKnown == Masters \subseteq Content /\ Safe \in Content

\* A step of the executive, its start and its end.
BankStep == BootStep \/ SwapStep \/ Command \/ Die \/ \E m \in Content : StartWith(m)

\* The marker on disk names the active bank, but while it is being rewritten.
MarkerInv == pc \notin {"off", "flip"} => MarkedBank = active

\* Where the payload that is loaded is kept.
LoadedInv ==
    /\ pc = "unmark" /\ ~held => file[active] = loaded
    /\ pc = "serve" /\ ~held /\ ~stale => file[active] = loaded
    /\ pc \in {"deploy", "swap1", "swap2"} => file[Other(active)] = loaded
    /\ pc = "swap3" => file[active] = loaded

\* Where the files are that a swap began with.
SwapInv ==
    /\ pc \in {"deploy", "swap1"} => before \subseteq {file[active], file[Other(active)]}
    /\ pc = "swap2" => before \subseteq {temp, file[Other(active)]}
    /\ pc = "swap3" => before \subseteq {file[active], temp}

BankInv == BankTypeOK /\ MarkerInv /\ LoadedInv /\ SwapInv

LEMMA BankFacts == ASSUME NEW b \in Bank PROVE Other(b) \in Bank /\ Other(b) # b /\ Other(Other(b)) = b
  BY DEF Bank, Other

LEMMA Payloads ==
    Good \subseteq Content /\ Bad \subseteq Content /\ Payload \subseteq Content /\ NoFile \in Content
    /\ Torn \in Content /\ Torn \notin Good /\ NoFile \notin Payload /\ NoFile \notin Good
  BY PayloadAssumption DEF PayloadAssumption, Content, Payload

LEMMA MarkedIsBank == MarkedBank \in Bank
  BY DEF MarkedBank, Bank

LEMMA StartStep ==
    ASSUME BankInv, NEW m \in Content, StartWith(m) PROVE BankInv'
<1> USE DEF BankInv
<1>1. /\ config' = m /\ active' = MarkedBank /\ loaded' = NoFile /\ held' = FALSE /\ stale' = FALSE
      /\ pc' \in {"judge", "extract"} /\ UNCHANGED <<file, temp, marker, attempt, before>>
  BY DEF StartWith, disk, Goto
<1>2. BankTypeOK' BY <1>1, MarkedIsBank DEF BankTypeOK, Booting, Swapping
<1>3. MarkerInv' BY <1>1 DEF MarkerInv, MarkedBank
<1>4. LoadedInv' /\ SwapInv' BY <1>1 DEF LoadedInv, SwapInv
<1> QED BY <1>2, <1>3, <1>4

LEMMA DieStep == ASSUME BankInv, Die PROVE BankInv'
<1>1. /\ pc' = "off" /\ active' = "A" /\ loaded' = NoFile /\ held' = FALSE /\ stale' = FALSE /\ config' = NoFile
      /\ before' = {} /\ UNCHANGED <<file, temp, marker, attempt>>
  BY DEF Die, Goto, disk
<1>2. BankTypeOK' BY <1>1, Payloads DEF BankInv, BankTypeOK, Booting, Swapping, Bank
<1> QED BY <1>1, <1>2 DEF BankInv, MarkerInv, LoadedInv, SwapInv

LEMMA BootKeeps == ASSUME BankInv, BootStep PROVE BankInv'
<1> USE DEF BankInv, Goto, At, disk, memory, bounds
<1>0. active \in Bank /\ Other(active) \in Bank /\ Other(active) # active /\ config \in Content
  BY BankFacts DEF BankTypeOK
<1>1. CASE Extract
  <2>1. /\ pc = "extract" /\ pc' = "write" /\ file' = [file EXCEPT ![active] = Torn]
        /\ UNCHANGED <<temp, marker, attempt, active, loaded, held, stale, config, before>>
    BY <1>1 DEF Extract
  <2>2. file' \in [Bank -> Content] BY <2>1, Payloads DEF BankTypeOK
  <2>3. BankTypeOK' BY <2>1, <2>2 DEF BankTypeOK, Booting, Swapping
  <2> QED BY <2>1, <2>3 DEF MarkerInv, MarkedBank, LoadedInv, SwapInv
<1>2. CASE Write
  <2>1. /\ pc = "write" /\ pc' = "judge" /\ file' = [file EXCEPT ![active] = config]
        /\ UNCHANGED <<temp, marker, attempt, active, loaded, held, stale, config, before>>
    BY <1>2 DEF Write
  <2>2. file' \in [Bank -> Content] BY <1>0, <2>1 DEF BankTypeOK
  <2>3. BankTypeOK' BY <2>1, <2>2 DEF BankTypeOK, Booting, Swapping
  <2> QED BY <2>1, <2>3 DEF MarkerInv, MarkedBank, LoadedInv, SwapInv
<1>3. CASE Judge
  <2>1. /\ pc = "judge" /\ UNCHANGED <<file, temp, marker, attempt, active, stale, config, before>>
        /\ \/ pc' = "unmark" /\ file[active] \in Good /\ loaded' = file[active] /\ held' = FALSE
           \/ pc' = "mark" /\ loaded' = loaded /\ held' = FALSE
           \/ pc' = "unmark" /\ loaded' = loaded /\ held' = TRUE
    BY <1>3 DEF Judge
  <2>2. BankTypeOK' BY <2>1 DEF BankTypeOK, Booting, Swapping
  <2> QED BY <2>1, <2>2 DEF MarkerInv, MarkedBank, LoadedInv, SwapInv
<1>4. CASE Mark
  <2>1. /\ pc = "mark" /\ pc' = "cut" /\ attempt' = TRUE
        /\ UNCHANGED <<file, temp, marker, active, loaded, held, stale, config, before>>
    BY <1>4 DEF Mark
  <2>2. BankTypeOK' BY <2>1 DEF BankTypeOK, Booting, Swapping
  <2> QED BY <2>1, <2>2 DEF MarkerInv, MarkedBank, LoadedInv, SwapInv
<1>5. CASE Cut
  <2>1. /\ pc = "cut" /\ pc' = "flip" /\ marker' = Torn
        /\ UNCHANGED <<file, temp, attempt, active, loaded, held, stale, config, before>>
    BY <1>5 DEF Cut
  <2>2. BankTypeOK' BY <2>1 DEF BankTypeOK, Booting, Swapping
  <2> QED BY <2>1, <2>2 DEF MarkerInv, LoadedInv, SwapInv
<1>6. CASE Flip
  <2>1. /\ pc = "flip" /\ pc' = "exec" /\ marker' = Other(active) /\ active' = Other(active)
        /\ UNCHANGED <<file, temp, attempt, loaded, held, stale, config, before>>
    BY <1>6 DEF Flip
  <2>2. BankTypeOK' BY <1>0, <2>1 DEF BankTypeOK, Booting, Swapping
  <2>3. MarkerInv' BY <1>0, <2>1 DEF MarkerInv, MarkedBank, Bank
  <2> QED BY <2>1, <2>2, <2>3 DEF LoadedInv, SwapInv
<1>7. CASE Exec BY <1>0, <1>7, StartStep DEF Exec
<1>8. CASE Unmark
  <2>1. /\ pc = "unmark" /\ pc' = "serve" /\ attempt' = FALSE
        /\ UNCHANGED <<file, temp, marker, active, loaded, held, stale, config, before>>
    BY <1>8 DEF Unmark
  <2>2. BankTypeOK' BY <2>1 DEF BankTypeOK, Booting, Swapping
  <2> QED BY <2>1, <2>2 DEF MarkerInv, MarkedBank, LoadedInv, SwapInv
<1> QED BY <1>1, <1>2, <1>3, <1>4, <1>5, <1>6, <1>7, <1>8 DEF BootStep

LEMMA CommandKeeps == ASSUME BankInv, Command PROVE BankInv'
<1> USE DEF BankInv, Goto, At, disk, memory, bounds
<1>0. active \in Bank /\ Other(active) \in Bank /\ Other(active) # active /\ config \in Content
  BY BankFacts DEF BankTypeOK
<1>1. CASE Reload
  <2>1. /\ pc = "serve" /\ pc' \in {"deploy", "swap1"}
        /\ file[Other(active)] \in Good /\ loaded' = file[Other(active)]
        /\ before' = {file["A"], file["B"]} \ {NoFile}
        /\ UNCHANGED <<file, temp, marker, attempt, active, held, stale, config>>
    BY <1>1 DEF Reload
  <2>2. before' \subseteq {file[active], file[Other(active)]} BY <1>0, <2>1 DEF Bank, Other
  <2>3. before' \subseteq Payload BY <2>1 DEF BankTypeOK, Content, Bank
  <2>4. BankTypeOK' BY <2>1, <2>3 DEF BankTypeOK, Booting, Swapping
  <2> QED BY <2>1, <2>2, <2>4 DEF MarkerInv, MarkedBank, LoadedInv, SwapInv
<1>2. CASE Restart BY <1>0, <1>2, StartStep DEF Restart
<1>3. ASSUME NEW p \in Payload, Upload(p) PROVE BankInv'
  <2>1. /\ pc = "serve" /\ pc' = pc /\ file' = [file EXCEPT ![Other(active)] = p]
        /\ UNCHANGED <<temp, marker, attempt, active, loaded, held, stale, config, before>>
    BY <1>3 DEF Upload
  <2>2. file' \in [Bank -> Content] /\ file'[active] = file[active]
    BY <1>0, <2>1, Payloads DEF BankTypeOK
  <2>3. BankTypeOK' BY <2>1, <2>2 DEF BankTypeOK, Booting, Swapping
  <2> QED BY <2>1, <2>2, <2>3 DEF MarkerInv, MarkedBank, LoadedInv, SwapInv
<1> QED BY <1>1, <1>2, <1>3 DEF Command

LEMMA SwapKeeps == ASSUME BankInv, SwapStep PROVE BankInv'
<1> USE DEF BankInv, Goto, At, disk, memory, bounds, Renamed, RenameFails, AsIs
<1> DEFINE o == Other(active)
<1>0. /\ active \in Bank /\ o \in Bank /\ o # active
      /\ file \in [Bank -> Content] /\ temp \in Content
      /\ file[active] \in Content /\ file[o] \in Content
  BY BankFacts DEF BankTypeOK
\* A rename that has failed: the swap is over and has been reported.
<1>1. ASSUME pc' = "serve", pc # "off", pc # "flip", stale' = TRUE,
             file' \in [Bank -> Content], temp' \in Content,
             UNCHANGED <<marker, attempt, active, loaded, held, config, before>>
      PROVE BankInv'
  <2>1. BankTypeOK' BY <1>1 DEF BankTypeOK, Booting, Swapping
  <2> QED BY <1>1, <2>1 DEF MarkerInv, MarkedBank, LoadedInv, SwapInv
\* One that has succeeded.
<1>2. ASSUME pc # "off", pc # "flip", pc' \in {"serve", "swap2", "swap3"},
             file' \in [Bank -> Content], temp' \in Content,
             UNCHANGED <<marker, attempt, active, loaded, held, stale, config, before>>,
             LoadedInv', SwapInv'
      PROVE BankInv'
  <2>1. BankTypeOK' BY <1>2 DEF BankTypeOK, Booting, Swapping
  <2> QED BY <1>2, <2>1 DEF MarkerInv, MarkedBank
<1>3. CASE Deploy
  <2>1. CASE stale' = TRUE /\ file' = file /\ temp' = temp /\ pc = "deploy" /\ pc' = "serve"
             /\ UNCHANGED <<marker, attempt, active, loaded, held, config, before>>
    BY <1>0, <1>1, <2>1
  <2>2. CASE pc = "deploy" /\ pc' = "serve" /\ file' = [file EXCEPT ![active] = file[o], ![o] = NoFile]
             /\ temp' = temp /\ UNCHANGED <<marker, attempt, active, loaded, held, stale, config, before>>
    <3>1. file' \in [Bank -> Content] /\ file'[active] = file[o] BY <1>0, <2>2, Payloads
    <3>2. LoadedInv' /\ SwapInv' BY <2>2, <3>1 DEF LoadedInv, SwapInv
    <3> QED BY <1>0, <1>2, <2>2, <3>1, <3>2
  <2> QED BY <1>3, <2>1, <2>2 DEF Deploy
<1>4. CASE Swap1
  <2>1. CASE stale' = TRUE /\ file' = file /\ temp' = temp /\ pc = "swap1" /\ pc' = "serve"
             /\ UNCHANGED <<marker, attempt, active, loaded, held, config, before>>
    BY <1>0, <1>1, <2>1
  <2>2. CASE pc = "swap1" /\ pc' = "swap2" /\ file' = [file EXCEPT ![active] = NoFile]
             /\ temp' = file[active] /\ UNCHANGED <<marker, attempt, active, loaded, held, stale, config, before>>
    <3>1. file' \in [Bank -> Content] /\ file'[o] = file[o] BY <1>0, <2>2, Payloads
    <3>2. LoadedInv' /\ SwapInv' BY <2>2, <3>1 DEF LoadedInv, SwapInv
    <3> QED BY <1>0, <1>2, <2>2, <3>1, <3>2
  <2> QED BY <1>4, <2>1, <2>2 DEF Swap1
<1>5. CASE Swap2
  <2>1. CASE stale' = TRUE /\ file' = [file EXCEPT ![active] = temp] /\ temp' = NoFile
             /\ pc = "swap2" /\ pc' = "serve"
             /\ UNCHANGED <<marker, attempt, active, loaded, held, config, before>>
    <3>1. file' \in [Bank -> Content] /\ temp' \in Content BY <1>0, <2>1, Payloads
    <3> QED BY <1>1, <2>1, <3>1
  <2>2. CASE pc = "swap2" /\ pc' = "swap3" /\ file' = [file EXCEPT ![active] = file[o], ![o] = NoFile]
             /\ temp' = temp /\ UNCHANGED <<marker, attempt, active, loaded, held, stale, config, before>>
    <3>1. file' \in [Bank -> Content] /\ file'[active] = file[o] BY <1>0, <2>2, Payloads
    <3>2. LoadedInv' /\ SwapInv' BY <2>2, <3>1 DEF LoadedInv, SwapInv
    <3> QED BY <1>0, <1>2, <2>2, <3>1, <3>2
  <2> QED BY <1>5, <2>1, <2>2 DEF Swap2
<1>6. CASE Swap3
  <2>1. CASE stale' = TRUE /\ file' = file /\ temp' = temp /\ pc = "swap3" /\ pc' = "serve"
             /\ UNCHANGED <<marker, attempt, active, loaded, held, config, before>>
    BY <1>0, <1>1, <2>1
  <2>2. CASE pc = "swap3" /\ pc' = "serve" /\ file' = [file EXCEPT ![o] = temp]
             /\ temp' = NoFile /\ UNCHANGED <<marker, attempt, active, loaded, held, stale, config, before>>
    <3>1. file' \in [Bank -> Content] /\ file'[active] = file[active] /\ temp' \in Content
      BY <1>0, <2>2, Payloads
    <3>2. LoadedInv' /\ SwapInv' BY <2>2, <3>1 DEF LoadedInv, SwapInv
    <3> QED BY <1>2, <2>2, <3>1, <3>2
  <2> QED BY <1>6, <2>1, <2>2 DEF Swap3
<1> QED BY <1>3, <1>4, <1>5, <1>6 DEF SwapStep

-----------------------------------------------------------------------------
(* The supervisor *)

\* A count that is saved is the one in memory; the supervisor launches below the
\* limit; failures in a row are counted but for one for each time it has died.
CountInv ==
    /\ crashes \in 0 .. MaxCrashes /\ saved \in {crashes, Lost}
    /\ streak \in Nat /\ deaths \in Nat
    /\ spc \in {"launch", "monitor", "reap"} \/ (spc = "save" /\ next = "launch") => crashes < MaxCrashes
    /\ ~lost => streak <= crashes + deaths

SupTypeOK ==
    /\ exit \in {"none", "zero", "fail"} /\ next \in {"launch", "check", "ended"}
    /\ spc \in {"down", "check", "save", "launch", "monitor", "reap", "fullstop", "ended"}
    /\ {mine, hung, shutdown, lost} \subseteq BOOLEAN
    /\ mine => pc # "off"

IInv == BankInv /\ CountInv /\ SupTypeOK

LEMMA InitInv == Init => IInv
<1> SUFFICES ASSUME Init PROVE IInv OBVIOUS
<1>1. /\ file \in [Bank -> {NoFile} \cup Good] /\ temp = NoFile /\ marker = "A" /\ attempt = FALSE
      /\ pc = "off" /\ active = "A" /\ loaded = NoFile /\ held = FALSE /\ stale = FALSE
      /\ config = NoFile /\ before = {}
  BY DEF Init, BankInit
<1>2. file \in [Bank -> Content]
  <2>1. {NoFile} \cup Good \subseteq Content BY Payloads
  <2> QED BY <1>1, <2>1
<1>3. BankTypeOK BY <1>1, <1>2, Payloads DEF BankTypeOK, Booting, Swapping, Bank
<1>4. BankInv BY <1>1, <1>3 DEF BankInv, MarkerInv, LoadedInv, SwapInv
<1>5. CountInv BY LimitsAssumption DEF Init, CountInv, LimitsAssumption
<1>6. SupTypeOK BY DEF Init, SupTypeOK
<1> QED BY <1>4, <1>5, <1>6 DEF IInv

LEMMA BankKeeps == ASSUME BankInv, BankStep PROVE BankInv'
  BY BootKeeps, CommandKeeps, SwapKeeps, DieStep, StartStep DEF BankStep

LEMMA BankSame == ASSUME BankInv, UNCHANGED bankVars PROVE BankInv'
<1>1. UNCHANGED <<file, temp, marker, attempt, pc, active, loaded, held, stale, config, before>>
  BY DEF bankVars, disk, memory
<1> QED BY <1>1 DEF BankInv, BankTypeOK, Booting, Swapping, MarkerInv, MarkedBank, LoadedInv, SwapInv

\* Every step is one of the banks or leaves them alone.
LEMMA StepsOfBanks == ASSUME MastersKnown, IInv, Next, master \in Masters PROVE BankInv'
<1> USE DEF IInv
<1>1. BankStep \/ UNCHANGED bankVars
  <2>1. CASE Run BY <2>1 DEF Run, BankStep
  <2>2. CASE Fail BY <2>2 DEF Fail, BankStep
  <2>3. CASE End BY <2>3 DEF End, BankStep
  <2>4. CASE OrphanEnds BY <2>4 DEF OrphanEnds, BankStep
  <2>5. CASE SupervisorStarts BY <2>5 DEF SupervisorStarts
  <2>6. CASE Launch
    <3>1. (IF Degraded THEN Safe ELSE master) \in Content BY DEF MastersKnown
    <3> QED BY <2>6, <3>1 DEF Launch, BankStep
  <2>7. CASE Save \/ Check \/ Closed \/ ReapClean \/ ReapFailed \/ LeaveFullStop
    BY <2>7 DEF Save, Check, Closed, ReapClean, ReapFailed, LeaveFullStop
  <2>8. CASE Timeout BY <2>8 DEF Timeout, BankStep
  <2>9. CASE ForwardStop BY <2>9 DEF ForwardStop, BankStep
  <2>10. CASE ReapInterrupted \/ RequestShutdown \/ SupervisorDies
    BY <2>10 DEF ReapInterrupted, RequestShutdown, SupervisorDies
  <2> QED BY <2>1, <2>2, <2>3, <2>4, <2>5, <2>6, <2>7, <2>8, <2>9, <2>10 DEF Next, SupervisorStep
<1> QED BY <1>1, BankKeeps, BankSame

\* A step that leaves the count alone and launches nothing.
LEMMA NotCounted ==
    ASSUME CountInv, UNCHANGED <<crashes, saved, streak>>, deaths' = deaths, ~lost' => ~lost,
           spc' \in {"launch", "monitor", "reap"} \/ (spc' = "save" /\ next' = "launch") => crashes < MaxCrashes
    PROVE  CountInv'
<1>1. ~lost' => streak <= crashes + deaths BY DEF CountInv
<1>2. saved' \in {crashes', Lost'} BY DEF CountInv, Lost
<1> QED BY <1>1, <1>2 DEF CountInv

LEMMA CountKeeps == ASSUME IInv, Next PROVE CountInv'
<1> USE DEF IInv
<1>0. /\ CountInv /\ SupTypeOK
      /\ MaxCrashes \in Nat \ {0} /\ crashes \in Nat /\ crashes <= MaxCrashes
      /\ streak \in Nat /\ deaths \in Nat /\ saved \in {crashes, Lost}
  BY LimitsAssumption DEF CountInv, LimitsAssumption
<1>1. ASSUME UNCHANGED <<crashes, saved, next, streak, deaths, lost>>, spc' = spc PROVE CountInv'
  BY <1>0, <1>1, NotCounted DEF CountInv
<1>2. CASE Run BY <1>1, <1>2 DEF Run, supVars, count, tally
<1>3. CASE Fail BY <1>1, <1>3 DEF Fail, count
<1>4. CASE End BY <1>1, <1>4 DEF End, count, tally
<1>5. CASE OrphanEnds BY <1>1, <1>5 DEF OrphanEnds, supVars, count, tally
<1>6. CASE SupervisorStarts
  <2>1. /\ crashes' = (IF saved = Lost THEN 0 ELSE saved) /\ UNCHANGED <<saved, streak, deaths>>
        /\ spc' = "check" /\ lost' = (lost \/ saved = Lost)
    BY <1>6 DEF SupervisorStarts
  <2>2. CASE saved = Lost
    <3>1. lost' BY <2>1, <2>2
    <3>2. crashes' = 0 /\ saved' = Lost BY <2>1, <2>2
    <3> QED BY <1>0, <2>1, <3>1, <3>2 DEF CountInv
  <2>3. CASE saved # Lost
    <3>1. ~lost' => ~lost BY <2>1
    <3>2. crashes' = crashes BY <1>0, <2>1, <2>3
    <3> QED BY <1>0, <2>1, <3>1, <3>2, NotCounted
  <2> QED BY <2>2, <2>3
<1>7. CASE Save
  <2>1. crashes' = crashes /\ saved' = crashes /\ spc' = next /\ spc = "save"
        /\ UNCHANGED <<next, streak, deaths, lost>>
    BY <1>7 DEF Save, tally
  <2>2. next = "launch" => crashes < MaxCrashes BY <2>1 DEF CountInv
  <2>3. spc' \in {"launch", "check", "ended"} BY <1>0, <2>1 DEF SupTypeOK
  <2> QED BY <1>0, <2>1, <2>2, <2>3 DEF CountInv
<1>8. CASE Check
  <2>1. UNCHANGED <<crashes, streak, deaths, lost>> BY <1>8 DEF Check, tally
  <2>2. CASE spc' \in {"ended", "fullstop"} /\ saved' = saved
    BY <1>0, <2>1, <2>2, NotCounted
  <2>3. CASE ~AtMax /\ saved' = Lost /\ spc' = "save"
    <3>1. crashes < MaxCrashes BY <1>0, <2>3 DEF AtMax
    <3> QED BY <1>0, <2>1, <2>3, <3>1 DEF CountInv
  <2> QED BY <1>8, <2>2, <2>3 DEF Check, CutState
<1>9. CASE Launch
  <2>1. spc = "launch" /\ spc' = "monitor" /\ UNCHANGED <<crashes, saved, streak, deaths, lost>>
    BY <1>9 DEF Launch, count, tally
  <2>2. crashes < MaxCrashes BY <2>1 DEF CountInv
  <2> QED BY <1>0, <2>1, <2>2, NotCounted
\* A failure is counted on both sides.
<1>10. ASSUME spc \in {"monitor", "reap"}, Counted, CutState("check"), UNCHANGED <<deaths, lost>>
       PROVE CountInv'
  <2>1. crashes' = crashes + 1 /\ streak' = streak + 1 /\ saved' = Lost /\ next' = "check" /\ spc' = "save"
    BY <1>10 DEF Counted, CutState
  <2>2. crashes < MaxCrashes BY <1>10 DEF CountInv
  <2>3. crashes' \in 0 .. MaxCrashes /\ streak' \in Nat BY <1>0, <2>1, <2>2
  <2>4. ~lost => streak' <= crashes' + deaths BY <1>0, <2>1 DEF CountInv
  <2>5. ~lost' => streak' <= crashes' + deaths' BY <1>10, <2>4
  <2> QED BY <1>0, <1>10, <2>1, <2>3, <2>5 DEF CountInv
<1>11. CASE Timeout BY <1>10, <1>11 DEF Timeout
<1>12. CASE Closed
  <2>1. spc = "monitor" /\ spc' = "reap" /\ UNCHANGED <<crashes, saved, streak, deaths, lost>>
    BY <1>12 DEF Closed, count, tally
  <2>2. crashes < MaxCrashes BY <2>1 DEF CountInv
  <2> QED BY <1>0, <2>1, <2>2, NotCounted
<1>13. CASE ReapClean
  <2>1. crashes' = 0 /\ streak' = 0 /\ saved' = Lost /\ next' = "ended" /\ spc' = "save" /\ deaths' = deaths
    BY <1>13 DEF ReapClean, CutState
  <2> QED BY <1>0, <2>1 DEF CountInv
<1>14. CASE ReapFailed BY <1>10, <1>14 DEF ReapFailed
<1>15. CASE ForwardStop
  <2>1. spc' = "ended" /\ UNCHANGED <<crashes, saved, streak, deaths, lost>> BY <1>15 DEF ForwardStop, count, tally
  <2> QED BY <1>0, <2>1, NotCounted
<1>16. CASE LeaveFullStop
  <2>1. spc' = "ended" /\ UNCHANGED <<crashes, saved, streak, deaths, lost>> BY <1>16 DEF LeaveFullStop, count, tally
  <2> QED BY <1>0, <2>1, NotCounted
<1>17. CASE ReapInterrupted
  <2>1. /\ crashes' = 0 /\ streak' = streak /\ saved' = Lost /\ next' = "ended" /\ spc' = "save" /\ deaths' = deaths
        /\ lost' = TRUE
    BY <1>17 DEF ReapInterrupted, CutState
  <2> QED BY <1>0, <2>1 DEF CountInv
<1>18. CASE RequestShutdown BY <1>1, <1>18 DEF RequestShutdown, count, tally
\* What was not counted yet is charged to the death.
<1>19. CASE SupervisorDies
  <2>1. /\ UNCHANGED <<crashes, saved, lost>> /\ spc' = "down" /\ deaths' = deaths + 1
        /\ streak' \in {streak, streak + 1}
    BY <1>19 DEF SupervisorDies, count
  <2>2. ~lost => streak' <= crashes' + deaths' BY <1>0, <2>1 DEF CountInv
  <2>3. ~lost' => streak' <= crashes' + deaths' BY <2>1, <2>2
  <2>4. streak' \in Nat /\ deaths' \in Nat /\ crashes' \in 0 .. MaxCrashes /\ saved' \in {crashes', Lost'}
    BY <1>0, <2>1 DEF Lost
  <2> QED BY <2>1, <2>3, <2>4 DEF CountInv
<1> QED BY <1>2, <1>3, <1>4, <1>5, <1>6, <1>7, <1>8, <1>9, <1>11, <1>12, <1>13, <1>14, <1>15, <1>16,
           <1>17, <1>18, <1>19 DEF Next, SupervisorStep

LEMMA PcKeepsOn ==
    ASSUME BootStep \/ SwapStep \/ Command, pc # "off" PROVE pc' # "off"
<1> USE DEF Goto, At, StartWith
<1>1. CASE BootStep BY <1>1 DEF BootStep, Extract, Write, Judge, Mark, Cut, Flip, Exec, Unmark
<1>2. CASE SwapStep
  BY <1>2 DEF SwapStep, Deploy, Swap1, Swap2, Swap3, Renamed, RenameFails
<1>3. CASE Command BY <1>3 DEF Command, Reload, Restart, Upload
<1> QED BY <1>1, <1>2, <1>3

\* What the supervisor knows of its child: a child that is its own is alive.
LEMMA ChildKeeps ==
    ASSUME IInv, Next
    PROVE  exit' \in {"none", "zero", "fail"} /\ mine' \in BOOLEAN /\ (mine' => pc' # "off")
<1> USE DEF IInv
<1>0. exit \in {"none", "zero", "fail"} /\ mine \in BOOLEAN /\ (mine => pc # "off") BY DEF SupTypeOK
<1>1. ASSUME UNCHANGED <<pc, mine, exit>>
      PROVE  exit' \in {"none", "zero", "fail"} /\ mine' \in BOOLEAN /\ (mine' => pc' # "off")
  BY <1>0, <1>1
<1>2. ASSUME mine' = FALSE, exit' \in {exit, "none", "zero", "fail"}
      PROVE  exit' \in {"none", "zero", "fail"} /\ mine' \in BOOLEAN /\ (mine' => pc' # "off")
  BY <1>0, <1>2
<1>3. CASE Run
  <2>1. UNCHANGED <<mine, exit>> BY <1>3 DEF Run, supVars, child
  <2>2. pc # "off" => pc' # "off" BY <1>3, PcKeepsOn DEF Run
  <2> QED BY <1>0, <2>1, <2>2
<1>4. CASE Fail
  <2>1. \/ mine' = FALSE /\ exit' = (IF mine THEN "fail" ELSE exit)
        \/ UNCHANGED <<bankVars, mine, exit>>
    BY <1>4 DEF Fail
  <2>2. CASE mine' = FALSE /\ exit' = (IF mine THEN "fail" ELSE exit) BY <1>2, <2>2
  <2>3. CASE UNCHANGED <<bankVars, mine, exit>> BY <1>1, <2>3 DEF bankVars
  <2> QED BY <2>1, <2>2, <2>3
<1>5. CASE End
  <2>1. mine' = FALSE /\ exit' \in {exit, "fail", "zero"} BY <1>5 DEF End
  <2> QED BY <1>2, <2>1
<1>6. CASE OrphanEnds
  <2>1. UNCHANGED <<mine, exit>> /\ ~mine BY <1>6 DEF OrphanEnds, supVars, child
  <2> QED BY <1>0, <2>1
<1>7. CASE Launch
  <2>1. CASE Alive
    <3>1. exit' = "fail" /\ UNCHANGED <<bankVars, mine>> BY <1>7, <2>1 DEF Launch
    <3>2. UNCHANGED <<pc, mine>> BY <3>1 DEF bankVars
    <3> QED BY <1>0, <3>1, <3>2
  <2>2. CASE ~Alive
    <3>1. exit' = "none" /\ mine' = TRUE /\ StartWith(IF Degraded THEN Safe ELSE master) BY <1>7, <2>2 DEF Launch
    <3>2. pc' # "off" BY <3>1 DEF StartWith, Goto
    <3> QED BY <3>1, <3>2
  <2> QED BY <2>1, <2>2
<1>8. CASE Timeout
  <2>1. mine' = FALSE /\ exit' = exit BY <1>8 DEF Timeout
  <2> QED BY <1>2, <2>1
<1>9. CASE ForwardStop
  <2>1. mine' = FALSE /\ exit' = "zero" BY <1>9 DEF ForwardStop
  <2> QED BY <1>2, <2>1
<1>10. CASE SupervisorDies
  <2>1. mine' = FALSE /\ exit' = "none" BY <1>10 DEF SupervisorDies
  <2> QED BY <1>2, <2>1
<1>11. CASE SupervisorStarts \/ Save \/ Check \/ Closed \/ ReapClean
  <2>1. UNCHANGED <<bankVars, child>> BY <1>11 DEF SupervisorStarts, Save, Check, Closed, ReapClean
  <2>2. UNCHANGED <<pc, mine, exit>> BY <2>1 DEF bankVars, child
  <2> QED BY <1>1, <2>2
<1>12. CASE ReapFailed \/ LeaveFullStop \/ ReapInterrupted \/ RequestShutdown
  <2>1. UNCHANGED <<bankVars, child>> BY <1>12 DEF ReapFailed, LeaveFullStop, ReapInterrupted, RequestShutdown
  <2>2. UNCHANGED <<pc, mine, exit>> BY <2>1 DEF bankVars, child
  <2> QED BY <1>1, <2>2
<1> QED BY <1>3, <1>4, <1>5, <1>6, <1>7, <1>8, <1>9, <1>10, <1>11, <1>12 DEF Next, SupervisorStep

\* Where the supervisor goes.
LEMMA PlaceKeeps ==
    ASSUME IInv, Next
    PROVE  /\ next' \in {"launch", "check", "ended"}
           /\ spc' \in {"down", "check", "save", "launch", "monitor", "reap", "fullstop", "ended"}
<1> USE DEF IInv, CutState
<1>0. /\ next \in {"launch", "check", "ended"}
      /\ spc \in {"down", "check", "save", "launch", "monitor", "reap", "fullstop", "ended"}
  BY DEF SupTypeOK
<1>1. CASE Run BY <1>0, <1>1 DEF Run, supVars, count
<1>2. CASE Fail BY <1>0, <1>2 DEF Fail, count
<1>3. CASE End BY <1>0, <1>3 DEF End, count
<1>4. CASE OrphanEnds BY <1>0, <1>4 DEF OrphanEnds, supVars, count
<1>5. CASE SupervisorStarts BY <1>0, <1>5 DEF SupervisorStarts
<1>6. CASE Save BY <1>0, <1>6 DEF Save
<1>7. CASE Check BY <1>0, <1>7 DEF Check
<1>8. CASE Launch
  <2>1. spc' = "monitor" /\ next' = next BY <1>8 DEF Launch, count
  <2> QED BY <1>0, <2>1
<1>9. CASE Timeout BY <1>0, <1>9 DEF Timeout
<1>10. CASE Closed BY <1>0, <1>10 DEF Closed, count
<1>11. CASE ReapClean \/ ReapFailed \/ ReapInterrupted BY <1>0, <1>11 DEF ReapClean, ReapFailed, ReapInterrupted
<1>12. CASE ForwardStop
  <2>1. spc' = "ended" /\ next' = next BY <1>12 DEF ForwardStop, count
  <2> QED BY <1>0, <2>1
<1>13. CASE LeaveFullStop BY <1>0, <1>13 DEF LeaveFullStop, count
<1>14. CASE RequestShutdown BY <1>0, <1>14 DEF RequestShutdown, count
<1>15. CASE SupervisorDies
  <2>1. spc' = "down" /\ next' = next BY <1>15 DEF SupervisorDies, count
  <2> QED BY <1>0, <2>1
<1> QED BY <1>1, <1>2, <1>3, <1>4, <1>5, <1>6, <1>7, <1>8, <1>9, <1>10, <1>11, <1>12, <1>13, <1>14,
           <1>15 DEF Next, SupervisorStep

\* The flags of the supervisor.
LEMMA FlagsKeep == ASSUME IInv, Next PROVE {hung', shutdown', lost'} \subseteq BOOLEAN
<1>0. hung \in BOOLEAN /\ shutdown \in BOOLEAN /\ lost \in BOOLEAN BY DEF IInv, SupTypeOK
<1>1. hung' \in {hung, TRUE, FALSE} /\ shutdown' \in {shutdown, TRUE, FALSE}
  <2> USE DEF supVars, child
  <2>1. CASE Run \/ Fail \/ End \/ OrphanEnds BY <2>1 DEF Run, Fail, End, OrphanEnds
  <2>2. CASE SupervisorStarts \/ Save \/ Check BY <2>2 DEF SupervisorStarts, Save, Check
  <2>3. CASE Launch \/ Timeout \/ Closed BY <2>3 DEF Launch, Timeout, Closed
  <2>4. CASE ReapClean \/ ReapFailed \/ ReapInterrupted BY <2>4 DEF ReapClean, ReapFailed, ReapInterrupted
  <2>5. CASE ForwardStop \/ LeaveFullStop BY <2>5 DEF ForwardStop, LeaveFullStop
  <2>6. CASE RequestShutdown \/ SupervisorDies BY <2>6 DEF RequestShutdown, SupervisorDies
  <2> QED BY <2>1, <2>2, <2>3, <2>4, <2>5, <2>6 DEF Next, SupervisorStep
<1>2. lost' \in {lost, TRUE, FALSE}
  <2> USE DEF supVars, tally
  <2>1. CASE Run \/ Fail \/ End \/ OrphanEnds BY <2>1 DEF Run, Fail, End, OrphanEnds
  <2>2. CASE SupervisorStarts
    <3>1. lost' = (lost \/ saved = Lost) BY <2>2 DEF SupervisorStarts
    <3> QED BY <3>1, <1>0
  <2>3. CASE Save \/ Check \/ Launch \/ Timeout \/ Closed BY <2>3 DEF Save, Check, Launch, Timeout, Closed
  <2>4. CASE ReapClean \/ ReapFailed \/ ReapInterrupted BY <2>4 DEF ReapClean, ReapFailed, ReapInterrupted
  <2>5. CASE ForwardStop \/ LeaveFullStop BY <2>5 DEF ForwardStop, LeaveFullStop
  <2>6. CASE RequestShutdown \/ SupervisorDies BY <2>6 DEF RequestShutdown, SupervisorDies
  <2> QED BY <2>1, <2>2, <2>3, <2>4, <2>5, <2>6 DEF Next, SupervisorStep
<1>3. hung' \in BOOLEAN /\ shutdown' \in BOOLEAN /\ lost' \in BOOLEAN BY <1>0, <1>1, <1>2
<1> QED BY <1>3

LEMMA MasterKeeps == Next => master' = master
<1> USE DEF supVars
<1> SUFFICES ASSUME Next PROVE master' = master OBVIOUS
<1>1. CASE Run \/ Fail \/ End \/ OrphanEnds BY <1>1 DEF Run, Fail, End, OrphanEnds
<1>2. CASE SupervisorStarts \/ Save \/ Check BY <1>2 DEF SupervisorStarts, Save, Check
<1>3. CASE Launch \/ Timeout \/ Closed BY <1>3 DEF Launch, Timeout, Closed
<1>4. CASE ReapClean \/ ReapFailed \/ ReapInterrupted BY <1>4 DEF ReapClean, ReapFailed, ReapInterrupted
<1>5. CASE ForwardStop \/ LeaveFullStop BY <1>5 DEF ForwardStop, LeaveFullStop
<1>6. CASE RequestShutdown \/ SupervisorDies BY <1>6 DEF RequestShutdown, SupervisorDies
<1> QED BY <1>1, <1>2, <1>3, <1>4, <1>5, <1>6 DEF Next, SupervisorStep

LEMMA Invariant == ASSUME MastersKnown PROVE Spec => [](IInv /\ master \in Masters)
<1>1. Init => IInv /\ master \in Masters BY InitInv DEF Init
<1>2. IInv /\ master \in Masters /\ [Next]_vars => IInv' /\ (master \in Masters)'
  <2> SUFFICES ASSUME IInv, master \in Masters, [Next]_vars PROVE IInv' /\ (master \in Masters)' OBVIOUS
  <2>1. CASE Next
    <3>1. SupTypeOK' BY <2>1, ChildKeeps, PlaceKeeps, FlagsKeep DEF SupTypeOK
    <3> QED BY <2>1, <3>1, StepsOfBanks, CountKeeps, MasterKeeps DEF IInv
  <2>2. CASE UNCHANGED vars
    <3>1. BankInv' BY <2>2, BankSame DEF IInv, vars
    <3>2. UNCHANGED <<master, spc, crashes, saved, next, mine, exit, hung, shutdown, streak, deaths, lost, pc>>
      BY <2>2 DEF vars, supVars, count, child, tally, bankVars
    <3>3. CountInv' BY <3>2 DEF IInv, CountInv
    <3>4. SupTypeOK' BY <3>2 DEF IInv, SupTypeOK
    <3> QED BY <3>1, <3>2, <3>3, <3>4 DEF IInv
  <2> QED BY <2>1, <2>2
<1> QED BY <1>1, <1>2, PTL DEF Spec

-----------------------------------------------------------------------------
\* The variables of the executive on its banks and of its supervisor stay in
\* their domains: no step of a boot, a swap or a restart leaves a half made value.
THEOREM TypeCorrect == ASSUME MastersKnown PROVE Spec => []TypeOK
<1>1. IInv => TypeOK
  <2> SUFFICES ASSUME IInv PROVE TypeOK OBVIOUS
  <2>1. crashes \in 0 .. MaxCrashes /\ saved \in 0 .. Lost
    BY LimitsAssumption DEF IInv, CountInv, Lost, LimitsAssumption
  <2>2. exit \in {"none", "zero", "fail"} /\ (mine => Alive)
        /\ spc \in {"down", "check", "save", "launch", "monitor", "reap", "fullstop", "ended"}
        /\ {mine, hung, shutdown, lost} \subseteq BOOLEAN
    BY DEF IInv, SupTypeOK, Alive
  <2> QED BY <2>1, <2>2 DEF IInv, BankInv, TypeOK
<1> QED BY <1>1, Invariant, PTL

\* Between commands the active bank holds the payload the component runs with and
\* the marker on disk names that bank, whatever died or failed before, unless a
\* failing swap was reported (ApexExecutive_Commands.cpp, ApexFileSystem.cpp).
THEOREM DiskAgrees == ASSUME MastersKnown PROVE Spec => []DiskMatchesMemory
<1>1. IInv => DiskMatchesMemory
  BY DEF IInv, BankInv, MarkerInv, LoadedInv, DiskMatchesMemory, At
<1> QED BY <1>1, Invariant, PTL

\* During a swap of the banks both payloads are in one of the two files or in the
\* temporary, at every point between the renames (ApexFileSystem::swapBankFile).
THEOREM SwapsKeepBoth == ASSUME MastersKnown PROVE Spec => []SwapKeepsBoth
<1>1. IInv => SwapKeepsBoth
  <2> SUFFICES ASSUME IInv, Swapping PROVE before \subseteq {file["A"], file["B"], temp}
    BY DEF SwapKeepsBoth
  <2>1. {file[active], file[Other(active)]} \subseteq {file["A"], file["B"]}
    BY DEF IInv, BankInv, BankTypeOK, Bank, Other
  <2>2. before \subseteq {file[active], file[Other(active)], temp}
    BY DEF IInv, BankInv, SwapInv, Swapping
  <2> QED BY <2>1, <2>2
<1> QED BY <1>1, Invariant, PTL

\* The executive is not started for ever: the failures in a row stay below the
\* limit, but for one for each time the supervisor itself has died, as long as its
\* state file was not lost (WatchdogSupervisor::run).
THEOREM LaunchesStayBounded == ASSUME MastersKnown PROVE Spec => []LaunchesBounded
<1>1. IInv => LaunchesBounded
  <2> SUFFICES ASSUME IInv, spc = "monitor", ~lost PROVE streak < MaxCrashes + deaths
    BY DEF LaunchesBounded
  <2>1. crashes < MaxCrashes /\ streak <= crashes + deaths /\ crashes \in 0 .. MaxCrashes
        /\ streak \in Nat /\ deaths \in Nat
    BY DEF IInv, CountInv
  <2> QED BY <2>1, LimitsAssumption DEF LimitsAssumption
<1> QED BY <1>1, Invariant, PTL
=============================================================================
