---------------------------- MODULE MCFrameLoop ----------------------------
(* Ways to start the executive, for TLC.                                   *)
EXTENDS FrameLoop

Boot(mode, hold, commands, gap) ==
    [mode |-> mode, hold |-> hold, commands |-> commands,
     execMayFail |-> FALSE, gap |-> gap]

Counting == Boot("soft", FALSE, {"pause", "resume", "quit"}, FALSE)

\* A mode that only counts, a hard mode with waiters caught in the gap, a SAFE
\* hold with every command, and one whose restart may fail.
AllBoots ==
    {Counting,
     Boot("tick", FALSE, {"pause", "resume"}, TRUE),
     Boot("period", TRUE, Commands, FALSE),
     [Boot("soft", TRUE, {"restart", "quit"}, FALSE) EXCEPT !.execMayFail = TRUE]}

HardBoots  == {Boot("tick", FALSE, {}, FALSE)}
PauseBoots == {Boot("soft", FALSE, {"pause", "resume"}, FALSE)}
GapBoots   == {Boot("soft", FALSE, {"quit", "pause"}, TRUE)}
=============================================================================
