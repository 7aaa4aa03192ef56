--------------------------- MODULE MCActionEngine ---------------------------
(* A small catalog for TLC.                                                *)
EXTENDS ActionEngine

Command == [kind |-> "command"]
Step(delay, timeout, policy, retries, wait) ==
  [delay |-> delay, timeout |-> timeout, policy |-> policy, retries |-> retries, wait |-> wait,
   goto |-> 1, then |-> "next", act |-> Command]
Entry(priority, group, event, abortEvent, repeat, steps) ==
  [priority |-> priority, group |-> group, event |-> event, abortEvent |-> abortEvent,
   repeat |-> repeat, blocks |-> {}, steps |-> steps]

\* 1: waits and retries, may time out, and calls for 3 when it does or is stopped.
\* 2: of a higher priority and the same group, starts 4 when it ends; calls for 5.
\* 3: the handler of abort event 7, runs twice.
\* 4: blocked by 1, of the handler's group, jumps over a step when it times out, disarms slot 1.
\* 5: loaded from the TPRM, started by event 9.
TheCatalog ==
  << Entry(1, 1, 0, 7, 0, <<Step(1, 2, "skip", 1, TRUE), Step(1, 2, "abort", 0, TRUE)>>),
     Entry(2, 1, 8, 9, 0, <<Step(1, 2, "abort", 0, TRUE),
                           [Step(2, 0, "abort", 0, FALSE) EXCEPT !.then = "start", !.goto = 4]>>),
     Entry(0, 2, 7, 0, 1, <<Step(1, 0, "abort", 0, FALSE)>>),
     [Entry(3, 2, 0, 7, 0, <<[Step(1, 2, "goto", 0, TRUE) EXCEPT !.goto = 2],
                            [Step(1, 2, "skip", 0, FALSE) EXCEPT !.act = [kind |-> "disarm", slot |-> 1]],
                            Step(0, 0, "abort", 0, FALSE)>>) EXCEPT !.blocks = {1}],
     Entry(0, 0, 9, 0, 0, <<Step(2, 0, "abort", 0, FALSE),
                            [Step(0, 2, "abort", 0, TRUE) EXCEPT !.act = [kind |-> "arm", slot |-> 1]]>>) >>

LastSlotLoaded == [s \in Slots |-> IF s = SlotCount THEN 5 ELSE 0]
=============================================================================
