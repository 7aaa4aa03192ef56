----------------------------- MODULE MCAsyncLog -----------------------------
(* Small processes for TLC.                                                *)
EXTENDS AsyncLog

CONSTANTS b1, b2, w1, w2

Process(logs, slots, calls1, calls2, flush) ==
    [logs |-> logs, slots |-> slots, logOf |-> w1 :> b1 @@ w2 :> b1,
     calls |-> w1 :> calls1 @@ w2 :> calls2, flush |-> flush]

\* One thread fills the ring of one log; one thread and a flush, with the log
\* drained by the service or by itself; two threads on one log; two logs on the
\* service, or on its last slot.
AllLayouts ==
    {Process({b1}, 1, 3, 0, FALSE),
     Process({b1}, 1, 2, 0, TRUE), Process({b1}, 0, 2, 0, TRUE),
     Process({b1}, 1, 1, 1, FALSE),
     Process({b1, b2}, 2, 1, 0, FALSE), Process({b1, b2}, 1, 1, 0, FALSE)}

Together == {Process({b1}, 1, 1, 1, FALSE)}
Alone == {Process({b1}, 0, 1, 0, FALSE)}
=============================================================================
