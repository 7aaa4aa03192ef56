------------------------------ MODULE Cadence ------------------------------
(***************************************************************************)
(* On which ticks a row of the schedule runs.  A row at n/d Hz on a        *)
(* fundamental of Hz ticks a second runs at the instants                   *)
(*                                                                         *)
(*     off + floor(k * Hz * d / n),   k = 0, 1, 2, ...                     *)
(*                                                                         *)
(* counted from the first cycle ever dispatched.  The code keeps the next  *)
(* instant and a remainder, steps both, places the row on the slots of one *)
(* second that its instants fall on, and tests the instant only for rows   *)
(* whose pattern is longer than a second.  A table may be loaded at any    *)
(* cycle, and a cycle may be skipped.  All of it is the task thread's.     *)
(***************************************************************************)
EXTENDS Integers

CONSTANTS
    Hz,         \* ticks a second, and slots of the schedule
    Requests,   \* rates that are asked for: [n, d, off]
    MaxCycle    \* last cycle that is dispatched

VARIABLES
    phase,      \* the row: "none", being "placing", "placed"
    row,        \* its rate
    cad,        \* its TaskCadence: the next run and the remainder carried
    kth,        \* how many instants precede the next run
    walk,       \* the placement's own cadence
    slot,       \* the slot of the walk's instant
    walked,     \* instants placed so far
    visits,     \* slot -> how often it names the row
    next,       \* nextDispatchCycle_
    expected    \* expectedTick_

walkVars == <<walk, slot, walked>>
vars == <<phase, row, cad, kth, walkVars, visits, next, expected>>

Slots == 0 .. Hz - 1

-----------------------------------------------------------------------------
(* TaskCadence *)

Pattern(r) == Hz * r.d
Whole(r) == Pattern(r) \div r.n
Gated(r) == r.d > 1

Admissible(r) ==
    /\ r.n > 0 /\ r.d > 0
    /\ r.n <= Pattern(r)
    /\ r.off * r.n < Pattern(r)

Cad(at, acc) == [at |-> at, acc |-> acc]

CadInit(r) == Cad(r.off, 0)

\* The k of the first instant that is not before the cycle.
FirstAt(r, cycle) ==
    IF cycle <= r.off THEN 0 ELSE ((cycle - r.off) * r.n + Pattern(r) - 1) \div Pattern(r)

InitAt(r, cycle) ==
    IF cycle <= r.off THEN CadInit(r)
    ELSE LET kP == FirstAt(r, cycle) * Pattern(r)
         IN  Cad(r.off + kP \div r.n, kP % r.n)

Advance(r, c) ==
    LET acc == c.acc + (Pattern(r) % r.n)
    IN  IF acc >= r.n THEN Cad(c.at + Whole(r) + 1, acc - r.n) ELSE Cad(c.at + Whole(r), acc)

Due(c, cycle) == cycle >= c.at

-----------------------------------------------------------------------------

Init ==
    /\ phase = "none" /\ row = [n |-> 1, d |-> 1, off |-> 0]
    /\ cad = Cad(0, 0) /\ kth = 0
    /\ walk = Cad(0, 0) /\ slot = 0 /\ walked = 0
    /\ visits = [s \in Slots |-> 0]
    /\ next = 0 /\ expected = 0

\* addTask: admission, and the cadence as of the cycle to be dispatched next.
Add(r) ==
    /\ phase = "none" /\ Admissible(r)
    /\ phase' = "placing" /\ row' = r
    /\ cad' = InitAt(r, next) /\ kth' = FirstAt(r, next)
    /\ walk' = CadInit(r) /\ slot' = r.off % Hz /\ walked' = 0
    /\ UNCHANGED <<visits, next, expected>>

\* The slot of the walk's next instant: one subtraction, no division.
Carry == Advance(row, walk).at - walk.at - Whole(row)
Wrap(s) == IF s >= Hz THEN s - Hz ELSE s
Stepped == Wrap(slot + (Whole(row) % Hz) + Carry)

\* One turn of the placement; only a long pattern checks for a slot used before.
Place ==
    /\ phase = "placing" /\ walked < row.n
    /\ walk' = Advance(row, walk) /\ slot' = Stepped /\ walked' = walked + 1
    /\ visits' = IF Gated(row) THEN [visits EXCEPT ![slot] = 1]
                 ELSE [visits EXCEPT ![slot] = @ + 1]
    /\ UNCHANGED <<phase, row, cad, kth, next, expected>>

Placed ==
    /\ phase = "placing" /\ walked = row.n
    /\ phase' = "placed"
    /\ UNCHANGED <<row, cad, kth, walkVars, visits, next, expected>>

\* loadTprm drops the rows and the slots of the table before it adds the new.
Clear ==
    /\ phase = "placed"
    /\ phase' = "none" /\ visits' = [s \in Slots |-> 0]
    /\ UNCHANGED <<row, cad, kth, walkVars, next, expected>>

\* beginDispatchCycle: a division only when a cycle was skipped.
TickOf(cycle) == IF cycle = next THEN expected ELSE cycle % Hz

Visited(cycle) == phase = "placed" /\ visits[TickOf(cycle)] > 0
RunsOn(cycle)  == Visited(cycle) /\ (Gated(row) => Due(cad, cycle))

\* The instant of a gated row is consumed whether or not the run is dispatched.
Dispatch(cycle) ==
    /\ phase # "placing" /\ cycle >= next
    /\ next' = cycle + 1
    /\ expected' = IF TickOf(cycle) + 1 >= Hz THEN 0 ELSE TickOf(cycle) + 1
    /\ IF RunsOn(cycle) /\ Gated(row)
       THEN cad' = Advance(row, cad) /\ kth' = kth + 1
       ELSE UNCHANGED <<cad, kth>>
    /\ UNCHANGED <<phase, row, walkVars, visits>>

Next ==
    \/ \E r \in Requests : Add(r)
    \/ Place \/ Placed \/ Clear
    \/ \E cycle \in 0 .. MaxCycle : Dispatch(cycle)

Spec == Init /\ [][Next]_vars

-----------------------------------------------------------------------------
(* Properties *)

CadType == [at : Nat, acc : Nat]

TypeOK ==
    /\ phase \in {"none", "placing", "placed"}
    /\ row \in [n : Nat, d : Nat, off : Nat] /\ Admissible(row)
    /\ cad \in CadType /\ kth \in Nat
    /\ walk \in CadType /\ slot \in Slots /\ walked \in Nat
    /\ visits \in [Slots -> Nat]
    /\ next \in Nat /\ expected \in Slots

Instant(r, k) == r.off + (k * Pattern(r)) \div r.n
IsInstant(r, cycle) == \E k \in 0 .. cycle : Instant(r, k) = cycle

\* No run and no reload moves a row off the pattern counted from cycle 0: what is
\* stepped by additions is what the formula gives, remainder included.
NoDrift ==
    phase # "none" =>
        cad = Cad(Instant(row, kth), (kth * Pattern(row)) % row.n)

\* A row is named once by a slot, though a pattern of one second does not check:
\* named twice it would be dispatched twice in a tick.
NamedOnce == \A s \in Slots : visits[s] <= 1

\* The next run has not been passed over.
Leads == cad.at >= next

\* The row runs on the next cycle exactly if that is an instant of its pattern;
\* a row of the one-second pattern does on whatever cycle comes next.
OnGrid ==
    phase = "placed" =>
        \A cycle \in next .. MaxCycle :
            (Gated(row) => cycle = next /\ Leads) => (RunsOn(cycle) <=> IsInstant(row, cycle))

\* Only a skipped cycle can make a gated row late.
StaysInStep == 
    [][phase = "placed" /\ Gated(row) /\ Leads /\ next' <= next + 1 => Leads']_vars
=============================================================================
