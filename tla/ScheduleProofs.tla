--------------------------- MODULE ScheduleProofs ---------------------------
(***************************************************************************)
(* What runs on the clock: the sequences of the action engine, and the     *)
(* rows of the scheduler's table.                                          *)
(*                                                                         *)
(* The engine first, for any catalog, slots, events and commands.  A try   *)
(* of a step takes its timeout at most, so the tries there were bound its  *)
(* age; an abort event that is owed is in a call under way or behind a     *)
(* flag, and the flags are lowered before the actions have their turn; and *)
(* every call a command leads to is about the sequence it asked for or     *)
(* about a handler, and gives up a slot only if what ran in it may be      *)
(* ended.                                                                  *)
(*                                                                         *)
(* The arithmetic of the cadence, for every fundamental, rate, offset and  *)
(* cycle.  The instants are quotients of multiples of the pattern: stepping *)
(* the quotient and the remainder by additions gives the next one, initAt  *)
(* finds the first that is not before a cycle, they increase, one pass of  *)
(* them fits in a pattern and the next pass is the same, a pattern later.  *)
(* From these, the invariant: the next run is the first instant left, and  *)
(* the slots of the row are the residues of its instants.                  *)
(*                                                                         *)
(* Then what a reload can be relied on for, whatever the components, the   *)
(* table and the number of commands: the table itself stays sound through  *)
(* every failure, and a run in flight is spared by all but a new table and *)
(* the library that takes the place of its own.                            *)
(***************************************************************************)
EXTENDS ActionEngine, Integers, WellFoundedInduction, TLAPS

----------------------------------------------------------------------------
(* The inductive invariant.                                                *)

Tries(st) == 1 + IF st.policy = "skip" THEN st.retries ELSE 0

\* A running step with a timeout: each try so far took a timeout at most.
Timely(x) ==
  LET st == Current(x) IN
  st.timeout > 0 =>
    /\ x.left \in 1 .. st.timeout /\ x.retry + 1 <= Tries(st)
    /\ x.age + x.left <= st.timeout * (x.retry + 1)

Placed(x) == x.armed /\ x.step \in DOMAIN Steps(x)
Good(x) == x \in SlotRecords /\ (Running(x) => Placed(x) /\ Timely(x))

\* The abort event of a slot is one of the catalog's.
AbortEvents == {Programs[id].abortEvent : id \in Catalog} \cup {0}
Raises(x) == x.abortEvent \in AbortEvents /\ (x.pending => x.abortEvent # 0)

Sound == {x \in SlotRecords : Good(x) /\ Raises(x)}
SlotsInv == slot \in [Slots -> Sound]

CallFor(f) == f.does \in {"exclude", "place", "load"} => f.for \in Catalog
CallAt(f) == f.does \in {"reset", "load"} => f.at \in Slots
GoodCalls == {f \in Calls : CallFor(f) /\ CallAt(f)}
CallsInv == calls \in Seq(GoodCalls)

RestInv ==
  /\ turn \in 0 .. ActionTurn /\ queue \in Seq(Actions) /\ Len(queue) <= Room
  /\ cycled \in BOOLEAN /\ asked \in 0 .. CatalogSize /\ found \in [Slots -> 0 .. Len(Programs)]
  /\ inputs \in 0 .. MaxInputs

\* The abort events are sent when the actions have their turn.
HeardInv == turn = ActionTurn \/ (turn = 0 /\ cycled) => \A s \in Slots : ~slot[s].pending

\* What the calls of a command are about.
Called == Handlers \cup {asked}
Outranked(n) == \E h \in Called : Priority(n) < Programs[h].priority \/ SameGroup(n, h)
GivenUp(s) == found[s] # 0 => Outranked(found[s])
CommandCall(f) ==
  /\ f.does \in {"dispatch", "seek"} => f.for \in AbortEvents
  /\ f.does = "seek" => f.for # 0
  /\ f.does \in {"start", "exclude", "place", "load"} => f.for \in Called
  /\ f.does \in {"reset", "load"} => GivenUp(f.at)
CommandCalls == {f \in GoodCalls : CommandCall(f)}
CommandInv == asked # 0 => turn = 0 /\ PriorityKept /\ calls \in Seq(CommandCalls)

IInv == SlotsInv /\ CallsInv /\ RestInv /\ HeardInv /\ CommandInv

----------------------------------------------------------------------------
(* One sequence.                                                           *)

LEMMA Known ==
    ASSUME NEW id \in 1 .. Len(Programs)
    PROVE  Programs[id] \in Entries
  BY EngineAssumption

LEMMA StepKnown ==
    ASSUME NEW x \in SlotRecords
    PROVE  /\ Steps(x) \in Seq(StepRecords)
           /\ DOMAIN Steps(x) = 1 .. Len(Steps(x)) /\ Len(Steps(x)) \in Nat
           /\ \A k \in DOMAIN Steps(x) : x.seq \in 1 .. Len(Programs) /\ Steps(x)[k] \in StepRecords
<1>1. x.seq \in 0 .. Len(Programs) BY DEF SlotRecords
<1>2. CASE x.seq = 0 BY <1>2 DEF Steps
<1>3. CASE x.seq # 0
  <2>1. x.seq \in 1 .. Len(Programs) BY <1>1, <1>3, EngineAssumption
  <2>2. Programs[x.seq].steps \in Seq(StepRecords) BY <2>1, Known DEF Entries
  <2> QED BY <2>1, <2>2, <1>3 DEF Steps
<1> QED BY <1>2, <1>3

LEMMA Times ==
    /\ \A t \in Nat : t * 1 = t /\ t * (0 + 1) = t
    /\ \A t \in Nat, n \in Nat : t * (n + 1 + 1) = t * (n + 1) + t /\ t * (n + 1) \in Nat
    /\ \A t \in Nat, m \in Nat, n \in Nat : m <= n => t * m <= t * n
  OBVIOUS

LEMMA EnterGood ==
    ASSUME NEW x \in SlotRecords, x.armed, NEW k \in DOMAIN Steps(x)
    PROVE  /\ Good(Enter(x, k))
           /\ Enter(x, k).seq = x.seq /\ Enter(x, k).abortEvent = x.abortEvent
           /\ Enter(x, k).pending = x.pending
<1> DEFINE y == Enter(x, k)  st == Steps(x)[k]
<1>1. st \in StepRecords /\ k \in Nat \ {0} BY StepKnown
<1>2. /\ st.delay \in Nat /\ st.timeout \in Nat /\ st.retries \in Nat /\ st.policy \in {"skip", "goto", "abort"}
  BY <1>1 DEF StepRecords
<1>3. Due(st.delay) \in Statuses BY DEF Due, Statuses
<1>4. y = [x EXCEPT !.step = k, !.retry = 0, !.delay = st.delay, !.left = st.timeout,
                    !.status = Due(st.delay), !.age = 0] BY DEF Enter
<1> HIDE DEF st, y
<1>5. y \in SlotRecords BY <1>1, <1>2, <1>3, <1>4 DEF SlotRecords
<1>6. /\ y.seq = x.seq /\ y.armed = x.armed /\ y.step = k /\ y.retry = 0 /\ y.left = st.timeout /\ y.age = 0
      /\ y.abortEvent = x.abortEvent /\ y.pending = x.pending
  BY <1>4 DEF SlotRecords
<1>7. Steps(y) = Steps(x) /\ Current(y) = st BY <1>6 DEF Steps, Current, st
<1>8. Placed(y) BY <1>6, <1>7 DEF Placed
<1>9. Timely(y)
  <2>1. Tries(st) \in Nat /\ Tries(st) >= 1 BY <1>2 DEF Tries
  <2>2. st.timeout * (0 + 1) = st.timeout BY <1>2, Times
  <2> QED BY <1>2, <1>6, <1>7, <2>1, <2>2 DEF Timely
<1> QED BY <1>5, <1>6, <1>8, <1>9 DEF Good, y

\* A change that leaves a sequence what it is and raises nothing.
Same(x, y) == y.seq = x.seq /\ y.abortEvent = x.abortEvent
Calm(x, y) == Same(x, y) /\ y.pending = x.pending

LEMMA BeginGood ==
    ASSUME NEW x, Good(x)
    PROVE  Good(Begin(x)) /\ Calm(x, Begin(x)) /\ (Running(x) => Running(Begin(x)))
<1>1. x \in SlotRecords BY DEF Good
<1>2. CASE ~(x.armed /\ Steps(x) # <<>>) BY <1>2 DEF Begin, Calm, Same
<1>3. CASE x.armed /\ Steps(x) # <<>>
  <2>1. 1 \in DOMAIN Steps(x)
    <3>1. Steps(x) \in Seq(StepRecords) BY <1>1, StepKnown
    <3> QED BY <1>3, <3>1
  <2>2. Good(Enter(x, 1)) /\ Calm(x, Enter(x, 1)) BY <1>1, <1>3, <2>1, EnterGood DEF Calm, Same
  <2>3. Running(Enter(x, 1)) BY <1>1 DEF Enter, Running, Due, SlotRecords
  <2> QED BY <1>3, <2>2, <2>3 DEF Begin
<1> QED BY <1>2, <1>3

LEMMA FreshGood ==
    ASSUME NEW id \in 0 .. Len(Programs), NEW ev \in Nat
    PROVE  /\ Good(Fresh(id, ev)) /\ ~Running(Fresh(id, ev)) /\ ~Fresh(id, ev).pending
           /\ Fresh(id, ev).seq = id /\ Fresh(id, ev).abortEvent = ev
<1>1. id # 0 => Programs[id].repeat \in Nat
  <2>1. id # 0 => id \in 1 .. Len(Programs) BY EngineAssumption
  <2> QED BY <2>1, Known DEF Entries
<1>2. Fresh(id, ev) \in SlotRecords BY <1>1 DEF Fresh, SlotRecords, Statuses
<1>3. ~Running(Fresh(id, ev)) BY DEF Fresh, Running
<1> QED BY <1>2, <1>3 DEF Fresh, Good

LEMMA ResidentGood ==
    ASSUME NEW id \in 0 .. Len(Programs)
    PROVE  Good(Resident(id)) /\ Raises(Resident(id)) /\ ~Running(Resident(id)) /\ ~Resident(id).pending
<1> DEFINE x == Fresh(id, 0)
<1>1. x \in SlotRecords /\ ~Running(x) /\ ~x.pending /\ x.abortEvent = 0 BY FreshGood DEF Good
<1>2. Resident(id) = [x EXCEPT !.max = 0, !.repeats = x.max] BY DEF Resident
<1> HIDE DEF x
<1>3. /\ Resident(id) \in SlotRecords /\ Resident(id).status = x.status
      /\ Resident(id).pending = x.pending /\ Resident(id).abortEvent = x.abortEvent
  BY <1>1, <1>2 DEF SlotRecords
<1> QED BY <1>1, <1>3 DEF Good, Running, Raises, AbortEvents

LEMMA AbortGood ==
    ASSUME NEW x, Good(x), Running(x)
    PROVE  /\ Abort(x) \in SlotRecords /\ ~Running(Abort(x)) /\ Same(x, Abort(x))
           /\ Abort(x).pending = (x.pending \/ x.abortEvent # 0)
<1>1. x \in SlotRecords BY DEF Good
<1>2. Abort(x) = [x EXCEPT !.status = "aborted", !.pending = x.pending \/ x.abortEvent # 0]
  BY <1>1 DEF Abort, Flagged, SlotRecords
<1>3. /\ Abort(x) \in SlotRecords /\ Abort(x).status = "aborted"
      /\ Abort(x).pending = (x.pending \/ x.abortEvent # 0)
  BY <1>1, <1>2 DEF SlotRecords, Statuses
<1>4. Same(x, Abort(x)) BY <1>1, <1>2 DEF SlotRecords, Same
<1> QED BY <1>3, <1>4 DEF Running

LEMMA ResetGood ==
    ASSUME NEW x \in SlotRecords
    PROVE  Good(Reset(x)) /\ Calm(x, Reset(x)) /\ ~Running(Reset(x))
<1> DEFINE y == Reset(x)
<1>1. y = [x EXCEPT !.status = "idle", !.step = 1, !.delay = 0, !.repeats = 0] BY DEF Reset
<1>2. "idle" \in Statuses /\ 1 \in Nat \ {0} /\ 0 \in Nat BY DEF Statuses
<1> HIDE DEF y
<1>3. y \in SlotRecords BY <1>1, <1>2 DEF SlotRecords
<1>4. y.status = "idle" /\ Calm(x, y) BY <1>1 DEF SlotRecords, Calm, Same
<1> QED BY <1>3, <1>4 DEF Good, Running, y


LEMMA AgainGood ==
    ASSUME NEW x \in SlotRecords, Placed(x), Current(x).timeout > 0, Current(x).policy = "skip",
           x.retry < Current(x).retries, x.age <= Current(x).timeout * (x.retry + 1)
    PROVE  Good(Again(x)) /\ Calm(x, Again(x))
<1> DEFINE y == Again(x)  st == Current(x)
<1>1. st \in StepRecords BY StepKnown DEF Placed, Current
<1>2. /\ st.delay \in Nat /\ st.timeout \in Nat /\ st.retries \in Nat BY <1>1 DEF StepRecords
<1>3. Due(st.delay) \in Statuses BY DEF Due, Statuses
<1>4. y = [x EXCEPT !.retry = x.retry + 1, !.delay = st.delay, !.left = st.timeout, !.status = Due(st.delay)]
  BY DEF Again, SlotRecords
<1>5. x.retry \in Nat /\ x.age \in Nat /\ x.retry + 1 \in Nat BY DEF SlotRecords
<1>6. Steps(y) = Steps(x) /\ Current(y) = st
  <2>1. y.seq = x.seq /\ y.step = x.step BY <1>4 DEF SlotRecords
  <2> QED BY <2>1 DEF Steps, Current
<1> HIDE DEF st, y
<1>7. y \in SlotRecords BY <1>2, <1>3, <1>4, <1>5 DEF SlotRecords
<1>8. /\ y.armed = x.armed /\ y.step = x.step /\ y.retry = x.retry + 1 /\ y.left = st.timeout /\ y.age = x.age
      /\ Calm(x, y)
  BY <1>4, <1>5 DEF SlotRecords, Calm, Same
<1>9. Placed(y) BY <1>6, <1>8 DEF Placed
<1>10. Timely(y)
  <2>1. y.retry + 1 <= Tries(st) BY <1>2, <1>5, <1>8 DEF Tries, st
  <2>2. st.timeout * (x.retry + 1 + 1) = st.timeout * (x.retry + 1) + st.timeout
    BY <1>2, <1>5, Times
  <2>3. st.timeout * (x.retry + 1) \in Nat BY <1>2, <1>5, Times
  <2>4. y.age + y.left <= st.timeout * (y.retry + 1)
    <3>1. x.age <= st.timeout * (x.retry + 1) BY DEF st
    <3> QED BY <1>2, <1>5, <1>8, <2>2, <2>3, <3>1
  <2>5. y.left \in 1 .. st.timeout BY <1>2, <1>8 DEF st
  <2> QED BY <1>6, <2>1, <2>4, <2>5 DEF Timely
<1> QED BY <1>7, <1>8, <1>9, <1>10 DEF Good, y

LEMMA TimedOutGood ==
    ASSUME NEW x \in SlotRecords
    PROVE  /\ Good(TimedOut(x)) /\ Same(x, TimedOut(x))
           /\ TimedOut(x).pending = (x.pending \/ x.abortEvent # 0)
<1> DEFINE y == TimedOut(x)
<1>1. y = [x EXCEPT !.status = "timedOut", !.pending = x.pending \/ x.abortEvent # 0]
  BY DEF TimedOut, Flagged, SlotRecords
<1>2. "timedOut" \in Statuses BY DEF Statuses
<1> HIDE DEF y
<1>3. y \in SlotRecords /\ y.pending = (x.pending \/ x.abortEvent # 0)
  BY <1>1, <1>2 DEF SlotRecords
<1>4. y.status = "timedOut" /\ Same(x, y) BY <1>1 DEF SlotRecords, Same
<1> QED BY <1>3, <1>4 DEF Good, Running, y

LEMMA CompleteGood ==
    ASSUME NEW x \in SlotRecords, NEW k \in Nat \ {0}
    PROVE  LET y == [x EXCEPT !.step = k, !.status = "complete"] IN Good(y) /\ Calm(x, y)
<1> DEFINE y == [x EXCEPT !.step = k, !.status = "complete"]
<1>1. y \in SlotRecords BY DEF SlotRecords, Statuses
<1>2. y.status = "complete" /\ Calm(x, y) BY DEF SlotRecords, Calm, Same
<1> HIDE DEF y
<1>3. Good(y) BY <1>1, <1>2 DEF Good, Running
<1> QED BY <1>2, <1>3 DEF y

\* A flag that is up stays up, and one that goes up is that of an abort event.
Rightly(x, y) == Same(x, y) /\ (y.pending => x.pending \/ x.abortEvent # 0)
Raising(x, y) == Rightly(x, y) /\ (x.pending => y.pending)

LEMMA OnTimeoutGood ==
    ASSUME NEW x \in SlotRecords, Placed(x), Current(x).timeout > 0,
           x.age <= Current(x).timeout * (x.retry + 1)
    PROVE  Good(OnTimeout(x)) /\ Raising(x, OnTimeout(x))
<1> DEFINE st == Current(x)
<1>1. st \in StepRecords /\ x.step \in DOMAIN Steps(x) BY StepKnown DEF Placed, Current
<1>2. st.policy \in {"skip", "goto", "abort"} /\ st.goto \in Nat \ {0} /\ st.retries \in Nat
  BY <1>1 DEF StepRecords
<1>3. x.retry \in Nat /\ x.step \in Nat \ {0} BY DEF SlotRecords
<1>4. DOMAIN Steps(x) = 1 .. Len(Steps(x)) /\ Len(Steps(x)) \in Nat BY StepKnown
<1>a. x.armed BY DEF Placed
<1>5. CASE st.policy = "skip" /\ x.retry < st.retries
  <2>1. ~(x.retry >= st.retries) BY <1>2, <1>3, <1>5
  <2>2. OnTimeout(x) = Again(x) BY <1>5, <2>1 DEF OnTimeout
  <2>3. Good(Again(x)) /\ Calm(x, Again(x)) BY <1>5, AgainGood
  <2> QED BY <2>2, <2>3 DEF Raising, Rightly, Calm
<1>6. CASE st.policy = "skip" /\ x.retry >= st.retries
  <2>0. ~(x.retry < st.retries) BY <1>2, <1>3, <1>6
  <2>1. CASE x.step = Len(Steps(x))
    <3>1. OnTimeout(x) = [x EXCEPT !.step = x.step + 1, !.status = "complete"]
      BY <1>6, <2>0, <2>1 DEF OnTimeout, SlotRecords
    <3>2. x.step + 1 \in Nat \ {0} BY <1>3
    <3>3. Good(OnTimeout(x)) /\ Calm(x, OnTimeout(x)) BY <3>1, <3>2, CompleteGood
    <3> QED BY <3>3 DEF Raising, Rightly, Calm
  <2>2. CASE x.step # Len(Steps(x))
    <3>1. x.step + 1 \in DOMAIN Steps(x) BY <1>1, <1>4, <2>2
    <3>2. OnTimeout(x) = Enter(x, x.step + 1) BY <1>6, <2>0, <2>2 DEF OnTimeout
    <3> HIDE DEF st
    <3> QED BY <1>a, <3>1, <3>2, EnterGood DEF Raising, Rightly, Same
  <2> QED BY <2>1, <2>2
<1>7. CASE st.policy = "goto"
  <2>1. CASE st.goto > Len(Steps(x)) BY <1>7, <2>1, TimedOutGood DEF OnTimeout, Raising, Rightly
  <2>2. CASE ~(st.goto > Len(Steps(x)))
    <3>1. st.goto \in DOMAIN Steps(x) BY <1>2, <1>4, <2>2
    <3>2. OnTimeout(x) = Enter(x, st.goto) BY <1>7, <2>2 DEF OnTimeout
    <3> HIDE DEF st
    <3> QED BY <1>a, <3>1, <3>2, EnterGood DEF Raising, Rightly, Same
  <2> QED BY <2>1, <2>2
<1>8. CASE st.policy = "abort" BY <1>8, TimedOutGood DEF OnTimeout, Raising, Rightly
<1>9. st.policy = "skip" => x.retry < st.retries \/ x.retry >= st.retries BY <1>2, <1>3
<1> QED BY <1>2, <1>5, <1>6, <1>7, <1>8, <1>9

LEMMA AdvanceGood ==
    ASSUME NEW x \in SlotRecords, Placed(x)
    PROVE  Good(Advance(x)) /\ Calm(x, Advance(x))
<1> DEFINE st == Current(x)
           k == IF st.then = "goto" THEN st.goto ELSE x.step + 1
           y == [Enter(x, 1) EXCEPT !.repeats = @ + 1]
<1>1. st \in StepRecords /\ x.step \in DOMAIN Steps(x) /\ x.armed BY StepKnown DEF Placed, Current
<1>2. DOMAIN Steps(x) = 1 .. Len(Steps(x)) /\ Len(Steps(x)) \in Nat BY StepKnown
<1>3. k \in Nat \ {0} BY <1>1 DEF StepRecords, SlotRecords
<1>4. Advance(x) = IF k <= Len(Steps(x)) THEN Enter(x, k)
                   ELSE IF x.repeats < x.max THEN y ELSE [x EXCEPT !.step = k, !.status = "complete"]
  BY DEF Advance
<1> HIDE DEF k
<1>5. CASE k <= Len(Steps(x))
  <2>1. k \in DOMAIN Steps(x) BY <1>2, <1>3, <1>5
  <2>2. Good(Enter(x, k)) /\ Calm(x, Enter(x, k)) BY <1>1, <2>1, EnterGood DEF Calm, Same
  <2> QED BY <1>4, <1>5, <2>2
<1>6. Good(y) /\ Calm(x, y)
  <2> DEFINE z == Enter(x, 1)
  <2>1. 1 \in DOMAIN Steps(x) BY <1>1, <1>2
  <2>2. Good(z) /\ Calm(x, z) BY <1>1, <2>1, EnterGood DEF Calm, Same
  <2>3. y = [z EXCEPT !.repeats = z.repeats + 1] BY <2>2 DEF Good, SlotRecords
  <2> HIDE DEF z, y
  <2>a. z \in SlotRecords BY <2>2 DEF Good
  <2>b. z.repeats \in Nat BY <2>a DEF SlotRecords
  <2>4. z \in SlotRecords /\ z.repeats + 1 \in Nat BY <2>a, <2>b
  <2>5. y \in SlotRecords BY <2>3, <2>4 DEF SlotRecords
  <2>6. /\ y.seq = z.seq /\ y.step = z.step /\ y.armed = z.armed /\ y.status = z.status
        /\ y.left = z.left /\ y.retry = z.retry /\ y.age = z.age /\ Calm(z, y)
    BY <2>3, <2>4 DEF SlotRecords, Calm, Same
  <2>7. Steps(y) = Steps(z) /\ Current(y) = Current(z) BY <2>6 DEF Steps, Current
  <2>8. Good(y) BY <2>2, <2>5, <2>6, <2>7 DEF Good, Running, Placed, Timely
  <2> QED BY <2>2, <2>6, <2>8 DEF Calm, Same
<1>7. LET z == [x EXCEPT !.step = k, !.status = "complete"] IN Good(z) /\ Calm(x, z)
  BY <1>3, CompleteGood
<1> HIDE DEF y
<1> QED BY <1>4, <1>5, <1>6, <1>7

LEMMA TickGood ==
    ASSUME NEW x, Good(x), Running(x), NEW met \in BOOLEAN
    PROVE  Good(Tick(x, met).next) /\ Raising(x, Tick(x, met).next)
<1> DEFINE st == Current(x)
           timed == st.timeout > 0 /\ x.left > 0
           out == timed /\ x.left = 1
           left == IF timed THEN x.left - 1 ELSE x.left
           delay == IF x.status = "waiting" /\ x.delay > 0 THEN x.delay - 1 ELSE x.delay
           aged == [x EXCEPT !.left = left, !.delay = delay, !.age = @ + 1]
           late == [aged EXCEPT !.status = "condition"]
<1>1. x \in SlotRecords /\ Placed(x) /\ Timely(x) BY DEF Good
<1>2. st \in StepRecords BY <1>1, StepKnown DEF Placed, Current
<1>3. st.timeout \in Nat BY <1>2 DEF StepRecords
<1>4. x.left \in Nat /\ x.delay \in Nat /\ x.age \in Nat /\ x.retry \in Nat BY <1>1 DEF SlotRecords
<1>5. left \in Nat /\ delay \in Nat BY <1>4
<1>6. aged = [x EXCEPT !.left = left, !.delay = delay, !.age = x.age + 1] BY <1>1 DEF SlotRecords
<1>7. \/ Tick(x, met).next = Advance(x)
      \/ out /\ Tick(x, met).next = OnTimeout(aged)
      \/ ~out /\ Tick(x, met).next \in {aged, late}
  BY DEF Tick, Running
<1>8. Good(Advance(x)) /\ Raising(x, Advance(x)) BY <1>1, AdvanceGood DEF Raising, Rightly, Calm
<1> HIDE DEF left, delay, aged
<1>a. x.age + 1 \in Nat BY <1>4
<1>9. aged \in SlotRecords BY <1>1, <1>a, <1>5, <1>6 DEF SlotRecords
<1>10. /\ aged.seq = x.seq /\ aged.step = x.step /\ aged.armed = x.armed /\ aged.retry = x.retry
       /\ aged.left = left /\ aged.age = x.age + 1 /\ Calm(x, aged)
  BY <1>1, <1>4, <1>6 DEF SlotRecords, Calm, Same
<1>11. Steps(aged) = Steps(x) /\ Current(aged) = st BY <1>10 DEF Steps, Current
<1>12. Placed(aged) BY <1>1, <1>10, <1>11 DEF Placed
<1>13. st.timeout > 0 => /\ x.left \in 1 .. st.timeout /\ x.retry + 1 <= Tries(st)
                         /\ x.age + x.left <= st.timeout * (x.retry + 1)
  BY <1>1 DEF Timely
<1>14. st.timeout * (x.retry + 1) \in Nat BY <1>3, <1>4, Times
<1>15. ASSUME out PROVE Good(OnTimeout(aged)) /\ Raising(x, OnTimeout(aged))
  <2>1. aged.age <= st.timeout * (aged.retry + 1) BY <1>4, <1>10, <1>13, <1>14, <1>15
  <2>2. Good(OnTimeout(aged)) /\ Raising(aged, OnTimeout(aged))
    BY <1>9, <1>11, <1>12, <1>15, <2>1, OnTimeoutGood
  <2> QED BY <1>10, <2>2 DEF Raising, Rightly, Calm, Same
<1>16. ASSUME ~out PROVE Good(aged) /\ Good(late) /\ Raising(x, aged) /\ Raising(x, late)
  <2>1. Timely(aged) BY <1>3, <1>4, <1>10, <1>11, <1>13, <1>14, <1>16 DEF Timely, left
  <2>2. Good(aged) /\ Raising(x, aged) BY <1>9, <1>10, <1>12, <2>1 DEF Good, Raising, Rightly, Calm
  <2>3. late \in SlotRecords BY <1>9 DEF SlotRecords, Statuses
  <2>4. /\ late.seq = aged.seq /\ late.step = aged.step /\ late.armed = aged.armed /\ late.retry = aged.retry
        /\ late.left = aged.left /\ late.age = aged.age /\ Calm(aged, late)
    BY <1>9 DEF SlotRecords, Calm, Same
  <2> HIDE DEF late
  <2>5. Steps(late) = Steps(aged) /\ Current(late) = Current(aged) BY <2>4 DEF Steps, Current
  <2>6. Good(late) BY <1>12, <2>1, <2>3, <2>4, <2>5 DEF Good, Placed, Timely
  <2> QED BY <1>10, <2>2, <2>4, <2>6 DEF Raising, Rightly, Calm, Same
<1> HIDE DEF late, out
<1> QED BY <1>7, <1>8, <1>15, <1>16

----------------------------------------------------------------------------
(* The stack, and the first of a set.                                      *)

LEMMA ThenIn ==
    ASSUME NEW S, calls \in Seq(S), calls # <<>>, NEW new \in Seq(S), Then(new)
    PROVE  calls' \in Seq(S)
<1>1. Tail(calls) \in Seq(S) OBVIOUS
<1> QED BY <1>1 DEF Then

LEMMA TopIn == ASSUME NEW S, calls \in Seq(S), calls # <<>> PROVE Top \in S
  BY DEF Top

LEMMA ShortSeqs ==
    ASSUME NEW S
    PROVE  /\ <<>> \in Seq(S) /\ \A a \in S : <<a>> \in Seq(S)
           /\ \A a \in S, b \in S : <<a, b>> \in Seq(S)
           /\ \A a \in S, b \in S, c \in S : <<a>> \o <<b, c>> \in Seq(S)
           /\ \A a \in S, b \in S : <<a>> \o <<b>> \in Seq(S)
  OBVIOUS

LEMMA Least ==
    ASSUME NEW S \in SUBSET Nat, S # {}
    PROVE  First(S) \in S /\ \A y \in S : First(S) <= y
<1> DEFINE R == OpToRel(<, Nat)
<1>1. PICK x \in S : \A y \in S : ~(<<y, x>> \in R)
  BY NatLessThanWellFounded, WFMin
<1>2. \A y \in S : y < x => <<y, x>> \in R BY DEF OpToRel
<1> HIDE DEF R
<1>3. \A y \in S : x <= y
  <2> TAKE y \in S
  <2>1. x \in Nat /\ y \in Nat /\ ~(y < x) BY <1>1, <1>2
  <2> QED BY <2>1
<1> QED BY <1>3 DEF First

LEMMA CountsKnown ==
    /\ SlotCount \in Nat \ {0} /\ Len(Programs) \in Nat /\ CatalogSize \in Nat
    /\ Catalog \subseteq 1 .. Len(Programs) /\ Slots \subseteq Nat /\ Catalog \subseteq Nat
    /\ AbortTurn = SlotCount + 1 /\ ActionTurn = SlotCount + 2
    /\ \A id \in Catalog : Programs[id] \in Entries
<1>1. Len(Programs) \in Nat /\ CatalogSize \in 0 .. Len(Programs) /\ SlotCount \in Nat \ {0}
  BY EngineAssumption
<1> QED BY <1>1, Known DEF Catalog, Slots, AbortTurn, ActionTurn

LEMMA NewCalls ==
    /\ \A ev \in Nat : Dispatching(ev) \in GoodCalls
    /\ \A ev \in Nat, k \in Nat : Seeking(ev, k) \in GoodCalls
    /\ \A id \in Nat : Starting(id) \in GoodCalls
    /\ \A id \in Catalog, s \in Nat : Excluding(id, s) \in GoodCalls
    /\ \A id \in Catalog : Placing(id) \in GoodCalls
    /\ \A s \in Slots : Resetting(s) \in GoodCalls
    /\ \A id \in Catalog, s \in Slots : Loading(id, s) \in GoodCalls
<1>1. Slots \subseteq Nat /\ Catalog \subseteq Nat BY CountsKnown
<1> USE <1>1 DEF GoodCalls, Calls, Call, CallFor, CallAt
<1>2. \A ev \in Nat : Dispatching(ev) \in GoodCalls BY DEF Dispatching
<1>3. \A ev \in Nat, k \in Nat : Seeking(ev, k) \in GoodCalls BY DEF Seeking
<1>4. \A id \in Nat : Starting(id) \in GoodCalls BY DEF Starting
<1>5. \A id \in Catalog, s \in Nat : Excluding(id, s) \in GoodCalls BY DEF Excluding
<1>6. \A id \in Catalog : Placing(id) \in GoodCalls BY DEF Placing
<1>7. \A s \in Slots : Resetting(s) \in GoodCalls BY DEF Resetting
<1>8. \A id \in Catalog, s \in Slots : Loading(id, s) \in GoodCalls BY DEF Loading
<1> QED BY <1>2, <1>3, <1>4, <1>5, <1>6, <1>7, <1>8

LEMMA CommandCallsNew ==
    /\ \A ev \in Nat : ev \in AbortEvents => Dispatching(ev) \in CommandCalls
    /\ \A ev \in Nat, k \in Nat : ev \in AbortEvents /\ ev # 0 => Seeking(ev, k) \in CommandCalls
    /\ \A id \in Nat : id \in Called => Starting(id) \in CommandCalls
    /\ \A id \in Catalog, s \in Nat : id \in Called => Excluding(id, s) \in CommandCalls
    /\ \A id \in Catalog : id \in Called => Placing(id) \in CommandCalls
    /\ \A s \in Slots : GivenUp(s) => Resetting(s) \in CommandCalls
    /\ \A id \in Catalog, s \in Slots : id \in Called /\ GivenUp(s) => Loading(id, s) \in CommandCalls
<1> HIDE DEF AbortEvents, Called, GivenUp
<1> USE NewCalls DEF CommandCalls, CommandCall, Call
<1>2. \A ev \in Nat : ev \in AbortEvents => Dispatching(ev) \in CommandCalls BY DEF Dispatching
<1>3. \A ev \in Nat, k \in Nat : ev \in AbortEvents /\ ev # 0 => Seeking(ev, k) \in CommandCalls
  BY DEF Seeking
<1>4. \A id \in Nat : id \in Called => Starting(id) \in CommandCalls BY DEF Starting
<1>5. \A id \in Catalog, s \in Nat : id \in Called => Excluding(id, s) \in CommandCalls BY DEF Excluding
<1>6. \A id \in Catalog : id \in Called => Placing(id) \in CommandCalls BY DEF Placing
<1>7. \A s \in Slots : GivenUp(s) => Resetting(s) \in CommandCalls BY DEF Resetting
<1>8. \A id \in Catalog, s \in Slots : id \in Called /\ GivenUp(s) => Loading(id, s) \in CommandCalls
  BY DEF Loading
<1> QED BY <1>2, <1>3, <1>4, <1>5, <1>6, <1>7, <1>8

----------------------------------------------------------------------------
(* The calls.                                                              *)

\* A sequence that runs goes on.
Kept(x, y) == Running(x) => Running(y) /\ y.seq = x.seq

GoesOn ==
  /\ slot' \in [Slots -> Sound] /\ calls' \in Seq(GoodCalls)
  /\ \A s \in Slots : slot'[s].pending => slot[s].pending
  /\ asked # 0 => /\ calls' \in Seq(CommandCalls)
                  /\ \A s \in Slots : GivenUp(s) \/ Kept(slot[s], slot'[s])

LEMMA RightlySound ==
    ASSUME NEW x \in Sound, NEW y, Good(y), Rightly(x, y)
    PROVE  y \in Sound
  BY DEF Sound, Good, Rightly, Same, Raises

LEMMA DispatchStep == ASSUME IInv, calls # <<>>, Dispatch PROVE GoesOn
<1> DEFINE ev == Top.for
           started == IF ev = 0 THEN {} ELSE Residents(ev)
<1>1. /\ slot' = [s \in Slots |-> IF s \in started THEN Begin(slot[s]) ELSE slot[s]]
      /\ Then(IF ev = 0 \/ started # {} THEN <<>> ELSE <<Seeking(ev, 1)>>)
      /\ Top.does = "dispatch"
  BY DEF Dispatch
<1>2. Top \in GoodCalls BY TopIn DEF IInv, CallsInv
<1>3. ev \in Nat BY <1>2 DEF GoodCalls, Calls
<1>4. /\ slot \in [Slots -> Sound] /\ calls \in Seq(GoodCalls)
      /\ asked # 0 => calls \in Seq(CommandCalls)
  BY DEF IInv, SlotsInv, CallsInv, CommandInv
<1> HIDE DEF started, ev
<1>5. ASSUME NEW s \in Slots
      PROVE  /\ slot'[s] \in Sound /\ slot'[s].pending = slot[s].pending /\ Kept(slot[s], slot'[s])
  <2>1. slot[s] \in Sound /\ Good(slot[s]) BY <1>4 DEF Sound
  <2>2. Good(Begin(slot[s])) /\ Calm(slot[s], Begin(slot[s])) /\ (Running(slot[s]) => Running(Begin(slot[s])))
    BY <2>1, BeginGood
  <2>3. Begin(slot[s]) \in Sound BY <2>1, <2>2, RightlySound DEF Rightly, Calm
  <2>4. slot'[s] = Begin(slot[s]) \/ slot'[s] = slot[s] BY <1>1
  <2> QED BY <2>1, <2>2, <2>3, <2>4 DEF Kept, Calm, Same
<1>6. slot' \in [Slots -> Sound] BY <1>1, <1>5
<1>7. Seeking(ev, 1) \in GoodCalls BY <1>3, NewCalls
<1>8. calls' \in Seq(GoodCalls)
  <2>1. (IF ev = 0 \/ started # {} THEN <<>> ELSE <<Seeking(ev, 1)>>) \in Seq(GoodCalls)
    BY <1>7, ShortSeqs
  <2> QED BY <1>1, <1>4, <2>1, ThenIn
<1>9. ASSUME asked # 0 PROVE calls' \in Seq(CommandCalls)
  <2>1. Top \in CommandCalls BY <1>4, <1>9, TopIn
  <2>2. ev \in AbortEvents BY <1>1, <2>1 DEF CommandCalls, CommandCall, ev
  <2>3. ev # 0 => Seeking(ev, 1) \in CommandCalls BY <1>3, <2>2, CommandCallsNew
  <2>4. (IF ev = 0 \/ started # {} THEN <<>> ELSE <<Seeking(ev, 1)>>) \in Seq(CommandCalls)
    BY <2>3, ShortSeqs
  <2> QED BY <1>1, <1>4, <1>9, <2>4, ThenIn
<1> QED BY <1>5, <1>6, <1>8, <1>9 DEF GoesOn

\* A step that leaves the slots alone.
LEMMA SlotsStay ==
    ASSUME IInv, slot' = slot, calls' \in Seq(GoodCalls), asked # 0 => calls' \in Seq(CommandCalls)
    PROVE  GoesOn
  BY DEF IInv, SlotsInv, GoesOn, Kept

LEMMA SeekStep == ASSUME IInv, calls # <<>>, Seek PROVE GoesOn
<1> DEFINE ev == Top.for  matching == Matching(ev, Top.at)  id == First(matching)
           new == IF matching = {} THEN <<>> ELSE <<Starting(id), Seeking(ev, id + 1)>>
<1>1. slot' = slot /\ Then(new) /\ Top.does = "seek" BY DEF Seek
<1>2. Top \in GoodCalls BY TopIn DEF IInv, CallsInv
<1>3. ev \in Nat BY <1>2 DEF GoodCalls, Calls
<1>4. calls \in Seq(GoodCalls) /\ (asked # 0 => calls \in Seq(CommandCalls))
  BY DEF IInv, CallsInv, CommandInv
<1>5. matching \in SUBSET Nat /\ matching \subseteq Catalog BY CountsKnown DEF Matching
<1>6. matching # {} => id \in Catalog /\ id \in Nat /\ Programs[id].event = ev
  <2>1. matching # {} => id \in matching BY <1>5, Least
  <2> QED BY <1>5, <2>1 DEF Matching
<1> HIDE DEF id, matching, ev
<1>a. matching # {} => id + 1 \in Nat BY <1>6
<1>7. new \in Seq(GoodCalls)
  <2>1. matching # {} => Starting(id) \in GoodCalls /\ Seeking(ev, id + 1) \in GoodCalls
    BY <1>3, <1>6, <1>a, NewCalls
  <2> QED BY <2>1, ShortSeqs
<1>8. ASSUME asked # 0 PROVE new \in Seq(CommandCalls)
  <2>1. Top \in CommandCalls BY <1>4, <1>8, TopIn
  <2>2. ev \in AbortEvents /\ ev # 0 BY <1>1, <2>1 DEF CommandCalls, CommandCall, ev
  <2>3. matching # {} => id \in Called
    <3>1. PICK k \in Catalog : ev = Programs[k].abortEvent BY <2>2 DEF AbortEvents
    <3> QED BY <1>6, <2>2, <3>1 DEF Called, Handlers
  <2>4. matching # {} => Starting(id) \in CommandCalls /\ Seeking(ev, id + 1) \in CommandCalls
    BY <1>3, <1>6, <1>a, <2>2, <2>3, CommandCallsNew
  <2> QED BY <2>4, ShortSeqs
<1> HIDE DEF new
<1> QED BY <1>1, <1>4, <1>7, <1>8, ThenIn, SlotsStay

LEMMA StartStep == ASSUME IInv, calls # <<>>, Start PROVE GoesOn
<1> DEFINE id == Top.for
           new == IF id \notin Catalog \/ Blocked(id) THEN <<>> ELSE <<Excluding(id, 1)>>
<1>1. slot' = slot /\ Then(new) /\ Top.does = "start" BY DEF Start
<1>2. calls \in Seq(GoodCalls) /\ (asked # 0 => calls \in Seq(CommandCalls))
  BY DEF IInv, CallsInv, CommandInv
<1> HIDE DEF id
<1>3. new \in Seq(GoodCalls) BY NewCalls, ShortSeqs
<1>4. ASSUME asked # 0 PROVE new \in Seq(CommandCalls)
  <2>1. Top \in CommandCalls BY <1>2, <1>4, TopIn
  <2>2. id \in Called BY <1>1, <2>1 DEF CommandCalls, CommandCall, id
  <2> QED BY <2>2, CommandCallsNew, ShortSeqs
<1> HIDE DEF new
<1> QED BY <1>1, <1>2, <1>3, <1>4, ThenIn, SlotsStay

LEMMA PriorityNat == ASSUME NEW id PROVE Priority(id) \in Nat
  BY CountsKnown DEF Priority, Entries

LEMMA LowestIs == First(Lowest) \in Slots
<1> DEFINE ranks == {Priority(slot[s].seq) : s \in Slots}
<1>1. ranks \in SUBSET Nat BY PriorityNat
<1>2. ranks # {}
  <2>1. 1 \in Slots BY CountsKnown DEF Slots
  <2> QED BY <2>1
<1>3. First(ranks) \in ranks /\ \A q \in ranks : First(ranks) <= q BY <1>1, <1>2, Least
<1>4. PICK s \in Slots : Priority(slot[s].seq) = First(ranks) BY <1>3
<1>5. s \in Lowest BY <1>3, <1>4 DEF Lowest
<1>6. Lowest \in SUBSET Nat /\ Lowest \subseteq Slots BY CountsKnown DEF Lowest
<1> QED BY <1>5, <1>6, Least

LEMMA OustGoes ==
    ASSUME IInv, calls # <<>>, NEW s \in Slots, Running(slot[s]), NEW next \in Seq(GoodCalls), Oust(s, next),
           asked # 0 => GivenUp(s) /\ next \in Seq(CommandCalls)
    PROVE  GoesOn
<1> DEFINE x == Abort(slot[s])
           y == [x EXCEPT !.pending = FALSE]
           new == IF x.pending THEN <<Dispatching(x.abortEvent)>> \o next ELSE next
<1>1. slot' = [slot EXCEPT ![s] = y] /\ Then(new) BY DEF Oust
<1>2. /\ slot \in [Slots -> Sound] /\ calls \in Seq(GoodCalls)
      /\ asked # 0 => calls \in Seq(CommandCalls)
  BY DEF IInv, SlotsInv, CallsInv, CommandInv
<1>3. slot[s] \in Sound /\ Good(slot[s]) /\ Raises(slot[s]) BY <1>2 DEF Sound
<1>4. /\ x \in SlotRecords /\ ~Running(x) /\ Same(slot[s], x)
      /\ x.pending = (slot[s].pending \/ slot[s].abortEvent # 0)
  BY <1>3, AbortGood
<1> HIDE DEF x
<1>5. /\ y \in SlotRecords /\ y.status = x.status /\ y.abortEvent = x.abortEvent /\ ~y.pending
      /\ y.seq = x.seq
  BY <1>4 DEF SlotRecords
<1> HIDE DEF y
<1>6. y \in Sound BY <1>3, <1>4, <1>5 DEF Sound, Good, Running, Raises, Same
<1>7. slot' \in [Slots -> Sound] BY <1>1, <1>2, <1>6
<1>8. \A r \in Slots : slot'[r] = IF r = s THEN y ELSE slot[r] BY <1>1, <1>2
<1>9. x.abortEvent \in Nat /\ x.abortEvent \in AbortEvents BY <1>3, <1>4 DEF SlotRecords, Raises, Same
<1>10. new \in Seq(GoodCalls)
  <2>1. Dispatching(x.abortEvent) \in GoodCalls BY <1>9, NewCalls
  <2>2. <<Dispatching(x.abortEvent)>> \o next \in Seq(GoodCalls) BY <2>1
  <2> QED BY <2>2
<1>11. ASSUME asked # 0 PROVE new \in Seq(CommandCalls)
  <2>1. Dispatching(x.abortEvent) \in CommandCalls BY <1>9, CommandCallsNew
  <2>2. <<Dispatching(x.abortEvent)>> \o next \in Seq(CommandCalls) BY <1>11, <2>1
  <2> QED BY <1>11, <2>2
<1> HIDE DEF new
<1>12. /\ calls' \in Seq(GoodCalls) /\ (asked # 0 => calls' \in Seq(CommandCalls))
  BY <1>1, <1>2, <1>10, <1>11, ThenIn
<1>13. \A r \in Slots : slot'[r].pending => slot[r].pending BY <1>5, <1>8
<1>14. asked # 0 => \A r \in Slots : GivenUp(r) \/ Kept(slot[r], slot'[r])
  BY <1>8 DEF Kept
<1> QED BY <1>7, <1>12, <1>13, <1>14 DEF GoesOn

LEMMA ExcludeStep == ASSUME IInv, calls # <<>>, Exclude PROVE GoesOn
<1> DEFINE id == Top.for  members == Members(id, Top.at)  s == First(members)
<1>1. /\ Top.does = "exclude"
      /\ IF members = {} THEN slot' = slot /\ Then(<<Placing(id)>>)
         ELSE Oust(s, <<Resetting(s), Excluding(id, s + 1)>>)
  BY DEF Exclude
<1>2. calls \in Seq(GoodCalls) /\ (asked # 0 => calls \in Seq(CommandCalls))
  BY DEF IInv, CallsInv, CommandInv
<1>3. Top \in GoodCalls /\ (asked # 0 => Top \in CommandCalls) BY <1>2, TopIn
<1>4. id \in Catalog BY <1>1, <1>3 DEF GoodCalls, CallFor
<1>5. asked # 0 => id \in Called BY <1>1, <1>3 DEF CommandCalls, CommandCall
<1>6. members \in SUBSET Nat BY CountsKnown DEF Members
<1>7. members # {} => s \in Slots /\ s \in Nat /\ Running(slot[s]) /\ SameGroup(slot[s].seq, id)
  <2>1. members # {} => s \in members BY <1>6, Least
  <2> QED BY <1>6, <2>1 DEF Members
<1> HIDE DEF id, members, s
<1>8. CASE members = {}
  <2>1. <<Placing(id)>> \in Seq(GoodCalls) BY <1>4, NewCalls, ShortSeqs
  <2>2. asked # 0 => <<Placing(id)>> \in Seq(CommandCalls) BY <1>4, <1>5, CommandCallsNew, ShortSeqs
  <2> QED BY <1>1, <1>2, <1>8, <2>1, <2>2, ThenIn, SlotsStay
<1>9. CASE members # {}
  <2> DEFINE next == <<Resetting(s), Excluding(id, s + 1)>>
  <2>1. s + 1 \in Nat BY <1>7, <1>9
  <2>2. next \in Seq(GoodCalls)
    <3>1. Resetting(s) \in GoodCalls /\ Excluding(id, s + 1) \in GoodCalls BY <1>4, <1>7, <1>9, <2>1, NewCalls
    <3> QED BY <3>1, ShortSeqs
  <2>3. ASSUME asked # 0 PROVE GivenUp(s)
    <3>1. PriorityKept BY <2>3 DEF IInv, CommandInv
    <3>2. found[s] # 0 => \/ slot[s].seq = found[s] \/ Outranked(found[s])
      BY <1>7, <1>9, <2>3, <3>1 DEF PriorityKept, Outranked, Called
    <3>3. SameGroup(slot[s].seq, id) => Outranked(slot[s].seq) BY <1>5, <2>3 DEF Outranked
    <3> QED BY <1>7, <1>9, <3>2, <3>3 DEF GivenUp
  <2>4. ASSUME asked # 0 PROVE next \in Seq(CommandCalls)
    <3>1. Resetting(s) \in CommandCalls /\ Excluding(id, s + 1) \in CommandCalls
      BY <1>4, <1>5, <1>7, <1>9, <2>1, <2>3, <2>4, CommandCallsNew
    <3> QED BY <3>1, ShortSeqs
  <2>5. Oust(s, next) BY <1>1, <1>9
  <2> HIDE DEF next
  <2> QED BY <1>7, <1>9, <2>2, <2>3, <2>4, <2>5, OustGoes
<1> QED BY <1>8, <1>9

\* A call puts something into a slot that is given up.
LEMMA SlotTaken ==
    ASSUME IInv, calls # <<>>, Top.at \in Slots, asked # 0 => GivenUp(Top.at),
           NEW y \in Sound, y.pending => slot[Top.at].pending,
           slot' = [slot EXCEPT ![Top.at] = y], Then(<<>>)
    PROVE  GoesOn
<1>1. /\ slot \in [Slots -> Sound] /\ calls \in Seq(GoodCalls)
      /\ asked # 0 => calls \in Seq(CommandCalls)
  BY DEF IInv, SlotsInv, CallsInv, CommandInv
<1>2. calls' \in Seq(GoodCalls) /\ (asked # 0 => calls' \in Seq(CommandCalls))
  BY <1>1, ThenIn, ShortSeqs
<1>3. slot' \in [Slots -> Sound] BY <1>1
<1>4. \A r \in Slots : slot'[r] = IF r = Top.at THEN y ELSE slot[r] BY <1>1
<1>5. asked # 0 => \A r \in Slots : GivenUp(r) \/ Kept(slot[r], slot'[r]) BY <1>4 DEF Kept
<1> QED BY <1>2, <1>3, <1>4, <1>5 DEF GoesOn

LEMMA ResetStep == ASSUME IInv, calls # <<>>, ResetSlot PROVE GoesOn
<1>1. calls \in Seq(GoodCalls) /\ (asked # 0 => calls \in Seq(CommandCalls)) /\ slot \in [Slots -> Sound]
  BY DEF IInv, CallsInv, CommandInv, SlotsInv
<1>2. Top \in GoodCalls /\ (asked # 0 => Top \in CommandCalls) BY <1>1, TopIn
<1>3. Top.at \in Slots /\ (asked # 0 => GivenUp(Top.at))
  BY <1>2 DEF ResetSlot, GoodCalls, CallAt, CommandCalls, CommandCall
<1> DEFINE x == slot[Top.at]
<1>4. x \in Sound /\ x \in SlotRecords BY <1>1, <1>3 DEF Sound
<1>5. Good(Reset(x)) /\ Calm(x, Reset(x)) BY <1>4, ResetGood
<1>6. Reset(x) \in Sound BY <1>4, <1>5, RightlySound DEF Rightly, Calm
<1>7. slot' = [slot EXCEPT ![Top.at] = Reset(x)] /\ Then(<<>>) BY DEF ResetSlot
<1>8. Reset(x).pending => x.pending BY <1>5 DEF Calm
<1> HIDE DEF x
<1> QED BY <1>3, <1>6, <1>7, <1>8, SlotTaken DEF x

LEMMA LoadStep == ASSUME IInv, calls # <<>>, LoadSlot PROVE GoesOn
<1>1. calls \in Seq(GoodCalls) /\ (asked # 0 => calls \in Seq(CommandCalls))
  BY DEF IInv, CallsInv, CommandInv
<1>2. Top \in GoodCalls /\ (asked # 0 => Top \in CommandCalls) BY <1>1, TopIn
<1>3. Top.at \in Slots /\ (asked # 0 => GivenUp(Top.at)) /\ Top.for \in Catalog
  BY <1>2 DEF LoadSlot, GoodCalls, CallAt, CallFor, CommandCalls, CommandCall
<1> DEFINE ev == Programs[Top.for].abortEvent  x == Fresh(Top.for, ev)
<1>4. ev \in Nat /\ ev \in AbortEvents /\ Top.for \in 0 .. Len(Programs)
  <2>1. Programs[Top.for] \in Entries /\ Top.for \in 1 .. Len(Programs) /\ Len(Programs) \in Nat
    BY <1>3, CountsKnown
  <2>2. ev \in Nat BY <2>1 DEF Entries
  <2>3. ev \in AbortEvents BY <1>3 DEF AbortEvents
  <2> QED BY <2>1, <2>2, <2>3
<1>5. Good(x) /\ ~x.pending /\ x.abortEvent = ev BY <1>4, FreshGood
<1>6. slot' = [slot EXCEPT ![Top.at] = Begin(x)] /\ Then(<<>>) BY DEF LoadSlot
<1> HIDE DEF x
<1>7. Good(Begin(x)) /\ Calm(x, Begin(x)) BY <1>5, BeginGood
<1>8. Begin(x) \in Sound /\ ~Begin(x).pending
  BY <1>4, <1>5, <1>7 DEF Sound, Good, Calm, Same, Raises
<1> QED BY <1>3, <1>6, <1>8, SlotTaken

LEMMA PlaceStep == ASSUME IInv, calls # <<>>, Place PROVE GoesOn
<1> DEFINE id == Top.for  s == First(Lowest)  f == First(Free)
<1>1. /\ Top.does = "place"
      /\ IF Free # {} THEN slot' = slot /\ Then(<<Loading(id, f)>>)
         ELSE IF Higher(Programs[id].priority, Priority(slot[s].seq)) THEN Oust(s, <<Loading(id, s)>>)
         ELSE slot' = slot /\ Then(<<>>)
  BY DEF Place
<1>2. calls \in Seq(GoodCalls) /\ (asked # 0 => calls \in Seq(CommandCalls))
  BY DEF IInv, CallsInv, CommandInv
<1>3. Top \in GoodCalls /\ (asked # 0 => Top \in CommandCalls) BY <1>2, TopIn
<1>4. id \in Catalog BY <1>1, <1>3 DEF GoodCalls, CallFor
<1>5. asked # 0 => id \in Called BY <1>1, <1>3 DEF CommandCalls, CommandCall
<1>6. Free # {} => f \in Slots /\ ~Running(slot[f])
  <2>1. Free \in SUBSET Nat BY CountsKnown DEF Free
  <2>2. Free # {} => f \in Free BY <2>1, Least
  <2> QED BY <2>2 DEF Free
<1>7. s \in Slots BY LowestIs
<1>8. Free = {} => Running(slot[s]) BY <1>7 DEF Free
<1> HIDE DEF id, s, f
<1>9. CASE Free # {}
  <2>1. ASSUME asked # 0 PROVE GivenUp(f)
    <3>1. PriorityKept BY <2>1 DEF IInv, CommandInv
    <3> QED BY <1>6, <1>9, <2>1, <3>1 DEF PriorityKept, GivenUp, Outranked, Called
  <2>2. <<Loading(id, f)>> \in Seq(GoodCalls) BY <1>4, <1>6, <1>9, NewCalls, ShortSeqs
  <2>3. asked # 0 => <<Loading(id, f)>> \in Seq(CommandCalls)
    <3>1. asked # 0 => Loading(id, f) \in CommandCalls BY <1>4, <1>5, <1>6, <1>9, <2>1, CommandCallsNew
    <3> QED BY <3>1, ShortSeqs
  <2> QED BY <1>1, <1>2, <1>9, <2>2, <2>3, ThenIn, SlotsStay
<1>10. CASE Free = {} /\ Higher(Programs[id].priority, Priority(slot[s].seq))
  <2> DEFINE next == <<Loading(id, s)>>
  <2>1. ASSUME asked # 0 PROVE GivenUp(s)
    <3>1. PriorityKept BY <2>1 DEF IInv, CommandInv
    <3>2. found[s] # 0 => \/ slot[s].seq = found[s] \/ Outranked(found[s])
      BY <1>7, <2>1, <3>1 DEF PriorityKept, Outranked, Called
    <3>3. Priority(slot[s].seq) < Programs[id].priority
      <4>1. Programs[id].priority \in Nat BY <1>4, CountsKnown DEF Entries
      <4>2. Priority(slot[s].seq) \in Nat BY PriorityNat
      <4> QED BY <1>10, <4>1, <4>2 DEF Higher
    <3>4. Outranked(slot[s].seq) BY <1>5, <2>1, <3>3 DEF Outranked
    <3> QED BY <3>2, <3>4 DEF GivenUp
  <2>2. next \in Seq(GoodCalls) BY <1>4, <1>7, NewCalls, ShortSeqs
  <2>3. asked # 0 => next \in Seq(CommandCalls)
    <3>1. asked # 0 => Loading(id, s) \in CommandCalls BY <1>4, <1>5, <1>7, <2>1, CommandCallsNew
    <3> QED BY <3>1, ShortSeqs
  <2>4. Oust(s, next) BY <1>1, <1>10
  <2> HIDE DEF next
  <2> QED BY <1>7, <1>8, <1>10, <2>1, <2>2, <2>3, <2>4, OustGoes
<1>11. CASE Free = {} /\ ~Higher(Programs[id].priority, Priority(slot[s].seq))
  BY <1>1, <1>2, <1>11, ThenIn, ShortSeqs, SlotsStay
<1> QED BY <1>9, <1>10, <1>11

LEMMA GoOnStep == ASSUME IInv, GoOn PROVE IInv'
<1>1. GoesOn
  <2>1. calls # <<>> BY DEF GoOn
  <2> QED BY <2>1, DispatchStep, SeekStep, StartStep, ExcludeStep, ResetStep, PlaceStep, LoadStep DEF GoOn
<1>2. UNCHANGED <<turn, queue, cycled, asked, found, inputs>> BY DEF GoOn
<1>3. SlotsInv' /\ CallsInv' BY <1>1 DEF GoesOn, SlotsInv, CallsInv
<1>4. RestInv' BY <1>2 DEF IInv, RestInv
<1>5. HeardInv' BY <1>1, <1>2 DEF IInv, HeardInv, GoesOn
<1>6. CommandInv'
  <2>1. CommandCalls' = CommandCalls
    BY <1>2 DEF CommandCalls, CommandCall, Called, GivenUp, Outranked
  <2>2. ASSUME asked # 0, NEW s \in Slots, found[s] # 0
        PROVE  (Running(slot'[s]) /\ slot'[s].seq = found[s]) \/ Outranked(found[s])
    <3>1. (Running(slot[s]) /\ slot[s].seq = found[s]) \/ Outranked(found[s])
      BY <2>2 DEF IInv, CommandInv, PriorityKept, Outranked, Called
    <3>2. GivenUp(s) \/ Kept(slot[s], slot'[s]) BY <1>1, <2>2 DEF GoesOn
    <3> QED BY <2>2, <3>1, <3>2 DEF GivenUp, Kept
  <2>3. asked # 0 => PriorityKept' BY <1>2, <2>2 DEF PriorityKept, Outranked, Called
  <2> QED BY <1>1, <1>2, <2>1, <2>3 DEF IInv, CommandInv, GoesOn
<1> QED BY <1>3, <1>4, <1>5, <1>6 DEF IInv

----------------------------------------------------------------------------
(* The cycle and the commands.                                             *)

LEMMA SlotSound ==
    ASSUME IInv, NEW s \in Slots
    PROVE  slot[s] \in Sound /\ Good(slot[s]) /\ slot[s] \in SlotRecords
  BY DEF IInv, SlotsInv, Sound

LEMMA NoCommand == IInv /\ turn # 0 => asked = 0
  BY DEF IInv, CommandInv

LEMMA StartCycleStep == ASSUME IInv, StartCycle PROVE IInv'
<1>1. SlotsInv' BY DEF StartCycle, IInv, SlotsInv
<1>2. CallsInv'
  <2>1. CASE UNCHANGED calls BY <2>1 DEF IInv, CallsInv
  <2>2. ASSUME NEW ev \in Events, calls' = <<Dispatching(ev)>> PROVE CallsInv'
    <3>1. ev \in Nat BY EngineAssumption
    <3>2. Dispatching(ev) \in GoodCalls BY <3>1, NewCalls
    <3> QED BY <2>2, <3>2, ShortSeqs DEF CallsInv
  <2> QED BY <2>1, <2>2 DEF StartCycle
<1>3. RestInv'
  <2>1. turn' \in 0 .. ActionTurn BY CountsKnown DEF StartCycle
  <2>2. asked' \in 0 .. CatalogSize BY CountsKnown DEF StartCycle
  <2>3. found' \in [Slots -> 0 .. Len(Programs)] BY CountsKnown DEF StartCycle, None
  <2>4. inputs' \in 0 .. MaxInputs BY EngineAssumption DEF StartCycle, IInv, RestInv
  <2> QED BY <2>1, <2>2, <2>3, <2>4 DEF StartCycle, IInv, RestInv
<1>4. HeardInv' BY CountsKnown DEF StartCycle, HeardInv
<1>5. CommandInv' BY DEF StartCycle, CommandInv
<1> QED BY <1>1, <1>2, <1>3, <1>4, <1>5 DEF IInv

LEMMA TurnStep == ASSUME IInv, Turn PROVE IInv'
<1> DEFINE x == slot[turn]  st == Current(x)
<1>1. /\ turn \in Slots /\ turn' = turn + 1
      /\ cycled' = cycled /\ asked' = asked /\ found' = found /\ inputs' = inputs
  BY DEF Turn
<1>2. turn \in Nat /\ turn # 0 /\ turn <= SlotCount BY <1>1, CountsKnown DEF Slots
<1>3. x \in Sound /\ Good(x) /\ x \in SlotRecords BY <1>1, SlotSound
<1>4. slot \in [Slots -> Sound] /\ calls \in Seq(GoodCalls) BY DEF IInv, SlotsInv, CallsInv
<1>5. queue \in Seq(Actions) /\ Len(queue) <= Room /\ Room \in Nat BY EngineAssumption DEF IInv, RestInv
<1>6. SlotsInv' /\ CallsInv' /\ queue' \in Seq(Actions) /\ Len(queue') <= Room
  <2>1. CASE ~Running(x) BY <1>4, <1>5, <2>1 DEF Turn, SlotsInv, CallsInv
  <2>2. ASSUME Running(x), NEW met \in BOOLEAN,
               slot' = [slot EXCEPT ![turn] = Tick(x, met).next],
               calls' = IF Tick(x, met).fires /\ st.then = "start" THEN <<Starting(st.goto)>> ELSE calls,
               queue' = IF Tick(x, met).fires /\ Len(queue) < Room THEN Append(queue, st.act) ELSE queue
        PROVE  SlotsInv' /\ CallsInv' /\ queue' \in Seq(Actions) /\ Len(queue') <= Room
    <3>1. Tick(x, met).next \in Sound
      <4>1. Good(Tick(x, met).next) /\ Raising(x, Tick(x, met).next) BY <1>3, <2>2, TickGood
      <4> QED BY <1>3, <4>1, RightlySound DEF Raising
    <3>2. st \in StepRecords BY <1>3, <2>2, StepKnown DEF Good, Placed, Current
    <3>3. st.goto \in Nat /\ st.act \in Actions BY <3>2 DEF StepRecords
    <3> HIDE DEF st
    <3>4. SlotsInv' BY <1>4, <2>2, <3>1 DEF SlotsInv
    <3>5. CallsInv'
      <4>1. <<Starting(st.goto)>> \in Seq(GoodCalls) BY <3>3, NewCalls, ShortSeqs
      <4> QED BY <1>4, <2>2, <4>1 DEF CallsInv
    <3>6. Append(queue, st.act) \in Seq(Actions) /\ Len(Append(queue, st.act)) = Len(queue) + 1
      BY <1>5, <3>3
    <3>7. Len(queue) \in Nat BY <1>5
    <3>8. CASE Tick(x, met).fires /\ Len(queue) < Room BY <1>5, <2>2, <3>4, <3>5, <3>6, <3>7, <3>8
    <3>9. CASE ~(Tick(x, met).fires /\ Len(queue) < Room) BY <1>5, <2>2, <3>4, <3>5, <3>9
    <3> QED BY <3>8, <3>9
  <2> QED BY <2>1, <2>2 DEF Turn
<1>7. RestInv'
  <2>1. turn' \in 0 .. ActionTurn BY <1>1, <1>2, CountsKnown
  <2> QED BY <1>1, <1>6, <2>1 DEF IInv, RestInv
<1>8. HeardInv'
  <2>1. turn' # ActionTurn /\ turn' # 0 BY <1>1, <1>2, CountsKnown
  <2> QED BY <2>1 DEF HeardInv
<1>9. CommandInv' BY <1>1, <1>2, NoCommand DEF CommandInv
<1> QED BY <1>6, <1>7, <1>8, <1>9 DEF IInv

\* A slot whose flag is lowered.
LEMMA Lowered ==
    ASSUME NEW x \in Sound
    PROVE  [x EXCEPT !.pending = FALSE] \in Sound /\ ~[x EXCEPT !.pending = FALSE].pending
<1> DEFINE y == [x EXCEPT !.pending = FALSE]
<1>1. Good(x) /\ x \in SlotRecords BY DEF Sound
<1>2. /\ y \in SlotRecords /\ ~y.pending /\ y.seq = x.seq /\ y.abortEvent = x.abortEvent /\ y.armed = x.armed
      /\ y.status = x.status /\ y.step = x.step /\ y.left = x.left /\ y.retry = x.retry /\ y.age = x.age
  BY <1>1 DEF SlotRecords
<1> HIDE DEF y
<1>3. Steps(y) = Steps(x) /\ Current(y) = Current(x) BY <1>2 DEF Steps, Current
<1>4. Good(y) BY <1>1, <1>2, <1>3 DEF Good, Running, Placed, Timely
<1>5. Rightly(x, y) BY <1>2 DEF Rightly, Same
<1> QED BY <1>2, <1>4, <1>5, RightlySound DEF y

LEMMA DispatchAbortsStep == ASSUME IInv, DispatchAborts PROVE IInv'
<1>1. /\ turn = AbortTurn /\ turn' = ActionTurn /\ queue' = queue /\ cycled' = cycled /\ asked' = asked
      /\ found' = found /\ inputs' = inputs
      /\ slot' = [s \in Slots |-> IF s \in Raised THEN [slot[s] EXCEPT !.pending = FALSE] ELSE slot[s]]
      /\ calls' = [s \in Slots |-> Dispatching(IF s \in Raised THEN slot[s].abortEvent ELSE 0)]
  BY DEF DispatchAborts
<1>2. \A s \in Slots : slot'[s] \in Sound /\ ~slot'[s].pending
  <2> TAKE s \in Slots
  <2>1. slot[s] \in Sound BY SlotSound
  <2>2. slot[s].pending \in BOOLEAN BY SlotSound DEF SlotRecords
  <2>3. s \in Raised <=> slot[s].pending BY DEF Raised
  <2>4. CASE slot[s].pending BY <1>1, <2>1, <2>3, <2>4, Lowered
  <2>5. CASE ~slot[s].pending BY <1>1, <2>1, <2>3, <2>5
  <2> QED BY <2>4, <2>5
<1>3. SlotsInv' BY <1>1, <1>2 DEF SlotsInv
<1>4. CallsInv'
  <2>1. ASSUME NEW s \in Slots
        PROVE  Dispatching(IF s \in Raised THEN slot[s].abortEvent ELSE 0) \in GoodCalls
    <3>1. slot[s].abortEvent \in Nat BY SlotSound DEF SlotRecords
    <3>2. (IF s \in Raised THEN slot[s].abortEvent ELSE 0) \in Nat BY <3>1
    <3> QED BY <3>2, NewCalls
  <2>2. calls' \in [1 .. SlotCount -> GoodCalls] BY <1>1, <2>1 DEF Slots
  <2>3. SlotCount \in Nat BY CountsKnown
  <2>4. calls' \in Seq(GoodCalls) BY <2>2, <2>3
  <2> QED BY <2>4 DEF CallsInv
<1>5. RestInv'
  <2>1. turn' \in 0 .. ActionTurn BY <1>1, CountsKnown
  <2> QED BY <1>1, <2>1 DEF IInv, RestInv
<1>6. HeardInv' BY <1>2 DEF HeardInv
<1>7. CommandInv'
  <2>1. turn # 0 BY <1>1, CountsKnown
  <2> QED BY <1>1, <2>1, NoCommand DEF CommandInv
<1> QED BY <1>3, <1>4, <1>5, <1>6, <1>7 DEF IInv

LEMMA ArmedSound ==
    ASSUME NEW x \in Sound
    PROVE  LET y == [x EXCEPT !.armed = TRUE] IN y \in Sound /\ y.pending = x.pending
<1> DEFINE y == [x EXCEPT !.armed = TRUE]
<1>1. Good(x) /\ x \in SlotRecords BY DEF Sound
<1>2. /\ y \in SlotRecords /\ y.pending = x.pending /\ y.seq = x.seq /\ y.abortEvent = x.abortEvent /\ y.armed
      /\ y.status = x.status /\ y.step = x.step /\ y.left = x.left /\ y.retry = x.retry /\ y.age = x.age
  BY <1>1 DEF SlotRecords
<1> HIDE DEF y
<1>3. Steps(y) = Steps(x) /\ Current(y) = Current(x) BY <1>2 DEF Steps, Current
<1>4. Good(y) BY <1>1, <1>2, <1>3 DEF Good, Running, Placed, Timely
<1>5. Rightly(x, y) BY <1>2 DEF Rightly, Same
<1> QED BY <1>2, <1>4, <1>5, RightlySound DEF y

LEMMA DisarmedSound ==
    ASSUME NEW x \in Sound
    PROVE  LET y == Reset([x EXCEPT !.armed = FALSE]) IN y \in Sound /\ y.pending = x.pending
<1> DEFINE z == [x EXCEPT !.armed = FALSE]  y == Reset(z)
<1>1. x \in SlotRecords BY DEF Sound
<1>2. z \in SlotRecords /\ z.pending = x.pending /\ Same(x, z) BY <1>1 DEF SlotRecords, Same
<1> HIDE DEF z
<1>3. Good(y) /\ Calm(z, y) BY <1>2, ResetGood
<1> HIDE DEF y
<1>4. Rightly(x, y) /\ y.pending = x.pending BY <1>2, <1>3 DEF Rightly, Calm, Same
<1> QED BY <1>3, <1>4, RightlySound DEF y, z

LEMMA ApplySound ==
    ASSUME IInv, NEW act \in Actions
    PROVE  /\ Apply(slot, act) \in [Slots -> Sound]
           /\ \A s \in Slots : Apply(slot, act)[s].pending = slot[s].pending
<1>1. slot \in [Slots -> Sound] BY DEF IInv, SlotsInv
<1>2. CASE act.kind = "command" BY <1>1, <1>2 DEF Apply
<1>3. CASE act.kind = "arm"
  <2> DEFINE y == [slot[act.slot] EXCEPT !.armed = TRUE]
  <2>1. act.slot \in Slots BY <1>3 DEF Actions
  <2>2. y \in Sound /\ y.pending = slot[act.slot].pending BY <1>1, <2>1, ArmedSound
  <2>3. Apply(slot, act) = [slot EXCEPT ![act.slot] = y] BY <1>1, <1>3, <2>1 DEF Apply
  <2> HIDE DEF y
  <2> QED BY <1>1, <2>1, <2>2, <2>3
<1>4. CASE act.kind = "disarm"
  <2> DEFINE y == Reset([slot[act.slot] EXCEPT !.armed = FALSE])
  <2>1. act.slot \in Slots BY <1>4 DEF Actions
  <2>2. y \in Sound /\ y.pending = slot[act.slot].pending BY <1>1, <2>1, DisarmedSound
  <2>3. Apply(slot, act) = [slot EXCEPT ![act.slot] = y] BY <1>1, <1>4, <2>1 DEF Apply
  <2> HIDE DEF y
  <2> QED BY <1>1, <2>1, <2>2, <2>3
<1> QED BY <1>2, <1>3, <1>4 DEF Actions

LEMMA RemovedIs ==
    ASSUME queue \in Seq(Actions), queue # <<>>
    PROVE  Head(queue) \in Actions /\ Removed(queue) \in Seq(Actions) /\ Len(Removed(queue)) = Len(queue) - 1
<1>1. Len(queue) \in Nat \ {0} /\ \A i \in 1 .. Len(queue) : queue[i] \in Actions OBVIOUS
<1>2. Head(queue) \in Actions BY <1>1
<1> DEFINE n == Len(queue)
<1>3. \A i \in 1 .. n - 1 : (IF i = 1 THEN queue[n] ELSE queue[i]) \in Actions BY <1>1
<1>4. Removed(queue) \in [1 .. n - 1 -> Actions] BY <1>3 DEF Removed
<1>5. n - 1 \in Nat BY <1>1
<1> HIDE DEF n
<1>6. Removed(queue) \in Seq(Actions) BY <1>4, <1>5
<1>7. DOMAIN Removed(queue) = 1 .. n - 1 BY DEF Removed, n
<1>8. Len(Removed(queue)) = n - 1 BY <1>5, <1>6, <1>7
<1> QED BY <1>2, <1>6, <1>8 DEF n

LEMMA ProcessActionsStep == ASSUME IInv, ProcessActions PROVE IInv'
<1>1. /\ turn = ActionTurn /\ calls' = calls /\ cycled' = cycled /\ asked' = asked /\ found' = found
      /\ inputs' = inputs
  BY DEF ProcessActions
<1>2. \A s \in Slots : ~slot[s].pending BY <1>1 DEF IInv, HeardInv
<1>3. asked = 0
  <2>1. turn # 0 BY <1>1, CountsKnown
  <2> QED BY <2>1, NoCommand
<1>4. queue \in Seq(Actions) /\ Len(queue) <= Room /\ Room \in Nat BY EngineAssumption DEF IInv, RestInv
<1>5. CASE queue = <<>>
  <2>1. turn' = 0 /\ slot' = slot /\ queue' = queue BY <1>5 DEF ProcessActions
  <2>2. turn' \in 0 .. ActionTurn BY <2>1, CountsKnown
  <2>3. RestInv' BY <1>1, <2>1, <2>2 DEF IInv, RestInv
  <2>4. SlotsInv' /\ CallsInv' BY <1>1, <2>1 DEF IInv, SlotsInv, CallsInv
  <2>5. HeardInv' BY <1>2, <2>1 DEF HeardInv
  <2>6. CommandInv' BY <1>1, <1>3 DEF CommandInv
  <2> QED BY <2>3, <2>4, <2>5, <2>6 DEF IInv
<1>6. CASE queue # <<>>
  <2>1. turn' = turn /\ slot' = Apply(slot, Head(queue)) /\ queue' = Removed(queue)
    BY <1>6 DEF ProcessActions
  <2>2. Head(queue) \in Actions /\ Removed(queue) \in Seq(Actions) /\ Len(Removed(queue)) = Len(queue) - 1
    BY <1>4, <1>6, RemovedIs
  <2>3. Len(queue) \in Nat BY <1>4
  <2>4. RestInv' BY <1>1, <1>4, <2>1, <2>2, <2>3 DEF IInv, RestInv
  <2>5. SlotsInv' /\ \A s \in Slots : slot'[s].pending = slot[s].pending
    BY <2>1, <2>2, ApplySound DEF SlotsInv
  <2>6. CallsInv' BY <1>1 DEF IInv, CallsInv
  <2>7. HeardInv' BY <1>2, <2>5 DEF HeardInv
  <2>8. CommandInv' BY <1>1, <1>3 DEF CommandInv
  <2> QED BY <2>4, <2>5, <2>6, <2>7, <2>8 DEF IInv
<1> QED BY <1>5, <1>6

LEMMA StoppedSound ==
    ASSUME NEW x \in Sound, Running(x)
    PROVE  Reset(Abort(x)) \in Sound
<1>1. Good(x) /\ Raises(x) BY DEF Sound
<1>2. Abort(x) \in SlotRecords /\ Same(x, Abort(x)) /\ Abort(x).pending = (x.pending \/ x.abortEvent # 0)
  BY <1>1, AbortGood
<1>3. Good(Reset(Abort(x))) /\ Calm(Abort(x), Reset(Abort(x))) BY <1>2, ResetGood
<1>4. Rightly(x, Reset(Abort(x))) BY <1>2, <1>3 DEF Rightly, Calm, Same
<1> QED BY <1>3, <1>4, RightlySound

LEMMA HandleRest ==
    ASSUME IInv, NEW t \in [Slots -> Sound], NEW events, Handle(t, events), asked' \in 0 .. CatalogSize,
           found' \in [Slots -> 0 .. Len(Programs)]
    PROVE  SlotsInv' /\ RestInv' /\ HeardInv' /\ turn' = 0
<1>1. SlotsInv' BY DEF Handle, SlotsInv
<1>2. turn' = 0 /\ cycled' = FALSE /\ queue' = queue BY DEF Handle
<1>3. inputs' \in 0 .. MaxInputs BY EngineAssumption DEF Handle, IInv, RestInv
<1>a. turn' \in 0 .. ActionTurn BY <1>2, CountsKnown
<1>4. RestInv' BY <1>2, <1>3, <1>a DEF IInv, RestInv
<1>5. HeardInv' BY <1>2, CountsKnown DEF HeardInv
<1> QED BY <1>1, <1>2, <1>4, <1>5

LEMMA SettleStep == ASSUME IInv, NEW t \in [Slots -> Sound], NEW events, Settle(t, events) PROVE IInv'
<1>1. Handle(t, events) /\ calls' = <<>> /\ asked' = 0 /\ found' = None BY DEF Settle
<1>2. asked' \in 0 .. CatalogSize /\ found' \in [Slots -> 0 .. Len(Programs)]
  BY <1>1, CountsKnown DEF None
<1>3. CallsInv' BY <1>1, ShortSeqs DEF CallsInv
<1>4. CommandInv' BY <1>1 DEF CommandInv
<1> QED BY <1>1, <1>2, <1>3, <1>4, HandleRest DEF IInv

LEMMA StartByIdStep == ASSUME IInv, NEW id \in Catalog, StartById(id) PROVE IInv'
<1>1. /\ Handle(slot, owed) /\ calls' = <<Starting(id)>> /\ asked' = id
      /\ found' = [s \in Slots |-> IF Running(slot[s]) THEN slot[s].seq ELSE 0]
  BY DEF StartById
<1>2. slot \in [Slots -> Sound] /\ slot' = slot /\ id \in Nat
  BY <1>1, CountsKnown DEF Handle, IInv, SlotsInv
<1>3. found' \in [Slots -> 0 .. Len(Programs)]
  <2>1. \A s \in Slots : slot[s].seq \in 0 .. Len(Programs) BY SlotSound DEF SlotRecords
  <2>2. 0 \in 0 .. Len(Programs) BY CountsKnown
  <2> QED BY <1>1, <2>1, <2>2
<1>4. asked' \in 0 .. CatalogSize BY <1>1 DEF Catalog
<1>5. SlotsInv' /\ RestInv' /\ HeardInv' /\ turn' = 0 BY <1>1, <1>2, <1>3, <1>4, HandleRest
<1>6. Starting(id) \in GoodCalls BY <1>2, NewCalls
<1>7. CallsInv' BY <1>1, <1>6, ShortSeqs DEF CallsInv
<1>8. CommandInv'
  <2>1. \A s \in Slots : found'[s] # 0 => Running(slot'[s]) /\ slot'[s].seq = found'[s] BY <1>1, <1>2
  <2>2. PriorityKept' BY <2>1 DEF PriorityKept
  <2>3. id \in Called' BY <1>1 DEF Called
  <2>4. Starting(id).does = "start" /\ Starting(id).for = id BY DEF Starting, Call
  <2>5. Starting(id) \in CommandCalls' BY <1>6, <2>3, <2>4 DEF CommandCalls, CommandCall
  <2>6. calls' \in Seq(CommandCalls') BY <1>1, <2>5, ShortSeqs
  <2> QED BY <1>5, <2>2, <2>6 DEF CommandInv
<1> QED BY <1>5, <1>7, <1>8 DEF IInv

LEMMA StoppedIs == ASSUME IInv, NEW S PROVE Stopped(S) \in [Slots -> Sound]
<1>1. \A s \in Slots : slot[s] \in Sound /\ (Running(slot[s]) => Reset(Abort(slot[s])) \in Sound)
  BY SlotSound, StoppedSound
<1> QED BY <1>1 DEF Stopped

LEMMA CommandStep ==
    ASSUME IInv, \/ AbortAll
                 \/ \E id \in Catalog : StartById(id) \/ StopById(id)
                 \/ \E s \in Slots : StartSlot(s) \/ StopSlot(s) \/ \E id \in Catalog \cup {0} : Load(s, id)
    PROVE  IInv'
<1>1. slot \in [Slots -> Sound] BY DEF IInv, SlotsInv
<1>2. ASSUME NEW S, Stop(S) PROVE IInv' BY <1>2, StoppedIs, SettleStep DEF Stop
<1>3. ASSUME NEW id \in Catalog, StartById(id) PROVE IInv' BY <1>3, StartByIdStep
<1>4. ASSUME NEW s \in Slots, StartSlot(s) PROVE IInv'
  <2>1. slot[s] \in Sound /\ Good(slot[s]) BY SlotSound
  <2>2. Good(Begin(slot[s])) /\ Calm(slot[s], Begin(slot[s])) BY <2>1, BeginGood
  <2>3. Begin(slot[s]) \in Sound BY <2>1, <2>2, RightlySound DEF Rightly, Calm
  <2>4. [slot EXCEPT ![s] = Begin(@)] \in [Slots -> Sound] BY <1>1, <2>3
  <2> QED BY <1>4, <2>4, SettleStep DEF StartSlot
<1>5. ASSUME NEW s \in Slots, NEW id \in Catalog \cup {0}, Load(s, id) PROVE IInv'
  <2>1. id \in 0 .. Len(Programs) BY CountsKnown
  <2>2. Good(Fresh(id, 0)) /\ ~Fresh(id, 0).pending /\ Fresh(id, 0).abortEvent = 0 BY <2>1, FreshGood
  <2>3. Fresh(id, 0) \in Sound BY <2>2 DEF Sound, Good, Raises, AbortEvents
  <2>4. [slot EXCEPT ![s] = Fresh(id, 0)] \in [Slots -> Sound] BY <1>1, <2>3
  <2> QED BY <1>5, <2>4, SettleStep DEF Load
<1> QED BY <1>2, <1>3, <1>4, <1>5 DEF AbortAll, StopById, StopSlot

----------------------------------------------------------------------------
(* The abort events owed: a call under way sends each one, or the flag of  *)
(* its slot is up and dispatchAbortEvents is still to come.                *)

Debts == [slot : Slots, event : Nat \ {0}, now : BOOLEAN]
Coming(ev) == \E i \in DOMAIN calls : calls[i] = Dispatching(ev)
Flies(x, o) == ~o.now /\ x.pending /\ x.abortEvent = o.event
Secured(o) == Coming(o.event) \/ Flies(slot[o.slot], o)
OwedInv == owed \subseteq Debts /\ \A o \in owed : Secured(o)

\* Between the calls, an event that is owed waits for its flag.
LEMMA Flagging ==
    ASSUME OwedInv, calls = <<>>, NEW o \in owed
    PROVE  Flies(slot[o.slot], o) /\ o \in Debts /\ o.slot \in Slots
<1>1. ~Coming(o.event) BY DEF Coming
<1> QED BY <1>1 DEF OwedInv, Secured, Debts

\* What the calls under way will send they send when the innermost is over,
\* unless it is the one.
LEMMA StillComing ==
    ASSUME NEW A, calls \in Seq(A), calls # <<>>, NEW B, NEW new \in Seq(B), Then(new),
           NEW ev, Coming(ev), Top # Dispatching(ev)
    PROVE  Coming(ev)'
<1>1. PICK i \in DOMAIN calls : calls[i] = Dispatching(ev) BY DEF Coming
<1>2. i \in 2 .. Len(calls)
  <2>1. i \in 1 .. Len(calls) /\ Len(calls) \in Nat BY <1>1
  <2>2. i # 1 BY <1>1 DEF Top
  <2> QED BY <2>1, <2>2
<1>3. calls' = new \o Tail(calls) /\ Len(new) \in Nat /\ Len(calls) \in Nat BY DEF Then
<1>4. Tail(calls) \in Seq(A) /\ Len(Tail(calls)) = Len(calls) - 1 /\ Tail(calls)[i - 1] = calls[i] BY <1>2
<1>5. Len(calls') = Len(new) + Len(calls) - 1 /\ DOMAIN calls' = 1 .. Len(calls') BY <1>3, <1>4
<1>6. Len(new) + i - 1 \in DOMAIN calls' BY <1>2, <1>3, <1>5
<1>7. calls'[Len(new) + i - 1] = calls[i]
  <2> DEFINE tail == Tail(calls)  k == Len(new) + i - 1
  <2>1. k \in 1 .. Len(new) + Len(tail) /\ ~(k <= Len(new)) /\ k - Len(new) = i - 1 BY <1>2, <1>3, <1>4
  <2>2. tail \in Seq(A) BY <1>4
  <2> HIDE DEF tail, k
  <2>3. (new \o tail)[k] = tail[k - Len(new)] BY <2>1, <2>2
  <2> QED BY <1>3, <1>4, <2>1, <2>3 DEF tail, k
<1>8. Dispatching(ev)' = Dispatching(ev) BY DEF Dispatching, Call
<1> QED BY <1>1, <1>6, <1>7, <1>8 DEF Coming

\* A call that is over sends what was owed, secures it anew or leaves it.
LEMMA OwedGoesOn ==
    ASSUME IInv, OwedInv, calls # <<>>, NEW B, NEW new \in Seq(B), Then(new), owed' \subseteq Debts,
           \A o \in owed' : \/ Secured(o)'
                            \/ /\ o \in owed /\ Top # Dispatching(o.event)
                               /\ Flies(slot[o.slot], o) => Secured(o)'
    PROVE  OwedInv'
<1>1. calls \in Seq(GoodCalls) BY DEF IInv, CallsInv
<1>2. ASSUME NEW o \in owed', o \in owed, Top # Dispatching(o.event), Coming(o.event)
      PROVE  Secured(o)'
  <2>1. Coming(o.event)' BY <1>1, <1>2, StillComing
  <2> QED BY <2>1 DEF Secured
<1> QED BY <1>2 DEF OwedInv, Secured

\* A call that is about no slot.
LEMMA OwedStays ==
    ASSUME IInv, OwedInv, calls # <<>>, NEW B, NEW new \in Seq(B), Then(new), UNCHANGED <<slot, owed>>,
           Top.does # "dispatch"
    PROVE  OwedInv'
<1>1. \A ev : Top # Dispatching(ev) BY DEF Dispatching, Call
<1>2. \A o : Flies(slot[o.slot], o) => Secured(o)' BY DEF Secured, Flies
<1>3. owed' \subseteq Debts BY DEF OwedInv
<1> QED BY <1>1, <1>2, <1>3, OwedGoesOn

LEMMA DispatchOwed == ASSUME IInv, OwedInv, calls # <<>>, Dispatch PROVE OwedInv'
<1> DEFINE ev == Top.for
           started == IF ev = 0 THEN {} ELSE Residents(ev)
           new == IF ev = 0 \/ started # {} THEN <<>> ELSE <<Seeking(ev, 1)>>
<1>1. /\ owed' = {o \in owed : o.event # ev} /\ Then(new)
      /\ slot' = [s \in Slots |-> IF s \in started THEN Begin(slot[s]) ELSE slot[s]]
  BY DEF Dispatch
<1>2. new \in Seq({Seeking(ev, 1)}) BY ShortSeqs
<1>3. owed' \subseteq Debts BY <1>1 DEF OwedInv
<1>4. ASSUME NEW o \in owed'
      PROVE  o \in owed /\ Top # Dispatching(o.event) /\ (Flies(slot[o.slot], o) => Secured(o)')
  <2>1. o \in owed /\ o.event # ev BY <1>1
  <2>2. Top # Dispatching(o.event) BY <2>1 DEF Dispatching, Call, ev
  <2>3. o.slot \in Slots BY <2>1 DEF OwedInv, Debts
  <2>4. Calm(slot[o.slot], slot'[o.slot])
    <3>1. Calm(slot[o.slot], Begin(slot[o.slot])) BY <2>3, SlotSound, BeginGood
    <3> HIDE DEF started
    <3> QED BY <1>1, <2>3, <3>1 DEF Calm, Same
  <2>5. Flies(slot[o.slot], o) => Flies(slot'[o.slot], o) BY <2>4 DEF Flies, Calm, Same
  <2> QED BY <2>1, <2>2, <2>5 DEF Secured, Flies
<1> HIDE DEF new
<1> QED BY <1>1, <1>2, <1>3, <1>4, OwedGoesOn

LEMMA OustOwed ==
    ASSUME IInv, OwedInv, calls # <<>>, NEW s \in Slots, Running(slot[s]), NEW A, NEW next \in Seq(A),
           Oust(s, next), Top.does # "dispatch"
    PROVE  OwedInv'
<1>0. PICK ev : ev = slot[s].abortEvent OBVIOUS
<1> DEFINE x == Abort(slot[s])
           new == IF x.pending THEN <<Dispatching(ev)>> \o next ELSE next
<1>1. owed' = Owes({s}, TRUE) /\ slot' = [slot EXCEPT ![s] = [x EXCEPT !.pending = FALSE]]
  BY DEF Oust
<1>2. slot \in [Slots -> Sound] /\ Good(slot[s]) /\ slot[s] \in SlotRecords /\ calls \in Seq(GoodCalls)
  BY SlotSound DEF IInv, SlotsInv, CallsInv
<1>3. x.abortEvent = ev /\ x.pending = (slot[s].pending \/ slot[s].abortEvent # 0)
  BY <1>0, <1>2, AbortGood DEF Same
<1>b. Then(new) BY <1>3 DEF Oust
<1> HIDE DEF x
<1>4. new \in Seq(A \cup {Dispatching(ev)})
  <2>1. next \in Seq(A \cup {Dispatching(ev)}) OBVIOUS
  <2>2. <<Dispatching(ev)>> \o next \in Seq(A \cup {Dispatching(ev)}) BY <2>1
  <2> QED BY <2>1, <2>2
<1>5. x.pending => Coming(ev)'
  <2> SUFFICES ASSUME x.pending PROVE Coming(ev)' OBVIOUS
  <2>1. Tail(calls) \in Seq(GoodCalls) BY <1>2
  <2>2. calls' = (<<Dispatching(ev)>> \o next) \o Tail(calls) BY <1>b DEF Then
  <2>3. calls'[1] = Dispatching(ev) /\ 1 \in DOMAIN calls' BY <2>1, <2>2
  <2> QED BY <2>3 DEF Coming, Dispatching, Call
<1>6. slot[s].abortEvent \in Nat BY <1>2 DEF SlotRecords
<1>7. \A o \in owed' : o \in Debts /\ (o \in owed \/ (o.event = ev /\ x.pending))
  <2> TAKE o \in owed'
  <2>1. CASE o \in owed BY <2>1 DEF OwedInv
  <2>2. CASE o \notin owed
    <3>1. o = [slot |-> s, event |-> slot[s].abortEvent, now |-> TRUE] /\ slot[s].abortEvent # 0
      BY <1>1, <2>2 DEF Owes
    <3> QED BY <1>0, <1>3, <1>6, <3>1 DEF Debts
  <2> QED BY <2>1, <2>2
<1>8. ASSUME NEW o \in owed', o \in owed, Flies(slot[o.slot], o) PROVE Secured(o)'
  <2>1. CASE o.slot = s BY <1>0, <1>3, <1>5, <1>8, <2>1 DEF Secured, Flies
  <2>2. CASE o.slot # s
    <3>1. slot'[o.slot] = slot[o.slot] BY <1>1, <2>2, <1>7, <1>2 DEF Debts
    <3> QED BY <1>8, <3>1 DEF Secured, Flies
  <2> QED BY <2>1, <2>2
<1>9. \A e : Top # Dispatching(e) BY DEF Dispatching, Call
<1>10. ASSUME NEW o \in owed'
       PROVE  \/ Secured(o)'
              \/ o \in owed /\ Top # Dispatching(o.event) /\ (Flies(slot[o.slot], o) => Secured(o)')
  BY <1>5, <1>7, <1>8, <1>9 DEF Secured
<1>11. owed' \subseteq Debts BY <1>7
<1> HIDE DEF new
<1> QED BY <1>b, <1>4, <1>10, <1>11, OwedGoesOn

LEMMA ExcludeOwed == ASSUME IInv, OwedInv, calls # <<>>, Exclude PROVE OwedInv'
<1> DEFINE id == Top.for  members == Members(id, Top.at)  s == First(members)
           next == <<Resetting(s), Excluding(id, s + 1)>>
<1>1. /\ Top.does = "exclude"
      /\ IF members = {} THEN UNCHANGED <<slot, owed>> /\ Then(<<Placing(id)>>) ELSE Oust(s, next)
  BY DEF Exclude
<1>2. members # {} => s \in Slots /\ Running(slot[s])
  <2>1. members \in SUBSET Nat BY CountsKnown DEF Members
  <2>2. members # {} => s \in members BY <2>1, Least
  <2> QED BY <2>2 DEF Members
<1>3. <<Placing(id)>> \in Seq({Placing(id)}) /\ next \in Seq({Resetting(s), Excluding(id, s + 1)})
  BY ShortSeqs
<1> HIDE DEF members, s, id, next
<1>4. CASE members = {} BY <1>1, <1>3, <1>4, OwedStays
<1>5. CASE members # {} BY <1>1, <1>2, <1>3, <1>5, OustOwed
<1> QED BY <1>4, <1>5

LEMMA PlaceOwed == ASSUME IInv, OwedInv, calls # <<>>, Place PROVE OwedInv'
<1> DEFINE id == Top.for  s == First(Lowest)  f == First(Free)
<1>1. /\ Top.does = "place"
      /\ \/ UNCHANGED <<slot, owed>> /\ (Then(<<Loading(id, f)>>) \/ Then(<<>>))
         \/ Free = {} /\ Oust(s, <<Loading(id, s)>>)
  BY DEF Place
<1>2. s \in Slots /\ (Free = {} => Running(slot[s])) BY LowestIs DEF Free
<1>3. <<Loading(id, f)>> \in Seq({Loading(id, f)}) /\ <<Loading(id, s)>> \in Seq({Loading(id, s)})
      /\ <<>> \in Seq({})
  BY ShortSeqs
<1> HIDE DEF id, s, f
<1> QED BY <1>1, <1>2, <1>3, OwedStays, OustOwed

LEMMA SeekOwed == ASSUME IInv, OwedInv, calls # <<>>, Seek \/ Start PROVE OwedInv'
<1> DEFINE id == First(Matching(Top.for, Top.at))
           seek == IF Matching(Top.for, Top.at) = {} THEN <<>> ELSE <<Starting(id), Seeking(Top.for, id + 1)>>
           start == IF Top.for \notin Catalog \/ Blocked(Top.for) THEN <<>> ELSE <<Excluding(Top.for, 1)>>
<1>1. UNCHANGED <<slot, owed>> /\ Top.does # "dispatch" /\ (Then(seek) \/ Then(start)) BY DEF Seek, Start
<1>2. seek \in Seq({Starting(id), Seeking(Top.for, id + 1)}) /\ start \in Seq({Excluding(Top.for, 1)})
  BY ShortSeqs
<1> HIDE DEF seek, start
<1> QED BY <1>1, <1>2, OwedStays

LEMMA ResetOwed == ASSUME IInv, OwedInv, calls # <<>>, ResetSlot PROVE OwedInv'
<1>1. /\ slot' = [slot EXCEPT ![Top.at] = Reset(slot[Top.at])] /\ owed' = owed /\ Then(<<>>)
      /\ Top.does = "reset"
  BY DEF ResetSlot
<1>2. \A ev : Top # Dispatching(ev) BY <1>1 DEF Dispatching, Call
<1>3. ASSUME NEW o \in owed, Flies(slot[o.slot], o) PROVE Secured(o)'
  <2>1. o.slot \in Slots BY DEF OwedInv, Debts
  <2>2. slot[o.slot] \in SlotRecords /\ slot \in [Slots -> Sound] BY <2>1, SlotSound DEF IInv, SlotsInv
  <2>3. Calm(slot[o.slot], Reset(slot[o.slot])) BY <2>2, ResetGood
  <2>4. slot'[o.slot] = Reset(slot[o.slot]) \/ slot'[o.slot] = slot[o.slot] BY <1>1, <2>1, <2>2
  <2>5. Flies(slot'[o.slot], o) BY <1>3, <2>3, <2>4 DEF Flies, Calm, Same
  <2> QED BY <2>5 DEF Secured, Flies
<1>4. owed' \subseteq Debts BY <1>1 DEF OwedInv
<1> QED BY <1>1, <1>2, <1>3, <1>4, ShortSeqs, OwedGoesOn

\* A load erases what the flag of its slot stands for; when the actions have
\* their turn no flag is up.
LEMMA ErasedLeaves ==
    ASSUME IInv, OwedInv, NEW s \in Slots, NEW o \in Erased(s)
    PROVE  o \in owed /\ o \in Debts /\ (Flies(slot[o.slot], o) => o.slot # s)
<1>1. o \in owed /\ o \in Debts BY DEF Erased, OwedInv
<1>2. ASSUME Flies(slot[o.slot], o), o.slot = s PROVE FALSE
  <2>1. turn # ActionTurn
    <3>1. slot[s].pending /\ s \in Slots BY <1>2 DEF Flies
    <3> QED BY <3>1 DEF IInv, HeardInv
  <2> QED BY <1>2, <2>1 DEF Erased, Flies
<1> QED BY <1>1, <1>2

LEMMA LoadOwed == ASSUME IInv, OwedInv, calls # <<>>, LoadSlot PROVE OwedInv'
<1> DEFINE s == Top.at  y == Begin(Fresh(Top.for, Programs[Top.for].abortEvent))
<1>1. slot' = [slot EXCEPT ![s] = y] /\ owed' = Erased(s) /\ Then(<<>>) /\ Top.does = "load"
  BY DEF LoadSlot
<1>2. \A ev : Top # Dispatching(ev) BY <1>1 DEF Dispatching, Call
<1>3. s \in Slots
  <2>1. Top \in GoodCalls BY TopIn DEF IInv, CallsInv
  <2> QED BY <1>1, <2>1 DEF GoodCalls, CallAt
<1> HIDE DEF s, y
<1>4. ASSUME NEW o \in owed'
      PROVE  o \in owed /\ o \in Debts /\ (Flies(slot[o.slot], o) => Secured(o)')
  <2>1. o \in owed /\ o \in Debts /\ (Flies(slot[o.slot], o) => o.slot # s) BY <1>1, <1>3, ErasedLeaves
  <2>2. o.slot # s => slot'[o.slot] = slot[o.slot] BY <1>1, <2>1 DEF Debts, IInv, SlotsInv
  <2> QED BY <2>1, <2>2 DEF Secured, Flies
<1>5. owed' \subseteq Debts BY <1>4
<1> QED BY <1>1, <1>2, <1>4, <1>5, ShortSeqs, OwedGoesOn

\* A step from a state without calls under way.
LEMMA OwedCycle ==
    ASSUME IInv, OwedInv, calls = <<>>, owed' = owed,
           \A o \in owed : Flies(slot[o.slot], o) /\ o.slot \in Slots => Secured(o)'
    PROVE  OwedInv'
  BY Flagging DEF OwedInv

\* A sequence that times out and calls for others raises its flag.
LEMMA LateStatus ==
    ASSUME NEW x, Good(x), Running(x), NEW met \in BOOLEAN, Tick(x, met).next.status = "timedOut"
    PROVE  Tick(x, met).next.pending \/ x.abortEvent = 0
<1> DEFINE st == Current(x)
           timed == st.timeout > 0 /\ x.left > 0
           out == timed /\ x.left = 1
           left == IF timed THEN x.left - 1 ELSE x.left
           delay == IF x.status = "waiting" /\ x.delay > 0 THEN x.delay - 1 ELSE x.delay
           aged == [x EXCEPT !.left = left, !.delay = delay, !.age = @ + 1]
           late == [aged EXCEPT !.status = "condition"]
<1>1. x \in SlotRecords /\ Placed(x) BY DEF Good
<1>2. Tick(x, met).next \in {Advance(x), OnTimeout(aged), aged, late} BY DEF Tick, Running
<1>3. aged \in SlotRecords /\ aged.status = x.status /\ aged.abortEvent = x.abortEvent
      /\ aged.seq = x.seq /\ aged.step = x.step
  <2>1. x.left \in Nat /\ x.delay \in Nat /\ x.age \in Nat BY <1>1 DEF SlotRecords
  <2>2. left \in Nat /\ delay \in Nat /\ x.age + 1 \in Nat BY <2>1
  <2> HIDE DEF left, delay
  <2> QED BY <1>1, <2>2 DEF SlotRecords
<1> HIDE DEF aged
<1>4. \A z \in SlotRecords : \A k : Enter(z, k).status # "timedOut" BY DEF Enter, Due, SlotRecords
<1>5. Advance(x).status # "timedOut"
  <2>1. \A k : [Enter(x, 1) EXCEPT !.repeats = @ + 1].status = Enter(x, 1).status BY <1>1 DEF Enter, SlotRecords
  <2> QED BY <1>1, <1>4, <2>1 DEF Advance, SlotRecords
<1>6. aged.status # "timedOut" /\ late.status # "timedOut" BY <1>3 DEF Running, SlotRecords
<1>7. OnTimeout(aged).status = "timedOut" => OnTimeout(aged).pending \/ aged.abortEvent = 0
  <2>1. TimedOut(aged).pending = (aged.pending \/ aged.abortEvent # 0) BY <1>3, TimedOutGood
  <2>2. aged.abortEvent = x.abortEvent /\ aged.pending \in BOOLEAN BY <1>3 DEF SlotRecords
  <2>3. st \in StepRecords /\ Current(aged) = st BY <1>1, <1>3, StepKnown DEF Placed, Current, Steps
  <2> HIDE DEF st
  <2>4. st.policy \in {"skip", "goto", "abort"} /\ (aged.retry < st.retries \/ aged.retry >= st.retries)
    BY <1>3, <2>3 DEF StepRecords, SlotRecords
  <2>5. Again(aged).status # "timedOut" BY <1>3 DEF Again, Due, SlotRecords
  <2>6. [aged EXCEPT !.step = aged.step + 1, !.status = "complete"].status # "timedOut"
    BY <1>3 DEF SlotRecords
  <2>7. OnTimeout(aged) \in {Again(aged), [aged EXCEPT !.step = aged.step + 1, !.status = "complete"],
                           Enter(aged, aged.step + 1), Enter(aged, st.goto), TimedOut(aged)}
    BY <2>3, <2>4 DEF OnTimeout
  <2> QED BY <1>3, <1>4, <2>1, <2>2, <2>5, <2>6, <2>7
<1> QED BY <1>2, <1>3, <1>5, <1>6, <1>7

LEMMA TurnOwed == ASSUME IInv, OwedInv, Turn PROVE OwedInv'
<1> DEFINE x == slot[turn]
<1>1. calls = <<>> /\ turn \in Slots BY DEF Turn
<1>2. x \in Sound /\ Good(x) /\ x \in SlotRecords /\ slot \in [Slots -> Sound]
  BY <1>1, SlotSound DEF IInv, SlotsInv
<1>3. CASE slot' = slot /\ owed' = owed
  <2>1. \A o \in owed : Flies(slot[o.slot], o) => Secured(o)' BY <1>3 DEF Secured, Flies
  <2> QED BY <1>1, <1>3, <2>1, OwedCycle
<1>4. ASSUME Running(x), NEW met \in BOOLEAN, slot' = [slot EXCEPT ![turn] = Tick(x, met).next],
             owed' = IF Tick(x, met).next.status = "timedOut" THEN Owes({turn}, FALSE) ELSE owed
      PROVE  OwedInv'
  <2> DEFINE y == Tick(x, met).next
  <2>1. Raising(x, y) /\ (y.status = "timedOut" => y.pending \/ x.abortEvent = 0)
    BY <1>2, <1>4, TickGood, LateStatus
  <2> HIDE DEF y
  <2>2. ASSUME NEW o \in owed PROVE o \in Debts /\ Secured(o)'
    <3>1. Flies(slot[o.slot], o) /\ o \in Debts /\ o.slot \in Slots BY <1>1, Flagging
    <3>2. slot'[o.slot] = slot[o.slot] \/ (o.slot = turn /\ slot'[o.slot] = y) BY <1>2, <1>4, <3>1 DEF y
    <3>3. Flies(slot'[o.slot], o) BY <2>1, <3>1, <3>2 DEF Flies, Raising, Rightly, Same
    <3> QED BY <3>1, <3>3 DEF Secured, Flies
  <2>3. ASSUME NEW o \in owed', o \notin owed PROVE o \in Debts /\ Secured(o)'
    <3>1. y.status = "timedOut" /\ o = [slot |-> turn, event |-> x.abortEvent, now |-> FALSE] /\ x.abortEvent # 0
      BY <1>4, <2>3 DEF Owes, y
    <3>2. slot'[o.slot] = y /\ x.abortEvent \in Nat BY <1>1, <1>2, <1>4, <3>1 DEF SlotRecords, y
    <3>3. Flies(slot'[o.slot], o) BY <2>1, <3>1, <3>2 DEF Flies, Raising, Rightly, Same
    <3> QED BY <1>1, <3>1, <3>2, <3>3 DEF Secured, Flies, Debts
  <2> QED BY <2>2, <2>3 DEF OwedInv
<1> QED BY <1>3, <1>4 DEF Turn

LEMMA CycleOwed ==
    ASSUME IInv, OwedInv, StartCycle \/ DispatchAborts \/ ProcessActions
    PROVE  OwedInv'
<1>1. calls = <<>> /\ owed' = owed BY DEF StartCycle, DispatchAborts, ProcessActions
<1>2. CASE StartCycle
  <2>1. \A o \in owed : Flies(slot[o.slot], o) => Secured(o)' BY <1>2 DEF StartCycle, Secured, Flies
  <2> QED BY <1>1, <2>1, OwedCycle
<1>3. CASE DispatchAborts
  <2>1. ASSUME NEW o \in owed, Flies(slot[o.slot], o), o.slot \in Slots PROVE Secured(o)'
    <3>1. o.slot \in Raised /\ slot[o.slot].abortEvent = o.event BY <2>1 DEF Raised, Flies
    <3>2. o.slot \in DOMAIN calls' /\ calls'[o.slot] = Dispatching(o.event) BY <1>3, <2>1, <3>1 DEF DispatchAborts
    <3> QED BY <3>2 DEF Secured, Coming, Dispatching, Call
  <2> QED BY <1>1, <2>1, OwedCycle
<1>4. CASE ProcessActions
  <2>1. ASSUME NEW o \in owed PROVE FALSE
    <3>1. slot[o.slot].pending /\ o.slot \in Slots BY <1>1, Flagging DEF Flies
    <3> QED BY <1>4, <3>1 DEF ProcessActions, IInv, HeardInv
  <2> QED BY <1>1, <2>1 DEF OwedInv
<1> QED BY <1>2, <1>3, <1>4

LEMMA SettleOwed ==
    ASSUME IInv, OwedInv, NEW t, NEW events, Settle(t, events),
           \A o \in events : o \in Debts /\ Flies(t[o.slot], o)
    PROVE  OwedInv'
<1>1. slot' = t /\ owed' = events BY DEF Settle, Handle
<1> QED BY <1>1 DEF OwedInv, Secured, Flies

LEMMA StopOwed == ASSUME IInv, OwedInv, NEW S \in SUBSET Slots, Stop(S) PROVE OwedInv'
<1>1. calls = <<>> BY DEF Stop, Settle, Handle
<1>2. ASSUME NEW o \in Owes(S, FALSE) PROVE o \in Debts /\ Flies(Stopped(S)[o.slot], o)
  <2> DEFINE x == slot[o.slot]
  <2>1. \/ o \in owed /\ o.slot \in Slots /\ o \in Debts /\ Flies(x, o)
        \/ /\ o.slot \in S /\ Running(x) /\ x.abortEvent # 0
           /\ o = [slot |-> o.slot, event |-> x.abortEvent, now |-> FALSE]
    BY <1>1, Flagging DEF Owes
  <2>2. o.slot \in Slots /\ Good(x) /\ x \in SlotRecords BY <2>1, SlotSound
  <2>3. Stopped(S)[o.slot] = IF o.slot \in S /\ Running(x) THEN Reset(Abort(x)) ELSE x BY <2>2 DEF Stopped
  <2> HIDE DEF x
  <2>4. ASSUME Running(x) PROVE Same(x, Reset(Abort(x))) /\ Reset(Abort(x)).pending = (x.pending \/ x.abortEvent # 0)
    <3>1. Abort(x) \in SlotRecords /\ Same(x, Abort(x)) /\ Abort(x).pending = (x.pending \/ x.abortEvent # 0)
      BY <2>2, <2>4, AbortGood
    <3>2. Calm(Abort(x), Reset(Abort(x))) BY <3>1, ResetGood
    <3> QED BY <3>1, <3>2 DEF Calm, Same
  <2>5. x.abortEvent \in Nat BY <2>2 DEF SlotRecords
  <2>6. CASE o \in owed /\ o \in Debts /\ Flies(x, o) BY <2>3, <2>4, <2>6 DEF Flies, Same
  <2>7. CASE /\ o.slot \in S /\ Running(x) /\ x.abortEvent # 0
             /\ o = [slot |-> o.slot, event |-> x.abortEvent, now |-> FALSE]
    <3>1. o.event = x.abortEvent /\ o.now = FALSE BY <2>7
    <3>2. [slot |-> o.slot, event |-> x.abortEvent, now |-> FALSE] \in Debts BY <2>2, <2>5, <2>7 DEF Debts
    <3> QED BY <2>3, <2>4, <2>7, <3>1, <3>2 DEF Flies, Same
  <2> QED BY <2>1, <2>6, <2>7
<1> QED BY <1>2, SettleOwed DEF Stop

LEMMA CommandOwed ==
    ASSUME IInv, OwedInv, \/ AbortAll
                          \/ \E id \in Catalog : StartById(id) \/ StopById(id)
                          \/ \E s \in Slots : StartSlot(s) \/ StopSlot(s) \/ \E id \in Catalog \cup {0} : Load(s, id)
    PROVE  OwedInv'
<1>1. ASSUME NEW S \in SUBSET Slots, Stop(S) PROVE OwedInv' BY <1>1, StopOwed
<1>2. ASSUME NEW id \in Catalog, StartById(id) PROVE OwedInv'
  <2>1. calls = <<>> /\ UNCHANGED <<slot, owed>> BY <1>2 DEF StartById, Handle
  <2>2. \A o \in owed : Flies(slot[o.slot], o) => Secured(o)' BY <2>1 DEF Secured, Flies
  <2> QED BY <2>1, <2>2, OwedCycle
<1>3. ASSUME NEW s \in Slots, StartSlot(s) PROVE OwedInv'
  <2> DEFINE t == [slot EXCEPT ![s] = Begin(slot[s])]
  <2>1. calls = <<>> /\ Settle(t, owed) BY <1>3 DEF StartSlot, Settle, Handle
  <2>2. ASSUME NEW o \in owed PROVE o \in Debts /\ Flies(t[o.slot], o)
    <3>1. Flies(slot[o.slot], o) /\ o \in Debts /\ o.slot \in Slots BY <2>1, Flagging
    <3>2. Calm(slot[s], Begin(slot[s])) BY SlotSound, BeginGood
    <3>3. t[o.slot] = IF o.slot = s THEN Begin(slot[s]) ELSE slot[o.slot] BY <3>1 DEF IInv, SlotsInv
    <3> HIDE DEF t
    <3> QED BY <3>1, <3>2, <3>3 DEF Flies, Calm, Same
  <2> HIDE DEF t
  <2> QED BY <2>1, <2>2, SettleOwed
<1>4. ASSUME NEW s \in Slots, NEW id \in Catalog \cup {0}, Load(s, id) PROVE OwedInv'
  <2> DEFINE t == [slot EXCEPT ![s] = Fresh(id, 0)]
  <2>1. calls = <<>> /\ Settle(t, Erased(s)) BY <1>4 DEF Load, Settle, Handle
  <2>2. ASSUME NEW o \in Erased(s) PROVE o \in Debts /\ Flies(t[o.slot], o)
    <3>1. o \in owed /\ (Flies(slot[o.slot], o) => o.slot # s) BY ErasedLeaves
    <3>2. Flies(slot[o.slot], o) /\ o \in Debts /\ o.slot \in Slots BY <2>1, <3>1, Flagging
    <3>3. t[o.slot] = slot[o.slot] BY <3>1, <3>2 DEF IInv, SlotsInv
    <3> QED BY <3>2, <3>3
  <2> HIDE DEF t
  <2> QED BY <2>1, <2>2, SettleOwed
<1> QED BY <1>1, <1>2, <1>3, <1>4 DEF AbortAll, StopById, StopSlot

LEMMA OwedStep == IInv /\ OwedInv /\ [Next]_vars => OwedInv'
<1> SUFFICES ASSUME IInv, OwedInv, [Next]_vars PROVE OwedInv' OBVIOUS
<1>1. CASE GoOn
  BY <1>1, DispatchOwed, SeekOwed, ExcludeOwed, ResetOwed, PlaceOwed, LoadOwed DEF GoOn
<1>2. CASE Engine BY <1>1, <1>2, TurnOwed, CycleOwed DEF Engine
<1>3. CASE UNCHANGED vars
  BY <1>3 DEF vars, OwedInv, Secured, Coming, Flies, Dispatching, Call
<1> QED BY <1>2, <1>3, CommandOwed DEF Next

----------------------------------------------------------------------------
(* The results.                                                            *)

LEMMA InitInv == Init => IInv
<1> SUFFICES ASSUME Init PROVE IInv OBVIOUS
<1>1. SlotsInv
  <2>1. ASSUME NEW s \in Slots PROVE slot[s] \in Sound
    <3>1. Loaded[s] \in 0 .. Len(Programs) BY EngineAssumption
    <3>2. slot[s] = Resident(Loaded[s]) BY DEF Init
    <3> QED BY <3>1, <3>2, ResidentGood DEF Sound, Good
  <2>2. slot = [s \in Slots |-> slot[s]] BY DEF Init
  <2> QED BY <2>1, <2>2 DEF SlotsInv
<1>2. CallsInv BY ShortSeqs DEF Init, CallsInv
<1>3. RestInv
  <2>1. 0 \in 0 .. ActionTurn /\ 0 \in 0 .. CatalogSize /\ 0 \in 0 .. Len(Programs) BY CountsKnown
  <2>2. 0 \in 0 .. MaxInputs /\ Room \in Nat BY EngineAssumption
  <2>3. queue \in Seq(Actions) /\ Len(queue) <= Room
    <3>1. queue = <<>> BY DEF Init
    <3>2. Len(queue) = 0 /\ queue \in Seq(Actions) BY <3>1
    <3> QED BY <2>2, <3>2
  <2>4. found \in [Slots -> 0 .. Len(Programs)] BY <2>1 DEF Init, None
  <2> QED BY <2>1, <2>2, <2>3, <2>4 DEF Init, RestInv
<1>4. HeardInv /\ CommandInv BY CountsKnown DEF Init, HeardInv, CommandInv
<1> QED BY <1>1, <1>2, <1>3, <1>4 DEF IInv

LEMMA StutterStep == IInv /\ UNCHANGED vars => IInv'
<1> SUFFICES ASSUME IInv, UNCHANGED vars PROVE IInv' OBVIOUS
<1>1. SlotsInv' /\ CallsInv' /\ RestInv' /\ HeardInv'
  BY DEF vars, IInv, SlotsInv, CallsInv, RestInv, HeardInv
<1>2. CommandInv'
  BY DEF vars, IInv, CommandInv, PriorityKept, CommandCalls, CommandCall, Called, GivenUp, Outranked
<1> QED BY <1>1, <1>2 DEF IInv

LEMMA IInvStep == IInv /\ [Next]_vars => IInv'
<1> SUFFICES ASSUME IInv, [Next]_vars PROVE IInv' OBVIOUS
<1>1. CASE Engine
  BY <1>1, StartCycleStep, TurnStep, DispatchAbortsStep, ProcessActionsStep, GoOnStep DEF Engine
<1>2. CASE UNCHANGED vars BY <1>2, StutterStep
<1> QED BY <1>1, <1>2, CommandStep DEF Next

LEMMA InvHolds == Spec => [](IInv /\ OwedInv)
<1>1. Init => IInv /\ OwedInv BY InitInv DEF Init, OwedInv, Debts
<1>2. IInv /\ OwedInv /\ [Next]_vars => (IInv /\ OwedInv)' BY IInvStep, OwedStep
<1> QED BY <1>1, <1>2, PTL DEF Spec

\* For any catalog, any number of slots and any commands: the state has its
\* types, and a sequence that runs is armed and at one of its steps.
THEOREM TypeCorrect == Spec => []TypeOK
<1>1. IInv /\ OwedInv => TypeOK
  <2> SUFFICES ASSUME IInv, OwedInv PROVE TypeOK OBVIOUS
  <2>1. slot \in [Slots -> SlotRecords] BY DEF IInv, SlotsInv, Sound
  <2>2. \A s \in Slots : Running(slot[s]) => slot[s].armed /\ slot[s].step \in DOMAIN Steps(slot[s])
    BY SlotSound DEF Good, Placed
  <2>3. calls \in Seq(Calls)
    <3>1. calls \in Seq(GoodCalls) /\ GoodCalls \subseteq Calls BY DEF IInv, CallsInv, GoodCalls
    <3> QED BY <3>1
  <2> QED BY <2>1, <2>2, <2>3 DEF TypeOK, IInv, RestInv, OwedInv, Debts
<1> QED BY <1>1, InvHolds, PTL

\* A step with a timeout is over within its timeout times its tries, with any
\* delays, retries, jumps and repeats, and whatever the conditions do.
THEOREM TimeoutsHold == Spec => []StepsTimeOut
<1>1. IInv => StepsTimeOut
  <2> SUFFICES ASSUME IInv, NEW s \in Slots, Running(slot[s]), Current(slot[s]).timeout > 0
               PROVE  slot[s].age < Current(slot[s]).timeout * Tries(Current(slot[s]))
    BY DEF StepsTimeOut, Tries
  <2> DEFINE x == slot[s]  st == Current(x)
  <2>1. Good(x) /\ x \in SlotRecords BY SlotSound
  <2>2. st \in StepRecords BY <2>1, StepKnown DEF Good, Placed, Current
  <2>3. /\ x.left \in 1 .. st.timeout /\ x.retry + 1 <= Tries(st) /\ x.age + x.left <= st.timeout * (x.retry + 1)
    BY <2>1 DEF Good, Timely
  <2>4. /\ x.age \in Nat /\ x.retry + 1 \in Nat /\ st.timeout \in Nat /\ Tries(st) \in Nat
    <3>1. x.age \in Nat /\ x.retry \in Nat BY <2>1 DEF SlotRecords
    <3>2. st.timeout \in Nat /\ st.retries \in Nat BY <2>2 DEF StepRecords
    <3> HIDE DEF x, st
    <3> QED BY <3>1, <3>2 DEF Tries
  <2> HIDE DEF x, st
  <2>5. st.timeout * (x.retry + 1) <= st.timeout * Tries(st) BY <2>3, <2>4, Times
  <2>6. st.timeout * (x.retry + 1) \in Nat /\ st.timeout * Tries(st) \in Nat BY <2>4
  <2>7. x.age < st.timeout * Tries(st) BY <2>3, <2>4, <2>5, <2>6
  <2> QED BY <2>7 DEF x, st
<1> QED BY <1>1, InvHolds, PTL

\* Every abort event is sent, however many sequences stop each other while the
\* calls nest: of one that is stopped for another before the call is over, of one
\* that timed out or was stopped by command before the actions have their turn,
\* unless its slot is loaded first.
THEOREM AbortsAreSent == Spec => []AbortsSent
<1>1. IInv /\ OwedInv => AbortsSent
  <2> SUFFICES ASSUME IInv, OwedInv, calls = <<>>, NEW o \in owed
               PROVE  ~o.now /\ turn # ActionTurn /\ ~(turn = 0 /\ cycled)
    BY DEF AbortsSent
  <2>1. Flies(slot[o.slot], o) /\ o.slot \in Slots BY Flagging
  <2> QED BY <2>1 DEF Flies, IInv, HeardInv
<1> QED BY <1>1, InvHolds, PTL

\* A command that starts a sequence ends none of the same or a higher priority
\* but members of its group, and what the handlers it calls for may end.
THEOREM PrioritiesKept == Spec => []PriorityKept
<1>1. IInv => PriorityKept BY DEF IInv, CommandInv, PriorityKept
<1> QED BY <1>1, InvHolds, PTL

-----------------------------------------------------------------------------
(* The cadence of the rows.                                                *)

CONSTANTS Hz, Requests, MaxCycle

VARIABLES phase, row, cad, kth, walk, cell, walked, visits, next, expected

C == INSTANCE Cadence WITH slot <- cell

(* Products, quotients and remainders *)

LEMMA MulMono == ASSUME NEW a \in Nat, NEW b \in Nat, NEW c \in Nat, a <= b PROVE a * c <= b * c
  OBVIOUS

LEMMA DivDef ==
    ASSUME NEW x \in Nat, NEW n \in Nat \ {0}
    PROVE /\ x \div n \in Nat /\ x % n \in 0 .. n - 1
          /\ x = (x \div n) * n + (x % n)
  OBVIOUS

LEMMA Factor == ASSUME NEW a \in Int, NEW b \in Int, NEW c \in Int PROVE (a + b) * c = a * c + b * c
  OBVIOUS

LEMMA Succ == ASSUME NEW a \in Int, NEW c \in Int PROVE (a + 1) * c = a * c + c
  OBVIOUS

\* Quotient and remainder are the only ones.
LEMMA DivIs ==
    ASSUME NEW x \in Nat, NEW n \in Nat \ {0}, NEW q \in Nat, NEW a \in 0 .. n - 1, x = q * n + a
    PROVE x \div n = q /\ x % n = a
<1> DEFINE p == x \div n
           b == x % n
<1>1. p \in Nat /\ b \in 0 .. n - 1 /\ x = p * n + b BY DivDef
<1> HIDE DEF p, b
<1>2. ~(p < q)
  <2>1. ASSUME p < q PROVE FALSE
    <3>1. (p + 1) * n <= q * n BY <1>1, <2>1, MulMono
    <3>2. (p + 1) * n = p * n + n BY <1>1, Factor
    <3> QED BY <1>1, <3>1, <3>2
  <2> QED BY <2>1
<1>3. ~(q < p)
  <2>1. ASSUME q < p PROVE FALSE
    <3>1. (q + 1) * n <= p * n BY <1>1, <2>1, MulMono
    <3>2. (q + 1) * n = q * n + n BY <1>1, Factor
    <3> QED BY <1>1, <3>1, <3>2
  <2> QED BY <2>1
<1>4. p = q BY <1>1, <1>2, <1>3
<1>5. b = a BY <1>1, <1>4
<1> QED BY <1>4, <1>5 DEF p, b

-----------------------------------------------------------------------------

(* The instants of a rate *)

HzKnown == Hz \in Nat \ {0}
Rate(r) == r \in [n : Nat, d : Nat, off : Nat] /\ C!Admissible(r)

LEMMA RateFacts ==
    ASSUME HzKnown, NEW r, Rate(r)
    PROVE /\ r.n \in Nat \ {0} /\ r.d \in Nat \ {0} /\ r.off \in Nat
          /\ C!Pattern(r) \in Nat \ {0} /\ r.n <= C!Pattern(r) /\ r.off * r.n < C!Pattern(r)
          /\ C!Whole(r) \in Nat \ {0} /\ C!Pattern(r) % r.n \in 0 .. r.n - 1
          /\ C!Pattern(r) = C!Whole(r) * r.n + (C!Pattern(r) % r.n)
<1>1. r.n \in Nat \ {0} /\ r.d \in Nat \ {0} /\ r.off \in Nat /\ r.n <= C!Pattern(r)
      /\ r.off * r.n < C!Pattern(r)
  BY DEF Rate, C!Admissible
<1>2. C!Pattern(r) \in Nat /\ C!Pattern(r) # 0 BY <1>1 DEF C!Pattern, HzKnown
<1>3. /\ C!Whole(r) \in Nat /\ C!Pattern(r) % r.n \in 0 .. r.n - 1
      /\ C!Pattern(r) = C!Whole(r) * r.n + (C!Pattern(r) % r.n)
  BY <1>1, <1>2, DivDef DEF C!Whole
<1>4. C!Whole(r) # 0
  <2>1. ASSUME C!Whole(r) = 0 PROVE FALSE
    <3>1. C!Whole(r) * r.n = 0 BY <1>1, <2>1
    <3> QED BY <1>1, <1>2, <1>3, <3>1
  <2> QED BY <2>1
<1> QED BY <1>1, <1>2, <1>3, <1>4

Carried(r, k) == (k * C!Pattern(r)) % r.n
InstantCad(r, k) == C!Cad(C!Instant(r, k), Carried(r, k))

Quot(r, k) == (k * C!Pattern(r)) \div r.n

LEMMA InstantFacts ==
    ASSUME HzKnown, NEW r, Rate(r), NEW k \in Nat
    PROVE /\ Quot(r, k) \in Nat /\ Carried(r, k) \in 0 .. r.n - 1
          /\ k * C!Pattern(r) \in Nat
          /\ k * C!Pattern(r) = Quot(r, k) * r.n + Carried(r, k)
          /\ C!Instant(r, k) = r.off + Quot(r, k) /\ C!Instant(r, k) \in Nat
<1>1. /\ r.n \in Nat \ {0} /\ r.off \in Nat /\ C!Pattern(r) \in Nat BY RateFacts
<1>2. k * C!Pattern(r) \in Nat BY <1>1
<1>3. /\ Quot(r, k) \in Nat /\ Carried(r, k) \in 0 .. r.n - 1
      /\ k * C!Pattern(r) = Quot(r, k) * r.n + Carried(r, k)
  BY <1>1, <1>2, DivDef DEF Carried, Quot
<1>4. C!Instant(r, k) = r.off + Quot(r, k) BY DEF C!Instant, Quot
<1> QED BY <1>1, <1>2, <1>3, <1>4

\* What is k * Pattern in quotient and remainder is instant k.
LEMMA InstantIs ==
    ASSUME HzKnown, NEW r, Rate(r), NEW k \in Nat, NEW q \in Nat, NEW a \in 0 .. r.n - 1,
           k * C!Pattern(r) = q * r.n + a
    PROVE Quot(r, k) = q /\ C!Instant(r, k) = r.off + q /\ Carried(r, k) = a
<1>1. r.n \in Nat \ {0} /\ k * C!Pattern(r) \in Nat BY RateFacts, InstantFacts
<1> QED BY <1>1, DivIs DEF C!Instant, Quot, Carried

LEMMA AdvanceOf ==
    ASSUME HzKnown, NEW r, Rate(r), NEW at \in Nat, NEW e \in Nat
    PROVE C!Advance(r, C!Cad(at, e)) =
            IF e + (C!Pattern(r) % r.n) >= r.n
            THEN C!Cad(at + C!Whole(r) + 1, e + (C!Pattern(r) % r.n) - r.n)
            ELSE C!Cad(at + C!Whole(r), e + (C!Pattern(r) % r.n))
<1>1. C!Cad(at, e).at = at /\ C!Cad(at, e).acc = e BY DEF C!Cad
<1>2. r.n \in Nat /\ C!Pattern(r) % r.n \in Nat /\ C!Whole(r) \in Nat BY RateFacts
<1> QED BY <1>1, <1>2 DEF C!Advance

\* One advance is one instant.
LEMMA AdvanceIsNext ==
    ASSUME HzKnown, NEW r, Rate(r), NEW k \in Nat
    PROVE /\ C!Advance(r, InstantCad(r, k)) = InstantCad(r, k + 1)
          /\ C!Instant(r, k + 1) - C!Instant(r, k) - C!Whole(r) \in {0, 1}
<1> DEFINE q == Quot(r, k)
           a == Carried(r, k)
           w == C!Whole(r)
           m == C!Pattern(r) % r.n
<1>1. /\ r.n \in Nat \ {0} /\ r.off \in Nat /\ C!Pattern(r) \in Nat
      /\ w \in Nat /\ m \in 0 .. r.n - 1 /\ C!Pattern(r) = w * r.n + m
  BY RateFacts
<1>2. /\ q \in Nat /\ a \in 0 .. r.n - 1 /\ k * C!Pattern(r) = q * r.n + a
      /\ C!Instant(r, k) = r.off + q
  BY InstantFacts
<1>3. (k + 1) * C!Pattern(r) = k * C!Pattern(r) + C!Pattern(r) BY <1>1, Succ
<1>4. InstantCad(r, k) = C!Cad(r.off + q, a) BY <1>2 DEF InstantCad
<1>5. C!Advance(r, InstantCad(r, k)) =
         IF a + m >= r.n THEN C!Cad(r.off + q + w + 1, a + m - r.n) ELSE C!Cad(r.off + q + w, a + m)
  <2>1. r.off + q \in Nat /\ a \in Nat BY <1>1, <1>2
  <2> QED BY <1>4, <2>1, AdvanceOf
<1> HIDE DEF q, a, w, m
<1>6. CASE a + m >= r.n
  <2>1. (q + w + 1) * r.n = q * r.n + w * r.n + r.n
    <3>1. (q + w) * r.n = q * r.n + w * r.n BY <1>1, <1>2, Factor
    <3>2. (q + w + 1) * r.n = (q + w) * r.n + r.n BY <1>1, <1>2, Succ
    <3> QED BY <3>1, <3>2
  <2>2. (k + 1) * C!Pattern(r) = (q + w + 1) * r.n + (a + m - r.n)
    BY <1>1, <1>2, <1>3, <2>1
  <2>3. q + w + 1 \in Nat /\ a + m - r.n \in 0 .. r.n - 1 BY <1>1, <1>2, <1>6
  <2>4. C!Instant(r, k + 1) = r.off + (q + w + 1) /\ Carried(r, k + 1) = a + m - r.n
    BY <2>2, <2>3, InstantIs
  <2>5. C!Instant(r, k + 1) = r.off + q + w + 1 /\ C!Instant(r, k + 1) - C!Instant(r, k) - w = 1
    BY <1>1, <1>2, <2>4
  <2> QED BY <1>5, <1>6, <2>4, <2>5 DEF InstantCad, w
<1>7. CASE ~(a + m >= r.n)
  <2>1. (q + w) * r.n = q * r.n + w * r.n BY <1>1, <1>2, Factor
  <2>2. (k + 1) * C!Pattern(r) = (q + w) * r.n + (a + m) BY <1>1, <1>2, <1>3, <2>1
  <2>3. q + w \in Nat /\ a + m \in 0 .. r.n - 1 BY <1>1, <1>2, <1>7
  <2>4. C!Instant(r, k + 1) = r.off + (q + w) /\ Carried(r, k + 1) = a + m
    BY <2>2, <2>3, InstantIs
  <2>5. C!Instant(r, k + 1) = r.off + q + w /\ C!Instant(r, k + 1) - C!Instant(r, k) - w = 0
    BY <1>1, <1>2, <2>4
  <2> QED BY <1>5, <1>7, <2>4, <2>5 DEF InstantCad, w
<1> QED BY <1>6, <1>7

\* Instants are strictly increasing, so the k-th is not before cycle k.
LEMMA InstantsIncrease ==
    ASSUME HzKnown, NEW r, Rate(r), NEW j \in Nat, NEW k \in Nat, j < k
    PROVE C!Instant(r, j) < C!Instant(r, k)
<1> DEFINE p == Quot(r, j)
           q == Quot(r, k)
<1>1. /\ r.n \in Nat \ {0} /\ r.off \in Nat /\ C!Pattern(r) \in Nat /\ r.n <= C!Pattern(r)
  BY RateFacts
<1>2. /\ p \in Nat /\ j * C!Pattern(r) = p * r.n + Carried(r, j) /\ Carried(r, j) \in 0 .. r.n - 1
      /\ q \in Nat /\ k * C!Pattern(r) = q * r.n + Carried(r, k) /\ Carried(r, k) \in 0 .. r.n - 1
      /\ C!Instant(r, j) = r.off + p /\ C!Instant(r, k) = r.off + q
  BY InstantFacts
<1> HIDE DEF p, q
<1>3. (j + 1) * C!Pattern(r) <= k * C!Pattern(r) BY <1>1, MulMono
<1>4. (j + 1) * C!Pattern(r) = j * C!Pattern(r) + C!Pattern(r) BY <1>1, Succ
<1>5. ASSUME q <= p PROVE FALSE
  <2>1. q * r.n <= p * r.n BY <1>1, <1>2, <1>5, MulMono
  <2> QED BY <1>1, <1>2, <1>3, <1>4, <2>1
<1> QED BY <1>1, <1>2, <1>5

LEMMA InstantsLead ==
    ASSUME HzKnown, NEW r, Rate(r), NEW k \in Nat
    PROVE k <= C!Instant(r, k)
<1> DEFINE q == Quot(r, k)
<1>1. /\ r.n \in Nat \ {0} /\ r.off \in Nat /\ C!Pattern(r) \in Nat /\ r.n <= C!Pattern(r)
  BY RateFacts
<1>2. /\ q \in Nat /\ k * C!Pattern(r) = q * r.n + Carried(r, k) /\ Carried(r, k) \in 0 .. r.n - 1
      /\ C!Instant(r, k) = r.off + q
  BY InstantFacts
<1> HIDE DEF q
<1>3. k * r.n <= k * C!Pattern(r)
  <2>1. r.n * k <= C!Pattern(r) * k BY <1>1, MulMono
  <2> QED BY <1>1, <2>1
<1>4. ASSUME q + 1 <= k PROVE FALSE
  <2>1. (q + 1) * r.n <= k * r.n BY <1>1, <1>2, <1>4, MulMono
  <2>3. q \in Int /\ r.n \in Int BY <1>1, <1>2
  <2>2. (q + 1) * r.n = q * r.n + r.n BY <2>3, Succ
  <2> QED BY <1>1, <1>2, <1>3, <2>1, <2>2
<1> QED BY <1>1, <1>2, <1>4

-----------------------------------------------------------------------------
(* A row added at any cycle *)

LEMMA InstantZero ==
    ASSUME HzKnown, NEW r, Rate(r)
    PROVE C!Instant(r, 0) = r.off /\ InstantCad(r, 0) = C!CadInit(r)
<1>1. r.n \in Nat \ {0} /\ C!Pattern(r) \in Nat /\ r.off \in Nat BY RateFacts
<1>2. 0 * C!Pattern(r) = 0 * r.n + 0 BY <1>1
<1>3. C!Instant(r, 0) = r.off + 0 /\ Carried(r, 0) = 0 BY <1>1, <1>2, InstantIs
<1>4. C!Instant(r, 0) = r.off BY <1>1, <1>3
<1> QED BY <1>3, <1>4 DEF InstantCad, C!CadInit

\* initAt finds the earliest instant that is not before the cycle.
LEMMA InitAtIsFirst ==
    ASSUME HzKnown, NEW r, Rate(r), NEW cycle \in Nat
    PROVE /\ C!FirstAt(r, cycle) \in Nat
          /\ C!InitAt(r, cycle) = InstantCad(r, C!FirstAt(r, cycle))
          /\ cycle <= C!Instant(r, C!FirstAt(r, cycle))
          /\ C!FirstAt(r, cycle) # 0 => C!Instant(r, C!FirstAt(r, cycle) - 1) < cycle
<1>1. /\ r.n \in Nat \ {0} /\ r.off \in Nat /\ C!Pattern(r) \in Nat \ {0} BY RateFacts
<1>2. CASE cycle <= r.off
  <2>1. C!FirstAt(r, cycle) = 0 /\ C!InitAt(r, cycle) = C!CadInit(r) BY <1>2 DEF C!FirstAt, C!InitAt
  <2> QED BY <1>2, <2>1, InstantZero
<1>3. CASE ~(cycle <= r.off)
  <2> DEFINE g == cycle - r.off
             need == g * r.n
             x == need + C!Pattern(r) - 1
             k == C!FirstAt(r, cycle)
             b == x % C!Pattern(r)
  <2>1. g \in Nat /\ g > 0 /\ cycle = r.off + g BY <1>1, <1>3
  <2>2. need \in Nat /\ need > 0
    <3>1. 1 * r.n <= g * r.n BY <1>1, <2>1, MulMono
    <3>2. need \in Nat BY <1>1, <2>1
    <3> QED BY <1>1, <3>1, <3>2
  <2>3. x \in Nat /\ k = x \div C!Pattern(r)
    BY <1>1, <1>3, <2>2 DEF C!FirstAt
  <2>4. k \in Nat /\ b \in 0 .. C!Pattern(r) - 1 /\ need + C!Pattern(r) - 1 = k * C!Pattern(r) + b
    BY <1>1, <2>3, DivDef
  <2>5. C!InitAt(r, cycle) = InstantCad(r, k)
    BY <1>3 DEF C!InitAt, InstantCad, C!Instant, Carried
  <2>6. need = g * r.n OBVIOUS
  <2> HIDE DEF g, need, x, k, b
  <2>7. k * C!Pattern(r) \in Nat /\ need <= k * C!Pattern(r) BY <1>1, <2>2, <2>4
  <2>8. k # 0
    <3>1. ASSUME k = 0 PROVE FALSE
      <4>1. k * C!Pattern(r) = 0 BY <1>1, <3>1
      <4> QED BY <2>2, <2>7, <4>1
    <3> QED BY <3>1
  <2>9. k - 1 \in Nat /\ (k - 1) * C!Pattern(r) < need
    <3>1. k - 1 \in Int /\ k - 1 \in Nat BY <2>4, <2>8
    <3>2. ((k - 1) + 1) * C!Pattern(r) = (k - 1) * C!Pattern(r) + C!Pattern(r) BY <1>1, <3>1, Succ
    <3>3. (k - 1) + 1 = k BY <2>4
    <3>4. (k - 1) * C!Pattern(r) \in Int BY <1>1, <3>1
    <3> QED BY <1>1, <2>2, <2>4, <2>7, <3>1, <3>2, <3>3, <3>4
  <2>10. cycle <= C!Instant(r, k)
    <3> DEFINE q == Quot(r, k)
    <3>1. /\ q \in Nat /\ k * C!Pattern(r) = q * r.n + Carried(r, k) /\ Carried(r, k) \in 0 .. r.n - 1
          /\ C!Instant(r, k) = r.off + q
      BY <2>4, InstantFacts
    <3> HIDE DEF q
    <3>2. ASSUME q + 1 <= g PROVE FALSE
      <4>1. (q + 1) * r.n <= g * r.n BY <1>1, <2>1, <3>1, <3>2, MulMono
      <4>2. (q + 1) * r.n = q * r.n + r.n BY <1>1, <3>1, Succ
      <4> QED BY <1>1, <2>2, <2>6, <2>7, <3>1, <4>1, <4>2
    <3> QED BY <1>1, <2>1, <3>1, <3>2
  <2>11. C!Instant(r, k - 1) < cycle
    <3> DEFINE q == Quot(r, k - 1)
    <3>1. /\ q \in Nat /\ (k - 1) * C!Pattern(r) = q * r.n + Carried(r, k - 1)
          /\ Carried(r, k - 1) \in 0 .. r.n - 1 /\ C!Instant(r, k - 1) = r.off + q
      BY <2>9, InstantFacts
    <3> HIDE DEF q
    <3>2. ASSUME g <= q PROVE FALSE
      <4>1. g * r.n <= q * r.n BY <1>1, <2>1, <3>1, <3>2, MulMono
      <4> QED BY <1>1, <2>2, <2>6, <2>9, <3>1, <4>1
    <3> QED BY <1>1, <2>1, <3>1, <3>2
  <2> QED BY <2>4, <2>5, <2>8, <2>10, <2>11 DEF k
<1> QED BY <1>2, <1>3

-----------------------------------------------------------------------------
(* The pattern repeats, and one pass of it fits in its period *)

\* n runs later, one pattern later.
LEMMA PatternRepeats ==
    ASSUME HzKnown, NEW r, Rate(r), NEW p \in Nat, NEW j \in Nat
    PROVE p * r.n + j \in Nat /\ C!Instant(r, p * r.n + j) = C!Instant(r, j) + p * C!Pattern(r)
<1> DEFINE q == Quot(r, j)
           a == Carried(r, j)
           k == p * r.n + j
           P == C!Pattern(r)
<1>1. /\ r.n \in Nat \ {0} /\ r.off \in Nat /\ P \in Nat BY RateFacts
<1>2. /\ q \in Nat /\ a \in 0 .. r.n - 1 /\ j * P = q * r.n + a /\ C!Instant(r, j) = r.off + q
  BY InstantFacts
<1>3. p * r.n \in Nat /\ k \in Nat /\ p * P \in Nat BY <1>1
<1>4. k * P = (p * r.n) * P + j * P BY <1>1, <1>3, Factor
<1>5. (p * r.n) * P = (p * P) * r.n BY <1>1
<1>6. (p * P + q) * r.n = (p * P) * r.n + q * r.n BY <1>1, <1>2, <1>3, Factor
<1>7. k * P = (p * P + q) * r.n + a /\ p * P + q \in Nat
  <2>1. (p * P) * r.n \in Nat /\ q * r.n \in Nat BY <1>1, <1>2, <1>3
  <2> HIDE DEF k, q, a, P
  <2> QED BY <1>1, <1>2, <1>3, <1>4, <1>5, <1>6, <2>1
<1>8. C!Instant(r, k) = r.off + (p * P + q)
  <2> HIDE DEF k, q
  <2> QED BY <1>2, <1>3, <1>7, InstantIs DEF P
<1> HIDE DEF q, P
<1> QED BY <1>1, <1>2, <1>3, <1>8 DEF P

\* The offset lies in the first period, so the n runs of a pass do in the pattern.
LEMMA PassFits ==
    ASSUME HzKnown, NEW r, Rate(r), NEW j \in Nat, j < r.n
    PROVE C!Instant(r, j) < C!Pattern(r)
<1> DEFINE q == Quot(r, j)
           a == Carried(r, j)
           P == C!Pattern(r)
<1>1. /\ r.n \in Nat \ {0} /\ r.off \in Nat /\ P \in Nat /\ r.off * r.n < P BY RateFacts
<1>2. /\ q \in Nat /\ a \in 0 .. r.n - 1 /\ j * P = q * r.n + a /\ C!Instant(r, j) = r.off + q
  BY InstantFacts
<1> HIDE DEF q, a, P
<1>3. ASSUME P <= r.off + q PROVE FALSE
  <2>1. P * r.n <= (r.off + q) * r.n BY <1>1, <1>2, <1>3, MulMono
  <2>2. (r.off + q) * r.n = r.off * r.n + q * r.n BY <1>1, <1>2, Factor
  <2>3. (j + 1) * P <= r.n * P BY <1>1, MulMono
  <2>4. (j + 1) * P = j * P + P BY <1>1, Succ
  <2>5. r.n * P = P * r.n BY <1>1
  <2>6. q * r.n \in Nat /\ r.off * r.n \in Nat /\ P * r.n \in Nat /\ j * P \in Nat BY <1>1, <1>2
  <2> QED BY <1>1, <1>2, <2>1, <2>2, <2>3, <2>4, <2>5, <2>6
<1> QED BY <1>1, <1>2, <1>3 DEF P

\* A remainder stepped by a remainder and a carry, with one subtraction.
LEMMA ModStep ==
    ASSUME NEW n \in Nat \ {0}, NEW x \in Nat, NEW w \in Nat, NEW c \in {0, 1}
    PROVE (x + w + c) % n = IF (x % n) + (w % n) + c >= n THEN (x % n) + (w % n) + c - n
                            ELSE (x % n) + (w % n) + c
<1> DEFINE p == x \div n
           q == w \div n
           a == x % n
           b == w % n
<1>1. /\ p \in Nat /\ q \in Nat /\ a \in 0 .. n - 1 /\ b \in 0 .. n - 1
      /\ x = p * n + a /\ w = q * n + b
  BY DivDef
<1> HIDE DEF p, q, a, b
<1>2. (p + q) * n = p * n + q * n /\ p * n \in Nat /\ q * n \in Nat BY <1>1, Factor
<1>3. (p + q + 1) * n = (p + q) * n + n BY <1>1, Succ
<1>4. CASE a + b + c >= n
  <2>1. x + w + c = (p + q + 1) * n + (a + b + c - n) BY <1>1, <1>2, <1>3
  <2>2. p + q + 1 \in Nat /\ a + b + c - n \in 0 .. n - 1 /\ x + w + c \in Nat BY <1>1, <1>4
  <2>3. (x + w + c) % n = a + b + c - n BY <2>1, <2>2, DivIs
  <2> QED BY <1>4, <2>3 DEF a, b
<1>5. CASE ~(a + b + c >= n)
  <2>1. x + w + c = (p + q) * n + (a + b + c) BY <1>1, <1>2
  <2>2. p + q \in Nat /\ a + b + c \in 0 .. n - 1 /\ x + w + c \in Nat BY <1>1, <1>5
  <2>3. (x + w + c) % n = a + b + c BY <2>1, <2>2, DivIs
  <2> QED BY <1>5, <2>3 DEF a, b
<1> QED BY <1>4, <1>5

LEMMA ModSame ==
    ASSUME NEW n \in Nat \ {0}, NEW x \in Nat, NEW q \in Nat
    PROVE (x + q * n) % n = x % n
<1> DEFINE p == x \div n
           a == x % n
<1>1. p \in Nat /\ a \in 0 .. n - 1 /\ x = p * n + a BY DivDef
<1> HIDE DEF p, a
<1>2. (p + q) * n = p * n + q * n /\ p * n \in Nat /\ q * n \in Nat BY <1>1, Factor
<1>3. x + q * n = (p + q) * n + a /\ x + q * n \in Nat /\ p + q \in Nat BY <1>1, <1>2
<1>4. (x + q * n) % n = a BY <1>1, <1>3, DivIs
<1> QED BY <1>4 DEF a

-----------------------------------------------------------------------------
(* The inductive invariant *)

RequestsKnown == Requests \subseteq [n : Nat, d : Nat, off : Nat] /\ MaxCycle \in Nat

\* The next run is the first one that no dispatch has consumed or passed over.
FirstLeft ==
    phase # "none" =>
        /\ cad = InstantCad(row, kth)
        /\ kth # 0 => C!Instant(row, kth - 1) < next
        /\ phase = "placing" => C!Leads

WalkInv ==
    phase = "placing" => walk = InstantCad(row, walked) /\ cell = C!Instant(row, walked) % Hz

\* A slot names the row if one of the instants placed so far falls on it.
SlotInv ==
    /\ walked <= row.n
    /\ phase = "placed" => walked = row.n
    /\ \A s \in C!Slots :
          visits[s] = IF phase # "none" /\ \E i \in 0 .. walked - 1 : C!Instant(row, i) % Hz = s
                      THEN 1 ELSE 0

TickInv == expected = next % Hz

GridInv == C!TypeOK /\ FirstLeft /\ WalkInv /\ SlotInv /\ TickInv

LEMMA ModType == ASSUME HzKnown, NEW x \in Nat PROVE x % Hz \in C!Slots
  BY DivDef DEF HzKnown, C!Slots

LEMMA GridInit == ASSUME HzKnown, C!Init PROVE GridInv
<1> USE DEF C!Init, HzKnown
<1>1. C!TypeOK
  <2>1. C!Admissible(row) BY DEF C!Admissible, C!Pattern
  <2>2. 0 \in C!Slots BY DEF C!Slots
  <2> QED BY <2>1, <2>2 DEF C!TypeOK, C!Cad, C!CadType
<1>2. FirstLeft /\ WalkInv BY DEF FirstLeft, WalkInv
<1>3. SlotInv BY DEF SlotInv
<1>4. TickInv
  <2>1. 0 = 0 * Hz + 0 BY DEF HzKnown
  <2>2. 0 % Hz = 0 BY <2>1, DivIs
  <2> QED BY <2>2 DEF TickInv
<1> QED BY <1>1, <1>2, <1>3, <1>4 DEF GridInv

LEMMA InstantCadType ==
    ASSUME HzKnown, NEW r, Rate(r), NEW k \in Nat
    PROVE InstantCad(r, k) \in C!CadType /\ InstantCad(r, k).at = C!Instant(r, k)
<1>1. r.n \in Nat \ {0} BY RateFacts
<1>2. C!Instant(r, k) \in Nat /\ Carried(r, k) \in 0 .. r.n - 1 BY InstantFacts
<1> QED BY <1>1, <1>2 DEF InstantCad, C!Cad, C!CadType

LEMMA AddStep ==
    ASSUME HzKnown, RequestsKnown, GridInv, NEW r \in Requests, C!Add(r) PROVE GridInv'
<1> USE DEF HzKnown
<1>1. /\ phase = "none" /\ Rate(r) /\ phase' = "placing" /\ row' = r
      /\ cad' = C!InitAt(r, next) /\ kth' = C!FirstAt(r, next)
      /\ walk' = C!CadInit(r) /\ cell' = r.off % Hz /\ walked' = 0
      /\ visits' = visits /\ next' = next /\ expected' = expected
  BY DEF C!Add, Rate, RequestsKnown
<1>2. next \in Nat /\ r.off \in Nat /\ r.n \in Nat \ {0}
  BY <1>1, RateFacts DEF GridInv, C!TypeOK
<1>3. /\ kth' \in Nat /\ cad' = InstantCad(row', kth') /\ next' <= C!Instant(row', kth')
      /\ kth' # 0 => C!Instant(row', kth' - 1) < next'
  BY <1>1, <1>2, InitAtIsFirst
<1>4. cad' \in C!CadType /\ cad'.at = C!Instant(row', kth') BY <1>1, <1>3, InstantCadType
<1>5. walk' = InstantCad(row', 0) /\ cell' = C!Instant(row', 0) % Hz BY <1>1, InstantZero
<1>6. walk' \in C!CadType BY <1>1, <1>5, InstantCadType
<1>7. C!TypeOK'
  <2>1. cell' \in C!Slots BY <1>1, <1>2, ModType
  <2>2. row' \in [n : Nat, d : Nat, off : Nat] /\ C!Admissible(row)' BY <1>1 DEF Rate, C!Admissible, C!Pattern
  <2> QED BY <1>1, <1>3, <1>4, <1>6, <2>1, <2>2 DEF C!TypeOK, GridInv
<1>8. FirstLeft'
  <2>1. C!Leads' BY <1>3, <1>4 DEF C!Leads
  <2> QED BY <1>1, <1>3, <2>1 DEF FirstLeft, InstantCad, C!Instant, Carried, C!Pattern
<1>9. WalkInv' BY <1>1, <1>5 DEF WalkInv, InstantCad, C!Instant, Carried, C!Pattern
<1>10. SlotInv'
  <2>1. \A s \in C!Slots : visits[s] = 0 BY <1>1 DEF GridInv, SlotInv
  <2>2. 0 .. walked' - 1 = {} BY <1>1
  <2> QED BY <1>1, <1>2, <2>1, <2>2 DEF SlotInv
<1>11. TickInv' BY <1>1 DEF TickInv, GridInv
<1> QED BY <1>7, <1>8, <1>9, <1>10, <1>11 DEF GridInv

\* The walk's slot follows its instant without a division.
LEMMA SteppedIsSlot ==
    ASSUME HzKnown, GridInv, phase = "placing"
    PROVE C!Stepped = C!Instant(row, walked + 1) % Hz
<1> DEFINE x == C!Instant(row, walked)
           w == C!Whole(row)
           c == C!Instant(row, walked + 1) - x - w
<1>1. Rate(row) /\ walked \in Nat BY DEF GridInv, C!TypeOK, Rate
<1>2. x \in Nat /\ w \in Nat /\ C!Instant(row, walked + 1) \in Nat /\ c \in {0, 1}
  <2>1. walked + 1 \in Nat BY <1>1
  <2>2. x \in Nat /\ C!Instant(row, walked + 1) \in Nat BY <1>1, <2>1, InstantFacts
  <2>3. w \in Nat BY <1>1, RateFacts
  <2>4. c \in {0, 1} BY <1>1, AdvanceIsNext
  <2> QED BY <2>2, <2>3, <2>4
<1>3. walk = InstantCad(row, walked) /\ cell = x % Hz BY DEF GridInv, WalkInv
<1>4. walk.at = x /\ C!Advance(row, walk).at = C!Instant(row, walked + 1)
  BY <1>1, <1>3, AdvanceIsNext, InstantCadType
<1>5. C!Stepped = C!Wrap((x % Hz) + (w % Hz) + c)
  <2>1. C!Carry = c BY <1>4 DEF C!Carry
  <2> QED BY <1>3, <2>1 DEF C!Stepped
<1>6. C!Instant(row, walked + 1) = x + w + c BY <1>2
<1>7. Hz \in Nat \ {0} BY DEF HzKnown
<1> HIDE DEF x, w, c
<1>8. (x + w + c) % Hz = IF (x % Hz) + (w % Hz) + c >= Hz THEN (x % Hz) + (w % Hz) + c - Hz
                         ELSE (x % Hz) + (w % Hz) + c
  BY <1>2, <1>7, ModStep
<1>9. x % Hz \in Nat /\ w % Hz \in Nat BY <1>2, <1>7, DivDef
<1> QED BY <1>2, <1>5, <1>6, <1>7, <1>8, <1>9 DEF C!Wrap

\* In a pattern of one second no two instants of a pass share a slot.
LEMMA SlotIsFree ==
    ASSUME HzKnown, GridInv, phase = "placing", walked < row.n, ~C!Gated(row)
    PROVE visits[cell] = 0
<1>1. Rate(row) /\ walked \in Nat /\ cell \in C!Slots BY DEF GridInv, C!TypeOK, Rate
<1>2. C!Pattern(row) = Hz BY <1>1, RateFacts DEF C!Gated, C!Pattern, HzKnown
<1>3. ASSUME NEW j \in Nat, j <= walked PROVE C!Instant(row, j) % Hz = C!Instant(row, j)
  <2>1. C!Instant(row, j) \in 0 .. Hz - 1 /\ Hz \in Nat \ {0}
    <3>1. j < row.n BY <1>1, <1>3, RateFacts
    <3>2. C!Instant(row, j) < Hz BY <1>1, <1>2, <3>1, PassFits
    <3>3. C!Instant(row, j) \in Nat /\ Hz \in Nat \ {0} BY <1>1, InstantFacts DEF HzKnown
    <3> QED BY <3>2, <3>3
  <2>2. C!Instant(row, j) = 0 * Hz + C!Instant(row, j) BY <2>1
  <2> QED BY <2>1, <2>2, DivIs
<1>4. cell = C!Instant(row, walked) BY <1>1, <1>3 DEF GridInv, WalkInv
<1>5. ~ \E i \in 0 .. walked - 1 : C!Instant(row, i) % Hz = cell
  <2>1. SUFFICES ASSUME NEW i \in 0 .. walked - 1 PROVE C!Instant(row, i) % Hz # cell
    OBVIOUS
  <2>2. i \in Nat /\ i < walked BY <1>1
  <2>3. C!Instant(row, i) < C!Instant(row, walked) /\ C!Instant(row, i) \in Nat /\ C!Instant(row, walked) \in Nat
    BY <1>1, <2>2, InstantsIncrease, InstantFacts
  <2>4. C!Instant(row, i) % Hz = C!Instant(row, i) BY <1>1, <1>3, <2>2
  <2> QED BY <1>4, <2>3, <2>4
<1> QED BY <1>1, <1>5 DEF GridInv, SlotInv

LEMMA WalkStep == ASSUME HzKnown, GridInv, C!Place PROVE GridInv'
<1>1. /\ phase = "placing" /\ walked < row.n /\ phase' = phase /\ row' = row
      /\ walk' = C!Advance(row, walk) /\ cell' = C!Stepped /\ walked' = walked + 1
      /\ cad' = cad /\ kth' = kth /\ next' = next /\ expected' = expected
  BY DEF C!Place
<1>2. Rate(row) /\ walked \in Nat /\ cell \in C!Slots /\ row.n \in Nat BY DEF GridInv, C!TypeOK, Rate
<1>3. walk' = InstantCad(row, walked + 1)
  BY <1>1, <1>2, AdvanceIsNext DEF GridInv, WalkInv
<1>4. cell' = C!Instant(row, walked + 1) % Hz BY <1>1, SteppedIsSlot
<1>5. visits' = [visits EXCEPT ![cell] = 1]
  <2>1. CASE C!Gated(row) BY <2>1 DEF C!Place
  <2>2. CASE ~C!Gated(row)
    <3>1. visits[cell] = 0 BY <1>1, <2>2, SlotIsFree
    <3>2. visits' = [visits EXCEPT ![cell] = visits[cell] + 1] BY <2>2 DEF C!Place
    <3> QED BY <3>1, <3>2
  <2> QED BY <2>1, <2>2
<1>6. C!TypeOK'
  <2>1. walk' \in C!CadType BY <1>2, <1>3, InstantCadType
  <2>2. cell' \in C!Slots BY <1>2, <1>4, ModType, InstantFacts
  <2>3. visits' \in [C!Slots -> Nat] BY <1>5 DEF GridInv, C!TypeOK
  <2> QED BY <1>1, <1>2, <2>1, <2>2, <2>3 DEF GridInv, C!TypeOK, C!Admissible, C!Pattern
<1>7. FirstLeft' BY <1>1 DEF GridInv, FirstLeft, C!Leads, InstantCad, C!Instant, Carried, C!Pattern
<1>8. WalkInv' BY <1>1, <1>3, <1>4 DEF WalkInv, InstantCad, C!Instant, Carried, C!Pattern
<1>9. SlotInv'
  <2>1. walked' <= row'.n /\ phase' # "placed" BY <1>1, <1>2
  <2>2. ASSUME NEW s \in C!Slots
        PROVE visits'[s] = IF \E i \in 0 .. walked : C!Instant(row, i) % Hz = s THEN 1 ELSE 0
    <3>1. visits[s] = IF \E i \in 0 .. walked - 1 : C!Instant(row, i) % Hz = s THEN 1 ELSE 0
      BY <1>1 DEF GridInv, SlotInv
    <3>2. visits'[s] = IF s = cell THEN 1 ELSE visits[s] BY <1>5 DEF GridInv, C!TypeOK
    <3>3. cell = C!Instant(row, walked) % Hz BY <1>1 DEF GridInv, WalkInv
    <3>4. 0 .. walked = (0 .. walked - 1) \cup {walked} BY <1>2
    <3> QED BY <3>1, <3>2, <3>3, <3>4
  <2>3. walked' - 1 = walked /\ \A i : C!Instant(row', i) = C!Instant(row, i) BY <1>1, <1>2
  <2> QED BY <1>1, <2>1, <2>2, <2>3 DEF SlotInv
<1>10. TickInv' BY <1>1 DEF GridInv, TickInv
<1> QED BY <1>6, <1>7, <1>8, <1>9, <1>10 DEF GridInv

LEMMA PlacedStep == ASSUME HzKnown, GridInv, C!Placed PROVE GridInv'
<1>1. /\ phase = "placing" /\ walked = row.n /\ phase' = "placed"
      /\ UNCHANGED <<row, cad, kth, walk, cell, walked, visits, next, expected>>
  BY DEF C!Placed, C!walkVars
<1>2. C!TypeOK' BY <1>1 DEF GridInv, C!TypeOK, C!Admissible, C!Pattern
<1>3. FirstLeft' BY <1>1 DEF GridInv, FirstLeft, InstantCad, C!Instant, Carried, C!Pattern
<1>4. SlotInv' BY <1>1 DEF GridInv, SlotInv, C!Instant, C!Pattern
<1> QED BY <1>1, <1>2, <1>3, <1>4 DEF GridInv, WalkInv, TickInv

LEMMA ClearStep == ASSUME HzKnown, GridInv, C!Clear PROVE GridInv'
<1>1. /\ phase' = "none" /\ visits' = [s \in C!Slots |-> 0]
      /\ UNCHANGED <<row, cad, kth, walk, cell, walked, next, expected>>
  BY DEF C!Clear, C!walkVars
<1>2. C!TypeOK' BY <1>1 DEF GridInv, C!TypeOK, C!Admissible, C!Pattern
<1>3. SlotInv' BY <1>1 DEF GridInv, SlotInv
<1> QED BY <1>1, <1>2, <1>3 DEF GridInv, FirstLeft, WalkInv, TickInv

\* The index carried forward is the cycle's.
LEMMA TickIsIndex == ASSUME HzKnown, GridInv, NEW cycle PROVE C!TickOf(cycle) = cycle % Hz
  BY DEF GridInv, TickInv, C!TickOf

LEMMA CycleStep ==
    ASSUME HzKnown, RequestsKnown, GridInv, NEW cycle \in 0 .. MaxCycle, C!Dispatch(cycle) PROVE GridInv'
<1>1. /\ phase # "placing" /\ cycle >= next /\ next' = cycle + 1
      /\ expected' = IF C!TickOf(cycle) + 1 >= Hz THEN 0 ELSE C!TickOf(cycle) + 1
      /\ UNCHANGED <<phase, row, walk, cell, walked, visits>>
  BY DEF C!Dispatch, C!walkVars
<1>2. cycle \in Nat /\ next \in Nat /\ Rate(row) /\ kth \in Nat
  BY DEF RequestsKnown, GridInv, C!TypeOK, Rate
<1>3. expected' = (cycle + 1) % Hz /\ expected' \in C!Slots
  <2>1. Hz \in Nat \ {0} BY DEF HzKnown
  <2>2. 0 = 0 * Hz + 0 BY <2>1
  <2>3. 0 % Hz = 0 BY <2>1, <2>2, DivIs
  <2>4. cycle % Hz \in 0 .. Hz - 1 BY <1>2, <2>1, DivDef
  <2>5. (cycle + 0 + 1) % Hz = IF (cycle % Hz) + (0 % Hz) + 1 >= Hz THEN (cycle % Hz) + (0 % Hz) + 1 - Hz
                               ELSE (cycle % Hz) + (0 % Hz) + 1
    BY <1>2, <2>1, ModStep
  <2>6. C!TickOf(cycle) = cycle % Hz BY TickIsIndex
  <2>7. cycle + 0 + 1 = cycle + 1 BY <1>2
  <2>8. expected' = (cycle + 1) % Hz
    <3> HIDE DEF C!Dispatch
    <3>1. (cycle % Hz) + 1 <= Hz BY <2>1, <2>4
    <3> QED BY <1>1, <2>1, <2>3, <2>4, <2>5, <2>6, <2>7
  <2> QED BY <1>2, <2>8, ModType
<1>4. CASE C!RunsOn(cycle) /\ C!Gated(row)
  <2>1. phase = "placed" /\ cad' = C!Advance(row, cad) /\ kth' = kth + 1 /\ cycle >= cad.at
    BY <1>4 DEF C!Dispatch, C!RunsOn, C!Visited, C!Due
  <2>2. cad = InstantCad(row, kth) BY <2>1 DEF GridInv, FirstLeft
  <2>3. cad' = InstantCad(row, kth + 1) /\ cad.at = C!Instant(row, kth)
    BY <1>2, <2>1, <2>2, AdvanceIsNext, InstantCadType
  <2>4. cad' \in C!CadType BY <1>2, <2>3, InstantCadType
  <2>5. C!Instant(row, kth) \in Nat /\ C!Instant(row, kth) < next' BY <1>1, <1>2, <2>1, <2>3, InstantFacts
  <2>6. C!TypeOK' BY <1>1, <1>2, <1>3, <2>1, <2>4 DEF GridInv, C!TypeOK, C!Admissible, C!Pattern
  <2>7. FirstLeft'
    <3>1. kth' - 1 = kth BY <1>2, <2>1
    <3> QED BY <1>1, <2>1, <2>3, <2>5, <3>1 DEF FirstLeft, InstantCad, C!Instant, Carried, C!Pattern
  <2>8. SlotInv' BY <1>1 DEF GridInv, SlotInv, C!Instant, C!Pattern
  <2> QED BY <1>1, <1>3, <2>1, <2>6, <2>7, <2>8 DEF GridInv, WalkInv, TickInv
<1>5. CASE ~(C!RunsOn(cycle) /\ C!Gated(row))
  <2>1. cad' = cad /\ kth' = kth BY <1>5 DEF C!Dispatch
  <2>2. C!TypeOK' BY <1>1, <1>2, <1>3, <2>1 DEF GridInv, C!TypeOK, C!Admissible, C!Pattern
  <2>3. FirstLeft'
    <3>1. ASSUME phase # "none", kth # 0 PROVE C!Instant(row, kth - 1) < next'
      <4>1. C!Instant(row, kth - 1) < next /\ kth - 1 \in Nat BY <1>2, <3>1 DEF GridInv, FirstLeft
      <4>2. C!Instant(row, kth - 1) \in Nat BY <1>2, <4>1, InstantFacts
      <4> QED BY <1>1, <1>2, <4>1, <4>2
    <3> QED BY <1>1, <2>1, <3>1 DEF GridInv, FirstLeft, InstantCad, C!Instant, Carried, C!Pattern
  <2>4. SlotInv' BY <1>1 DEF GridInv, SlotInv, C!Instant, C!Pattern
  <2> QED BY <1>1, <1>3, <2>1, <2>2, <2>3, <2>4 DEF GridInv, WalkInv, TickInv
<1> QED BY <1>4, <1>5

LEMMA GridStep == ASSUME HzKnown, RequestsKnown, GridInv, [C!Next]_(C!vars) PROVE GridInv'
<1>1. CASE UNCHANGED C!vars
  <2>1. UNCHANGED <<phase, row, cad, kth, walk, cell, walked, visits, next, expected>>
    BY <1>1 DEF C!vars, C!walkVars
  <2> QED
    BY <2>1 DEF GridInv, C!TypeOK, FirstLeft, WalkInv, SlotInv, TickInv, C!Leads, InstantCad, C!Instant,
                Carried, C!Pattern, C!Admissible
<1> QED BY <1>1, AddStep, WalkStep, PlacedStep, ClearStep, CycleStep DEF C!Next

-----------------------------------------------------------------------------
(* What the invariant says of the runs *)

\* Every instant falls on a slot of the first pass.
LEMMA InstantIsVisited ==
    ASSUME HzKnown, GridInv, phase = "placed", NEW k \in Nat
    PROVE C!Visited(C!Instant(row, k))
<1> DEFINE p == k \div row.n
           j == k % row.n
<1>1. /\ Rate(row) /\ row.n \in Nat \ {0} /\ row.d \in Nat /\ C!Pattern(row) = Hz * row.d
      /\ Hz \in Nat \ {0}
  BY RateFacts DEF GridInv, C!TypeOK, Rate, C!Pattern, HzKnown
<1>2. p \in Nat /\ j \in 0 .. row.n - 1 /\ k = p * row.n + j BY <1>1, DivDef
<1> HIDE DEF p, j
<1>3. C!Instant(row, k) = C!Instant(row, j) + p * C!Pattern(row) /\ C!Instant(row, j) \in Nat
  <2>1. j \in Nat BY <1>1, <1>2
  <2>2. C!Instant(row, p * row.n + j) = C!Instant(row, j) + p * C!Pattern(row)
    BY <1>1, <1>2, <2>1, PatternRepeats
  <2>3. C!Instant(row, j) \in Nat BY <1>1, <2>1, InstantFacts
  <2> QED BY <1>2, <2>2, <2>3
<1>4. p * C!Pattern(row) = (p * row.d) * Hz /\ p * row.d \in Nat BY <1>1, <1>2
<1>5. C!Instant(row, k) % Hz = C!Instant(row, j) % Hz
  <2>1. (C!Instant(row, j) + (p * row.d) * Hz) % Hz = C!Instant(row, j) % Hz
    BY <1>1, <1>3, <1>4, ModSame
  <2> QED BY <1>3, <1>4, <2>1
<1>6. C!Instant(row, j) % Hz \in C!Slots BY <1>3, ModType
<1>7. visits[C!Instant(row, j) % Hz] = 1 BY <1>1, <1>2, <1>6 DEF GridInv, SlotInv
<1> QED BY <1>5, <1>7, TickIsIndex DEF C!Visited

\* In a one-second pattern, a slot that names the row is an instant every time.
LEMMA VisitIsInstant ==
    ASSUME HzKnown, GridInv, phase = "placed", ~C!Gated(row), NEW cycle \in Nat, C!Visited(cycle)
    PROVE C!IsInstant(row, cycle)
<1>1. /\ Rate(row) /\ row.n \in Nat \ {0} /\ C!Pattern(row) = Hz /\ Hz \in Nat \ {0}
  BY RateFacts DEF GridInv, C!TypeOK, Rate, C!Pattern, HzKnown, C!Gated
<1>2. PICK i \in 0 .. row.n - 1 : C!Instant(row, i) % Hz = cycle % Hz
  <2>1. cycle % Hz \in C!Slots /\ visits[cycle % Hz] > 0 BY ModType, TickIsIndex DEF C!Visited
  <2> QED BY <1>1, <2>1 DEF GridInv, SlotInv
<1>3. C!Instant(row, i) \in 0 .. Hz - 1
  <2>1. i \in Nat /\ i < row.n BY <1>1
  <2> QED BY <1>1, <2>1, PassFits, InstantFacts
<1>4. C!Instant(row, i) % Hz = C!Instant(row, i)
  <2>1. C!Instant(row, i) = 0 * Hz + C!Instant(row, i) BY <1>1, <1>3
  <2> QED BY <1>1, <1>3, <2>1, DivIs
<1> DEFINE q == cycle \div Hz
           k == q * row.n + i
<1>5. q \in Nat /\ cycle = q * Hz + C!Instant(row, i)
  <2>1. q \in Nat /\ cycle = q * Hz + (cycle % Hz) BY <1>1, DivDef
  <2> QED BY <1>2, <1>4, <2>1
<1> HIDE DEF q
<1>6. k \in Nat /\ C!Instant(row, k) = cycle
  <2>1. i \in Nat BY <1>1
  <2>2. k \in Nat /\ C!Instant(row, k) = C!Instant(row, i) + q * C!Pattern(row)
    BY <1>1, <1>5, <2>1, PatternRepeats
  <2>3. q * C!Pattern(row) \in Nat BY <1>1, <1>5
  <2> HIDE DEF k
  <2> QED BY <1>1, <1>3, <1>5, <2>2, <2>3
<1> HIDE DEF k
<1>7. k <= cycle BY <1>1, <1>6, InstantsLead
<1> QED BY <1>6, <1>7 DEF C!IsInstant

LEMMA RunsOnGrid ==
    ASSUME HzKnown, GridInv, phase = "placed", NEW cycle \in Nat, C!Gated(row) => cycle = next /\ C!Leads
    PROVE C!RunsOn(cycle) <=> C!IsInstant(row, cycle)
<1>1. Rate(row) /\ kth \in Nat /\ cad = InstantCad(row, kth) BY DEF GridInv, C!TypeOK, FirstLeft, Rate
<1>2. cad.at = C!Instant(row, kth) /\ C!Instant(row, kth) \in Nat
  BY <1>1, InstantCadType, InstantFacts
<1>3. ASSUME NEW k \in 0 .. cycle, C!Instant(row, k) = cycle PROVE C!RunsOn(cycle)
  <2>1. k \in Nat BY DEF C!IsInstant
  <2>2. C!Visited(cycle) BY <1>3, <2>1, InstantIsVisited
  <2>3. ASSUME C!Gated(row) PROVE C!Due(cad, cycle)
    <3>1. cycle = next BY <2>3
    <3>2. ASSUME k < kth PROVE FALSE
      <4>1. kth # 0 /\ kth - 1 \in Nat /\ k <= kth - 1 BY <1>1, <2>1, <3>2
      <4>2. C!Instant(row, kth - 1) < next BY <4>1 DEF GridInv, FirstLeft
      <4>3. C!Instant(row, k) \in Nat /\ C!Instant(row, kth - 1) \in Nat BY <1>1, <2>1, <4>1, InstantFacts
      <4>4. k < kth - 1 => C!Instant(row, k) < C!Instant(row, kth - 1)
        BY <1>1, <2>1, <4>1, InstantsIncrease
      <4>5. k = kth - 1 \/ k < kth - 1 BY <1>1, <2>1, <4>1
      <4> QED BY <1>3, <3>1, <4>2, <4>3, <4>4, <4>5
    <3>3. kth < k => C!Instant(row, kth) < C!Instant(row, k) BY <1>1, <2>1, InstantsIncrease
    <3>4. kth = k \/ kth < k BY <1>1, <2>1, <3>2
    <3> QED BY <1>2, <1>3, <3>3, <3>4 DEF C!Due
  <2> QED BY <2>2, <2>3 DEF C!RunsOn
<1>4. ASSUME C!RunsOn(cycle) PROVE C!IsInstant(row, cycle)
  <2>1. CASE ~C!Gated(row) BY <1>4, <2>1, VisitIsInstant DEF C!RunsOn
  <2>2. CASE C!Gated(row)
    <3>1. cycle = C!Instant(row, kth)
      BY <1>2, <1>4, <2>2 DEF C!RunsOn, C!Due, C!Leads
    <3>2. kth \in 0 .. cycle BY <1>1, <3>1, InstantsLead
    <3> QED BY <3>1, <3>2 DEF C!IsInstant
  <2> QED BY <2>1, <2>2
<1> QED BY <1>3, <1>4 DEF C!IsInstant

-----------------------------------------------------------------------------

LEMMA GridHolds == ASSUME HzKnown, RequestsKnown PROVE C!Spec => []GridInv
<1>1. C!Init => GridInv BY GridInit
<1>2. GridInv /\ [C!Next]_(C!vars) => GridInv' BY GridStep
<1> QED BY <1>1, <1>2, PTL DEF C!Spec

\* NoDrift: the additions of advance(), from wherever initAt() started, keep the
\* cadence on the formula of the header, for every rate and number of runs.
THEOREM CadenceIsExact == ASSUME HzKnown, RequestsKnown PROVE C!Spec => []C!NoDrift
<1>1. GridInv => C!NoDrift BY DEF GridInv, FirstLeft, C!NoDrift, InstantCad, Carried
<1> QED BY <1>1, GridHolds, PTL

\* NamedOnce: addTask needs no check of a slot used before when the pattern is one
\* second, and the one it has suffices when it is longer.
THEOREM SlotsNameOnce == ASSUME HzKnown, RequestsKnown PROVE C!Spec => []C!NamedOnce
<1>1. GridInv => C!NamedOnce BY DEF GridInv, SlotInv, C!NamedOnce
<1> QED BY <1>1, GridHolds, PTL

\* OnGrid: whatever cycle the table was loaded at, the slots and the gate let the
\* row run on the instants of its pattern and on no other cycle.
THEOREM RunsAreOnGrid == ASSUME HzKnown, RequestsKnown PROVE C!Spec => []C!OnGrid
<1>1. ASSUME GridInv PROVE C!OnGrid
  <2>1. SUFFICES ASSUME phase = "placed", NEW cycle \in next .. MaxCycle,
                        C!Gated(row) => cycle = next /\ C!Leads
                 PROVE C!RunsOn(cycle) <=> C!IsInstant(row, cycle)
    BY DEF C!OnGrid
  <2>2. cycle \in Nat BY <1>1 DEF GridInv, C!TypeOK, RequestsKnown
  <2> QED BY <1>1, <2>1, <2>2, RunsOnGrid
<1> QED BY <1>1, GridHolds, PTL

\* StaysInStep: while no cycle is skipped a gated row is never late; advance()
\* leads the next cycle again after every run.
THEOREM NeverLate == ASSUME HzKnown, RequestsKnown PROVE C!Spec => C!StaysInStep
<1> DEFINE A == phase = "placed" /\ C!Gated(row) /\ C!Leads /\ next' <= next + 1 => C!Leads'
<1>1. ASSUME GridInv, C!Next, phase = "placed", C!Gated(row), C!Leads, next' <= next + 1 PROVE C!Leads'
  <2>1. Rate(row) /\ kth \in Nat /\ next \in Nat /\ cad = InstantCad(row, kth)
    BY <1>1 DEF GridInv, C!TypeOK, FirstLeft, Rate
  <2>2. cad.at = C!Instant(row, kth) /\ C!Instant(row, kth) \in Nat
    BY <2>1, InstantCadType, InstantFacts
  <2>3. CASE C!Clear BY <1>1, <2>3 DEF C!Clear, C!Leads
  <2>4. ASSUME NEW cycle \in 0 .. MaxCycle, C!Dispatch(cycle) PROVE C!Leads'
    <3>1. cycle \in Int /\ cycle >= next /\ next' = cycle + 1 BY <2>4 DEF C!Dispatch, RequestsKnown
    <3>2. cycle = next BY <1>1, <2>1, <3>1
    <3>3. CASE C!RunsOn(cycle)
      <4>1. cad' = InstantCad(row, kth + 1)
        BY <1>1, <2>1, <2>4, <3>3, AdvanceIsNext DEF C!Dispatch
      <4>2. cad'.at = C!Instant(row, kth + 1) BY <2>1, <4>1, InstantCadType
      <4>3. C!Instant(row, kth) < C!Instant(row, kth + 1) /\ C!Instant(row, kth + 1) \in Nat
        <5>1. kth + 1 \in Nat /\ kth < kth + 1 BY <2>1
        <5> QED BY <2>1, <5>1, InstantsIncrease, InstantFacts
      <4> QED BY <1>1, <2>1, <2>2, <3>1, <3>2, <4>2, <4>3 DEF C!Leads
    <3>4. CASE ~C!RunsOn(cycle)
      <4>1. cad' = cad BY <2>4, <3>4 DEF C!Dispatch
      <4>2. cad.at # next
        <5>1. ASSUME cad.at = next PROVE FALSE
          <6>1. C!Visited(cycle) BY <1>1, <2>1, <2>2, <3>2, <5>1, InstantIsVisited
          <6> QED BY <2>1, <3>2, <3>4, <5>1, <6>1 DEF C!RunsOn, C!Due
        <5> QED BY <5>1
      <4> QED BY <1>1, <2>1, <2>2, <3>1, <3>2, <4>1, <4>2 DEF C!Leads
    <3> QED BY <3>3, <3>4
  <2>5. ~C!Place /\ ~C!Placed /\ \A r \in Requests : ~C!Add(r) BY <1>1 DEF C!Place, C!Placed, C!Add
  <2> QED BY <1>1, <2>3, <2>4, <2>5 DEF C!Next
<1>2. GridInv /\ [C!Next]_(C!vars) => [A]_(C!vars) BY <1>1
<1> QED BY <1>2, GridHolds, PTL DEF C!Spec, C!StaysInStep

-----------------------------------------------------------------------------
(* Reloads *)

CONSTANTS Comps, Rows, Owner, Sequenced, MaxReloads, Quiesced

VARIABLES registry, plugin, loaded, locked, table, task, counter, runs, load,
          loading, io, tried

R == INSTANCE Reload

\* Every row has an owner that is a component.
OwnersKnown == Owner \in [Rows -> Comps]

\* The instance of a name exists; the one linked in is never unloaded, and a
\* library that is kept is numbered below the next.
InstancesOk ==
    \A c \in Comps :
        /\ registry[c] \in loaded[c]
        /\ R!Linked \in loaded[c] /\ plugin[c] # R!Linked

\* Counters of the first table are those of the linked instances.
FirstCounters == table = 0 => \A r \in Rows : counter[r] = R!Linked

TableInv == R!TypeOK /\ InstancesOk /\ R!RowsAreLive /\ FirstCounters

LEMMA InitTable == ASSUME OwnersKnown, R!Init PROVE TableInv
<1> USE DEF R!Init, R!Linked
<1>1. R!TypeOK
  <2>1. registry \in [Comps -> Nat] /\ plugin \in [Comps -> Nat \cup {R!NoPlugin}]
    BY DEF R!NoPlugin
  <2>2. loaded \in [Comps -> SUBSET Nat] /\ locked \in [Comps -> SUBSET Nat]
    OBVIOUS
  <2>3. task \in [Rows -> Nat] /\ counter \in [Rows -> Nat]
    OBVIOUS
  <2> QED BY <2>1, <2>2, <2>3 DEF R!TypeOK
<1>2. InstancesOk
  <2>1. \A c \in Comps : registry[c] = 0 /\ plugin[c] = R!NoPlugin /\ 0 \in loaded[c]
    OBVIOUS
  <2>2. R!NoPlugin # 0 BY DEF R!NoPlugin
  <2> HIDE DEF R!Init
  <2> QED BY <2>1, <2>2 DEF InstancesOk
<1>3. R!RowsAreLive /\ FirstCounters BY DEF OwnersKnown, R!RowsAreLive, FirstCounters
<1> QED BY <1>1, <1>2, <1>3 DEF TableInv

\* Types are kept by every step.
LEMMA ReloadTypesKept == ASSUME OwnersKnown, R!TypeOK, [R!Next]_(R!vars) PROVE R!TypeOK'
<1> USE DEF OwnersKnown, R!TypeOK, R!compVars, R!rowVars, R!loadVars
<1>1. ASSUME NEW r \in Rows, R!Dispatch(r) PROVE R!TypeOK'
  BY <1>1 DEF R!Dispatch, R!Run
<1>2. ASSUME NEW u \in runs, R!Complete(u) PROVE R!TypeOK'
  BY <1>2 DEF R!Complete
<1>3. ASSUME NEW c \in Comps, R!Lock(c) \/ R!Unlock(c) \/ R!BeginLoad(c) \/ R!EndLoad(c) PROVE R!TypeOK'
  BY <1>3 DEF R!Lock, R!Unlock, R!BeginLoad, R!EndLoad, R!SetLock, R!ClearLock
<1>4. ASSUME NEW c \in Comps, R!LibraryRefused(c) PROVE R!TypeOK'
  BY <1>4 DEF R!LibraryRefused, R!ClearLock
<1>5. ASSUME NEW c \in Comps, NEW has \in SUBSET Rows, R!TaskMismatch(c, has) PROVE R!TypeOK'
  BY <1>5 DEF R!TaskMismatch, R!ClearLock, R!Wire, R!NewInstance
<1>6. ASSUME NEW c \in Comps, NEW has \in SUBSET Rows, R!LibraryReplaced(c, has) PROVE R!TypeOK'
  BY <1>6 DEF R!LibraryReplaced, R!Keep, R!Wire, R!NewInstance
<1>7. ASSUME NEW c \in Comps, R!IoLookUp(c) PROVE R!TypeOK'
  BY <1>7 DEF R!IoLookUp
<1>8. ASSUME R!BeginTable \/ R!KeepTable \/ R!IoHandle PROVE R!TypeOK'
  BY <1>8 DEF R!BeginTable, R!KeepTable, R!IoHandle
<1>10. ASSUME R!NewTable PROVE R!TypeOK'
  BY <1>10 DEF R!NewTable
<1>9. CASE UNCHANGED R!vars
  BY <1>9 DEF R!vars
<1> QED
  BY <1>1, <1>2, <1>3, <1>4, <1>5, <1>6, <1>7, <1>8, <1>9, <1>10 DEF R!Next, R!LibraryCommand

\* The table's pointers are touched by a mismatch, a replacement and a new table.
LEMMA TableStep == ASSUME OwnersKnown, TableInv, [R!Next]_(R!vars) PROVE TableInv'
<1> USE DEF OwnersKnown, TableInv, R!compVars, R!rowVars, R!loadVars
<1> DEFINE Rest == InstancesOk /\ R!RowsAreLive /\ FirstCounters
<1>0. R!TypeOK' BY ReloadTypesKept
<1>1. ASSUME UNCHANGED <<R!compVars, R!rowVars>> PROVE Rest'
  BY <1>1 DEF InstancesOk, R!RowsAreLive, FirstCounters
<1>2. ASSUME NEW c \in Comps, NEW has \in SUBSET Rows, R!TaskMismatch(c, has) PROVE Rest'
  <2>1. task' = task
    <3>1. task' = R!Wire(c, registry[c], Rows, R!Wire(c, R!NewInstance, has, task))
      BY <1>2 DEF R!TaskMismatch
    <3>2. \A r \in Rows : task'[r] = task[r]
      BY <3>1 DEF R!Wire, R!RowsAreLive
    <3> QED BY <3>1, <3>2 DEF R!TypeOK, R!Wire
  <2> QED BY <1>1, <1>2, <2>1 DEF R!TaskMismatch
<1>3. ASSUME NEW c \in Comps, NEW has \in SUBSET Rows, R!LibraryReplaced(c, has) PROVE Rest'
  <2> USE DEF R!TypeOK
  <2>1. /\ registry' = [registry EXCEPT ![c] = R!NewInstance]
        /\ plugin' = [plugin EXCEPT ![c] = R!NewInstance]
        /\ loaded' = [loaded EXCEPT ![c] = (@ \ {plugin[c]}) \cup {R!NewInstance}]
        /\ task' = [r \in Rows |-> IF Owner[r] = c THEN R!NewInstance ELSE task[r]]
        /\ table' = table /\ counter' = counter
    BY <1>3 DEF R!LibraryReplaced, R!Keep, R!Wire, R!RowsOf
  <2>2. R!NewInstance # R!Linked BY DEF R!NewInstance, R!Linked
  <2>3. InstancesOk' BY <2>1, <2>2 DEF InstancesOk
  <2>4. R!RowsAreLive' BY <2>1 DEF R!RowsAreLive
  <2>5. FirstCounters' BY <2>1 DEF FirstCounters
  <2> QED BY <2>3, <2>4, <2>5
<1>4. ASSUME R!NewTable PROVE Rest'
  BY <1>4 DEF R!NewTable, R!TypeOK, InstancesOk, R!RowsAreLive, FirstCounters
<1>5. ASSUME NEW r \in Rows, R!Dispatch(r) PROVE Rest' BY <1>1, <1>5 DEF R!Dispatch
<1>6. ASSUME NEW u \in runs, R!Complete(u) PROVE Rest' BY <1>1, <1>6 DEF R!Complete
<1>7. ASSUME NEW c \in Comps,
             R!Lock(c) \/ R!Unlock(c) \/ R!BeginLoad(c) \/ R!EndLoad(c) \/ R!LibraryRefused(c) \/ R!IoLookUp(c)
      PROVE Rest'
  BY <1>1, <1>7 DEF R!Lock, R!Unlock, R!BeginLoad, R!EndLoad, R!LibraryRefused, R!IoLookUp
<1>8. ASSUME R!BeginTable \/ R!KeepTable \/ R!IoHandle PROVE Rest'
  BY <1>1, <1>8 DEF R!BeginTable, R!KeepTable, R!IoHandle
<1>9. CASE UNCHANGED R!vars
  <2>1. UNCHANGED <<registry, plugin, loaded, table, task, counter>> BY <1>9 DEF R!vars
  <2> QED BY <1>0, <1>1, <2>1
<1> QED
  BY <1>0, <1>2, <1>3, <1>4, <1>5, <1>6, <1>7, <1>8, <1>9 DEF R!Next, R!LibraryCommand

\* Type correctness of the reload module, for every set of rows and commands.
THEOREM ReloadTypes == ASSUME OwnersKnown PROVE R!Spec => []R!TypeOK
<1>1. R!Init => TableInv BY InitTable
<1>2. TableInv /\ [R!Next]_(R!vars) => TableInv' BY TableStep
<1>3. TableInv => R!TypeOK BY DEF TableInv
<1> QED BY <1>1, <1>2, <1>3, PTL DEF R!Spec

\* RowsAreLive: through refusals, partial wirings that are taken back,
\* replacements and new tables, a row's task is one of the registered instance,
\* and that instance has not been unloaded (replaceComponentTasks, PluginLoader).
THEOREM RowsStayLive == ASSUME OwnersKnown PROVE R!Spec => []R!RowsAreLive
<1>1. R!Init => TableInv BY InitTable
<1>2. TableInv /\ [R!Next]_(R!vars) => TableInv' BY TableStep
<1>3. TableInv => R!RowsAreLive BY DEF TableInv
<1> QED BY <1>1, <1>2, <1>3, PTL DEF R!Spec

\* CountersAreLive as long as the table has not been loaded a second time: the
\* phase counters are those of the instances linked in, which stay.
THEOREM FirstTableCounts ==
    ASSUME OwnersKnown, Sequenced \subseteq Rows PROVE R!Spec => [](table = 0 => R!CountersAreLive)
<1>1. R!Init => TableInv BY InitTable
<1>2. TableInv /\ [R!Next]_(R!vars) => TableInv' BY TableStep
<1>3. TableInv => (table = 0 => R!CountersAreLive)
  BY DEF OwnersKnown, TableInv, InstancesOk, FirstCounters, R!CountersAreLive
<1> QED BY <1>1, <1>2, <1>3, PTL DEF R!Spec

\* RunsAreSpared, however many commands are sent while runs are in flight: a run
\* loses its row to a new table only, and its task only to a library that takes
\* the place of the one it runs in (dispatchSlot, PluginLoader, loadTprm).
THEOREM RunsSpared == ASSUME OwnersKnown PROVE R!Spec => R!RunsAreSpared
<1> DEFINE Spared == \A u \in runs' : R!Lives(u)' \/ (u \in runs /\ (R!Lives(u) => R!Strands(u)))
<1>1. ASSUME TableInv, [R!Next]_(R!vars) PROVE Spared
  <2> USE <1>1 DEF R!compVars, R!rowVars, R!loadVars
  <2>1. ASSUME UNCHANGED <<table, loaded>>, runs' \subseteq runs PROVE Spared
    BY <2>1 DEF R!Lives
  <2>2. ASSUME NEW r \in Rows, R!Dispatch(r) PROVE Spared
    <3>1. /\ runs' = runs \cup {[row |-> r, table |-> table, inst |-> task[r]]}
          /\ UNCHANGED <<table, loaded>>
      BY <2>2 DEF R!Dispatch
    <3>2. task[r] \in loaded[Owner[r]] BY DEF TableInv, R!RowsAreLive
    <3> QED BY <3>1, <3>2 DEF R!Lives
  <2>3. ASSUME NEW u \in runs, R!Complete(u) PROVE Spared BY <2>1, <2>3 DEF R!Complete
  <2>4. ASSUME NEW c \in Comps, NEW has \in SUBSET Rows, R!LibraryReplaced(c, has) PROVE Spared
    <3>1. /\ table' = table /\ runs' = runs
          /\ loaded' = [loaded EXCEPT ![c] = (@ \ {plugin[c]}) \cup {R!NewInstance}]
      BY <2>4 DEF R!LibraryReplaced, R!Keep
    <3>2. loaded \in [Comps -> SUBSET Nat] /\ runs \subseteq R!Run BY DEF TableInv, R!TypeOK
    <3>3. ASSUME NEW u \in runs', R!Lives(u), ~R!Lives(u)' PROVE R!Strands(u)
      <4>1. Owner[u.row] \in Comps BY <3>1, <3>2 DEF OwnersKnown, R!Run
      <4>2. u.inst \in loaded[Owner[u.row]] /\ u.inst \notin loaded'[Owner[u.row]] BY <3>1, <3>3 DEF R!Lives
      <4>3. Owner[u.row] = c /\ u.inst = plugin[c] BY <3>1, <3>2, <4>1, <4>2
      <4> QED BY <2>4, <4>3 DEF R!Strands
    <3> QED BY <3>1, <3>3
  <2>5. ASSUME R!NewTable PROVE Spared BY <2>5 DEF R!NewTable, R!Strands
  <2>6. ASSUME NEW c \in Comps,
               \/ R!Lock(c) \/ R!Unlock(c) \/ R!BeginLoad(c) \/ R!EndLoad(c) \/ R!IoLookUp(c)
               \/ R!LibraryRefused(c) \/ \E has \in SUBSET Rows : R!TaskMismatch(c, has)
        PROVE  Spared
    BY <2>1, <2>6 DEF R!Lock, R!Unlock, R!BeginLoad, R!EndLoad, R!IoLookUp, R!LibraryRefused, R!TaskMismatch
  <2>7. CASE R!BeginTable \/ R!KeepTable \/ R!IoHandle
    BY <2>1, <2>7 DEF R!BeginTable, R!KeepTable, R!IoHandle
  <2>8. CASE UNCHANGED R!vars BY <2>1, <2>8 DEF R!vars
  <2> HIDE DEF Spared
  <2> QED BY <2>2, <2>3, <2>4, <2>5, <2>6, <2>7, <2>8 DEF R!Next, R!LibraryCommand
<1>2. R!Init => TableInv BY InitTable
<1>3. TableInv /\ [R!Next]_(R!vars) => TableInv' BY TableStep
<1>4. TableInv /\ [R!Next]_(R!vars) => [Spared]_(R!vars) BY <1>1
<1> HIDE DEF Spared
<1>5. R!Spec => [][Spared]_(R!vars) BY <1>2, <1>3, <1>4, PTL DEF R!Spec
<1> QED BY <1>5 DEF R!RunsAreSpared, Spared
=============================================================================
