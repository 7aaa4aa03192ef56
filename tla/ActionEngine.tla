---------------------------- MODULE ActionEngine ----------------------------
(***************************************************************************)
(* The action engine's sequences: ActionComponent starts a sequence of the *)
(* catalog in an execution slot, by command, by an event or from a step of *)
(* another one; processCycle counts the delays and timeouts of the running *)
(* ones and fires their steps.  Starting one may stop others, the stopped  *)
(* ones raise abort events, and these start sequences while the first      *)
(* start is still under way.                                               *)
(*                                                                         *)
(* One thread runs the engine, and its calls nest.  "calls" is the stack   *)
(* of what they still have to do, the innermost first; a step is what the  *)
(* innermost does up to the next call.  RTS sequences only; watchpoints    *)
(* and wait conditions are values the environment chooses.                 *)
(***************************************************************************)
EXTENDS Naturals, Sequences, SequencesExt

CONSTANTS
  Programs,    \* sequence number -> its entry and steps; the catalog's first
  CatalogSize, \* programs past it are loaded from the TPRM at boot
  SlotCount,   \* RTS_SLOT_COUNT
  Loaded,      \* slot -> the program in it at boot, or 0
  Room,        \* step actions the action queue takes in a cycle
  Events,      \* events the watchpoints may fire
  MaxInputs    \* bound: commands and fired events

Slots == 1 .. SlotCount
Catalog == 1 .. CatalogSize

Actions == [kind : {"command"}] \cup [kind : {"arm", "disarm"}, slot : Slots]
StepRecords ==
  [delay : Nat, timeout : Nat, policy : {"skip", "goto", "abort"}, retries : Nat, wait : BOOLEAN,
   goto : Nat \ {0}, then : {"next", "goto", "start"}, act : Actions]
Entries ==
  [priority : Nat, group : Nat, event : Nat, abortEvent : Nat, repeat : Nat, blocks : SUBSET Nat,
   steps : Seq(StepRecords)]

ASSUME EngineAssumption ==
  /\ Programs \in Seq(Entries) /\ CatalogSize \in 0 .. Len(Programs)
  /\ SlotCount \in Nat \ {0} /\ Loaded \in [Slots -> 0 .. Len(Programs)]
  /\ Room \in Nat /\ Events \subseteq Nat \ {0} /\ MaxInputs \in Nat

VARIABLES
  slot,   \* iface_.sequences
  turn,   \* in a cycle: the slot whose turn it is, then AbortTurn, ActionTurn; else 0
  calls,  \* what the calls under way still have to do
  queue,  \* the step actions queued in this cycle
  cycled, \* no command has been handled since the last cycle began
  asked,  \* the sequence the last command asked for, or 0
  found,  \* slot -> the sequence that ran in it when the command came, or 0
  owed,   \* abort events still to go out: at once, or after the slots' turns
  inputs

vars == <<slot, turn, calls, queue, cycled, asked, found, owed, inputs>>

AbortTurn == SlotCount + 1
ActionTurn == SlotCount + 2
None == [s \in Slots |-> 0]

\* A slot after deserializeStandaloneSequence; "age" is how many cycles its
\* current step has been current.
Fresh(id, abortEvent) ==
  [seq |-> id, armed |-> id # 0, status |-> "idle", step |-> 1, delay |-> 0, left |-> 0,
   retry |-> 0, max |-> IF id = 0 THEN 0 ELSE Programs[id].repeat, repeats |-> 0,
   abortEvent |-> abortEvent, pending |-> FALSE, age |-> 0]

\* A resident of the TPRM: its repeat count goes to repeatCount (:238).
Resident(id) == LET x == Fresh(id, 0) IN [x EXCEPT !.max = 0, !.repeats = x.max]

Init ==
  /\ slot = [s \in Slots |-> Resident(Loaded[s])]
  /\ turn = 0 /\ calls = <<>> /\ queue = <<>> /\ cycled = FALSE
  /\ asked = 0 /\ found = None /\ owed = {} /\ inputs = 0

Steps(x) == IF x.seq = 0 THEN <<>> ELSE Programs[x.seq].steps
Current(x) == Steps(x)[x.step]
Running(x) == x.status \in {"waiting", "executing", "condition"}

(***************************************************************************)
(* One sequence (DataSequence.hpp).                                        *)
(***************************************************************************)
Due(delay) == IF delay > 0 THEN "waiting" ELSE "executing"

\* A step becomes the current one.
Enter(x, k) ==
  LET st == Steps(x)[k] IN
  [x EXCEPT !.step = k, !.retry = 0, !.delay = st.delay, !.left = st.timeout,
            !.status = Due(st.delay), !.age = 0]

\* startSequence, also of one that runs: the repeats it has used stay used.
Begin(x) == IF x.armed /\ Steps(x) # <<>> THEN Enter(x, 1) ELSE x

Flagged(x) == [x EXCEPT !.pending = @ \/ x.abortEvent # 0]

\* abortSequence
Abort(x) == IF Running(x) THEN Flagged([x EXCEPT !.status = "aborted"]) ELSE x

\* resetSequence
Reset(x) == [x EXCEPT !.status = "idle", !.step = 1, !.delay = 0, !.repeats = 0]

\* Slip: the retry is not counted.
AgainUncounted(x) ==
  LET st == Current(x) IN
  [x EXCEPT !.delay = st.delay, !.left = st.timeout, !.status = Due(st.delay)]

Again(x) ==
  LET st == Current(x) IN
  [x EXCEPT !.retry = @ + 1, !.delay = st.delay, !.left = st.timeout, !.status = Due(st.delay)]

TimedOut(x) == Flagged([x EXCEPT !.status = "timedOut"])

\* applyTimeoutPolicy
OnTimeout(x) ==
  LET st == Current(x) IN
  CASE st.policy = "skip" /\ x.retry < st.retries -> Again(x)
    [] st.policy = "skip" /\ x.retry >= st.retries ->
         IF x.step = Len(Steps(x)) THEN [x EXCEPT !.step = @ + 1, !.status = "complete"]
         ELSE Enter(x, x.step + 1)
    [] st.policy = "goto" -> IF st.goto > Len(Steps(x)) THEN TimedOut(x) ELSE Enter(x, st.goto)
    [] st.policy = "abort" -> TimedOut(x)

\* Slip: the repeats are not counted.
RepeatUncounted(x) ==
  LET st == Current(x)
      k == IF st.then = "goto" THEN st.goto ELSE x.step + 1
  IN IF k <= Len(Steps(x)) THEN Enter(x, k)
     ELSE IF x.repeats < x.max THEN Enter(x, 1)
     ELSE [x EXCEPT !.step = k, !.status = "complete"]

\* advanceStep, after the current step has been fired.
Advance(x) ==
  LET st == Current(x)
      k == IF st.then = "goto" THEN st.goto ELSE x.step + 1
  IN IF k <= Len(Steps(x)) THEN Enter(x, k)
     ELSE IF x.repeats < x.max
       THEN [Enter(x, 1) EXCEPT !.repeats = @ + 1]
     ELSE [x EXCEPT !.step = k, !.status = "complete"]

\* tickSingleSequence: what becomes of a running sequence in a cycle in which
\* its wait condition holds or not, and whether it fires its step.
Tick(x, met) ==
  LET st == Current(x)
      timed == st.timeout > 0 /\ x.left > 0
      out == timed /\ x.left = 1
      left == IF timed THEN x.left - 1 ELSE x.left
      delay == IF x.status = "waiting" /\ x.delay > 0 THEN x.delay - 1 ELSE x.delay
      aged == [x EXCEPT !.left = left, !.delay = delay, !.age = @ + 1]
      Stay(y) == [next |-> y, fires |-> FALSE]
      Fire == [next |-> Advance(x), fires |-> TRUE]
  IN CASE x.status = "executing" -> Fire
       [] x.status # "executing" /\ out -> Stay(OnTimeout(aged))
       [] x.status = "waiting" /\ ~out ->
            IF delay > 0 THEN Stay(aged)
            ELSE IF st.wait THEN Stay([aged EXCEPT !.status = "condition"])
            ELSE Fire
       [] x.status = "condition" /\ ~out -> IF met THEN Fire ELSE Stay(aged)

(***************************************************************************)
(* What is owed, whatever the flags say.                                   *)
(***************************************************************************)
\* For the running sequences of slots that are stopped: "now" if it is for
\* another sequence, which may take the slot.
Owes(S, now) ==
  owed \cup {[slot |-> s, event |-> slot[s].abortEvent, now |-> now] :
              s \in {r \in S : Running(slot[r]) /\ slot[r].abortEvent # 0}}

\* A load erases what waits in its slot for the slots to have had their turns.
Erased(s) == IF turn = ActionTurn THEN owed ELSE {o \in owed : o.slot # s \/ o.now}

(***************************************************************************)
(* Starting sequences (ActionComponent.cpp).                               *)
(***************************************************************************)
First(S) == CHOOSE s \in S : \A r \in S : s <= r

Priority(id) == IF id \in Catalog THEN Programs[id].priority ELSE 0
SameGroup(a, b) == a \in Catalog /\ Programs[b].group # 0 /\ Programs[a].group = Programs[b].group

\* eventToSequences, built when the TPRM was loaded.
Indexed(ev) == {s \in Slots : Loaded[s] # 0 /\ Programs[Loaded[s]].event = ev}

\* What a call has to do for an event or a sequence, at a slot or from a
\* catalog entry on.
Call(does, id, at) == [does |-> does, for |-> id, at |-> at]
Dispatching(ev) == Call("dispatch", ev, 0)
Seeking(ev, from) == Call("seek", ev, from)
Starting(id) == Call("start", id, 0)
Excluding(id, s) == Call("exclude", id, s)
Placing(id) == Call("place", id, 0)
Resetting(s) == Call("reset", 0, s)
Loading(id, s) == Call("load", id, s)

Top == Head(calls)

\* The innermost call is over but for these.
Then(new) == calls' = new \o Tail(calls)

\* dispatchEvents for one event, or for none (0): the residents that match are
\* started, also the running ones; if there is none, the catalog's.
Residents(ev) == {s \in Indexed(ev) : slot[s].armed /\ Programs[slot[s].seq].event = ev}

Dispatch ==
  /\ Top.does = "dispatch"
  /\ LET ev == Top.for
         started == IF ev = 0 THEN {} ELSE Residents(ev)
     IN /\ owed' = {o \in owed : o.event # ev}
        /\ slot' = [s \in Slots |-> IF s \in started THEN Begin(slot[s]) ELSE slot[s]]
        /\ Then(IF ev = 0 \/ started # {} THEN <<>> ELSE <<Seeking(ev, 1)>>)

\* forEachByEvent, from a catalog entry on.
Matching(ev, from) == {id \in Catalog : id >= from /\ Programs[id].event = ev}

Seek ==
  /\ Top.does = "seek"
  /\ UNCHANGED <<slot, owed>>
  /\ LET matching == Matching(Top.for, Top.at)
         id == First(matching)
     IN Then(IF matching = {} THEN <<>> ELSE <<Starting(id), Seeking(Top.for, id + 1)>>)

\* startRtsById: unknown or blocked, or next its exclusion group.
Blocked(id) == \E s \in Slots : Running(slot[s]) /\ slot[s].seq \in Programs[id].blocks

Start ==
  /\ Top.does = "start"
  /\ UNCHANGED <<slot, owed>>
  /\ LET id == Top.for IN
     Then(IF id \notin Catalog \/ Blocked(id) THEN <<>> ELSE <<Excluding(id, 1)>>)

\* Slip: the abort event is left for the end of the cycle.
OustLater(s, next) ==
  /\ slot' = [slot EXCEPT ![s] = Abort(@)] /\ owed' = Owes({s}, TRUE)
  /\ Then(next)

\* A running sequence is stopped for another one: its abort event is
\* dispatched at once, and then the slot is given up.
Oust(s, next) ==
  LET x == Abort(slot[s]) IN
  /\ owed' = Owes({s}, TRUE)
  /\ slot' = [slot EXCEPT ![s] = [x EXCEPT !.pending = FALSE]]
  /\ Then(IF x.pending THEN <<Dispatching(x.abortEvent)>> \o next ELSE next)

\* Mutual exclusion: the running members of the group are stopped, slot by
\* slot, and whatever is in the slot after that is reset.
Members(id, from) == {s \in Slots : s >= from /\ Running(slot[s]) /\ SameGroup(slot[s].seq, id)}

Exclude ==
  /\ Top.does = "exclude"
  /\ LET members == Members(Top.for, Top.at)
         s == First(members)
     IN IF members = {} THEN UNCHANGED <<slot, owed>> /\ Then(<<Placing(Top.for)>>)
        ELSE Oust(s, <<Resetting(s), Excluding(Top.for, s + 1)>>)

ResetSlot ==
  /\ Top.does = "reset"
  /\ slot' = [slot EXCEPT ![Top.at] = Reset(@)] /\ owed' = owed
  /\ Then(<<>>)

\* Slip: an equal priority is enough.
NoLower(p, q) == p >= q

Higher(p, q) == p > q

\* The first free slot, or the first one of the lowest priority.
Free == {s \in Slots : ~Running(slot[s])}
Lowest == {s \in Slots : \A r \in Slots : Priority(slot[s].seq) <= Priority(slot[r].seq)}

Place ==
  /\ Top.does = "place"
  /\ LET id == Top.for
         s == First(Lowest)
     IN IF Free # {} THEN UNCHANGED <<slot, owed>> /\ Then(<<Loading(id, First(Free))>>)
        ELSE IF Higher(Programs[id].priority, Priority(slot[s].seq)) THEN Oust(s, <<Loading(id, s)>>)
        ELSE UNCHANGED <<slot, owed>> /\ Then(<<>>)

LoadSlot ==
  /\ Top.does = "load"
  /\ slot' = [slot EXCEPT ![Top.at] = Begin(Fresh(Top.for, Programs[Top.for].abortEvent))]
  /\ owed' = Erased(Top.at)
  /\ Then(<<>>)

\* The innermost call goes on.
GoOn ==
  /\ calls # <<>>
  /\ Dispatch \/ Seek \/ Start \/ Exclude \/ ResetSlot \/ Place \/ LoadSlot
  /\ UNCHANGED <<turn, queue, cycled, asked, found, inputs>>

(***************************************************************************)
(* A cycle (processCycle).                                                 *)
(***************************************************************************)
\* The events the watchpoints fire; then the slots have their turns.
StartCycle ==
  /\ calls = <<>> /\ turn = 0
  /\ turn' = 1 /\ cycled' = TRUE /\ asked' = 0 /\ found' = None
  /\ \/ UNCHANGED <<calls, inputs>>
     \/ /\ inputs < MaxInputs /\ inputs' = inputs + 1
        /\ \E ev \in Events : calls' = <<Dispatching(ev)>>
  /\ UNCHANGED <<slot, queue, owed>>

\* A slot's turn: a step fired goes on the action queue, if there is room;
\* a step may start another sequence.
Turn ==
  /\ calls = <<>> /\ turn \in Slots
  /\ turn' = turn + 1
  /\ \/ ~Running(slot[turn]) /\ UNCHANGED <<slot, calls, queue, owed>>
     \/ /\ Running(slot[turn])
        /\ \E met \in BOOLEAN :
             LET st == Current(slot[turn])
                 out == Tick(slot[turn], met)
             IN /\ slot' = [slot EXCEPT ![turn] = out.next]
                /\ owed' = IF out.next.status = "timedOut" THEN Owes({turn}, FALSE) ELSE owed
                /\ calls' = IF out.fires /\ st.then = "start" THEN <<Starting(st.goto)>> ELSE calls
                /\ queue' = IF out.fires /\ Len(queue) < Room THEN Append(queue, st.act) ELSE queue
  /\ UNCHANGED <<cycled, asked, found, inputs>>

\* The slots whose abort events are sent.
Raised == {s \in Slots : slot[s].pending}

\* dispatchAbortEvents: the flags are lowered, then the events go out.
DispatchAborts ==
  /\ calls = <<>> /\ turn = AbortTurn
  /\ turn' = ActionTurn
  /\ slot' = [s \in Slots |-> IF s \in Raised THEN [slot[s] EXCEPT !.pending = FALSE] ELSE slot[s]]
  /\ calls' = [s \in Slots |-> Dispatching(IF s \in Raised THEN slot[s].abortEvent ELSE 0)]
  /\ UNCHANGED <<queue, cycled, asked, found, owed, inputs>>

\* applyArmControl; commands go to other components.
Apply(t, act) ==
  CASE act.kind = "command" -> t
    [] act.kind = "arm" -> [t EXCEPT ![act.slot].armed = TRUE]
    [] act.kind = "disarm" -> [t EXCEPT ![act.slot] = Reset([@ EXCEPT !.armed = FALSE])]

\* removeAction: the last entry moves into the place of the first one.
Removed(acts) == [i \in 1 .. Len(acts) - 1 |-> IF i = 1 THEN acts[Len(acts)] ELSE acts[i]]

\* processActions, entry by entry until the queue is empty.
ProcessActions ==
  /\ calls = <<>> /\ turn = ActionTurn
  /\ IF queue = <<>> THEN turn' = 0 /\ UNCHANGED <<slot, queue>>
     ELSE slot' = Apply(slot, Head(queue)) /\ queue' = Removed(queue) /\ turn' = turn
  /\ UNCHANGED <<calls, cycled, asked, found, owed, inputs>>

(***************************************************************************)
(* Commands.                                                               *)
(***************************************************************************)
Handle(t, events) ==
  /\ calls = <<>> /\ turn = 0 /\ inputs < MaxInputs
  /\ inputs' = inputs + 1 /\ slot' = t /\ owed' = events /\ cycled' = FALSE
  /\ UNCHANGED <<turn, queue>>

\* Every other command is over when it has been handled.
Settle(t, events) == Handle(t, events) /\ calls' = <<>> /\ asked' = 0 /\ found' = None

\* START_RTS_BY_ID
StartById(id) ==
  /\ Handle(slot, owed)
  /\ calls' = <<Starting(id)>> /\ asked' = id
  /\ found' = [s \in Slots |-> IF Running(slot[s]) THEN slot[s].seq ELSE 0]

\* START_RTS names a slot and starts what is in it.
StartSlot(s) == slot[s].armed /\ Settle([slot EXCEPT ![s] = Begin(@)], owed)

\* The running sequences of the slots are stopped; their abort events go out
\* in the next cycle.
Stopped(S) == [s \in Slots |-> IF s \in S /\ Running(slot[s]) THEN Reset(Abort(slot[s])) ELSE slot[s]]
Stop(S) == (\E s \in S : Running(slot[s])) /\ Settle(Stopped(S), Owes(S, FALSE))

\* STOP_RTS
StopSlot(s) == Stop({s})

\* STOP_RTS_BY_ID
StopById(id) == Stop({s \in Slots : slot[s].seq = id})

\* ABORT_ALL_RTS
AbortAll == Stop(Slots)

\* LOAD_RTS into any slot, whatever it is doing; 0 is a file that fails its
\* validation when it is already in the slot.
Load(s, id) == Settle([slot EXCEPT ![s] = Fresh(id, 0)], Erased(s))

Engine == StartCycle \/ Turn \/ DispatchAborts \/ ProcessActions \/ GoOn

Next ==
  \/ Engine \/ AbortAll
  \/ \E id \in Catalog : StartById(id) \/ StopById(id)
  \/ \E s \in Slots : StartSlot(s) \/ StopSlot(s) \/ \E id \in Catalog \cup {0} : Load(s, id)

\* The engine's task runs in every frame.
Spec == Init /\ [][Next]_vars /\ WF_vars(Engine)

(***************************************************************************)
(* Properties.                                                             *)
(***************************************************************************)
Statuses == {"idle", "waiting", "executing", "condition", "complete", "timedOut", "aborted"}
SlotRecords ==
  [seq : 0 .. Len(Programs), armed : BOOLEAN, status : Statuses, step : Nat \ {0}, delay : Nat,
   left : Nat, retry : Nat, max : Nat, repeats : Nat, abortEvent : Nat, pending : BOOLEAN, age : Nat]
Calls ==
  [does : {"dispatch", "seek", "start", "exclude", "place", "reset", "load"}, for : Nat, at : Nat]

\* Types; a sequence that runs is armed and at one of its steps.
TypeOK ==
  /\ slot \in [Slots -> SlotRecords]
  /\ \A s \in Slots : Running(slot[s]) => slot[s].armed /\ slot[s].step \in DOMAIN Steps(slot[s])
  /\ turn \in 0 .. ActionTurn /\ calls \in Seq(Calls) /\ queue \in Seq(Actions)
  /\ Len(queue) <= Room
  /\ cycled \in BOOLEAN /\ asked \in 0 .. CatalogSize /\ found \in [Slots -> 0 .. Len(Programs)]
  /\ owed \subseteq [slot : Slots, event : Nat \ {0}, now : BOOLEAN]
  /\ inputs \in 0 .. MaxInputs

\* A step with a timeout is over, fired or not, within its timeout times the
\* tries it is allowed, whatever its delay and its condition do.
StepsTimeOut ==
  \A s \in Slots :
    LET x == slot[s] IN
    Running(x) /\ Current(x).timeout > 0 =>
      x.age < Current(x).timeout * (1 + IF Current(x).policy = "skip" THEN Current(x).retries ELSE 0)

\* Every abort event is sent: of a sequence stopped for another one before the
\* call that stopped it is over, whatever its handlers start meanwhile; of one
\* that timed out or was stopped by command in the next dispatchAbortEvents, if
\* its slot has not been loaded until then.
AbortsSent ==
  calls = <<>> => \A o \in owed : ~o.now /\ turn # ActionTurn /\ ~(turn = 0 /\ cycled)

\* The sequences that are started when another one of the catalog is stopped.
Handlers == {h \in Catalog : \E id \in Catalog : Programs[id].abortEvent # 0
                                                /\ Programs[h].event = Programs[id].abortEvent}

\* A command that starts a sequence ends no running sequence of the same or a
\* higher priority, except members of its group and, since the sequences it
\* stops call for their handlers, what such a handler may end in its turn.
PriorityKept ==
  \A s \in Slots :
    asked # 0 /\ found[s] # 0 =>
      \/ Running(slot[s]) /\ slot[s].seq = found[s]
      \/ \E h \in Handlers \cup {asked} : Priority(found[s]) < Programs[h].priority
                                          \/ SameGroup(found[s], h)

\* A sequence that is running ends, if no step of it can wait for ever.
SequencesEnd == \A s \in Slots : Running(slot[s]) ~> ~Running(slot[s])

\* Claimed, and false: after a command has started a sequence, no other one of
\* its group runs ("only one sequence from a group runs at a time").
Exclusion ==
  asked # 0 /\ calls = <<>> => \A r, s \in Slots :
    r # s /\ Running(slot[r]) /\ SameGroup(slot[r].seq, asked)
      => ~(Running(slot[s]) /\ SameGroup(slot[s].seq, asked))

\* Claimed, and false: an abort event is owed until it is sent ("fired when this
\* sequence is preempted, stopped, or times out").
AbortsFire ==
  [][\A o \in owed : o \in owed' \/ (calls # <<>> /\ Top = Dispatching(o.event))]_vars

\* Claimed, and false: a step fires no sooner than its condition is looked at
\* ("holds the step in WAITING_CONDITION state after the delay elapses").
WaitRespected ==
  \A s \in Slots : slot[s].status = "executing" => ~Current(slot[s]).wait
=============================================================================
