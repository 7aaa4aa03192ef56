--------------------------- MODULE SupportProofs ---------------------------
(***************************************************************************)
(* Two parts that share data between threads without a queue: the Monte    *)
(* Carlo driver, whose workers use the stack of the call that waits for    *)
(* them, and the parameter bank, whose readers take no lock.               *)
(*                                                                         *)
(* A sweep, for any number of workers, runs and sweeps.  The latch counts  *)
(* the tasks that are to be submitted, in the pool or in a worker's hands  *)
(* and not yet counted down; every index below the counter is written or   *)
(* in a worker's hands.  So a latch at zero means that all is written,     *)
(* whether it is waited for or polled.  That nobody uses it any more needs *)
(* the mutex, which only wait() takes.                                     *)
(*                                                                         *)
(* Then the bank, for every set of parameter sets, number of words, number *)
(* of readers and number of calls.                                         *)
(***************************************************************************)
EXTENDS ParamBank, FiniteSetTheorems, TLAPS

----------------------------------------------------------------------------
(* The sweeps of the Monte Carlo driver.                                   *)

CONSTANTS Workers, NumRuns, MaxSweeps, Polling

VARIABLES sweep, driver, sent, queue, nextRun, written, threw, count, holder, at, index, of

D == INSTANCE MonteCarlo

WorkersKnown ==
    /\ IsFiniteSet(Workers) /\ Workers # {} /\ "driver" \notin Workers /\ "none" \notin Workers
    /\ NumRuns \in Nat

\* Workers that have a task and have not counted down.
Pending == {w \in Workers : at[w] \in {"claim", "run", "leave", "held"}}

LatchInv ==
    /\ sweep = 0 => driver = "idle" /\ queue = 0 /\ Pending = {}
    /\ sweep > 0 => sent <= D!NumWorkers /\ count = D!NumWorkers - sent + queue + Cardinality(Pending)
    /\ sweep > 0 /\ driver # "submit" => sent = D!NumWorkers
    /\ sweep > 0 /\ driver = "idle" => count = 0
    /\ \A w \in Pending : of[w] = sweep

RunInv ==
    /\ \A i \in written : i < nextRun
    /\ \A w \in Workers : at[w] = "run" => index[w] \in D!AllRuns /\ index[w] < nextRun
    /\ D!SlotsAreOwn
    /\ \A i \in D!AllRuns : i < nextRun => i \in written \/ \E w \in Workers : at[w] = "run" /\ index[w] = i
    /\ \A w \in Workers : at[w] \in {"leave", "held"} => nextRun >= NumRuns
    /\ sweep > 0 /\ count < D!NumWorkers => nextRun >= NumRuns

SweepInv == D!TypeOK /\ LatchInv /\ RunInv

LEMMA WorkersSize == D!NumWorkers = Cardinality(Workers)
  BY DEF D!NumWorkers, D!Cardinality, Cardinality

LEMMA WorkersCount == ASSUME WorkersKnown PROVE D!NumWorkers \in Nat \ {0}
<1>1. D!NumWorkers \in Nat BY WorkersSize, FS_CardinalityType DEF WorkersKnown
<1>2. D!NumWorkers # 0 BY WorkersSize, FS_EmptySet DEF WorkersKnown
<1> QED BY <1>1, <1>2

LEMMA PendingCount ==
    ASSUME WorkersKnown
    PROVE /\ IsFiniteSet(Pending) /\ Cardinality(Pending) \in Nat
          /\ Cardinality(Pending) = 0 <=> Pending = {}
<1>1. Pending \subseteq Workers BY DEF Pending
<1>2. IsFiniteSet(Pending) BY <1>1, FS_Subset DEF WorkersKnown
<1> QED BY <1>2, FS_CardinalityType, FS_EmptySet

LEMMA SumOfParts ==
    ASSUME NEW n \in Nat, NEW s \in Nat, NEW q \in Nat, NEW c \in Nat,
           s <= n, 0 = n - s + q + c
    PROVE q = 0 /\ s = n /\ c = 0
  OBVIOUS

\* A latch at zero: nothing is queued and nobody has a task.
LEMMA LatchIsDown ==
    ASSUME WorkersKnown, D!TypeOK, LatchInv, sweep > 0, count = 0
    PROVE queue = 0 /\ sent = D!NumWorkers /\ Pending = {}
<1>1. /\ sent \in Nat /\ queue \in Nat /\ Cardinality(Pending) \in Nat /\ D!NumWorkers \in Nat
      /\ sent <= D!NumWorkers /\ 0 = D!NumWorkers - sent + queue + Cardinality(Pending)
  BY WorkersCount, PendingCount DEF D!TypeOK, LatchInv
<1>2. queue = 0 /\ sent = D!NumWorkers /\ Cardinality(Pending) = 0 BY <1>1, SumOfParts
<1> QED BY <1>2, PendingCount

LEMMA InitSweep == ASSUME WorkersKnown, D!Init PROVE SweepInv
<1> USE DEF D!Init
<1>1. D!TypeOK BY DEF D!TypeOK, D!Steps
<1>2. LatchInv BY DEF LatchInv, Pending
<1>3. RunInv BY WorkersCount DEF RunInv, D!SlotsAreOwn, D!AllRuns, WorkersKnown
<1> QED BY <1>1, <1>2, <1>3 DEF SweepInv

\* Steps that leave the latch's sum and the indices alone.
LEMMA SamePending ==
    ASSUME UNCHANGED at PROVE Pending' = Pending
  BY DEF Pending

LEMMA DriverStep == ASSUME WorkersKnown, SweepInv, D!Driver \/ D!Spurious PROVE SweepInv'
<1> USE DEF SweepInv, D!driverVars, D!poolVars, D!runVars, D!latchVars, D!workerVars
<1>1. CASE D!Begin
  <2>1. /\ driver = "idle" /\ sweep' = sweep + 1 /\ driver' = "submit" /\ sent' = 0
        /\ nextRun' = 0 /\ written' = {} /\ threw' = {} /\ count' = D!NumWorkers /\ holder' = "none"
        /\ UNCHANGED <<queue, at, index, of>>
    BY <1>1 DEF D!Begin
  <2>2. sweep \in Nat /\ queue = 0 /\ Pending = {}
    <3>1. sweep \in Nat BY DEF D!TypeOK
    <3>2. sweep > 0 => count = 0 BY <2>1 DEF LatchInv
    <3>3. sweep = 0 => queue = 0 /\ Pending = {} BY DEF LatchInv
    <3> QED BY <3>1, <3>2, <3>3, LatchIsDown
  <2>3. Pending' = {} BY <2>1, <2>2, SamePending
  <2>4. \A w \in Workers : at[w] # "run" /\ at[w] \notin {"leave", "held"} BY <2>2 DEF Pending
  <2>5. Cardinality({}) = 0 BY FS_EmptySet
  <2>6. D!NumWorkers \in Nat \ {0} BY WorkersCount
  <2>7. D!TypeOK' BY <2>1, <2>2, <2>6 DEF D!TypeOK
  <2>8. LatchInv' BY <2>1, <2>2, <2>3, <2>5, <2>6 DEF LatchInv, D!NumWorkers
  <2>9. RunInv' BY <2>1, <2>4, <2>6 DEF RunInv, D!SlotsAreOwn, D!AllRuns, D!NumWorkers
  <2> QED BY <2>7, <2>8, <2>9
<1>2. CASE D!Submit
  <2>1. /\ driver = "submit" /\ sent < D!NumWorkers /\ sent' = sent + 1 /\ queue' = queue + 1
        /\ UNCHANGED <<sweep, driver, nextRun, written, threw, count, holder, at, index, of>>
    BY <1>2 DEF D!Submit
  <2>2. /\ sent \in Nat /\ queue \in Nat /\ Cardinality(Pending) \in Nat /\ D!NumWorkers \in Nat
    BY WorkersCount, PendingCount DEF D!TypeOK
  <2>3. Pending' = Pending BY <2>1, SamePending
  <2>4. D!TypeOK' BY <2>1, <2>2 DEF D!TypeOK
  <2>5. LatchInv' BY <2>1, <2>2, <2>3 DEF LatchInv, D!NumWorkers
  <2>6. RunInv' BY <2>1 DEF RunInv, D!SlotsAreOwn, D!NumWorkers
  <2> QED BY <2>4, <2>5, <2>6
<1>3. ASSUME UNCHANGED <<sweep, sent, queue, nextRun, written, threw, count, at, index, of>>,
             driver # "idle", holder' \in {holder, "driver", "none"},
             driver' \in {"poll", "lock", "check", "asleep", "idle"}, 
             driver' = "idle" => count = 0, driver = "submit" => sent = D!NumWorkers
      PROVE SweepInv'
  <2>1. Pending' = Pending BY <1>3, SamePending
  <2>2. D!TypeOK' BY <1>3 DEF D!TypeOK
  <2>3. LatchInv' BY <1>3, <2>1 DEF LatchInv, D!NumWorkers
  <2>4. RunInv' BY <1>3 DEF RunInv, D!SlotsAreOwn, D!NumWorkers
  <2> QED BY <2>2, <2>3, <2>4
<1>4. CASE D!Submitted BY <1>3, <1>4 DEF D!Submitted
<1>5. CASE D!Poll BY <1>3, <1>5 DEF D!Poll
<1>6. CASE D!LockLatch BY <1>3, <1>6 DEF D!LockLatch
<1>7. CASE D!Check BY <1>3, <1>7 DEF D!Check
<1>8. CASE D!Spurious BY <1>3, <1>8 DEF D!Spurious
<1> QED BY <1>1, <1>2, <1>4, <1>5, <1>6, <1>7, <1>8 DEF D!Driver

\* Where a step leaves its worker.
LEMMA Moves ==
    ASSUME D!TypeOK, NEW w \in Workers, NEW s \in D!Steps, D!Goto(w, s)
    PROVE /\ at'[w] = s /\ \A v \in Workers : v # w => at'[v] = at[v]
          /\ at' \in [Workers -> D!Steps]
  BY DEF D!TypeOK, D!Goto

LEMMA TakeStep ==
    ASSUME WorkersKnown, SweepInv, NEW w \in Workers, D!TakeTask(w) PROVE SweepInv'
<1> USE DEF SweepInv
<1>1. /\ at[w] = "idle" /\ queue > 0 /\ queue' = queue - 1 /\ D!Goto(w, "claim")
      /\ of' = [of EXCEPT ![w] = sweep]
      /\ UNCHANGED <<sweep, driver, sent, nextRun, written, threw, count, holder, index>>
  BY DEF D!TakeTask, D!driverVars, D!runVars, D!latchVars
<1>2. at'[w] = "claim" /\ (\A v \in Workers : v # w => at'[v] = at[v]) /\ at' \in [Workers -> D!Steps]
  <2>1. "claim" \in D!Steps BY DEF D!Steps
  <2> QED BY <1>1, <2>1, Moves
<1>3. w \notin Pending /\ Pending' = Pending \cup {w} BY <1>1, <1>2 DEF Pending
<1>4. Cardinality(Pending') = Cardinality(Pending) + 1
  BY <1>3, PendingCount, FS_AddElement
<1>5. queue \in Nat /\ sweep \in Nat /\ sent \in Nat /\ count \in Nat /\ D!NumWorkers \in Nat /\ Cardinality(Pending) \in Nat
  BY WorkersCount, PendingCount DEF D!TypeOK
<1>6. D!TypeOK'
  <2>1. of' \in [Workers -> Nat] BY <1>1, <1>5 DEF D!TypeOK
  <2>2. queue' \in Nat BY <1>1, <1>5
  <2> QED BY <1>1, <1>2, <2>1, <2>2 DEF D!TypeOK
<1>7. LatchInv'
  <2>1. sweep > 0 BY <1>1, <1>5 DEF LatchInv
  <2>2. count = D!NumWorkers - sent + (queue - 1) + (Cardinality(Pending) + 1)
    BY <2>1, <1>5 DEF LatchInv
  <2>3. \A v \in Pending' : of'[v] = sweep BY <1>1, <1>3 DEF LatchInv, D!TypeOK, Pending
  <2>4. D!NumWorkers' = D!NumWorkers BY DEF D!NumWorkers
  <2>5. count' = D!NumWorkers' - sent' + queue' + Cardinality(Pending')
    BY <1>1, <1>4, <2>2, <2>4
  <2> QED BY <1>1, <2>1, <2>3, <2>4, <2>5 DEF LatchInv
<1>8. RunInv' BY <1>1, <1>2 DEF RunInv, D!SlotsAreOwn, D!NumWorkers
<1> QED BY <1>6, <1>7, <1>8

\* A worker that keeps its task leaves the latch's sum alone.
LEMMA LatchKept ==
    ASSUME WorkersKnown, D!TypeOK, LatchInv, NEW w \in Workers, NEW s \in D!Steps, D!Goto(w, s),
           at[w] \in {"claim", "run", "leave", "held"} <=> s \in {"claim", "run", "leave", "held"},
           UNCHANGED <<sweep, sent, queue, count, of>>,
           driver' = driver \/ (driver = "asleep" /\ driver' = "lock")
    PROVE LatchInv' /\ Pending' = Pending
<1>1. at'[w] = s /\ \A v \in Workers : v # w => at'[v] = at[v] BY Moves
<1>2. Pending' = Pending BY <1>1 DEF Pending
<1> QED BY <1>2 DEF LatchInv, D!NumWorkers

LEMMA ClaimStep ==
    ASSUME WorkersKnown, SweepInv, NEW w \in Workers, D!Claim(w) PROVE SweepInv'
<1> USE DEF SweepInv
<1> DEFINE s == IF nextRun >= NumRuns THEN "leave" ELSE "run"
<1>1. /\ at[w] = "claim" /\ nextRun' = nextRun + 1 /\ index' = [index EXCEPT ![w] = nextRun]
      /\ D!Goto(w, s)
      /\ UNCHANGED <<sweep, driver, sent, queue, written, threw, count, holder, of>>
  BY DEF D!Claim, D!driverVars, D!poolVars, D!latchVars
<1>2. s \in D!Steps /\ s \in {"leave", "run"} BY DEF D!Steps
<1>3. at'[w] = s /\ (\A v \in Workers : v # w => at'[v] = at[v]) /\ at' \in [Workers -> D!Steps]
  BY <1>1, <1>2, Moves
<1>4. LatchInv' BY <1>1, <1>2, LatchKept
<1>5. nextRun \in Nat /\ NumRuns \in Nat BY DEF D!TypeOK, WorkersKnown
<1>6. index'[w] = nextRun /\ \A v \in Workers : v # w => index'[v] = index[v]
  BY <1>1 DEF D!TypeOK
<1>7. D!TypeOK'
  <2>1. index' \in [Workers -> Nat] BY <1>1, <1>5 DEF D!TypeOK
  <2>2. nextRun' \in Nat BY <1>1, <1>5
  <2> QED BY <1>1, <1>3, <2>1, <2>2 DEF D!TypeOK
<1>8. RunInv'
  <2>1. \A i \in written' : i < nextRun'
    <3>1. \A i \in written : i \in Int BY DEF D!TypeOK, D!AllRuns
    <3> QED BY <1>1, <1>5, <3>1 DEF RunInv
  <2>2. \A v \in Workers : at'[v] = "run" => index'[v] \in D!AllRuns /\ index'[v] < nextRun'
    <3>1. s = "run" => nextRun \in D!AllRuns BY <1>5 DEF D!AllRuns
    <3>2. \A v \in Workers : v # w /\ at'[v] = "run" => index[v] \in D!AllRuns /\ index[v] < nextRun + 1
      BY <1>3, <1>5 DEF RunInv, D!AllRuns
    <3> QED BY <1>1, <1>3, <1>5, <1>6, <3>1, <3>2
  <2>3. D!SlotsAreOwn'
    <3>1. nextRun \notin written BY <1>5 DEF RunInv
    <3>2. \A v \in Workers : v # w /\ at[v] = "run" => index[v] # nextRun BY <1>5 DEF RunInv
    <3> QED BY <1>1, <1>3, <1>6, <3>1, <3>2 DEF RunInv, D!SlotsAreOwn
  <2>4. \A i \in D!AllRuns : i < nextRun' => i \in written' \/ \E v \in Workers : at'[v] = "run" /\ index'[v] = i
    <3>1. SUFFICES ASSUME NEW i \in D!AllRuns, i < nextRun + 1
                   PROVE i \in written \/ \E v \in Workers : at'[v] = "run" /\ index'[v] = i
      BY <1>1
    <3>2. CASE i = nextRun
      <4>1. s = "run" BY <1>5, <3>2 DEF D!AllRuns
      <4> QED BY <1>3, <1>6, <3>2, <4>1
    <3>3. CASE i # nextRun
      <4>1. i < nextRun BY <1>5, <3>1, <3>3 DEF D!AllRuns
      <4>2. i \in written \/ \E v \in Workers : at[v] = "run" /\ index[v] = i BY <4>1 DEF RunInv
      <4> QED BY <1>1, <1>3, <1>6, <4>2
    <3> QED BY <3>2, <3>3
  <2>5. \A v \in Workers : at'[v] \in {"leave", "held"} => nextRun' >= NumRuns
    <3>1. \A v \in Workers : v # w /\ at'[v] \in {"leave", "held"} => nextRun >= NumRuns
      BY <1>3 DEF RunInv
    <3>2. s = "leave" => nextRun >= NumRuns OBVIOUS
    <3> QED BY <1>1, <1>2, <1>3, <1>5, <3>1, <3>2
  <2>6. (sweep > 0 /\ count < D!NumWorkers => nextRun >= NumRuns)' BY <1>1, <1>5 DEF RunInv, D!NumWorkers
  <2> QED BY <2>1, <2>2, <2>3, <2>4, <2>5, <2>6 DEF RunInv
<1> QED BY <1>4, <1>7, <1>8

LEMMA ExecuteStep ==
    ASSUME WorkersKnown, SweepInv, NEW w \in Workers, D!Execute(w) PROVE SweepInv'
<1> USE DEF SweepInv
<1>1. /\ at[w] = "run" /\ D!Goto(w, "claim") /\ written' = written \cup {index[w]}
      /\ threw' = threw \/ threw' = threw \cup {index[w]}
      /\ UNCHANGED <<sweep, driver, sent, queue, nextRun, count, holder, index, of>>
  BY DEF D!Execute, D!driverVars, D!poolVars, D!latchVars
<1>2. "claim" \in D!Steps BY DEF D!Steps
<1>3. at'[w] = "claim" /\ (\A v \in Workers : v # w => at'[v] = at[v]) /\ at' \in [Workers -> D!Steps]
  BY <1>1, <1>2, Moves
<1>4. LatchInv' BY <1>1, <1>2, LatchKept
<1>5. index[w] \in D!AllRuns /\ index[w] < nextRun BY <1>1 DEF RunInv
<1>6. D!TypeOK' BY <1>1, <1>3, <1>5 DEF D!TypeOK
<1>7. D!SlotsAreOwn' BY <1>1, <1>3 DEF RunInv, D!SlotsAreOwn
<1>8. RunInv' BY <1>1, <1>3, <1>5, <1>7 DEF RunInv, D!NumWorkers
<1> QED BY <1>4, <1>6, <1>8

\* Steps of countDown() that keep the counter.
LEMMA LatchStep ==
    ASSUME WorkersKnown, SweepInv, NEW w \in Workers, D!Enter(w) \/ D!Notify(w) \/ D!Unlock(w) PROVE SweepInv'
<1> USE DEF SweepInv
<1>1. ASSUME NEW s \in D!Steps, D!Goto(w, s), s # "run",
             s \in {"leave", "held"} => at[w] \in {"leave", "held"},
             at[w] # "run", at[w] \in {"claim", "run", "leave", "held"} <=> s \in {"claim", "run", "leave", "held"},
             UNCHANGED <<sweep, sent, queue, nextRun, written, threw, count, index, of>>,
             holder' \in Workers \cup {"none", holder},
             driver' = driver \/ (driver = "asleep" /\ driver' = "lock")
      PROVE SweepInv'
  <2>1. at'[w] = s /\ (\A v \in Workers : v # w => at'[v] = at[v]) /\ at' \in [Workers -> D!Steps]
    BY <1>1, Moves
  <2>2. LatchInv' BY <1>1, LatchKept
  <2>3. D!TypeOK' BY <1>1, <2>1 DEF D!TypeOK
  <2>4. \A v \in Workers : at'[v] = "run" <=> at[v] = "run" BY <1>1, <2>1
  <2>5. RunInv' BY <1>1, <2>1, <2>4 DEF RunInv, D!SlotsAreOwn, D!NumWorkers
  <2> QED BY <2>2, <2>3, <2>5
<1>2. CASE D!Enter(w)
  BY <1>1, <1>2, "held" \in D!Steps DEF D!Enter, D!Steps, D!driverVars, D!poolVars, D!runVars
<1>3. CASE D!Notify(w)
  BY <1>1, <1>3, "unlock" \in D!Steps DEF D!Notify, D!Steps, D!poolVars, D!runVars, D!latchVars
<1>4. CASE D!Unlock(w)
  BY <1>1, <1>4, "idle" \in D!Steps DEF D!Unlock, D!Steps, D!driverVars, D!poolVars, D!runVars
<1> QED BY <1>2, <1>3, <1>4

LEMMA LowerStep ==
    ASSUME WorkersKnown, SweepInv, NEW w \in Workers, D!Lower(w) PROVE SweepInv'
<1> USE DEF SweepInv
<1> DEFINE s == IF count = 1 THEN "notify" ELSE "unlock"
<1>1. /\ at[w] = "held" /\ count' = count - 1 /\ D!Goto(w, s)
      /\ UNCHANGED <<sweep, driver, sent, queue, nextRun, written, threw, holder, index, of>>
  BY DEF D!Lower, D!driverVars, D!poolVars, D!runVars
<1>2. s \in D!Steps /\ s \in {"notify", "unlock"} BY DEF D!Steps
<1>3. at'[w] = s /\ (\A v \in Workers : v # w => at'[v] = at[v]) /\ at' \in [Workers -> D!Steps]
  BY <1>1, <1>2, Moves
<1>4. w \in Pending /\ Pending' = Pending \ {w} BY <1>1, <1>2, <1>3 DEF Pending
<1>5. Cardinality(Pending') = Cardinality(Pending) - 1
  BY <1>4, PendingCount, FS_RemoveElement
<1>6. /\ sweep \in Nat /\ queue \in Nat /\ sent \in Nat /\ count \in Nat /\ D!NumWorkers \in Nat
      /\ Cardinality(Pending) \in Nat /\ Cardinality(Pending) # 0
  BY <1>4, WorkersCount, PendingCount DEF D!TypeOK
<1>7. sweep > 0 /\ sent <= D!NumWorkers /\ count = D!NumWorkers - sent + queue + Cardinality(Pending)
  BY <1>4, <1>6 DEF LatchInv
<1>8. count > 0 BY <1>6, <1>7
<1>9. D!TypeOK' BY <1>1, <1>3, <1>6, <1>8 DEF D!TypeOK
<1>10. LatchInv'
  <2>1. driver # "idle" BY <1>7, <1>8 DEF LatchInv
  <2>2. count - 1 = D!NumWorkers - sent + queue + (Cardinality(Pending) - 1) BY <1>6, <1>7
  <2>3. D!NumWorkers' = D!NumWorkers BY DEF D!NumWorkers
  <2>4. count' = D!NumWorkers' - sent' + queue' + Cardinality(Pending') BY <1>1, <1>5, <2>2, <2>3
  <2>5. \A v \in Pending' : of'[v] = sweep' BY <1>1, <1>4 DEF LatchInv
  <2> QED BY <1>1, <1>7, <2>1, <2>3, <2>4, <2>5 DEF LatchInv
<1>11. RunInv'
  <2>1. nextRun >= NumRuns BY <1>1 DEF RunInv
  <2>2. \A v \in Workers : at'[v] = "run" <=> at[v] = "run" BY <1>1, <1>2, <1>3
  <2> QED BY <1>1, <1>2, <1>3, <2>1, <2>2 DEF RunInv, D!SlotsAreOwn, D!NumWorkers
<1> QED BY <1>9, <1>10, <1>11

LEMMA SweepStep == ASSUME WorkersKnown, SweepInv, [D!Next]_(D!vars) PROVE SweepInv'
<1>1. CASE UNCHANGED D!vars
  <2>1. UNCHANGED <<sweep, driver, sent, queue, nextRun, written, threw, count, holder, at, index, of>>
    BY <1>1 DEF D!vars, D!driverVars, D!poolVars, D!runVars, D!latchVars, D!workerVars
  <2>2. Pending' = Pending BY <2>1, SamePending
  <2> QED BY <2>1, <2>2 DEF SweepInv, D!TypeOK, LatchInv, RunInv, D!SlotsAreOwn, D!NumWorkers
<1>2. ASSUME NEW w \in Workers, D!Work(w) PROVE SweepInv'
  BY <1>2, TakeStep, ClaimStep, ExecuteStep, LatchStep, LowerStep DEF D!Work
<1> QED BY <1>1, <1>2, DriverStep DEF D!Next

LEMMA InvHolds == ASSUME WorkersKnown PROVE D!Spec => []SweepInv
<1>1. D!Init => SweepInv BY InitSweep
<1>2. SweepInv /\ [D!Next]_(D!vars) => SweepInv' BY SweepStep
<1> QED BY <1>1, <1>2, PTL DEF D!Spec

-----------------------------------------------------------------------------

\* Type correctness, for every number of workers, runs and sweeps.
THEOREM SweepTypes == ASSUME WorkersKnown PROVE D!Spec => []D!TypeOK
<1>1. SweepInv => D!TypeOK BY DEF SweepInv
<1> QED BY <1>1, InvHolds, PTL

\* SlotsAreOwn: the counter gives each index to one worker, once a sweep, though
\* a worker may execute more than one task of it.
THEOREM SlotsStayOwn == ASSUME WorkersKnown PROVE D!Spec => []D!SlotsAreOwn
<1>1. SweepInv => D!SlotsAreOwn BY DEF SweepInv, RunInv
<1> QED BY <1>1, InvHolds, PTL

\* ReturnsAll: a latch at zero, polled or waited for, means that every result has
\* been written: execute() returns all of them.
THEOREM SweepsReturnAll == ASSUME WorkersKnown PROVE D!Spec => []D!ReturnsAll
<1>1. ASSUME SweepInv PROVE D!ReturnsAll
  <2>1. SUFFICES ASSUME driver = "idle", sweep > 0 PROVE written = D!AllRuns BY DEF D!ReturnsAll
  <2>2. count = 0 /\ Pending = {}
    <3>1. count = 0 BY <1>1, <2>1 DEF SweepInv, LatchInv
    <3> QED BY <1>1, <2>1, <3>1, LatchIsDown DEF SweepInv
  <2>3. nextRun \in Nat /\ nextRun >= NumRuns
    BY <1>1, <2>1, <2>2, WorkersCount DEF SweepInv, D!TypeOK, RunInv
  <2>4. ASSUME NEW i \in D!AllRuns PROVE i \in written
    <3>1. i < nextRun BY <2>3 DEF D!AllRuns, WorkersKnown
    <3>2. \A w \in Workers : at[w] # "run" BY <2>2 DEF Pending
    <3> QED BY <1>1, <3>1, <3>2 DEF SweepInv, RunInv
  <2>5. written \subseteq D!AllRuns BY <1>1 DEF SweepInv, D!TypeOK
  <2> QED BY <2>4, <2>5
<1> QED BY <1>1, InvHolds, PTL

-----------------------------------------------------------------------------
(* The latch that is waited for *)

\* The mutex orders the driver's look at the counter after the last countDown().
MutexInv ==
    /\ \A w \in Workers : at[w] \in {"held", "notify", "unlock"} => holder = w
    /\ driver = "check" => holder = "driver"
    /\ driver # "poll"

WaitInv == SweepInv /\ MutexInv /\ D!ContextOutlives

LEMMA WaitStep == ASSUME WorkersKnown, ~Polling, WaitInv, [D!Next]_(D!vars) PROVE WaitInv'
<1> USE DEF WaitInv
<1>1. SweepInv' BY SweepStep
<1>2. CASE D!Begin
  <2>1. driver = "idle" /\ driver' = "submit" /\ UNCHANGED <<at, of>> BY <1>2 DEF D!Begin, D!workerVars
  <2>2. \A w \in Workers : at[w] = "idle" BY <2>1 DEF D!ContextOutlives
  <2> QED BY <1>1, <2>1, <2>2 DEF MutexInv, D!ContextOutlives
<1>3. CASE D!Submit \/ D!Submitted \/ D!Spurious
  <2>1. /\ driver # "idle" /\ driver' \in {"submit", "lock"} /\ UNCHANGED <<sweep, holder, at, of>>
    BY <1>3 DEF D!Submit, D!Submitted, D!Spurious, D!driverVars, D!latchVars, D!workerVars
  <2> QED BY <1>1, <2>1 DEF MutexInv, D!ContextOutlives
<1>4. CASE D!Poll BY <1>4 DEF D!Poll, MutexInv
<1>5. CASE D!LockLatch
  <2>1. /\ driver = "lock" /\ holder = "none" /\ driver' = "check" /\ holder' = "driver"
        /\ UNCHANGED <<sweep, at, of>>
    BY <1>5 DEF D!LockLatch, D!workerVars
  <2>2. \A w \in Workers : at[w] \notin {"held", "notify", "unlock"}
    BY <2>1 DEF MutexInv, WorkersKnown
  <2> QED BY <1>1, <2>1, <2>2 DEF MutexInv, D!ContextOutlives
<1>6. CASE D!Check
  <2>1. /\ driver = "check" /\ driver' = (IF count = 0 THEN "idle" ELSE "asleep") /\ holder' = "none"
        /\ UNCHANGED <<sweep, at, of>>
    BY <1>6 DEF D!Check, D!workerVars
  <2>2. \A w \in Workers : at[w] \notin {"held", "notify", "unlock"}
    BY <2>1 DEF MutexInv, WorkersKnown
  <2>3. ASSUME count = 0 PROVE \A w \in Workers : at[w] = "idle"
    <3>1. sweep > 0 BY <2>1 DEF SweepInv, LatchInv, D!TypeOK
    <3>2. Pending = {} BY <2>3, <3>1, LatchIsDown DEF SweepInv
    <3> QED BY <2>2, <3>2 DEF Pending, SweepInv, D!TypeOK, D!Steps
  <2> QED BY <1>1, <2>1, <2>2, <2>3 DEF MutexInv, D!ContextOutlives
<1>7. ASSUME NEW w \in Workers, D!Work(w) PROVE MutexInv' /\ D!ContextOutlives'
  <2>1. ASSUME D!TakeTask(w) PROVE MutexInv' /\ D!ContextOutlives'
    <3>1. /\ at[w] = "idle" /\ queue > 0 /\ D!Goto(w, "claim") /\ of' = [of EXCEPT ![w] = sweep]
          /\ UNCHANGED <<sweep, driver, holder>>
      BY <2>1 DEF D!TakeTask, D!driverVars, D!latchVars
    <3>2. at'[w] = "claim" /\ \A v \in Workers : v # w => at'[v] = at[v]
      BY <3>1, "claim" \in D!Steps, Moves DEF SweepInv, D!Steps
    <3>3. driver # "idle"
      <4>1. ASSUME driver = "idle" PROVE FALSE
        <5>1. sweep > 0 /\ count = 0 BY <3>1, <4>1 DEF SweepInv, LatchInv, D!TypeOK
        <5>2. queue = 0 BY <5>1, LatchIsDown DEF SweepInv
        <5> QED BY <3>1, <5>2
      <4> QED BY <4>1
    <3> QED BY <3>1, <3>2, <3>3 DEF MutexInv, D!ContextOutlives, SweepInv, D!TypeOK
  <2>2. ASSUME D!Claim(w) \/ D!Execute(w) PROVE MutexInv' /\ D!ContextOutlives'
    <3>1. PICK s \in {"claim", "run", "leave"} : D!Goto(w, s)
      BY <2>2 DEF D!Claim, D!Execute
    <3>2. at[w] # "idle" /\ UNCHANGED <<sweep, driver, holder, of>>
      BY <2>2 DEF D!Claim, D!Execute, D!driverVars, D!latchVars
    <3>3. at'[w] = s /\ \A v \in Workers : v # w => at'[v] = at[v]
      BY <3>1, Moves DEF SweepInv, D!Steps
    <3> QED BY <3>2, <3>3 DEF MutexInv, D!ContextOutlives
  <2>3. ASSUME D!Enter(w) PROVE MutexInv' /\ D!ContextOutlives'
    <3>1. at[w] = "leave" /\ holder = "none" /\ holder' = w /\ D!Goto(w, "held") /\ UNCHANGED <<sweep, driver, of>>
      BY <2>3 DEF D!Enter, D!driverVars
    <3>2. at'[w] = "held" /\ \A v \in Workers : v # w => at'[v] = at[v]
      BY <3>1, Moves DEF SweepInv, D!Steps
    <3>3. (\A v \in Workers : at[v] \notin {"held", "notify", "unlock"}) /\ driver # "check"
      BY <3>1 DEF MutexInv, WorkersKnown
    <3> QED BY <3>1, <3>2, <3>3 DEF MutexInv, D!ContextOutlives
  <2>4. ASSUME D!Lower(w) \/ D!Notify(w) PROVE MutexInv' /\ D!ContextOutlives'
    <3>1. PICK s \in {"notify", "unlock"} : D!Goto(w, s) BY <2>4 DEF D!Lower, D!Notify
    <3>2. /\ at[w] \in {"held", "notify"} /\ UNCHANGED <<sweep, holder, of>>
          /\ driver' = driver \/ (driver = "asleep" /\ driver' = "lock")
      <4>1. CASE D!Lower(w) BY <4>1 DEF D!Lower, D!driverVars
      <4>2. CASE D!Notify(w) BY <4>2 DEF D!Notify, D!latchVars
      <4> QED BY <2>4, <4>1, <4>2
    <3>3. at'[w] = s /\ \A v \in Workers : v # w => at'[v] = at[v]
      BY <3>1, Moves DEF SweepInv, D!Steps
    <3> QED BY <3>1, <3>2, <3>3 DEF MutexInv, D!ContextOutlives
  <2>5. ASSUME D!Unlock(w) PROVE MutexInv' /\ D!ContextOutlives'
    <3>1. at[w] = "unlock" /\ holder' = (IF holder = w THEN "none" ELSE holder) /\ D!Goto(w, "idle")
          /\ UNCHANGED <<sweep, driver, of>>
      BY <2>5 DEF D!Unlock, D!driverVars
    <3>2. at'[w] = "idle" /\ \A v \in Workers : v # w => at'[v] = at[v]
      BY <3>1, Moves DEF SweepInv, D!Steps
    <3>3. holder = w /\ driver # "check" BY <3>1 DEF MutexInv, WorkersKnown
    <3>4. \A v \in Workers : v # w => at[v] \notin {"held", "notify", "unlock"}
      BY <3>3 DEF MutexInv
    <3> QED BY <3>1, <3>2, <3>3, <3>4 DEF MutexInv, D!ContextOutlives
  <2> QED BY <1>7, <2>1, <2>2, <2>3, <2>4, <2>5 DEF D!Work
<1>8. CASE UNCHANGED D!vars
  <2>1. UNCHANGED <<sweep, driver, holder, at, of>>
    BY <1>8 DEF D!vars, D!driverVars, D!latchVars, D!workerVars
  <2> QED BY <1>1, <2>1 DEF MutexInv, D!ContextOutlives
<1> QED BY <1>1, <1>2, <1>3, <1>4, <1>5, <1>6, <1>7, <1>8 DEF D!Next, D!Driver

\* ContextOutlives when execute() waits: it returns, and its stack goes, only
\* after the last countDown() has left the mutex.  When it polls there is no such
\* order, and small instances refute it.
THEOREM WaitedContextOutlives ==
    ASSUME WorkersKnown, ~Polling PROVE D!Spec => []D!ContextOutlives
<1>1. D!Init => WaitInv
  BY InitSweep DEF D!Init, WaitInv, MutexInv, D!ContextOutlives
<1>2. WaitInv /\ [D!Next]_(D!vars) => WaitInv' BY WaitStep
<1>3. WaitInv => D!ContextOutlives BY DEF WaitInv
<1> QED BY <1>1, <1>2, <1>3, PTL DEF D!Spec

----------------------------------------------------------------------------
(* The parameter bank.                                                     *)

USE BankAssumption DEF BankAssumption

\* Words below the cursor have the value that is being stored.
StoredSoFar ==
    wpc = "store" => \A w \in 1 .. wword - 1 : banks[stagedIdx][w] = wset

\* A bank is whole unless it is the one being written.
BanksWhole ==
    \A b \in 0 .. 1 : (wpc = "store" /\ b = stagedIdx) \/ \E v \in Sets : banks[b] = Whole(v)

\* The rollback source is the bank that is staged into next, and untouched.
PrevWhole ==
    prevIdx # None => /\ wpc = "idle" /\ prevIdx = stagedIdx /\ published
                      /\ banks[prevIdx] = Whole(replaced)

\* What was staged is untouched.
FreshWhole ==
    fresh => wpc = "idle" /\ stagedValid /\ banks[stagedIdx] = Whole(staged)

\* A reader's counter is even and not ahead; while it has not moved, the bank it
\* copies is whole, was active during the read and agrees with the copy so far.
ReaderInv ==
    \A r \in Readers :
        /\ rpc[r] # "idle" => Active \in seen[r]
        /\ rpc[r] \in {"idx", "copy"} => s0[r] <= seq /\ Even(s0[r])
        /\ rpc[r] = "copy" /\ s0[r] = seq =>
              \E v \in seen[r] : /\ banks[idx[r]] = Whole(v)
                                 /\ \A w \in 1 .. rword[r] - 1 : words[r][w] = v

IInv == TypeOK /\ StoredSoFar /\ BanksWhole /\ PrevWhole /\ FreshWhole /\ ReaderInv
        /\ ReadsAreWhole

LEMMA EvenStep == ASSUME NEW n \in Nat PROVE Even(n + 1) <=> ~Even(n)
  BY DEF Even

\* TypeOK in three parts.
TypeControl ==
    /\ banks \in [0 .. 1 -> [WordIdx -> Sets]]
    /\ seq \in Nat /\ activeIdx \in 0 .. 1
    /\ stagedIdx = 1 - activeIdx
    /\ prevIdx \in {0, 1, None} /\ stagedValid \in BOOLEAN /\ published \in BOOLEAN
    /\ calls \in 0 .. MaxCalls
    /\ wpc \in {"idle", "odd", "store"}
    /\ wset \in Sets /\ wword \in 1 .. Words + 1
    /\ replaced \in Sets /\ staged \in Sets /\ fresh \in BOOLEAN

Parity == Even(seq) <=> (wpc # "store")

TypeReaders ==
    /\ rpc \in [Readers -> {"idle", "seq", "idx", "copy"}]
    /\ s0 \in [Readers -> Nat] /\ idx \in [Readers -> 0 .. 1]
    /\ rword \in [Readers -> 1 .. Words + 1]
    /\ words \in [Readers -> [WordIdx -> Sets]]
    /\ result \in [Readers -> [WordIdx -> Sets]]
    /\ seen \in [Readers -> SUBSET Sets]

LEMMA TypeParts == TypeOK <=> TypeControl /\ Parity /\ TypeReaders
  BY Zenon DEF TypeOK, TypeControl, Parity, TypeReaders

LEMMA TypePartsNext == TypeOK' <=> TypeControl' /\ Parity' /\ TypeReaders'
  BY Zenon DEF TypeOK, TypeControl, Parity, TypeReaders

LEMMA WordOne == 1 \in WordIdx
  BY DEF WordIdx

LEMMA InitType == Init => TypeOK
<1> SUFFICES ASSUME Init PROVE TypeOK
  OBVIOUS
<1>1. Whole(Default) \in [WordIdx -> Sets]
  BY DEF Whole
<1>2. Parity
  BY DEF Init, Parity, Even
<1>3. TypeControl
  <2>1. banks \in [0 .. 1 -> [WordIdx -> Sets]]
    BY <1>1 DEF Init
  <2>2. /\ seq = 0 /\ activeIdx = 0 /\ stagedIdx = 1 /\ prevIdx = 2 /\ calls = 0
        /\ wpc = "idle" /\ wset = Default /\ wword = 1 /\ replaced = Default
        /\ staged = Default
    BY DEF Init, None
  <2>3. stagedValid \in BOOLEAN /\ published \in BOOLEAN /\ fresh \in BOOLEAN
    BY DEF Init
  <2>4. QED BY <2>1, <2>2, <2>3 DEF TypeControl, None
<1>4. TypeReaders
  BY <1>1 DEF Init, TypeReaders
<1>5. QED BY <1>2, <1>3, <1>4, TypeParts

\* TypeOK alone is inductive.
LEMMA ControlTypes ==
  ASSUME TypeOK, Store \/ Control PROVE TypeControl' /\ Parity' /\ UNCHANGED readerVars
<1> USE DEF None
<1>a. TypeControl /\ Parity
  BY TypeParts
<1>b. Called => calls' \in 0 .. MaxCalls /\ wpc = "idle"
  BY <1>a DEF Called, TypeControl
<1>1. CASE LoadRejected
  BY <1>a, <1>b, <1>1 DEF LoadRejected, bankVars, TypeControl, Parity
<1>2. ASSUME NEW v \in Valid, LoadAccepted(v)
      PROVE TypeControl' /\ Parity' /\ UNCHANGED readerVars
  BY <1>a, <1>b, <1>2 DEF LoadAccepted, ForfeitedPrev, bankVars, TypeControl, Parity
<1>3. CASE OpenBracket
  BY <1>a, <1>3, EvenStep DEF OpenBracket, indexVars, ghostVars, TypeControl, Parity
<1>4. CASE StoreWord
  <2>1. wword \in WordIdx /\ stagedIdx \in 0 .. 1
    BY <1>a, <1>4 DEF StoreWord, TypeControl, WordIdx
  <2>2. banks' \in [0 .. 1 -> [WordIdx -> Sets]]
    BY <1>a, <1>4, <2>1 DEF StoreWord, TypeControl
  <2>3. QED BY <1>a, <1>4, <2>1, <2>2 DEF StoreWord, indexVars, ghostVars, TypeControl, Parity,
                                        WordIdx
<1>5. CASE CloseBracket
  BY <1>a, <1>5, EvenStep DEF CloseBracket, Closed, Marked, TypeControl, Parity
<1>6. ASSUME NEW b \in 0 .. 1, Publish(b)
      PROVE activeIdx' = b /\ published' \in BOOLEAN /\ fresh' \in BOOLEAN
  BY <1>6 DEF Publish
<1>7. CASE PublishInitial \/ Apply
  <2>1. stagedIdx \in 0 .. 1 /\ Active \in Sets
    BY <1>a, WordOne DEF TypeControl, Active
  <2>2. /\ UNCHANGED <<banks, seq, stagedValid, wpc, wset, wword, staged, readerVars>>
        /\ calls' \in 0 .. MaxCalls /\ Publish(stagedIdx) /\ stagedIdx' = 1 - stagedIdx
    BY <1>7, <1>b DEF PublishInitial, Apply
  <2>3. prevIdx' \in {0, 1, None} /\ replaced' \in Sets
    BY <1>a, <1>7, <2>1 DEF PublishInitial, Apply, TypeControl
  <2>4. activeIdx' = stagedIdx /\ published' \in BOOLEAN /\ fresh' \in BOOLEAN
    BY <1>6, <2>1, <2>2
  <2>5. activeIdx' \in 0 .. 1 /\ stagedIdx' = 1 - activeIdx'
    BY <2>1, <2>2, <2>4
  <2>6. Parity'
    BY <1>a, <2>2 DEF Parity
  <2>7. QED BY <1>a, <2>2, <2>3, <2>4, <2>5, <2>6 DEF TypeControl
<1>8. CASE Rollback
  <2>1. /\ UNCHANGED <<banks, seq, stagedValid, wpc, wset, wword, staged, replaced, readerVars>>
        /\ calls' \in 0 .. MaxCalls /\ Publish(prevIdx) /\ prevIdx \in 0 .. 1
        /\ stagedIdx' = 1 - prevIdx /\ prevIdx' = None
    BY <1>a, <1>8, <1>b DEF Rollback, OtherBank, TypeControl
  <2>2. activeIdx' = prevIdx /\ published' \in BOOLEAN /\ fresh' \in BOOLEAN
    BY <1>6, <2>1
  <2>3. activeIdx' \in 0 .. 1 /\ stagedIdx' = 1 - activeIdx'
    BY <2>1, <2>2
  <2>4. Parity'
    BY <1>a, <2>1 DEF Parity
  <2>5. QED BY <1>a, <2>1, <2>2, <2>3, <2>4 DEF TypeControl
<1>9. QED
  BY <1>1, <1>2, <1>3, <1>4, <1>5, <1>7, <1>8 DEF Store, Control

LEMMA SeenType == ASSUME TypeOK, Store \/ Control PROVE seen' \in [Readers -> SUBSET Sets]
<1>a. TypeControl /\ TypeReaders
  BY TypeParts
<1>1. ASSUME NEW b \in 0 .. 1, Publish(b) PROVE seen' \in [Readers -> SUBSET Sets]
  <2>1. banks[b][1] \in Sets
    BY <1>a, WordOne DEF TypeControl
  <2>2. QED BY <1>a, <1>1, <2>1 DEF Publish, TypeReaders
<1>2. CASE PublishInitial \/ Apply \/ Rollback
  <2>1. \E b \in 0 .. 1 : Publish(b)
    BY <1>a, <1>2 DEF PublishInitial, Apply, Rollback, TypeControl, None
  <2>2. QED BY <1>1, <2>1
<1>3. CASE seen' = seen
  BY <1>a, <1>3 DEF TypeReaders
<1>4. QED
  BY <1>2, <1>3 DEF Store, Control, LoadRejected, LoadAccepted, OpenBracket, StoreWord,
                    CloseBracket, ghostVars

LEMMA ReaderTypes ==
  ASSUME TypeOK, NEW r \in Readers, ReadBegin(r) \/ ReadOn(r)
  PROVE  TypeReaders' /\ UNCHANGED readerOnly
<1>a. TypeControl /\ TypeReaders
  BY TypeParts
<1>1. CASE ReadBegin(r)
  <2>1. Active \in Sets
    BY <1>a, WordOne DEF Active, TypeControl
  <2>2. QED BY <1>a, <1>1, <2>1 DEF ReadBegin, RGoes, TypeReaders
<1>2. CASE LoadSeq(r)
  BY <1>a, <1>2 DEF LoadSeq, RGoes, TypeReaders, TypeControl
<1>3. CASE LoadIdx(r)
  BY <1>a, <1>3 DEF LoadIdx, RGoes, TypeReaders, TypeControl
<1>4. CASE CopyWord(r)
  <2>1. rword[r] \in WordIdx /\ rword[r] + 1 \in 1 .. Words + 1
    BY <1>a, <1>4 DEF CopyWord, TypeReaders, WordIdx
  <2>2. banks[idx[r]][rword[r]] \in Sets
    BY <1>a, <2>1 DEF TypeControl, TypeReaders
  <2>3. words' \in [Readers -> [WordIdx -> Sets]]
    BY <1>a, <1>4, <2>1, <2>2 DEF CopyWord, TypeReaders
  <2>4. QED BY <1>a, <1>4, <2>1, <2>3 DEF CopyWord, TypeReaders
<1>5. CASE Validate(r)
  BY <1>a, <1>5 DEF Validate, RGoes, TypeReaders
<1>6. QED BY <1>1, <1>2, <1>3, <1>4, <1>5 DEF ReadOn

LEMMA TypeStep == TypeOK /\ [Next]_vars => TypeOK'
<1> SUFFICES ASSUME TypeOK, [Next]_vars PROVE TypeOK'
  OBVIOUS
<1>a. TypeControl /\ Parity /\ TypeReaders
  BY TypeParts
<1>1. CASE Store \/ Control
  <2>1. TypeControl' /\ Parity' /\ UNCHANGED readerVars /\ seen' \in [Readers -> SUBSET Sets]
    BY <1>1, ControlTypes, SeenType
  <2>2. TypeReaders'
    BY <1>a, <2>1 DEF readerVars, TypeReaders
  <2>3. QED BY <2>1, <2>2, TypePartsNext
<1>2. ASSUME NEW r \in Readers, ReadBegin(r) \/ ReadOn(r) PROVE TypeOK'
  <2>1. TypeReaders' /\ UNCHANGED readerOnly
    BY <1>2, ReaderTypes
  <2>2. TypeControl' /\ Parity'
    BY <1>a, <2>1 DEF readerOnly, bankVars, indexVars, writerVars, TypeControl, Parity
  <2>3. QED BY <2>1, <2>2, TypePartsNext
<1>3. CASE UNCHANGED vars
  <2>1. TypeControl' /\ Parity' /\ TypeReaders'
    BY <1>a, <1>3 DEF vars, bankVars, indexVars, writerVars, readerVars, ghostVars,
                      TypeControl, Parity, TypeReaders
  <2>2. QED BY <2>1, TypePartsNext
<1>4. QED BY <1>1, <1>2, <1>3 DEF Next

\* Every variable keeps its type, the counter is odd exactly within a bracket and
\* the staged bank is never the published one.
THEOREM TypeCorrect == Spec => []TypeOK
<1>1. QED BY InitType, TypeStep, PTL DEF Spec

----------------------------------------------------------------------------
(* The inductive invariant.                                                *)

LEMMA WholeValue == ASSUME NEW f, NEW v, f = Whole(v) PROVE f[1] = v
  BY DEF Whole, WordIdx

LEMMA InitIInv == Init => IInv
<1> SUFFICES ASSUME Init PROVE IInv
  OBVIOUS
<1>1. TypeOK
  BY InitType
<1>2. StoredSoFar /\ PrevWhole /\ FreshWhole
  BY DEF Init, StoredSoFar, PrevWhole, FreshWhole
<1>3. BanksWhole
  BY DEF Init, BanksWhole
<1>4. ReaderInv
  BY DEF Init, ReaderInv
<1>5. ReadsAreWhole
  BY DEF Init, ReadsAreWhole
<1>6. QED BY <1>1, <1>2, <1>3, <1>4, <1>5 DEF IInv

\* The readers' part is kept while the banks and the published index stand.
LEMMA ReadersQuiet ==
  ASSUME IInv, UNCHANGED <<banks, activeIdx, seen, rpc, s0, idx, rword, words, result>>,
         seq' \in Nat, seq' >= seq
  PROVE  ReaderInv' /\ ReadsAreWhole'
<1>1. ReaderInv'
  <2> SUFFICES ASSUME NEW r \in Readers
               PROVE /\ rpc[r] # "idle" => Active \in seen[r]
                     /\ rpc[r] \in {"idx", "copy"} => s0[r] <= seq' /\ Even(s0[r])
                     /\ rpc[r] = "copy" /\ s0[r] = seq' =>
                           \E v \in seen[r] : /\ banks[idx[r]] = Whole(v)
                                              /\ \A w \in 1 .. rword[r] - 1 : words[r][w] = v
    BY DEF ReaderInv, Active, Whole, WordIdx
  <2>1. seq \in Nat /\ s0[r] \in Nat
    BY DEF IInv, TypeOK
  <2>2. rpc[r] \in {"idx", "copy"} => s0[r] <= seq /\ Even(s0[r])
    BY DEF IInv, ReaderInv
  <2>3. rpc[r] = "copy" /\ s0[r] = seq' => s0[r] = seq
    BY <2>1, <2>2
  <2>4. QED BY <2>1, <2>2, <2>3 DEF IInv, ReaderInv
<1>2. ReadsAreWhole'
  BY DEF IInv, ReadsAreWhole, Whole, WordIdx
<1>3. QED BY <1>1, <1>2

\* A publish adds the new active set to what every reader may return.
LEMMA ReadersPublish ==
  ASSUME IInv, NEW b \in 0 .. 1, Publish(b),
         UNCHANGED <<banks, seq, rpc, s0, idx, rword, words, result>>
  PROVE  ReaderInv' /\ ReadsAreWhole'
<1>0. Active' = banks[b][1]
  BY DEF Active, Publish
<1>1. \A r \in Readers : seen'[r] = IF rpc[r] # "idle" THEN seen[r] \cup {banks[b][1]}
                                    ELSE seen[r]
  BY DEF Publish, Reading
<1>2. ReaderInv'
  <2> SUFFICES ASSUME NEW r \in Readers
               PROVE /\ rpc[r] # "idle" => banks[b][1] \in seen'[r]
                     /\ rpc[r] \in {"idx", "copy"} => s0[r] <= seq /\ Even(s0[r])
                     /\ rpc[r] = "copy" /\ s0[r] = seq =>
                           \E v \in seen'[r] : /\ banks[idx[r]] = Whole(v)
                                               /\ \A w \in 1 .. rword[r] - 1 : words[r][w] = v
    BY <1>0 DEF ReaderInv, Whole, WordIdx
  <2>1. seen[r] \subseteq seen'[r]
    BY <1>1
  <2>2. QED BY <1>1, <2>1 DEF IInv, ReaderInv
<1>3. ReadsAreWhole'
  BY <1>1 DEF IInv, ReadsAreWhole, Whole, WordIdx
<1>4. QED BY <1>2, <1>3

\* The control plane's part is kept while its variables stand.
LEMMA ControlQuiet ==
  ASSUME IInv, UNCHANGED <<banks, stagedIdx, prevIdx, stagedValid, published, wpc, wset,
                           wword, replaced, staged, fresh>>
  PROVE  StoredSoFar' /\ BanksWhole' /\ PrevWhole' /\ FreshWhole'
  BY DEF IInv, StoredSoFar, BanksWhole, PrevWhole, FreshWhole, Whole, WordIdx

LEMMA ControlStep ==
  ASSUME IInv, Control, TypeOK' PROVE IInv'
<1> USE DEF None
<1>1. CASE LoadRejected
  <2>1. /\ UNCHANGED <<banks, activeIdx, stagedIdx, prevIdx, published, wpc, wset, wword, seen,
                       rpc, s0, idx, rword, words, result, seq, replaced, staged>>
        /\ fresh' = FALSE
    BY <1>1 DEF LoadRejected, bankVars, readerVars
  <2>2. ReaderInv' /\ ReadsAreWhole'
    BY <2>1, ReadersQuiet DEF IInv, TypeOK
  <2>3. StoredSoFar' /\ BanksWhole' /\ PrevWhole' /\ FreshWhole'
    BY <2>1 DEF IInv, StoredSoFar, BanksWhole, PrevWhole, FreshWhole, Whole, WordIdx
  <2>4. QED BY <2>2, <2>3 DEF IInv
<1>2. ASSUME NEW v \in Valid, LoadAccepted(v) PROVE IInv'
  <2>1. /\ UNCHANGED <<banks, activeIdx, stagedIdx, wword, seen,
                       rpc, s0, idx, rword, words, result, seq, replaced, staged>>
        /\ fresh' = FALSE /\ wpc = "idle" /\ wpc' = "odd"
        /\ prevIdx' = IF prevIdx = stagedIdx THEN None ELSE prevIdx
    BY <1>2 DEF LoadAccepted, Called, ForfeitedPrev, bankVars, readerVars
  <2>2. ReaderInv' /\ ReadsAreWhole'
    BY <2>1, ReadersQuiet DEF IInv, TypeOK
  <2>3. prevIdx' = None
    BY <2>1 DEF IInv, PrevWhole
  <2>4. StoredSoFar' /\ BanksWhole' /\ PrevWhole' /\ FreshWhole'
    BY <2>1, <2>3 DEF IInv, StoredSoFar, BanksWhole, PrevWhole, FreshWhole, Whole, WordIdx
  <2>5. QED BY <2>2, <2>4 DEF IInv
<1>3. ASSUME PublishInitial \/ Apply PROVE IInv'
  <2>1. /\ UNCHANGED <<banks, wpc, wset, wword, rpc, s0, idx, rword, words, result, seq,
                       staged>>
        /\ Publish(stagedIdx) /\ stagedIdx \in 0 .. 1 /\ wpc = "idle"
        /\ stagedIdx' = 1 - stagedIdx
    <3>1. stagedIdx \in 0 .. 1
      BY DEF IInv, TypeOK
    <3>2. QED BY <1>3, <3>1 DEF PublishInitial, Apply, Called, readerVars
  <2>2. ReaderInv' /\ ReadsAreWhole'
    BY <2>1, ReadersPublish
  <2>3. fresh' = FALSE /\ published' = TRUE
    BY <2>1 DEF Publish
  <2>4. StoredSoFar' /\ BanksWhole' /\ FreshWhole'
    BY <2>1, <2>3 DEF IInv, StoredSoFar, BanksWhole, FreshWhole, Whole, WordIdx
  <2>5. PrevWhole'
    <3>1. CASE PublishInitial
      <4>1. prevIdx' = prevIdx /\ ~published
        BY <3>1 DEF PublishInitial
      <4>2. QED BY <4>1 DEF IInv, PrevWhole
    <3>2. CASE Apply
      <4>1. prevIdx' = activeIdx /\ replaced' = banks[activeIdx][1] /\ activeIdx \in 0 .. 1
            /\ stagedIdx = 1 - activeIdx
        BY <3>2 DEF Apply, Active, IInv, TypeOK
      <4>2. PICK v \in Sets : banks[activeIdx] = Whole(v)
        BY <4>1, <2>1 DEF IInv, BanksWhole
      <4>3. banks[activeIdx] = Whole(replaced')
        BY <4>1, <4>2, WholeValue
      <4>4. QED BY <2>1, <2>3, <4>1, <4>3 DEF PrevWhole, Whole, WordIdx
    <3>3. QED BY <1>3, <3>1, <3>2
  <2>6. QED BY <2>2, <2>4, <2>5 DEF IInv
<1>4. ASSUME Rollback PROVE IInv'
  <2>1. /\ UNCHANGED <<banks, wpc, wset, wword, rpc, s0, idx, rword, words, result, seq,
                       staged>>
        /\ Publish(prevIdx) /\ prevIdx \in 0 .. 1 /\ wpc = "idle"
        /\ prevIdx' = None
    BY <1>4 DEF Rollback, Called, readerVars, IInv, TypeOK
  <2>2. ReaderInv' /\ ReadsAreWhole'
    BY <2>1, ReadersPublish
  <2>3. fresh' = FALSE
    BY <2>1 DEF Publish
  <2>4. StoredSoFar' /\ BanksWhole' /\ FreshWhole' /\ PrevWhole'
    BY <2>1, <2>3 DEF IInv, StoredSoFar, BanksWhole, FreshWhole, PrevWhole, Whole, WordIdx
  <2>5. QED BY <2>2, <2>4 DEF IInv
<1>5. QED BY <1>1, <1>2, <1>3, <1>4 DEF Control

LEMMA StoreStep ==
  ASSUME IInv, Store, TypeOK' PROVE IInv'
<1> USE DEF None
<1>1. CASE OpenBracket
  <2>1. /\ UNCHANGED <<banks, activeIdx, stagedIdx, prevIdx, seen, rpc, s0, idx, rword, words,
                       result, replaced, staged, fresh, wset>>
        /\ wpc = "odd" /\ wpc' = "store" /\ wword' = 1 /\ seq' = seq + 1
    BY <1>1 DEF OpenBracket, indexVars, readerVars, ghostVars
  <2>2. ReaderInv' /\ ReadsAreWhole'
    BY <2>1, ReadersQuiet DEF IInv, TypeOK
  <2>3. StoredSoFar' /\ BanksWhole' /\ PrevWhole' /\ FreshWhole'
    BY <2>1 DEF IInv, StoredSoFar, BanksWhole, PrevWhole, FreshWhole, Whole, WordIdx
  <2>4. QED BY <2>2, <2>3 DEF IInv
<1>2. CASE StoreWord
  <2>1. /\ UNCHANGED <<activeIdx, stagedIdx, prevIdx, seen, rpc, s0, idx, rword, words,
                       result, replaced, staged, fresh, wset, seq, wpc>>
        /\ wpc = "store" /\ wword \in WordIdx /\ wword' = wword + 1 /\ wword \in Nat
        /\ banks' = [banks EXCEPT ![stagedIdx][wword] = wset]
    BY <1>2 DEF StoreWord, indexVars, readerVars, ghostVars, IInv, TypeOK, WordIdx
  <2>2. stagedIdx \in 0 .. 1 /\ activeIdx \in 0 .. 1 /\ stagedIdx # activeIdx
    BY DEF IInv, TypeOK
  <2>3. banks[stagedIdx] \in [WordIdx -> Sets] /\ banks \in [0 .. 1 -> [WordIdx -> Sets]]
    BY <2>2 DEF IInv, TypeOK
  <2>4. banks'[stagedIdx] = [banks[stagedIdx] EXCEPT ![wword] = wset]
    BY <2>1, <2>2, <2>3
  <2>5. \A b \in 0 .. 1 : b # stagedIdx => banks'[b] = banks[b]
    BY <2>1, <2>2, <2>3
  <2>6. StoredSoFar'
    <3> SUFFICES ASSUME NEW w \in 1 .. (wword + 1) - 1 PROVE banks'[stagedIdx][w] = wset
      BY <2>1 DEF StoredSoFar
    <3>1. w \in WordIdx /\ (w = wword \/ w \in 1 .. wword - 1)
      BY <2>1 DEF WordIdx
    <3>2. QED BY <3>1, <2>1, <2>3, <2>4 DEF IInv, StoredSoFar
  <2>7. BanksWhole'
    <3> SUFFICES ASSUME NEW b \in 0 .. 1, b # stagedIdx
                 PROVE  \E v \in Sets : banks'[b] = Whole(v)
      BY <2>1 DEF BanksWhole, Whole, WordIdx
    <3>1. QED BY <2>5 DEF IInv, BanksWhole
  <2>8. PrevWhole' /\ FreshWhole'
    BY <2>1 DEF IInv, PrevWhole, FreshWhole
  <2>9. ReaderInv'
    <3> SUFFICES ASSUME NEW r \in Readers
                 PROVE /\ rpc[r] # "idle" => banks'[activeIdx][1] \in seen[r]
                       /\ rpc[r] \in {"idx", "copy"} => s0[r] <= seq /\ Even(s0[r])
                       /\ ~(rpc[r] = "copy" /\ s0[r] = seq)
      BY <2>1 DEF ReaderInv, Active
    <3>1. ~Even(seq)
      BY <2>1 DEF IInv, TypeOK
    <3>2. QED BY <3>1, <2>2, <2>5 DEF IInv, ReaderInv, Active
  <2>10. ReadsAreWhole'
    BY <2>1 DEF IInv, ReadsAreWhole, Whole, WordIdx
  <2>11. QED BY <2>6, <2>7, <2>8, <2>9, <2>10 DEF IInv
<1>3. CASE CloseBracket
  <2>1. /\ UNCHANGED <<banks, activeIdx, stagedIdx, prevIdx, seen, rpc, s0, idx, rword, words,
                       result, replaced>>
        /\ wpc = "store" /\ wpc' = "idle" /\ seq' = seq + 1
        /\ staged' = wset /\ stagedValid' = TRUE /\ wword = Words + 1
    BY <1>3 DEF CloseBracket, Closed, Marked, readerVars, IInv, TypeOK
  <2>2. ReaderInv' /\ ReadsAreWhole'
    BY <2>1, ReadersQuiet DEF IInv, TypeOK
  <2>3. banks[stagedIdx] = Whole(wset) /\ wset \in Sets
    <3>1. stagedIdx \in 0 .. 1 /\ banks[stagedIdx] \in [WordIdx -> Sets] /\ wset \in Sets
      BY DEF IInv, TypeOK
    <3>2. \A w \in WordIdx : banks[stagedIdx][w] = wset
      BY <2>1 DEF IInv, StoredSoFar, WordIdx
    <3>3. QED BY <3>1, <3>2 DEF Whole
  <2>4. BanksWhole'
    BY <2>1, <2>3 DEF IInv, BanksWhole, Whole, WordIdx
  <2>5. StoredSoFar' /\ PrevWhole' /\ FreshWhole'
    BY <2>1, <2>3 DEF IInv, StoredSoFar, PrevWhole, FreshWhole, Whole, WordIdx
  <2>6. QED BY <2>2, <2>4, <2>5 DEF IInv
<1>4. QED BY <1>1, <1>2, <1>3 DEF Store

\* What a reader's step leaves alone.
LEMMA ReaderFrame ==
  ASSUME IInv, UNCHANGED readerOnly
  PROVE  /\ UNCHANGED <<banks, seq, activeIdx>>
         /\ StoredSoFar' /\ BanksWhole' /\ PrevWhole' /\ FreshWhole'
  BY ControlQuiet DEF readerOnly, bankVars, indexVars, writerVars

LEMMA ReaderStep ==
  ASSUME IInv, NEW r \in Readers, ReadBegin(r) \/ ReadOn(r), TypeOK' PROVE IInv'
<1> DEFINE Part(q) ==
      /\ rpc[q] # "idle" => Active \in seen[q]
      /\ rpc[q] \in {"idx", "copy"} => s0[q] <= seq /\ Even(s0[q])
      /\ rpc[q] = "copy" /\ s0[q] = seq =>
            \E v \in seen[q] : /\ banks[idx[q]] = Whole(v)
                               /\ \A w \in 1 .. rword[q] - 1 : words[q][w] = v
<1> DEFINE Out(q) == rpc[q] = "idle" => \E v \in seen[q] : result[q] = Whole(v)
<1>a. UNCHANGED readerOnly
  BY DEF ReadBegin, ReadOn, LoadSeq, LoadIdx, CopyWord, Validate
<1>b. /\ UNCHANGED <<banks, seq, activeIdx>>
      /\ StoredSoFar' /\ BanksWhole' /\ PrevWhole' /\ FreshWhole'
  BY <1>a, ReaderFrame
<1>c. \A q \in Readers : Part(q) /\ Out(q)
  BY DEF IInv, ReaderInv, ReadsAreWhole
<1>d. Active' = Active
  BY <1>b DEF Active
<1>e. /\ rpc \in [Readers -> {"idle", "seq", "idx", "copy"}] /\ s0 \in [Readers -> Nat]
      /\ idx \in [Readers -> 0 .. 1] /\ rword \in [Readers -> 1 .. Words + 1]
      /\ words \in [Readers -> [WordIdx -> Sets]] /\ seq \in Nat /\ activeIdx \in 0 .. 1
      /\ result \in [Readers -> [WordIdx -> Sets]] /\ seen \in [Readers -> SUBSET Sets]
  BY DEF IInv, TypeOK
<1>f. ASSUME NEW q \in Readers, q # r PROVE (Part(q) /\ Out(q))'
  <2>1. /\ rpc'[q] = rpc[q] /\ s0'[q] = s0[q] /\ idx'[q] = idx[q] /\ rword'[q] = rword[q]
        /\ words'[q] = words[q] /\ result'[q] = result[q] /\ seen'[q] = seen[q]
    BY <1>e, <1>f DEF ReadBegin, ReadOn, LoadSeq, LoadIdx, CopyWord, Validate, RGoes
  <2>2. QED BY <2>1, <1>b, <1>c, <1>d DEF Whole, WordIdx
<1>g. (Part(r) /\ Out(r))'
  <2>1. CASE ReadBegin(r)
    <3>1. rpc'[r] = "seq" /\ seen'[r] = {Active}
      BY <2>1, <1>e DEF ReadBegin, RGoes
    <3>2. QED BY <3>1, <1>d
  <2>2. CASE LoadSeq(r)
    <3>1. rpc[r] = "seq" /\ rpc'[r] = "idx" /\ seen' = seen /\ s0'[r] = seq /\ Even(seq)
      BY <2>2, <1>e DEF LoadSeq, RGoes
    <3>2. QED BY <3>1, <1>b, <1>c, <1>d, <1>e
  <2>3. CASE LoadIdx(r)
    <3>1. /\ rpc[r] = "idx" /\ rpc'[r] = "copy" /\ seen' = seen /\ s0' = s0
          /\ idx'[r] = activeIdx /\ rword'[r] = 1
      BY <2>3, <1>e DEF LoadIdx, RGoes
    <3>2. s0[r] = seq => \E v \in seen[r] : banks[activeIdx] = Whole(v)
      <4> SUFFICES ASSUME s0[r] = seq PROVE \E v \in seen[r] : banks[activeIdx] = Whole(v)
        OBVIOUS
      <4>1. wpc # "store"
        BY <3>1, <1>c DEF IInv, TypeOK
      <4>2. PICK v \in Sets : banks[activeIdx] = Whole(v)
        BY <4>1, <1>e DEF IInv, BanksWhole
      <4>3. v = Active
        BY <4>2, WholeValue DEF Active
      <4>4. QED BY <4>2, <4>3, <3>1, <1>c
    <3>3. QED BY <3>1, <3>2, <1>b, <1>c, <1>d DEF Whole, WordIdx
  <2>4. CASE CopyWord(r)
    <3>1. /\ rpc[r] = "copy" /\ rpc' = rpc /\ seen' = seen /\ s0' = s0 /\ idx' = idx
          /\ rword[r] \in WordIdx /\ rword'[r] = rword[r] + 1 /\ rword[r] \in Nat
          /\ words'[r] = [words[r] EXCEPT ![rword[r]] = banks[idx[r]][rword[r]]]
      BY <2>4, <1>e DEF CopyWord, WordIdx
    <3>2. ASSUME s0[r] = seq, NEW v \in seen[r], banks[idx[r]] = Whole(v),
                 \A w \in 1 .. rword[r] - 1 : words[r][w] = v,
                 NEW w \in 1 .. (rword[r] + 1) - 1
          PROVE words'[r][w] = v
      <4>1. w \in WordIdx /\ (w = rword[r] \/ w \in 1 .. rword[r] - 1)
        BY <3>1 DEF WordIdx
      <4>2. words[r] \in [WordIdx -> Sets]
        BY <1>e
      <4>3. banks[idx[r]][rword[r]] = v
        BY <3>1, <3>2 DEF Whole
      <4>4. QED BY <3>1, <3>2, <4>1, <4>2, <4>3
    <3>3. s0[r] = seq => \E v \in seen[r] : /\ banks[idx[r]] = Whole(v)
                                            /\ \A w \in 1 .. (rword[r] + 1) - 1 : words'[r][w] = v
      BY <3>1, <3>2, <1>c
    <3>4. QED BY <3>1, <3>3, <1>b, <1>c, <1>d DEF Whole, WordIdx
  <2>5. CASE Validate(r)
    <3>1. /\ rpc[r] = "copy" /\ seen' = seen /\ rword[r] = Words + 1
          /\ s0[r] = seq => rpc'[r] = "idle" /\ result'[r] = words[r]
          /\ s0[r] # seq => rpc'[r] = "seq"
      BY <2>5, <1>e DEF Validate, Unmoved, RGoes
    <3>2. CASE s0[r] = seq
      <4>1. PICK v \in seen[r] : \A w \in 1 .. rword[r] - 1 : words[r][w] = v
        BY <3>1, <3>2, <1>c
      <4>2. \A w \in WordIdx : words[r][w] = v
        BY <4>1, <3>1 DEF WordIdx
      <4>3. words[r] = Whole(v)
        BY <4>2, <1>e DEF Whole
      <4>4. QED BY <4>3, <3>1, <3>2 DEF Whole, WordIdx
    <3>3. CASE s0[r] # seq
      BY <3>1, <3>3, <1>c, <1>d
    <3>4. QED BY <3>2, <3>3
  <2>6. QED BY <2>1, <2>2, <2>3, <2>4, <2>5 DEF ReadOn
<1>h. \A q \in Readers : (Part(q) /\ Out(q))'
  BY <1>f, <1>g
<1>i. ReaderInv' /\ ReadsAreWhole'
  BY <1>h DEF ReaderInv, ReadsAreWhole
<1>j. QED BY <1>b, <1>i DEF IInv

LEMMA IInvStep == IInv /\ [Next]_vars => IInv'
<1> SUFFICES ASSUME IInv, [Next]_vars PROVE IInv'
  OBVIOUS
<1>1. TypeOK'
  BY TypeStep DEF IInv
<1>2. CASE Store
  BY <1>1, <1>2, StoreStep
<1>3. CASE Control
  BY <1>1, <1>3, ControlStep
<1>4. ASSUME NEW r \in Readers, ReadBegin(r) \/ ReadOn(r) PROVE IInv'
  BY <1>1, <1>4, ReaderStep
<1>5. CASE UNCHANGED vars
  <2>1. UNCHANGED <<banks, seq, activeIdx, stagedIdx, prevIdx, stagedValid, published, wpc,
                    wset, wword, rpc, s0, idx, rword, words, result, seen, replaced, staged,
                    fresh>>
    BY <1>5 DEF vars, bankVars, indexVars, writerVars, readerVars, ghostVars
  <2>2. ReaderInv' /\ ReadsAreWhole'
    BY <2>1, ReadersQuiet DEF IInv, TypeOK
  <2>3. StoredSoFar' /\ BanksWhole' /\ PrevWhole' /\ FreshWhole'
    BY <2>1, ControlQuiet
  <2>4. QED BY <1>1, <2>2, <2>3 DEF IInv
<1>6. QED BY <1>2, <1>3, <1>4, <1>5 DEF Next

\* active() returns a whole set that was published at some moment of the call,
\* for any number of readers and words and any sequence of control-plane calls.
THEOREM WholeReads == Spec => []ReadsAreWhole
<1>1. IInv => ReadsAreWhole
  BY DEF IInv
<1>2. QED BY <1>1, InitIInv, IInvStep, PTL DEF Spec

\* While canRollback() says yes, the set rollback() publishes is, whole, the one
\* the last apply replaced.
THEOREM RollbackIsSound == Spec => []RollbackRestores
<1>1. IInv => RollbackRestores
  BY DEF IInv, PrevWhole, RollbackRestores
<1>2. QED BY <1>1, InitIInv, IInvStep, PTL DEF Spec

\* A staged set is kept, whole and publishable, until a call gives it up.
THEOREM StagedSetIsKept == Spec => []StagedIsKept
<1>1. IInv => StagedIsKept
  BY DEF IInv, FreshWhole, StagedIsKept, TypeOK
<1>2. QED BY <1>1, InitIInv, IInvStep, PTL DEF Spec

=============================================================================
