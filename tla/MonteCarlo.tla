---------------------------- MODULE MonteCarlo -----------------------------
(***************************************************************************)
(* MonteCarloDriver::execute() on a pool that lives from sweep to sweep:   *)
(* one task per worker is submitted, each takes run indices from a counter *)
(* until none is left and counts a latch down.  The latch, the counters    *)
(* and the context that points to them are on the stack of execute(),      *)
(* which waits for the latch, or polls it when it reports progress, and    *)
(* returns.  The pool is the queue that WorkPool shows it to be; it never  *)
(* refuses, having room for a task of each worker.                         *)
(***************************************************************************)
EXTENDS Integers, FiniteSets

CONSTANTS
    Workers,    \* threads of the pool
    NumRuns,    \* params.size(); with zero execute() returns at once
    MaxSweeps,  \* calls of execute()
    Polling     \* progressInterval and onProgress are set

VARIABLES
    sweep,      \* calls of execute() begun
    driver,     \* "idle", "submit", "poll", "lock", "check", "asleep"
    sent,       \* tasks submitted
    queue,      \* tasks in the pool
    nextRun,    \* next index to take
    written,    \* results that are there
    threw,      \* those among them whose run threw
    count,      \* the latch's counter
    holder,     \* who holds its mutex
    at,         \* worker -> what it does next
    index,      \* worker -> run it has taken
    of          \* worker -> sweep whose context it uses

runVars    == <<nextRun, written, threw>>
latchVars  == <<count, holder>>
poolVars   == <<sent, queue>>
workerVars == <<at, index, of>>
driverVars == <<sweep, driver>>
vars == <<driverVars, poolVars, runVars, latchVars, workerVars>>

NumWorkers == Cardinality(Workers)
AllRuns == 0 .. NumRuns - 1

Init ==
    /\ sweep = 0 /\ driver = "idle" /\ sent = 0 /\ queue = 0
    /\ nextRun = 0 /\ written = {} /\ threw = {}
    /\ count = 0 /\ holder = "none"
    /\ at = [w \in Workers |-> "idle"] /\ index = [w \in Workers |-> 0]
    /\ of = [w \in Workers |-> 0]

Goto(w, step) == at' = [at EXCEPT ![w] = step]

-----------------------------------------------------------------------------
(* execute() *)

Begin ==
    /\ driver = "idle" /\ sweep < MaxSweeps
    /\ sweep' = sweep + 1 /\ driver' = "submit" /\ sent' = 0
    /\ nextRun' = 0 /\ written' = {} /\ threw' = {}
    /\ count' = NumWorkers /\ holder' = "none"
    /\ UNCHANGED <<queue, workerVars>>

Submit ==
    /\ driver = "submit" /\ sent < NumWorkers
    /\ sent' = sent + 1 /\ queue' = queue + 1
    /\ UNCHANGED <<driverVars, runVars, latchVars, workerVars>>

Submitted ==
    /\ driver = "submit" /\ sent = NumWorkers
    /\ driver' = IF Polling THEN "poll" ELSE "lock"
    /\ UNCHANGED <<sweep, poolVars, runVars, latchVars, workerVars>>

\* tryWait() takes no mutex; between two polls the driver sleeps.
Poll ==
    /\ driver = "poll" /\ count = 0
    /\ driver' = "idle"
    /\ UNCHANGED <<sweep, poolVars, runVars, latchVars, workerVars>>

\* wait() reads the counter only under the mutex.
LockLatch ==
    /\ driver = "lock" /\ holder = "none"
    /\ driver' = "check" /\ holder' = "driver"
    /\ UNCHANGED <<sweep, poolVars, runVars, count, workerVars>>

Check ==
    /\ driver = "check"
    /\ driver' = IF count = 0 THEN "idle" ELSE "asleep"
    /\ holder' = "none"
    /\ UNCHANGED <<sweep, poolVars, runVars, count, workerVars>>

Spurious ==
    /\ driver = "asleep" /\ driver' = "lock"
    /\ UNCHANGED <<sweep, poolVars, runVars, latchVars, workerVars>>

-----------------------------------------------------------------------------
(* workerFn(), executed by a worker of the pool *)

TakeTask(w) ==
    /\ at[w] = "idle" /\ queue > 0
    /\ queue' = queue - 1
    /\ Goto(w, "claim") /\ of' = [of EXCEPT ![w] = sweep]
    /\ UNCHANGED <<driverVars, sent, runVars, latchVars, index>>

Claim(w) ==
    /\ at[w] = "claim"
    /\ nextRun' = nextRun + 1
    /\ index' = [index EXCEPT ![w] = nextRun]
    /\ Goto(w, IF nextRun >= NumRuns THEN "leave" ELSE "run")
    /\ UNCHANGED <<driverVars, poolVars, written, threw, latchVars, of>>

\* A run that throws leaves an empty result and is counted.
Execute(w) ==
    /\ at[w] = "run" /\ Goto(w, "claim")
    /\ written' = written \cup {index[w]}
    /\ \/ UNCHANGED threw
       \/ threw' = threw \cup {index[w]}
    /\ UNCHANGED <<driverVars, poolVars, nextRun, latchVars, index, of>>

\* countDown(): lock, lower, notify if it is zero, unlock.
Enter(w) ==
    /\ at[w] = "leave" /\ holder = "none"
    /\ holder' = w /\ Goto(w, "held")
    /\ UNCHANGED <<driverVars, poolVars, runVars, count, index, of>>

Lower(w) ==
    /\ at[w] = "held"
    /\ count' = count - 1
    /\ Goto(w, IF count = 1 THEN "notify" ELSE "unlock")
    /\ UNCHANGED <<driverVars, poolVars, runVars, holder, index, of>>

Notify(w) ==
    /\ at[w] = "notify" /\ Goto(w, "unlock")
    /\ driver' = IF driver = "asleep" THEN "lock" ELSE driver
    /\ UNCHANGED <<sweep, poolVars, runVars, latchVars, index, of>>

\* The mutex of a latch that is gone is nobody's.
Unlock(w) ==
    /\ at[w] = "unlock" /\ Goto(w, "idle")
    /\ holder' = IF holder = w THEN "none" ELSE holder
    /\ UNCHANGED <<driverVars, poolVars, runVars, count, index, of>>

-----------------------------------------------------------------------------

Driver == Begin \/ Submit \/ Submitted \/ Poll \/ LockLatch \/ Check
Work(w) ==
    TakeTask(w) \/ Claim(w) \/ Execute(w) \/ Enter(w) \/ Lower(w) \/ Notify(w) \/ Unlock(w)

Next == Driver \/ Spurious \/ \E w \in Workers : Work(w)

\* Threads go on; a mutex that is free again and again is got in the end.
Spec == Init /\ [][Next]_vars
FairSpec ==
    /\ Spec
    /\ WF_vars(Driver) /\ SF_vars(LockLatch)
    /\ \A w \in Workers : WF_vars(Work(w)) /\ SF_vars(Enter(w))

-----------------------------------------------------------------------------
(* Properties *)

Steps == {"idle", "claim", "run", "leave", "held", "notify", "unlock"}

TypeOK ==
    /\ sweep \in Nat /\ driver \in {"idle", "submit", "poll", "lock", "check", "asleep"}
    /\ sent \in Nat /\ queue \in Nat
    /\ nextRun \in Nat /\ written \subseteq AllRuns /\ threw \subseteq written
    /\ count \in Nat /\ holder \in Workers \cup {"driver", "none"}
    /\ at \in [Workers -> Steps] /\ index \in [Workers -> Nat] /\ of \in [Workers -> Nat]

\* No two workers write one slot of the results, and none writes it twice.
SlotsAreOwn ==
    \A v, w \in Workers :
        at[w] = "run" => index[w] \notin written /\ (at[v] = "run" /\ v # w => index[v] # index[w])

\* When execute() returns every result is there.
ReturnsAll == driver = "idle" /\ sweep > 0 => written = AllRuns

\* The context, the latch and the counters exist while a worker uses them.
ContextOutlives == \A w \in Workers : at[w] # "idle" => driver # "idle" /\ of[w] = sweep

\* Every call of execute() returns.
SweepsEnd == driver # "idle" ~> driver = "idle"
=============================================================================
