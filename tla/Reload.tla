------------------------------- MODULE Reload -------------------------------
(***************************************************************************)
(* Replacing parts of a running executive: a component's parameters, its   *)
(* library, or the scheduler's own table (RELOAD_TPRM, RELOAD_LIBRARY).    *)
(* Commands are drained on the task thread, which also dispatches, so the  *)
(* two never overlap; the runs already handed to the workers go on.        *)
(*                                                                         *)
(* A component's instances are numbered: 0 is linked in, every library     *)
(* that replaces it has the next number.  So are the tables: each load of  *)
(* the scheduler's parameters allocates the rows anew and frees the last   *)
(* ones.  A row of the table points to a task and to a phase counter, both *)
(* inside an instance.                                                     *)
(***************************************************************************)
EXTENDS Integers

CONSTANTS
    Comps,          \* components with rows in the table
    Rows, Owner,    \* the table's rows and the component of each
    Sequenced,      \* rows that are members of a sequence group
    MaxReloads,     \* libraries and tables that are tried
    Quiesced        \* reloads are sent only while no run is in flight

NoPlugin == -1      \* plugins_ has no entry

VARIABLES
    registry,   \* component -> the instance its name resolves to
    plugin,     \* component -> the instance kept by plugins_, or NoPlugin
    loaded,     \* component -> instances that exist
    locked,     \* component -> instances whose locked_ is set
    table,      \* number of the present entries_
    task,       \* row -> instance its task belongs to
    counter,    \* row -> instance its phase counter belongs to
    runs,       \* runs handed to the pools and not completed
    load,       \* loadTprm() being executed: "none", a component's "params", the "table"
    loading,    \* the component it is executed for, if any
    io,         \* instance the I/O thread has looked up to call its handler, if any
    tried       \* libraries and tables tried so far

compVars == <<registry, plugin, loaded>>
rowVars  == <<table, task, counter>>
loadVars == <<load, loading>>
vars == <<compVars, locked, rowVars, runs, loadVars, io, tried>>

Linked == 0
Run == [row : Rows, table : Nat, inst : Nat]

Init ==
    /\ registry = [c \in Comps |-> Linked] /\ plugin = [c \in Comps |-> NoPlugin]
    /\ loaded = [c \in Comps |-> {Linked}] /\ locked = [c \in Comps |-> {}]
    /\ table = 0
    /\ task = [r \in Rows |-> Linked] /\ counter = [r \in Rows |-> Linked]
    /\ runs = {} /\ load = "none" /\ loading = {} /\ io = {} /\ tried = 0

IsLocked(c) == registry[c] \in locked[c]
SetLock(c)  == locked' = [locked EXCEPT ![c] = @ \cup {registry[c]}]
ClearLock(c) == locked' = [locked EXCEPT ![c] = @ \ {registry[c]}]

RunsOf(c) == {u \in runs : Owner[u.row] = c}

\* Commands and dispatch are steps of one thread; a load in progress holds it.
TaskThread == load = "none"
MayReload  == TaskThread /\ tried < MaxReloads /\ (Quiesced => runs = {})

-----------------------------------------------------------------------------
(* Dispatch and the workers *)

Dispatch(r) ==
    /\ TaskThread /\ ~IsLocked(Owner[r])
    /\ runs' = runs \cup {[row |-> r, table |-> table, inst |-> task[r]]}
    /\ UNCHANGED <<compVars, locked, rowVars, loadVars, io, tried>>

\* execute(), the phase counter and markCompleted() of a run that a worker has.
Complete(u) ==
    /\ runs' = runs \ {u}
    /\ UNCHANGED <<compVars, locked, rowVars, loadVars, io, tried>>

-----------------------------------------------------------------------------
(* CMD_LOCK_COMPONENT, CMD_UNLOCK_COMPONENT *)

Lock(c) ==
    /\ TaskThread /\ SetLock(c)
    /\ UNCHANGED <<compVars, rowVars, runs, loadVars, io, tried>>

Unlock(c) ==
    /\ TaskThread /\ ClearLock(c)
    /\ UNCHANGED <<compVars, rowVars, runs, loadVars, io, tried>>

-----------------------------------------------------------------------------
(* RELOAD_TPRM.  The lock is released at the end, whoever had set it. *)

BeginLoad(c) ==
    /\ MayReload /\ tried' = tried + 1
    /\ load' = "params" /\ loading' = {c} /\ SetLock(c)
    /\ UNCHANGED <<compVars, rowVars, runs, io>>

BeginTable ==
    /\ MayReload /\ tried' = tried + 1 /\ load' = "table"
    /\ UNCHANGED <<compVars, locked, rowVars, runs, loading, io>>

\* The component's own parameters, loaded or refused.
EndLoad(c) ==
    /\ c \in loading /\ loading' = {} /\ load' = "none" /\ ClearLock(c)
    /\ UNCHANGED <<compVars, rowVars, runs, io, tried>>

\* A table in which no task resolves leaves the present one in place.
KeepTable ==
    /\ load = "table" /\ load' = "none"
    /\ UNCHANGED <<compVars, locked, rowVars, runs, loading, io, tried>>

\* New rows, with the tasks and the groups of the components as they are now.
NewTable ==
    /\ load = "table" /\ load' = "none"
    /\ table' = table + 1
    /\ task' = [r \in Rows |-> registry[Owner[r]]]
    /\ counter' = [r \in Rows |-> IF r \in Sequenced THEN registry[Owner[r]] ELSE counter[r]]
    /\ UNCHANGED <<compVars, locked, runs, loading, io, tried>>

-----------------------------------------------------------------------------
(* RELOAD_LIBRARY, which wants the component locked.  A failure at any of *)
(* its checks unloads the new library and unlocks the old component.      *)

NewInstance == tried + 1

\* replaceComponentTasks: the rows whose task the instance has.
Wire(c, inst, has, tasks) ==
    [r \in Rows |-> IF Owner[r] = c /\ r \in has THEN inst ELSE tasks[r]]

RowsOf(c) == {r \in Rows : Owner[r] = c}

\* Not found, not loadable, another component, parameters or init() refused.
LibraryRefused(c) ==
    /\ MayReload /\ IsLocked(c)
    /\ tried' = tried + 1 /\ ClearLock(c)
    /\ UNCHANGED <<compVars, rowVars, runs, loadVars, io>>

\* The new instance lacks tasks of the table: the old ones are wired again.
TaskMismatch(c, has) ==
    /\ MayReload /\ IsLocked(c)
    /\ ~(RowsOf(c) \subseteq has)
    /\ tried' = tried + 1 /\ ClearLock(c)
    /\ task' = Wire(c, registry[c], Rows, Wire(c, NewInstance, has, task))
    /\ UNCHANGED <<compVars, table, counter, runs, loadVars, io>>

\* The loader that plugins_ held is overwritten, which unloads its library.
Keep(c, inst) ==
    /\ plugin' = [plugin EXCEPT ![c] = inst]
    /\ loaded' = [loaded EXCEPT ![c] = (@ \ {plugin[c]}) \cup {inst}]

\* The lock of the instance that is replaced is not touched, the new one's is down.
LibraryReplaced(c, has) ==
    /\ MayReload /\ IsLocked(c)
    /\ RowsOf(c) \subseteq has
    /\ tried' = tried + 1
    /\ task' = Wire(c, NewInstance, has, task)
    /\ registry' = [registry EXCEPT ![c] = NewInstance]
    /\ Keep(c, NewInstance)
    /\ UNCHANGED <<locked, table, counter, runs, loadVars, io>>

-----------------------------------------------------------------------------
(* The external I/O thread, when a component's inbox or the pool is full: *)
(* it calls the handler itself.  No test of the lock is on this path.     *)

IoLookUp(c) ==
    /\ io = {} /\ io' = {[comp |-> c, inst |-> registry[c]]}
    /\ UNCHANGED <<compVars, locked, rowVars, runs, loadVars, tried>>

IoHandle ==
    /\ io # {} /\ io' = {}
    /\ UNCHANGED <<compVars, locked, rowVars, runs, loadVars, tried>>

-----------------------------------------------------------------------------

LibraryCommand(c) ==
    \/ LibraryRefused(c)
    \/ \E has \in SUBSET Rows : TaskMismatch(c, has) \/ LibraryReplaced(c, has)

Next ==
    \/ \E r \in Rows : Dispatch(r)
    \/ \E u \in runs : Complete(u)
    \/ \E c \in Comps : \/ Lock(c) \/ Unlock(c) \/ BeginLoad(c) \/ EndLoad(c)
                        \/ LibraryCommand(c) \/ IoLookUp(c)
    \/ BeginTable \/ KeepTable \/ NewTable \/ IoHandle

Spec == Init /\ [][Next]_vars

-----------------------------------------------------------------------------
(* Properties *)

TypeOK ==
    /\ registry \in [Comps -> Nat] /\ plugin \in [Comps -> Nat \cup {NoPlugin}]
    /\ loaded \in [Comps -> SUBSET Nat] /\ locked \in [Comps -> SUBSET Nat]
    /\ table \in Nat /\ task \in [Rows -> Nat] /\ counter \in [Rows -> Nat]
    /\ runs \subseteq Run
    /\ load \in {"none", "params", "table"} /\ loading \subseteq Comps
    /\ io \subseteq [comp : Comps, inst : Nat]
    /\ tried \in Nat

\* While parameters are loaded under the lock, no task touches what is being
\* replaced: none of the component's, and none at all while it is the table.
LoadIsAlone ==
    /\ \A c \in loading : RunsOf(c) = {}
    /\ load = "table" => runs = {}

\* What a run in flight still uses exists: the row it marks as completed and the
\* code it executes.
RowOutlivesRun  == \A u \in runs : u.table = table
CodeOutlivesRun == \A u \in runs : u.inst \in loaded[Owner[u.row]]
RunsAreLive == RowOutlivesRun /\ CodeOutlivesRun

\* A run is handed out with a row and an instance that exist.  Nothing but a new
\* table frees its row, and nothing but a library that replaces the one it runs
\* in unloads its task: no refused or mismatched library, no parameters, nothing
\* that is done to another component, and not the first library of its own.
Lives(u) == u.table = table /\ u.inst \in loaded[Owner[u.row]]
Strands(u) ==
    \/ NewTable
    \/ \E has \in SUBSET Rows : LibraryReplaced(Owner[u.row], has) /\ plugin[Owner[u.row]] = u.inst
RunsAreSpared ==
    [][\A u \in runs' : Lives(u)' \/ (u \in runs /\ (Lives(u) => Strands(u)))]_vars

\* Whatever a reload's checks decide, every row of the table points into the
\* instance that is registered, and that one is loaded.
RowsAreLive ==
    \A r \in Rows : task[r] = registry[Owner[r]] /\ task[r] \in loaded[Owner[r]]

\* The phase counter of a sequenced row exists.
CountersAreLive == \A r \in Sequenced : counter[r] \in loaded[Owner[r]]

\* The instance the I/O thread is about to call exists.
IoIsLive == \A l \in io : l.inst \in loaded[l.comp]
=============================================================================
