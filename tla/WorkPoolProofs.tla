--------------------------- MODULE WorkPoolProofs ---------------------------
(***************************************************************************)
(* The pool for every number of producers, workers, tasks and cells: the   *)
(* ring hands each cell from one thread to the next and is a queue, the    *)
(* semaphore loses no wakeup, and with one producer a shutdown leaves no   *)
(* accepted task behind.                                                   *)
(***************************************************************************)
EXTENDS WorkPool, FiniteSetTheorems, SequenceTheorems, TLAPS

----------------------------------------------------------------------------
(* The ring.                                                               *)

Writing(p) == ppc[p] \in {"write", "publish"}
Reading(w) == wpc[w] \in {"read", "free"}

SeqAt(pos) == sequence[Cell(pos)]
DataAt(pos) == data[Cell(pos)]

\* The window of positions in the ring: those claimed by a producer and not yet
\* by a worker, and those that are free for the next lap or being read.
Claimed == tail .. head - 1
Ahead   == head .. tail + Cap - 1

\* A thread that has claimed a position has its cell to itself, and the sequence
\* number of the cell says so.
WritersInv ==
    /\ \A p \in Producers : Writing(p) => ppos[p] \in Claimed /\ SeqAt(ppos[p]) = ppos[p]
    /\ \A p, q \in Producers : Writing(p) /\ Writing(q) /\ ppos[p] = ppos[q] => p = q

ReadersInv ==
    /\ \A w \in Workers : Reading(w) =>
         wpos[w] \in head - Cap .. tail - 1 /\ SeqAt(wpos[w]) = wpos[w] + 1
    /\ \A v, w \in Workers : Reading(v) /\ Reading(w) /\ wpos[v] = wpos[w] => v = w

CellsInv ==
    /\ \A pos \in Claimed : \/ SeqAt(pos) = pos + 1
                            \/ SeqAt(pos) = pos /\ \E p \in Producers : Writing(p) /\ ppos[p] = pos
    /\ \A pos \in Ahead : SeqAt(pos) \in {pos, pos - Cap + 1}

\* A thread about to claim: if its position has not gone, its cell is still what
\* the thread has seen.
ClaimInv ==
    /\ \A p \in Producers : ppc[p] \in {"cell", "claim"} => ppos[p] <= head
    /\ \A p \in Producers : ppc[p] = "claim" /\ ppos[p] = head => SeqAt(head) = head
    /\ \A w \in Workers : wpc[w] \in {"cell", "claim"} =>
         wpos[w] <= tail /\ (wpos[w] < tail => SeqAt(wpos[w]) > wpos[w])
    /\ \A w \in Workers : wpc[w] = "claim" /\ wpos[w] = tail => SeqAt(tail) = tail + 1

RingInv == WritersInv /\ ReadersInv /\ CellsInv /\ ClaimInv

----------------------------------------------------------------------------
(* The tasks.                                                              *)

Published(pos) == pos \in Claimed /\ SeqAt(pos) = pos + 1

SentInv ==
    /\ pool \in Pools
    /\ \A p \in Producers : sent[p] <= pool.tasks[p]
    /\ \A p \in Producers : ppc[p] # "idle" => sent[p] > 0
    /\ \A p \in Producers : ppc[p] = "publish" => DataAt(ppos[p]) = Mine(p)

\* Each worker's hand holds a task from the claim to the execution.
HandInv ==
    /\ \A pos \in Nat : Published(pos) => DataAt(pos) \in Task
    /\ \A w \in Workers : wpc[w] = "read" => DataAt(wpos[w]) \in Task
    /\ \A w \in Workers : wpc[w] \in {"free", "execute"} => item[w] \in Task

\* What a producer has not finished submitting is not accepted.
AcceptedInv ==
    /\ \A t \in accepted : t[2] <= sent[t[1]]
    /\ \A p \in Producers : ppc[p] \in {"head", "cell", "claim", "write", "publish", "add"} =>
         Mine(p) \notin accepted

\* A task is not lost: it is in the ring, in a worker's hand or has run.
InRing(t) == \E pos \in Nat : Published(pos) /\ DataAt(pos) = t
InHand(t) == \E w \in Workers : \/ wpc[w] = "read" /\ DataAt(wpos[w]) = t
                                \/ wpc[w] \in {"free", "execute"} /\ item[w] = t
Kept(t) == InRing(t) \/ InHand(t) \/ t \in RanSet

KeptInv ==
    /\ \A t \in accepted : Kept(t)
    /\ \A p \in Producers : ppc[p] = "add" => Kept(Mine(p))

----------------------------------------------------------------------------
(* The semaphore.                                                          *)

Announced == {w \in Workers : wpc[w] \in {"park", "parked", "leave"}}
Coming    == {w \in Workers : wpc[w] \in {"acquire", "announce", "park", "leave"}}
Waking    == {p \in Producers : ppc[p] \in {"look", "notify"}}

WaitInv == waiters = Cardinality(Announced) /\ NoLostWakeup

----------------------------------------------------------------------------
(* The shutdown, with one producer.                                        *)

\* Workers that have taken a permit and not yet a task.
Holders == {w \in Workers : wpc[w] \in {"tail", "cell", "claim"}}

Sole(p) == \A q \in Producers \ {p} : pool.tasks[q] = 0

\* Tasks in the ring whose permit has been taken or not yet been given.
Due(p) == Cardinality(Holders) + (IF ppc[p] \in {"write", "publish", "add"} THEN 1 ELSE 0)

PromiseKept == \A pos \in Nat : Published(pos) => DataAt(pos) \notin promised

\* Until the stop adds its permits each permit has a task, so that no worker
\* finds the ring empty; one that finds it empty later has seen that the tasks
\* of before the stop are gone.
SoleInv(p) ==
    /\ \A q \in Producers \ {p} : ppc[q] = "idle"
    /\ Writing(p) => ppos[p] = head - 1
    /\ spc \in {"run", "add"} =>
         /\ count + Due(p) = head - tail
         /\ \A w \in pool.workers : wpc[w] \notin {"empty", "exit"}
    /\ spc \in {"look", "join", "done"} =>
         \A w \in pool.workers : wpc[w] \in {"empty", "exit"} => PromiseKept

StopInv ==
    /\ \A w \in Workers \ pool.workers : wpc[w] = "exit"
    /\ spc = "done" => \A w \in Workers : wpc[w] = "exit"
    /\ \A p \in Producers : Sole(p) => SoleInv(p)

TaskInv == SentInv /\ HandInv /\ AcceptedInv /\ KeptInv

IInv == TypeOK /\ RingInv /\ TaskInv /\ WaitInv /\ StopInv

----------------------------------------------------------------------------
(* Positions and cells.                                                    *)

LEMMA CapFacts == Cap \in Nat /\ Cap > 1
  BY PoolAssumption DEF PoolAssumption

LEMMA Quotient ==
    ASSUME NEW a \in Nat
    PROVE  /\ a \div Cap \in Nat /\ Cell(a) \in Cells
           /\ a = (a \div Cap) * Cap + Cell(a)
  BY CapFacts DEF Cell, Cells

LEMMA Laps == ASSUME NEW q \in Nat, NEW r \in Nat, q < r PROVE q * Cap + Cap <= r * Cap
<1>1. r = (r - q) + q /\ r - q \in Nat /\ r - q >= 1 OBVIOUS
<1>2. r * Cap = (r - q) * Cap + q * Cap BY <1>1, CapFacts
<1>3. (r - q) * Cap = (r - q - 1) * Cap + Cap BY <1>1, CapFacts
<1>4. (r - q - 1) * Cap >= 0 BY <1>1, CapFacts
<1> QED BY <1>2, <1>3, <1>4, CapFacts

\* Two positions less than a lap apart have two cells.
LEMMA SameCell ==
    ASSUME NEW a \in Nat, NEW b \in Nat, Cell(a) = Cell(b), a < b + Cap, b < a + Cap
    PROVE  a = b
<1> DEFINE q == a \div Cap
           r == b \div Cap
           m == q * Cap
           n == r * Cap
<1>1. q \in Nat /\ r \in Nat /\ a = m + Cell(a) /\ b = n + Cell(a) BY Quotient
<1>2. Cell(a) \in Int BY Quotient, CapFacts DEF Cells
<1>3. m \in Int /\ n \in Int BY <1>1, CapFacts
<1>4. q < r => m + Cap <= n BY <1>1, Laps
<1>5. r < q => n + Cap <= m BY <1>1, Laps
<1>6. q = r => m = n OBVIOUS
<1> HIDE DEF m, n
<1> QED BY <1>1, <1>2, <1>3, <1>4, <1>5, <1>6, CapFacts

LEMMA NextLap == ASSUME NEW a \in Nat PROVE Cell(a + Cap) = Cell(a)
<1> DEFINE q == a \div Cap
           r == (a + Cap) \div Cap
           m == q * Cap
           n == r * Cap
<1>0. a + Cap \in Nat BY CapFacts
<1>1. /\ q \in Nat /\ r \in Nat /\ a = m + Cell(a) /\ a + Cap = n + Cell(a + Cap)
      /\ Cell(a) \in 0 .. Cap - 1 /\ Cell(a + Cap) \in 0 .. Cap - 1
  BY <1>0, Quotient, CapFacts DEF Cells
<1>2. m \in Int /\ n \in Int BY <1>1, CapFacts
<1>3. q < r => m + Cap <= n BY <1>1, Laps
<1>4. q + 1 < r => m + Cap + Cap <= n
  <2>1. (q + 1) * Cap = m + Cap BY <1>1, CapFacts
  <2> QED BY <1>1, <2>1, Laps
<1>5. r <= q => n <= m
  <2>1. r < q => n + Cap <= m BY <1>1, Laps
  <2> HIDE DEF m, n
  <2>2. r = q => n = m BY DEF m, n
  <2> QED BY <1>1, <1>2, <2>1, <2>2, CapFacts
<1>6. r = q + 1 => n = m + Cap BY <1>1, CapFacts
<1> HIDE DEF m, n, q, r
<1>7. n = m + Cap BY <1>1, <1>2, <1>3, <1>4, <1>5, <1>6, CapFacts
<1> QED BY <1>1, <1>2, <1>7, CapFacts

----------------------------------------------------------------------------
(* The ring is handed over cell by cell.                                   *)

PSteps == {"idle", "head", "cell", "claim", "write", "publish", "add", "look", "notify"}
WSteps == {"acquire", "announce", "park", "parked", "leave", "tail", "cell", "claim", "read",
           "free", "execute", "empty", "exit"}

LEMMA Bounds ==
    ASSUME TypeOK
    PROVE  /\ Cap \in Nat /\ Cap > 1
           /\ tail \in Nat /\ head \in Nat /\ tail <= head /\ head <= tail + Cap
  BY CapFacts DEF TypeOK

LEMMA Numbers ==
    ASSUME TypeOK
    PROVE  /\ Cap \in Nat /\ Cap > 1
           /\ tail \in Nat /\ head \in Nat /\ tail <= head /\ head <= tail + Cap
           /\ \A p \in Producers : ppos[p] \in Nat
           /\ \A w \in Workers : wpos[w] \in Nat
           /\ \A a \in Nat : Cell(a) \in Cells /\ SeqAt(a) \in Nat
           /\ \A a, b \in Nat : Cell(a) = Cell(b) /\ a < b + Cap /\ b < a + Cap => a = b
<1>1. \A a \in Nat : Cell(a) \in Cells BY Quotient
<1> QED BY <1>1, CapFacts, SameCell DEF TypeOK, SeqAt

LEMMA Stored ==
    ASSUME TypeOK, NEW a \in Nat, NEW v, sequence' = [sequence EXCEPT ![Cell(a)] = v]
    PROVE  \A b \in Nat : sequence'[Cell(b)] = IF Cell(b) = Cell(a) THEN v ELSE sequence[Cell(b)]
<1>1. \A b \in Nat : Cell(b) \in Cells BY Quotient
<1> QED BY <1>1 DEF TypeOK

\* The head of a full ring does not look free, the tail of an empty one not published.
LEMMA NotFull == ASSUME TypeOK, RingInv, SeqAt(head) = head PROVE head < tail + Cap
<1> USE DEF RingInv
<1>1. ASSUME head = tail + Cap PROVE FALSE
  <2>1. tail \in Claimed BY <1>1, Numbers DEF Claimed
  <2>2. SeqAt(tail) \in {tail, tail + 1} BY <2>1 DEF CellsInv
  <2>3. SeqAt(head) = SeqAt(tail) BY <1>1, NextLap, Numbers DEF SeqAt
  <2> QED BY <1>1, <2>2, <2>3, Numbers
<1> QED BY <1>1, Bounds

LEMMA NotEmpty == ASSUME TypeOK, RingInv, SeqAt(tail) = tail + 1 PROVE tail < head
<1>1. ASSUME head = tail PROVE FALSE
  <2>1. head \in Ahead BY <1>1, Numbers DEF Ahead
  <2>2. SeqAt(head) \in {head, head - Cap + 1} BY <2>1 DEF RingInv, CellsInv
  <2> QED BY <1>1, <2>2, Numbers
<1> QED BY <1>1, Numbers

\* A step that moves no thread from one stage of its claim to another.
LEMMA RingSame ==
    ASSUME TypeOK, RingInv, UNCHANGED <<sequence, head, tail, ppos, wpos>>,
           \A p \in Producers : /\ ppc'[p] \in {"cell", "claim"} => ppc'[p] = ppc[p]
                                /\ Writing(p)' <=> Writing(p),
           \A w \in Workers : /\ wpc'[w] \in {"cell", "claim"} => wpc'[w] = wpc[w]
                              /\ Reading(w)' => Reading(w)
    PROVE  RingInv'
<1> USE DEF RingInv, SeqAt, Claimed, Ahead
<1>1. WritersInv' BY DEF WritersInv
<1>2. ReadersInv' BY DEF ReadersInv
<1>3. CellsInv' BY DEF CellsInv
<1>4. ClaimInv' BY DEF ClaimInv
<1> QED BY <1>1, <1>2, <1>3, <1>4

LEMMA ClaimHeadRing == ASSUME TypeOK, RingInv, NEW p \in Producers, ClaimHead(p) PROVE RingInv'
<1> USE DEF RingInv, SeqAt, Claimed, Ahead
<1>0. /\ ppc[p] = "claim" /\ ppc \in [Producers -> PSteps] /\ ppos \in [Producers -> Nat]
      /\ UNCHANGED <<sequence, tail, wpc, wpos>>
  BY DEF ClaimHead, To, TypeOK, PSteps, ringVars, workVars
<1>1. CASE head = ppos[p]
  <2>1. head' = head + 1 /\ ppc' = [ppc EXCEPT ![p] = "write"] /\ ppos' = ppos
    BY <1>1 DEF ClaimHead, To
  <2>2. SeqAt(head) = head /\ head < tail + Cap BY <1>0, <1>1, NotFull DEF ClaimInv
  <2>3. \A q \in Producers : q # p => ppc'[q] = ppc[q] BY <1>0, <2>1
  <2>4. ppc'[p] = "write" BY <1>0, <2>1
  <2>5. WritersInv'
    <3>1. \A q \in Producers : Writing(q)' => q = p \/ Writing(q) BY <2>3 DEF Writing
    <3>2. \A q \in Producers : Writing(q) => ppos[q] < head BY Numbers DEF WritersInv
    <3> QED BY <1>0, <1>1, <2>1, <2>2, <3>1, <3>2, Numbers DEF WritersInv
  <2>6. ReadersInv'
    <3>1. \A w \in Workers : Reading(w)' <=> Reading(w) BY <1>0 DEF Reading
    <3>2. \A w \in Workers : Reading(w) => wpos[w] # head - Cap
      <4> SUFFICES ASSUME NEW w \in Workers, Reading(w), wpos[w] = head - Cap PROVE FALSE OBVIOUS
      <4>1. wpos[w] \in Nat /\ wpos[w] + Cap = head BY Numbers
      <4>2. SeqAt(head) = wpos[w] + 1 BY <4>1, NextLap DEF ReadersInv
      <4> QED BY <2>2, <4>1, <4>2, Numbers
    <3> QED BY <1>0, <2>1, <3>1, <3>2, Numbers DEF ReadersInv
  <2>7. CellsInv'
    <3>1. \A q \in Producers : Writing(q) => Writing(q)' BY <1>0, <2>3 DEF Writing
    <3>2. \A pos \in Claimed' : pos \in Claimed \/ pos = head BY <1>0, <2>1, Numbers
    <3>3. Writing(p)' /\ ppos'[p] = head BY <1>1, <2>1, <2>4 DEF Writing
    <3>4. \A pos \in Ahead' : pos \in Ahead BY <1>0, <2>1, Numbers
    <3> QED BY <1>0, <2>1, <2>2, <3>1, <3>2, <3>3, <3>4 DEF CellsInv
  <2>8. ClaimInv' BY <1>0, <1>1, <2>1, <2>3, <2>4, Numbers DEF ClaimInv
  <2> QED BY <2>5, <2>6, <2>7, <2>8
<1>2. CASE head # ppos[p]
  <2>1. head' = head /\ ppc' = [ppc EXCEPT ![p] = "cell"] /\ ppos' = [ppos EXCEPT ![p] = head]
    BY <1>2 DEF ClaimHead, To
  <2>2. \A q \in Producers : q # p => ppc'[q] = ppc[q] /\ ppos'[q] = ppos[q] BY <1>0, <2>1
  <2>3. ppc'[p] = "cell" /\ ppos'[p] = head BY <1>0, <2>1
  <2>4. \A q \in Producers : (Writing(q)' <=> Writing(q)) /\ (Writing(q) => ppos'[q] = ppos[q])
    BY <1>0, <2>2, <2>3 DEF Writing
  <2>5. WritersInv' BY <1>0, <2>1, <2>4 DEF WritersInv
  <2>6. ReadersInv' BY <1>0, <2>1 DEF ReadersInv, Reading
  <2>7. CellsInv' BY <1>0, <2>1, <2>4 DEF CellsInv
  <2>8. ClaimInv' BY <1>0, <2>1, <2>2, <2>3, Numbers DEF ClaimInv
  <2> QED BY <2>5, <2>6, <2>7, <2>8
<1> QED BY <1>1, <1>2

LEMMA ClaimTailRing == ASSUME TypeOK, RingInv, NEW w \in Workers, ClaimTail(w) PROVE RingInv'
<1> USE DEF RingInv, SeqAt, Claimed, Ahead
<1>0. /\ wpc[w] = "claim" /\ wpc \in [Workers -> WSteps] /\ wpos \in [Workers -> Nat]
      /\ UNCHANGED <<sequence, head, ppc, ppos>>
  BY DEF ClaimTail, At, TypeOK, WSteps, ringVars, prodVars
<1>1. CASE tail = wpos[w]
  <2>1. tail' = tail + 1 /\ wpc' = [wpc EXCEPT ![w] = "read"] /\ wpos' = wpos
    BY <1>1 DEF ClaimTail, At
  <2>2. SeqAt(tail) = tail + 1 /\ tail < head BY <1>0, <1>1, NotEmpty DEF ClaimInv
  <2>3. \A v \in Workers : v # w => wpc'[v] = wpc[v] BY <1>0, <2>1
  <2>4. wpc'[w] = "read" BY <1>0, <2>1
  <2>5. WritersInv'
    <3>1. \A p \in Producers : Writing(p)' <=> Writing(p) BY <1>0 DEF Writing
    <3>2. \A p \in Producers : Writing(p) => ppos[p] # tail BY <2>2, Numbers DEF WritersInv
    <3> QED BY <1>0, <2>1, <3>1, <3>2, Numbers DEF WritersInv
  <2>6. ReadersInv'
    <3>1. \A v \in Workers : Reading(v)' => v = w \/ Reading(v) BY <2>3 DEF Reading
    <3>2. \A v \in Workers : Reading(v) => wpos[v] < tail BY Numbers DEF ReadersInv
    <3>3. ASSUME NEW v \in Workers, Reading(v)'
          PROVE  wpos[v] \in head - Cap .. tail /\ SeqAt(wpos[v]) = wpos[v] + 1
      <4>1. CASE v = w BY <1>1, <2>2, <4>1, Bounds
      <4>2. CASE Reading(v)
        <5>1. wpos[v] \in head - Cap .. tail - 1 /\ SeqAt(wpos[v]) = wpos[v] + 1
          BY <4>2 DEF ReadersInv
        <5> QED BY <5>1, Bounds
      <4> QED BY <3>1, <3>3, <4>1, <4>2
    <3>4. \A u, v \in Workers : Reading(u)' /\ Reading(v)' /\ wpos[u] = wpos[v] => u = v
      BY <1>1, <3>1, <3>2, Bounds DEF ReadersInv
    <3>5. tail' - 1 = tail BY <2>1, Bounds
    <3> QED BY <1>0, <2>1, <3>3, <3>4, <3>5 DEF ReadersInv
  <2>7. CellsInv'
    <3>1. \A p \in Producers : Writing(p)' <=> Writing(p) BY <1>0 DEF Writing
    <3>2. \A pos \in Claimed' : pos \in Claimed BY <1>0, <2>1, Numbers
    <3>3. SeqAt(tail + Cap) = tail + 1
      <4>1. Cell(tail + Cap) = Cell(tail) BY NextLap, Bounds
      <4> QED BY <2>2, <4>1
    <3>4. \A pos \in Ahead' : pos \in Ahead \/ pos = tail + Cap BY <1>0, <2>1, Bounds
    <3> QED BY <1>0, <2>1, <3>1, <3>2, <3>3, <3>4, Numbers DEF CellsInv
  <2>8. ClaimInv'
    <3>1. \A v \in Workers : wpc'[v] \in {"cell", "claim"} => wpc'[v] = wpc[v] /\ wpos'[v] = wpos[v] /\ wpos[v] <= tail
      BY <2>1, <2>3, <2>4 DEF ClaimInv
    <3>2. \A v \in Workers : wpc'[v] \in {"cell", "claim"} => wpos[v] # tail + 1 BY <3>1, Numbers
    <3>3. \A v \in Workers : wpc'[v] \in {"cell", "claim"} => (wpos[v] < tail + 1 => SeqAt(wpos[v]) > wpos[v])
      BY <2>2, <3>1, Numbers DEF ClaimInv
    <3> QED BY <1>0, <2>1, <3>1, <3>2, <3>3, Numbers DEF ClaimInv
  <2> QED BY <2>5, <2>6, <2>7, <2>8
<1>2. CASE tail # wpos[w]
  <2>1. tail' = tail /\ wpc' = [wpc EXCEPT ![w] = "cell"] /\ wpos' = [wpos EXCEPT ![w] = tail]
    BY <1>2 DEF ClaimTail, At
  <2>2. \A v \in Workers : v # w => wpc'[v] = wpc[v] /\ wpos'[v] = wpos[v] BY <1>0, <2>1
  <2>3. wpc'[w] = "cell" /\ wpos'[w] = tail BY <1>0, <2>1
  <2>4. \A v \in Workers : (Reading(v)' <=> Reading(v)) /\ (Reading(v) => wpos'[v] = wpos[v])
    BY <1>0, <2>2, <2>3 DEF Reading
  <2>5. WritersInv' BY <1>0, <2>1 DEF WritersInv, Writing
  <2>6. ReadersInv' BY <1>0, <2>1, <2>4 DEF ReadersInv
  <2>7. CellsInv' BY <1>0, <2>1 DEF CellsInv, Writing
  <2>8. ClaimInv' BY <1>0, <2>1, <2>2, <2>3, Numbers DEF ClaimInv
  <2> QED BY <2>5, <2>6, <2>7, <2>8
<1> QED BY <1>1, <1>2

LEMMA PublishRing == ASSUME TypeOK, RingInv, NEW p \in Producers, Publish(p) PROVE RingInv'
<1> USE DEF RingInv, SeqAt, Claimed, Ahead
<1> DEFINE c == ppos[p]
<1>0. /\ ppc[p] = "publish" /\ ppc \in [Producers -> PSteps] /\ c \in Nat
      /\ sequence' = [sequence EXCEPT ![Cell(c)] = c + 1]
      /\ ppc' = [ppc EXCEPT ![p] = "add"]
      /\ UNCHANGED <<head, tail, ppos, wpc, wpos>>
  BY DEF Publish, To, TypeOK, PSteps, ringVars, workVars
<1> HIDE DEF c
<1>1. /\ c \in Claimed /\ SeqAt(c) = c /\ ppos[p] = c
  BY <1>0 DEF WritersInv, Writing, c
<1>2. \A a \in Nat : SeqAt(a)' = IF Cell(a) = Cell(c) THEN c + 1 ELSE SeqAt(a)
  BY <1>0, Stored
<1>3. \A a \in Nat : a # c /\ a < c + Cap /\ c < a + Cap => SeqAt(a)' = SeqAt(a)
  BY <1>0, <1>2, Numbers
<1>4. \A q \in Producers : q # p => ppc'[q] = ppc[q] BY <1>0
<1>5. ppc'[p] = "add" BY <1>0
<1>6. \A q \in Producers : Writing(q)' <=> Writing(q) /\ q # p BY <1>4, <1>5 DEF Writing
<1>7. \A q \in Producers : Writing(q)' => ppos[q] # c BY <1>0, <1>1, <1>6 DEF WritersInv, Writing
<1>8. WritersInv'
  <2>1. \A q \in Producers : Writing(q)' => SeqAt(ppos[q])' = SeqAt(ppos[q])
    BY <1>0, <1>1, <1>3, <1>6, <1>7, Numbers DEF WritersInv
  <2> QED BY <1>0, <1>6, <2>1 DEF WritersInv
<1>9. ReadersInv'
  <2>1. \A w \in Workers : Reading(w) => SeqAt(wpos[w])' = SeqAt(wpos[w])
    BY <1>0, <1>1, <1>3, Numbers DEF ReadersInv
  <2> QED BY <1>0, <2>1 DEF ReadersInv, Reading
<1>10. CellsInv'
  <2>1. ASSUME NEW pos \in Claimed
        PROVE  \/ SeqAt(pos)' = pos + 1
               \/ SeqAt(pos)' = pos /\ \E q \in Producers : Writing(q)' /\ ppos'[q] = pos
    <3>1. CASE pos = c BY <1>0, <1>2, <3>1
    <3>2. CASE pos # c
      <4>1. SeqAt(pos)' = SeqAt(pos) BY <1>0, <1>1, <1>3, <3>2, Numbers
      <4>2. \A q \in Producers : Writing(q) /\ ppos[q] = pos => Writing(q)' BY <1>1, <1>6, <3>2
      <4> QED BY <1>0, <4>1, <4>2 DEF CellsInv
    <3> QED BY <3>1, <3>2
  <2>2. \A pos \in Ahead : SeqAt(pos)' = SeqAt(pos) BY <1>0, <1>1, <1>3, Numbers
  <2> QED BY <1>0, <2>1, <2>2 DEF CellsInv
<1>11. ClaimInv'
  <2>1. \A q \in Producers : ppc'[q] \in {"cell", "claim"} => ppc'[q] = ppc[q] BY <1>4, <1>5
  <2>2. SeqAt(head) = head => SeqAt(head)' = head BY <1>0, <1>1, <1>2, Numbers
  <2>3. SeqAt(tail) = tail + 1 => SeqAt(tail)' = tail + 1
    <3>1. CASE tail = c BY <1>0, <1>2, <3>1
    <3>2. CASE tail # c BY <1>0, <1>1, <1>3, <3>2, Numbers
    <3> QED BY <3>1, <3>2
  <2>4. \A a \in Nat : SeqAt(a) > a => SeqAt(a)' > a BY <1>0, <1>1, <1>2, Numbers
  <2> QED BY <1>0, <2>1, <2>2, <2>3, <2>4, Numbers DEF ClaimInv
<1> QED BY <1>8, <1>9, <1>10, <1>11

LEMMA FreeCellRing == ASSUME TypeOK, RingInv, NEW w \in Workers, FreeCell(w) PROVE RingInv'
<1> USE DEF RingInv, SeqAt, Claimed, Ahead
<1> DEFINE c == wpos[w]
<1>0. /\ wpc[w] = "free" /\ wpc \in [Workers -> WSteps] /\ c \in Nat
      /\ sequence' = [sequence EXCEPT ![Cell(c)] = c + Cap]
      /\ wpc' = [wpc EXCEPT ![w] = "execute"]
      /\ UNCHANGED <<head, tail, ppos, ppc, wpos>>
  BY DEF FreeCell, At, TypeOK, WSteps, ringVars, prodVars
<1> HIDE DEF c
<1>1. /\ c \in head - Cap .. tail - 1 /\ SeqAt(c) = c + 1 /\ wpos[w] = c
  BY <1>0 DEF ReadersInv, Reading, c
<1>2. \A a \in Nat : SeqAt(a)' = IF Cell(a) = Cell(c) THEN c + Cap ELSE SeqAt(a)
  BY <1>0, Stored
<1>3. \A a \in Nat : a # c /\ a < c + Cap /\ c < a + Cap => SeqAt(a)' = SeqAt(a)
  BY <1>0, <1>2, Numbers
<1>4. \A v \in Workers : v # w => wpc'[v] = wpc[v] BY <1>0
<1>5. wpc'[w] = "execute" BY <1>0
<1>6. \A v \in Workers : Reading(v)' <=> Reading(v) /\ v # w BY <1>4, <1>5 DEF Reading
<1>7. \A v \in Workers : Reading(v)' => wpos[v] # c BY <1>0, <1>1, <1>6 DEF ReadersInv, Reading
<1>8. WritersInv'
  <2>1. \A p \in Producers : Writing(p) => SeqAt(ppos[p])' = SeqAt(ppos[p])
    BY <1>0, <1>1, <1>3, Numbers DEF WritersInv
  <2> QED BY <1>0, <2>1 DEF WritersInv, Writing
<1>9. ReadersInv'
  <2>1. \A v \in Workers : Reading(v)' => SeqAt(wpos[v])' = SeqAt(wpos[v])
    BY <1>0, <1>1, <1>3, <1>6, <1>7, Numbers DEF ReadersInv
  <2> QED BY <1>0, <1>6, <2>1 DEF ReadersInv
<1>10. CellsInv'
  <2>1. \A pos \in Claimed : SeqAt(pos)' = SeqAt(pos) BY <1>0, <1>1, <1>3, Numbers
  <2>2. ASSUME NEW pos \in Ahead PROVE SeqAt(pos)' \in {pos, pos - Cap + 1}
    <3>1. CASE pos = c + Cap
      <4>1. Cell(pos) = Cell(c) BY <1>0, <3>1, NextLap
      <4> QED BY <1>0, <1>2, <3>1, <4>1, Numbers
    <3>2. CASE pos # c + Cap
      <4>1. pos \in Nat /\ pos # c /\ pos < c + Cap + Cap /\ c < pos BY <1>0, <1>1, <3>2, Numbers
      <4>2. Cell(pos) # Cell(c)
        <5>1. Cell(c + Cap) = Cell(c) /\ c + Cap \in Nat BY <1>0, NextLap, Numbers
        <5> QED BY <1>1, <3>2, <4>1, <5>1, Numbers
      <4> QED BY <1>2, <4>1, <4>2 DEF CellsInv
    <3> QED BY <3>1, <3>2
  <2> QED BY <1>0, <2>1, <2>2 DEF CellsInv, Writing
<1>11. ClaimInv'
  <2>1. \A v \in Workers : wpc'[v] \in {"cell", "claim"} => wpc'[v] = wpc[v] BY <1>4, <1>5
  <2>2. SeqAt(head) = head => SeqAt(head)' = head
    <3> SUFFICES ASSUME SeqAt(head) = head, Cell(head) = Cell(c) PROVE FALSE BY <1>0, <1>2, Bounds
    <3>1. c + 1 = head BY <1>1
    <3> QED BY <1>0, <3>1, Numbers
  <2>3. SeqAt(tail) = tail + 1 => SeqAt(tail)' = tail + 1
    <3> SUFFICES ASSUME SeqAt(tail) = tail + 1, Cell(tail) = Cell(c) PROVE FALSE BY <1>0, <1>2, Bounds
    <3> QED BY <1>0, <1>1, Bounds
  <2>4. \A a \in Nat : SeqAt(a) > a => SeqAt(a)' > a BY <1>0, <1>1, <1>2, Numbers
  <2> QED BY <1>0, <2>1, <2>2, <2>3, <2>4, Numbers DEF ClaimInv
<1> QED BY <1>8, <1>9, <1>10, <1>11

\* The other steps of the producers.
LEMMA ProducerRing == ASSUME TypeOK, RingInv, NEW p \in Producers, Producer(p) PROVE RingInv'
<1> USE DEF To
<1>0. ppc \in [Producers -> PSteps] /\ ppos \in [Producers -> Nat] /\ wpc \in [Workers -> WSteps]
  BY DEF TypeOK, PSteps, WSteps
\* A step that leaves the claims alone.
<1>1. ASSUME NEW step \in PSteps, ppc' = [ppc EXCEPT ![p] = step], step \notin {"cell", "claim"},
             step \in {"write", "publish"} <=> ppc[p] \in {"write", "publish"},
             UNCHANGED <<sequence, head, tail, ppos, wpc, wpos>>
      PROVE  RingInv'
  <2>1. \A q \in Producers : ppc'[q] = IF q = p THEN step ELSE ppc[q] BY <1>0, <1>1
  <2>2. \A q \in Producers : Writing(q)' <=> Writing(q) BY <1>1, <2>1 DEF Writing
  <2> QED BY <1>1, <2>1, <2>2, RingSame DEF Reading
<1>2. CASE CheckStop(p)
  <2>1. PICK step \in {"idle", "head"} : ppc' = [ppc EXCEPT ![p] = step]
    BY <1>2 DEF CheckStop
  <2> QED BY <1>1, <1>2, <2>1 DEF CheckStop, ringVars, workVars, PSteps
<1>3. CASE LoadHead(p)
  <2>1. /\ ppc[p] = "head" /\ ppos' = [ppos EXCEPT ![p] = head] /\ ppc' = [ppc EXCEPT ![p] = "cell"]
        /\ UNCHANGED <<sequence, head, tail, wpc, wpos>>
    BY <1>3 DEF LoadHead, ringVars, workVars
  <2>2. \A q \in Producers : q # p => ppc'[q] = ppc[q] /\ ppos'[q] = ppos[q] BY <1>0, <2>1
  <2>3. ppc'[p] = "cell" /\ ppos'[p] = head BY <1>0, <2>1
  <2>4. \A q \in Producers : (Writing(q)' <=> Writing(q)) /\ (Writing(q) => ppos'[q] = ppos[q])
    BY <2>1, <2>2, <2>3 DEF Writing
  <2> USE DEF RingInv, SeqAt, Claimed, Ahead
  <2>5. WritersInv' BY <2>1, <2>4 DEF WritersInv
  <2>6. ReadersInv' BY <2>1 DEF ReadersInv, Reading
  <2>7. CellsInv' BY <2>1, <2>4 DEF CellsInv
  <2>8. ClaimInv' BY <2>1, <2>2, <2>3, Bounds DEF ClaimInv
  <2> QED BY <2>5, <2>6, <2>7, <2>8
<1>4. CASE LoadFree(p)
  <2>1. PICK step \in {"claim", "idle", "head"} :
          /\ ppc' = [ppc EXCEPT ![p] = step]
          /\ step = "claim" => SeqAt(ppos[p]) - ppos[p] = 0
    BY <1>4 DEF LoadFree, SeqAt
  <2>2. ppc[p] = "cell" /\ UNCHANGED <<sequence, head, tail, ppos, wpc, wpos>>
    BY <1>4 DEF LoadFree, ringVars, workVars
  <2>3. CASE step # "claim" BY <1>1, <2>1, <2>2, <2>3 DEF PSteps
  <2>4. CASE step = "claim"
    <3>1. \A q \in Producers : q # p => ppc'[q] = ppc[q] BY <1>0, <2>1
    <3>2. ppc'[p] = "claim" BY <1>0, <2>1, <2>4
    <3>3. \A q \in Producers : Writing(q)' <=> Writing(q) BY <2>2, <3>1, <3>2 DEF Writing
    <3>4. SeqAt(ppos[p]) = ppos[p] BY <2>1, <2>4, Numbers
    <3> USE DEF RingInv, SeqAt, Claimed, Ahead
    <3>5. WritersInv' BY <2>2, <3>3 DEF WritersInv
    <3>6. ReadersInv' BY <2>2 DEF ReadersInv, Reading
    <3>7. CellsInv' BY <2>2, <3>3 DEF CellsInv
    <3>8. ClaimInv' BY <2>2, <3>1, <3>2, <3>4 DEF ClaimInv
    <3> QED BY <3>5, <3>6, <3>7, <3>8
  <2> QED BY <2>3, <2>4
<1>5. CASE ClaimHead(p) BY <1>5, ClaimHeadRing
<1>6. CASE WriteData(p)
  <2>1. ppc[p] = "write" /\ ppc' = [ppc EXCEPT ![p] = "publish"] /\ UNCHANGED <<sequence, head, tail, ppos, wpc, wpos>>
    BY <1>6 DEF WriteData, workVars
  <2> QED BY <1>1, <2>1 DEF PSteps
<1>7. CASE Publish(p) BY <1>7, PublishRing
<1>8. CASE AddPermit(p)
  <2>1. ppc[p] = "add" /\ ppc' = [ppc EXCEPT ![p] = "look"] /\ UNCHANGED <<sequence, head, tail, ppos, wpc, wpos>>
    BY <1>8 DEF AddPermit, ringVars, workVars
  <2> QED BY <1>1, <2>1 DEF PSteps
<1>9. CASE LookForWaiters(p)
  <2>1. PICK step \in {"notify", "idle"} : ppc' = [ppc EXCEPT ![p] = step]
    BY <1>9 DEF LookForWaiters
  <2>2. ppc[p] = "look" /\ UNCHANGED <<sequence, head, tail, ppos, wpc, wpos>>
    BY <1>9 DEF LookForWaiters, ringVars, workVars
  <2> QED BY <1>1, <2>1, <2>2 DEF PSteps
<1>10. CASE NotifyOne(p)
  <2>1. ppc[p] = "notify" /\ ppc' = [ppc EXCEPT ![p] = "idle"] /\ UNCHANGED <<sequence, head, tail, ppos, wpos>>
    BY <1>10 DEF NotifyOne, ringVars
  <2>2. wpc' = wpc \/ \E w \in Parked : wpc' = [wpc EXCEPT ![w] = "park"]
    BY <1>10 DEF NotifyOne
  <2>3. \A w \in Workers : wpc'[w] = wpc[w] \/ wpc'[w] = "park" BY <1>0, <2>2 DEF Parked
  <2>4. \A q \in Producers : ppc'[q] = ppc[q] \/ q = p BY <1>0, <2>1
  <2>5. ppc'[p] = "idle" BY <1>0, <2>1
  <2> QED BY <2>1, <2>3, <2>4, <2>5, RingSame DEF Reading, Writing
<1> QED BY <1>2, <1>3, <1>4, <1>5, <1>6, <1>7, <1>8, <1>9, <1>10 DEF Producer

LEMMA WorkerRing == ASSUME TypeOK, RingInv, NEW w \in Workers, Worker(w) PROVE RingInv'
<1> USE DEF At
<1>0. ppc \in [Producers -> PSteps] /\ wpos \in [Workers -> Nat] /\ wpc \in [Workers -> WSteps]
  BY DEF TypeOK, PSteps, WSteps
<1>1. ASSUME NEW step \in WSteps, wpc' = [wpc EXCEPT ![w] = step], step \notin {"cell", "claim"},
             step \in {"read", "free"} => wpc[w] \in {"read", "free"},
             UNCHANGED <<sequence, head, tail, wpos, ppc, ppos>>
      PROVE  RingInv'
  <2>1. \A v \in Workers : wpc'[v] = IF v = w THEN step ELSE wpc[v] BY <1>0, <1>1
  <2>2. \A v \in Workers : Reading(v)' => Reading(v) BY <1>1, <2>1 DEF Reading
  <2> QED BY <1>1, <2>1, <2>2, RingSame DEF Writing
<1>2. CASE TakePermit(w)
  <2>1. wpc' = [wpc EXCEPT ![w] = "tail"] /\ UNCHANGED <<sequence, head, tail, wpos, ppc, ppos>>
    BY <1>2 DEF TakePermit, ringVars, prodVars
  <2> QED BY <1>1, <2>1 DEF WSteps
<1>3. CASE SeeNone(w)
  <2>1. wpc' = [wpc EXCEPT ![w] = "announce"] /\ UNCHANGED <<sequence, head, tail, wpos, ppc, ppos>>
    BY <1>3 DEF SeeNone, ringVars, prodVars
  <2> QED BY <1>1, <2>1 DEF WSteps
<1>4. CASE Announce(w)
  <2>1. wpc' = [wpc EXCEPT ![w] = "park"] /\ UNCHANGED <<sequence, head, tail, wpos, ppc, ppos>>
    BY <1>4 DEF Announce, ringVars, prodVars
  <2> QED BY <1>1, <2>1 DEF WSteps
<1>5. CASE Park(w)
  <2>1. PICK step \in {"parked", "leave"} : wpc' = [wpc EXCEPT ![w] = step] BY <1>5 DEF Park
  <2>2. UNCHANGED <<sequence, head, tail, wpos, ppc, ppos>> BY <1>5 DEF Park, ringVars, prodVars
  <2> QED BY <1>1, <2>1, <2>2 DEF WSteps
<1>6. CASE Leave(w)
  <2>1. wpc' = [wpc EXCEPT ![w] = "acquire"] /\ UNCHANGED <<sequence, head, tail, wpos, ppc, ppos>>
    BY <1>6 DEF Leave, ringVars, prodVars
  <2> QED BY <1>1, <2>1 DEF WSteps
<1>7. CASE LoadTail(w)
  <2>1. /\ wpc[w] = "tail" /\ wpos' = [wpos EXCEPT ![w] = tail] /\ wpc' = [wpc EXCEPT ![w] = "cell"]
        /\ UNCHANGED <<sequence, head, tail, ppc, ppos>>
    BY <1>7 DEF LoadTail, ringVars, prodVars
  <2>2. \A v \in Workers : v # w => wpc'[v] = wpc[v] /\ wpos'[v] = wpos[v] BY <1>0, <2>1
  <2>3. wpc'[w] = "cell" /\ wpos'[w] = tail BY <1>0, <2>1
  <2>4. \A v \in Workers : (Reading(v)' <=> Reading(v)) /\ (Reading(v) => wpos'[v] = wpos[v])
    BY <2>1, <2>2, <2>3 DEF Reading
  <2> USE DEF RingInv, SeqAt, Claimed, Ahead
  <2>5. WritersInv' BY <2>1 DEF WritersInv, Writing
  <2>6. ReadersInv' BY <2>1, <2>4 DEF ReadersInv
  <2>7. CellsInv' BY <2>1 DEF CellsInv, Writing
  <2>8. ClaimInv' BY <2>1, <2>2, <2>3, Bounds DEF ClaimInv
  <2> QED BY <2>5, <2>6, <2>7, <2>8
<1>8. CASE LoadPublished(w)
  <2>1. PICK step \in {"claim", "empty", "tail"} :
          /\ wpc' = [wpc EXCEPT ![w] = step]
          /\ step = "claim" => SeqAt(wpos[w]) - (wpos[w] + 1) = 0
    BY <1>8 DEF LoadPublished, SeqAt
  <2>2. wpc[w] = "cell" /\ UNCHANGED <<sequence, head, tail, wpos, ppc, ppos>>
    BY <1>8 DEF LoadPublished, ringVars, prodVars
  <2>3. CASE step # "claim" BY <1>1, <2>1, <2>2, <2>3 DEF WSteps
  <2>4. CASE step = "claim"
    <3>1. \A v \in Workers : v # w => wpc'[v] = wpc[v] BY <1>0, <2>1
    <3>2. wpc'[w] = "claim" BY <1>0, <2>1, <2>4
    <3>3. \A v \in Workers : Reading(v)' <=> Reading(v) BY <2>2, <3>1, <3>2 DEF Reading
    <3>4. SeqAt(wpos[w]) = wpos[w] + 1 BY <2>1, <2>4, Numbers
    <3> USE DEF RingInv, SeqAt, Claimed, Ahead
    <3>5. WritersInv' BY <2>2 DEF WritersInv, Writing
    <3>6. ReadersInv' BY <2>2, <3>3 DEF ReadersInv
    <3>7. CellsInv' BY <2>2 DEF CellsInv, Writing
    <3>8. ClaimInv' BY <2>2, <3>1, <3>2, <3>4 DEF ClaimInv
    <3> QED BY <3>5, <3>6, <3>7, <3>8
  <2> QED BY <2>3, <2>4
<1>9. CASE ClaimTail(w) BY <1>9, ClaimTailRing
<1>10. CASE ReadData(w)
  <2>1. wpc[w] = "read" /\ wpc' = [wpc EXCEPT ![w] = "free"] /\ UNCHANGED <<sequence, head, tail, wpos, ppc, ppos>>
    BY <1>10 DEF ReadData, ringVars, prodVars
  <2> QED BY <1>1, <2>1 DEF WSteps
<1>11. CASE FreeCell(w) BY <1>11, FreeCellRing
<1>12. CASE Execute(w)
  <2>1. wpc' = [wpc EXCEPT ![w] = "acquire"] /\ UNCHANGED <<sequence, head, tail, wpos, ppc, ppos>>
    BY <1>12 DEF Execute, ringVars, prodVars
  <2> QED BY <1>1, <2>1 DEF WSteps
<1>13. CASE Empty(w)
  <2>1. PICK step \in {"exit", "acquire"} : wpc' = [wpc EXCEPT ![w] = step] BY <1>13 DEF Empty
  <2>2. UNCHANGED <<sequence, head, tail, wpos, ppc, ppos>> BY <1>13 DEF Empty, ringVars, prodVars
  <2> QED BY <1>1, <2>1, <2>2 DEF WSteps
<1> QED BY <1>2, <1>3, <1>4, <1>5, <1>6, <1>7, <1>8, <1>9, <1>10, <1>11, <1>12, <1>13 DEF Worker

\* The steps of shutdown() wake workers and leave the ring alone.
LEMMA StopRing == ASSUME TypeOK, RingInv, SetStop \/ AddPermits \/ NotifyAll \/ Join PROVE RingInv'
<1>1. UNCHANGED <<sequence, head, tail, ppc, ppos, wpos>>
  BY DEF SetStop, AddPermits, NotifyAll, Join, ringVars, prodVars, workVars
<1>2. \A w \in Workers : wpc'[w] = wpc[w] \/ wpc'[w] = "park"
  BY DEF SetStop, AddPermits, NotifyAll, Join, workVars
<1> QED BY <1>1, <1>2, RingSame DEF Reading, Writing

LEMMA StutterRing == ASSUME TypeOK, RingInv, UNCHANGED vars PROVE RingInv'
<1>1. UNCHANGED <<sequence, head, tail, ppc, ppos, wpc, wpos>> BY DEF vars, ringVars, prodVars, workVars
<1> QED BY <1>1, RingSame DEF Reading, Writing

LEMMA RingKeeps == ASSUME TypeOK, RingInv, [Next]_vars PROVE RingInv'
  BY ProducerRing, WorkerRing, StopRing, StutterRing
     DEF Next, ProducerStep, WorkerStep, StopStep, Finished

LEMMA InitRing == ASSUME Init PROVE RingInv
<1> USE CapFacts DEF Init
<1>1. WritersInv BY DEF WritersInv, Writing
<1>2. ReadersInv BY DEF ReadersInv, Reading
<1>3. CellsInv
  <2>1. \A a \in Nat : Cell(a) \in Cells BY Quotient
  <2>2. ASSUME NEW pos \in 0 .. Cap - 1 PROVE Cell(pos) = pos
    <3>1. pos \in Nat /\ pos < Cap OBVIOUS
    <3>2. pos % Cap = pos BY <3>1
    <3> QED BY <3>2 DEF Cell
  <2> QED BY <2>1, <2>2 DEF CellsInv, Claimed, Ahead, SeqAt
<1>4. ClaimInv BY DEF ClaimInv
<1> QED BY <1>1, <1>2, <1>3, <1>4 DEF RingInv

\* A cell's data has one user at a time.
LEMMA OneUser == ASSUME TypeOK, RingInv PROVE NoDataRace
<1> USE DEF RingInv, Claimed
<1>1. ASSUME NEW p \in Producers, NEW q \in Producers, Writing(p), Writing(q), p # q
      PROVE  Cell(ppos[p]) # Cell(ppos[q])
  <2>1. ppos[p] \in tail .. head - 1 /\ ppos[q] \in tail .. head - 1 /\ ppos[p] # ppos[q]
    BY <1>1 DEF WritersInv
  <2> QED BY <2>1, Bounds, SameCell
<1>2. ASSUME NEW v \in Workers, NEW w \in Workers, Reading(v), Reading(w), v # w
      PROVE  Cell(wpos[v]) # Cell(wpos[w])
  <2>1. wpos[v] \in head - Cap .. tail - 1 /\ wpos[w] \in head - Cap .. tail - 1 /\ wpos[v] # wpos[w]
    BY <1>2 DEF ReadersInv
  <2>2. wpos[v] \in Nat /\ wpos[w] \in Nat BY DEF TypeOK
  <2> QED BY <2>1, <2>2, Bounds, SameCell
<1>3. ASSUME NEW p \in Producers, NEW w \in Workers, Writing(p), Reading(w)
      PROVE  Cell(ppos[p]) # Cell(wpos[w])
  <2>1. ppos[p] \in tail .. head - 1 /\ wpos[w] \in head - Cap .. tail - 1
    BY <1>3 DEF WritersInv, ReadersInv
  <2>2. ppos[p] \in Nat /\ wpos[w] \in Nat BY DEF TypeOK
  <2> QED BY <2>1, <2>2, Bounds, SameCell
<1> QED BY <1>1, <1>2, <1>3 DEF NoDataRace, Writing, Reading

----------------------------------------------------------------------------
(* What the steps of a thread leave alone.                                 *)

LEMMA Functions ==
    ASSUME TypeOK
    PROVE  /\ ppc \in [Producers -> PSteps] /\ sent \in [Producers -> Nat]
           /\ ppos \in [Producers -> Nat]
           /\ wpc \in [Workers -> WSteps] /\ wpos \in [Workers -> Nat]
           /\ item \in [Workers -> Task \cup {NoTask}]
           /\ data \in [Cells -> Task \cup {NoTask}]
  BY DEF TypeOK, PSteps, WSteps

LEMMA ProducerMoves ==
    ASSUME TypeOK, NEW p \in Producers, Producer(p)
    PROVE  /\ \A q \in Producers \ {p} :
                ppc'[q] = ppc[q] /\ sent'[q] = sent[q] /\ ppos'[q] = ppos[q]
           /\ UNCHANGED <<tail, waiters, stop, wpos, item, spc, promised, ran>>
           /\ \A w \in Workers : \/ wpc'[w] = wpc[w]
                                 \/ wpc[w] = "parked" /\ wpc'[w] = "park" /\ ppc[p] = "notify"
<1> USE Functions DEF To
<1>1. CASE CheckStop(p) BY <1>1 DEF CheckStop, ringVars, semVars, workVars, ghostVars
<1>2. CASE LoadHead(p) BY <1>2 DEF LoadHead, ringVars, semVars, workVars, ghostVars
<1>3. CASE LoadFree(p) BY <1>3 DEF LoadFree, ringVars, semVars, workVars, ghostVars
<1>4. CASE ClaimHead(p) BY <1>4 DEF ClaimHead, ringVars, semVars, workVars, ghostVars
<1>5. CASE WriteData(p) BY <1>5 DEF WriteData, ringVars, semVars, workVars, ghostVars
<1>6. CASE Publish(p) BY <1>6 DEF Publish, ringVars, semVars, workVars, ghostVars
<1>7. CASE AddPermit(p) BY <1>7 DEF AddPermit, ringVars, semVars, workVars, ghostVars
<1>8. CASE LookForWaiters(p) BY <1>8 DEF LookForWaiters, ringVars, semVars, workVars, ghostVars
<1>9. CASE NotifyOne(p) BY <1>9 DEF NotifyOne, Parked, ringVars, semVars, workVars, ghostVars
<1> QED BY <1>1, <1>2, <1>3, <1>4, <1>5, <1>6, <1>7, <1>8, <1>9 DEF Producer

LEMMA WorkerMoves ==
    ASSUME TypeOK, NEW w \in Workers, Worker(w)
    PROVE  /\ \A v \in Workers \ {w} :
                wpc'[v] = wpc[v] /\ wpos'[v] = wpos[v] /\ item'[v] = item[v]
           /\ wpc[w] \notin {"parked", "exit"}
           /\ UNCHANGED <<data, head, stop, ppc, sent, ppos, spc, accepted, promised>>
<1> USE Functions DEF At, ringVars, semVars, prodVars, ghostVars
<1>1. CASE TakePermit(w) BY <1>1 DEF TakePermit
<1>2. CASE SeeNone(w) BY <1>2 DEF SeeNone
<1>3. CASE Announce(w) BY <1>3 DEF Announce
<1>4. CASE Park(w) BY <1>4 DEF Park
<1>5. CASE Leave(w) BY <1>5 DEF Leave
<1>6. CASE LoadTail(w) BY <1>6 DEF LoadTail
<1>7. CASE LoadPublished(w) BY <1>7 DEF LoadPublished
<1>8. CASE ClaimTail(w) BY <1>8 DEF ClaimTail
<1>9. CASE ReadData(w) BY <1>9 DEF ReadData
<1>10. CASE FreeCell(w) BY <1>10 DEF FreeCell
<1>11. CASE Execute(w) BY <1>11 DEF Execute
<1>12. CASE Empty(w) BY <1>12 DEF Empty
<1> QED BY <1>1, <1>2, <1>3, <1>4, <1>5, <1>6, <1>7, <1>8, <1>9, <1>10, <1>11, <1>12 DEF Worker

Stopping == SetStop \/ AddPermits \/ NotifyAll \/ Join

LEMMA StopMoves ==
    ASSUME TypeOK, Stopping
    PROVE  /\ UNCHANGED <<sequence, data, head, tail, waiters, ppc, sent, ppos, wpos, item, accepted, ran>>
           /\ \A w \in Workers : wpc'[w] = wpc[w] \/ (wpc[w] = "parked" /\ wpc'[w] = "park")
<1> USE Functions DEF ringVars, prodVars, workVars, ghostVars, semVars
<1>1. CASE SetStop BY <1>1 DEF SetStop
<1>2. CASE AddPermits BY <1>2 DEF AddPermits
<1>3. CASE NotifyAll BY <1>3 DEF NotifyAll, Parked
<1>4. CASE Join BY <1>4 DEF Join
<1> QED BY <1>1, <1>2, <1>3, <1>4 DEF Stopping

\* A step is that of one producer, one worker or the thread in shutdown().
LEMMA NextMoves ==
    ASSUME [Next]_vars
    PROVE  /\ pool' = pool
           /\ \/ \E p \in Producers : Producer(p)
              \/ \E w \in Workers : Worker(w)
              \/ Stopping
              \/ UNCHANGED vars
  BY DEF Next, ProducerStep, WorkerStep, StopStep, Finished, Stopping, vars

----------------------------------------------------------------------------
(* Types.                                                                  *)

LEMMA Submitted ==
    ASSUME NEW p \in Producers, NEW pl \in Pools, NEW k \in 1 .. pl.tasks[p]
    PROVE  <<p, k>> \in Task
<1> DEFINE Of(q, l) == {<<q, i>> : i \in 1 .. l.tasks[q]}
<1>1. Of(p, pl) \in {Of(q, l) : q \in Producers, l \in Pools} OBVIOUS
<1>2. <<p, k>> \in Of(p, pl) OBVIOUS
<1>3. Task = UNION {Of(q, l) : q \in Producers, l \in Pools} BY DEF Task
<1> HIDE DEF Of
<1>4. <<p, k>> \in UNION {Of(q, l) : q \in Producers, l \in Pools} BY <1>1, <1>2
<1> QED BY <1>3, <1>4

LEMMA MineTask ==
    ASSUME PoolAssumption, TypeOK, SentInv, NEW p \in Producers, ppc[p] # "idle"
    PROVE  Mine(p) \in Task
<1>1. pool \in Pools /\ sent[p] \in Nat /\ sent[p] > 0 /\ sent[p] <= pool.tasks[p]
  BY DEF SentInv, TypeOK
<1>2. pool.tasks[p] \in Nat BY <1>1 DEF PoolAssumption
<1> QED BY <1>1, <1>2, Submitted DEF Mine

LEMMA TaskShape ==
    ASSUME PoolAssumption, NEW t \in Task
    PROVE  t[1] \in Producers /\ t[2] \in Nat /\ t[2] > 0 /\ t = <<t[1], t[2]>>
<1> DEFINE Of(q, pl) == {<<q, k>> : k \in 1 .. pl.tasks[q]}
<1>1. PICK q \in Producers, pl \in Pools : t \in Of(q, pl) BY DEF Task
<1>2. pl.tasks[q] \in Nat BY DEF PoolAssumption
<1>3. PICK k \in 1 .. pl.tasks[q] : t = <<q, k>> BY <1>1
<1> QED BY <1>2, <1>3

\* Sets of threads are finite, and change by one thread at a time.
LEMMA Threads ==
    ASSUME PoolAssumption
    PROVE  /\ \A S \in SUBSET Workers : IsFiniteSet(S) /\ Cardinality(S) \in Nat
                                        /\ Cardinality(S) <= Cardinality(Workers)
           /\ \A S \in SUBSET Producers : IsFiniteSet(S) /\ Cardinality(S) \in Nat
<1>1. IsFiniteSet(Workers) /\ IsFiniteSet(Producers) BY DEF PoolAssumption
<1> QED BY <1>1, FS_Subset, FS_CardinalityType

LEMMA Grown ==
    ASSUME NEW S, NEW T, NEW x, IsFiniteSet(S), x \notin S, T = S \cup {x}
    PROVE  Cardinality(T) = Cardinality(S) + 1
  BY FS_AddElement

LEMMA Shrunk ==
    ASSUME NEW S, NEW T, NEW x, IsFiniteSet(S), x \in S, T = S \ {x}
    PROVE  Cardinality(T) = Cardinality(S) - 1
  BY FS_RemoveElement

\* A worker that is not announced is one more than those that are.
LEMMA WaitersBound ==
    ASSUME PoolAssumption, TypeOK, waiters = Cardinality(Announced), NEW w \in Workers
    PROVE  /\ w \notin Announced => waiters + 1 <= Cardinality(Workers)
           /\ w \in Announced => waiters > 0
<1>1. /\ Announced \in SUBSET Workers /\ Announced \cup {w} \in SUBSET Workers
      /\ Announced \ {w} \in SUBSET Workers
  BY DEF Announced
<1>2. w \notin Announced => Cardinality(Announced \cup {w}) = waiters + 1
  BY <1>1, Threads, Grown
<1>3. w \in Announced => Cardinality(Announced \ {w}) = waiters - 1
  BY <1>1, Threads, Shrunk
<1> QED BY <1>1, <1>2, <1>3, Threads

LEMMA ProducerType ==
    ASSUME PoolAssumption, TypeOK, RingInv, TaskInv, NEW p \in Producers, Producer(p)
    PROVE  TypeOK'
<1> USE Functions, Bounds DEF To
<1>1. CASE CheckStop(p) BY <1>1 DEF CheckStop, TypeOK, ringVars, semVars, workVars, ghostVars
<1>2. CASE LoadHead(p) BY <1>2 DEF LoadHead, TypeOK, ringVars, semVars, workVars, ghostVars
<1>3. CASE LoadFree(p)
  <2>1. PICK step \in {"claim", "idle", "head"} : ppc' = [ppc EXCEPT ![p] = step]
    BY <1>3 DEF LoadFree
  <2> QED BY <1>3, <2>1 DEF LoadFree, TypeOK, ringVars, semVars, workVars, ghostVars
<1>4. CASE ClaimHead(p)
  <2>1. head = ppos[p] => head < tail + Cap
    BY <1>4, NotFull DEF ClaimHead, RingInv, ClaimInv
  <2>2. CASE head = ppos[p]
    <3>1. head' = head + 1 /\ tail' = tail BY <1>4, <2>2 DEF ClaimHead
    <3>2. head' \in tail' .. tail' + Cap BY <2>1, <2>2, <3>1
    <3>3. ppc' = [ppc EXCEPT ![p] = "write"] BY <1>4, <2>2 DEF ClaimHead
    <3> QED BY <1>4, <2>2, <3>2, <3>3 DEF ClaimHead, TypeOK, ringVars, semVars, workVars, ghostVars
  <2>3. CASE head # ppos[p]
    BY <1>4, <2>3 DEF ClaimHead, TypeOK, ringVars, semVars, workVars, ghostVars
  <2> QED BY <2>2, <2>3
<1>5. CASE WriteData(p)
  <2>1. Mine(p) \in Task BY <1>5, MineTask DEF WriteData, TaskInv
  <2> HIDE DEF Mine
  <2>2. data' \in [Cells -> Task \cup {NoTask}] BY <1>5, <2>1 DEF WriteData
  <2> QED BY <1>5, <2>2 DEF WriteData, TypeOK, ringVars, semVars, workVars, ghostVars
<1>6. CASE Publish(p)
  <2>0. ppos[p] + 1 \in Nat /\ sequence \in [Cells -> Nat] BY DEF TypeOK
  <2>1. sequence' \in [Cells -> Nat] BY <1>6, <2>0 DEF Publish
  <2> QED BY <1>6, <2>1 DEF Publish, TypeOK, ringVars, semVars, workVars, ghostVars
<1>7. CASE AddPermit(p)
  <2>1. Mine(p) \in Task BY <1>7, MineTask DEF AddPermit, TaskInv
  <2> HIDE DEF Mine
  <2> QED BY <1>7, <2>1 DEF AddPermit, TypeOK, ringVars, semVars, workVars, ghostVars
<1>8. CASE LookForWaiters(p)
  BY <1>8 DEF LookForWaiters, TypeOK, ringVars, semVars, workVars, ghostVars
<1>9. CASE NotifyOne(p)
  BY <1>9 DEF NotifyOne, Parked, TypeOK, ringVars, semVars, workVars, ghostVars
<1> QED BY <1>1, <1>2, <1>3, <1>4, <1>5, <1>6, <1>7, <1>8, <1>9 DEF Producer

LEMMA WorkerType ==
    ASSUME PoolAssumption, TypeOK, RingInv, TaskInv, WaitInv, NEW w \in Workers, Worker(w)
    PROVE  TypeOK'
<1> USE Functions, Bounds DEF At
<1>0. waiters = Cardinality(Announced) BY DEF WaitInv
<1>1. CASE TakePermit(w) BY <1>1 DEF TakePermit, TypeOK, ringVars, semVars, prodVars, ghostVars
<1>2. CASE SeeNone(w) BY <1>2 DEF SeeNone, TypeOK, ringVars, semVars, prodVars, ghostVars
<1>3. CASE Announce(w)
  <2>1. w \notin Announced BY <1>3 DEF Announce, Announced
  <2>2. waiters' \in 0 .. Cardinality(Workers)
    BY <1>0, <1>3, <2>1, WaitersBound, Threads DEF Announce, TypeOK
  <2> QED BY <1>3, <2>2 DEF Announce, TypeOK, ringVars, semVars, prodVars, ghostVars
<1>4. CASE Park(w) BY <1>4 DEF Park, TypeOK, ringVars, semVars, prodVars, ghostVars
<1>5. CASE Leave(w)
  <2>1. w \in Announced BY <1>5 DEF Leave, Announced
  <2>2. waiters > 0 BY <1>0, <2>1, WaitersBound
  <2>3. waiters' = waiters - 1 /\ waiters \in 0 .. Cardinality(Workers) BY <1>5 DEF Leave, TypeOK
  <2>4. Cardinality(Workers) \in Nat BY Threads
  <2>5. waiters' \in 0 .. Cardinality(Workers) BY <2>2, <2>3, <2>4
  <2> QED BY <1>5, <2>5 DEF Leave, TypeOK, ringVars, semVars, prodVars, ghostVars
<1>6. CASE LoadTail(w) BY <1>6 DEF LoadTail, TypeOK, ringVars, semVars, prodVars, ghostVars
<1>7. CASE LoadPublished(w)
  <2>1. PICK step \in {"claim", "empty", "tail"} : wpc' = [wpc EXCEPT ![w] = step]
    BY <1>7 DEF LoadPublished
  <2> QED BY <1>7, <2>1 DEF LoadPublished, TypeOK, ringVars, semVars, prodVars, ghostVars
<1>8. CASE ClaimTail(w)
  <2>1. tail = wpos[w] => tail < head
    BY <1>8, NotEmpty DEF ClaimTail, RingInv, ClaimInv
  <2>2. CASE tail = wpos[w]
    <3>1. tail' = tail + 1 /\ head' = head BY <1>8, <2>2 DEF ClaimTail
    <3>2. tail' \in Nat /\ head' \in tail' .. tail' + Cap BY <2>1, <2>2, <3>1
    <3>3. wpc' = [wpc EXCEPT ![w] = "read"] BY <1>8, <2>2 DEF ClaimTail
    <3> QED BY <1>8, <2>2, <3>2, <3>3 DEF ClaimTail, TypeOK, ringVars, semVars, prodVars, ghostVars
  <2>3. CASE tail # wpos[w]
    BY <1>8, <2>3 DEF ClaimTail, TypeOK, ringVars, semVars, prodVars, ghostVars
  <2> QED BY <2>2, <2>3
<1>9. CASE ReadData(w)
  <2>1. Cell(wpos[w]) \in Cells BY Quotient
  <2>2. data[Cell(wpos[w])] \in Task \cup {NoTask} BY <2>1
  <2> QED BY <1>9, <2>2 DEF ReadData, TypeOK, ringVars, semVars, prodVars, ghostVars
<1>10. CASE FreeCell(w)
  <2>0. wpos[w] + Cap \in Nat /\ sequence \in [Cells -> Nat] BY DEF TypeOK
  <2>1. sequence' \in [Cells -> Nat] BY <1>10, <2>0 DEF FreeCell
  <2> QED BY <1>10, <2>1 DEF FreeCell, TypeOK, ringVars, semVars, prodVars, ghostVars
<1>11. CASE Execute(w)
  <2>1. item[w] \in Task BY <1>11 DEF Execute, TaskInv, HandInv
  <2>2. ran' \in Seq(Task) BY <1>11, <2>1, AppendProperties DEF Execute, TypeOK
  <2> QED BY <1>11, <2>2 DEF Execute, TypeOK, ringVars, semVars, prodVars, ghostVars
<1>12. CASE Empty(w) BY <1>12 DEF Empty, TypeOK, ringVars, semVars, prodVars, ghostVars
<1> QED BY <1>1, <1>2, <1>3, <1>4, <1>5, <1>6, <1>7, <1>8, <1>9, <1>10, <1>11, <1>12 DEF Worker

LEMMA TypeKeeps ==
    ASSUME PoolAssumption, TypeOK, RingInv, TaskInv, WaitInv, StopInv, [Next]_vars
    PROVE  TypeOK'
<1> USE DEF ringVars, semVars, prodVars, workVars, ghostVars
<1>1. CASE Stopping
  <2>1. CASE SetStop BY <2>1 DEF SetStop, TypeOK
  <2>2. CASE AddPermits
    <3>1. pool.workers \in SUBSET Workers BY DEF TaskInv, SentInv, PoolAssumption
    <3>2. Cardinality(pool.workers) \in Nat BY <3>1, Threads
    <3>3. count' \in Nat BY <2>2, <3>2 DEF AddPermits, StopPermits, TypeOK
    <3> QED BY <2>2, <3>3 DEF AddPermits, TypeOK
  <2>3. CASE NotifyAll BY <2>3 DEF NotifyAll, Parked, TypeOK
  <2>4. CASE Join BY <2>4 DEF Join, TypeOK
  <2> QED BY <1>1, <2>1, <2>2, <2>3, <2>4 DEF Stopping
<1>2. CASE UNCHANGED vars BY <1>2 DEF vars, TypeOK
<1> QED BY <1>1, <1>2, NextMoves, ProducerType, WorkerType

----------------------------------------------------------------------------
(* Who changes what.                                                       *)

LEMMA ProducerShape ==
    ASSUME TypeOK, NEW p \in Producers, Producer(p)
    PROVE  /\ (sent' = sent /\ ppc[p] # "idle") \/ CheckStop(p)
           /\ accepted' = accepted \/ AddPermit(p)
           /\ ppc'[p] \in {"cell", "claim", "write", "publish", "add"} => ppc[p] # "idle"
           /\ ppc'[p] \in {"head", "cell", "claim", "write", "publish", "add"} =>
                CheckStop(p) \/ ppc[p] \in {"head", "cell", "claim", "write", "publish"}
           /\ ppc'[p] = "publish" => WriteData(p)
           /\ ppc'[p] = "add" => Publish(p)
           /\ UNCHANGED <<sequence, data, head, tail>> \/ ClaimHead(p) \/ WriteData(p) \/ Publish(p)
<1> USE Functions DEF To, ringVars, semVars, workVars, ghostVars
<1>1. CASE CheckStop(p) BY <1>1 DEF CheckStop
<1>2. CASE LoadHead(p) BY <1>2 DEF LoadHead
<1>3. CASE LoadFree(p)
  <2>1. PICK step \in {"claim", "idle", "head"} : ppc' = [ppc EXCEPT ![p] = step]
    BY <1>3 DEF LoadFree
  <2> QED BY <1>3, <2>1 DEF LoadFree
<1>4. CASE ClaimHead(p) BY <1>4 DEF ClaimHead
<1>5. CASE WriteData(p) BY <1>5 DEF WriteData
<1>6. CASE Publish(p) BY <1>6 DEF Publish
<1>7. CASE AddPermit(p) BY <1>7 DEF AddPermit
<1>8. CASE LookForWaiters(p) BY <1>8 DEF LookForWaiters
<1>9. CASE NotifyOne(p) BY <1>9 DEF NotifyOne
<1> QED BY <1>1, <1>2, <1>3, <1>4, <1>5, <1>6, <1>7, <1>8, <1>9 DEF Producer

LEMMA WorkerShape ==
    ASSUME TypeOK, NEW w \in Workers, Worker(w)
    PROVE  /\ ran' = ran \/ Execute(w)
           /\ wpc'[w] = "read" => ClaimTail(w) /\ wpos[w] = tail /\ wpos' = wpos
           /\ wpc'[w] = "free" => ReadData(w)
           /\ wpc'[w] = "execute" => FreeCell(w)
           /\ wpc[w] = "read" => ReadData(w)
           /\ wpc[w] = "free" => FreeCell(w)
           /\ wpc[w] = "execute" => Execute(w)
           /\ UNCHANGED <<sequence, data, head, tail>> \/ ClaimTail(w) \/ FreeCell(w)
<1> USE Functions DEF At, ringVars, semVars, prodVars, ghostVars
<1>1. CASE TakePermit(w) BY <1>1 DEF TakePermit
<1>2. CASE SeeNone(w) BY <1>2 DEF SeeNone
<1>3. CASE Announce(w) BY <1>3 DEF Announce
<1>4. CASE Park(w) BY <1>4 DEF Park
<1>5. CASE Leave(w) BY <1>5 DEF Leave
<1>6. CASE LoadTail(w) BY <1>6 DEF LoadTail
<1>7. CASE LoadPublished(w)
  <2>1. PICK step \in {"claim", "empty", "tail"} : wpc' = [wpc EXCEPT ![w] = step]
    BY <1>7 DEF LoadPublished
  <2> QED BY <1>7, <2>1 DEF LoadPublished
<1>8. CASE ClaimTail(w) BY <1>8 DEF ClaimTail
<1>9. CASE ReadData(w) BY <1>9 DEF ReadData
<1>10. CASE FreeCell(w) BY <1>10 DEF FreeCell
<1>11. CASE Execute(w) BY <1>11 DEF Execute
<1>12. CASE Empty(w) BY <1>12 DEF Empty
<1> QED BY <1>1, <1>2, <1>3, <1>4, <1>5, <1>6, <1>7, <1>8, <1>9, <1>10, <1>11, <1>12 DEF Worker

LEMMA RingMoves ==
    ASSUME TypeOK, [Next]_vars
    PROVE  \/ UNCHANGED <<sequence, data, head, tail>>
           \/ \E p \in Producers : ClaimHead(p) \/ WriteData(p) \/ Publish(p)
           \/ \E w \in Workers : ClaimTail(w) \/ FreeCell(w)
<1>1. CASE Stopping BY <1>1, StopMoves
<1>2. CASE UNCHANGED vars BY <1>2 DEF vars, ringVars
<1> QED BY <1>1, <1>2, NextMoves, ProducerShape, WorkerShape

\* A published cell keeps its task until a worker claims it, only a producer that
\* publishes adds one, and nobody touches the cell of a thread that uses it.
CellsHold ==
    /\ \A pos \in Nat : Published(pos) /\ pos \in Claimed' =>
         Published(pos)' /\ DataAt(pos)' = DataAt(pos)
    /\ \A pos \in Nat : Published(pos)' =>
         Published(pos) \/ \E p \in Producers : Publish(p) /\ ppos[p] = pos
    /\ \A w \in Workers : Reading(w) => data'[Cell(wpos[w])] = DataAt(wpos[w])
    /\ \A p \in Producers : Writing(p) =>
         data'[Cell(ppos[p])] = DataAt(ppos[p]) \/ WriteData(p)

LEMMA CellsKept == ASSUME TypeOK, RingInv, [Next]_vars PROVE CellsHold
<1> USE DEF RingInv, Published, Claimed, SeqAt, DataAt
<1>1. CASE UNCHANGED <<sequence, data, head, tail>> BY <1>1 DEF CellsHold
<1>2. ASSUME NEW p \in Producers, ClaimHead(p) PROVE CellsHold
  <2>1. UNCHANGED <<sequence, data, tail>> BY <1>2 DEF ClaimHead
  <2>2. head' = head \/ (head' = head + 1 /\ SeqAt(head) = head)
    BY <1>2 DEF ClaimHead, ClaimInv
  <2> QED BY <2>1, <2>2, Bounds DEF CellsHold
<1>3. ASSUME NEW p \in Producers, WriteData(p) PROVE CellsHold
  <2> DEFINE c == ppos[p]
  <2>0. UNCHANGED <<sequence, head, tail>> /\ Writing(p) /\ c \in Nat
    BY <1>3, Functions DEF WriteData, Writing
  <2>1. c \in tail .. head - 1 /\ SeqAt(c) = c BY <2>0 DEF WritersInv
  <2>2. \A b \in Nat : Cell(b) # Cell(c) => data'[Cell(b)] = data[Cell(b)]
    <3>1. data' = [data EXCEPT ![Cell(c)] = Mine(p)] BY <1>3 DEF WriteData
    <3>2. \A b \in Nat : Cell(b) \in Cells BY Quotient
    <3> QED BY <3>1, <3>2, Functions
  <2> HIDE DEF c
  <2>3. ASSUME NEW pos \in Nat, Published(pos) PROVE data'[Cell(pos)] = data[Cell(pos)]
    <3>1. pos # c /\ pos \in tail .. head - 1 BY <2>1, <2>3
    <3>2. Cell(pos) # Cell(c) BY <2>0, <2>1, <3>1, Bounds, SameCell
    <3> QED BY <2>2, <3>2
  <2>4. ASSUME NEW w \in Workers, Reading(w) PROVE data'[Cell(wpos[w])] = data[Cell(wpos[w])]
    <3>1. Cell(c) # Cell(wpos[w]) BY <2>0, <2>4, OneUser DEF NoDataRace, Reading, Writing, c
    <3> QED BY <2>2, <3>1, Functions
  <2>5. ASSUME NEW q \in Producers, Writing(q), ~WriteData(q)
        PROVE  data'[Cell(ppos[q])] = data[Cell(ppos[q])]
    <3>1. Cell(c) # Cell(ppos[q]) BY <1>3, <2>0, <2>5, OneUser DEF NoDataRace, Writing, c
    <3> QED BY <2>2, <3>1, Functions
  <2> QED BY <2>0, <2>3, <2>4, <2>5 DEF CellsHold
<1>4. ASSUME NEW p \in Producers, Publish(p) PROVE CellsHold
  <2> DEFINE c == ppos[p]
  <2>0. UNCHANGED <<data, head, tail>> /\ Writing(p) /\ c \in Nat
    BY <1>4, Functions DEF Publish, Writing
  <2>1. c \in tail .. head - 1 /\ SeqAt(c) = c BY <2>0 DEF WritersInv
  <2>2. \A b \in Nat : Cell(b) # Cell(c) => sequence'[Cell(b)] = sequence[Cell(b)]
    <3>1. sequence' = [sequence EXCEPT ![Cell(c)] = c + 1] BY <1>4 DEF Publish
    <3> QED BY <2>0, <3>1, Stored
  <2> HIDE DEF c
  <2>3. ASSUME NEW pos \in Nat, pos \in tail .. head - 1, pos # c
        PROVE  sequence'[Cell(pos)] = sequence[Cell(pos)]
    <3>1. Cell(pos) # Cell(c) BY <2>0, <2>1, <2>3, Bounds, SameCell
    <3> QED BY <2>2, <3>1
  <2>4. \A pos \in Nat : Published(pos) => pos # c BY <2>1
  <2>5. \A pos \in Nat : Published(pos) => Published(pos)' BY <2>0, <2>3, <2>4
  <2>6. \A pos \in Nat : Published(pos)' => Published(pos) \/ pos = c BY <2>0, <2>3
  <2> QED BY <1>4, <2>0, <2>5, <2>6 DEF CellsHold, c
<1>5. ASSUME NEW w \in Workers, ClaimTail(w) PROVE CellsHold
  <2>1. UNCHANGED <<sequence, data, head>> BY <1>5 DEF ClaimTail
  <2>2. tail' = tail \/ tail' = tail + 1 BY <1>5 DEF ClaimTail
  <2> QED BY <2>1, <2>2, Bounds DEF CellsHold
<1>6. ASSUME NEW w \in Workers, FreeCell(w) PROVE CellsHold
  <2> DEFINE c == wpos[w]
  <2>0. UNCHANGED <<data, head, tail>> /\ Reading(w) /\ c \in Nat
    BY <1>6, Functions DEF FreeCell, Reading
  <2>1. c \in head - Cap .. tail - 1 BY <2>0 DEF ReadersInv
  <2>2. \A b \in Nat : Cell(b) # Cell(c) => sequence'[Cell(b)] = sequence[Cell(b)]
    <3>1. sequence' = [sequence EXCEPT ![Cell(c)] = c + Cap] BY <1>6 DEF FreeCell
    <3> QED BY <2>0, <3>1, Stored, Bounds
  <2> HIDE DEF c
  <2>3. ASSUME NEW pos \in Nat, pos \in tail .. head - 1
        PROVE  sequence'[Cell(pos)] = sequence[Cell(pos)]
    <3>1. Cell(pos) # Cell(c) BY <2>0, <2>1, <2>3, Bounds, SameCell
    <3> QED BY <2>2, <3>1
  <2> QED BY <2>0, <2>3 DEF CellsHold
<1> QED BY <1>1, <1>2, <1>3, <1>4, <1>5, <1>6, RingMoves

----------------------------------------------------------------------------
(* Tasks: sent, in the ring, in a hand, accepted.                          *)

\* The other producers, and the workers, keep what is theirs.
LEMMA SentKeeps ==
    ASSUME PoolAssumption, TypeOK, RingInv, SentInv, [Next]_vars
    PROVE  SentInv'
<1> USE Functions
<1>0. pool' = pool /\ pool \in Pools BY NextMoves DEF SentInv
<1>1. ASSUME UNCHANGED <<ppc, sent, ppos, data>> PROVE SentInv'
  BY <1>0, <1>1 DEF SentInv, DataAt, Mine
<1>2. ASSUME NEW p \in Producers, Producer(p) PROVE SentInv'
  <2>0. \A q \in Producers \ {p} : ppc'[q] = ppc[q] /\ sent'[q] = sent[q] /\ ppos'[q] = ppos[q]
    BY <1>2, ProducerMoves
  <2>1. CheckStop(p) => sent'[p] = sent[p] + 1 /\ sent[p] < pool.tasks[p] /\ pool.tasks[p] \in Nat
    BY <1>0 DEF CheckStop, PoolAssumption
  <2>2. (sent'[p] = sent[p] /\ ppc[p] # "idle") \/ CheckStop(p) BY <1>2, ProducerShape
  <2>3. \A q \in Producers : sent'[q] <= pool.tasks[q]
    BY <2>0, <2>1, <2>2 DEF SentInv
  <2>4. \A q \in Producers : ppc'[q] # "idle" => sent'[q] > 0
    BY <2>0, <2>1, <2>2 DEF SentInv
  <2>5. ASSUME NEW q \in Producers, ppc'[q] = "publish" PROVE (DataAt(ppos[q]) = Mine(q))'
    <3>1. CASE q = p
      <4>1. WriteData(p) BY <1>2, <2>5, <3>1, ProducerShape
      <4>2. Cell(ppos[p]) \in Cells BY Quotient
      <4> QED BY <3>1, <4>1, <4>2 DEF WriteData, DataAt, Mine
    <3>2. CASE q # p
      <4>1. ppc[q] = "publish" /\ ppos'[q] = ppos[q] /\ sent'[q] = sent[q] BY <2>0, <2>5, <3>2
      <4>2. data'[Cell(ppos[q])] = DataAt(ppos[q])
        BY <4>1, CellsKept DEF CellsHold, Writing, WriteData
      <4> QED BY <4>1, <4>2 DEF SentInv, DataAt, Mine
    <3> QED BY <3>1, <3>2
  <2> QED BY <1>0, <2>3, <2>4, <2>5 DEF SentInv
<1>3. ASSUME NEW w \in Workers, Worker(w) PROVE SentInv'
  BY <1>1, <1>3, WorkerMoves
<1>4. CASE Stopping BY <1>1, <1>4, StopMoves
<1>5. CASE UNCHANGED vars BY <1>1, <1>5 DEF vars, ringVars, prodVars
<1> QED BY <1>2, <1>3, <1>4, <1>5, NextMoves

\* Who may touch a worker's hand.
LEMMA HandMoves ==
    ASSUME TypeOK, [Next]_vars, NEW w \in Workers
    PROVE  \/ Worker(w)
           \/ /\ wpos'[w] = wpos[w] /\ item'[w] = item[w]
              /\ wpc'[w] = wpc[w] \/ (wpc[w] = "parked" /\ wpc'[w] = "park")
<1>1. CASE UNCHANGED vars BY <1>1 DEF vars, workVars
<1>2. CASE Stopping BY <1>2, StopMoves
<1> QED BY <1>1, <1>2, NextMoves, ProducerMoves, WorkerMoves

LEMMA HandKeeps ==
    ASSUME PoolAssumption, TypeOK, RingInv, SentInv, HandInv, [Next]_vars
    PROVE  HandInv'
<1> USE Functions
<1>0. CellsHold BY CellsKept
<1>1. ASSUME NEW pos \in Nat, Published(pos)' PROVE DataAt(pos)' \in Task
  <2>1. CASE Published(pos)
    <3>1. pos \in Claimed' BY <1>1 DEF Published
    <3> QED BY <1>0, <2>1, <3>1 DEF CellsHold, HandInv
  <2>2. CASE \E p \in Producers : Publish(p) /\ ppos[p] = pos
    <3>1. PICK p \in Producers : Publish(p) /\ ppos[p] = pos BY <2>2
    <3>2. Mine(p) \in Task BY <3>1, MineTask DEF Publish
    <3> QED BY <3>1, <3>2 DEF Publish, SentInv, DataAt
  <2> QED BY <1>0, <1>1, <2>1, <2>2 DEF CellsHold
<1>2. ASSUME NEW w \in Workers, wpc'[w] = "read" PROVE DataAt(wpos[w])' \in Task
  <2>1. CASE Worker(w)
    <3>1. ClaimTail(w) /\ wpos[w] = tail /\ wpos' = wpos BY <1>2, <2>1, WorkerShape
    <3>2. data' = data /\ wpc[w] = "claim" /\ wpos[w] = tail BY <3>1 DEF ClaimTail
    <3>3. SeqAt(tail) = tail + 1 BY <3>2 DEF RingInv, ClaimInv
    <3>4. tail \in Nat /\ Published(tail) BY <3>3, NotEmpty, Bounds DEF Published, Claimed
    <3> QED BY <3>1, <3>2, <3>4 DEF HandInv, DataAt
  <2>2. CASE wpos'[w] = wpos[w] /\ wpc[w] = "read"
    <3>1. data'[Cell(wpos[w])] = DataAt(wpos[w]) BY <1>0, <2>2 DEF CellsHold, Reading
    <3> QED BY <2>2, <3>1 DEF HandInv, DataAt
  <2> QED BY <1>2, <2>1, <2>2, HandMoves
<1>3. ASSUME NEW w \in Workers, wpc'[w] \in {"free", "execute"} PROVE item'[w] \in Task
  <2>1. CASE Worker(w)
    <3>1. CASE ReadData(w) BY <3>1 DEF ReadData, HandInv, DataAt
    <3>2. CASE FreeCell(w) BY <3>2 DEF FreeCell, HandInv
    <3> QED BY <1>3, <2>1, <3>1, <3>2, WorkerShape
  <2>2. CASE item'[w] = item[w] /\ wpc'[w] = wpc[w] BY <1>3, <2>2 DEF HandInv
  <2> QED BY <1>3, <2>1, <2>2, HandMoves
<1> QED BY <1>1, <1>2, <1>3 DEF HandInv

\* Only a producer in tryEnqueue begins or accepts a task.
LEMMA AcceptMoves ==
    ASSUME TypeOK, [Next]_vars
    PROVE  \/ \E p \in Producers : Producer(p)
           \/ UNCHANGED <<ppc, sent, accepted>>
<1>1. CASE UNCHANGED vars BY <1>1 DEF vars, prodVars, ghostVars
<1>2. CASE Stopping BY <1>2, StopMoves
<1> QED BY <1>1, <1>2, NextMoves, WorkerMoves

LEMMA AcceptedKeeps ==
    ASSUME PoolAssumption, TypeOK, SentInv, AcceptedInv, [Next]_vars
    PROVE  AcceptedInv'
<1> USE Functions
<1> DEFINE Early == {"head", "cell", "claim", "write", "publish", "add"}
<1>1. CASE UNCHANGED <<ppc, sent, accepted>> BY <1>1 DEF AcceptedInv, Mine
<1>2. ASSUME NEW p \in Producers, Producer(p) PROVE AcceptedInv'
  <2>0. \A q \in Producers \ {p} : ppc'[q] = ppc[q] /\ sent'[q] = sent[q] BY <1>2, ProducerMoves
  <2>1. \A t \in accepted : t \in Task /\ t[1] \in Producers /\ t[2] \in Nat
    BY TaskShape DEF TypeOK
  <2>2. CASE CheckStop(p)
    <3>1. sent'[p] = sent[p] + 1 /\ accepted' = accepted BY <2>2 DEF CheckStop, ghostVars
    <3>2. \A t \in accepted' : t[2] <= sent'[t[1]] BY <2>0, <2>1, <3>1 DEF AcceptedInv
    <3>3. Mine(p)' \notin accepted'
      <4> SUFFICES ASSUME Mine(p)' \in accepted PROVE FALSE BY <3>1
      <4>1. Mine(p)' = <<p, sent[p] + 1>> BY <3>1 DEF Mine
      <4>2. sent[p] + 1 <= sent[p] BY <4>1 DEF AcceptedInv
      <4> QED BY <4>2
    <3>4. \A q \in Producers \ {p} : Mine(q)' = Mine(q) BY <2>0 DEF Mine
    <3> QED BY <2>0, <3>1, <3>2, <3>3, <3>4 DEF AcceptedInv
  <2>3. CASE AddPermit(p)
    <3>1. sent' = sent /\ accepted' = accepted \cup {Mine(p)} /\ ppc'[p] = "look"
      BY <2>3 DEF AddPermit, To
    <3>2. \A t \in accepted' : t[2] <= sent'[t[1]] BY <3>1 DEF AcceptedInv, Mine
    <3>3. \A q \in Producers \ {p} : Mine(q)' = Mine(q) /\ Mine(q) # Mine(p) BY <3>1 DEF Mine
    <3> QED BY <2>0, <3>1, <3>2, <3>3 DEF AcceptedInv
  <2>4. CASE ~CheckStop(p) /\ ~AddPermit(p)
    <3>1. sent' = sent /\ accepted' = accepted BY <1>2, <2>4, ProducerShape
    <3>2. \A q \in Producers : ppc'[q] \in Early => ppc[q] \in Early
      BY <1>2, <2>0, <2>4, ProducerShape
    <3> QED BY <3>1, <3>2 DEF AcceptedInv, Mine
  <2> QED BY <2>2, <2>3, <2>4
<1> QED BY <1>1, <1>2, AcceptMoves

LEMMA RanGrows ==
    ASSUME TypeOK, HandInv, [Next]_vars
    PROVE  /\ RanSet \subseteq RanSet'
           /\ \A w \in Workers : Execute(w) => item[w] \in RanSet'
<1>1. ran \in Seq(Task) BY DEF TypeOK
<1>2. ASSUME NEW w \in Workers, Execute(w) PROVE RanSet \subseteq RanSet' /\ item[w] \in RanSet'
  <2>1. item[w] \in Task /\ ran' = Append(ran, item[w]) BY <1>2 DEF Execute, HandInv
  <2>2. /\ Len(ran) \in Nat /\ Len(ran') = Len(ran) + 1
        /\ \A i \in 1 .. Len(ran) : ran'[i] = ran[i]
        /\ ran'[Len(ran) + 1] = item[w]
    BY <1>1, <2>1
  <2>3. Len(ran) + 1 \in 1 .. Len(ran') BY <2>2
  <2> QED BY <2>2, <2>3 DEF RanSet
<1>3. ran' = ran => RanSet \subseteq RanSet' BY DEF RanSet
<1>4. ran' = ran \/ \E w \in Workers : Execute(w)
  <2>1. CASE UNCHANGED vars BY <2>1 DEF vars, ghostVars
  <2>2. CASE Stopping BY <2>2, StopMoves
  <2> QED BY <2>1, <2>2, NextMoves, ProducerMoves, WorkerShape
<1> QED BY <1>2, <1>3, <1>4

\* A step moves the tail only for the worker that claims it, and the head forward.
LEMMA EndsMove ==
    ASSUME TypeOK, [Next]_vars
    PROVE  /\ head' \in {head, head + 1}
           /\ \/ tail' = tail
              \/ \E w \in Workers : /\ ClaimTail(w) /\ tail = wpos[w] /\ tail' = tail + 1
                                    /\ wpos' = wpos /\ wpc'[w] = "read"
<1> USE Functions
<1>1. ASSUME NEW p \in Producers, ClaimHead(p) \/ WriteData(p) \/ Publish(p)
      PROVE  head' \in {head, head + 1} /\ tail' = tail
  BY <1>1 DEF ClaimHead, WriteData, Publish
<1>2. ASSUME NEW w \in Workers, ClaimTail(w) \/ FreeCell(w)
      PROVE  /\ head' = head
             /\ \/ tail' = tail
                \/ ClaimTail(w) /\ tail = wpos[w] /\ tail' = tail + 1 /\ wpos' = wpos /\ wpc'[w] = "read"
  BY <1>2 DEF ClaimTail, FreeCell, At
<1> QED BY <1>1, <1>2, RingMoves

\* From the cell to the hand to the executions.
LEMMA KeptStays ==
    ASSUME TypeOK, RingInv, HandInv, [Next]_vars, NEW t, Kept(t)
    PROVE  Kept(t)'
<1> USE Functions
<1>0. CellsHold BY CellsKept
<1>1. CASE InRing(t)
  <2>1. PICK pos \in Nat : Published(pos) /\ DataAt(pos) = t BY <1>1 DEF InRing
  <2>2. CASE pos \in Claimed'
    <3>1. Published(pos)' /\ DataAt(pos)' = t BY <1>0, <2>1, <2>2 DEF CellsHold
    <3>2. InRing(t)' BY <3>1 DEF InRing
    <3> QED BY <3>2 DEF Kept
  <2>3. CASE pos \notin Claimed'
    <3>1. pos \in Claimed BY <2>1 DEF Published
    <3>2. PICK w \in Workers : /\ ClaimTail(w) /\ tail = wpos[w] /\ tail' = tail + 1
                               /\ wpos' = wpos /\ wpc'[w] = "read"
      BY <2>3, <3>1, EndsMove, Bounds DEF Claimed
    <3>3. pos = tail BY <2>3, <3>1, <3>2, EndsMove, Bounds DEF Claimed
    <3>4. DataAt(wpos[w])' = t BY <2>1, <3>2, <3>3 DEF ClaimTail, DataAt
    <3>5. InHand(t)' BY <3>2, <3>4 DEF InHand
    <3> QED BY <3>5 DEF Kept
  <2> QED BY <2>2, <2>3
<1>2. CASE InHand(t)
  <2>1. PICK w \in Workers : \/ wpc[w] = "read" /\ DataAt(wpos[w]) = t
                             \/ wpc[w] \in {"free", "execute"} /\ item[w] = t
    BY <1>2 DEF InHand
  <2>2. CASE Worker(w)
    <3>1. CASE ReadData(w)
      <4>1. wpc'[w] = "free" /\ item'[w] = t
        BY <2>1, <3>1 DEF ReadData, At, DataAt
      <4>2. InHand(t)' BY <4>1 DEF InHand
      <4> QED BY <4>2 DEF Kept
    <3>2. CASE FreeCell(w)
      <4>1. wpc'[w] = "execute" /\ item'[w] = t BY <2>1, <3>2 DEF FreeCell, At
      <4>2. InHand(t)' BY <4>1 DEF InHand
      <4> QED BY <4>2 DEF Kept
    <3>3. CASE Execute(w)
      <4>1. item[w] = t BY <2>1, <3>3 DEF Execute
      <4> QED BY <3>3, <4>1, RanGrows DEF Kept
    <3> QED BY <2>1, <2>2, <3>1, <3>2, <3>3, WorkerShape
  <2>3. CASE wpos'[w] = wpos[w] /\ item'[w] = item[w] /\ wpc'[w] = wpc[w]
    <3>1. wpc[w] = "read" => data'[Cell(wpos[w])] = DataAt(wpos[w])
      BY <1>0 DEF CellsHold, Reading
    <3>2. InHand(t)' BY <2>1, <2>3, <3>1 DEF InHand, DataAt
    <3> QED BY <3>2 DEF Kept
  <2> QED BY <2>1, <2>2, <2>3, HandMoves
<1>3. CASE t \in RanSet BY <1>3, RanGrows DEF Kept
<1> QED BY <1>1, <1>2, <1>3 DEF Kept

LEMMA KeptKeeps ==
    ASSUME PoolAssumption, TypeOK, RingInv, SentInv, HandInv, KeptInv, [Next]_vars
    PROVE  KeptInv'
<1> USE Functions
<1>1. \A t : Kept(t) => Kept(t)' BY KeptStays
<1>2. CASE UNCHANGED <<ppc, sent, accepted>>
  BY <1>1, <1>2 DEF KeptInv, Mine
<1>3. ASSUME NEW p \in Producers, Producer(p) PROVE KeptInv'
  <2>0. \A q \in Producers \ {p} : ppc'[q] = ppc[q] /\ Mine(q)' = Mine(q)
    BY <1>3, ProducerMoves DEF Mine
  <2>1. ASSUME NEW t \in accepted' PROVE Kept(t)'
    <3>1. CASE t \in accepted BY <1>1, <3>1 DEF KeptInv
    <3>2. CASE AddPermit(p) /\ t = Mine(p)
      <4>1. Kept(Mine(p)) BY <3>2 DEF AddPermit, KeptInv
      <4> QED BY <1>1, <3>2, <4>1
    <3> QED BY <1>3, <2>1, <3>1, <3>2, ProducerShape DEF AddPermit
  <2>2. ASSUME ppc'[p] = "add" PROVE Kept(Mine(p))'
    <3>1. Publish(p) BY <1>3, <2>2, ProducerShape
    <3>0. PICK c \in Nat : c = ppos[p] OBVIOUS
    <3>2. /\ ppc[p] = "publish" /\ sequence' = [sequence EXCEPT ![Cell(c)] = c + 1]
          /\ UNCHANGED <<data, head, tail, sent>> /\ Writing(p)
      BY <3>0, <3>1 DEF Publish, Writing
    <3>3. c \in Claimed BY <3>0, <3>2 DEF RingInv, WritersInv
    <3>4. SeqAt(c)' = c + 1 BY <3>2, Quotient DEF TypeOK, SeqAt
    <3>5. DataAt(c) = Mine(p) BY <3>0, <3>2 DEF SentInv
    <3>6. Published(c)' BY <3>2, <3>3, <3>4 DEF Published, Claimed
    <3>7. DataAt(c)' = Mine(p)' BY <3>2, <3>5 DEF DataAt, Mine
    <3>8. InRing(Mine(p))' BY <3>3, <3>6, <3>7 DEF InRing
    <3> QED BY <3>8 DEF Kept
  <2>3. ASSUME NEW q \in Producers, q # p, ppc'[q] = "add" PROVE Kept(Mine(q))'
    <3>1. Kept(Mine(q)) BY <2>0, <2>3 DEF KeptInv
    <3> QED BY <1>1, <2>0, <2>3, <3>1
  <2> QED BY <2>1, <2>2, <2>3 DEF KeptInv
<1> QED BY <1>2, <1>3, AcceptMoves

LEMMA TaskKeeps ==
    ASSUME PoolAssumption, TypeOK, RingInv, TaskInv, [Next]_vars
    PROVE  TaskInv'
  BY SentKeeps, HandKeeps, AcceptedKeeps, KeptKeeps DEF TaskInv

----------------------------------------------------------------------------
(* The semaphore keeps its count of waiters, and wakes them.               *)

LEMMA Sizes ==
    ASSUME PoolAssumption
    PROVE  /\ IsFiniteSet(Announced) /\ IsFiniteSet(Announced')
           /\ IsFiniteSet(Coming) /\ Cardinality(Coming) \in Nat
           /\ IsFiniteSet(Coming') /\ Cardinality(Coming') \in Nat
           /\ IsFiniteSet(Waking) /\ Cardinality(Waking) \in Nat
           /\ IsFiniteSet(Waking') /\ Cardinality(Waking') \in Nat
<1>1. /\ Announced \in SUBSET Workers /\ Announced' \in SUBSET Workers
      /\ Coming \in SUBSET Workers /\ Coming' \in SUBSET Workers
      /\ Waking \in SUBSET Producers /\ Waking' \in SUBSET Producers
  BY DEF Announced, Coming, Waking
<1> QED BY <1>1, Threads

WakeKept == Parked # {} /\ spc # "look" => count <= Cardinality(Coming) + Cardinality(Waking)

LEMMA WakeSame == NoLostWakeup <=> WakeKept
  BY DEF NoLostWakeup, WakeKept, Coming, Waking

LEMMA NobodyAnnounced ==
    ASSUME PoolAssumption, waiters = Cardinality(Announced), waiters = 0
    PROVE  Parked = {}
<1>1. Announced = {} BY Sizes, FS_EmptySet
<1> QED BY <1>1 DEF Announced, Parked

LEMMA ProducerWaits ==
    ASSUME PoolAssumption, TypeOK, waiters = Cardinality(Announced), WakeKept,
           NEW p \in Producers, Producer(p)
    PROVE  (waiters = Cardinality(Announced))' /\ WakeKept'
<1> USE Functions DEF To, ringVars, semVars, workVars, ghostVars
<1>1. /\ \A q \in Producers \ {p} : ppc'[q] = ppc[q]
      /\ waiters' = waiters /\ spc' = spc
      /\ \A w \in Workers : wpc'[w] = wpc[w] \/ (wpc[w] = "parked" /\ wpc'[w] = "park")
  BY ProducerMoves
<1>2. Announced' = Announced BY <1>1 DEF Announced
<1>3. Parked' \subseteq Parked BY <1>1 DEF Parked
<1>4. count \in Nat BY DEF TypeOK
<1>5. ASSUME count' = count, wpc' = wpc, ppc[p] \in {"look", "notify"} <=> ppc'[p] \in {"look", "notify"}
      PROVE  WakeKept'
  <2>1. Waking' = Waking BY <1>1, <1>5 DEF Waking
  <2>2. Coming' = Coming /\ Parked' = Parked BY <1>5 DEF Coming, Parked
  <2> QED BY <1>1, <1>5, <2>1, <2>2 DEF WakeKept
<1>6. WakeKept'
  <2>1. CASE CheckStop(p) BY <1>5, <2>1 DEF CheckStop
  <2>2. CASE LoadHead(p) BY <1>5, <2>2 DEF LoadHead
  <2>3. CASE LoadFree(p)
    <3>1. PICK step \in {"claim", "idle", "head"} : ppc' = [ppc EXCEPT ![p] = step]
      BY <2>3 DEF LoadFree
    <3> QED BY <1>5, <2>3, <3>1 DEF LoadFree
  <2>4. CASE ClaimHead(p) BY <1>5, <2>4 DEF ClaimHead
  <2>5. CASE WriteData(p) BY <1>5, <2>5 DEF WriteData
  <2>6. CASE Publish(p) BY <1>5, <2>6 DEF Publish
  <2>7. CASE AddPermit(p)
    <3>1. ppc[p] = "add" /\ ppc'[p] = "look" /\ count' = count + 1 /\ wpc' = wpc
      BY <2>7 DEF AddPermit
    <3>2. Waking' = Waking \cup {p} /\ p \notin Waking BY <1>1, <3>1 DEF Waking
    <3>3. Cardinality(Waking') = Cardinality(Waking) + 1 BY <3>2, Sizes, Grown
    <3>4. Coming' = Coming /\ Parked' = Parked BY <3>1 DEF Coming, Parked
    <3> QED BY <1>1, <1>4, <3>1, <3>3, <3>4, Sizes DEF WakeKept
  <2>8. CASE LookForWaiters(p)
    <3>1. CASE waiters = 0
      <4>1. Parked' = {} BY <1>3, <3>1, NobodyAnnounced
      <4> QED BY <4>1 DEF WakeKept
    <3>2. CASE waiters # 0 BY <1>5, <2>8, <3>2 DEF LookForWaiters
    <3> QED BY <3>1, <3>2
  <2>9. CASE NotifyOne(p)
    <3>1. CASE Parked = {}
      <4>1. Parked' = {} BY <1>3, <3>1
      <4> QED BY <4>1 DEF WakeKept
    <3>2. CASE Parked # {}
      <4>1. PICK w \in Parked : wpc' = [wpc EXCEPT ![w] = "park"] BY <2>9, <3>2 DEF NotifyOne
      <4>2. w \in Workers /\ wpc[w] = "parked" BY DEF Parked
      <4>3. Coming' = Coming \cup {w} /\ w \notin Coming BY <4>1, <4>2 DEF Coming
      <4>4. ppc[p] = "notify" /\ ppc'[p] = "idle" /\ count' = count BY <2>9 DEF NotifyOne
      <4>5. Waking' = Waking \ {p} /\ p \in Waking BY <1>1, <4>4 DEF Waking
      <4>6. /\ Cardinality(Coming') = Cardinality(Coming) + 1
            /\ Cardinality(Waking') = Cardinality(Waking) - 1
        BY <4>3, <4>5, Sizes, Grown, Shrunk
      <4> QED BY <1>1, <1>4, <3>2, <4>4, <4>6, Sizes DEF WakeKept
    <3> QED BY <3>1, <3>2
  <2> QED BY <2>1, <2>2, <2>3, <2>4, <2>5, <2>6, <2>7, <2>8, <2>9 DEF Producer
<1> QED BY <1>1, <1>2, <1>6

LEMMA WorkerWaits ==
    ASSUME PoolAssumption, TypeOK, waiters = Cardinality(Announced), WakeKept,
           NEW w \in Workers, Worker(w)
    PROVE  (waiters = Cardinality(Announced))' /\ WakeKept'
<1> USE Functions DEF At, ringVars, semVars, prodVars, ghostVars
<1> DEFINE An == {"park", "parked", "leave"}
           Co == {"acquire", "announce", "park", "leave"}
<1>1. /\ \A v \in Workers \ {w} : wpc'[v] = wpc[v]
      /\ UNCHANGED <<ppc, spc>>
  BY WorkerMoves
<1>2. Waking' = Waking BY <1>1 DEF Waking
<1>3. count \in Nat /\ waiters \in Nat BY Threads DEF TypeOK
<1>4. ASSUME waiters' = waiters, wpc[w] \in An <=> wpc'[w] \in An PROVE (waiters = Cardinality(Announced))'
  <2>1. Announced' = Announced BY <1>1, <1>4 DEF Announced
  <2> QED BY <1>4, <2>1
<1>5. ASSUME count' = count, wpc[w] \in Co => wpc'[w] \in Co, wpc'[w] # "parked" PROVE WakeKept'
  <2>1. Coming \subseteq Coming' /\ Parked' \subseteq Parked BY <1>1, <1>5 DEF Coming, Parked
  <2>2. Cardinality(Coming) <= Cardinality(Coming') BY <2>1, Sizes, FS_Subset
  <2> QED BY <1>1, <1>2, <1>3, <1>5, <2>1, <2>2, Sizes DEF WakeKept
<1>6. CASE TakePermit(w)
  <2>1. wpc[w] = "acquire" /\ wpc'[w] = "tail" /\ count > 0 /\ count' = count - 1 /\ waiters' = waiters
    BY <1>6 DEF TakePermit
  <2>2. Coming' = Coming \ {w} /\ w \in Coming BY <1>1, <2>1 DEF Coming
  <2>3. Cardinality(Coming') = Cardinality(Coming) - 1 BY <2>2, Sizes, Shrunk
  <2>4. Parked' = Parked BY <1>1, <2>1 DEF Parked
  <2> QED BY <1>1, <1>2, <1>3, <1>4, <2>1, <2>3, <2>4, Sizes DEF WakeKept
<1>7. CASE SeeNone(w) BY <1>4, <1>5, <1>7 DEF SeeNone
<1>8. CASE Announce(w)
  <2>1. wpc[w] = "announce" /\ wpc'[w] = "park" /\ waiters' = waiters + 1 /\ count' = count
    BY <1>8 DEF Announce
  <2>2. Announced' = Announced \cup {w} /\ w \notin Announced BY <1>1, <2>1 DEF Announced
  <2> QED BY <1>5, <2>1, <2>2, Sizes, Grown
<1>9. CASE Park(w)
  <2>1. wpc[w] = "park" /\ wpc'[w] = (IF count = 0 THEN "parked" ELSE "leave") /\ UNCHANGED <<count, waiters>>
    BY <1>9 DEF Park
  <2>2. CASE count = 0 BY <1>2, <1>3, <1>4, <2>1, <2>2, Sizes DEF WakeKept
  <2>3. CASE count # 0 BY <1>4, <1>5, <2>1, <2>3
  <2> QED BY <2>2, <2>3
<1>10. CASE Leave(w)
  <2>1. wpc[w] = "leave" /\ wpc'[w] = "acquire" /\ waiters' = waiters - 1 /\ count' = count
    BY <1>10 DEF Leave
  <2>2. Announced' = Announced \ {w} /\ w \in Announced BY <1>1, <2>1 DEF Announced
  <2> QED BY <1>5, <2>1, <2>2, Sizes, Shrunk
<1>11. CASE LoadTail(w) BY <1>4, <1>5, <1>11 DEF LoadTail
<1>12. CASE LoadPublished(w)
  <2>1. PICK step \in {"claim", "empty", "tail"} : wpc' = [wpc EXCEPT ![w] = step]
    BY <1>12 DEF LoadPublished
  <2> QED BY <1>4, <1>5, <1>12, <2>1 DEF LoadPublished
<1>13. CASE ClaimTail(w) BY <1>4, <1>5, <1>13 DEF ClaimTail
<1>14. CASE ReadData(w) BY <1>4, <1>5, <1>14 DEF ReadData
<1>15. CASE FreeCell(w) BY <1>4, <1>5, <1>15 DEF FreeCell
<1>16. CASE Execute(w) BY <1>4, <1>5, <1>16 DEF Execute
<1>17. CASE Empty(w) BY <1>4, <1>5, <1>17 DEF Empty
<1> QED BY <1>6, <1>7, <1>8, <1>9, <1>10, <1>11, <1>12, <1>13, <1>14, <1>15, <1>16, <1>17 DEF Worker

LEMMA WaitKeeps ==
    ASSUME PoolAssumption, TypeOK, WaitInv, [Next]_vars
    PROVE  WaitInv'
<1>0. waiters = Cardinality(Announced) /\ WakeKept BY WakeSame DEF WaitInv
<1>1. (waiters = Cardinality(Announced))' /\ WakeKept'
  <2>1. CASE Stopping
    <3>1. /\ UNCHANGED <<waiters, ppc>>
          /\ \A w \in Workers : wpc'[w] = wpc[w] \/ (wpc[w] = "parked" /\ wpc'[w] = "park")
      BY <2>1, StopMoves
    <3>2. Announced' = Announced BY <3>1 DEF Announced
    <3>3. WakeKept'
      <4>1. CASE SetStop
        <5>1. spc = "run" /\ UNCHANGED <<wpc, ppc, count>> BY <4>1 DEF SetStop, semVars, prodVars, workVars
        <5> QED BY <1>0, <5>1 DEF WakeKept, Coming, Waking, Parked
      <4>2. CASE AddPermits BY <4>2 DEF AddPermits, WakeKept
      <4>3. CASE NotifyAll
        <5>1. Parked' = {}
          <6>1. CASE waiters = 0
            <7>1. Parked = {} BY <1>0, <6>1, NobodyAnnounced
            <7> QED BY <3>1, <7>1 DEF Parked
          <6>2. CASE waiters # 0 BY <4>3, <6>2 DEF NotifyAll, Parked
          <6> QED BY <6>1, <6>2
        <5> QED BY <5>1 DEF WakeKept
      <4>4. CASE Join
        <5>1. Parked' = {} BY <3>1, <4>4 DEF Join, Parked
        <5> QED BY <5>1 DEF WakeKept
      <4> QED BY <2>1, <4>1, <4>2, <4>3, <4>4 DEF Stopping
    <3> QED BY <1>0, <3>1, <3>2, <3>3
  <2>2. CASE UNCHANGED vars
    BY <1>0, <2>2 DEF vars, semVars, prodVars, workVars, WakeKept, Announced, Coming, Waking, Parked
  <2> QED BY <1>0, <2>1, <2>2, NextMoves, ProducerWaits, WorkerWaits
<1>2. NoLostWakeup' <=> WakeKept' BY DEF NoLostWakeup, WakeKept, Coming, Waking
<1> QED BY <1>1, <1>2 DEF WaitInv

----------------------------------------------------------------------------
(* With one producer, the permits count the tasks until the stop.          *)

\* A worker that has a permit and does not find its cell published.
Unpublished(w) == wpc[w] = "cell" /\ SeqAt(wpos[w]) - (wpos[w] + 1) < 0

\* It is at the tail, and nothing is published: what is in the ring, if anything,
\* is the one task the producer is writing.
LEMMA SeesNone ==
    ASSUME TypeOK, RingInv, NEW p \in Producers, SoleInv(p), NEW w \in Workers, Unpublished(w)
    PROVE  /\ \A pos \in Nat : ~Published(pos)
           /\ head # tail => head - tail = 1 /\ Writing(p)
<1> USE DEF RingInv, Unpublished
<1>1. wpos[w] \in Nat /\ SeqAt(wpos[w]) \in Nat BY Functions, Quotient DEF TypeOK, SeqAt
<1>2. wpos[w] = tail /\ SeqAt(tail) <= tail BY <1>1, Bounds DEF ClaimInv
<1>3. ASSUME head # tail PROVE head - tail = 1 /\ Writing(p) /\ SeqAt(tail) = tail
  <2>1. tail \in Claimed BY <1>3, Bounds DEF Claimed
  <2>2. SeqAt(tail) = tail /\ \E q \in Producers : Writing(q) /\ ppos[q] = tail
    BY <1>1, <1>2, <2>1, Bounds DEF CellsInv
  <2>3. PICK q \in Producers : Writing(q) /\ ppos[q] = tail BY <2>2
  <2>4. q = p BY <2>3 DEF SoleInv, Writing
  <2>5. ppos[p] = head - 1 BY <2>3, <2>4 DEF SoleInv
  <2> QED BY <2>2, <2>3, <2>4, <2>5, Bounds
<1>4. ASSUME NEW pos \in Nat, Published(pos) PROVE FALSE
  <2>1. pos \in Claimed /\ SeqAt(pos) = pos + 1 BY <1>4 DEF Published
  <2>2. pos = tail BY <1>3, <2>1, Bounds DEF Claimed
  <2> QED BY <1>2, <2>1, <2>2
<1> QED BY <1>3, <1>4

LEMMA HolderSizes ==
    ASSUME PoolAssumption
    PROVE  /\ IsFiniteSet(Holders) /\ Cardinality(Holders) \in Nat
           /\ IsFiniteSet(Holders') /\ Cardinality(Holders') \in Nat
<1>1. Holders \in SUBSET Workers /\ Holders' \in SUBSET Workers BY DEF Holders
<1> QED BY <1>1, Threads

\* While every permit has a task, no worker finds its cell unpublished.
LEMMA NeverEmpty ==
    ASSUME PoolAssumption, TypeOK, RingInv, NEW p \in Producers, SoleInv(p),
           spc \in {"run", "add"}, NEW w \in Workers, Unpublished(w)
    PROVE  FALSE
<1>1. w \in Holders BY DEF Holders, Unpublished
<1>2. Cardinality(Holders) >= 1
  <2>1. Cardinality(Holders \ {w}) = Cardinality(Holders) - 1 BY <1>1, HolderSizes, Shrunk
  <2>2. Holders \ {w} \in SUBSET Workers BY DEF Holders
  <2> QED BY <2>1, <2>2, Threads, HolderSizes
<1>3. count + Due(p) = head - tail /\ count \in Nat BY DEF SoleInv, TypeOK
<1>4. head # tail => head - tail = 1 /\ ppc[p] \in {"write", "publish"} BY SeesNone DEF Writing
<1>5. CASE head = tail
  <2>1. Due(p) >= 1 BY <1>2, HolderSizes DEF Due
  <2>2. Due(p) \in Int BY HolderSizes DEF Due
  <2> QED BY <1>3, <1>5, <2>1, <2>2, Bounds
<1>6. CASE head # tail
  <2>1. Due(p) = Cardinality(Holders) + 1 BY <1>4, <1>6 DEF Due
  <2> QED BY <1>2, <1>3, <1>4, <1>6, <2>1, Bounds, HolderSizes
<1> QED BY <1>5, <1>6

\* The producers that submit nothing stay idle.
LEMMA OthersIdle ==
    ASSUME PoolAssumption, TypeOK, SentInv, NEW p \in Producers, Sole(p), SoleInv(p),
           NEW q \in Producers, Producer(q)
    PROVE  q = p
<1> SUFFICES ASSUME q # p PROVE FALSE OBVIOUS
<1>1. ppc[q] = "idle" /\ pool.tasks[q] = 0 BY DEF Sole, SoleInv
<1>2. CheckStop(q) BY <1>1, ProducerShape
<1> QED BY <1>1, <1>2, Functions DEF CheckStop

\* A step takes nothing that is promised back into the ring.
LEMMA PromiseStays ==
    ASSUME PoolAssumption, TypeOK, RingInv, TaskInv, PromiseKept, promised' = promised, [Next]_vars
    PROVE  PromiseKept'
<1>1. CellsHold BY CellsKept
<1> SUFFICES ASSUME NEW pos \in Nat, Published(pos)' PROVE DataAt(pos)' \notin promised'
  BY DEF PromiseKept
<1>2. CASE Published(pos)
  <2>1. pos \in Claimed' BY DEF Published
  <2> QED BY <1>1, <1>2, <2>1 DEF CellsHold, PromiseKept
<1>3. CASE \E p \in Producers : Publish(p) /\ ppos[p] = pos
  <2>1. PICK p \in Producers : Publish(p) /\ ppos[p] = pos BY <1>3
  <2>2. Mine(p) \notin accepted /\ DataAt(pos) = Mine(p)
    BY <2>1 DEF Publish, TaskInv, SentInv, AcceptedInv
  <2>3. DataAt(pos)' = DataAt(pos) BY <2>1 DEF Publish, DataAt
  <2> QED BY <2>2, <2>3 DEF TypeOK
<1> QED BY <1>1, <1>2, <1>3 DEF CellsHold

LEMMA ProducerSole ==
    ASSUME PoolAssumption, TypeOK, RingInv, TaskInv, [Next]_vars,
           NEW p \in Producers, Sole(p), SoleInv(p), Producer(p)
    PROVE  SoleInv(p)'
<1> USE Functions DEF To, ringVars, semVars, workVars, ghostVars
<1>1. /\ \A q \in Producers \ {p} : ppc'[q] = ppc[q]
      /\ UNCHANGED <<tail, spc, promised, pool>>
      /\ \A w \in Workers : wpc'[w] = wpc[w] \/ (wpc[w] = "parked" /\ wpc'[w] = "park")
  BY ProducerMoves, NextMoves
<1>2. \A q \in Producers \ {p} : ppc'[q] = "idle" BY <1>1 DEF SoleInv
<1>3. Holders' = Holders BY <1>1 DEF Holders
<1>4. pool.workers \subseteq Workers BY DEF TaskInv, SentInv, PoolAssumption
<1>5. \A w \in pool.workers : wpc'[w] \in {"empty", "exit"} => wpc[w] = wpc'[w] BY <1>1, <1>4
<1>6. ASSUME spc \in {"look", "join", "done"}, NEW w \in pool.workers, wpc'[w] \in {"empty", "exit"}
      PROVE  PromiseKept'
  <2>1. PromiseKept BY <1>5, <1>6 DEF SoleInv
  <2> QED BY <1>1, <2>1, PromiseStays
<1>7. count \in Nat /\ Cardinality(Holders) \in Nat BY HolderSizes DEF TypeOK
<1> DEFINE Due1 == IF ppc[p] \in {"write", "publish", "add"} THEN 1 ELSE 0
           Due2 == IF ppc'[p] \in {"write", "publish", "add"} THEN 1 ELSE 0
<1>8. /\ Writing(p)' => ppos'[p] = head' - 1
      /\ (count' - count) + (Due2 - Due1) = head' - head
      /\ count' \in Nat /\ head' \in Nat
  <2> USE <1>7, Bounds DEF SoleInv, Writing
  <2>1. CASE CheckStop(p) BY <2>1 DEF CheckStop
  <2>2. CASE LoadHead(p) BY <2>2 DEF LoadHead
  <2>3. CASE LoadFree(p)
    <3>1. PICK step \in {"claim", "idle", "head"} : ppc' = [ppc EXCEPT ![p] = step]
      BY <2>3 DEF LoadFree
    <3> QED BY <2>3, <3>1 DEF LoadFree
  <2>4. CASE ClaimHead(p) BY <2>4 DEF ClaimHead
  <2>5. CASE WriteData(p) BY <2>5 DEF WriteData
  <2>6. CASE Publish(p) BY <2>6 DEF Publish
  <2>7. CASE AddPermit(p) BY <2>7 DEF AddPermit
  <2>8. CASE LookForWaiters(p) BY <2>8 DEF LookForWaiters
  <2>9. CASE NotifyOne(p) BY <2>9 DEF NotifyOne
  <2> QED BY <2>1, <2>2, <2>3, <2>4, <2>5, <2>6, <2>7, <2>8, <2>9 DEF Producer
<1>9. ASSUME spc \in {"run", "add"} PROVE (count + Due(p) = head - tail)'
  <2>1. count + Due(p) = head - tail BY <1>9 DEF SoleInv
  <2>2. Due(p) = Cardinality(Holders) + Due1 /\ Due(p)' = Cardinality(Holders) + Due2
    BY <1>3 DEF Due
  <2>3. Due1 \in {0, 1} /\ Due2 \in {0, 1} OBVIOUS
  <2> HIDE DEF Due1, Due2
  <2> QED BY <1>1, <1>7, <1>8, <2>1, <2>2, <2>3, Bounds
<1>10. ASSUME spc \in {"run", "add"} PROVE \A w \in pool.workers : wpc'[w] \notin {"empty", "exit"}
  BY <1>5, <1>10 DEF SoleInv
<1> QED BY <1>1, <1>2, <1>6, <1>8, <1>9, <1>10 DEF SoleInv

LEMMA WorkerSole ==
    ASSUME PoolAssumption, TypeOK, RingInv, TaskInv, [Next]_vars,
           \A v \in Workers \ pool.workers : wpc[v] = "exit",
           NEW p \in Producers, Sole(p), SoleInv(p), NEW w \in Workers, Worker(w)
    PROVE  SoleInv(p)'
<1> USE Functions DEF At, ringVars, semVars, prodVars, ghostVars
<1>1. /\ \A v \in Workers \ {w} : wpc'[v] = wpc[v]
      /\ UNCHANGED <<head, ppc, ppos, spc, promised, pool>>
      /\ w \in pool.workers
  BY WorkerMoves, NextMoves
<1>2. pool.workers \subseteq Workers BY DEF TaskInv, SentInv, PoolAssumption
<1>3. /\ \A q \in Producers \ {p} : ppc'[q] = "idle"
      /\ Writing(p)' => ppos'[p] = head' - 1
  BY <1>1 DEF SoleInv, Writing
<1>4. wpc'[w] = "empty" => Unpublished(w) /\ LoadPublished(w)
  <2>1. CASE LoadPublished(w)
    <3>1. CASE SeqAt(wpos[w]) - (wpos[w] + 1) < 0 BY <2>1, <3>1 DEF LoadPublished, Unpublished
    <3>2. CASE ~(SeqAt(wpos[w]) - (wpos[w] + 1) < 0)
      <4>1. PICK step \in {"claim", "tail"} : wpc' = [wpc EXCEPT ![w] = step]
        BY <2>1, <3>2 DEF LoadPublished, SeqAt
      <4> QED BY <4>1
    <3> QED BY <3>1, <3>2
  <2>2. CASE ~LoadPublished(w)
    BY <2>2 DEF Worker, TakePermit, SeeNone, Announce, Park, Leave, LoadTail, ClaimTail, ReadData,
                FreeCell, Execute, Empty
  <2> QED BY <2>1, <2>2
<1>5. wpc'[w] = "exit" => wpc[w] = "empty"
  <2>1. CASE LoadPublished(w)
    <3>1. PICK step \in {"claim", "empty", "tail"} : wpc' = [wpc EXCEPT ![w] = step]
      BY <2>1 DEF LoadPublished
    <3> QED BY <3>1
  <2>2. CASE ~LoadPublished(w)
    BY <2>2 DEF Worker, TakePermit, SeeNone, Announce, Park, Leave, LoadTail, ClaimTail, ReadData,
                FreeCell, Execute, Empty
  <2> QED BY <2>1, <2>2
<1>6. ASSUME spc \in {"look", "join", "done"}, NEW v \in pool.workers, wpc'[v] \in {"empty", "exit"}
      PROVE  PromiseKept'
  <2>1. CASE wpc[v] \in {"empty", "exit"}
    <3>1. PromiseKept BY <1>6, <2>1 DEF SoleInv
    <3> QED BY <1>1, <3>1, PromiseStays
  <2>2. CASE Unpublished(w)
    <3>1. PromiseKept BY <2>2, SeesNone DEF PromiseKept
    <3> QED BY <1>1, <3>1, PromiseStays
  <2> QED BY <1>1, <1>2, <1>4, <1>5, <1>6, <2>1, <2>2
<1>7. ASSUME spc \in {"run", "add"} PROVE \A v \in pool.workers : wpc'[v] \notin {"empty", "exit"}
  <2>1. wpc'[w] \notin {"empty", "exit"} BY <1>1, <1>4, <1>5, <1>7, NeverEmpty DEF SoleInv
  <2> QED BY <1>1, <1>2, <1>7, <2>1 DEF SoleInv
<1>8. count \in Nat /\ Cardinality(Holders) \in Nat BY HolderSizes DEF TypeOK
<1>9. Holders' = IF wpc'[w] \in {"tail", "cell", "claim"} THEN Holders \cup {w} ELSE Holders \ {w}
  BY <1>1 DEF Holders
<1>10. ASSUME spc \in {"run", "add"}
       PROVE  /\ (count' - count) + (Cardinality(Holders') - Cardinality(Holders)) = tail - tail'
              /\ count' \in Nat /\ tail' \in Nat
  <2> USE <1>8, Bounds
  <2>1. CASE TakePermit(w)
    <3>1. w \notin Holders /\ Holders' = Holders \cup {w} BY <1>9, <2>1 DEF TakePermit, Holders
    <3>2. Cardinality(Holders') = Cardinality(Holders) + 1 BY <3>1, HolderSizes, Grown
    <3> QED BY <2>1, <3>2 DEF TakePermit
  <2>2. CASE ClaimTail(w)
    <3>1. w \in Holders BY <2>2 DEF ClaimTail, Holders
    <3>2. CASE tail = wpos[w]
      <4>1. Holders' = Holders \ {w} BY <1>9, <2>2, <3>2 DEF ClaimTail
      <4>2. Cardinality(Holders') = Cardinality(Holders) - 1 BY <3>1, <4>1, HolderSizes, Shrunk
      <4> QED BY <2>2, <3>2, <4>2 DEF ClaimTail
    <3>3. CASE tail # wpos[w]
      <4>1. Holders' = Holders BY <1>9, <2>2, <3>1, <3>3 DEF ClaimTail
      <4> QED BY <2>2, <3>3, <4>1 DEF ClaimTail
    <3> QED BY <3>2, <3>3
  <2>3. ASSUME count' = count, tail' = tail,
               wpc[w] \in {"tail", "cell", "claim"} <=> wpc'[w] \in {"tail", "cell", "claim"}
        PROVE  /\ (count' - count) + (Cardinality(Holders') - Cardinality(Holders)) = tail - tail'
               /\ count' \in Nat /\ tail' \in Nat
    <3>1. Holders' = Holders BY <1>9, <2>3 DEF Holders
    <3> QED BY <2>3, <3>1
  <2>4. CASE SeeNone(w) BY <2>3, <2>4 DEF SeeNone
  <2>5. CASE Announce(w) BY <2>3, <2>5 DEF Announce
  <2>6. CASE Park(w) BY <2>3, <2>6 DEF Park
  <2>7. CASE Leave(w) BY <2>3, <2>7 DEF Leave
  <2>8. CASE LoadTail(w) BY <2>3, <2>8 DEF LoadTail
  <2>9. CASE LoadPublished(w)
    <3>1. PICK step \in {"claim", "empty", "tail"} : wpc' = [wpc EXCEPT ![w] = step]
      BY <2>9 DEF LoadPublished
    <3>2. wpc'[w] # "empty" BY <1>4, <1>10, NeverEmpty
    <3> QED BY <2>3, <2>9, <3>1, <3>2 DEF LoadPublished
  <2>10. CASE ReadData(w) BY <2>3, <2>10 DEF ReadData
  <2>11. CASE FreeCell(w) BY <2>3, <2>11 DEF FreeCell
  <2>12. CASE Execute(w) BY <2>3, <2>12 DEF Execute
  <2>13. CASE Empty(w) BY <2>3, <2>13 DEF Empty
  <2> QED
    BY <2>1, <2>2, <2>4, <2>5, <2>6, <2>7, <2>8, <2>9, <2>10, <2>11, <2>12, <2>13 DEF Worker
<1>11. ASSUME spc \in {"run", "add"} PROVE (count + Due(p) = head - tail)'
  <2> DEFINE Mid == IF ppc[p] \in {"write", "publish", "add"} THEN 1 ELSE 0
  <2>1. count + Due(p) = head - tail BY <1>11 DEF SoleInv
  <2>2. Due(p) = Cardinality(Holders) + Mid /\ Due(p)' = Cardinality(Holders') + Mid
    BY <1>1 DEF Due
  <2>3. Mid \in {0, 1} OBVIOUS
  <2> HIDE DEF Mid
  <2> QED BY <1>1, <1>8, <1>10, <1>11, <2>1, <2>2, <2>3, HolderSizes, Bounds
<1> QED BY <1>1, <1>3, <1>6, <1>7, <1>11 DEF SoleInv

LEMMA StoppingSole ==
    ASSUME PoolAssumption, TypeOK, RingInv, TaskInv, [Next]_vars, Stopping,
           NEW p \in Producers, Sole(p), SoleInv(p)
    PROVE  SoleInv(p)'
<1>1. /\ UNCHANGED <<sequence, data, head, tail, ppc, ppos, pool>>
      /\ \A w \in Workers : wpc'[w] = wpc[w] \/ (wpc[w] = "parked" /\ wpc'[w] = "park")
  BY StopMoves, NextMoves
<1>2. pool.workers \subseteq Workers BY DEF TaskInv, SentInv, PoolAssumption
<1>3. \A w \in pool.workers : wpc'[w] \in {"empty", "exit"} => wpc[w] = wpc'[w] BY <1>1, <1>2
<1>4. Holders' = Holders BY <1>1 DEF Holders
<1>5. /\ \A q \in Producers \ {p} : ppc'[q] = "idle"
      /\ Writing(p)' => ppos'[p] = head' - 1
  BY <1>1 DEF SoleInv, Writing
<1>6. CASE SetStop
  <2>1. spc = "run" /\ spc' = "add" /\ count' = count BY <1>6 DEF SetStop, semVars
  <2>2. Due(p)' = Due(p) BY <1>1, <1>4 DEF Due
  <2> QED BY <1>1, <1>3, <1>5, <2>1, <2>2 DEF SoleInv
<1>7. CASE AddPermits
  <2>1. spc = "add" /\ spc' = "look" BY <1>7 DEF AddPermits
  <2>2. \A w \in pool.workers : wpc'[w] \notin {"empty", "exit"} BY <1>3, <2>1 DEF SoleInv
  <2> QED BY <1>1, <1>5, <2>1, <2>2 DEF SoleInv
<1>8. CASE NotifyAll \/ Join
  <2>1. spc \in {"look", "join"} /\ spc' \in {"join", "done"} /\ promised' = promised
    BY <1>8 DEF NotifyAll, Join, ghostVars
  <2>2. PromiseKept => PromiseKept' BY <2>1, PromiseStays
  <2> QED BY <1>1, <1>3, <1>5, <2>1, <2>2 DEF SoleInv
<1> QED BY <1>6, <1>7, <1>8 DEF Stopping

LEMMA StopKeeps ==
    ASSUME PoolAssumption, TypeOK, RingInv, TaskInv, StopInv, [Next]_vars
    PROVE  StopInv'
<1>0. pool' = pool /\ pool.workers \subseteq Workers
  BY NextMoves DEF TaskInv, SentInv, PoolAssumption
<1>1. \A w \in Workers : wpc[w] = "exit" => wpc'[w] = "exit" BY HandMoves, WorkerMoves
<1>2. spc' = "done" => \A w \in Workers : wpc'[w] = "exit"
  <2>1. CASE spc = "done" BY <1>1, <2>1 DEF StopInv
  <2>2. CASE Join BY <1>1, <2>2 DEF Join
  <2>3. CASE spc # "done" /\ ~Join
    <3>1. CASE Stopping BY <2>3, <3>1 DEF Stopping, SetStop, AddPermits, NotifyAll
    <3>2. CASE UNCHANGED vars BY <2>3, <3>2 DEF vars
    <3> QED BY <2>3, <3>1, <3>2, NextMoves, ProducerMoves, WorkerMoves
  <2> QED BY <2>1, <2>2, <2>3
<1>3. ASSUME NEW p \in Producers, Sole(p)' PROVE SoleInv(p)'
  <2>1. Sole(p) /\ SoleInv(p) BY <1>0, <1>3 DEF Sole, StopInv
  <2>2. ASSUME NEW q \in Producers, Producer(q) PROVE SoleInv(p)'
    BY <2>1, <2>2, OthersIdle, ProducerSole DEF TaskInv
  <2>3. ASSUME NEW w \in Workers, Worker(w) PROVE SoleInv(p)'
    BY <2>1, <2>3, WorkerSole DEF StopInv
  <2>4. CASE Stopping BY <2>1, <2>4, StoppingSole
  <2>5. CASE UNCHANGED vars
    BY <2>1, <2>5 DEF vars, ringVars, semVars, prodVars, workVars, ghostVars, SoleInv, Due, Holders,
                      Writing, PromiseKept, Published, Claimed, SeqAt, DataAt
  <2> QED BY <2>2, <2>3, <2>4, <2>5, NextMoves
<1>4. \A w \in Workers \ pool'.workers : wpc'[w] = "exit" BY <1>0, <1>1 DEF StopInv
<1> QED BY <1>2, <1>3, <1>4 DEF StopInv

----------------------------------------------------------------------------
(* The invariant.                                                          *)

LEMMA InitInv == ASSUME PoolAssumption, Init PROVE IInv
<1> USE CapFacts DEF Init
<1>0. pool.workers \subseteq Workers /\ pool.tasks \in [Producers -> Nat] BY DEF PoolAssumption
<1>1. TypeOK
  <2>1. Cardinality(Workers) \in Nat BY Threads
  <2>2. waiters \in 0 .. Cardinality(Workers) BY <2>1
  <2>3. sequence \in [Cells -> Nat] /\ head \in tail .. tail + Cap BY DEF Cells
  <2>4. wpc \in [Workers -> WSteps] /\ ppc \in [Producers -> PSteps] BY DEF WSteps, PSteps
  <2>5. ran \in Seq(Task) BY EmptySeq
  <2> QED BY <2>2, <2>3, <2>4, <2>5 DEF TypeOK, WSteps, PSteps
<1>2. RingInv BY InitRing
<1>3. TaskInv BY <1>0 DEF TaskInv, SentInv, HandInv, AcceptedInv, KeptInv, Published, Claimed
<1>4. WaitInv
  <2>1. Announced = {} BY DEF Announced
  <2>2. Parked = {} BY DEF Parked
  <2> QED BY <2>1, <2>2, FS_EmptySet DEF WaitInv, NoLostWakeup
<1>5. StopInv
  <2>1. Holders = {} BY DEF Holders
  <2>2. \A p \in Producers : Due(p) = 0 BY <2>1, FS_EmptySet DEF Due
  <2> QED BY <1>0, <2>2 DEF StopInv, SoleInv, Writing
<1> QED BY <1>1, <1>2, <1>3, <1>4, <1>5 DEF IInv

LEMMA Inductive == ASSUME PoolAssumption, IInv, [Next]_vars PROVE IInv'
  BY TypeKeeps, RingKeeps, TaskKeeps, WaitKeeps, StopKeeps DEF IInv

THEOREM Invariant == Spec => []IInv
<1>1. Init => IInv BY PoolAssumption, InitInv
<1>2. IInv /\ [Next]_vars => IInv' BY PoolAssumption, Inductive
<1> QED BY <1>1, <1>2, PTL DEF Spec

\* Every variable keeps to its type; the ring never holds more than its cells.
THEOREM TypeCorrect == Spec => []TypeOK
<1>1. IInv => TypeOK BY DEF IInv
<1> QED BY <1>1, Invariant, PTL

\* The data of a cell has one user at a time, with any number of producers and
\* workers: the fields of a slot need no lock.
THEOREM CellsHaveOneUser == Spec => []NoDataRace
<1>1. IInv => NoDataRace BY OneUser DEF IInv
<1> QED BY <1>1, Invariant, PTL

\* The semaphore that skips the wakeup when it sees no waiter loses none.
THEOREM WakeupsArrive == Spec => []NoLostWakeup
<1>1. IInv => NoLostWakeup BY DEF IInv, WaitInv
<1> QED BY <1>1, Invariant, PTL

\* What isValid() asks of a pool.
PoolsHaveWorkers == \A pl \in Pools : pl.workers # {}

\* A shutdown returns only when the tasks that its one producer had accepted
\* before it began have run.
THEOREM StopDrains == PoolsHaveWorkers => (Spec => []Drained)
<1> SUFFICES ASSUME PoolsHaveWorkers PROVE Spec => []Drained OBVIOUS
<1>1. IInv => Drained
  <2> SUFFICES ASSUME IInv, OneProducer, spc = "done", NEW t \in promised PROVE t \in RanSet
    BY DEF Drained
  <2> USE DEF IInv
  <2>1. pool \in Pools /\ pool.tasks \in [Producers -> Nat]
    BY PoolAssumption DEF PoolAssumption, TaskInv, SentInv
  <2>2. PICK p \in Producers : Sole(p)
    <3> DEFINE S == {p \in Producers : pool.tasks[p] > 0}
    <3>1. S \in SUBSET Producers /\ Cardinality(S) = 1 BY DEF OneProducer
    <3>2. IsFiniteSet(S) BY <3>1, PoolAssumption, Threads
    <3>3. PICK p : S = {p} BY <3>1, <3>2, FS_Singleton
    <3> QED BY <2>1, <3>3 DEF Sole
  <2>3. PICK w \in pool.workers : w \in Workers
    BY <2>1, PoolAssumption DEF PoolsHaveWorkers, PoolAssumption
  <2>4. PromiseKept BY <2>2, <2>3 DEF StopInv, SoleInv
  <2>5. Kept(t) BY DEF TypeOK, TaskInv, KeptInv
  <2>6. ~InRing(t) BY <2>4 DEF InRing, PromiseKept
  <2>7. ~InHand(t) BY DEF InHand, StopInv
  <2> QED BY <2>5, <2>6, <2>7 DEF Kept
<1> QED BY <1>1, Invariant, PTL

----------------------------------------------------------------------------
(* The ring is a queue.                                                    *)

LEMMA TaskOfWriter ==
    ASSUME RingInv, NEW p \in Producers, Writing(p)
    PROVE  TaskAt(ppos[p]) = Mine(p)
<1> DEFINE owners == {q \in Producers : ppc[q] \in {"write", "publish"} /\ ppos[q] = ppos[p]}
<1>1. owners = {p} BY DEF RingInv, WritersInv, Writing
<1>2. TaskAt(ppos[p]) = IF owners # {} THEN Mine(CHOOSE q \in owners : TRUE) ELSE data[Cell(ppos[p])]
  BY DEF TaskAt
<1> HIDE DEF owners
<1>3. (CHOOSE q \in owners : TRUE) = p BY <1>1
<1> QED BY <1>1, <1>2, <1>3

LEMMA TaskOfCell ==
    ASSUME RingInv, TypeOK, NEW pos \in Nat, Published(pos)
    PROVE  TaskAt(pos) = DataAt(pos)
<1>1. \A q \in Producers : ~(ppc[q] \in {"write", "publish"} /\ ppos[q] = pos)
  BY DEF RingInv, WritersInv, Writing, Published
<1> QED BY <1>1 DEF TaskAt, DataAt

\* A claimed position is being written or is published.
LEMMA ClaimedCell ==
    ASSUME RingInv, NEW pos \in Claimed
    PROVE  Published(pos) \/ \E p \in Producers : Writing(p) /\ ppos[p] = pos
  BY DEF RingInv, CellsInv, Published

LEMMA ContentsType ==
    ASSUME PoolAssumption, TypeOK, RingInv, TaskInv
    PROVE  /\ Contents \in Seq(Task) /\ Len(Contents) = head - tail
           /\ \A i \in 1 .. head - tail : Contents[i] = TaskAt(tail + i - 1)
<1>1. ASSUME NEW i \in 1 .. head - tail PROVE TaskAt(tail + i - 1) \in Task
  <2> DEFINE pos == tail + i - 1
  <2>1. pos \in Nat /\ pos \in Claimed BY Bounds DEF Claimed
  <2>2. CASE Published(pos) BY <2>1, <2>2, TaskOfCell DEF TaskInv, HandInv
  <2>3. ASSUME NEW p \in Producers, Writing(p), ppos[p] = pos PROVE TaskAt(pos) \in Task
    <3>1. TaskAt(pos) = Mine(p) BY <2>3, TaskOfWriter
    <3>2. Mine(p) \in Task BY <2>3, MineTask DEF TaskInv, Writing
    <3> QED BY <3>1, <3>2
  <2> QED BY <2>1, <2>2, <2>3, ClaimedCell
<1>2. head - tail \in Nat BY Bounds
<1>3. Contents \in [1 .. head - tail -> Task] BY <1>1 DEF Contents
<1>4. Contents \in Seq(Task) /\ Len(Contents) = head - tail BY <1>2, <1>3
<1> QED BY <1>4 DEF Contents

\* The same of the state after a step.
WritersTasks  == \A p \in Producers : Writing(p) => TaskAt(ppos[p]) = Mine(p)
CellsTasks    == \A pos \in Nat : Published(pos) => TaskAt(pos) = DataAt(pos)
ContentsTasks ==
    /\ Contents \in Seq(Task) /\ Len(Contents) = head - tail
    /\ \A i \in 1 .. head - tail, pos \in Nat : pos = tail + i - 1 => Contents[i] = TaskAt(pos)
    /\ tail \in Nat /\ head \in Nat /\ tail <= head /\ head <= tail + Cap

LEMMA After ==
    /\ (RingInv => WritersTasks)'
    /\ (RingInv /\ TypeOK => CellsTasks)'
    /\ (TypeOK /\ RingInv /\ TaskInv => ContentsTasks)'
<1>1. RingInv => WritersTasks BY TaskOfWriter DEF WritersTasks
<1>2. RingInv /\ TypeOK => CellsTasks BY TaskOfCell DEF CellsTasks
<1>3. TypeOK /\ RingInv /\ TaskInv => ContentsTasks
  BY PoolAssumption, ContentsType, Bounds DEF ContentsTasks
<1> QED BY <1>1, <1>2, <1>3, PTL

\* A task keeps its place in the queue from the claim of its producer to that of a worker.
LEMMA PlacesKept ==
    ASSUME PoolAssumption, TypeOK, RingInv, TaskInv, TypeOK', RingInv', [Next]_vars,
           NEW pos \in Nat, pos \in Claimed, pos \in Claimed'
    PROVE  TaskAt(pos)' = TaskAt(pos)
<1> USE Functions
<1>0. \A a \in Nat : Published(a)' => TaskAt(a)' = DataAt(a)' BY After DEF CellsTasks
<1>1. CASE Published(pos)
  <2>1. Published(pos)' /\ DataAt(pos)' = DataAt(pos) BY <1>1, CellsKept DEF CellsHold
  <2> QED BY <1>0, <1>1, <2>1, TaskOfCell
<1>2. ASSUME NEW p \in Producers, Writing(p), ppos[p] = pos PROVE TaskAt(pos)' = TaskAt(pos)
  <2>1. TaskAt(pos) = Mine(p) BY <1>2, TaskOfWriter
  <2>2. CASE Publish(p)
    <3>1. data' = data /\ DataAt(pos) = Mine(p)
      BY <1>2, <2>2 DEF Publish, TaskInv, SentInv
    <3>2. Published(pos)'
      <4>1. sequence' = [sequence EXCEPT ![Cell(pos)] = pos + 1] BY <1>2, <2>2 DEF Publish
      <4>2. sequence'[Cell(pos)] = pos + 1 BY <4>1, Quotient DEF TypeOK
      <4> QED BY <4>2 DEF Published, SeqAt
    <3> QED BY <1>0, <2>1, <3>1, <3>2 DEF DataAt
  <2>3. CASE ~Publish(p)
    <3>1. Writing(p)' /\ ppos'[p] = pos /\ sent'[p] = sent[p]
      <4>1. CASE Producer(p)
        <5>1. WriteData(p)
          BY <1>2, <2>3, <4>1 DEF Producer, Writing, CheckStop, LoadHead, LoadFree, ClaimHead, AddPermit,
                                  LookForWaiters, NotifyOne
        <5> QED BY <1>2, <5>1 DEF WriteData, To, Writing
      <4>2. CASE ~Producer(p)
        <5>1. ppc'[p] = ppc[p] /\ ppos'[p] = ppos[p] /\ sent'[p] = sent[p]
          <6>1. CASE UNCHANGED vars BY <6>1 DEF vars, prodVars
          <6>2. CASE Stopping BY <6>2, StopMoves
          <6> QED BY <4>2, <6>1, <6>2, NextMoves, ProducerMoves, WorkerMoves
        <5> QED BY <1>2, <5>1 DEF Writing
      <4> QED BY <4>1, <4>2
    <3>2. TaskAt(pos)' = Mine(p)'
      <4>1. \A q \in Producers : Writing(q)' => TaskAt(ppos[q])' = Mine(q)' BY After DEF WritersTasks
      <4> QED BY <3>1, <4>1
    <3>3. Mine(p)' = Mine(p) BY <3>1 DEF Mine
    <3> QED BY <2>1, <3>2, <3>3
  <2> QED BY <2>2, <2>3
<1> QED BY <1>1, <1>2, ClaimedCell

LEMMA QueueStep == ASSUME PoolAssumption, IInv, IInv', [Next]_vars PROVE [Queue!Next]_Contents
<1> USE DEF IInv
<1>1. /\ Contents \in Seq(Task) /\ Len(Contents) = head - tail
      /\ \A i \in 1 .. head - tail, pos \in Nat : pos = tail + i - 1 => Contents[i] = TaskAt(pos)
  BY ContentsType
<1>2. /\ Contents' \in Seq(Task) /\ Len(Contents') = head' - tail'
      /\ \A i \in 1 .. head' - tail', pos \in Nat : pos = tail' + i - 1 => Contents'[i] = TaskAt(pos)'
      /\ tail' \in Nat /\ head' \in Nat /\ tail' <= head' /\ head' <= tail' + Cap
  BY After DEF ContentsTasks
<1>3. tail \in Nat /\ head \in Nat /\ tail <= head /\ head <= tail + Cap /\ Cap \in Nat
  BY Bounds
<1>4. \A pos \in Nat : pos \in tail .. head - 1 /\ pos \in tail' .. head' - 1 => TaskAt(pos)' = TaskAt(pos)
  BY PlacesKept DEF Claimed
<1>5. CASE head' = head /\ tail' = tail
  <2>1. \A i \in 1 .. head - tail : Contents'[i] = Contents[i]
    BY <1>1, <1>2, <1>3, <1>4, <1>5
  <2> QED BY <1>1, <1>2, <1>5, <2>1, SeqEqual
<1>6. CASE head' = head + 1
  <2>1. PICK p \in Producers : ClaimHead(p)
    BY <1>3, <1>6, RingMoves DEF ClaimHead, WriteData, Publish, ClaimTail, FreeCell
  <2>2. /\ tail' = tail /\ ppos' = ppos /\ ppos[p] = head /\ sent' = sent
        /\ ppc[p] = "claim" /\ ppc'[p] = "write"
    BY <1>3, <1>6, <2>1, Functions DEF ClaimHead, To
  <2>3. \A pos \in Nat : pos = head => TaskAt(pos)' = Mine(p)
    <3>1. \A q \in Producers : Writing(q)' => TaskAt(ppos[q])' = Mine(q)' BY After DEF WritersTasks
    <3>2. Writing(p)' /\ Mine(p)' = Mine(p) BY <2>2 DEF Writing, Mine
    <3> QED BY <2>2, <3>1, <3>2
  <2>4. Mine(p) \in Task BY <2>2, MineTask DEF TaskInv
  <2>5. Contents' = Append(Contents, Mine(p))
    <3> DEFINE n == head - tail
    <3>1. /\ Append(Contents, Mine(p)) \in Seq(Task)
          /\ Len(Append(Contents, Mine(p))) = n + 1
          /\ \A i \in 1 .. n : Append(Contents, Mine(p))[i] = Contents[i]
          /\ Append(Contents, Mine(p))[n + 1] = Mine(p)
      BY <1>1, <2>4, AppendProperties
    <3>2. Len(Contents') = n + 1 BY <1>2, <1>3, <1>6, <2>2
    <3>3. \A i \in 1 .. n : Contents'[i] = Contents[i]
      BY <1>1, <1>2, <1>3, <1>4, <1>6, <2>2
    <3>4. Contents'[n + 1] = Mine(p)
      <4>1. n + 1 \in 1 .. head' - tail' /\ head = tail' + (n + 1) - 1 BY <1>3, <1>6, <2>2
      <4> QED BY <1>2, <1>3, <2>3, <4>1
    <3>5. n \in Nat BY <1>3
    <3> HIDE DEF n
    <3>6. \A i \in 1 .. n + 1 : i \in 1 .. n \/ i = n + 1 BY <3>5
    <3>7. \A i \in 1 .. n + 1 : Contents'[i] = Append(Contents, Mine(p))[i] BY <3>1, <3>3, <3>4, <3>6
    <3> QED BY <1>2, <3>1, <3>2, <3>7, SeqEqual
  <2>6. Len(Contents) < Cap BY <1>1, <1>2, <1>3, <1>6, <2>2
  <2> QED BY <2>4, <2>5, <2>6 DEF Queue!Next, Queue!Put
<1>7. CASE tail' = tail + 1 /\ head' = head
  <2> DEFINE n == head - tail
  <2>1. n \in Nat /\ n > 0 BY <1>2, <1>3, <1>7
  <2>2. Contents # <<>> BY <1>1, <2>1
  <2>3. Contents' = Tail(Contents)
    <3>1. /\ Tail(Contents) \in Seq(Task) /\ Len(Tail(Contents)) = n - 1
          /\ \A i \in 1 .. n - 1 : Tail(Contents)[i] = Contents[i + 1]
      BY <1>1, <2>1, <2>2, HeadTailProperties
    <3>2. Len(Contents') = n - 1 BY <1>2, <1>3, <1>7
    <3>3. ASSUME NEW i \in 1 .. n - 1 PROVE Contents'[i] = Contents[i + 1]
      <4>1. PICK pos \in Nat : pos = tail + i BY <1>3
      <4>2. Contents'[i] = TaskAt(pos)' BY <1>2, <1>3, <1>7, <4>1
      <4>3. Contents[i + 1] = TaskAt(pos) BY <1>1, <1>3, <4>1
      <4> QED BY <1>2, <1>3, <1>4, <1>7, <4>1, <4>2, <4>3
    <3> HIDE DEF n
    <3> QED BY <1>2, <3>1, <3>2, <3>3, SeqEqual
  <2> QED BY <2>2, <2>3 DEF Queue!Next, Queue!Take
<1> QED BY <1>5, <1>6, <1>7, EndsMove

\* The lock-free ring, accessed by any number of producers and workers a load, a
\* compare-and-swap and a store at a time, is a bounded first-in-first-out queue.
THEOREM RingIsQueue == Spec => ImplementsFifo
<1>1. Init => Queue!Init
  <2> SUFFICES ASSUME Init PROVE Contents = <<>> BY DEF Queue!Init
  <2>2. IInv BY PoolAssumption, InitInv
  <2>3. Contents \in Seq(Task) /\ Len(Contents) = head - tail
    BY <2>2, PoolAssumption, ContentsType DEF IInv
  <2>4. head - tail = 0 BY DEF Init
  <2> QED BY <2>3, <2>4, EmptySeq
<1>2. IInv /\ IInv' /\ [Next]_vars => [Queue!Next]_Contents BY PoolAssumption, QueueStep
<1> QED BY <1>1, <1>2, Invariant, PTL DEF Spec, ImplementsFifo, Queue!Spec

=============================================================================
