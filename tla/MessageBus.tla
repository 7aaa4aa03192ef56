----------------------------- MODULE MessageBus -----------------------------
(***************************************************************************)
(* The message path of the interface component (ApexInterface): pool       *)
(* buffers carry external commands from the I/O thread, and commands and   *)
(* telemetry posted by the components' tasks, to the task thread, which    *)
(* drains every queue once per tick; the outcome of a queued external      *)
(* command goes back to the I/O thread on the completion outbox.           *)
(*                                                                         *)
(* Threads: Io (socket callbacks, then drainCompletionFrames), Task        *)
(* (drainTelemetryOutboxes, then drainCommandsToComponents) and Workers    *)
(* (tasks on pool threads that post to the internal bus).                  *)
(*                                                                         *)
(* A push or a pop of a component queue is one step.  A pop of the pool's  *)
(* free list is two, the claim of the cell and its release, because a push *)
(* that comes round to a cell still claimed finds the list full.           *)
(***************************************************************************)
EXTENDS Integers, Sequences, FiniteSets, SequencesExt

CONSTANTS
  Bufs,        \* buffers of the pool
  Ring,        \* cells of the free list, nextPow2(number of buffers)
  CompOrder,   \* components with queues, in the order forEach visits them
  InboxCap, OutboxCap, DoneCap, \* capacities: command inbox, telemetry outbox, completions
  External,    \* commands that arrive from the sockets
  Acked,       \* those that request an acknowledgement
  Target,      \* the component each of them is for
  Workers,     \* tasks that post messages
  Home,        \* the component each task belongs to
  MaxPosts,    \* bound: posts per worker
  Io, Task, Internal, NoBuf

Threads == Workers \cup {Io, Task}
Comps == ToSet(CompOrder)
In(c) == <<"in", c>>
Out(c) == <<"out", c>>
Done == <<"done", Io>>
Boxes == {In(c) : c \in Comps} \cup {Out(c) : c \in Comps}
Queues == Boxes \cup {Done}
Cap(q) == CASE q[1] = "in" -> InboxCap [] q[1] = "out" -> OutboxCap [] q[1] = "done" -> DoneCap
NoCell == Ring

\* Slip: the drain of the inboxes is forgotten.
OutboxesOnly == [i \in 1..Len(CompOrder) |-> Out(CompOrder[i])]

\* The order one tick visits the queues in: every outbox, then every inbox.
Sweep == [i \in 1..Len(CompOrder) |-> Out(CompOrder[i])]
         \o [i \in 1..Len(CompOrder) |-> In(CompOrder[i])]

ASSUME PoolAssumption == IsFiniteSet(Bufs) /\ Ring \in Nat /\ Cardinality(Bufs) \in 1..Ring
ASSUME NamesAssumption == Internal \notin External /\ NoBuf \notin Bufs /\ Io # Task
                          /\ Acked \subseteq External /\ {Io, Task} \cap Workers = {}
ASSUME QueueAssumption == InboxCap \in Nat /\ OutboxCap \in Nat /\ DoneCap \in Nat /\ MaxPosts \in Nat
ASSUME CompAssumption == CompOrder \in Seq(ToSet(CompOrder)) /\ CompOrder # <<>>
                         /\ Target \in [External -> Comps] /\ Home \in [Workers -> Comps]

VARIABLES
  free,     \* freeList_: buffers published and not claimed, oldest first
  next,     \* the cell the next push of the free list uses (head_ & mask_)
  claim,    \* the cell a thread has popped and not yet released
  refs,     \* MessageBuffer::refCount
  msg,      \* what a buffer carries: an external command, or Internal
  queue,    \* cmdInbox and tlmOutbox of every component; Done: completionOutbox_
  drops,    \* stats_.completionDrops
  scratch,  \* responseBuf_: the frame encoded last
  pc, hand, \* where each thread is, and the buffer it works on
  cmd,      \* the external command the I/O thread routes
  left, failed, posts, \* a worker's recipients left, failed pushes, posts made
  at,       \* the queue of the sweep the task thread visits
  todo,     \* external commands not received yet
  handled,  \* how often handleCommand ran for each external command
  acks      \* the stages of the frames built for each external command

pool == <<free, next, claim>>
client == <<todo, handled, acks>>
worker == <<left, failed, posts>>
vars == <<pool, refs, msg, queue, drops, scratch, pc, hand, cmd, worker, at, client>>

Init ==
  /\ free = SetToSeq(Bufs)
  /\ next = Cardinality(Bufs) % Ring
  /\ claim = [t \in Threads |-> NoCell]
  /\ refs = [b \in Bufs |-> 1]
  /\ msg = [b \in Bufs |-> Internal]
  /\ queue = [q \in Queues |-> <<>>]
  /\ drops = 0 /\ scratch = <<Internal, "none">>
  /\ pc = [t \in Threads |-> "idle"]
  /\ hand = [t \in Threads |-> NoBuf]
  /\ cmd = Internal
  /\ left = [w \in Workers |-> <<>>]
  /\ failed = [w \in Workers |-> 0]
  /\ posts = [w \in Workers |-> 0]
  /\ at = 1
  /\ todo = External
  /\ handled = [c \in External |-> 0]
  /\ acks = [c \in External |-> <<>>]

Goto(t, label) == pc' = [pc EXCEPT ![t] = label]

(***************************************************************************)
(* The pool.                                                               *)
(***************************************************************************)
\* tryPop wins the cell at the tail of the free list.
Claim(t) ==
  /\ free # <<>>
  /\ claim' = [claim EXCEPT ![t] = (next - Len(free)) % Ring]
  /\ hand' = [hand EXCEPT ![t] = Head(free)]
  /\ free' = Tail(free)
  /\ next' = next

\* The pop frees its cell; the buffer is cleared and filled for n recipients.
Fill(t, m, n) ==
  /\ claim' = [claim EXCEPT ![t] = NoCell]
  /\ refs' = [refs EXCEPT ![hand[t]] = n]
  /\ msg' = [msg EXCEPT ![hand[t]] = m]
  /\ UNCHANGED <<free, next>>

\* The cell the push would use is still claimed by a pop: "full".
CellTaken == \E t \in Threads : claim[t] = next

LastRef(b) == refs[b] = 1

\* release: the last reference clears the buffer and pushes it back; nobody
\* else may touch it by then, so the decrement and the push are one step.
\* A push refused by a claimed cell loses the buffer.
Release(b) ==
  /\ refs' = [refs EXCEPT ![b] = IF LastRef(b) THEN 1 ELSE @ - 1]
  /\ IF LastRef(b) /\ ~CellTaken
       THEN free' = Append(free, b) /\ next' = (next + 1) % Ring
       ELSE UNCHANGED <<free, next>>
  /\ claim' = claim

Drop(t) == hand' = [hand EXCEPT ![t] = NoBuf]
Push(q, b) == queue' = [queue EXCEPT ![q] = Append(@, b)]

HasRoom(q) == Len(queue[q]) < Cap(q)

(***************************************************************************)
(* The I/O thread.                                                         *)
(***************************************************************************)
\* routeToComponent: a buffer for the command, or the synchronous fallback.
Receive(c) ==
  /\ pc[Io] = "idle" /\ c \in todo
  /\ todo' = todo \ {c} /\ cmd' = c
  /\ IF free = <<>>
       THEN Goto(Io, "sync") /\ UNCHANGED <<pool, hand>>
       ELSE Goto(Io, "fill") /\ Claim(Io)
  /\ UNCHANGED <<refs, msg, queue, drops, scratch, worker, at, handled, acks>>

RouteFill ==
  /\ pc[Io] = "fill"
  /\ Fill(Io, cmd, 1)
  /\ Goto(Io, "push")
  /\ UNCHANGED <<queue, drops, scratch, hand, cmd, worker, at, client>>

RoutePush ==
  /\ pc[Io] = "push"
  /\ IF HasRoom(In(Target[cmd]))
       THEN Push(In(Target[cmd]), hand[Io]) /\ Drop(Io)
            /\ Goto(Io, IF cmd \in Acked THEN "QUEUED" ELSE "idle")
       ELSE Goto(Io, "refuse") /\ UNCHANGED <<queue, hand>>
  /\ UNCHANGED <<pool, refs, msg, drops, scratch, cmd, worker, at, client>>

\* The inbox is full: the buffer goes back and the command runs here.
RouteRefused ==
  /\ pc[Io] = "refuse"
  /\ Release(hand[Io]) /\ Drop(Io)
  /\ Goto(Io, "sync")
  /\ UNCHANGED <<msg, queue, drops, scratch, cmd, worker, at, client>>

SyncHandle ==
  /\ pc[Io] = "sync"
  /\ handled' = [handled EXCEPT ![cmd] = @ + 1]
  /\ Goto(Io, IF cmd \in Acked THEN "DIRECT" ELSE "idle")
  /\ UNCHANGED <<pool, refs, msg, queue, drops, scratch, hand, cmd, worker, at, todo, acks>>

\* Slip: the completion stays in the outbox.
PeekCompletion ==
  /\ pc[Io] = "idle" /\ queue[Done] # <<>>
  /\ hand' = [hand EXCEPT ![Io] = Head(queue[Done])]
  /\ cmd' = msg[Head(queue[Done])]
  /\ Goto(Io, "COMPLETION")
  /\ UNCHANGED <<pool, refs, msg, queue, drops, scratch, worker, at, client>>

\* drainCompletionFrames: the next outcome.
PopCompletion ==
  /\ pc[Io] = "idle" /\ queue[Done] # <<>>
  /\ hand' = [hand EXCEPT ![Io] = Head(queue[Done])]
  /\ queue' = [queue EXCEPT ![Done] = Tail(@)]
  /\ cmd' = msg[Head(queue[Done])]
  /\ Goto(Io, "COMPLETION")
  /\ UNCHANGED <<pool, refs, msg, drops, scratch, worker, at, client>>

Stages == {"QUEUED", "DIRECT", "COMPLETION"}

\* enqueueAckNak up to the encoding of the frame into the scratch buffer.
EncodeAck ==
  /\ pc[Io] \in Stages
  /\ scratch' = <<cmd, pc[Io]>>
  /\ acks' = [acks EXCEPT ![cmd] = Append(@, pc[Io])]
  /\ Goto(Io, "send")
  /\ UNCHANGED <<pool, refs, msg, queue, drops, hand, cmd, worker, at, todo, handled>>

(***************************************************************************)
(* The task thread.                                                        *)
(***************************************************************************)
\* The queue is drained: the sweep goes on, after the last queue with the
\* next tick.
NextQueue ==
  /\ pc[Task] = "idle" /\ queue[Sweep[at]] = <<>>
  /\ at' = (at % Len(Sweep)) + 1
  /\ UNCHANGED <<pool, refs, msg, queue, drops, scratch, pc, hand, cmd, worker, client>>

Pop ==
  /\ pc[Task] = "idle" /\ queue[Sweep[at]] # <<>>
  /\ hand' = [hand EXCEPT ![Task] = Head(queue[Sweep[at]])]
  /\ queue' = [queue EXCEPT ![Sweep[at]] = Tail(@)]
  /\ Goto(Task, IF Sweep[at][1] = "in" THEN "handle" ELSE "encode")
  /\ UNCHANGED <<pool, refs, msg, drops, scratch, cmd, worker, at, client>>

EncodeTelemetry ==
  /\ pc[Task] = "encode"
  /\ scratch' = <<Internal, "telemetry">>
  /\ Goto(Task, "send")
  /\ UNCHANGED <<pool, refs, msg, queue, drops, hand, cmd, worker, at, client>>

Handle ==
  /\ pc[Task] = "handle"
  /\ LET m == msg[hand[Task]] IN
       /\ handled' = IF m = Internal THEN handled ELSE [handled EXCEPT ![m] = @ + 1]
       /\ Goto(Task, IF m \in Acked THEN "outcome" ELSE "finish")
  /\ UNCHANGED <<pool, refs, msg, queue, drops, scratch, hand, cmd, worker, at, todo, acks>>

\* Slip: a completion that finds no room is not counted.
HandOverUncounted ==
  /\ pc[Task] = "outcome"
  /\ IF HasRoom(Done)
       THEN Push(Done, hand[Task]) /\ Drop(Task) /\ Goto(Task, "idle")
       ELSE Goto(Task, "finish") /\ UNCHANGED <<queue, hand>>
  /\ UNCHANGED <<pool, refs, msg, drops, scratch, cmd, worker, at, client>>

\* The outcome is written in place and the buffer crosses to the I/O
\* thread, or the completion is dropped and counted.
HandOver ==
  /\ pc[Task] = "outcome"
  /\ IF HasRoom(Done)
       THEN Push(Done, hand[Task]) /\ Drop(Task)
            /\ Goto(Task, "idle") /\ drops' = drops
       ELSE drops' = drops + 1 /\ Goto(Task, "finish") /\ UNCHANGED <<queue, hand>>
  /\ UNCHANGED <<pool, refs, msg, scratch, cmd, worker, at, client>>

(***************************************************************************)
(* Both threads: the frame in the scratch buffer enters the TX pipe, and a *)
(* buffer is released.                                                     *)
(***************************************************************************)
Send(t) ==
  /\ t \in {Io, Task} /\ pc[t] = "send"
  /\ Goto(t, IF hand[t] = NoBuf THEN "idle" ELSE "finish")
  /\ UNCHANGED <<pool, refs, msg, queue, drops, scratch, hand, cmd, worker, at, client>>

Finish(t) ==
  /\ t \in {Io, Task} /\ pc[t] = "finish"
  /\ Release(hand[t]) /\ Drop(t)
  /\ Goto(t, "idle")
  /\ UNCHANGED <<msg, queue, drops, scratch, cmd, worker, at, client>>

(***************************************************************************)
(* The workers.                                                            *)
(***************************************************************************)
\* What a post may address: one inbox, every inbox (a multicast), or the
\* outbox of the task's own component.
Recipients(w) ==
  {<<In(c)>> : c \in Comps} \cup {<<Out(Home[w])>>}
    \cup {[i \in 1..Len(CompOrder) |-> In(CompOrder[i])]}

\* postInternalCommand, postMulticastCommand and postInternalTelemetry:
\* without a buffer the post fails.
Post(w, to) ==
  /\ pc[w] = "idle" /\ posts[w] < MaxPosts
  /\ posts' = [posts EXCEPT ![w] = @ + 1]
  /\ IF free = <<>>
       THEN UNCHANGED <<pool, hand, pc, left>>
       ELSE Claim(w) /\ Goto(w, "fill") /\ left' = [left EXCEPT ![w] = to]
  /\ UNCHANGED <<refs, msg, queue, drops, scratch, cmd, failed, at, client>>

\* Slip: the count acquire set is left.
SingleRef(w) == 1

\* setRefCount(validCount), before the first push.
RefCount(w) == Len(left[w])

PostFill(w) ==
  /\ pc[w] = "fill"
  /\ Fill(w, Internal, RefCount(w))
  /\ Goto(w, "push")
  /\ UNCHANGED <<queue, drops, scratch, hand, cmd, worker, at, client>>

PostPush(w) ==
  /\ pc[w] = "push" /\ left[w] # <<>>
  /\ left' = [left EXCEPT ![w] = Tail(@)]
  /\ IF HasRoom(Head(left[w]))
       THEN Push(Head(left[w]), hand[w]) /\ failed' = failed
       ELSE failed' = [failed EXCEPT ![w] = @ + 1] /\ queue' = queue
  /\ UNCHANGED <<pool, refs, msg, drops, scratch, pc, hand, cmd, posts, at, client>>

\* One release for every push that failed.
PostRelease(w) ==
  /\ pc[w] = "push" /\ left[w] = <<>> /\ failed[w] > 0
  /\ Release(hand[w])
  /\ failed' = [failed EXCEPT ![w] = @ - 1]
  /\ UNCHANGED <<msg, queue, drops, scratch, pc, hand, cmd, left, posts, at, client>>

PostEnd(w) ==
  /\ pc[w] = "push" /\ left[w] = <<>> /\ failed[w] = 0
  /\ Drop(w) /\ Goto(w, "idle")
  /\ UNCHANGED <<pool, refs, msg, queue, drops, scratch, cmd, worker, at, client>>

(***************************************************************************)
(* The system.                                                             *)
(***************************************************************************)
IoStep == RouteFill \/ RoutePush \/ RouteRefused \/ SyncHandle \/ PopCompletion
          \/ EncodeAck \/ Send(Io) \/ Finish(Io)
TaskStep == NextQueue \/ Pop \/ EncodeTelemetry \/ Handle \/ HandOver
            \/ Send(Task) \/ Finish(Task)
PostStep(w) == PostFill(w) \/ PostPush(w) \/ PostRelease(w) \/ PostEnd(w)

Next ==
  \/ \E c \in External : Receive(c)
  \/ IoStep
  \/ TaskStep
  \/ \E w \in Workers : PostStep(w) \/ \E to \in Recipients(w) : Post(w, to)

\* The threads run; commands and posts need not come.
Spec == Init /\ [][Next]_vars /\ WF_vars(IoStep) /\ WF_vars(TaskStep)
        /\ \A w \in Workers : WF_vars(PostStep(w))

(***************************************************************************)
(* Properties.                                                             *)
(***************************************************************************)
Held(b) == {t \in Threads : hand[t] = b /\ pc[t] # "fill"}

\* The releases thread t still owes buffer b: a worker one for each push to
\* come or failed, the other threads one while they hold it.
Owed(t, b) ==
  IF hand[t] # b \/ pc[t] = "fill" THEN 0
  ELSE IF t \in Workers THEN Len(left[t]) + failed[t] ELSE 1

\* Who still has to release buffer b: the recipients it is queued for, and
\* the threads.
Slots(b) == UNION {{<<q, i>> : i \in {j \in DOMAIN queue[q] : queue[q][j] = b}} : q \in Queues}
Shares(b) == UNION {{<<t, k>> : k \in 1..Owed(t, b)} : t \in Threads}
Holders(b) == Cardinality(Slots(b)) + Cardinality(Shares(b))

Labels == {"idle", "fill", "push", "refuse", "sync", "encode", "handle", "outcome", "send", "finish"}
          \cup Stages

\* Types of the variables.
TypeOK ==
  /\ free \in Seq(Bufs) /\ next \in 0..(Ring - 1)
  /\ claim \in [Threads -> 0..Ring]
  /\ refs \in [Bufs -> Nat]
  /\ msg \in [Bufs -> External \cup {Internal}]
  /\ queue \in [Queues -> Seq(Bufs)] /\ \A q \in Queues : Len(queue[q]) <= Cap(q)
  /\ drops \in Nat
  /\ pc \in [Threads -> Labels] /\ hand \in [Threads -> Bufs \cup {NoBuf}]
  /\ cmd \in External \cup {Internal}
  /\ left \in [Workers -> Seq(Boxes)]
  /\ failed \in [Workers -> Nat] /\ posts \in [Workers -> 0..MaxPosts]
  /\ at \in DOMAIN Sweep
  /\ todo \subseteq External
  /\ handled \in [External -> 0..1] /\ acks \in [External -> Seq(Stages)]

\* A buffer's count is the number of queue slots and threads that still have
\* to release it, so none is recycled under a recipient (the multicast path
\* sets the count before the first push and a recipient may release its
\* share before the last one), and a free buffer has no holder.
RefsExact ==
  /\ \A b \in Bufs : Holders(b) > 0 => refs[b] = Holders(b)
  /\ \A i \in DOMAIN free : Holders(free[i]) = 0 /\ \A j \in DOMAIN free : free[j] = free[i] => j = i

\* A client sees QUEUED before COMPLETION, one frame of each at most, and a
\* command that ran synchronously has the one direct answer: although the
\* command may have been executed before its QUEUED frame is built.
AckOrder ==
  \A c \in External : acks[c] \in {<<>>, <<"QUEUED">>, <<"QUEUED", "COMPLETION">>, <<"DIRECT">>}

\* The buffers that carry command c, or its outcome, to the other thread; one
\* the task thread is only releasing no longer does.
Carried(c) == {b \in Bufs : msg[b] = c /\ Holders(b) > 0
                            /\ ~(hand[Task] = b /\ pc[Task] = "finish")}
Waiting == {c \in Acked : handled[c] = 1 /\ ~ \E s \in {"COMPLETION", "DIRECT"} :
                            s \in ToSet(acks[c])}

\* An executed command whose outcome the client has not been sent is on its
\* way (in a buffer, or the frame is being built) or counted as dropped; a
\* command taken and not executed is in a buffer or on the I/O thread.
OutcomesAccounted ==
  /\ drops = Cardinality({c \in Waiting : Carried(c) = {} /\ ~(cmd = c /\ pc[Io] = "DIRECT")})
  /\ \A c \in External \ todo :
       handled[c] = 0 => Carried(c) # {} \/ (cmd = c /\ pc[Io] \in {"fill", "push", "refuse", "sync"})

\* Every command received is executed, in its component's drain or, when the
\* pool or the inbox is full, at once on the I/O thread.
CommandsRun == \A c \in External : c \notin todo ~> handled[c] = 1

\* BufferPool.cpp asserts that the free list takes every buffer back.
ReleaseSucceeds == [][\A b \in Bufs : Held(b) # {} /\ refs[b] = 1 /\ Holders(b) = 1 /\ Holders(b)' = 0
                        => b \in ToSet(free')]_vars

\* The frame a thread hands to the TX pipe is the one it encoded.
FrameOf(t) == IF t = Io THEN <<cmd, Last(acks[cmd])>> ELSE <<Internal, "telemetry">>
FramesWhole == \A t \in {Io, Task} : pc[t] = "send" => scratch = FrameOf(t)
=============================================================================
