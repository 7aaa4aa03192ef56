-------------------------- MODULE MessageBusProofs --------------------------
(***************************************************************************)
(* The message path for any pool, any components, queues, commands and     *)
(* workers: a buffer's count is the number of those who still have to      *)
(* release it, a command is in one place, the client is told of it in      *)
(* order, and every outcome is sent, on its way or counted as dropped.     *)
(***************************************************************************)
EXTENDS MessageBus, FiniteSetTheorems, FunctionTheorems, SequenceTheorems, TLAPS

----------------------------------------------------------------------------
(* The inductive invariant.                                                *)

\* Where a thread is, it has the buffer that place speaks of.
IoPlaces == {"idle", "fill", "push", "refuse", "sync", "QUEUED", "DIRECT", "COMPLETION", "send", "finish"}
TaskPlaces == {"idle", "encode", "handle", "outcome", "send", "finish"}

IoHand ==
  /\ pc[Io] \in IoPlaces
  /\ pc[Io] \in {"idle", "sync", "QUEUED", "DIRECT"} => hand[Io] = NoBuf
  /\ pc[Io] \in {"fill", "push", "refuse", "COMPLETION", "finish"} => hand[Io] \in Bufs
TaskHand ==
  /\ pc[Task] \in TaskPlaces
  /\ pc[Task] = "idle" => hand[Task] = NoBuf
  /\ pc[Task] # "idle" => hand[Task] \in Bufs
WorkerHand(w) ==
  /\ pc[w] \in {"idle", "fill", "push"}
  /\ pc[w] = "idle" => hand[w] = NoBuf /\ left[w] = <<>>
  /\ pc[w] # "idle" => hand[w] \in Bufs
  /\ pc[w] # "push" => failed[w] = 0
  /\ pc[w] = "fill" => left[w] # <<>>
Hands == IoHand /\ TaskHand /\ \A w \in Workers : WorkerHand(w)

Live(b) == Holders(b) > 0

\* The pool.
Counts == \A b \in Bufs : IsFiniteSet(Slots(b)) /\ IsFiniteSet(Shares(b)) /\ (Live(b) => refs[b] = Holders(b))
Filling(t) == pc[t] = "fill"
Idle == {b \in Bufs : Holders(b) = 0}
Pool ==
  /\ \A i \in DOMAIN free : free[i] \in Idle
  /\ \A i, j \in DOMAIN free : free[i] = free[j] => i = j
  /\ \A t \in Threads : Filling(t) => hand[t] \in Idle /\ \A i \in DOMAIN free : free[i] # hand[t]
  /\ \A t, s \in Threads : Filling(t) /\ Filling(s) /\ hand[t] = hand[s] => t = s

\* One buffer carries an external command, and one place has the buffer.
Sole ==
  /\ \A b \in Bufs : Live(b) /\ msg[b] \in External => refs[b] = 1 /\ msg[b] \notin todo
  /\ \A a, b \in Bufs : Live(a) /\ Live(b) /\ msg[a] \in External /\ msg[a] = msg[b] => a = b

Unread(b) == msg[b] \in External => handled[msg[b]] = 0
Read(b) == msg[b] \in Acked /\ handled[msg[b]] = 1
InQueue(q, b) == \E i \in DOMAIN queue[q] : queue[q][i] = b
InSlot(q, b) ==
  /\ q[1] = "in" => Unread(b)
  /\ q[1] = "out" => msg[b] = Internal
  /\ q[1] = "done" => Read(b)
AtTask(b) ==
  /\ pc[Task] = "handle" => Unread(b)
  /\ pc[Task] = "outcome" => Read(b)
  /\ pc[Task] = "finish" => (msg[b] \in External => handled[msg[b]] = 1)
  /\ pc[Task] \in {"encode", "send"} => msg[b] = Internal
Places ==
  /\ \A q \in Queues, b \in Bufs : InQueue(q, b) => InSlot(q, b)
  /\ \A b \in Bufs : hand[Task] = b => AtTask(b)
  /\ \A w \in Workers, b \in Bufs : Owed(w, b) > 0 => msg[b] = Internal

\* What the I/O thread knows of the command it routes.
Fresh(c) == \A b \in Bufs : msg[b] = c => ~Live(b)
Routing ==
  /\ cmd \in External => cmd \notin todo
  /\ pc[Io] # "idle" => cmd \in External
  /\ pc[Io] \in {"fill", "sync", "DIRECT"} => Fresh(cmd)
  /\ pc[Io] \in {"fill", "push", "refuse", "sync"} => handled[cmd] = 0
  /\ pc[Io] \in {"push", "refuse", "COMPLETION", "finish"} => msg[hand[Io]] = cmd
  /\ pc[Io] \in {"QUEUED", "DIRECT", "COMPLETION", "finish"} => cmd \in Acked
  /\ pc[Io] \in {"DIRECT", "COMPLETION", "finish"} => handled[cmd] = 1
  /\ pc[Io] = "send" /\ hand[Io] # NoBuf => msg[hand[Io]] = cmd /\ cmd \in Acked /\ handled[cmd] = 1
  /\ \A c \in todo : handled[c] = 0

\* The frames built.
Complete == <<"QUEUED", "COMPLETION">>
Early == {"fill", "push", "refuse", "sync", "QUEUED", "DIRECT"}
Frames ==
  /\ AckOrder
  /\ \A c \in External : c \in todo \/ c \notin Acked \/ (cmd = c /\ pc[Io] \in Early) => acks[c] = <<>>
  /\ pc[Io] = "COMPLETION" => acks[cmd] = <<"QUEUED">>
  /\ pc[Io] = "finish" \/ (pc[Io] = "send" /\ hand[Io] # NoBuf) => acks[cmd] = Complete
  /\ \A b \in Bufs : Live(b) /\ msg[b] \in Acked /\ hand[Io] # b =>
       acks[msg[b]] = IF cmd = msg[b] /\ pc[Io] = "QUEUED" THEN <<>> ELSE <<"QUEUED">>

\* The outcomes.
Lost == {c \in Waiting : Carried(c) = {} /\ ~(cmd = c /\ pc[Io] = "DIRECT")}
Outcomes == IsFiniteSet(Lost) /\ OutcomesAccounted

IInv == TypeOK /\ Hands /\ Counts /\ Pool /\ Sole /\ Places /\ Routing /\ Frames /\ Outcomes

----------------------------------------------------------------------------
(* Facts of sequences and sets.                                            *)

LEMMA SeqFacts ==
    ASSUME NEW S, NEW s \in Seq(S)
    PROVE  /\ Len(s) \in Nat /\ DOMAIN s = 1 .. Len(s)
           /\ \A i \in 1 .. Len(s) : s[i] \in S
           /\ s # <<>> => /\ Head(s) \in S /\ Head(s) = s[1] /\ Len(s) >= 1
                          /\ Tail(s) \in Seq(S) /\ Len(Tail(s)) = Len(s) - 1
                          /\ \A i \in 1 .. Len(s) - 1 : Tail(s)[i] = s[i + 1]
           /\ \A x \in S : /\ Append(s, x) \in Seq(S) /\ Len(Append(s, x)) = Len(s) + 1
                            /\ \A i \in 1 .. Len(s) : Append(s, x)[i] = s[i]
                            /\ Append(s, x)[Len(s) + 1] = x
  OBVIOUS

LEMMA Mod == ASSUME NEW n \in Int, NEW k \in Nat \ {0} PROVE n % k \in 0 .. k - 1
  OBVIOUS

\* A set of one element more, of one less, and of one that moved.
LEMMA Grown ==
    ASSUME NEW S, NEW x, IsFiniteSet(S), x \notin S
    PROVE  IsFiniteSet(S \cup {x}) /\ Cardinality(S \cup {x}) = Cardinality(S) + 1
  BY FS_AddElement

LEMMA Shrunk ==
    ASSUME NEW S, NEW x, IsFiniteSet(S), x \in S
    PROVE  IsFiniteSet(S \ {x}) /\ Cardinality(S \ {x}) = Cardinality(S) - 1
  BY FS_RemoveElement

LEMMA Two ==
    ASSUME NEW S, NEW x \in S, NEW y \in S, IsFiniteSet(S), Cardinality(S) <= 1
    PROVE  x = y
<1>1. Cardinality(S) \in Nat BY FS_CardinalityType
<1>2. Cardinality(S) # 0 BY FS_EmptySet
<1>3. Cardinality(S) = 1 BY <1>1, <1>2
<1>4. PICK z : S = {z} BY <1>3, FS_Singleton
<1> QED BY <1>4

----------------------------------------------------------------------------
(* The slots of the queues.                                                *)

SlotsIn(Q, b) == UNION {{<<q, i>> : i \in {j \in DOMAIN Q[q] : Q[q][j] = b}} : q \in Queues}
Contents == [Queues -> Seq(Bufs)]
Pushed(Q, q, b) == [Q EXCEPT ![q] = Append(@, b)]
Popped(Q, q) == [Q EXCEPT ![q] = Tail(@)]

LEMMA SlotsOf == ASSUME NEW b PROVE Slots(b) = SlotsIn(queue, b)
  BY DEF Slots, SlotsIn

LEMMA InSlots ==
    ASSUME NEW Q \in Contents, NEW b
    PROVE  \A x : x \in SlotsIn(Q, b) <=>
             \E q \in Queues : \E i \in 1 .. Len(Q[q]) : Q[q][i] = b /\ x = <<q, i>>
<1>1. \A q \in Queues : Q[q] \in Seq(Bufs) BY DEF Contents
<1>2. \A q \in Queues : DOMAIN Q[q] = 1 .. Len(Q[q]) BY <1>1, SeqFacts
<1> QED BY <1>2 DEF SlotsIn

LEMMA SlotIs ==
    ASSUME NEW Q \in Contents, NEW b, NEW q \in Queues, NEW i
    PROVE  <<q, i>> \in SlotsIn(Q, b) <=> i \in 1 .. Len(Q[q]) /\ Q[q][i] = b
  BY InSlots

LEMMA PushedType ==
    ASSUME NEW Q \in Contents, NEW q \in Queues, NEW b \in Bufs
    PROVE  /\ Pushed(Q, q, b) \in Contents /\ Pushed(Q, q, b)[q] = Append(Q[q], b)
           /\ \A r \in Queues \ {q} : Pushed(Q, q, b)[r] = Q[r]
<1>1. Q[q] \in Seq(Bufs) BY DEF Contents
<1>2. Append(Q[q], b) \in Seq(Bufs) BY <1>1, SeqFacts
<1> QED BY <1>2 DEF Pushed, Contents

LEMMA PoppedType ==
    ASSUME NEW Q \in Contents, NEW q \in Queues, Q[q] # <<>>
    PROVE  /\ Popped(Q, q) \in Contents /\ Popped(Q, q)[q] = Tail(Q[q])
           /\ \A r \in Queues \ {q} : Popped(Q, q)[r] = Q[r]
<1>1. Q[q] \in Seq(Bufs) BY DEF Contents
<1>2. Tail(Q[q]) \in Seq(Bufs) BY <1>1, SeqFacts
<1> QED BY <1>2 DEF Popped, Contents

\* A push fills one slot, of its buffer.
LEMMA PushSlots ==
    ASSUME NEW Q \in Contents, NEW q \in Queues, NEW b \in Bufs, NEW a \in Bufs,
           IsFiniteSet(SlotsIn(Q, a))
    PROVE  /\ IsFiniteSet(SlotsIn(Pushed(Q, q, b), a))
           /\ Cardinality(SlotsIn(Pushed(Q, q, b), a))
                = Cardinality(SlotsIn(Q, a)) + IF a = b THEN 1 ELSE 0
<1> DEFINE P == Pushed(Q, q, b)  n == Len(Q[q])
<1>1. Q[q] \in Seq(Bufs) BY DEF Contents
<1>a. P \in Contents /\ P[q] = Append(Q[q], b) /\ \A r \in Queues \ {q} : P[r] = Q[r]
  BY PushedType
<1>b. /\ Len(Q[q]) \in Nat /\ Len(Append(Q[q], b)) = Len(Q[q]) + 1
      /\ Append(Q[q], b)[Len(Q[q]) + 1] = b
      /\ \A i \in 1 .. Len(Q[q]) : Append(Q[q], b)[i] = Q[q][i]
  BY <1>1, SeqFacts
<1>2. /\ n \in Nat /\ Len(P[q]) = n + 1 /\ P[q][n + 1] = b
      /\ \A i \in 1 .. n : P[q][i] = Q[q][i]
      /\ P \in Contents /\ \A r \in Queues \ {q} : P[r] = Q[r]
  <2> HIDE DEF P
  <2> QED BY <1>a, <1>b
<1> HIDE DEF P, n
<1>3. 1 .. n + 1 = (1 .. n) \cup {n + 1} /\ n + 1 \notin 1 .. n BY <1>2
<1>n. n = Len(Q[q]) BY DEF n
<1>4. CASE a = b
  <2>1. \A r \in Queues : \A i : <<r, i>> \in SlotsIn(P, a) <=> <<r, i>> \in SlotsIn(Q, a) \cup {<<q, n + 1>>}
    <3> SUFFICES ASSUME NEW r \in Queues, NEW i
                 PROVE  <<r, i>> \in SlotsIn(P, a) <=> <<r, i>> \in SlotsIn(Q, a) \cup {<<q, n + 1>>}
      OBVIOUS
    <3>1. <<r, i>> \in SlotsIn(P, a) <=> i \in 1 .. Len(P[r]) /\ P[r][i] = a BY <1>2, SlotIs
    <3>2. <<r, i>> \in SlotsIn(Q, a) <=> i \in 1 .. Len(Q[r]) /\ Q[r][i] = a BY SlotIs
    <3>3. CASE r # q BY <3>1, <3>2, <3>3, <1>2
    <3>4. CASE r = q BY <3>1, <3>2, <3>4, <1>2, <1>3, <1>4, <1>n
    <3> QED BY <3>3, <3>4
  <2>2. \A x \in SlotsIn(P, a) : \E r \in Queues : \E i : x = <<r, i>> BY <1>2, InSlots
  <2>3. \A x \in SlotsIn(Q, a) : \E r \in Queues : \E i : x = <<r, i>> BY InSlots
  <2>4. SlotsIn(P, a) = SlotsIn(Q, a) \cup {<<q, n + 1>>} BY <2>1, <2>2, <2>3
  <2>5. <<q, n + 1>> \notin SlotsIn(Q, a) BY SlotIs, <1>3, <1>n
  <2> QED BY <2>4, <2>5, <1>4, Grown DEF P
<1>5. CASE a # b
  <2>1. \A r \in Queues : \A i : <<r, i>> \in SlotsIn(P, a) <=> <<r, i>> \in SlotsIn(Q, a)
    <3> SUFFICES ASSUME NEW r \in Queues, NEW i
                 PROVE  <<r, i>> \in SlotsIn(P, a) <=> <<r, i>> \in SlotsIn(Q, a)
      OBVIOUS
    <3>1. <<r, i>> \in SlotsIn(P, a) <=> i \in 1 .. Len(P[r]) /\ P[r][i] = a BY <1>2, SlotIs
    <3>2. <<r, i>> \in SlotsIn(Q, a) <=> i \in 1 .. Len(Q[r]) /\ Q[r][i] = a BY SlotIs
    <3>3. CASE r # q BY <3>1, <3>2, <3>3, <1>2
    <3>4. CASE r = q BY <3>1, <3>2, <3>4, <1>2, <1>3, <1>5, <1>n
    <3> QED BY <3>3, <3>4
  <2>2. \A x \in SlotsIn(P, a) : \E r \in Queues : \E i : x = <<r, i>> BY <1>2, InSlots
  <2>3. \A x \in SlotsIn(Q, a) : \E r \in Queues : \E i : x = <<r, i>> BY InSlots
  <2>4. SlotsIn(P, a) = SlotsIn(Q, a) BY <2>1, <2>2, <2>3
  <2>5. Cardinality(SlotsIn(Q, a)) \in Nat BY FS_CardinalityType
  <2> QED BY <2>4, <2>5, <1>5 DEF P
<1> QED BY <1>4, <1>5

\* A pop frees one slot, of the buffer at the head.
LEMMA PopSlots ==
    ASSUME NEW Q \in Contents, NEW q \in Queues, Q[q] # <<>>, NEW a \in Bufs,
           IsFiniteSet(SlotsIn(Q, a))
    PROVE  /\ IsFiniteSet(SlotsIn(Popped(Q, q), a))
           /\ Cardinality(SlotsIn(Popped(Q, q), a))
                = Cardinality(SlotsIn(Q, a)) - IF a = Head(Q[q]) THEN 1 ELSE 0
<1> DEFINE P == Popped(Q, q)  n == Len(Q[q])  R == SlotsIn(Q, a) \ {<<q, 1>>}
           f == [x \in R |-> IF x[1] = q THEN <<q, x[2] - 1>> ELSE x]
<1>1. Q[q] \in Seq(Bufs) BY DEF Contents
<1>a. P \in Contents /\ P[q] = Tail(Q[q]) /\ \A r \in Queues \ {q} : P[r] = Q[r]
  BY PoppedType
<1>b. /\ Len(Q[q]) \in Nat /\ Len(Q[q]) >= 1 /\ Len(Tail(Q[q])) = Len(Q[q]) - 1
      /\ \A i \in 1 .. Len(Q[q]) - 1 : Tail(Q[q])[i] = Q[q][i + 1]
      /\ Head(Q[q]) = Q[q][1]
  BY <1>1, SeqFacts
<1>2. /\ n \in Nat /\ n >= 1 /\ n = Len(Q[q]) /\ Len(P[q]) = n - 1
      /\ \A i \in 1 .. n - 1 : P[q][i] = Q[q][i + 1]
      /\ P \in Contents /\ \A r \in Queues \ {q} : P[r] = Q[r]
  <2> HIDE DEF P
  <2> QED BY <1>a, <1>b
<1> HIDE DEF P, n
<1>3. \A r \in Queues : \A i : <<r, i>> \in SlotsIn(P, a) <=> i \in 1 .. Len(P[r]) /\ P[r][i] = a
  BY <1>2, SlotIs
<1>4. \A r \in Queues : \A i : <<r, i>> \in SlotsIn(Q, a) <=> i \in 1 .. Len(Q[r]) /\ Q[r][i] = a
  BY SlotIs
<1>5. \A x \in SlotsIn(P, a) : \E r \in Queues : \E i : x = <<r, i>> BY <1>2, InSlots
<1>6. \A x \in SlotsIn(Q, a) : \E r \in Queues : \E i : x = <<r, i>> BY InSlots
<1>7. \A x \in R : f[x] \in SlotsIn(P, a)
  <2> SUFFICES ASSUME NEW x \in R PROVE f[x] \in SlotsIn(P, a) OBVIOUS
  <2>1. PICK r \in Queues : \E i : x = <<r, i>> BY <1>6
  <2>2. PICK i : x = <<r, i>> BY <2>1
  <2>3. i \in 1 .. Len(Q[r]) /\ Q[r][i] = a BY <1>4, <2>2
  <2>4. CASE r # q
    <3>1. f[x] = x BY <2>2, <2>4
    <3> QED BY <3>1, <2>2, <2>3, <2>4, <1>2, <1>3
  <2>5. CASE r = q
    <3>1. f[x] = <<q, i - 1>> BY <2>2, <2>5
    <3>2. i # 1 BY <2>2, <2>5
    <3>3. i - 1 \in 1 .. n - 1 /\ (i - 1) + 1 = i BY <3>2, <2>3, <2>5, <1>2
    <3>4. P[q][i - 1] = a BY <3>3, <1>2, <2>3, <2>5
    <3> HIDE DEF f
    <3> QED BY <3>1, <3>3, <3>4, <1>2, <1>3
  <2> QED BY <2>4, <2>5
<1>8. \A y \in SlotsIn(P, a) : \E x \in R : f[x] = y
  <2> SUFFICES ASSUME NEW y \in SlotsIn(P, a) PROVE \E x \in R : f[x] = y OBVIOUS
  <2>1. PICK r \in Queues : \E i : y = <<r, i>> BY <1>5
  <2>2. PICK i : y = <<r, i>> BY <2>1
  <2>3. i \in 1 .. Len(P[r]) /\ P[r][i] = a BY <1>3, <2>2
  <2>4. CASE r # q
    <3>1. y \in R BY <2>2, <2>3, <2>4, <1>2, <1>4
    <3>2. f[y] = y BY <3>1, <2>2, <2>4
    <3> QED BY <3>1, <3>2
  <2>5. CASE r = q
    <3>1. i + 1 \in 1 .. n /\ i + 1 # 1 /\ (i + 1) - 1 = i /\ i \in 1 .. n - 1 BY <2>3, <2>5, <1>2
    <3>2. Q[q][i + 1] = a BY <3>1, <2>3, <2>5, <1>2
    <3>3. <<q, i + 1>> \in R BY <3>1, <3>2, <1>2, <1>4
    <3>4. f[<<q, i + 1>>] = y BY <3>1, <3>3, <2>2, <2>5
    <3> QED BY <3>3, <3>4
  <2> QED BY <2>4, <2>5
<1>9. \A x, y \in R : f[x] = f[y] => x = y
  <2> SUFFICES ASSUME NEW x \in R, NEW y \in R, f[x] = f[y] PROVE x = y OBVIOUS
  <2>1. PICK r \in Queues : \E i : x = <<r, i>> BY <1>6
  <2>2. PICK i : x = <<r, i>> BY <2>1
  <2>3. PICK s \in Queues : \E j : y = <<s, j>> BY <1>6
  <2>4. PICK j : y = <<s, j>> BY <2>3
  <2>5. i \in Int /\ j \in Int
    <3>1. i \in 1 .. Len(Q[r]) /\ j \in 1 .. Len(Q[s]) BY <1>4, <2>2, <2>4
    <3> QED BY <3>1
  <2>6. f[x] = (IF r = q THEN <<q, i - 1>> ELSE <<r, i>>) BY <2>2
  <2>7. f[y] = (IF s = q THEN <<q, j - 1>> ELSE <<s, j>>) BY <2>4
  <2> HIDE DEF f
  <2> QED BY <2>2, <2>4, <2>5, <2>6, <2>7
<1>10. f \in Bijection(R, SlotsIn(P, a))
  <2>1. f \in [R -> SlotsIn(P, a)]
    <3>1. DOMAIN f = R /\ f = [x \in R |-> f[x]] OBVIOUS
    <3> HIDE DEF f, R
    <3> QED BY <3>1, <1>7
  <2> HIDE DEF f, R
  <2> QED BY <2>1, <1>8, <1>9, Fun_IsBij
<1>11. IsFiniteSet(R) /\ Cardinality(R) = Cardinality(SlotsIn(Q, a)) - IF a = Head(Q[q]) THEN 1 ELSE 0
  <2>1. <<q, 1>> \in SlotsIn(Q, a) <=> a = Head(Q[q]) BY <1>b, <1>4
  <2>2. Cardinality(SlotsIn(Q, a)) \in Nat BY FS_CardinalityType
  <2> QED BY <2>1, <2>2, FS_RemoveElement
<1>12. ExistsBijection(R, SlotsIn(P, a))
  <2> HIDE DEF f, R
  <2> QED BY <1>10, Fun_ExistsBij
<1> HIDE DEF R
<1> QED BY <1>11, <1>12, FS_Bijection DEF P

----------------------------------------------------------------------------
(* The shares of the threads.                                              *)

Ledger == [Threads -> Nat]
SharesIn(C) == UNION {{<<t, k>> : k \in 1 .. C[t]} : t \in Threads}

LEMMA ShareIs ==
    ASSUME NEW C \in Ledger, NEW t \in Threads, NEW k
    PROVE  <<t, k>> \in SharesIn(C) <=> k \in 1 .. C[t]
  BY DEF SharesIn

LEMMA InShares ==
    ASSUME NEW C \in Ledger
    PROVE  \A x \in SharesIn(C) : \E t \in Threads : \E k : x = <<t, k>>
  BY DEF SharesIn

LEMMA ShareMore ==
    ASSUME NEW C \in Ledger, NEW D \in Ledger, NEW t \in Threads, IsFiniteSet(SharesIn(C)),
           D[t] = C[t] + 1, \A s \in Threads \ {t} : D[s] = C[s]
    PROVE  IsFiniteSet(SharesIn(D)) /\ Cardinality(SharesIn(D)) = Cardinality(SharesIn(C)) + 1
<1>1. C[t] \in Nat BY DEF Ledger
<1>2. 1 .. C[t] + 1 = (1 .. C[t]) \cup {C[t] + 1} /\ C[t] + 1 \notin 1 .. C[t] BY <1>1
<1>3. \A s \in Threads : \A k : <<s, k>> \in SharesIn(D) <=> <<s, k>> \in SharesIn(C) \cup {<<t, D[t]>>}
  <2> SUFFICES ASSUME NEW s \in Threads, NEW k
               PROVE  <<s, k>> \in SharesIn(D) <=> <<s, k>> \in SharesIn(C) \cup {<<t, D[t]>>}
    OBVIOUS
  <2>1. (<<s, k>> \in SharesIn(D) <=> k \in 1 .. D[s]) /\ (<<s, k>> \in SharesIn(C) <=> k \in 1 .. C[s])
    BY ShareIs
  <2>2. CASE s = t BY <2>1, <2>2, <1>2
  <2>3. CASE s # t BY <2>1, <2>3
  <2> QED BY <2>2, <2>3
<1>4. \A x \in SharesIn(D) : \E s \in Threads : \E k : x = <<s, k>> BY InShares
<1>5. \A x \in SharesIn(C) : \E s \in Threads : \E k : x = <<s, k>> BY InShares
<1>6. SharesIn(D) = SharesIn(C) \cup {<<t, D[t]>>} BY <1>3, <1>4, <1>5
<1>7. <<t, D[t]>> \notin SharesIn(C) BY <1>2, ShareIs
<1> QED BY <1>6, <1>7, Grown

LEMMA ShareLess ==
    ASSUME NEW C \in Ledger, NEW D \in Ledger, NEW t \in Threads, IsFiniteSet(SharesIn(C)),
           D[t] = C[t] - 1, \A s \in Threads \ {t} : D[s] = C[s]
    PROVE  IsFiniteSet(SharesIn(D)) /\ Cardinality(SharesIn(D)) = Cardinality(SharesIn(C)) - 1
<1>1. C[t] \in Nat /\ D[t] \in Nat BY DEF Ledger
<1>a. C[t] = D[t] + 1 BY <1>1
<1>2. 1 .. D[t] + 1 = (1 .. D[t]) \cup {D[t] + 1} /\ D[t] + 1 \notin 1 .. D[t] BY <1>1
<1>3. \A s \in Threads : \A k : <<s, k>> \in SharesIn(D) <=> <<s, k>> \in SharesIn(C) \ {<<t, C[t]>>}
  <2> SUFFICES ASSUME NEW s \in Threads, NEW k
               PROVE  <<s, k>> \in SharesIn(D) <=> <<s, k>> \in SharesIn(C) \ {<<t, C[t]>>}
    OBVIOUS
  <2>1. (<<s, k>> \in SharesIn(D) <=> k \in 1 .. D[s]) /\ (<<s, k>> \in SharesIn(C) <=> k \in 1 .. C[s])
    BY ShareIs
  <2>2. CASE s = t BY <2>1, <2>2, <1>2, <1>a
  <2>3. CASE s # t BY <2>1, <2>3
  <2> QED BY <2>2, <2>3
<1>4. \A x \in SharesIn(D) : \E s \in Threads : \E k : x = <<s, k>> BY InShares
<1>5. \A x \in SharesIn(C) : \E s \in Threads : \E k : x = <<s, k>> BY InShares
<1>6. SharesIn(D) = SharesIn(C) \ {<<t, C[t]>>} BY <1>3, <1>4, <1>5
<1>7. <<t, C[t]>> \in SharesIn(C) BY <1>a, <1>2, ShareIs
<1> QED BY <1>6, <1>7, Shrunk

\* One thread has all the shares there are.
LEMMA ShareAll ==
    ASSUME NEW D \in Ledger, NEW t \in Threads, \A s \in Threads \ {t} : D[s] = 0
    PROVE  IsFiniteSet(SharesIn(D)) /\ Cardinality(SharesIn(D)) = D[t]
<1> DEFINE f == [k \in 1 .. D[t] |-> <<t, k>>]
<1>1. D[t] \in Nat BY DEF Ledger
<1>2. \A s \in Threads : \A k : <<s, k>> \in SharesIn(D) => s = t /\ k \in 1 .. D[t]
  <2> SUFFICES ASSUME NEW s \in Threads, NEW k, <<s, k>> \in SharesIn(D) PROVE s = t /\ k \in 1 .. D[t]
    OBVIOUS
  <2>1. k \in 1 .. D[s] BY ShareIs
  <2>2. CASE s # t BY <2>1, <2>2
  <2> QED BY <2>1, <2>2
<1>3. \A k \in 1 .. D[t] : <<t, k>> \in SharesIn(D) BY ShareIs
<1>4. f \in [1 .. D[t] -> SharesIn(D)] BY <1>3
<1>5. \A y \in SharesIn(D) : \E k \in 1 .. D[t] : f[k] = y BY <1>2, InShares
<1>6. \A j, k \in 1 .. D[t] : f[j] = f[k] => j = k OBVIOUS
<1>7. f \in Bijection(1 .. D[t], SharesIn(D))
  <2> HIDE DEF f
  <2> QED BY <1>4, <1>5, <1>6, Fun_IsBij
<1>8. ExistsBijection(1 .. D[t], SharesIn(D))
  <2> HIDE DEF f
  <2> QED BY <1>7, Fun_ExistsBij
<1> HIDE DEF f
<1>9. IsFiniteSet(1 .. D[t]) /\ Cardinality(1 .. D[t]) = D[t]
  <2> DEFINE n == D[t]
  <2>1. n \in Nat BY <1>1
  <2> HIDE DEF n
  <2>2. IsFiniteSet(1 .. n) /\ Cardinality(1 .. n) = IF 1 > n THEN 0 ELSE n - 1 + 1 BY <2>1, FS_Interval
  <2>3. Cardinality(1 .. n) = n BY <2>1, <2>2
  <2> QED BY <2>2, <2>3 DEF n
<1> QED BY <1>8, <1>9, FS_Bijection

LEMMA ShareNone ==
    ASSUME NEW C \in Ledger
    PROVE  SharesIn(C) = {} <=> \A t \in Threads : C[t] = 0
<1>1. ASSUME \A t \in Threads : C[t] = 0 PROVE SharesIn(C) = {}
  <2>1. \A t \in Threads : 1 .. C[t] = {} BY <1>1
  <2> QED BY <2>1 DEF SharesIn
<1>2. ASSUME SharesIn(C) = {}, NEW t \in Threads PROVE C[t] = 0
  <2>1. C[t] \in Nat BY DEF Ledger
  <2>2. 1 \notin 1 .. C[t] BY <1>2, ShareIs
  <2> QED BY <2>1, <2>2
<1> QED BY <1>1, <1>2

----------------------------------------------------------------------------
(* Names.                                                                  *)

LEMMA Names ==
  /\ Io \in Threads /\ Task \in Threads /\ Io # Task /\ Io \notin Workers /\ Task \notin Workers
  /\ Workers \subseteq Threads /\ \A t \in Threads : t = Io \/ t = Task \/ t \in Workers
  /\ NoBuf \notin Bufs /\ Internal \notin External /\ Acked \subseteq External
  BY NamesAssumption DEF Threads

LEMMA QueueNames ==
  /\ \A c \in Comps : In(c) \in Queues /\ Out(c) \in Queues /\ In(c)[1] = "in" /\ Out(c)[1] = "out"
  /\ Done \in Queues /\ Done[1] = "done"
  /\ \A c \in Comps : In(c) \in Boxes /\ Out(c) \in Boxes
  /\ \A q \in Queues : q[1] \in {"in", "out", "done"} /\ (q[1] = "done" <=> q = Done)
  /\ Boxes \subseteq Queues /\ \A q \in Boxes : q[1] \in {"in", "out"}
  BY DEF Queues, Boxes, In, Out, Done

LEMMA Capacities == \A q \in Queues : Cap(q) \in Nat
  BY QueueNames, QueueAssumption DEF Cap

LEMMA Ordered ==
  /\ Len(CompOrder) \in Nat /\ Len(CompOrder) >= 1
  /\ \A i \in 1 .. Len(CompOrder) : CompOrder[i] \in Comps
<1>1. CompOrder \in Seq(Comps) /\ CompOrder # <<>> BY CompAssumption DEF Comps
<1> QED BY <1>1, SeqFacts

LEMMA SeqMade ==
    ASSUME NEW S, NEW n \in Nat, NEW f \in [1 .. n -> S]
    PROVE  f \in Seq(S) /\ Len(f) = n
  OBVIOUS

LEMMA Sweeps ==
  /\ Sweep \in Seq(Queues) /\ Len(Sweep) \in Nat \ {0} /\ DOMAIN Sweep = 1 .. Len(Sweep)
  /\ \A i \in 1 .. Len(Sweep) : Sweep[i] \in Queues /\ Sweep[i] # Done
<1> DEFINE R == {q \in Queues : q # Done}  n == Len(CompOrder)
           a == [i \in 1 .. n |-> Out(CompOrder[i])]
           b == [i \in 1 .. n |-> In(CompOrder[i])]
<1>1. n \in Nat /\ n >= 1 BY Ordered
<1>2. \A c \in Comps : In(c) \in R /\ Out(c) \in R BY QueueNames
<1> HIDE DEF R
<1>3. \A i \in 1 .. n : In(CompOrder[i]) \in R /\ Out(CompOrder[i]) \in R BY <1>2, Ordered
<1>4. a \in [1 .. n -> R] /\ b \in [1 .. n -> R] BY <1>3
<1>5. Sweep = a \o b BY DEF Sweep
<1> HIDE DEF a, b, n
<1>6. a \in Seq(R) /\ Len(a) = n /\ b \in Seq(R) /\ Len(b) = n BY <1>1, <1>4, SeqMade
<1>7. a \o b \in Seq(R) /\ Len(a \o b) = n + n BY <1>6
<1>8. /\ Sweep \in Seq(R) /\ Len(Sweep) \in Nat \ {0} /\ DOMAIN Sweep = 1 .. Len(Sweep)
      /\ \A i \in 1 .. Len(Sweep) : Sweep[i] \in R
  BY <1>1, <1>5, <1>7, SeqFacts
<1>9. Sweep \in Seq(Queues) BY <1>8 DEF R
<1> QED BY <1>8, <1>9 DEF R

LEMMA Addressed ==
    ASSUME NEW w \in Workers, NEW to \in Recipients(w)
    PROVE  to \in Seq(Boxes) /\ to # <<>> /\ Len(to) \in Nat /\ Len(to) >= 1
<1>1. ASSUME NEW c \in Comps, to = <<In(c)>> \/ to = <<Out(c)>> PROVE to \in Seq(Boxes) /\ Len(to) = 1
  <2>1. In(c) \in Boxes /\ Out(c) \in Boxes BY QueueNames
  <2> QED BY <1>1, <2>1
<1>2. Home[w] \in Comps BY CompAssumption
<1>3. ASSUME to = [i \in 1 .. Len(CompOrder) |-> In(CompOrder[i])]
      PROVE to \in Seq(Boxes) /\ Len(to) \in Nat /\ Len(to) >= 1
  <2> DEFINE b == [i \in 1 .. Len(CompOrder) |-> In(CompOrder[i])]
  <2>1. \A i \in 1 .. Len(CompOrder) : In(CompOrder[i]) \in Boxes BY QueueNames, Ordered
  <2>2. b \in [1 .. Len(CompOrder) -> Boxes] BY <2>1
  <2>3. to = b BY <1>3
  <2> HIDE DEF b
  <2>4. b \in Seq(Boxes) /\ Len(b) = Len(CompOrder) BY <2>2, Ordered, SeqMade
  <2>5. Len(to) \in Nat /\ Len(to) >= 1 BY <2>3, <2>4, Ordered
  <2> QED BY <2>3, <2>4, <2>5
<1>a. (\E c \in Comps : to = <<In(c)>> \/ to = <<Out(c)>>)
      \/ to = [i \in 1 .. Len(CompOrder) |-> In(CompOrder[i])]
  BY <1>2 DEF Recipients
<1>4. to \in Seq(Boxes) /\ Len(to) \in Nat /\ Len(to) >= 1
  <2>1. CASE \E c \in Comps : to = <<In(c)>> \/ to = <<Out(c)>>
    <3>1. PICK c \in Comps : to = <<In(c)>> \/ to = <<Out(c)>> BY <2>1
    <3>2. to \in Seq(Boxes) /\ Len(to) = 1 BY <3>1, <1>1
    <3> QED BY <3>2
  <2>2. CASE to = [i \in 1 .. Len(CompOrder) |-> In(CompOrder[i])] BY <2>2, <1>3, Ordered
  <2> QED BY <1>a, <2>1, <2>2
<1> QED BY <1>4

----------------------------------------------------------------------------
(* Who holds a buffer.                                                     *)

Owes(b) == [t \in Threads |-> Owed(t, b)]

LEMMA Recipient ==
    ASSUME TypeOK, NEW w \in Workers
    PROVE  /\ left[w] \in Seq(Boxes) /\ failed[w] \in Nat /\ Len(left[w]) \in Nat
           /\ left[w] # <<>> => /\ Len(left[w]) >= 1 /\ Head(left[w]) \in Boxes /\ Head(left[w]) \in Queues
                                /\ Tail(left[w]) \in Seq(Boxes) /\ Len(Tail(left[w])) = Len(left[w]) - 1
           /\ left[w] = <<>> => Len(left[w]) = 0
<1>1. left[w] \in Seq(Boxes) /\ failed[w] \in Nat BY DEF TypeOK
<1>2. left[w] = <<>> => Len(left[w]) = 0 OBVIOUS
<1>3. Boxes \subseteq Queues BY DEF Queues
<1> QED BY <1>1, <1>2, <1>3, SeqFacts

LEMMA OwedNat == ASSUME TypeOK, NEW t \in Threads, NEW b PROVE Owed(t, b) \in Nat
<1>1. t \in Workers => Len(left[t]) + failed[t] \in Nat BY Recipient
<1> QED BY <1>1 DEF Owed

LEMMA SharesOf ==
    ASSUME TypeOK, NEW b
    PROVE  Owes(b) \in Ledger /\ Shares(b) = SharesIn(Owes(b)) /\ \A t \in Threads : Owes(b)[t] = Owed(t, b)
  BY OwedNat DEF Owes, Ledger, Shares, SharesIn

LEMMA HoldersNat ==
    ASSUME Counts, NEW b \in Bufs
    PROVE  /\ IsFiniteSet(Slots(b)) /\ IsFiniteSet(Shares(b))
           /\ Cardinality(Slots(b)) \in Nat /\ Cardinality(Shares(b)) \in Nat /\ Holders(b) \in Nat
           /\ Holders(b) = Cardinality(Slots(b)) + Cardinality(Shares(b))
           /\ Live(b) <=> Holders(b) # 0
<1>1. IsFiniteSet(Slots(b)) /\ IsFiniteSet(Shares(b)) BY DEF Counts
<1>2. Cardinality(Slots(b)) \in Nat /\ Cardinality(Shares(b)) \in Nat BY <1>1, FS_CardinalityType
<1> QED BY <1>1, <1>2 DEF Holders, Live

\* A buffer that a slot has, or that a thread owes a release, is live.
LEMMA OwedLive ==
    ASSUME TypeOK, Counts, NEW t \in Threads, NEW b \in Bufs, Owed(t, b) > 0
    PROVE  Live(b)
<1>1. Owed(t, b) \in Nat BY OwedNat
<1>2. Shares(b) # {} BY <1>1, SharesOf, ShareNone
<1>3. Cardinality(Shares(b)) # 0 BY <1>2, HoldersNat, FS_EmptySet
<1> QED BY <1>3, HoldersNat

LEMMA SlotLive ==
    ASSUME TypeOK, Counts, NEW q \in Queues, NEW i \in DOMAIN queue[q]
    PROVE  queue[q][i] \in Bufs /\ Live(queue[q][i])
<1>1. queue \in Contents /\ queue[q] \in Seq(Bufs) BY DEF TypeOK, Contents
<1>2. i \in 1 .. Len(queue[q]) /\ queue[q][i] \in Bufs BY <1>1, SeqFacts
<1>3. <<q, i>> \in Slots(queue[q][i]) BY <1>1, <1>2, SlotsOf, SlotIs
<1>4. Cardinality(Slots(queue[q][i])) # 0 BY <1>2, <1>3, HoldersNat, FS_EmptySet
<1> QED BY <1>2, <1>4, HoldersNat

\* The I/O thread and the task thread owe one release for the buffer they have.
LEMMA HandOwed ==
    ASSUME NEW t \in {Io, Task}, pc[t] # "fill", NEW b, hand[t] = b
    PROVE  Owed(t, b) = 1
  BY Names DEF Owed

LEMMA HandLive ==
    ASSUME TypeOK, Counts, NEW t \in {Io, Task}, pc[t] # "fill", hand[t] \in Bufs
    PROVE  Live(hand[t]) /\ refs[hand[t]] = Holders(hand[t]) /\ Holders(hand[t]) >= 1
<1>1. Owed(t, hand[t]) = 1 BY HandOwed
<1>2. Live(hand[t]) BY <1>1, Names, OwedLive
<1> QED BY <1>2, HoldersNat DEF Counts

\* A buffer with one holder is in one place.
LEMMA Alone ==
    ASSUME TypeOK, Counts, NEW b \in Bufs, Holders(b) <= 1
    PROVE  /\ \A t, s \in Threads : Owed(t, b) > 0 /\ Owed(s, b) > 0 => t = s
           /\ \A t \in Threads : Owed(t, b) > 0 =>
                \A q \in Queues : \A i \in DOMAIN queue[q] : queue[q][i] # b
           /\ \A q, r \in Queues : \A i \in DOMAIN queue[q], j \in DOMAIN queue[r] :
                queue[q][i] = b /\ queue[r][j] = b => q = r /\ i = j
<1>1. /\ IsFiniteSet(Slots(b)) /\ IsFiniteSet(Shares(b)) /\ Cardinality(Slots(b)) <= 1
      /\ Cardinality(Shares(b)) <= 1 /\ (Cardinality(Slots(b)) = 0 \/ Cardinality(Shares(b)) = 0)
  BY HoldersNat
<1>2. \A t \in Threads : Owed(t, b) > 0 => <<t, 1>> \in Shares(b)
  <2>1. \A t \in Threads : Owed(t, b) > 0 => 1 \in 1 .. Owed(t, b) BY OwedNat
  <2> QED BY <2>1, SharesOf, ShareIs
<1>3. \A q \in Queues : \A i \in DOMAIN queue[q] : queue[q][i] = b => <<q, i>> \in Slots(b)
  <2>1. queue \in Contents /\ \A q \in Queues : DOMAIN queue[q] = 1 .. Len(queue[q])
    BY SeqFacts DEF TypeOK, Contents
  <2> QED BY <2>1, SlotsOf, SlotIs
<1>4. \A t, s \in Threads : Owed(t, b) > 0 /\ Owed(s, b) > 0 => t = s
  <2> SUFFICES ASSUME NEW t \in Threads, NEW s \in Threads, Owed(t, b) > 0, Owed(s, b) > 0 PROVE t = s
    OBVIOUS
  <2>1. <<t, 1>> = <<s, 1>> BY <1>1, <1>2, Two
  <2> QED BY <2>1
<1>5. \A t \in Threads : Owed(t, b) > 0 =>
        \A q \in Queues : \A i \in DOMAIN queue[q] : queue[q][i] # b
  <2>1. Slots(b) = {} \/ Shares(b) = {} BY <1>1, FS_EmptySet
  <2> QED BY <2>1, <1>2, <1>3
<1>6. \A q, r \in Queues : \A i \in DOMAIN queue[q], j \in DOMAIN queue[r] :
        queue[q][i] = b /\ queue[r][j] = b => q = r /\ i = j
  <2> SUFFICES ASSUME NEW q \in Queues, NEW r \in Queues, NEW i \in DOMAIN queue[q],
                      NEW j \in DOMAIN queue[r], queue[q][i] = b, queue[r][j] = b
               PROVE  q = r /\ i = j
    OBVIOUS
  <2>1. <<q, i>> = <<r, j>> BY <1>1, <1>3, Two
  <2> QED BY <2>1
<1> QED BY <1>4, <1>5, <1>6

----------------------------------------------------------------------------
(* The types.                                                              *)

PoolTypes ==
  /\ free \in Seq(Bufs) /\ next \in 0..(Ring - 1) /\ claim \in [Threads -> 0..Ring]
  /\ refs \in [Bufs -> Nat] /\ msg \in [Bufs -> External \cup {Internal}]
QueueTypes == queue \in [Queues -> Seq(Bufs)] /\ \A q \in Queues : Len(queue[q]) <= Cap(q)
PlaceTypes == pc \in [Threads -> Labels] /\ hand \in [Threads -> Bufs \cup {NoBuf}]
WorkTypes ==
  /\ left \in [Workers -> Seq(Boxes)] /\ failed \in [Workers -> Nat] /\ posts \in [Workers -> 0..MaxPosts]
CommandTypes ==
  /\ drops \in Nat /\ cmd \in External \cup {Internal} /\ at \in DOMAIN Sweep
  /\ todo \subseteq External /\ handled \in [External -> 0..1] /\ acks \in [External -> Seq(Stages)]

LEMMA AllTypes == TypeOK <=> PoolTypes /\ QueueTypes /\ PlaceTypes /\ WorkTypes /\ CommandTypes
  BY DEF TypeOK, PoolTypes, QueueTypes, PlaceTypes, WorkTypes, CommandTypes

LEMMA RingIsNat == Ring \in Nat /\ Ring >= 1 /\ NoCell = Ring
<1>1. Cardinality(Bufs) \in 1..Ring /\ Ring \in Nat BY PoolAssumption
<1> QED BY <1>1 DEF NoCell

LEMMA ClaimTypes ==
    ASSUME TypeOK, NEW t \in Threads, Claim(t), refs' = refs, msg' = msg
    PROVE  /\ PoolTypes' /\ Head(free) \in Bufs
           /\ hand' \in [Threads -> Bufs \cup {NoBuf}] /\ hand'[t] = Head(free)
<1>1. free \in Seq(Bufs) /\ free # <<>> BY DEF TypeOK, Claim
<1>2. Head(free) \in Bufs /\ Tail(free) \in Seq(Bufs) /\ Len(free) \in Nat BY <1>1, SeqFacts
<1>3. (next - Len(free)) % Ring \in 0..Ring
  <2>1. next \in Int BY RingIsNat DEF TypeOK
  <2>2. next - Len(free) \in Int BY <2>1, <1>2
  <2>a. Ring \in Nat \ {0} BY RingIsNat
  <2>3. (next - Len(free)) % Ring \in 0..(Ring - 1) BY <2>2, <2>a, Mod
  <2>4. 0..(Ring - 1) \subseteq 0..Ring BY RingIsNat
  <2> QED BY <2>3, <2>4
<1>4. claim' \in [Threads -> 0..Ring] BY <1>3 DEF Claim, TypeOK
<1> QED BY <1>2, <1>4 DEF Claim, TypeOK, PoolTypes

LEMMA FillTypes ==
    ASSUME TypeOK, NEW t \in Threads, NEW m \in External \cup {Internal}, NEW n \in Nat,
           Fill(t, m, n)
    PROVE  PoolTypes'
<1>1. NoCell \in 0..Ring BY RingIsNat
<1> QED BY <1>1 DEF Fill, TypeOK, PoolTypes

LEMMA ReleaseTypes ==
    ASSUME TypeOK, NEW b \in Bufs, refs[b] >= 1, Release(b), msg' = msg
    PROVE  PoolTypes'
<1>1. refs[b] \in Nat /\ refs[b] - 1 \in Nat BY DEF TypeOK
<1>2. refs' \in [Bufs -> Nat] BY <1>1 DEF Release, TypeOK
<1>3. Append(free, b) \in Seq(Bufs) BY SeqFacts DEF TypeOK
<1>4. (next + 1) % Ring \in 0..(Ring - 1)
  <2>1. next + 1 \in Int BY RingIsNat DEF TypeOK
  <2>2. Ring \in Nat \ {0} BY RingIsNat
  <2> QED BY <2>1, <2>2, Mod
<1> QED BY <1>2, <1>3, <1>4 DEF Release, TypeOK, PoolTypes

LEMMA PushTypes ==
    ASSUME TypeOK, NEW q \in Queues, NEW b \in Bufs, HasRoom(q), Push(q, b)
    PROVE  QueueTypes' /\ queue' = Pushed(queue, q, b)
<1>1. queue' = Pushed(queue, q, b) BY DEF Push, Pushed
<1>2. queue \in Contents /\ queue[q] \in Seq(Bufs) BY DEF TypeOK, Contents
<1>3. queue' \in Contents /\ queue'[q] = Append(queue[q], b) /\ \A r \in Queues \ {q} : queue'[r] = queue[r]
  BY <1>1, <1>2, PushedType
<1>4. Len(queue'[q]) = Len(queue[q]) + 1 /\ Len(queue[q]) \in Nat BY <1>2, <1>3, SeqFacts
<1>5. Len(queue'[q]) <= Cap(q) BY <1>4, Capacities DEF HasRoom
<1>6. \A r \in Queues : Len(queue'[r]) <= Cap(r) BY <1>3, <1>5 DEF TypeOK
<1> QED BY <1>1, <1>3, <1>6 DEF QueueTypes, Contents

LEMMA PopTypes ==
    ASSUME TypeOK, NEW q \in Queues, queue[q] # <<>>, queue' = [queue EXCEPT ![q] = Tail(@)]
    PROVE  QueueTypes' /\ queue' = Popped(queue, q) /\ Head(queue[q]) \in Bufs
<1>1. queue' = Popped(queue, q) BY DEF Popped
<1>2. queue \in Contents /\ queue[q] \in Seq(Bufs) BY DEF TypeOK, Contents
<1>a. queue[q] # <<>> OBVIOUS
<1>3. queue' \in Contents /\ queue'[q] = Tail(queue[q]) /\ \A r \in Queues \ {q} : queue'[r] = queue[r]
  <2>1. Popped(queue, q) \in Contents /\ Popped(queue, q)[q] = Tail(queue[q])
        /\ \A r \in Queues \ {q} : Popped(queue, q)[r] = queue[r]
    BY <1>2, <1>a, PoppedType
  <2> QED BY <1>1, <2>1
<1>4. Len(queue'[q]) = Len(queue[q]) - 1 /\ Len(queue[q]) \in Nat /\ Head(queue[q]) \in Bufs
  BY <1>2, <1>3, SeqFacts
<1>5. Len(queue'[q]) <= Cap(q)
  <2>1. Len(queue[q]) <= Cap(q) BY DEF TypeOK
  <2> QED BY <1>4, <2>1, Capacities
<1>6. \A r \in Queues : Len(queue'[r]) <= Cap(r) BY <1>3, <1>5 DEF TypeOK
<1> QED BY <1>1, <1>3, <1>4, <1>6 DEF QueueTypes, Contents

LEMMA AtQueue ==
    ASSUME TypeOK
    PROVE  at \in 1 .. Len(Sweep) /\ Sweep[at] \in Queues /\ Sweep[at] # Done
<1>1. at \in 1 .. Len(Sweep) BY Sweeps DEF TypeOK
<1> QED BY <1>1, Sweeps

LEMMA TypeStep == ASSUME IInv, [Next]_vars PROVE TypeOK'
<1> USE DEF IInv
<1>n. /\ Io \in Threads /\ Task \in Threads /\ Workers \subseteq Threads /\ NoBuf \notin Bufs
      /\ Internal \notin External
  BY Names
<1>t. PoolTypes /\ QueueTypes /\ PlaceTypes /\ WorkTypes /\ CommandTypes BY AllTypes
<1>1. ASSUME NEW c \in External, Receive(c) PROVE TypeOK'
  <2>1. PoolTypes' /\ hand' \in [Threads -> Bufs \cup {NoBuf}]
    <3>1. CASE free = <<>> BY <1>1, <3>1, <1>t DEF Receive, PoolTypes, PlaceTypes, pool
    <3>2. CASE free # <<>> BY <1>1, <3>2, <1>n, ClaimTypes DEF Receive
    <3> QED BY <3>1, <3>2
  <2>2. pc' \in [Threads -> Labels] BY <1>1, <1>t DEF Receive, Goto, PlaceTypes, Labels, Stages
  <2>3. QueueTypes' BY <1>1, <1>t DEF Receive, QueueTypes
  <2>4. WorkTypes' BY <1>1, <1>t DEF Receive, WorkTypes, worker
  <2>5. CommandTypes' BY <1>1, <1>t DEF Receive, CommandTypes
  <2> QED BY <2>1, <2>2, <2>3, <2>4, <2>5, AllTypes DEF TypeOK, PoolTypes, QueueTypes, WorkTypes, CommandTypes
<1>2. ASSUME RouteFill PROVE TypeOK'
  <2>1. cmd \in External BY <1>2 DEF RouteFill, Routing
  <2>2. PoolTypes' BY <1>2, <2>1, <1>n, FillTypes DEF RouteFill
  <2>3. QueueTypes' /\ PlaceTypes' /\ WorkTypes' /\ CommandTypes'
    BY <1>2, <1>t DEF RouteFill, Goto, worker, client, QueueTypes, PlaceTypes, WorkTypes, CommandTypes, Labels, Stages
  <2> QED BY <2>2, <2>3 DEF TypeOK, PoolTypes, QueueTypes, PlaceTypes, WorkTypes, CommandTypes
<1>3. ASSUME RoutePush PROVE TypeOK'
  <2>1. cmd \in External /\ hand[Io] \in Bufs BY <1>3 DEF RoutePush, Routing, Hands, IoHand, TaskHand, WorkerHand
  <2>2. In(Target[cmd]) \in Queues BY <2>1, CompAssumption, QueueNames
  <2>3. QueueTypes' BY <1>3, <2>1, <2>2, <1>t, PushTypes DEF RoutePush, QueueTypes
  <2>4. PoolTypes' /\ PlaceTypes' /\ WorkTypes' /\ CommandTypes'
    BY <1>3, <1>t DEF RoutePush, Goto, Drop, worker, client, pool, PoolTypes, PlaceTypes, WorkTypes, CommandTypes, Labels, Stages
  <2> QED BY <2>3, <2>4 DEF TypeOK, PoolTypes, QueueTypes, PlaceTypes, WorkTypes, CommandTypes
<1>4. ASSUME RouteRefused PROVE TypeOK'
  <2>1. hand[Io] \in Bufs /\ pc[Io] # "fill" BY <1>4 DEF RouteRefused, Hands, IoHand, TaskHand, WorkerHand
  <2>2. refs[hand[Io]] >= 1 BY <2>1, HandLive
  <2>3. PoolTypes' BY <1>4, <2>1, <2>2, ReleaseTypes DEF RouteRefused
  <2>4. QueueTypes' /\ PlaceTypes' /\ WorkTypes' /\ CommandTypes'
    BY <1>4, <1>t DEF RouteRefused, Goto, Drop, worker, client, QueueTypes, PlaceTypes, WorkTypes, CommandTypes, Labels, Stages
  <2> QED BY <2>3, <2>4 DEF TypeOK, PoolTypes, QueueTypes, PlaceTypes, WorkTypes, CommandTypes
<1>5. ASSUME SyncHandle PROVE TypeOK'
  <2>1. cmd \in External /\ handled[cmd] = 0 BY <1>5 DEF SyncHandle, Routing
  <2>2. CommandTypes' BY <1>5, <2>1, <1>t DEF SyncHandle, CommandTypes
  <2>4. PoolTypes' /\ QueueTypes' /\ PlaceTypes' /\ WorkTypes'
    BY <1>5, <1>t DEF SyncHandle, Goto, worker, pool, PoolTypes, QueueTypes, PlaceTypes, WorkTypes, Labels, Stages
  <2> QED BY <2>2, <2>4 DEF TypeOK, PoolTypes, QueueTypes, PlaceTypes, WorkTypes, CommandTypes
<1>6. ASSUME PopCompletion PROVE TypeOK'
  <2>1. Done \in Queues BY QueueNames
  <2>2. QueueTypes' /\ Head(queue[Done]) \in Bufs BY <1>6, <2>1, PopTypes DEF PopCompletion
  <2>3. PlaceTypes' BY <1>6, <1>t, <2>2 DEF PopCompletion, Goto, PlaceTypes, Labels, Stages
  <2>4. CommandTypes' BY <1>6, <1>t, <2>2 DEF PopCompletion, CommandTypes, PoolTypes, client
  <2>5. PoolTypes' /\ WorkTypes' BY <1>6, <1>t DEF PopCompletion, worker, pool, PoolTypes, WorkTypes
  <2> QED BY <2>2, <2>3, <2>4, <2>5 DEF TypeOK, PoolTypes, QueueTypes, PlaceTypes, WorkTypes, CommandTypes
<1>7. ASSUME EncodeAck PROVE TypeOK'
  <2>1. cmd \in External /\ pc[Io] \in Stages BY <1>7 DEF EncodeAck, Routing, Stages
  <2>2. acks[cmd] \in Seq(Stages) BY <2>1, <1>t DEF CommandTypes
  <2>3. Append(acks[cmd], pc[Io]) \in Seq(Stages) BY <2>1, <2>2, SeqFacts
  <2>4. CommandTypes' BY <1>7, <1>t, <2>3 DEF EncodeAck, CommandTypes
  <2>5. PoolTypes' /\ QueueTypes' /\ PlaceTypes' /\ WorkTypes'
    BY <1>7, <1>t DEF EncodeAck, Goto, worker, pool, PoolTypes, QueueTypes, PlaceTypes, WorkTypes, Labels, Stages
  <2> QED BY <2>4, <2>5 DEF TypeOK, PoolTypes, QueueTypes, PlaceTypes, WorkTypes, CommandTypes
<1>8. ASSUME NEW t \in Threads, Send(t) PROVE TypeOK'
  <2>1. PoolTypes' /\ QueueTypes' /\ PlaceTypes' /\ WorkTypes' /\ CommandTypes'
    BY <1>8, <1>t DEF Send, Goto, worker, pool, client, PoolTypes, QueueTypes, PlaceTypes, WorkTypes, CommandTypes, Labels, Stages
  <2> QED BY <2>1 DEF TypeOK, PoolTypes, QueueTypes, PlaceTypes, WorkTypes, CommandTypes
<1>9. ASSUME NEW t \in {Io, Task}, Finish(t) PROVE TypeOK'
  <2>1. hand[t] \in Bufs /\ pc[t] # "fill" BY <1>9 DEF Finish, Hands, IoHand, TaskHand, WorkerHand
  <2>2. refs[hand[t]] >= 1 BY <2>1, HandLive
  <2>3. PoolTypes' BY <1>9, <2>1, <2>2, ReleaseTypes DEF Finish
  <2>4. QueueTypes' /\ PlaceTypes' /\ WorkTypes' /\ CommandTypes'
    BY <1>9, <1>t DEF Finish, Goto, Drop, worker, client, QueueTypes, PlaceTypes, WorkTypes, CommandTypes, Labels, Stages
  <2> QED BY <2>3, <2>4 DEF TypeOK, PoolTypes, QueueTypes, PlaceTypes, WorkTypes, CommandTypes
<1>10. ASSUME NextQueue PROVE TypeOK'
  <2>1. at \in Int BY AtQueue
  <2>2. at % Len(Sweep) \in 0 .. Len(Sweep) - 1 BY <2>1, Sweeps, Mod
  <2>3. at' \in DOMAIN Sweep BY <1>10, <2>2, Sweeps DEF NextQueue
  <2>4. PoolTypes' /\ QueueTypes' /\ PlaceTypes' /\ WorkTypes' /\ CommandTypes'
    BY <1>10, <2>3, <1>t DEF NextQueue, worker, pool, client, PoolTypes, QueueTypes, PlaceTypes, WorkTypes, CommandTypes
  <2> QED BY <2>4 DEF TypeOK, PoolTypes, QueueTypes, PlaceTypes, WorkTypes, CommandTypes
<1>11. ASSUME Pop PROVE TypeOK'
  <2>1. Sweep[at] \in Queues BY AtQueue
  <2>2. QueueTypes' /\ Head(queue[Sweep[at]]) \in Bufs BY <1>11, <2>1, PopTypes DEF Pop
  <2>3. PlaceTypes' BY <1>11, <1>t, <2>2 DEF Pop, Goto, PlaceTypes, Labels, Stages
  <2>5. PoolTypes' /\ WorkTypes' /\ CommandTypes'
    BY <1>11, <1>t DEF Pop, worker, pool, client, PoolTypes, WorkTypes, CommandTypes
  <2> QED BY <2>2, <2>3, <2>5 DEF TypeOK, PoolTypes, QueueTypes, PlaceTypes, WorkTypes, CommandTypes
<1>12. ASSUME EncodeTelemetry PROVE TypeOK'
  <2>1. PoolTypes' /\ QueueTypes' /\ PlaceTypes' /\ WorkTypes' /\ CommandTypes'
    BY <1>12, <1>t DEF EncodeTelemetry, Goto, worker, pool, client, PoolTypes, QueueTypes, PlaceTypes, WorkTypes, CommandTypes, Labels, Stages
  <2> QED BY <2>1 DEF TypeOK, PoolTypes, QueueTypes, PlaceTypes, WorkTypes, CommandTypes
<1>13. ASSUME Handle PROVE TypeOK'
  <2>1. hand[Task] \in Bufs BY <1>13 DEF Handle, Hands, IoHand, TaskHand, WorkerHand
  <2>2. msg[hand[Task]] \in External => handled[msg[hand[Task]]] = 0
    BY <1>13, <2>1 DEF Handle, Places, AtTask, Unread
  <2>3. msg[hand[Task]] \in External \cup {Internal} BY <2>1, <1>t DEF PoolTypes
  <2>4. CommandTypes' BY <1>13, <1>t, <2>2, <2>3 DEF Handle, CommandTypes
  <2>5. PoolTypes' /\ QueueTypes' /\ PlaceTypes' /\ WorkTypes'
    BY <1>13, <1>t DEF Handle, Goto, worker, pool, PoolTypes, QueueTypes, PlaceTypes, WorkTypes, Labels, Stages
  <2> QED BY <2>4, <2>5 DEF TypeOK, PoolTypes, QueueTypes, PlaceTypes, WorkTypes, CommandTypes
<1>14. ASSUME HandOver PROVE TypeOK'
  <2>1. hand[Task] \in Bufs /\ Done \in Queues BY <1>14, QueueNames DEF HandOver, Hands, IoHand, TaskHand, WorkerHand
  <2>2. QueueTypes' BY <1>14, <2>1, <1>t, PushTypes DEF HandOver, QueueTypes
  <2>3. CommandTypes' BY <1>14, <1>t DEF HandOver, CommandTypes, client
  <2>4. PoolTypes' /\ PlaceTypes' /\ WorkTypes'
    BY <1>14, <1>t DEF HandOver, Goto, Drop, worker, pool, PoolTypes, PlaceTypes, WorkTypes, Labels, Stages
  <2> QED BY <2>2, <2>3, <2>4 DEF TypeOK, PoolTypes, QueueTypes, PlaceTypes, WorkTypes, CommandTypes
<1>15. ASSUME NEW w \in Workers, PostFill(w) PROVE TypeOK'
  <2>1. Len(left[w]) \in Nat BY Recipient
  <2>2. PoolTypes' BY <1>15, <2>1, <1>n, FillTypes DEF PostFill, RefCount
  <2>3. QueueTypes' /\ PlaceTypes' /\ WorkTypes' /\ CommandTypes'
    BY <1>15, <1>t DEF PostFill, Goto, worker, client, QueueTypes, PlaceTypes, WorkTypes, CommandTypes, Labels, Stages
  <2> QED BY <2>2, <2>3 DEF TypeOK, PoolTypes, QueueTypes, PlaceTypes, WorkTypes, CommandTypes
<1>16. ASSUME NEW w \in Workers, PostPush(w) PROVE TypeOK'
  <2>1. /\ Head(left[w]) \in Queues /\ Tail(left[w]) \in Seq(Boxes) /\ hand[w] \in Bufs
        /\ failed[w] + 1 \in Nat
    <3>1. failed[w] \in Nat BY Recipient
    <3> QED BY <1>16, <3>1, Recipient DEF PostPush, Hands, IoHand, TaskHand, WorkerHand
  <2>2. QueueTypes' BY <1>16, <2>1, <1>t, PushTypes DEF PostPush, QueueTypes
  <2>3. WorkTypes' BY <1>16, <2>1, <1>t DEF PostPush, WorkTypes
  <2>4. PoolTypes' /\ PlaceTypes' /\ CommandTypes'
    BY <1>16, <1>t DEF PostPush, pool, client, PoolTypes, PlaceTypes, CommandTypes
  <2> QED BY <2>2, <2>3, <2>4 DEF TypeOK, PoolTypes, QueueTypes, PlaceTypes, WorkTypes, CommandTypes
<1>17. ASSUME NEW w \in Workers, PostRelease(w) PROVE TypeOK'
  <2>1. /\ hand[w] \in Bufs /\ failed[w] \in Nat /\ failed[w] - 1 \in Nat /\ pc[w] # "fill"
        /\ Len(left[w]) = 0
    <3>1. failed[w] \in Nat BY Recipient
    <3> QED BY <1>17, <3>1, Recipient DEF PostRelease, Hands, IoHand, TaskHand, WorkerHand
  <2>2. Owed(w, hand[w]) > 0 BY <2>1, <1>17 DEF Owed, PostRelease
  <2>3. Live(hand[w]) BY <2>1, <2>2, <1>n, OwedLive
  <2>4. refs[hand[w]] >= 1 BY <2>1, <2>3, HoldersNat DEF Counts
  <2>5. PoolTypes' BY <1>17, <2>1, <2>4, ReleaseTypes DEF PostRelease
  <2>6. WorkTypes' BY <1>17, <2>1, <1>t DEF PostRelease, WorkTypes
  <2>7. QueueTypes' /\ PlaceTypes' /\ CommandTypes'
    BY <1>17, <1>t DEF PostRelease, client, QueueTypes, PlaceTypes, CommandTypes
  <2> QED BY <2>5, <2>6, <2>7 DEF TypeOK, PoolTypes, QueueTypes, PlaceTypes, WorkTypes, CommandTypes
<1>18. ASSUME NEW w \in Workers, PostEnd(w) PROVE TypeOK'
  <2>1. PoolTypes' /\ QueueTypes' /\ PlaceTypes' /\ WorkTypes' /\ CommandTypes'
    BY <1>18, <1>t DEF PostEnd, Goto, Drop, worker, pool, client, PoolTypes, QueueTypes, PlaceTypes, WorkTypes, CommandTypes, Labels, Stages
  <2> QED BY <2>1 DEF TypeOK, PoolTypes, QueueTypes, PlaceTypes, WorkTypes, CommandTypes
<1>19. ASSUME NEW w \in Workers, NEW to \in Recipients(w), Post(w, to) PROVE TypeOK'
  <2>1. PoolTypes' /\ hand' \in [Threads -> Bufs \cup {NoBuf}]
    <3>1. CASE free = <<>> BY <1>19, <3>1, <1>t DEF Post, PoolTypes, PlaceTypes, pool
    <3>2. CASE free # <<>> BY <1>19, <3>2, <1>n, ClaimTypes DEF Post
    <3> QED BY <3>1, <3>2
  <2>2. pc' \in [Threads -> Labels] BY <1>19, <1>t DEF Post, Goto, PlaceTypes, Labels, Stages
  <2>3. posts' \in [Workers -> 0..MaxPosts]
    <3>1. posts[w] + 1 \in 0..MaxPosts BY <1>19, <1>t, QueueAssumption DEF Post, WorkTypes
    <3> QED BY <1>19, <3>1, <1>t DEF Post, WorkTypes
  <2>4. WorkTypes' BY <1>19, <1>t, <2>3, Addressed DEF Post, WorkTypes
  <2>5. QueueTypes' /\ CommandTypes' BY <1>19, <1>t DEF Post, client, QueueTypes, CommandTypes
  <2> QED BY <2>1, <2>2, <2>4, <2>5 DEF TypeOK, PoolTypes, QueueTypes, WorkTypes, CommandTypes
<1>20. ASSUME UNCHANGED vars PROVE TypeOK'
  <2>1. PoolTypes' /\ QueueTypes' /\ PlaceTypes' /\ WorkTypes' /\ CommandTypes'
    BY <1>20, <1>t DEF vars, worker, pool, client, PoolTypes, QueueTypes, PlaceTypes, WorkTypes, CommandTypes
  <2> QED BY <2>1 DEF TypeOK, PoolTypes, QueueTypes, PlaceTypes, WorkTypes, CommandTypes
<1> QED
  BY <1>1, <1>2, <1>3, <1>4, <1>5, <1>6, <1>7, <1>8, <1>9, <1>10, <1>11, <1>12, <1>13, <1>14, <1>15,
     <1>16, <1>17, <1>18, <1>19, <1>20, <1>n DEF Next, IoStep, TaskStep, PostStep

----------------------------------------------------------------------------
(* What a step does to the number of holders.                              *)

Moved(b, d) ==
  IsFiniteSet(Slots(b)') /\ IsFiniteSet(Shares(b)') /\ Holders(b)' = Holders(b) + d
AllStay == \A b \in Bufs : Moved(b, 0)
OthersStay(b) == \A a \in Bufs \ {b} : Moved(a, 0)

LEMMA Balance ==
    ASSUME Counts, NEW b \in Bufs, NEW d \in Int, NEW e \in Int,
           IsFiniteSet(Slots(b)'), Cardinality(Slots(b)') = Cardinality(Slots(b)) + d,
           IsFiniteSet(Shares(b)'), Cardinality(Shares(b)') = Cardinality(Shares(b)) + e
    PROVE  Moved(b, d + e)
<1>1. Cardinality(Slots(b)) \in Nat /\ Cardinality(Shares(b)) \in Nat
      /\ Holders(b) = Cardinality(Slots(b)) + Cardinality(Shares(b))
  BY HoldersNat
<1>2. Holders(b)' = Cardinality(Slots(b)') + Cardinality(Shares(b)') BY DEF Holders
<1> QED BY <1>1, <1>2 DEF Moved

\* One thread's debt changes.
LEMMA ShareStep ==
    ASSUME TypeOK, TypeOK', Counts, NEW b \in Bufs, NEW t \in Threads, NEW d \in {-1, 0, 1},
           Owed(t, b)' = Owed(t, b) + d, \A s \in Threads \ {t} : Owed(s, b)' = Owed(s, b)
    PROVE  IsFiniteSet(Shares(b)') /\ Cardinality(Shares(b)') = Cardinality(Shares(b)) + d
<1> DEFINE C == Owes(b)  D == [s \in Threads |-> Owed(s, b)']
<1>1. C \in Ledger /\ Shares(b) = SharesIn(C) /\ \A s \in Threads : C[s] = Owed(s, b) BY SharesOf
<1>2. \A s \in Threads : Owed(s, b)' \in Nat
  <2>1. \A s \in Workers : left'[s] \in Seq(Boxes) /\ failed'[s] \in Nat BY DEF TypeOK
  <2>2. \A s \in Workers : Len(left'[s]) + failed'[s] \in Nat BY <2>1, SeqFacts
  <2> QED BY <2>2 DEF Owed
<1>3. D \in Ledger /\ \A s \in Threads : D[s] = Owed(s, b)' BY <1>2 DEF Ledger
<1>4. Shares(b)' = SharesIn(D) BY DEF Shares, SharesIn
<1>5. IsFiniteSet(SharesIn(C)) /\ Cardinality(SharesIn(C)) \in Nat BY <1>1, HoldersNat
<1>6. D[t] = C[t] + d /\ \A s \in Threads \ {t} : D[s] = C[s] BY <1>1, <1>3
<1>7. C[t] \in Nat BY <1>1 DEF Ledger
<1> HIDE DEF C, D
<1>8. CASE d = 1 BY <1>1, <1>3, <1>4, <1>5, <1>6, <1>8, ShareMore
<1>9. CASE d = -1
  <2>1. D[t] = C[t] - 1 BY <1>6, <1>7, <1>9
  <2>2. IsFiniteSet(SharesIn(D)) /\ Cardinality(SharesIn(D)) = Cardinality(SharesIn(C)) - 1
    BY <1>1, <1>3, <1>5, <1>6, <2>1, ShareLess
  <2> QED BY <2>2, <1>1, <1>4, <1>5, <1>9
<1>10. CASE d = 0
  <2>1. \A s \in Threads : D[s] = C[s] BY <1>6, <1>7, <1>10
  <2>2. D = C BY <2>1, <1>1, <1>3 DEF Ledger
  <2> QED BY <2>2, <1>1, <1>4, <1>5, <1>10
<1> QED BY <1>8, <1>9, <1>10

LEMMA SlotsStay ==
    ASSUME Counts, NEW b \in Bufs, queue' = queue
    PROVE  IsFiniteSet(Slots(b)') /\ Cardinality(Slots(b)') = Cardinality(Slots(b)) + 0
<1>1. Slots(b)' = Slots(b) BY DEF Slots
<1> QED BY <1>1, HoldersNat

LEMMA SlotsPush ==
    ASSUME TypeOK, Counts, NEW a \in Bufs, NEW b \in Bufs, NEW q \in Queues, HasRoom(q), Push(q, b)
    PROVE  /\ IsFiniteSet(Slots(a)')
           /\ Cardinality(Slots(a)') = Cardinality(Slots(a)) + IF a = b THEN 1 ELSE 0
<1>1. queue \in Contents /\ queue' = Pushed(queue, q, b) BY PushTypes DEF TypeOK, Contents
<1>2. Slots(a) = SlotsIn(queue, a) /\ Slots(a)' = SlotsIn(queue', a) BY DEF Slots, SlotsIn
<1>3. IsFiniteSet(SlotsIn(queue, a)) BY <1>2, HoldersNat
<1> QED BY <1>1, <1>2, <1>3, PushSlots

LEMMA SlotsPop ==
    ASSUME TypeOK, Counts, NEW a \in Bufs, NEW q \in Queues, queue[q] # <<>>,
           queue' = [queue EXCEPT ![q] = Tail(@)]
    PROVE  /\ IsFiniteSet(Slots(a)')
           /\ Cardinality(Slots(a)') = Cardinality(Slots(a)) + IF a = Head(queue[q]) THEN -1 ELSE 0
<1>1. queue \in Contents /\ queue' = Popped(queue, q) BY PopTypes DEF TypeOK, Contents
<1>2. Slots(a) = SlotsIn(queue, a) /\ Slots(a)' = SlotsIn(queue', a) BY DEF Slots, SlotsIn
<1>3. IsFiniteSet(SlotsIn(queue, a)) /\ Cardinality(SlotsIn(queue, a)) \in Nat BY <1>2, HoldersNat
<1>4. LET S == SlotsIn(Popped(queue, q), a)
      IN  IsFiniteSet(S) /\ Cardinality(S) = Cardinality(SlotsIn(queue, a)) - IF a = Head(queue[q]) THEN 1 ELSE 0
  BY <1>1, <1>3, PopSlots
<1> QED BY <1>1, <1>2, <1>3, <1>4

\* Only one thread moves, and only the buffers it had or has are concerned.
LEMMA OwedBy ==
    ASSUME NEW t \in Threads, NEW b,
           \A s \in Threads \ {t} : hand'[s] = hand[s] /\ pc'[s] = pc[s],
           \A s \in Workers \ {t} : left'[s] = left[s] /\ failed'[s] = failed[s]
    PROVE  \A s \in Threads \ {t} : Owed(s, b)' = Owed(s, b)
  BY DEF Owed

\* Nothing that bears on a release changes.
LEMMA Still ==
    ASSUME TypeOK, TypeOK', Counts, queue' = queue, NEW t \in Threads,
           \A s \in Threads \ {t} : hand'[s] = hand[s] /\ pc'[s] = pc[s],
           \A s \in Workers \ {t} : left'[s] = left[s] /\ failed'[s] = failed[s],
           \A b \in Bufs : Owed(t, b)' = Owed(t, b)
    PROVE  AllStay
<1> SUFFICES ASSUME NEW b \in Bufs PROVE Moved(b, 0) BY DEF AllStay
<1>1. Owed(t, b)' = Owed(t, b) + 0 BY OwedNat
<1>2. \A s \in Threads \ {t} : Owed(s, b)' = Owed(s, b) BY OwedBy
<1>3. IsFiniteSet(Shares(b)') /\ Cardinality(Shares(b)') = Cardinality(Shares(b)) + 0
  BY <1>1, <1>2, ShareStep
<1>4. IsFiniteSet(Slots(b)') /\ Cardinality(Slots(b)') = Cardinality(Slots(b)) + 0 BY SlotsStay
<1>5. Moved(b, 0 + 0) BY <1>3, <1>4, Balance
<1> QED BY <1>5

\* A thread's debt for one buffer goes down by one: a release.
LEMMA Less ==
    ASSUME TypeOK, TypeOK', Counts, queue' = queue, NEW t \in Threads, NEW b \in Bufs,
           \A s \in Threads \ {t} : hand'[s] = hand[s] /\ pc'[s] = pc[s],
           \A s \in Workers \ {t} : left'[s] = left[s] /\ failed'[s] = failed[s],
           Owed(t, b)' = Owed(t, b) - 1, \A a \in Bufs \ {b} : Owed(t, a)' = Owed(t, a)
    PROVE  Moved(b, -1) /\ OthersStay(b)
<1>1. ASSUME NEW a \in Bufs, NEW d \in {-1, 0, 1}, Owed(t, a)' = Owed(t, a) + d PROVE Moved(a, d)
  <2>2. \A s \in Threads \ {t} : Owed(s, a)' = Owed(s, a) BY OwedBy
  <2>3. IsFiniteSet(Shares(a)') /\ Cardinality(Shares(a)') = Cardinality(Shares(a)) + d
    BY <1>1, <2>2, ShareStep
  <2>4. IsFiniteSet(Slots(a)') /\ Cardinality(Slots(a)') = Cardinality(Slots(a)) + 0 BY SlotsStay
  <2>5. Moved(a, 0 + d) BY <2>3, <2>4, Balance
  <2> QED BY <2>5
<1>2. Owed(t, b)' = Owed(t, b) + (-1) BY OwedNat
<1>3. Moved(b, -1) BY <1>1, <1>2
<1>4. \A a \in Bufs \ {b} : Owed(t, a)' = Owed(t, a) + 0 BY OwedNat
<1>5. \A a \in Bufs \ {b} : Moved(a, 0) BY <1>1, <1>4
<1> QED BY <1>3, <1>5 DEF OthersStay

\* From a thread into a queue.
LEMMA Over ==
    ASSUME TypeOK, TypeOK', Counts, NEW t \in Threads, NEW b \in Bufs, NEW q \in Queues,
           HasRoom(q), Push(q, b),
           \A s \in Threads \ {t} : hand'[s] = hand[s] /\ pc'[s] = pc[s],
           \A s \in Workers \ {t} : left'[s] = left[s] /\ failed'[s] = failed[s],
           Owed(t, b)' = Owed(t, b) - 1, \A a \in Bufs \ {b} : Owed(t, a)' = Owed(t, a)
    PROVE  AllStay
<1> SUFFICES ASSUME NEW a \in Bufs PROVE Moved(a, 0) BY DEF AllStay
<1>2. \A s \in Threads \ {t} : Owed(s, a)' = Owed(s, a) BY OwedBy
<1>3. /\ IsFiniteSet(Slots(a)')
      /\ Cardinality(Slots(a)') = Cardinality(Slots(a)) + IF a = b THEN 1 ELSE 0
  BY SlotsPush
<1>4. CASE a = b
  <2>1. Owed(t, a)' = Owed(t, a) + (-1) BY <1>4, OwedNat
  <2>2. IsFiniteSet(Shares(a)') /\ Cardinality(Shares(a)') = Cardinality(Shares(a)) + (-1)
    BY <2>1, <1>2, ShareStep
  <2>3. Cardinality(Slots(a)') = Cardinality(Slots(a)) + 1 BY <1>3, <1>4
  <2>4. Moved(a, 1 + (-1)) BY <2>2, <2>3, <1>3, Balance
  <2> QED BY <2>4
<1>5. CASE a # b
  <2>1. Owed(t, a)' = Owed(t, a) + 0 BY <1>5, OwedNat
  <2>2. IsFiniteSet(Shares(a)') /\ Cardinality(Shares(a)') = Cardinality(Shares(a)) + 0
    BY <2>1, <1>2, ShareStep
  <2>3. Cardinality(Slots(a)') = Cardinality(Slots(a)) + 0 BY <1>3, <1>5
  <2>4. Moved(a, 0 + 0) BY <2>2, <2>3, <1>3, Balance
  <2> QED BY <2>4
<1> QED BY <1>4, <1>5

\* From a queue to a thread.
LEMMA Taken ==
    ASSUME TypeOK, TypeOK', Counts, NEW t \in Threads, NEW q \in Queues, queue[q] # <<>>,
           queue' = [queue EXCEPT ![q] = Tail(@)],
           \A s \in Threads \ {t} : hand'[s] = hand[s] /\ pc'[s] = pc[s],
           \A s \in Workers \ {t} : left'[s] = left[s] /\ failed'[s] = failed[s],
           \A a \in Bufs : Owed(t, a)' = Owed(t, a) + IF a = Head(queue[q]) THEN 1 ELSE 0
    PROVE  AllStay
<1> SUFFICES ASSUME NEW a \in Bufs PROVE Moved(a, 0) BY DEF AllStay
<1>2. \A s \in Threads \ {t} : Owed(s, a)' = Owed(s, a) BY OwedBy
<1>3. /\ IsFiniteSet(Slots(a)')
      /\ Cardinality(Slots(a)') = Cardinality(Slots(a)) + IF a = Head(queue[q]) THEN -1 ELSE 0
  BY SlotsPop
<1>4. CASE a = Head(queue[q])
  <2>1. Owed(t, a)' = Owed(t, a) + 1 BY <1>4
  <2>2. IsFiniteSet(Shares(a)') /\ Cardinality(Shares(a)') = Cardinality(Shares(a)) + 1
    BY <2>1, <1>2, ShareStep
  <2>3. Cardinality(Slots(a)') = Cardinality(Slots(a)) + (-1) BY <1>3, <1>4
  <2>4. Moved(a, (-1) + 1) BY <2>2, <2>3, <1>3, Balance
  <2> QED BY <2>4
<1>5. CASE a # Head(queue[q])
  <2>1. Owed(t, a)' = Owed(t, a) + 0 BY <1>5
  <2>2. IsFiniteSet(Shares(a)') /\ Cardinality(Shares(a)') = Cardinality(Shares(a)) + 0
    BY <2>1, <1>2, ShareStep
  <2>3. Cardinality(Slots(a)') = Cardinality(Slots(a)) + 0 BY <1>3, <1>5
  <2>4. Moved(a, 0 + 0) BY <2>2, <2>3, <1>3, Balance
  <2> QED BY <2>4
<1> QED BY <1>4, <1>5

\* A thread fills the buffer it claimed, which nobody held, for n.
LEMMA Filled ==
    ASSUME TypeOK, TypeOK', Counts, queue' = queue, NEW t \in Threads, NEW b \in Bufs, NEW n \in Nat,
           \A s \in Threads \ {t} : hand'[s] = hand[s] /\ pc'[s] = pc[s],
           \A s \in Workers \ {t} : left'[s] = left[s] /\ failed'[s] = failed[s],
           Holders(b) = 0, Owed(t, b)' = n, \A a \in Bufs \ {b} : Owed(t, a)' = Owed(t, a)
    PROVE  Moved(b, n) /\ Holders(b)' = n /\ OthersStay(b)
<1> DEFINE D == [s \in Threads |-> Owed(s, b)']
<1>1. Cardinality(Shares(b)) = 0 /\ Cardinality(Slots(b)) = 0 /\ IsFiniteSet(Slots(b)) BY HoldersNat
<1>2. Shares(b) = {} BY <1>1, HoldersNat, FS_EmptySet
<1>3. \A s \in Threads : Owed(s, b) = 0 BY <1>2, SharesOf, ShareNone
<1>4. \A s \in Threads \ {t} : Owed(s, b)' = 0 BY <1>3, OwedBy
<1>5. D \in Ledger /\ D[t] = n /\ \A s \in Threads \ {t} : D[s] = 0 BY <1>4 DEF Ledger
<1>6. Shares(b)' = SharesIn(D) BY DEF Shares, SharesIn
<1> HIDE DEF D
<1>7. IsFiniteSet(SharesIn(D)) /\ Cardinality(SharesIn(D)) = n BY <1>5, ShareAll
<1>8. IsFiniteSet(Slots(b)') /\ Cardinality(Slots(b)') = 0
  <2>1. IsFiniteSet(Slots(b)') /\ Cardinality(Slots(b)') = Cardinality(Slots(b)) + 0 BY SlotsStay
  <2> QED BY <2>1, <1>1
<1>9. Holders(b)' = 0 + n BY <1>6, <1>7, <1>8 DEF Holders
<1>10. Moved(b, n) /\ Holders(b)' = n BY <1>6, <1>7, <1>8, <1>9 DEF Moved
<1>11. ASSUME NEW a \in Bufs \ {b} PROVE Moved(a, 0)
  <2>1. Owed(t, a)' = Owed(t, a) + 0 BY OwedNat
  <2>2. \A s \in Threads \ {t} : Owed(s, a)' = Owed(s, a) BY OwedBy
  <2>3. IsFiniteSet(Shares(a)') /\ Cardinality(Shares(a)') = Cardinality(Shares(a)) + 0
    BY <2>1, <2>2, ShareStep
  <2>4. IsFiniteSet(Slots(a)') /\ Cardinality(Slots(a)') = Cardinality(Slots(a)) + 0 BY SlotsStay
  <2>5. Moved(a, 0 + 0) BY <2>3, <2>4, Balance
  <2> QED BY <2>5
<1> QED BY <1>10, <1>11 DEF OthersStay

----------------------------------------------------------------------------
(* Where the threads are.                                                  *)

LEMMA HandsStep == ASSUME IInv, [Next]_vars PROVE Hands'
<1> USE DEF IInv
<1>n. /\ Io \in Threads /\ Task \in Threads /\ Workers \subseteq Threads /\ NoBuf \notin Bufs
      /\ Io # Task /\ Io \notin Workers /\ Task \notin Workers
  BY Names
<1>t. PoolTypes /\ QueueTypes /\ PlaceTypes /\ WorkTypes /\ CommandTypes BY AllTypes
<1>h. IoHand /\ TaskHand /\ \A w \in Workers : WorkerHand(w) BY DEF Hands
<1>i. ASSUME pc'[Io] = pc[Io], hand'[Io] = hand[Io] PROVE IoHand' BY <1>h, <1>i DEF IoHand
<1>k. ASSUME pc'[Task] = pc[Task], hand'[Task] = hand[Task] PROVE TaskHand' BY <1>h, <1>k DEF TaskHand
<1>w. ASSUME NEW w \in Workers, pc'[w] = pc[w], hand'[w] = hand[w], left'[w] = left[w], failed'[w] = failed[w]
      PROVE  WorkerHand(w)'
  BY <1>h, <1>w DEF WorkerHand
<1>I. ASSUME IoHand', \A t \in Threads \ {Io} : pc'[t] = pc[t] /\ hand'[t] = hand[t], UNCHANGED <<left, failed>>
      PROVE  Hands'
  BY <1>I, <1>k, <1>w, <1>n DEF Hands
<1>K. ASSUME TaskHand', \A t \in Threads \ {Task} : pc'[t] = pc[t] /\ hand'[t] = hand[t], UNCHANGED <<left, failed>>
      PROVE  Hands'
  BY <1>K, <1>i, <1>w, <1>n DEF Hands
<1>W. ASSUME NEW w \in Workers, WorkerHand(w)', \A t \in Threads \ {w} : pc'[t] = pc[t] /\ hand'[t] = hand[t],
             \A v \in Workers \ {w} : left'[v] = left[v] /\ failed'[v] = failed[v]
      PROVE  Hands'
  BY <1>W, <1>i, <1>k, <1>w, <1>n DEF Hands
<1>1. ASSUME NEW c \in External, Receive(c) PROVE Hands'
  <2>1. IoHand'
    <3>1. CASE free = <<>> BY <1>1, <3>1, <1>t, <1>n, <1>h DEF Receive, IoHand, IoPlaces, Goto, PlaceTypes
    <3>2. CASE free # <<>>
      <4>1. hand'[Io] \in Bufs BY <1>1, <3>2, <1>n, ClaimTypes DEF Receive
      <4>2. pc'[Io] = "fill" BY <1>1, <3>2, <1>n, <1>t DEF Receive, Goto, PlaceTypes
      <4> QED BY <4>1, <4>2 DEF IoHand, IoPlaces
    <3> QED BY <3>1, <3>2
  <2>2. \A t \in Threads \ {Io} : pc'[t] = pc[t] /\ hand'[t] = hand[t]
    BY <1>1, <1>t DEF Receive, Claim, Goto, PlaceTypes
  <2> QED BY <2>1, <2>2, <1>1, <1>I DEF Receive, worker
<1>2. ASSUME RouteFill PROVE Hands'
  <2>1. IoHand' BY <1>2, <1>t, <1>n, <1>h DEF RouteFill, Goto, IoHand, IoPlaces, PlaceTypes
  <2> QED BY <2>1, <1>2, <1>t, <1>I DEF RouteFill, Goto, PlaceTypes, worker
<1>3. ASSUME RoutePush PROVE Hands'
  <2>1. IoHand' BY <1>3, <1>t, <1>n, <1>h DEF RoutePush, Goto, Drop, IoHand, IoPlaces, PlaceTypes
  <2> QED BY <2>1, <1>3, <1>t, <1>I DEF RoutePush, Goto, Drop, PlaceTypes, worker
<1>4. ASSUME RouteRefused PROVE Hands'
  <2>1. IoHand' BY <1>4, <1>t, <1>n, <1>h DEF RouteRefused, Goto, Drop, IoHand, IoPlaces, PlaceTypes
  <2> QED BY <2>1, <1>4, <1>t, <1>I DEF RouteRefused, Goto, Drop, PlaceTypes, worker
<1>5. ASSUME SyncHandle PROVE Hands'
  <2>1. IoHand' BY <1>5, <1>t, <1>n, <1>h DEF SyncHandle, Goto, IoHand, IoPlaces, PlaceTypes
  <2> QED BY <2>1, <1>5, <1>t, <1>I DEF SyncHandle, Goto, PlaceTypes, worker
<1>6. ASSUME PopCompletion PROVE Hands'
  <2>1. Head(queue[Done]) \in Bufs BY <1>6, QueueNames, PopTypes DEF PopCompletion
  <2>2. pc'[Io] = "COMPLETION" /\ hand'[Io] = Head(queue[Done])
    BY <1>6, <1>t, <1>n DEF PopCompletion, Goto, PlaceTypes
  <2>3. IoHand' BY <2>1, <2>2 DEF IoHand, IoPlaces
  <2> QED BY <2>3, <1>6, <1>t, <1>I DEF PopCompletion, Goto, PlaceTypes, worker
<1>7. ASSUME EncodeAck PROVE Hands'
  <2>1. IoHand' BY <1>7, <1>t, <1>n, <1>h DEF EncodeAck, Goto, IoHand, IoPlaces, PlaceTypes
  <2> QED BY <2>1, <1>7, <1>t, <1>I DEF EncodeAck, Goto, PlaceTypes, worker
<1>8. ASSUME Send(Io) PROVE Hands'
  <2>1. IoHand' BY <1>8, <1>t, <1>n, <1>h DEF Send, Goto, IoHand, IoPlaces, PlaceTypes
  <2> QED BY <2>1, <1>8, <1>t, <1>I DEF Send, Goto, PlaceTypes, worker
<1>9. ASSUME Finish(Io) PROVE Hands'
  <2>1. IoHand' BY <1>9, <1>t, <1>n, <1>h DEF Finish, Goto, Drop, IoHand, IoPlaces, PlaceTypes
  <2> QED BY <2>1, <1>9, <1>t, <1>I DEF Finish, Goto, Drop, PlaceTypes, worker
<1>10. ASSUME NextQueue PROVE Hands'
  BY <1>10, <1>h, <1>I, <1>i DEF NextQueue, worker
<1>11. ASSUME Pop PROVE Hands'
  <2>1. Head(queue[Sweep[at]]) \in Bufs BY <1>11, AtQueue, PopTypes DEF Pop
  <2>2. pc'[Task] \in {"handle", "encode"} /\ hand'[Task] = Head(queue[Sweep[at]])
    BY <1>11, <1>t, <1>n DEF Pop, Goto, PlaceTypes
  <2>3. TaskHand' BY <2>1, <2>2 DEF TaskHand, TaskPlaces
  <2> QED BY <2>3, <1>11, <1>t, <1>K DEF Pop, Goto, PlaceTypes, worker
<1>12. ASSUME EncodeTelemetry PROVE Hands'
  <2>1. TaskHand' BY <1>12, <1>t, <1>n, <1>h DEF EncodeTelemetry, Goto, TaskHand, TaskPlaces, PlaceTypes
  <2> QED BY <2>1, <1>12, <1>t, <1>K DEF EncodeTelemetry, Goto, PlaceTypes, worker
<1>13. ASSUME Handle PROVE Hands'
  <2>1. TaskHand' BY <1>13, <1>t, <1>n, <1>h DEF Handle, Goto, TaskHand, TaskPlaces, PlaceTypes
  <2> QED BY <2>1, <1>13, <1>t, <1>K DEF Handle, Goto, PlaceTypes, worker
<1>14. ASSUME HandOver PROVE Hands'
  <2>1. TaskHand' BY <1>14, <1>t, <1>n, <1>h DEF HandOver, Goto, Drop, TaskHand, TaskPlaces, PlaceTypes
  <2> QED BY <2>1, <1>14, <1>t, <1>K DEF HandOver, Goto, Drop, PlaceTypes, worker
<1>15. ASSUME Send(Task) PROVE Hands'
  <2>1. TaskHand' BY <1>15, <1>t, <1>n, <1>h DEF Send, Goto, TaskHand, TaskPlaces, PlaceTypes
  <2> QED BY <2>1, <1>15, <1>t, <1>K DEF Send, Goto, PlaceTypes, worker
<1>16. ASSUME Finish(Task) PROVE Hands'
  <2>1. TaskHand' BY <1>16, <1>t, <1>n, <1>h DEF Finish, Goto, Drop, TaskHand, TaskPlaces, PlaceTypes
  <2> QED BY <2>1, <1>16, <1>t, <1>K DEF Finish, Goto, Drop, PlaceTypes, worker
<1>17. ASSUME NEW w \in Workers, PostFill(w) PROVE Hands'
  <2>1. WorkerHand(w)' BY <1>17, <1>t, <1>n, <1>h DEF PostFill, Goto, WorkerHand, PlaceTypes, worker
  <2> QED BY <2>1, <1>17, <1>t, <1>W DEF PostFill, Goto, PlaceTypes, worker
<1>18. ASSUME NEW w \in Workers, PostPush(w) PROVE Hands'
  <2>1. WorkerHand(w)' BY <1>18, <1>t, <1>n, <1>h DEF PostPush, WorkerHand
  <2> QED BY <2>1, <1>18, <1>t, <1>W DEF PostPush, WorkTypes
<1>19. ASSUME NEW w \in Workers, PostRelease(w) PROVE Hands'
  <2>1. WorkerHand(w)' BY <1>19, <1>t, <1>n, <1>h DEF PostRelease, WorkerHand
  <2> QED BY <2>1, <1>19, <1>t, <1>W DEF PostRelease, WorkTypes
<1>20. ASSUME NEW w \in Workers, PostEnd(w) PROVE Hands'
  <2>1. WorkerHand(w)' BY <1>20, <1>t, <1>n, <1>h DEF PostEnd, Goto, Drop, WorkerHand, PlaceTypes, worker
  <2> QED BY <2>1, <1>20, <1>t, <1>W DEF PostEnd, Goto, Drop, PlaceTypes, worker
<1>21. ASSUME NEW w \in Workers, NEW to \in Recipients(w), Post(w, to) PROVE Hands'
  <2>1. CASE free = <<>> BY <2>1, <1>21, <1>i, <1>k, <1>w DEF Post, Hands
  <2>2. CASE free # <<>>
    <3>1. hand'[w] \in Bufs BY <1>21, <2>2, <1>n, ClaimTypes DEF Post
    <3>2. pc'[w] = "fill" /\ left'[w] = to BY <1>21, <2>2, <1>t, <1>n DEF Post, Goto, PlaceTypes, WorkTypes
    <3>3. failed'[w] = 0 BY <1>21, <1>h DEF Post, WorkerHand
    <3>4. WorkerHand(w)' BY <3>1, <3>2, <3>3, Addressed DEF WorkerHand
    <3> QED BY <3>4, <2>2, <1>21, <1>t, <1>W DEF Post, Claim, Goto, PlaceTypes, WorkTypes
  <2> QED BY <2>1, <2>2
<1>22. ASSUME UNCHANGED vars PROVE Hands'
  BY <1>22, <1>i, <1>k, <1>w DEF vars, worker, Hands
<1> QED
  BY <1>1, <1>2, <1>3, <1>4, <1>5, <1>6, <1>7, <1>8, <1>9, <1>10, <1>11, <1>12, <1>13, <1>14, <1>15,
     <1>16, <1>17, <1>18, <1>19, <1>20, <1>21, <1>22 DEF Next, IoStep, TaskStep, PostStep

----------------------------------------------------------------------------
(* The steps that keep everyone's holders, the fills and the releases.     *)

Quiet ==
  \/ \E c \in External : Receive(c)
  \/ RoutePush \/ SyncHandle \/ PopCompletion \/ EncodeAck \/ Send(Io)
  \/ NextQueue \/ Pop \/ EncodeTelemetry \/ Handle \/ HandOver \/ Send(Task)
  \/ \E w \in Workers : PostPush(w) \/ PostEnd(w) \/ \E to \in Recipients(w) : Post(w, to)
  \/ UNCHANGED vars

Filler(t) == (t = Io /\ RouteFill) \/ (t \in Workers /\ PostFill(t))
Releaser(t) == (t = Io /\ RouteRefused) \/ (t \in {Io, Task} /\ Finish(t)) \/ (t \in Workers /\ PostRelease(t))

LEMMA Steps ==
  [Next]_vars <=> Quiet \/ (\E t \in Threads : Filler(t)) \/ (\E t \in Threads : Releaser(t))
<1>1. Quiet => [Next]_vars BY DEF Quiet, Next, IoStep, TaskStep, PostStep
<1>2. (\E t \in Threads : Filler(t)) => [Next]_vars BY DEF Filler, Next, IoStep, PostStep
<1>3. (\E t \in Threads : Releaser(t)) => [Next]_vars
  BY DEF Releaser, Next, IoStep, TaskStep, PostStep
<1>4. Io \in Threads /\ Task \in Threads /\ Workers \subseteq Threads BY Names
<1>5. RouteFill => Filler(Io) BY DEF Filler
<1>6. \A w \in Workers : PostFill(w) => Filler(w) BY DEF Filler
<1>7. RouteRefused \/ Finish(Io) => Releaser(Io) BY DEF Releaser
<1>8. Finish(Task) => Releaser(Task) BY DEF Releaser
<1>9. \A w \in Workers : PostRelease(w) => Releaser(w) BY DEF Releaser
<1>10. [Next]_vars => Quiet \/ RouteFill \/ RouteRefused \/ Finish(Io) \/ Finish(Task)
                      \/ (\E w \in Workers : PostFill(w) \/ PostRelease(w))
  BY DEF Quiet, Next, IoStep, TaskStep, PostStep
<1> QED BY <1>1, <1>2, <1>3, <1>4, <1>5, <1>6, <1>7, <1>8, <1>9, <1>10

LEMMA QuietStay == ASSUME IInv, TypeOK', Quiet PROVE AllStay
<1> USE DEF IInv
<1>n. /\ Io \in Threads /\ Task \in Threads /\ Workers \subseteq Threads /\ NoBuf \notin Bufs
      /\ Io # Task /\ Io \notin Workers /\ Task \notin Workers
  BY Names
<1>t. PoolTypes /\ QueueTypes /\ PlaceTypes /\ WorkTypes /\ CommandTypes BY AllTypes
<1>h. IoHand /\ TaskHand /\ \A w \in Workers : WorkerHand(w) BY DEF Hands
<1>1. ASSUME NEW c \in External, Receive(c) PROVE AllStay
  <2>1. \A b \in Bufs : Owed(Io, b)' = Owed(Io, b)
    <3>1. hand[Io] = NoBuf /\ pc[Io] = "idle" BY <1>1, <1>h DEF Receive, IoHand
    <3>2. hand'[Io] = NoBuf \/ pc'[Io] = "fill" BY <3>1, <1>1, <1>t, <1>n DEF Receive, Goto, PlaceTypes
    <3> QED BY <3>1, <3>2, <1>n DEF Owed
  <2>2. \A s \in Threads \ {Io} : hand'[s] = hand[s] /\ pc'[s] = pc[s]
    BY <1>1, <1>t DEF Receive, Claim, Goto, PlaceTypes
  <2> QED BY <2>1, <2>2, <1>1, <1>n, Still DEF Receive, worker
<1>2. ASSUME RoutePush PROVE AllStay
  <2>1. cmd \in External /\ hand[Io] \in Bufs BY <1>2 DEF RoutePush, Routing, IoHand, Hands
  <2>2. In(Target[cmd]) \in Queues BY <2>1, CompAssumption, QueueNames
  <2>3. \A s \in Threads \ {Io} : hand'[s] = hand[s] /\ pc'[s] = pc[s]
    BY <1>2, <1>t DEF RoutePush, Drop, Goto, PlaceTypes
  <2>4. CASE HasRoom(In(Target[cmd]))
    <3>1. PICK b \in Bufs : b = hand[Io] BY <2>1
    <3>2. hand'[Io] = NoBuf /\ Push(In(Target[cmd]), b)
      BY <3>1, <1>2, <2>4, <1>t, <1>n DEF RoutePush, Drop, PlaceTypes
    <3>3. Owed(Io, b) = 1 /\ Owed(Io, b)' = 0 /\ \A a \in Bufs \ {b} : Owed(Io, a)' = Owed(Io, a)
      BY <3>1, <3>2, <1>2, <1>n DEF RoutePush, Owed
    <3>5. Owed(Io, b)' = Owed(Io, b) - 1 BY <3>3
    <3> QED BY <3>2, <3>3, <3>5, <2>2, <2>3, <2>4, <1>2, <1>n, Over DEF RoutePush, worker
  <2>5. CASE ~HasRoom(In(Target[cmd]))
    <3>1. hand'[Io] = hand[Io] /\ queue' = queue /\ pc'[Io] = "refuse"
      BY <1>2, <2>5, <1>t, <1>n DEF RoutePush, Goto, PlaceTypes
    <3>2. \A b \in Bufs : Owed(Io, b)' = Owed(Io, b) BY <3>1, <1>2, <1>n DEF RoutePush, Owed
    <3> QED BY <3>1, <3>2, <2>3, <1>2, <1>n, Still DEF RoutePush, worker
  <2> QED BY <2>4, <2>5
<1>3. ASSUME SyncHandle PROVE AllStay
  <2>1. \A s \in Threads \ {Io} : hand'[s] = hand[s] /\ pc'[s] = pc[s]
    BY <1>3, <1>t DEF SyncHandle, Goto, PlaceTypes
  <2>2. hand'[Io] = hand[Io] /\ pc'[Io] # "fill" BY <1>3, <1>t, <1>n DEF SyncHandle, Goto, PlaceTypes
  <2>3. \A b \in Bufs : Owed(Io, b)' = Owed(Io, b) BY <2>2, <1>3, <1>n DEF SyncHandle, Owed
  <2> QED BY <2>1, <2>3, <1>3, <1>n, Still DEF SyncHandle, worker
<1>4. ASSUME PopCompletion PROVE AllStay
  <2>1. Done \in Queues /\ queue[Done] # <<>> /\ queue' = [queue EXCEPT ![Done] = Tail(@)]
    BY <1>4, QueueNames DEF PopCompletion
  <2>2. Head(queue[Done]) \in Bufs BY <2>1, PopTypes
  <2>3. \A s \in Threads \ {Io} : hand'[s] = hand[s] /\ pc'[s] = pc[s]
    BY <1>4, <1>t DEF PopCompletion, Goto, PlaceTypes
  <2>4. hand[Io] = NoBuf /\ hand'[Io] = Head(queue[Done]) /\ pc'[Io] = "COMPLETION"
    BY <1>4, <1>t, <1>n, <1>h DEF PopCompletion, Goto, PlaceTypes, IoHand
  <2>5. \A a \in Bufs : Owed(Io, a)' = Owed(Io, a) + IF a = Head(queue[Done]) THEN 1 ELSE 0
    BY <2>2, <2>4, <1>n DEF Owed
  <2> QED BY <2>1, <2>3, <2>5, <1>4, <1>n, Taken DEF PopCompletion, worker
<1>5. ASSUME EncodeAck PROVE AllStay
  <2>1. \A s \in Threads \ {Io} : hand'[s] = hand[s] /\ pc'[s] = pc[s]
    BY <1>5, <1>t DEF EncodeAck, Goto, PlaceTypes
  <2>2. hand'[Io] = hand[Io] /\ pc'[Io] # "fill" /\ pc[Io] # "fill"
    BY <1>5, <1>t, <1>n DEF EncodeAck, Goto, PlaceTypes, Stages
  <2>3. \A b \in Bufs : Owed(Io, b)' = Owed(Io, b) BY <2>2, <1>n DEF Owed
  <2> QED BY <2>1, <2>3, <1>5, <1>n, Still DEF EncodeAck, worker
<1>6. ASSUME NEW t \in {Io, Task}, Send(t) PROVE AllStay
  <2>1. t \in Threads /\ t \notin Workers BY <1>n
  <2>2. \A s \in Threads \ {t} : hand'[s] = hand[s] /\ pc'[s] = pc[s]
    BY <1>6, <1>t DEF Send, Goto, PlaceTypes
  <2>3. hand'[t] = hand[t] /\ pc'[t] # "fill" /\ pc[t] # "fill"
    BY <1>6, <1>t, <2>1 DEF Send, Goto, PlaceTypes
  <2>4. \A b \in Bufs : Owed(t, b)' = Owed(t, b) BY <2>1, <2>3 DEF Owed
  <2> QED BY <2>1, <2>2, <2>4, <1>6, Still DEF Send, worker
<1>7. ASSUME NextQueue PROVE AllStay
  <2>1. \A b \in Bufs : Owed(Task, b)' = Owed(Task, b) BY <1>7 DEF NextQueue, Owed, worker
  <2> QED BY <2>1, <1>7, <1>n, Still DEF NextQueue, worker
<1>8. ASSUME Pop PROVE AllStay
  <2>1. Sweep[at] \in Queues BY AtQueue
  <2>2. PICK q \in Queues : q = Sweep[at] BY <2>1
  <2>3. queue[q] # <<>> /\ queue' = [queue EXCEPT ![q] = Tail(@)] BY <1>8, <2>2 DEF Pop
  <2>4. Head(queue[q]) \in Bufs BY <2>3, PopTypes
  <2>5. \A s \in Threads \ {Task} : hand'[s] = hand[s] /\ pc'[s] = pc[s]
    BY <1>8, <1>t DEF Pop, Goto, PlaceTypes
  <2>6. hand[Task] = NoBuf /\ hand'[Task] = Head(queue[q]) /\ pc'[Task] # "fill"
    BY <1>8, <1>t, <1>n, <1>h, <2>2 DEF Pop, Goto, PlaceTypes, TaskHand
  <2>7. \A a \in Bufs : Owed(Task, a)' = Owed(Task, a) + IF a = Head(queue[q]) THEN 1 ELSE 0
    BY <2>4, <2>6, <1>n DEF Owed
  <2> QED BY <2>3, <2>5, <2>7, <1>8, <1>n, Taken DEF Pop, worker
<1>9. ASSUME EncodeTelemetry PROVE AllStay
  <2>1. \A s \in Threads \ {Task} : hand'[s] = hand[s] /\ pc'[s] = pc[s]
    BY <1>9, <1>t DEF EncodeTelemetry, Goto, PlaceTypes
  <2>2. hand'[Task] = hand[Task] /\ pc'[Task] # "fill" /\ pc[Task] # "fill"
    BY <1>9, <1>t, <1>n DEF EncodeTelemetry, Goto, PlaceTypes
  <2>3. \A b \in Bufs : Owed(Task, b)' = Owed(Task, b) BY <2>2, <1>n DEF Owed
  <2> QED BY <2>1, <2>3, <1>9, <1>n, Still DEF EncodeTelemetry, worker
<1>10. ASSUME Handle PROVE AllStay
  <2>1. \A s \in Threads \ {Task} : hand'[s] = hand[s] /\ pc'[s] = pc[s]
    BY <1>10, <1>t DEF Handle, Goto, PlaceTypes
  <2>2. hand'[Task] = hand[Task] /\ pc'[Task] # "fill" /\ pc[Task] # "fill"
    BY <1>10, <1>t, <1>n DEF Handle, Goto, PlaceTypes
  <2>3. \A b \in Bufs : Owed(Task, b)' = Owed(Task, b) BY <2>2, <1>n DEF Owed
  <2> QED BY <2>1, <2>3, <1>10, <1>n, Still DEF Handle, worker
<1>11. ASSUME HandOver PROVE AllStay
  <2>1. hand[Task] \in Bufs /\ pc[Task] # "fill" /\ Done \in Queues
    BY <1>11, <1>h, QueueNames DEF HandOver, TaskHand
  <2>2. \A s \in Threads \ {Task} : hand'[s] = hand[s] /\ pc'[s] = pc[s]
    BY <1>11, <1>t DEF HandOver, Drop, Goto, PlaceTypes
  <2>3. CASE HasRoom(Done)
    <3>1. PICK b \in Bufs : b = hand[Task] BY <2>1
    <3>2. hand'[Task] = NoBuf /\ Push(Done, b) BY <3>1, <1>11, <2>3, <1>t, <1>n DEF HandOver, Drop, PlaceTypes
    <3>3. Owed(Task, b) = 1 /\ Owed(Task, b)' = 0 /\ \A a \in Bufs \ {b} : Owed(Task, a)' = Owed(Task, a)
      BY <3>1, <3>2, <2>1, <1>n DEF Owed
    <3>4. Owed(Task, b)' = Owed(Task, b) - 1 BY <3>3
    <3> QED BY <3>2, <3>3, <3>4, <2>1, <2>2, <2>3, <1>11, <1>n, Over DEF HandOver, worker
  <2>4. CASE ~HasRoom(Done)
    <3>1. hand'[Task] = hand[Task] /\ queue' = queue /\ pc'[Task] = "finish"
      BY <1>11, <2>4, <1>t, <1>n DEF HandOver, Goto, PlaceTypes
    <3>2. \A b \in Bufs : Owed(Task, b)' = Owed(Task, b) BY <3>1, <2>1, <1>n DEF Owed
    <3> QED BY <3>1, <3>2, <2>2, <1>11, <1>n, Still DEF HandOver, worker
  <2> QED BY <2>3, <2>4
<1>12. ASSUME NEW w \in Workers, PostPush(w) PROVE AllStay
  <2>1. /\ hand[w] \in Bufs /\ pc[w] = "push" /\ left[w] # <<>> /\ Head(left[w]) \in Queues
        /\ Len(left[w]) \in Nat /\ Len(left[w]) >= 1 /\ failed[w] \in Nat
        /\ Len(Tail(left[w])) = Len(left[w]) - 1
    BY <1>12, <1>h, Recipient DEF PostPush, WorkerHand
  <2>2. left'[w] = Tail(left[w]) /\ \A v \in Workers \ {w} : left'[v] = left[v] /\ failed'[v] = failed[v]
    BY <1>12, <1>t DEF PostPush, WorkTypes
  <2>3. \A s \in Threads : hand'[s] = hand[s] /\ pc'[s] = pc[s] BY <1>12 DEF PostPush
  <2>4. PICK b \in Bufs : b = hand[w] BY <2>1
  <2>5. \A a \in Bufs \ {b} : Owed(w, a)' = Owed(w, a) BY <2>3, <2>4, <1>n DEF Owed
  <2>6. Owed(w, b) = Len(left[w]) + failed[w] /\ Owed(w, b)' = Len(Tail(left[w])) + failed'[w]
    BY <2>1, <2>2, <2>3, <2>4, <1>n DEF Owed
  <2>7. CASE HasRoom(Head(left[w]))
    <3>1. Push(Head(left[w]), b) /\ failed'[w] = failed[w] BY <1>12, <2>4, <2>7 DEF PostPush
    <3>2. Owed(w, b)' = Owed(w, b) - 1 BY <2>1, <2>6, <3>1
    <3> QED BY <3>1, <3>2, <2>1, <2>2, <2>3, <2>5, <2>7, <1>n, Over
  <2>8. CASE ~HasRoom(Head(left[w]))
    <3>1. queue' = queue /\ failed'[w] = failed[w] + 1 BY <1>12, <2>8, <1>t DEF PostPush, WorkTypes
    <3>a. \A m, n \in Nat : (m - 1) + (n + 1) = m + n OBVIOUS
    <3>2. Owed(w, b)' = Owed(w, b)
      <4>1. Owed(w, b)' = (Len(left[w]) - 1) + (failed[w] + 1) BY <2>1, <2>6, <3>1
      <4> QED BY <4>1, <3>a, <2>1, <2>6
    <3>3. \A a \in Bufs : Owed(w, a)' = Owed(w, a) BY <3>2, <2>5
    <3> QED BY <3>1, <3>3, <2>2, <2>3, <1>n, Still
  <2> QED BY <2>7, <2>8
<1>13. ASSUME NEW w \in Workers, PostEnd(w) PROVE AllStay
  <2>1. \A s \in Threads \ {w} : hand'[s] = hand[s] /\ pc'[s] = pc[s]
    BY <1>13, <1>t DEF PostEnd, Drop, Goto, PlaceTypes
  <2>2. hand'[w] = NoBuf BY <1>13, <1>t, <1>n DEF PostEnd, Drop, PlaceTypes
  <2>3. Len(left[w]) = 0 /\ failed[w] = 0 BY <1>13, Recipient DEF PostEnd
  <2>4. \A b \in Bufs : Owed(w, b)' = 0 /\ Owed(w, b) = 0 BY <2>2, <2>3, <1>n DEF Owed
  <2> QED BY <2>1, <2>4, <1>13, <1>n, Still DEF PostEnd, worker
<1>14. ASSUME NEW w \in Workers, NEW to \in Recipients(w), Post(w, to) PROVE AllStay
  <2>1. \A s \in Threads \ {w} : hand'[s] = hand[s] /\ pc'[s] = pc[s]
    BY <1>14, <1>t DEF Post, Claim, Goto, PlaceTypes
  <2>2. \A s \in Workers \ {w} : left'[s] = left[s] /\ failed'[s] = failed[s] BY <1>14, <1>t DEF Post, WorkTypes
  <2>3. hand[w] = NoBuf BY <1>14, <1>h DEF Post, WorkerHand
  <2>4. hand'[w] = NoBuf \/ pc'[w] = "fill" BY <1>14, <1>t, <1>n, <2>3 DEF Post, Goto, PlaceTypes
  <2>5. \A b \in Bufs : Owed(w, b)' = 0 /\ Owed(w, b) = 0 BY <2>3, <2>4, <1>n DEF Owed
  <2> QED BY <2>1, <2>2, <2>5, <1>14, <1>n, Still DEF Post
<1>15. ASSUME UNCHANGED vars PROVE AllStay
  <2>1. \A b \in Bufs : Owed(Task, b)' = Owed(Task, b) BY <1>15 DEF vars, Owed, worker
  <2> QED BY <2>1, <1>15, <1>n, Still DEF vars, worker
<1> QED
  BY <1>1, <1>2, <1>3, <1>4, <1>5, <1>6, <1>7, <1>8, <1>9, <1>10, <1>11, <1>12, <1>13, <1>14, <1>15 DEF Quiet

\* A fill sets the count to the number of its recipients.
LEMMA FillMoves ==
    ASSUME IInv, TypeOK', NEW t \in Threads, Filler(t)
    PROVE  /\ hand[t] \in Bufs /\ pc[t] = "fill" /\ Holders(hand[t]) = 0
           /\ \E b \in Bufs, n \in Nat \ {0}, m \in External \cup {Internal} :
                /\ b = hand[t] /\ Holders(b)' = n /\ Moved(b, n) /\ OthersStay(b)
                /\ Fill(t, m, n) /\ m = (IF t = Io THEN cmd ELSE Internal) /\ (t = Io => n = 1)
<1> USE DEF IInv
<1>n. /\ Io \in Threads /\ Workers \subseteq Threads /\ Io \notin Workers BY Names
<1>t. PoolTypes /\ QueueTypes /\ PlaceTypes /\ WorkTypes /\ CommandTypes BY AllTypes
<1>h. IoHand /\ TaskHand /\ \A w \in Workers : WorkerHand(w) BY DEF Hands
<1>1. hand[t] \in Bufs /\ pc[t] = "fill"
  BY <1>h DEF Filler, RouteFill, PostFill, IoHand, WorkerHand
<1>2. Holders(hand[t]) = 0 BY <1>1 DEF Pool, Filling, Idle
<1>3. PICK b \in Bufs : b = hand[t] BY <1>1
<1>4. /\ \A s \in Threads \ {t} : hand'[s] = hand[s] /\ pc'[s] = pc[s]
      /\ \A s \in Workers \ {t} : left'[s] = left[s] /\ failed'[s] = failed[s]
      /\ queue' = queue /\ pc'[t] = "push" /\ hand'[t] = hand[t]
  BY <1>t, <1>n DEF Filler, RouteFill, PostFill, Goto, PlaceTypes, worker
<1>5. \A a \in Bufs \ {b} : Owed(t, a)' = Owed(t, a) BY <1>3, <1>4 DEF Owed
<1>6. CASE t = Io /\ RouteFill
  <2>1. Owed(t, b)' = 1 BY <1>3, <1>4, <1>6, <1>n DEF Owed
  <2>2. Moved(b, 1) /\ Holders(b)' = 1 /\ OthersStay(b) BY <2>1, <1>2, <1>3, <1>4, <1>5, Filled
  <2>3. Fill(t, cmd, 1) /\ cmd \in External \cup {Internal} BY <1>6, <1>t DEF RouteFill, CommandTypes
  <2> QED BY <2>2, <2>3, <1>1, <1>2, <1>3, <1>6
<1>7. CASE t \in Workers /\ PostFill(t)
  <2>1. left[t] # <<>> /\ failed[t] = 0 BY <1>7, <1>h, <1>1 DEF WorkerHand
  <2>2. Len(left[t]) \in Nat /\ Len(left[t]) >= 1 BY <2>1, <1>7, Recipient
  <2>3. PICK n \in Nat \ {0} : n = Len(left[t]) BY <2>2
  <2>4. left'[t] = left[t] /\ failed'[t] = failed[t] BY <1>7 DEF PostFill, worker
  <2>5. Owed(t, b)' = Len(left[t]) + 0 BY <1>3, <1>4, <1>7, <2>1, <2>4 DEF Owed
  <2>6. Owed(t, b)' = n BY <2>2, <2>3, <2>5
  <2>7. Moved(b, n) /\ Holders(b)' = n /\ OthersStay(b) BY <2>6, <1>2, <1>3, <1>4, <1>5, Filled
  <2>8. Fill(t, Internal, n) BY <1>7, <2>3 DEF PostFill, RefCount
  <2> QED BY <2>3, <2>7, <2>8, <1>1, <1>2, <1>3, <1>7, <1>n
<1> QED BY <1>6, <1>7 DEF Filler

\* A release takes one of the holders away.
LEMMA ReleaseMoves ==
    ASSUME IInv, TypeOK', NEW t \in Threads, Releaser(t)
    PROVE  /\ hand[t] \in Bufs /\ pc[t] # "fill" /\ Owed(t, hand[t]) > 0 /\ Live(hand[t])
           /\ \E b \in Bufs : b = hand[t] /\ Moved(b, -1) /\ OthersStay(b) /\ Release(b)
<1> USE DEF IInv
<1>n. /\ Io \in Threads /\ Task \in Threads /\ Workers \subseteq Threads /\ NoBuf \notin Bufs
      /\ Io # Task /\ Io \notin Workers /\ Task \notin Workers
  BY Names
<1>t. PoolTypes /\ QueueTypes /\ PlaceTypes /\ WorkTypes /\ CommandTypes BY AllTypes
<1>h. IoHand /\ TaskHand /\ \A w \in Workers : WorkerHand(w) BY DEF Hands
<1>1. CASE t \in {Io, Task} /\ t \notin Workers
  <2>1. hand[t] \in Bufs /\ pc[t] # "fill" /\ Release(hand[t]) /\ Drop(t)
    BY <1>1, <1>h DEF Releaser, RouteRefused, Finish, IoHand, TaskHand
  <2>2. PICK b \in Bufs : b = hand[t] BY <2>1
  <2>3. /\ \A s \in Threads \ {t} : hand'[s] = hand[s] /\ pc'[s] = pc[s]
        /\ \A s \in Workers \ {t} : left'[s] = left[s] /\ failed'[s] = failed[s]
        /\ queue' = queue /\ hand'[t] = NoBuf
    BY <1>1, <1>t DEF Releaser, RouteRefused, Finish, Drop, Goto, PlaceTypes, worker
  <2>4. Owed(t, b) = 1 /\ Owed(t, b)' = 0 /\ \A a \in Bufs \ {b} : Owed(t, a)' = Owed(t, a)
    BY <1>1, <2>1, <2>2, <2>3, <1>n DEF Owed
  <2>5. Owed(t, b)' = Owed(t, b) - 1 BY <2>4
  <2>6. Moved(b, -1) /\ OthersStay(b) BY <2>3, <2>4, <2>5, Less
  <2>7. Owed(t, b) > 0 BY <2>4
  <2>8. Live(b) BY <2>7, OwedLive
  <2> QED BY <2>1, <2>2, <2>6, <2>7, <2>8
<1>2. CASE t \in Workers
  <2>1. PostRelease(t) BY <1>2, <1>n DEF Releaser
  <2>2. /\ hand[t] \in Bufs /\ pc[t] = "push" /\ Release(hand[t]) /\ Len(left[t]) = 0
        /\ failed[t] \in Nat /\ failed[t] > 0
    BY <1>2, <2>1, <1>h, Recipient DEF PostRelease, WorkerHand
  <2>3. PICK b \in Bufs : b = hand[t] BY <2>2
  <2>4. /\ \A s \in Threads : hand'[s] = hand[s] /\ pc'[s] = pc[s]
        /\ \A s \in Workers \ {t} : left'[s] = left[s] /\ failed'[s] = failed[s]
        /\ queue' = queue /\ left'[t] = left[t] /\ failed'[t] = failed[t] - 1
    BY <1>2, <2>1, <1>t DEF PostRelease, WorkTypes
  <2>5. \A a \in Bufs \ {b} : Owed(t, a)' = Owed(t, a) BY <2>3, <2>4 DEF Owed
  <2>6. Owed(t, b) = Len(left[t]) + failed[t] /\ Owed(t, b)' = Len(left[t]) + (failed[t] - 1)
    BY <1>2, <2>2, <2>3, <2>4 DEF Owed
  <2>7. Owed(t, b)' = Owed(t, b) - 1 /\ Owed(t, b) > 0 BY <2>2, <2>6
  <2>8. Moved(b, -1) /\ OthersStay(b) BY <2>4, <2>5, <2>7, Less
  <2>9. Live(b) BY <2>7, OwedLive
  <2> QED BY <2>2, <2>3, <2>7, <2>8, <2>9
<1> QED BY <1>1, <1>2, <1>n DEF Releaser

----------------------------------------------------------------------------
(* The counts and the pool.                                                *)

LEMMA QuietKeeps == ASSUME Quiet PROVE refs' = refs /\ msg' = msg
  BY DEF Quiet, Receive, RoutePush, SyncHandle, PopCompletion, EncodeAck, Send, NextQueue, Pop,
         EncodeTelemetry, Handle, HandOver, PostPush, PostEnd, Post, vars

LEMMA CountsStep == ASSUME IInv, TypeOK', [Next]_vars PROVE Counts'
<1> USE DEF IInv
<1> SUFFICES ASSUME NEW b \in Bufs
             PROVE  /\ IsFiniteSet(Slots(b)') /\ IsFiniteSet(Shares(b)')
                    /\ Holders(b)' > 0 => refs'[b] = Holders(b)'
  BY DEF Counts, Live
<1>0. Holders(b) \in Nat /\ (Holders(b) > 0 => refs[b] = Holders(b)) /\ refs[b] \in Nat
  BY HoldersNat DEF Counts, Live, TypeOK
<1>1. CASE Quiet
  <2>1. Moved(b, 0) BY <1>1, QuietStay DEF AllStay
  <2> QED BY <2>1, <1>0, <1>1, QuietKeeps DEF Moved
<1>2. ASSUME NEW t \in Threads, Filler(t)
      PROVE  IsFiniteSet(Slots(b)') /\ IsFiniteSet(Shares(b)') /\ (Holders(b)' > 0 => refs'[b] = Holders(b)')
  <2>1. PICK a \in Bufs, n \in Nat \ {0}, m \in External \cup {Internal} :
               /\ a = hand[t] /\ Holders(a)' = n /\ Moved(a, n) /\ OthersStay(a) /\ Fill(t, m, n)
    BY <1>2, FillMoves
  <2>2. refs' = [refs EXCEPT ![a] = n] BY <2>1 DEF Fill
  <2>3. CASE b = a BY <2>1, <2>2, <2>3 DEF Moved, TypeOK
  <2>4. CASE b # a
    <3>1. Moved(b, 0) BY <2>1, <2>4 DEF OthersStay
    <3>2. refs'[b] = refs[b] BY <2>2, <2>4 DEF TypeOK
    <3> QED BY <3>1, <3>2, <1>0 DEF Moved
  <2> QED BY <2>3, <2>4
<1>3. ASSUME NEW t \in Threads, Releaser(t)
      PROVE  IsFiniteSet(Slots(b)') /\ IsFiniteSet(Shares(b)') /\ (Holders(b)' > 0 => refs'[b] = Holders(b)')
  <2>1. PICK a \in Bufs : a = hand[t] /\ Moved(a, -1) /\ OthersStay(a) /\ Release(a) /\ Live(a)
    BY <1>3, ReleaseMoves
  <2>2. refs' = [refs EXCEPT ![a] = IF refs[a] = 1 THEN 1 ELSE refs[a] - 1] BY <2>1 DEF Release, LastRef, TypeOK
  <2>3. CASE b = a
    <3>1. refs[b] = Holders(b) BY <2>1, <2>3 DEF Counts
    <3>2. Holders(b)' = Holders(b) + (-1) BY <2>1, <2>3 DEF Moved
    <3>3. refs'[b] = IF refs[b] = 1 THEN 1 ELSE refs[b] - 1 BY <2>2, <2>3 DEF TypeOK
    <3>4. Holders(b)' > 0 => refs'[b] = Holders(b)' BY <3>1, <3>2, <3>3, <1>0
    <3> QED BY <3>4, <2>1, <2>3 DEF Moved
  <2>4. CASE b # a
    <3>1. Moved(b, 0) BY <2>1, <2>4 DEF OthersStay
    <3>2. refs'[b] = refs[b] BY <2>2, <2>4 DEF TypeOK
    <3> QED BY <3>1, <3>2, <1>0 DEF Moved
  <2> QED BY <2>3, <2>4
<1> QED BY <1>1, <1>2, <1>3, Steps

Claims(t) ==
  /\ pc[t] # "fill" /\ pc'[t] = "fill" /\ Claim(t) /\ hand'[t] = Head(free) /\ free # <<>>
  /\ \A s \in Threads \ {t} : pc'[s] = pc[s] /\ hand'[s] = hand[s]
FillsStay == \A t \in Threads : pc'[t] = "fill" => pc[t] = "fill" /\ hand'[t] = hand[t]

LEMMA QuietPool ==
    ASSUME IInv, Quiet
    PROVE  (free' = free /\ FillsStay) \/ \E t \in Threads : Claims(t)
<1> USE DEF IInv
<1>n. /\ Io \in Threads /\ Task \in Threads /\ Workers \subseteq Threads BY Names
<1>t. PoolTypes /\ QueueTypes /\ PlaceTypes /\ WorkTypes /\ CommandTypes BY AllTypes
<1>1. ASSUME NEW c \in External, Receive(c)
      PROVE  (free' = free /\ FillsStay) \/ \E t \in Threads : Claims(t)
  <2>1. CASE free = <<>>
    BY <1>1, <2>1, <1>t, <1>n DEF Receive, FillsStay, Goto, PlaceTypes, pool
  <2>2. CASE free # <<>>
    <3>1. Claims(Io) BY <1>1, <2>2, <1>t, <1>n DEF Receive, Claims, Claim, Goto, PlaceTypes
    <3> QED BY <3>1, <1>n
  <2> QED BY <2>1, <2>2
<1>2. ASSUME NEW w \in Workers, NEW to \in Recipients(w), Post(w, to)
      PROVE  (free' = free /\ FillsStay) \/ \E t \in Threads : Claims(t)
  <2>1. CASE free = <<>>
    BY <1>2, <2>1 DEF Post, FillsStay, pool
  <2>2. CASE free # <<>>
    <3>1. Claims(w) BY <1>2, <2>2, <1>t, <1>n DEF Post, Claims, Claim, Goto, PlaceTypes
    <3> QED BY <3>1, <1>n
  <2> QED BY <2>1, <2>2
<1>3. ASSUME RoutePush PROVE free' = free /\ FillsStay
  BY <1>3, <1>t, <1>n DEF RoutePush, FillsStay, Drop, Goto, PlaceTypes, pool
<1>4. ASSUME SyncHandle PROVE free' = free /\ FillsStay
  BY <1>4, <1>t, <1>n DEF SyncHandle, FillsStay, Goto, PlaceTypes, pool
<1>5. ASSUME PopCompletion PROVE free' = free /\ FillsStay
  BY <1>5, <1>t, <1>n DEF PopCompletion, FillsStay, Goto, PlaceTypes, pool
<1>6. ASSUME EncodeAck PROVE free' = free /\ FillsStay
  BY <1>6, <1>t, <1>n DEF EncodeAck, FillsStay, Goto, PlaceTypes, pool
<1>7. ASSUME NEW t \in {Io, Task}, Send(t) PROVE free' = free /\ FillsStay
  BY <1>7, <1>t, <1>n DEF Send, FillsStay, Goto, PlaceTypes, pool
<1>8. ASSUME Pop PROVE free' = free /\ FillsStay
  BY <1>8, <1>t, <1>n DEF Pop, FillsStay, Goto, PlaceTypes, pool
<1>9. ASSUME EncodeTelemetry PROVE free' = free /\ FillsStay
  BY <1>9, <1>t, <1>n DEF EncodeTelemetry, FillsStay, Goto, PlaceTypes, pool
<1>10. ASSUME Handle PROVE free' = free /\ FillsStay
  BY <1>10, <1>t, <1>n DEF Handle, FillsStay, Goto, PlaceTypes, pool
<1>11. ASSUME HandOver PROVE free' = free /\ FillsStay
  BY <1>11, <1>t, <1>n DEF HandOver, FillsStay, Drop, Goto, PlaceTypes, pool
<1>12. ASSUME NEW w \in Workers, PostEnd(w) PROVE free' = free /\ FillsStay
  BY <1>12, <1>t, <1>n DEF PostEnd, FillsStay, Drop, Goto, PlaceTypes, pool
<1>13. ASSUME NextQueue \/ (\E w \in Workers : PostPush(w)) \/ UNCHANGED vars PROVE free' = free /\ FillsStay
  BY <1>13 DEF NextQueue, PostPush, vars, FillsStay, pool
<1> QED
  BY <1>1, <1>2, <1>3, <1>4, <1>5, <1>6, <1>7, <1>8, <1>9, <1>10, <1>11, <1>12, <1>13 DEF Quiet

LEMMA PoolStep == ASSUME IInv, TypeOK', [Next]_vars PROVE Pool'
<1> USE DEF IInv
<1>t. PoolTypes /\ QueueTypes /\ PlaceTypes /\ WorkTypes /\ CommandTypes BY AllTypes
<1>n. /\ Io \in Threads /\ Task \in Threads /\ Workers \subseteq Threads BY Names
<1>0. /\ free \in Seq(Bufs) /\ DOMAIN free = 1 .. Len(free) /\ Len(free) \in Nat
      /\ \A i \in 1 .. Len(free) : free[i] \in Bufs
  BY <1>t, SeqFacts DEF PoolTypes
<1>h. \A t \in Threads : pc[t] = "fill" => hand[t] \in Bufs
  BY Names DEF Hands, IoHand, TaskHand, WorkerHand, TaskPlaces
<1>p. /\ \A i \in 1 .. Len(free) : Holders(free[i]) = 0
      /\ \A i, j \in 1 .. Len(free) : free[i] = free[j] => i = j
      /\ \A t \in Threads : pc[t] = "fill" => Holders(hand[t]) = 0 /\ \A i \in 1 .. Len(free) : free[i] # hand[t]
      /\ \A t, s \in Threads : pc[t] = "fill" /\ pc[s] = "fill" /\ hand[t] = hand[s] => t = s
  BY <1>0, <1>h DEF Pool, Filling, Idle
<1>I. \A b \in Bufs : b \in Idle' <=> Holders(b)' = 0 BY DEF Idle
<1>1. ASSUME Quiet, free' = free, FillsStay PROVE Pool'
  <2>1. \A b \in Bufs : Holders(b)' = 0 <=> Holders(b) = 0
    <3>1. \A b \in Bufs : Holders(b)' = Holders(b) + 0 BY <1>1, QuietStay DEF AllStay, Moved
    <3> QED BY <3>1, HoldersNat
  <2>2. \A i \in DOMAIN free' : free'[i] \in Idle'
    <3> SUFFICES ASSUME NEW i \in 1 .. Len(free) PROVE free'[i] \in Idle' BY <1>1, <1>0
    <3>1. PICK b \in Bufs : b = free[i] BY <1>0
    <3>2. Holders(b)' = 0 BY <2>1, <3>1, <1>p
    <3>3. free'[i] = b BY <1>1, <3>1
    <3> QED BY <3>2, <3>3, <1>I
  <2>3. \A t \in Threads : Filling(t)' => hand'[t] \in Idle' /\ \A i \in DOMAIN free' : free'[i] # hand'[t]
    <3> SUFFICES ASSUME NEW t \in Threads, pc'[t] = "fill"
                 PROVE  hand'[t] \in Idle' /\ \A i \in DOMAIN free' : free'[i] # hand'[t]
      BY DEF Filling
    <3>1. pc[t] = "fill" /\ hand'[t] = hand[t] BY <1>1 DEF FillsStay
    <3>2. PICK b \in Bufs : b = hand[t] BY <3>1, <1>h
    <3>3. Holders(b)' = 0 BY <2>1, <3>1, <3>2, <1>p
    <3>4. hand'[t] = b BY <3>1, <3>2
    <3> QED BY <3>1, <3>2, <3>3, <3>4, <1>1, <1>p, <1>0, <1>I
  <2>4. \A t, s \in Threads : Filling(t)' /\ Filling(s)' /\ hand'[t] = hand'[s] => t = s
    BY <1>1, <1>p DEF FillsStay, Filling
  <2>5. \A i, j \in DOMAIN free' : free'[i] = free'[j] => i = j BY <1>1, <1>0, <1>p
  <2> QED BY <2>2, <2>3, <2>4, <2>5 DEF Pool
<1>2. ASSUME Quiet, NEW t \in Threads, Claims(t) PROVE Pool'
  <2>1. \A b \in Bufs : Holders(b)' = 0 <=> Holders(b) = 0
    <3>1. \A b \in Bufs : Holders(b)' = Holders(b) + 0 BY <1>2, QuietStay DEF AllStay, Moved
    <3> QED BY <3>1, HoldersNat
  <2>2. free # <<>> /\ free' = Tail(free) /\ hand'[t] = Head(free) BY <1>2 DEF Claims, Claim
  <2>a. /\ Head(free) = free[1] /\ Len(free) >= 1 /\ Tail(free) \in Seq(Bufs)
        /\ Len(Tail(free)) = Len(free) - 1 /\ \A i \in 1 .. Len(free) - 1 : Tail(free)[i] = free[i + 1]
    BY <2>2, <1>0, SeqFacts
  <2>b. DOMAIN Tail(free) = 1 .. Len(free) - 1 BY <2>a, SeqFacts
  <2>3. /\ hand'[t] = free[1] /\ 1 \in 1 .. Len(free)
        /\ \A i \in DOMAIN free' : i + 1 \in 1 .. Len(free) /\ i + 1 # 1 /\ free'[i] = free[i + 1]
    BY <2>2, <2>a, <2>b, <1>0
  <2>4. \A i \in DOMAIN free' : free'[i] \in Idle'
    <3> SUFFICES ASSUME NEW i \in DOMAIN free' PROVE free'[i] \in Idle' OBVIOUS
    <3>1. PICK b \in Bufs : b = free[i + 1] BY <2>3, <1>0
    <3>2. Holders(b)' = 0 BY <2>1, <2>3, <3>1, <1>p
    <3>3. free'[i] = b BY <2>3, <3>1
    <3> QED BY <3>2, <3>3, <1>I
  <2>5. \A i, j \in DOMAIN free' : free'[i] = free'[j] => i = j
    <3> SUFFICES ASSUME NEW i \in DOMAIN free', NEW j \in DOMAIN free', free'[i] = free'[j] PROVE i = j
      OBVIOUS
    <3>1. i + 1 = j + 1 BY <2>3, <1>p
    <3>2. i \in Int /\ j \in Int BY <2>2, <2>b, <1>0
    <3> QED BY <3>1, <3>2
  <2>6. \A s \in Threads : Filling(s)' => hand'[s] \in Idle' /\ \A i \in DOMAIN free' : free'[i] # hand'[s]
    <3> SUFFICES ASSUME NEW s \in Threads, pc'[s] = "fill"
                 PROVE  hand'[s] \in Idle' /\ \A i \in DOMAIN free' : free'[i] # hand'[s]
      BY DEF Filling
    <3>1. CASE s = t
      <4>1. PICK b \in Bufs : b = free[1] BY <2>3, <1>0
      <4>2. Holders(b)' = 0 /\ hand'[s] = b BY <2>1, <2>3, <3>1, <4>1, <1>p
      <4>3. \A i \in DOMAIN free' : free'[i] # b BY <2>3, <4>1, <1>p
      <4> QED BY <4>2, <4>3, <1>I
    <3>2. CASE s # t
      <4>1. pc[s] = "fill" /\ hand'[s] = hand[s] BY <1>2, <3>2 DEF Claims
      <4>2. PICK b \in Bufs : b = hand[s] BY <4>1, <1>h
      <4>3. Holders(b)' = 0 /\ hand'[s] = b BY <2>1, <4>1, <4>2, <1>p
      <4>4. \A i \in DOMAIN free' : free'[i] # b BY <2>3, <4>1, <4>2, <1>p
      <4> QED BY <4>3, <4>4, <1>I
    <3> QED BY <3>1, <3>2
  <2>7. \A r, s \in Threads : Filling(r)' /\ Filling(s)' /\ hand'[r] = hand'[s] => r = s
    <3> SUFFICES ASSUME NEW r \in Threads, NEW s \in Threads, pc'[r] = "fill", pc'[s] = "fill",
                        hand'[r] = hand'[s]
                 PROVE  r = s
      BY DEF Filling
    <3>1. \A x \in Threads \ {t} : pc'[x] = "fill" => pc[x] = "fill" /\ hand'[x] = hand[x] /\ hand[x] # free[1]
      BY <1>2, <2>3, <1>p DEF Claims
    <3>2. CASE r = t \/ s = t BY <3>1, <3>2, <2>3
    <3>3. CASE r # t /\ s # t BY <3>1, <3>3, <1>p
    <3> QED BY <3>2, <3>3, <1>I
  <2> QED BY <2>4, <2>5, <2>6, <2>7 DEF Pool
<1>3. ASSUME NEW t \in Threads, Filler(t) PROVE Pool'
  <2>1. PICK a \in Bufs, n \in Nat \ {0}, m \in External \cup {Internal} :
               a = hand[t] /\ pc[t] = "fill" /\ OthersStay(a) /\ Fill(t, m, n)
    BY <1>3, FillMoves
  <2>2. free' = free BY <2>1 DEF Fill
  <2>3. \A s \in Threads : pc'[s] = "fill" => s # t /\ pc[s] = "fill" /\ hand'[s] = hand[s]
    BY <1>3, <1>t, <1>n DEF Filler, RouteFill, PostFill, Goto, PlaceTypes
  <2>4. \A b \in Bufs \ {a} : Holders(b)' = 0 <=> Holders(b) = 0
    <3>1. \A b \in Bufs \ {a} : Holders(b)' = Holders(b) + 0 BY <2>1 DEF OthersStay, Moved
    <3> QED BY <3>1, HoldersNat
  <2>5. \A i \in DOMAIN free' : free'[i] \in Idle'
    <3> SUFFICES ASSUME NEW i \in 1 .. Len(free) PROVE free'[i] \in Idle' BY <2>2, <1>0
    <3>1. PICK b \in Bufs : b = free[i] BY <1>0
    <3>2. b # a BY <3>1, <2>1, <1>p
    <3>3. Holders(b)' = 0 BY <2>4, <3>1, <3>2, <1>p
    <3>4. free'[i] = b BY <2>2, <3>1
    <3> QED BY <3>3, <3>4, <1>I
  <2>6. \A s \in Threads : Filling(s)' => hand'[s] \in Idle' /\ \A i \in DOMAIN free' : free'[i] # hand'[s]
    <3> SUFFICES ASSUME NEW s \in Threads, pc'[s] = "fill"
                 PROVE  hand'[s] \in Idle' /\ \A i \in DOMAIN free' : free'[i] # hand'[s]
      BY DEF Filling
    <3>1. s # t /\ pc[s] = "fill" /\ hand'[s] = hand[s] BY <2>3
    <3>2. PICK b \in Bufs : b = hand[s] BY <3>1, <1>h
    <3>3. b # a BY <3>1, <3>2, <2>1, <1>p
    <3>4. Holders(b)' = 0 /\ hand'[s] = b BY <2>4, <3>1, <3>2, <3>3, <1>p
    <3> QED BY <3>1, <3>2, <3>4, <2>2, <1>p, <1>0, <1>I
  <2>7. \A r, s \in Threads : Filling(r)' /\ Filling(s)' /\ hand'[r] = hand'[s] => r = s
    BY <2>3, <1>p DEF Filling
  <2>8. \A i, j \in DOMAIN free' : free'[i] = free'[j] => i = j BY <2>2, <1>0, <1>p
  <2> QED BY <2>5, <2>6, <2>7, <2>8 DEF Pool
<1>4. ASSUME NEW t \in Threads, Releaser(t) PROVE Pool'
  <2>1. PICK a \in Bufs : a = hand[t] /\ Moved(a, -1) /\ OthersStay(a) /\ Release(a) /\ Live(a) /\ pc[t] # "fill"
    BY <1>4, ReleaseMoves
  <2>2. \A b \in Bufs \ {a} : Holders(b)' = 0 <=> Holders(b) = 0
    <3>1. \A b \in Bufs \ {a} : Holders(b)' = Holders(b) + 0 BY <2>1 DEF OthersStay, Moved
    <3> QED BY <3>1, HoldersNat
  <2>3. \A s \in Threads : pc'[s] = "fill" => s # t /\ pc[s] = "fill" /\ hand'[s] = hand[s]
    BY <1>4, <2>1, <1>t, <1>n DEF Releaser, RouteRefused, Finish, PostRelease, Drop, Goto, PlaceTypes
  <2>4. /\ \A i \in 1 .. Len(free) : free[i] # a
        /\ \A s \in Threads : pc[s] = "fill" => hand[s] # a
    BY <2>1, <1>p, HoldersNat
  <2>5. ASSUME free' = free \/ (free' = Append(free, a) /\ Holders(a)' = 0) PROVE Pool'
    <3>1. /\ DOMAIN free' \subseteq 1 .. Len(free) + 1 /\ (Len(free) + 1 \in DOMAIN free' => Holders(a)' = 0)
          /\ \A i \in DOMAIN free' : (i \in 1 .. Len(free) /\ free'[i] = free[i]) \/ (i = Len(free) + 1 /\ free'[i] = a)
      <4>1. CASE free' = free BY <4>1, <1>0
      <4>2. CASE free' = Append(free, a) /\ Holders(a)' = 0
        <5>1. /\ Append(free, a) \in Seq(Bufs) /\ Len(Append(free, a)) = Len(free) + 1
              /\ \A i \in 1 .. Len(free) : Append(free, a)[i] = free[i]
              /\ Append(free, a)[Len(free) + 1] = a
          BY <1>0, SeqFacts
        <5>2. DOMAIN Append(free, a) = 1 .. Len(free) + 1 BY <5>1, SeqFacts
        <5> QED BY <4>2, <5>1, <5>2, <1>0
      <4> QED BY <2>5, <4>1, <4>2
    <3>2. \A i \in DOMAIN free' : free'[i] \in Idle'
      <4> SUFFICES ASSUME NEW i \in DOMAIN free' PROVE free'[i] \in Idle' OBVIOUS
      <4>1. CASE i \in 1 .. Len(free) /\ free'[i] = free[i]
        <5>1. PICK b \in Bufs : b = free[i] BY <4>1, <1>0
        <5>2. Holders(b)' = 0 /\ free'[i] = b BY <2>2, <2>4, <4>1, <5>1, <1>p
        <5> QED BY <5>2, <1>I
      <4>2. CASE i = Len(free) + 1 /\ free'[i] = a
        <5>1. Holders(a)' = 0 /\ free'[i] = a BY <3>1, <4>2
        <5> QED BY <5>1, <1>I
      <4> QED BY <3>1, <4>1, <4>2
    <3>3. \A i, j \in DOMAIN free' : free'[i] = free'[j] => i = j BY <3>1, <2>4, <1>p
    <3>4. \A s \in Threads : Filling(s)' => hand'[s] \in Idle' /\ \A i \in DOMAIN free' : free'[i] # hand'[s]
      <4> SUFFICES ASSUME NEW s \in Threads, pc'[s] = "fill"
                   PROVE  hand'[s] \in Idle' /\ \A i \in DOMAIN free' : free'[i] # hand'[s]
        BY DEF Filling
      <4>1. s # t /\ pc[s] = "fill" /\ hand'[s] = hand[s] BY <2>3
      <4>2. PICK b \in Bufs : b = hand[s] BY <4>1, <1>h
      <4>3. Holders(b)' = 0 /\ hand'[s] = b /\ b # a BY <2>2, <2>4, <4>1, <4>2, <1>p
      <4>4. \A i \in DOMAIN free' : free'[i] # b BY <3>1, <4>1, <4>2, <4>3, <1>p
      <4> QED BY <4>3, <4>4, <1>I
    <3>5. \A r, s \in Threads : Filling(r)' /\ Filling(s)' /\ hand'[r] = hand'[s] => r = s
      BY <2>3, <1>p DEF Filling
    <3> QED BY <3>2, <3>3, <3>4, <3>5 DEF Pool
  <2>6. free' = free \/ (free' = Append(free, a) /\ Holders(a)' = 0)
    <3>1. CASE ~(LastRef(a) /\ ~CellTaken) BY <2>1, <3>1 DEF Release
    <3>2. CASE LastRef(a) /\ ~CellTaken
      <4>1. free' = Append(free, a) BY <2>1, <3>2 DEF Release
      <4>2. Holders(a) = 1 BY <2>1, <3>2 DEF LastRef, Counts
      <4>3. Holders(a)' = 0
        <5>1. Holders(a)' = Holders(a) + (-1) BY <2>1 DEF Moved
        <5> QED BY <5>1, <4>2
      <4> QED BY <4>1, <4>3
    <3> QED BY <3>1, <3>2
  <2> QED BY <2>5, <2>6
<1> QED BY <1>1, <1>2, <1>3, <1>4, QuietPool, Steps

----------------------------------------------------------------------------
(* What carries a command.                                                 *)

\* Who is live after a step, and what a live buffer carries.
LEMMA LiveQuiet == ASSUME IInv, TypeOK', Quiet PROVE \A b \in Bufs : Live(b)' <=> Live(b)
<1>1. \A b \in Bufs : Holders(b)' = Holders(b) + 0 BY QuietStay DEF AllStay, Moved
<1> QED BY <1>1, HoldersNat DEF Live, IInv

LEMMA LiveFilled ==
    ASSUME IInv, TypeOK', NEW t \in Threads, Filler(t)
    PROVE  \E a \in Bufs : /\ a = hand[t] /\ pc[t] = "fill" /\ ~Live(a) /\ Live(a)'
                           /\ \A b \in Bufs \ {a} : (Live(b)' <=> Live(b)) /\ msg'[b] = msg[b] /\ refs'[b] = refs[b]
                           /\ msg'[a] = (IF t = Io THEN cmd ELSE Internal) /\ (t = Io => refs'[a] = 1)
<1>1. PICK a \in Bufs, n \in Nat \ {0}, m \in External \cup {Internal} :
             /\ a = hand[t] /\ pc[t] = "fill" /\ Holders(hand[t]) = 0
             /\ Holders(a)' = n /\ OthersStay(a) /\ Fill(t, m, n)
             /\ m = (IF t = Io THEN cmd ELSE Internal) /\ (t = Io => n = 1)
  BY FillMoves
<1>2. ~Live(a) /\ Live(a)' BY <1>1 DEF Live
<1>3. ASSUME NEW b \in Bufs \ {a} PROVE (Live(b)' <=> Live(b)) /\ msg'[b] = msg[b] /\ refs'[b] = refs[b]
  <2>1. Holders(b)' = Holders(b) + 0 BY <1>1 DEF OthersStay, Moved
  <2>2. Live(b)' <=> Live(b) BY <2>1, HoldersNat DEF Live, IInv
  <2> QED BY <2>2, <1>1 DEF Fill, TypeOK, IInv
<1>4. msg'[a] = m /\ refs'[a] = n BY <1>1 DEF Fill, TypeOK, IInv
<1> QED BY <1>1, <1>2, <1>3, <1>4

LEMMA LiveReleased ==
    ASSUME IInv, TypeOK', NEW t \in Threads, Releaser(t)
    PROVE  \E a \in Bufs : /\ a = hand[t] /\ Live(a) /\ msg' = msg
                           /\ \A b \in Bufs \ {a} : (Live(b)' <=> Live(b)) /\ refs'[b] = refs[b]
                           /\ Live(a)' => refs[a] # 1
<1>1. PICK a \in Bufs : /\ a = hand[t] /\ Live(hand[t]) /\ Moved(a, -1) /\ OthersStay(a) /\ Release(a)
  BY ReleaseMoves
<1>2. msg' = msg BY DEF Releaser, RouteRefused, Finish, PostRelease
<1>3. ASSUME NEW b \in Bufs \ {a} PROVE (Live(b)' <=> Live(b)) /\ refs'[b] = refs[b]
  <2>1. Holders(b)' = Holders(b) + 0 BY <1>1 DEF OthersStay, Moved
  <2>2. Live(b)' <=> Live(b) BY <2>1, HoldersNat DEF Live, IInv
  <2> QED BY <2>2, <1>1 DEF Release, TypeOK, IInv
<1>4. Live(a)' => refs[a] # 1
  <2>1. Holders(a)' = Holders(a) + (-1) /\ refs[a] = Holders(a) BY <1>1 DEF Moved, IInv, Counts
  <2> QED BY <2>1, HoldersNat DEF Live, IInv
<1> QED BY <1>1, <1>2, <1>3, <1>4

\* A live buffer that stays live keeps its message, and no buffer comes to
\* life but by a fill.
LEMMA MsgKept ==
    ASSUME IInv, TypeOK', [Next]_vars
    PROVE  \A b \in Bufs : Live(b) => msg'[b] = msg[b]
<1>1. CASE Quiet BY <1>1, QuietKeeps
<1>2. ASSUME NEW t \in Threads, Filler(t) PROVE \A b \in Bufs : Live(b) => msg'[b] = msg[b]
  BY <1>2, LiveFilled
<1>3. ASSUME NEW t \in Threads, Releaser(t) PROVE \A b \in Bufs : Live(b) => msg'[b] = msg[b]
  BY <1>3, LiveReleased
<1> QED BY <1>1, <1>2, <1>3, Steps

LEMMA TodoStep ==
    ASSUME [Next]_vars
    PROVE  /\ todo' \subseteq todo
           /\ (~ \E c \in External : Receive(c)) => todo' = todo
  BY DEF Next, IoStep, TaskStep, PostStep, Receive, RouteFill, RoutePush, RouteRefused, SyncHandle,
         PopCompletion, EncodeAck, Send, Finish, NextQueue, Pop, EncodeTelemetry, Handle, HandOver,
         PostFill, PostPush, PostRelease, PostEnd, Post, vars, client

LEMMA SoleStep == ASSUME IInv, TypeOK', [Next]_vars PROVE Sole'
<1> USE DEF IInv
<1>n. Io \in Threads /\ Internal \notin External BY Names
<1>p. /\ \A b \in Bufs : Live(b) /\ msg[b] \in External => refs[b] = 1 /\ msg[b] \notin todo
      /\ \A a, b \in Bufs : Live(a) /\ Live(b) /\ msg[a] \in External /\ msg[a] = msg[b] => a = b
  BY DEF Sole
<1>t. todo' \subseteq todo BY TodoStep
<1>1. CASE Quiet
  <2>1. \A b \in Bufs : Live(b)' <=> Live(b) BY <1>1, LiveQuiet
  <2>2. refs' = refs /\ msg' = msg BY <1>1, QuietKeeps
  <2> QED BY <2>1, <2>2, <1>p, <1>t DEF Sole
<1>2. ASSUME NEW t \in Threads, Filler(t) PROVE Sole'
  <2>1. PICK a \in Bufs :
          /\ a = hand[t] /\ pc[t] = "fill" /\ ~Live(a) /\ Live(a)'
          /\ \A b \in Bufs \ {a} : (Live(b)' <=> Live(b)) /\ msg'[b] = msg[b] /\ refs'[b] = refs[b]
          /\ msg'[a] = (IF t = Io THEN cmd ELSE Internal) /\ (t = Io => refs'[a] = 1)
    BY <1>2, LiveFilled
  <2>2. CASE t # Io
    <3>1. msg'[a] \notin External BY <2>1, <2>2, <1>n
    <3>2. \A b \in Bufs : Live(b)' /\ msg'[b] \in External => b # a /\ Live(b) /\ msg[b] = msg'[b] /\ refs'[b] = refs[b]
      BY <3>1, <2>1
    <3>3. \A b \in Bufs : Live(b)' /\ msg'[b] \in External => refs'[b] = 1 /\ msg'[b] \notin todo'
      BY <3>2, <1>p, <1>t
    <3>4. \A b, c \in Bufs : Live(b)' /\ Live(c)' /\ msg'[b] \in External /\ msg'[b] = msg'[c] => b = c
      BY <3>2, <1>p
    <3> QED BY <3>3, <3>4 DEF Sole
  <2>3. CASE t = Io
    <3>1. cmd \in External /\ cmd \notin todo /\ Fresh(cmd) BY <2>1, <2>3 DEF Routing
    <3>2. msg'[a] = cmd /\ refs'[a] = 1 BY <2>1, <2>3
    <3>3. \A b \in Bufs : Live(b)' /\ msg'[b] \in External => refs'[b] = 1 /\ msg'[b] \notin todo'
      <4> SUFFICES ASSUME NEW b \in Bufs, Live(b)', msg'[b] \in External
                   PROVE  refs'[b] = 1 /\ msg'[b] \notin todo'
        OBVIOUS
      <4>1. CASE b = a BY <4>1, <3>1, <3>2, <1>t
      <4>2. CASE b # a BY <4>2, <2>1, <1>p, <1>t
      <4> QED BY <4>1, <4>2
    <3>4. \A b \in Bufs \ {a} : Live(b)' => msg'[b] # cmd BY <2>1, <3>1 DEF Fresh
    <3>5. \A b, c \in Bufs : Live(b)' /\ Live(c)' /\ msg'[b] \in External /\ msg'[b] = msg'[c] => b = c
      <4> SUFFICES ASSUME NEW b \in Bufs, NEW c \in Bufs, Live(b)', Live(c)', msg'[b] \in External,
                          msg'[b] = msg'[c], b # c
                   PROVE  FALSE
        OBVIOUS
      <4>1. CASE b = a BY <4>1, <3>2, <3>4
      <4>2. CASE c = a BY <4>2, <3>2, <3>4
      <4>3. CASE b # a /\ c # a BY <4>3, <2>1, <1>p
      <4> QED BY <4>1, <4>2, <4>3
    <3> QED BY <3>3, <3>5 DEF Sole
  <2> QED BY <2>2, <2>3
<1>3. ASSUME NEW t \in Threads, Releaser(t) PROVE Sole'
  <2>1. PICK a \in Bufs : /\ a = hand[t] /\ Live(a) /\ msg' = msg
                          /\ \A b \in Bufs \ {a} : (Live(b)' <=> Live(b)) /\ refs'[b] = refs[b]
                          /\ Live(a)' => refs[a] # 1
    BY <1>3, LiveReleased
  <2>2. \A b \in Bufs : Live(b)' /\ msg'[b] \in External => b # a /\ Live(b) /\ refs'[b] = refs[b]
    BY <2>1, <1>p
  <2>3. \A b \in Bufs : Live(b)' /\ msg'[b] \in External => refs'[b] = 1 /\ msg'[b] \notin todo'
    BY <2>1, <2>2, <1>p, <1>t
  <2>4. \A b, c \in Bufs : Live(b)' /\ Live(c)' /\ msg'[b] \in External /\ msg'[b] = msg'[c] => b = c
    BY <2>1, <2>2, <1>p
  <2> QED BY <2>3, <2>4 DEF Sole
<1> QED BY <1>1, <1>2, <1>3, Steps

----------------------------------------------------------------------------
(* Executions.                                                             *)

\* A buffer with an external command has one holder.
LEMMA OneHolder ==
    ASSUME IInv, NEW b \in Bufs, Live(b), msg[b] \in External
    PROVE  Holders(b) = 1
  BY DEF IInv, Sole, Counts

\* What a thread that owes a release has, no queue has, and no other thread.
LEMMA InOneHand ==
    ASSUME IInv, NEW t \in Threads, NEW b \in Bufs, Owed(t, b) > 0, msg[b] \in External
    PROVE  /\ Live(b) /\ \A q \in Queues : ~InQueue(q, b)
           /\ \A s \in Threads : Owed(s, b) > 0 => s = t
<1>1. Live(b) BY OwedLive DEF IInv
<1>2. Holders(b) <= 1 BY <1>1, OneHolder
<1> QED BY <1>1, <1>2, Alone DEF IInv, InQueue

LEMMA QueuedLive ==
    ASSUME IInv, NEW q \in Queues, NEW b \in Bufs, InQueue(q, b)
    PROVE  Live(b)
  BY SlotLive DEF IInv, InQueue

\* A command is executed by one of the two handlers only.
LEMMA HandledBy ==
    ASSUME [Next]_vars, ~SyncHandle, ~Handle
    PROVE  handled' = handled
  BY DEF Next, IoStep, TaskStep, PostStep, Receive, RouteFill, RoutePush, RouteRefused,
         PopCompletion, EncodeAck, Send, Finish, NextQueue, Pop, EncodeTelemetry, HandOver,
         PostFill, PostPush, PostRelease, PostEnd, Post, vars, client

\* Nobody else's command is executed.
LEMMA HandledKept ==
    ASSUME IInv, [Next]_vars
    PROVE  \A b \in Bufs : Live(b) /\ msg[b] \in External /\ ~(Handle /\ b = hand[Task])
                             => handled'[msg[b]] = handled[msg[b]]
<1> SUFFICES ASSUME NEW b \in Bufs, Live(b), msg[b] \in External, ~(Handle /\ b = hand[Task])
             PROVE  handled'[msg[b]] = handled[msg[b]]
  OBVIOUS
<1> USE DEF IInv
<1>1. CASE SyncHandle
  <2>1. cmd # msg[b] BY <1>1 DEF SyncHandle, Routing, Fresh
  <2>2. handled' = [handled EXCEPT ![cmd] = handled[cmd] + 1] BY <1>1 DEF SyncHandle
  <2> QED BY <2>1, <2>2 DEF TypeOK
<1>2. CASE Handle
  <2>1. hand[Task] \in Bufs /\ pc[Task] # "fill" BY <1>2 DEF Handle, Hands, TaskHand
  <2>2. Live(hand[Task]) BY <2>1, HandLive
  <2>3. msg[hand[Task]] # msg[b] BY <1>2, <2>1, <2>2 DEF Sole
  <2> QED BY <1>2, <2>3 DEF Handle, TypeOK
<1>3. CASE ~SyncHandle /\ ~Handle BY <1>3, HandledBy
<1> QED BY <1>1, <1>2, <1>3

----------------------------------------------------------------------------
(* Where a command is.                                                     *)

LEMMA InPushed ==
    ASSUME TypeOK, NEW q \in Queues, NEW b \in Bufs, Push(q, b)
    PROVE  \A r \in Queues, a \in Bufs : InQueue(r, a)' => InQueue(r, a) \/ (r = q /\ a = b)
<1>1. queue \in Contents /\ queue' = Pushed(queue, q, b) BY DEF TypeOK, Contents, Push, Pushed
<1>2. queue'[q] = Append(queue[q], b) /\ \A r \in Queues \ {q} : queue'[r] = queue[r]
  BY <1>1, PushedType
<1>3. queue[q] \in Seq(Bufs) BY DEF TypeOK
<1>4. /\ DOMAIN queue[q] = 1 .. Len(queue[q]) /\ Len(queue[q]) \in Nat
      /\ \A i \in 1 .. Len(queue[q]) : queue'[q][i] = queue[q][i]
      /\ queue'[q][Len(queue[q]) + 1] = b /\ queue'[q] \in Seq(Bufs)
      /\ Len(queue'[q]) = Len(queue[q]) + 1
  BY <1>2, <1>3, SeqFacts
<1>5. DOMAIN queue'[q] = 1 .. Len(queue[q]) + 1 BY <1>4, SeqFacts
<1> SUFFICES ASSUME NEW r \in Queues, NEW a \in Bufs, InQueue(r, a)'
             PROVE  InQueue(r, a) \/ (r = q /\ a = b)
  OBVIOUS
<1>6. PICK i \in DOMAIN queue'[r] : queue'[r][i] = a BY DEF InQueue
<1>7. CASE r # q BY <1>2, <1>6, <1>7 DEF InQueue
<1>8. CASE r = q
  <2>1. i \in 1 .. Len(queue[q]) \/ i = Len(queue[q]) + 1 BY <1>4, <1>5, <1>6, <1>8
  <2> QED BY <2>1, <1>4, <1>6, <1>8 DEF InQueue
<1> QED BY <1>7, <1>8

LEMMA InPopped ==
    ASSUME TypeOK, NEW q \in Queues, queue[q] # <<>>, queue' = [queue EXCEPT ![q] = Tail(@)]
    PROVE  /\ \A r \in Queues, a \in Bufs : InQueue(r, a)' => InQueue(r, a)
           /\ Head(queue[q]) \in Bufs /\ InQueue(q, Head(queue[q]))
<1>1. queue \in Contents /\ queue' = Popped(queue, q) BY DEF TypeOK, Contents, Popped
<1>2. queue'[q] = Tail(queue[q]) /\ \A r \in Queues \ {q} : queue'[r] = queue[r]
  <2>1. queue[q] # <<>> OBVIOUS
  <2>2. Popped(queue, q)[q] = Tail(queue[q]) /\ \A r \in Queues \ {q} : Popped(queue, q)[r] = queue[r]
    BY <1>1, <2>1, PoppedType
  <2> QED BY <1>1, <2>2
<1>3. queue[q] \in Seq(Bufs) /\ queue[q] # <<>> BY DEF TypeOK
<1>4. /\ DOMAIN queue[q] = 1 .. Len(queue[q]) /\ Len(queue[q]) \in Nat /\ Len(queue[q]) >= 1
      /\ \A i \in 1 .. Len(queue[q]) - 1 : queue'[q][i] = queue[q][i + 1]
      /\ Len(queue'[q]) = Len(queue[q]) - 1 /\ queue'[q] \in Seq(Bufs)
      /\ Head(queue[q]) \in Bufs /\ Head(queue[q]) = queue[q][1]
  <2>1. /\ DOMAIN queue[q] = 1 .. Len(queue[q]) /\ Len(queue[q]) \in Nat /\ Len(queue[q]) >= 1
        /\ \A i \in 1 .. Len(queue[q]) - 1 : Tail(queue[q])[i] = queue[q][i + 1]
        /\ Len(Tail(queue[q])) = Len(queue[q]) - 1 /\ Tail(queue[q]) \in Seq(Bufs)
        /\ Head(queue[q]) \in Bufs /\ Head(queue[q]) = queue[q][1]
    BY <1>3, SeqFacts
  <2> QED BY <1>2, <2>1
<1>5. DOMAIN queue'[q] = 1 .. Len(queue[q]) - 1 BY <1>4, SeqFacts
<1>6. 1 \in DOMAIN queue[q] BY <1>4
<1>7. InQueue(q, Head(queue[q])) BY <1>4, <1>6 DEF InQueue
<1>8. ASSUME NEW r \in Queues, NEW a \in Bufs, InQueue(r, a)' PROVE InQueue(r, a)
  <2>1. PICK i \in DOMAIN queue'[r] : queue'[r][i] = a BY <1>8 DEF InQueue
  <2>2. CASE r # q BY <1>2, <2>1, <2>2 DEF InQueue
  <2>3. CASE r = q
    <3>1. i + 1 \in 1 .. Len(queue[q]) /\ queue[q][i + 1] = a BY <1>4, <1>5, <2>1, <2>3
    <3> QED BY <3>1, <1>4, <2>3 DEF InQueue
  <2> QED BY <2>2, <2>3
<1> QED BY <1>4, <1>7, <1>8

\* What was in a queue is there for the reason it was.
LEMMA SlotKept ==
    ASSUME IInv, TypeOK', [Next]_vars, NEW q \in Queues, NEW b \in Bufs, InQueue(q, b)
    PROVE  InSlot(q, b)'
<1> USE DEF IInv
<1>1. Live(b) /\ InSlot(q, b) BY QueuedLive DEF Places
<1>2. msg'[b] = msg[b] BY <1>1, MsgKept
<1>3. CASE msg[b] \in External
  <2>1. ~(Handle /\ b = hand[Task])
    <3> SUFFICES ASSUME Handle, b = hand[Task] PROVE FALSE OBVIOUS
    <3>1. Owed(Task, b) = 1 BY HandOwed DEF Handle
    <3>2. Owed(Task, b) > 0 BY <3>1
    <3> QED BY <3>2, <1>3, Names, InOneHand
  <2>2. handled'[msg[b]] = handled[msg[b]] BY <2>1, <1>1, <1>3, HandledKept
  <2> QED BY <2>2, <1>1, <1>2 DEF InSlot, Unread, Read
<1>4. CASE msg[b] \notin External
  <2>1. ~Read(b) /\ Unread(b)' BY <1>2, <1>4, Names DEF Read, Unread
  <2> QED BY <2>1, <1>1, <1>2 DEF InSlot
<1> QED BY <1>3, <1>4

LEMMA QueuesStep ==
    ASSUME IInv, TypeOK', [Next]_vars
    PROVE  \A q \in Queues, b \in Bufs : InQueue(q, b)' => InSlot(q, b)'
<1> USE DEF IInv
<1>h. IoHand /\ TaskHand /\ \A w \in Workers : WorkerHand(w) BY DEF Hands
<1>k. \A q \in Queues, b \in Bufs : InQueue(q, b) => InSlot(q, b)' BY SlotKept
<1>m. \A b \in Bufs : Live(b) => msg'[b] = msg[b] BY MsgKept
<1>1. CASE RoutePush
  <2>1. cmd \in External /\ hand[Io] \in Bufs /\ pc[Io] = "push" BY <1>1, <1>h DEF RoutePush, Routing, IoHand
  <2>2. PICK q \in Queues : q = In(Target[cmd]) /\ q[1] = "in" BY <2>1, CompAssumption, QueueNames
  <2>3. PICK b \in Bufs : b = hand[Io] BY <2>1
  <2>4. CASE HasRoom(q)
    <3>1. Push(q, b) BY <1>1, <2>2, <2>3, <2>4 DEF RoutePush
    <3>2. InSlot(q, b)'
      <4>1. Live(b) /\ msg[b] = cmd /\ handled[cmd] = 0 BY <1>1, <2>1, <2>3, HandLive DEF Routing
      <4>2. msg'[b] = cmd /\ handled' = handled BY <4>1, <1>1, <1>m DEF RoutePush, client
      <4> QED BY <4>1, <4>2, <2>2 DEF InSlot, Unread
    <3> QED BY <3>1, <3>2, <1>k, InPushed
  <2>5. CASE ~HasRoom(q)
    <3>1. queue' = queue BY <1>1, <2>2, <2>5 DEF RoutePush
    <3> QED BY <3>1, <1>k DEF InQueue
  <2> QED BY <2>4, <2>5
<1>2. CASE PopCompletion
  <2>1. Done \in Queues BY QueueNames
  <2>2. \A r \in Queues, a \in Bufs : InQueue(r, a)' => InQueue(r, a)
    BY <1>2, <2>1, InPopped DEF PopCompletion
  <2> QED BY <2>2, <1>k
<1>3. CASE Pop
  <2>1. PICK q \in Queues : q = Sweep[at] BY AtQueue
  <2>2. \A r \in Queues, a \in Bufs : InQueue(r, a)' => InQueue(r, a)
    BY <1>3, <2>1, InPopped DEF Pop
  <2> QED BY <2>2, <1>k
<1>4. CASE HandOver
  <2>1. hand[Task] \in Bufs /\ Done \in Queues /\ Done[1] = "done" /\ pc[Task] = "outcome"
    BY <1>4, <1>h, QueueNames DEF HandOver, TaskHand
  <2>2. PICK b \in Bufs : b = hand[Task] BY <2>1
  <2>3. CASE HasRoom(Done)
    <3>1. Push(Done, b) BY <1>4, <2>2, <2>3 DEF HandOver
    <3>2. InSlot(Done, b)'
      <4>1. Live(b) /\ Read(b) BY <2>1, <2>2, HandLive DEF Places, AtTask
      <4>2. msg'[b] = msg[b] /\ handled' = handled BY <4>1, <1>4, <1>m DEF HandOver, client
      <4> QED BY <4>1, <4>2, <2>1 DEF InSlot, Read
    <3> QED BY <3>1, <3>2, <2>1, <1>k, InPushed
  <2>4. CASE ~HasRoom(Done)
    <3>1. queue' = queue BY <1>4, <2>4 DEF HandOver
    <3> QED BY <3>1, <1>k DEF InQueue
  <2> QED BY <2>3, <2>4
<1>5. ASSUME NEW w \in Workers, PostPush(w)
      PROVE  \A q \in Queues, b \in Bufs : InQueue(q, b)' => InSlot(q, b)'
  <2>1. /\ hand[w] \in Bufs /\ pc[w] = "push" /\ Head(left[w]) \in Boxes
        /\ Len(left[w]) \in Nat /\ Len(left[w]) >= 1 /\ failed[w] \in Nat
    BY <1>5, <1>h, Recipient DEF PostPush, WorkerHand
  <2>2. PICK q \in Queues : q = Head(left[w]) /\ q[1] \in {"in", "out"} BY <2>1, QueueNames
  <2>3. PICK b \in Bufs : b = hand[w] BY <2>1
  <2>4. CASE HasRoom(q)
    <3>1. Push(q, b) BY <1>5, <2>2, <2>3, <2>4 DEF PostPush
    <3>2. InSlot(q, b)'
      <4>1. Owed(w, b) = Len(left[w]) + failed[w] BY <2>1, <2>3 DEF Owed
      <4>2. Owed(w, b) > 0 BY <4>1, <2>1
      <4>3. Live(b) /\ msg[b] = Internal BY <4>2, Names, OwedLive DEF Places
      <4>4. msg'[b] = Internal BY <4>3, <1>m
      <4> QED BY <4>4, <2>2, Names DEF InSlot, Unread
    <3> QED BY <3>1, <3>2, <1>k, InPushed
  <2>5. CASE ~HasRoom(q)
    <3>1. queue' = queue BY <1>5, <2>2, <2>5 DEF PostPush
    <3> QED BY <3>1, <1>k DEF InQueue
  <2> QED BY <2>4, <2>5
<1>6. CASE queue' = queue BY <1>6, <1>k DEF InQueue
<1>7. \/ RoutePush \/ PopCompletion \/ Pop \/ HandOver \/ (\E w \in Workers : PostPush(w)) \/ queue' = queue
  BY DEF Next, IoStep, TaskStep, PostStep, Receive, RouteFill, RouteRefused, SyncHandle,
         EncodeAck, Send, Finish, NextQueue, EncodeTelemetry, Handle, PostFill, PostRelease, PostEnd, Post, vars
<1> QED BY <1>1, <1>2, <1>3, <1>4, <1>5, <1>6, <1>7

\* What a step leaves to the other threads.
IoAction ==
  (\E c \in External : Receive(c)) \/ RouteFill \/ RoutePush \/ RouteRefused \/ SyncHandle
    \/ PopCompletion \/ EncodeAck \/ Send(Io) \/ Finish(Io)
TaskAction == Pop \/ EncodeTelemetry \/ Handle \/ HandOver \/ Send(Task) \/ Finish(Task)
WorkAction(w) ==
  PostFill(w) \/ PostPush(w) \/ PostRelease(w) \/ PostEnd(w) \/ \E to \in Recipients(w) : Post(w, to)
IoRests == pc'[Io] = pc[Io] /\ hand'[Io] = hand[Io] /\ cmd' = cmd /\ acks' = acks /\ todo' = todo
TaskRests == pc'[Task] = pc[Task] /\ hand'[Task] = hand[Task] /\ drops' = drops
WorkRests(w) == pc'[w] = pc[w] /\ hand'[w] = hand[w] /\ left'[w] = left[w] /\ failed'[w] = failed[w]

LEMMA Kinds ==
  [Next]_vars => IoAction \/ TaskAction \/ NextQueue \/ (\E w \in Workers : WorkAction(w)) \/ UNCHANGED vars
  BY DEF Next, IoStep, TaskStep, PostStep, IoAction, TaskAction, WorkAction

LEMMA IoAlone ==
    ASSUME TypeOK, IoAction
    PROVE  TaskRests /\ \A w \in Workers : WorkRests(w)
<1>n. /\ Io \in Threads /\ Task \in Threads /\ Workers \subseteq Threads /\ Io # Task /\ Io \notin Workers
  BY Names
<1>t. PlaceTypes BY AllTypes
<1>1. \A t \in Threads \ {Io} : pc'[t] = pc[t] /\ hand'[t] = hand[t]
  BY <1>t DEF IoAction, Receive, Claim, RouteFill, RoutePush, RouteRefused, SyncHandle, PopCompletion,
              EncodeAck, Send, Finish, Drop, Goto, PlaceTypes
<1>2. drops' = drops /\ left' = left /\ failed' = failed
  BY DEF IoAction, Receive, RouteFill, RoutePush, RouteRefused, SyncHandle, PopCompletion,
         EncodeAck, Send, Finish, worker
<1> QED BY <1>1, <1>2, <1>n DEF TaskRests, WorkRests

LEMMA TaskAlone ==
    ASSUME TypeOK, TaskAction
    PROVE  IoRests /\ \A w \in Workers : WorkRests(w)
<1>n. /\ Io \in Threads /\ Task \in Threads /\ Workers \subseteq Threads /\ Io # Task /\ Task \notin Workers
  BY Names
<1>t. PlaceTypes BY AllTypes
<1>1. \A t \in Threads \ {Task} : pc'[t] = pc[t] /\ hand'[t] = hand[t]
  BY <1>t DEF TaskAction, Pop, EncodeTelemetry, Handle, HandOver, Send, Finish, Drop, Goto, PlaceTypes
<1>2. cmd' = cmd /\ acks' = acks /\ todo' = todo /\ left' = left /\ failed' = failed
  BY DEF TaskAction, Pop, EncodeTelemetry, Handle, HandOver, Send, Finish, worker, client
<1> QED BY <1>1, <1>2, <1>n DEF IoRests, WorkRests

LEMMA WorkAlone ==
    ASSUME TypeOK, NEW w \in Workers, WorkAction(w)
    PROVE  IoRests /\ TaskRests /\ \A v \in Workers \ {w} : WorkRests(v)
<1>n. /\ Io \in Threads /\ Task \in Threads /\ Workers \subseteq Threads /\ Io \notin Workers /\ Task \notin Workers
  BY Names
<1>t. PlaceTypes /\ WorkTypes BY AllTypes
<1>1. \A t \in Threads \ {w} : pc'[t] = pc[t] /\ hand'[t] = hand[t]
  BY <1>t DEF WorkAction, PostFill, PostPush, PostRelease, PostEnd, Post, Claim, Drop, Goto, PlaceTypes
<1>2. cmd' = cmd /\ acks' = acks /\ todo' = todo /\ drops' = drops
  BY DEF WorkAction, PostFill, PostPush, PostRelease, PostEnd, Post, client
<1>3. \A v \in Workers \ {w} : left'[v] = left[v] /\ failed'[v] = failed[v]
  BY <1>t DEF WorkAction, PostFill, PostPush, PostRelease, PostEnd, Post, worker, WorkTypes
<1> QED BY <1>1, <1>2, <1>3, <1>n DEF IoRests, TaskRests, WorkRests

LEMMA RestOfQueue ==
    ASSUME NextQueue \/ UNCHANGED vars
    PROVE  IoRests /\ TaskRests /\ \A w \in Workers : WorkRests(w)
  BY DEF NextQueue, vars, worker, client, IoRests, TaskRests, WorkRests

LEMMA TaskPlaceStep ==
    ASSUME IInv, TypeOK', [Next]_vars
    PROVE  \A b \in Bufs : hand'[Task] = b => AtTask(b)'
<1> USE DEF IInv
<1>n. /\ Io \in Threads /\ Task \in Threads /\ Io # Task /\ NoBuf \notin Bufs /\ Internal \notin External
      /\ Acked \subseteq External
  BY Names
<1>t. PlaceTypes /\ PoolTypes BY AllTypes
<1>h. TaskHand BY DEF Hands
<1> SUFFICES ASSUME NEW b \in Bufs, hand'[Task] = b PROVE AtTask(b)'
  OBVIOUS
<1>1. CASE TaskRests /\ ~Handle
  <2>1. hand[Task] = b /\ pc'[Task] = pc[Task] BY <1>1 DEF TaskRests
  <2>2. AtTask(b) /\ pc[Task] # "fill" BY <2>1, <1>h DEF Places, TaskHand, TaskPlaces
  <2>3. Live(b) BY <2>1, <2>2, HandLive
  <2>4. msg'[b] = msg[b] /\ (msg[b] \in External => handled'[msg[b]] = handled[msg[b]])
    BY <1>1, <2>3, MsgKept, HandledKept
  <2> QED BY <2>1, <2>2, <2>4, <1>n DEF AtTask, Unread, Read
<1>2. CASE Pop
  <2>1. PICK q \in Queues : q = Sweep[at] /\ q # Done BY AtQueue
  <2>2. queue[q] # <<>> /\ queue' = [queue EXCEPT ![q] = Tail(@)] BY <1>2, <2>1 DEF Pop
  <2>3. Head(queue[q]) \in Bufs /\ InQueue(q, Head(queue[q])) BY <2>2, InPopped
  <2>4. b = Head(queue[q]) BY <1>2, <2>1, <1>t, <1>n DEF Pop, PlaceTypes
  <2>5. InSlot(q, b) BY <2>3, <2>4 DEF Places
  <2>6. msg' = msg /\ handled' = handled BY <1>2 DEF Pop, client
  <2>7. pc'[Task] = (IF q[1] = "in" THEN "handle" ELSE "encode") BY <1>2, <2>1, <1>t, <1>n DEF Pop, Goto, PlaceTypes
  <2>8. q[1] = "in" \/ q[1] = "out" BY <2>1, QueueNames
  <2> QED BY <2>5, <2>6, <2>7, <2>8 DEF AtTask, InSlot, Unread
<1>3. CASE EncodeTelemetry
  <2>1. hand[Task] = b /\ pc[Task] = "encode" /\ pc'[Task] = "send" /\ msg' = msg
    BY <1>3, <1>t, <1>n DEF EncodeTelemetry, Goto, PlaceTypes
  <2>2. msg[b] = Internal BY <2>1 DEF Places, AtTask
  <2> QED BY <2>1, <2>2 DEF AtTask
<1>4. CASE Handle
  <2>1. hand[Task] = b /\ pc[Task] = "handle" /\ msg' = msg /\ pc'[Task] = (IF msg[b] \in Acked THEN "outcome" ELSE "finish")
    BY <1>4, <1>t, <1>n DEF Handle, Goto, PlaceTypes
  <2>2. Unread(b) BY <2>1 DEF Places, AtTask
  <2>3. msg[b] \in External => handled'[msg[b]] = 1
    <3> SUFFICES ASSUME msg[b] \in External PROVE handled'[msg[b]] = 1 OBVIOUS
    <3>1. handled[msg[b]] = 0 BY <2>2 DEF Unread
    <3>2. handled' = [handled EXCEPT ![msg[b]] = handled[msg[b]] + 1] BY <1>4, <2>1, <1>n DEF Handle
    <3> QED BY <3>1, <3>2 DEF TypeOK
  <2> QED BY <2>1, <2>3, <1>n DEF AtTask, Read
<1>5. CASE HandOver
  <2>1. pc[Task] = "outcome" /\ msg' = msg /\ handled' = handled BY <1>5 DEF HandOver, client
  <2>2. CASE HasRoom(Done)
    <3>1. hand'[Task] = NoBuf BY <1>5, <2>2, <1>t, <1>n DEF HandOver, Drop, PlaceTypes
    <3> QED BY <3>1, <1>n
  <2>3. CASE ~HasRoom(Done)
    <3>1. hand[Task] = b /\ pc'[Task] = "finish" BY <1>5, <2>3, <1>t, <1>n DEF HandOver, Goto, PlaceTypes
    <3>2. Read(b) BY <3>1, <2>1 DEF Places, AtTask
    <3> QED BY <3>1, <3>2, <2>1 DEF AtTask, Read
  <2> QED BY <2>2, <2>3
<1>6. CASE Send(Task)
  <2>1. hand[Task] = b /\ pc[Task] = "send" /\ pc'[Task] = "finish" /\ msg' = msg
    BY <1>6, <1>t, <1>n DEF Send, Goto, PlaceTypes
  <2>2. msg[b] = Internal BY <2>1 DEF Places, AtTask
  <2> QED BY <2>1, <2>2, <1>n DEF AtTask
<1>7. CASE Finish(Task)
  <2>1. hand'[Task] = NoBuf BY <1>7, <1>t, <1>n DEF Finish, Drop, PlaceTypes
  <2> QED BY <2>1, <1>n
<1>8. IoAction => TaskRests /\ ~Handle
  <2>1. IoAction => TaskRests BY IoAlone
  <2>2. Handle => pc'[Task] # pc[Task] BY <1>t, <1>n DEF Handle, Goto, PlaceTypes
  <2> QED BY <2>1, <2>2 DEF TaskRests
<1>9. (\E w \in Workers : WorkAction(w)) => TaskRests BY WorkAlone
<1>10. NextQueue \/ UNCHANGED vars => TaskRests BY RestOfQueue
<1>11. TaskRests => ~Handle
  <2>1. Handle => pc'[Task] # pc[Task] BY <1>t, <1>n DEF Handle, Goto, PlaceTypes
  <2> QED BY <2>1 DEF TaskRests
<1> QED BY <1>1, <1>2, <1>3, <1>4, <1>5, <1>6, <1>7, <1>8, <1>9, <1>10, <1>11, Kinds DEF TaskAction

LEMMA WorkPlaceStep ==
    ASSUME IInv, TypeOK', [Next]_vars
    PROVE  \A w \in Workers, b \in Bufs : Owed(w, b)' > 0 => msg'[b] = Internal
<1> USE DEF IInv
<1>n. Workers \subseteq Threads /\ NoBuf \notin Bufs /\ Io \notin Workers BY Names
<1>t. PlaceTypes /\ WorkTypes BY AllTypes
<1> SUFFICES ASSUME NEW w \in Workers, NEW b \in Bufs, Owed(w, b)' > 0 PROVE msg'[b] = Internal
  OBVIOUS
<1>1. ASSUME Owed(w, b) > 0 PROVE msg'[b] = Internal
  <2>1. Live(b) /\ msg[b] = Internal BY <1>1, <1>n, OwedLive DEF Places
  <2> QED BY <2>1, MsgKept
<1>o. hand'[w] = b /\ pc'[w] # "fill" BY DEF Owed
<1>2. CASE WorkRests(w)
  <2>1. Owed(w, b)' = Owed(w, b) BY <1>2 DEF WorkRests, Owed
  <2> QED BY <2>1, <1>1
<1>3. CASE PostFill(w)
  <2>1. Filler(w) BY <1>3 DEF Filler
  <2>2. hand[w] = b BY <1>3, <1>o DEF PostFill
  <2> QED BY <2>1, <2>2, <1>n, LiveFilled
<1>4. CASE PostPush(w)
  <2>1. hand[w] = b /\ pc[w] = "push" /\ Len(left[w]) \in Nat /\ Len(left[w]) >= 1 /\ failed[w] \in Nat
    BY <1>4, <1>o, Recipient DEF PostPush
  <2>2. Owed(w, b) = Len(left[w]) + failed[w] BY <2>1 DEF Owed
  <2>3. Owed(w, b) > 0 BY <2>1, <2>2
  <2> QED BY <2>3, <1>1
<1>5. CASE PostRelease(w)
  <2>1. hand[w] = b /\ pc[w] = "push" /\ Len(left[w]) \in Nat /\ failed[w] \in Nat /\ failed[w] > 0
    BY <1>5, <1>o, Recipient DEF PostRelease
  <2>2. Owed(w, b) = Len(left[w]) + failed[w] BY <2>1 DEF Owed
  <2>3. Owed(w, b) > 0 BY <2>1, <2>2
  <2> QED BY <2>3, <1>1
<1>6. CASE PostEnd(w)
  <2>1. hand'[w] = NoBuf BY <1>6, <1>t, <1>n DEF PostEnd, Drop, PlaceTypes
  <2> QED BY <2>1, <1>o, <1>n
<1>7. ASSUME NEW to \in Recipients(w), Post(w, to) PROVE msg'[b] = Internal
  <2>1. CASE free = <<>>
    <3>1. WorkRests(w) BY <1>7, <2>1 DEF Post, WorkRests
    <3> QED BY <3>1, <1>2
  <2>2. CASE free # <<>>
    <3>1. pc'[w] = "fill" BY <1>7, <2>2, <1>t, <1>n DEF Post, Goto, PlaceTypes
    <3> QED BY <3>1, <1>o
  <2> QED BY <2>1, <2>2
<1>8. WorkAction(w) => msg'[b] = Internal BY <1>3, <1>4, <1>5, <1>6, <1>7 DEF WorkAction
<1>9. \A v \in Workers \ {w} : WorkAction(v) => WorkRests(w) BY WorkAlone
<1>10. IoAction \/ TaskAction \/ NextQueue \/ UNCHANGED vars => WorkRests(w) BY IoAlone, TaskAlone, RestOfQueue
<1> QED BY <1>2, <1>8, <1>9, <1>10, Kinds

LEMMA PlacesStep == ASSUME IInv, TypeOK', [Next]_vars PROVE Places'
  BY QueuesStep, TaskPlaceStep, WorkPlaceStep DEF Places

----------------------------------------------------------------------------
(* The command the I/O thread routes.                                      *)

\* A live buffer was live with the same message, or has just been filled.
LEMMA LiveBefore ==
    ASSUME IInv, TypeOK', [Next]_vars
    PROVE  \A b \in Bufs : Live(b)' => \/ Live(b) /\ msg'[b] = msg[b]
                                       \/ RouteFill /\ b = hand[Io] /\ msg'[b] = cmd
                                       \/ msg'[b] = Internal
<1> SUFFICES ASSUME NEW b \in Bufs, Live(b)'
             PROVE  \/ Live(b) /\ msg'[b] = msg[b]
                    \/ RouteFill /\ b = hand[Io] /\ msg'[b] = cmd
                    \/ msg'[b] = Internal
  OBVIOUS
<1>1. CASE Quiet BY <1>1, LiveQuiet, QuietKeeps
<1>2. ASSUME NEW t \in Threads, Filler(t)
      PROVE  \/ Live(b) /\ msg'[b] = msg[b]
             \/ RouteFill /\ b = hand[Io] /\ msg'[b] = cmd
             \/ msg'[b] = Internal
  <2>1. t = Io => RouteFill BY <1>2, Names DEF Filler
  <2> QED BY <1>2, <2>1, LiveFilled
<1>3. ASSUME NEW t \in Threads, Releaser(t) PROVE Live(b) /\ msg'[b] = msg[b] BY <1>3, LiveReleased
<1> QED BY <1>1, <1>2, <1>3, Steps

LEMMA FreshKept ==
    ASSUME IInv, TypeOK', [Next]_vars, ~RouteFill, NEW c \in External, Fresh(c)
    PROVE  Fresh(c)'
<1>1. c # Internal BY Names
<1>2. \A b \in Bufs : Live(b)' /\ msg'[b] = c => FALSE BY <1>1, LiveBefore DEF Fresh
<1> QED BY <1>2 DEF Fresh

\* Whom the task thread executes is in its buffer.
LEMMA HandledTask ==
    ASSUME IInv, Handle
    PROVE  \E b \in Bufs : /\ b = hand[Task] /\ Live(b) /\ Owed(Task, b) > 0
                           /\ \A c \in External : handled'[c] = IF c = msg[b] THEN handled[c] + 1 ELSE handled[c]
<1>1. hand[Task] \in Bufs /\ pc[Task] # "fill" BY DEF IInv, Hands, TaskHand, Handle
<1>2. PICK b \in Bufs : b = hand[Task] BY <1>1
<1>3. Live(b) BY <1>1, <1>2, HandLive DEF IInv
<1>4. Owed(Task, b) = 1 BY <1>1, <1>2, HandOwed
<1>5. msg[b] \in External \cup {Internal} /\ Internal \notin External BY Names DEF IInv, TypeOK
<1>6. \A c \in External : handled'[c] = IF c = msg[b] THEN handled[c] + 1 ELSE handled[c]
  BY <1>2, <1>5 DEF Handle, IInv, TypeOK
<1>7. Owed(Task, b) > 0 BY <1>4
<1> QED BY <1>2, <1>3, <1>6, <1>7

LEMMA SyncHandled ==
    ASSUME IInv, SyncHandle
    PROVE  /\ cmd \in External /\ cmd \notin todo /\ handled[cmd] = 0 /\ Fresh(cmd)
           /\ \A c \in External : handled'[c] = IF c = cmd THEN 1 ELSE handled[c]
<1>1. cmd \in External /\ cmd \notin todo /\ handled[cmd] = 0 /\ Fresh(cmd)
  BY DEF IInv, Routing, SyncHandle
<1> QED BY <1>1 DEF SyncHandle, IInv, TypeOK

\* What was executed stays executed, and what was not received was not.
LEMMA HandledStays ==
    ASSUME IInv, TypeOK', [Next]_vars
    PROVE  /\ \A c \in External : handled[c] = 1 => handled'[c] = 1
           /\ \A c \in todo : handled'[c] = 0
<1>1. CASE Handle
  <2>1. PICK b \in Bufs : /\ b = hand[Task] /\ Live(b)
                          /\ \A c \in External : handled'[c] = IF c = msg[b] THEN handled[c] + 1 ELSE handled[c]
    BY <1>1, HandledTask
  <2>2. \A c \in External : handled'[c] \in 0..1 BY DEF TypeOK
  <2>3. \A c \in External : handled[c] = 1 => handled'[c] = 1 BY <2>1, <2>2
  <2>4. \A c \in todo : c \in External /\ handled[c] = 0 /\ c # msg[b] BY <2>1 DEF IInv, TypeOK, Routing, Sole
  <2> QED BY <2>1, <2>3, <2>4
<1>2. CASE SyncHandle BY <1>2, SyncHandled DEF IInv, TypeOK, Routing
<1>3. CASE ~Handle /\ ~SyncHandle
  <2>1. handled' = handled BY <1>3, HandledBy
  <2> QED BY <2>1 DEF IInv, Routing
<1> QED BY <1>1, <1>2, <1>3

\* The buffer of the I/O thread keeps its message, and its command is not
\* executed by the task thread.
LEMMA IoHandKept ==
    ASSUME IInv, TypeOK', [Next]_vars, IoRests, pc[Io] # "fill", hand[Io] \in Bufs,
           msg[hand[Io]] = cmd, cmd \in External
    PROVE  Live(hand[Io]) /\ msg'[hand[Io]] = cmd /\ handled'[cmd] = handled[cmd]
<1>1. Live(hand[Io]) BY HandLive DEF IInv
<1>2. ~(Handle /\ hand[Io] = hand[Task])
  <2> SUFFICES ASSUME Handle, hand[Io] = hand[Task] PROVE FALSE OBVIOUS
  <2>1. Owed(Io, hand[Io]) = 1 BY HandOwed
  <2>2. Owed(Task, hand[Io]) = 1 BY HandOwed DEF Handle
  <2>3. Owed(Io, hand[Io]) > 0 /\ Owed(Task, hand[Io]) > 0 BY <2>1, <2>2
  <2>4. Io \in Threads /\ Task \in Threads /\ Io # Task BY Names
  <2> QED BY <2>3, <2>4, InOneHand
<1> QED BY <1>1, <1>2, MsgKept, HandledKept

\* A command nobody carries is executed by the I/O thread only.
LEMMA FreshUnread ==
    ASSUME IInv, [Next]_vars, NEW c \in External, Fresh(c), ~SyncHandle
    PROVE  handled'[c] = handled[c]
<1>1. CASE Handle
  <2>1. PICK b \in Bufs : /\ Live(b)
                          /\ \A a \in External : handled'[a] = IF a = msg[b] THEN handled[a] + 1 ELSE handled[a]
    BY <1>1, HandledTask
  <2> QED BY <2>1 DEF Fresh
<1>2. CASE ~Handle BY <1>2, HandledBy
<1> QED BY <1>1, <1>2

LEMMA RoutingRests == ASSUME IInv, TypeOK', [Next]_vars, IoRests PROVE Routing'
<1> USE DEF IInv
<1>t. PlaceTypes BY AllTypes
<1>n. Io \in Threads /\ Acked \subseteq External BY Names
<1>i. IoHand BY DEF Hands
<1>r. /\ cmd \in External => cmd \notin todo
      /\ pc[Io] # "idle" => cmd \in External
      /\ pc[Io] \in {"fill", "sync", "DIRECT"} => Fresh(cmd)
      /\ pc[Io] \in {"fill", "push", "refuse", "sync"} => handled[cmd] = 0
      /\ pc[Io] \in {"push", "refuse", "COMPLETION", "finish"} => msg[hand[Io]] = cmd
      /\ pc[Io] \in {"QUEUED", "DIRECT", "COMPLETION", "finish"} => cmd \in Acked
      /\ pc[Io] \in {"DIRECT", "COMPLETION", "finish"} => handled[cmd] = 1
      /\ pc[Io] = "send" /\ hand[Io] # NoBuf => msg[hand[Io]] = cmd /\ cmd \in Acked /\ handled[cmd] = 1
  BY DEF Routing
<1>0. ~RouteFill /\ ~SyncHandle
  <2>1. RouteFill => pc'[Io] # pc[Io] BY <1>t, <1>n DEF RouteFill, Goto, PlaceTypes
  <2>2. SyncHandle => pc'[Io] # pc[Io] BY <1>t, <1>n DEF SyncHandle, Goto, PlaceTypes
  <2> QED BY <2>1, <2>2 DEF IoRests
<1>e. pc'[Io] = pc[Io] /\ hand'[Io] = hand[Io] /\ cmd' = cmd /\ todo' = todo BY DEF IoRests
<1>1. pc[Io] \in {"fill", "sync", "DIRECT"} => Fresh(cmd)'
  <2> SUFFICES ASSUME pc[Io] \in {"fill", "sync", "DIRECT"} PROVE Fresh(cmd)' OBVIOUS
  <2>1. PICK c \in External : c = cmd BY <1>r
  <2>2. Fresh(c)' BY <2>1, <1>r, <1>0, FreshKept
  <2> QED BY <2>1, <2>2, <1>e DEF Fresh
<1>2. pc[Io] \in {"fill", "sync"} => handled'[cmd] = 0
  BY <1>r, <1>0, FreshUnread
<1>3. pc[Io] \in {"push", "refuse"} => handled'[cmd] = 0
  BY <1>r, <1>i, IoHandKept DEF IoHand
<1>4. pc[Io] \in {"push", "refuse", "COMPLETION", "finish"} => msg'[hand[Io]] = cmd
  BY <1>r, <1>i, IoHandKept DEF IoHand
<1>5. pc[Io] = "send" /\ hand[Io] # NoBuf => msg'[hand[Io]] = cmd /\ cmd \in Acked /\ handled'[cmd] = 1
  <2> SUFFICES ASSUME pc[Io] = "send", hand[Io] # NoBuf
               PROVE  msg'[hand[Io]] = cmd /\ cmd \in Acked /\ handled'[cmd] = 1
    OBVIOUS
  <2>1. pc[Io] # "fill" /\ hand[Io] \in Bufs BY <1>t, <1>n DEF PlaceTypes
  <2> QED BY <2>1, <1>r, <1>n, IoHandKept
<1>6. pc[Io] \in {"DIRECT", "COMPLETION", "finish"} => handled'[cmd] = 1
  BY <1>r, <1>n, HandledStays
<1>7. \A c \in todo' : handled'[c] = 0 BY <1>e, HandledStays
<1> QED BY <1>r, <1>e, <1>1, <1>2, <1>3, <1>4, <1>5, <1>6, <1>7 DEF Routing

LEMMA RoutingStep == ASSUME IInv, TypeOK', [Next]_vars PROVE Routing'
<1> USE DEF IInv
<1>t. PlaceTypes BY AllTypes
<1>n. /\ Io \in Threads /\ Acked \subseteq External /\ NoBuf \notin Bufs /\ Internal \notin External
  BY Names
<1>i. IoHand BY DEF Hands
<1>c. cmd \in External => cmd \notin todo BY DEF Routing
<1>7. \A c \in todo' : handled'[c] = 0 BY HandledStays, TodoStep
<1>1. ASSUME NEW c \in External, Receive(c) PROVE Routing'
  <2>1. /\ c \in todo /\ cmd' = c /\ c \notin todo' /\ handled' = handled /\ handled[c] = 0
        /\ pc'[Io] \in {"fill", "sync"}
    BY <1>1, <1>t, <1>n DEF Receive, Goto, PlaceTypes, Routing
  <2>2. Fresh(c) BY <2>1 DEF Sole, Fresh
  <2>3. ~RouteFill BY <1>1 DEF Receive, RouteFill
  <2>4. Fresh(c)' BY <2>2, <2>3, FreshKept
  <2>5. Fresh(cmd)' BY <2>1, <2>4 DEF Fresh
  <2> QED BY <2>1, <2>5, <1>7 DEF Routing
<1>2. CASE RouteFill
  <2>1. /\ pc[Io] = "fill" /\ pc'[Io] = "push" /\ hand' = hand /\ cmd' = cmd /\ todo' = todo /\ handled' = handled
        /\ cmd \in External /\ handled[cmd] = 0 /\ Filler(Io)
    BY <1>2, <1>t, <1>n DEF RouteFill, Goto, PlaceTypes, client, Routing, Filler
  <2>2. msg'[hand[Io]] = cmd BY <2>1, <1>n, LiveFilled
  <2> QED BY <2>1, <2>2, <1>7, <1>c DEF Routing
<1>3. CASE RoutePush
  <2>1. /\ pc[Io] = "push" /\ pc'[Io] \in {"QUEUED", "idle", "refuse"} /\ cmd' = cmd /\ todo' = todo /\ handled' = handled
        /\ msg' = msg /\ cmd \in External /\ msg[hand[Io]] = cmd /\ handled[cmd] = 0
        /\ (pc'[Io] = "QUEUED" => cmd \in Acked) /\ (pc'[Io] = "refuse" => hand' = hand)
    BY <1>3, <1>t, <1>n DEF RoutePush, Goto, PlaceTypes, client, Routing
  <2> QED BY <2>1, <1>7, <1>c DEF Routing
<1>4. CASE RouteRefused
  <2>1. /\ pc[Io] = "refuse" /\ pc'[Io] = "sync" /\ cmd' = cmd /\ todo' = todo /\ handled' = handled
        /\ cmd \in External /\ msg[hand[Io]] = cmd /\ handled[cmd] = 0 /\ Releaser(Io)
    BY <1>4, <1>t, <1>n DEF RouteRefused, Goto, PlaceTypes, client, Routing, Releaser
  <2>2. PICK a \in Bufs : /\ a = hand[Io] /\ Live(a) /\ msg' = msg
                          /\ \A b \in Bufs \ {a} : (Live(b)' <=> Live(b))
                          /\ Live(a)' => refs[a] # 1
    BY <2>1, <1>n, LiveReleased
  <2>3. ~Live(a)' BY <2>1, <2>2 DEF Sole
  <2>4. \A b \in Bufs : msg'[b] = cmd /\ Live(b)' => FALSE BY <2>1, <2>2, <2>3 DEF Sole
  <2>5. Fresh(cmd)' BY <2>1, <2>4 DEF Fresh
  <2> QED BY <2>1, <2>5, <1>7, <1>c DEF Routing
<1>5. CASE SyncHandle
  <2>1. /\ pc[Io] = "sync" /\ pc'[Io] = (IF cmd \in Acked THEN "DIRECT" ELSE "idle") /\ cmd' = cmd /\ todo' = todo
        /\ cmd \in External /\ handled'[cmd] = 1 /\ Fresh(cmd)
    BY <1>5, <1>t, <1>n, SyncHandled DEF SyncHandle, Goto, PlaceTypes, client
  <2>2. ~RouteFill BY <2>1 DEF RouteFill
  <2>3. PICK c \in External : c = cmd BY <2>1
  <2>4. Fresh(c)' BY <2>1, <2>2, <2>3, FreshKept
  <2>5. Fresh(cmd)' BY <2>1, <2>3, <2>4 DEF Fresh
  <2> QED BY <2>1, <2>5, <1>7, <1>c DEF Routing
<1>6. CASE PopCompletion
  <2>1. Done \in Queues /\ Done[1] = "done" BY QueueNames
  <2>2. Head(queue[Done]) \in Bufs /\ InQueue(Done, Head(queue[Done])) BY <1>6, <2>1, InPopped DEF PopCompletion
  <2>3. PICK b \in Bufs : b = Head(queue[Done]) /\ InQueue(Done, b) BY <2>2
  <2>4. Live(b) /\ Read(b) BY <2>1, <2>3, QueuedLive DEF Places, InSlot
  <2>5. /\ pc'[Io] = "COMPLETION" /\ hand'[Io] = b /\ cmd' = msg[b] /\ msg' = msg /\ handled' = handled /\ todo' = todo
    BY <1>6, <2>3, <1>t, <1>n DEF PopCompletion, Goto, PlaceTypes, client
  <2>6. msg[b] \in Acked /\ handled[msg[b]] = 1 /\ msg[b] \in External BY <2>4, <1>n DEF Read
  <2>7. msg[b] \notin todo BY <2>4, <2>6 DEF Sole
  <2> QED BY <2>5, <2>6, <2>7, <1>7 DEF Routing
<1>8. CASE EncodeAck
  <2>1. /\ pc[Io] \in Stages /\ pc'[Io] = "send" /\ hand' = hand /\ cmd' = cmd /\ todo' = todo /\ msg' = msg
        /\ cmd \in Acked /\ handled' = handled
    BY <1>8, <1>t, <1>n DEF EncodeAck, Goto, PlaceTypes, Routing, Stages
  <2>2. hand[Io] # NoBuf => msg[hand[Io]] = cmd /\ handled[cmd] = 1 BY <2>1, <1>i DEF IoHand, Stages, Routing
  <2> QED BY <2>1, <2>2, <1>7, <1>c, <1>n DEF Routing
<1>9. CASE Send(Io)
  <2>1. /\ pc[Io] = "send" /\ pc'[Io] = (IF hand[Io] = NoBuf THEN "idle" ELSE "finish")
        /\ hand' = hand /\ cmd' = cmd /\ todo' = todo /\ msg' = msg /\ handled' = handled /\ cmd \in External
    BY <1>9, <1>t, <1>n DEF Send, Goto, PlaceTypes, Routing, client
  <2>2. hand[Io] # NoBuf => msg[hand[Io]] = cmd /\ cmd \in Acked /\ handled[cmd] = 1 BY <2>1 DEF Routing
  <2> QED BY <2>1, <2>2, <1>7, <1>c DEF Routing
<1>10. CASE Finish(Io)
  <2>1. pc'[Io] = "idle" /\ cmd' = cmd /\ todo' = todo
    BY <1>10, <1>t, <1>n DEF Finish, Goto, PlaceTypes, client
  <2> QED BY <2>1, <1>7, <1>c DEF Routing
<1>11. TaskAction \/ NextQueue \/ (\E w \in Workers : WorkAction(w)) \/ UNCHANGED vars => IoRests
  BY TaskAlone, WorkAlone, RestOfQueue
<1>12. CASE IoRests BY <1>12, RoutingRests
<1> QED BY <1>1, <1>2, <1>3, <1>4, <1>5, <1>6, <1>8, <1>9, <1>10, <1>11, <1>12, Kinds DEF IoAction

----------------------------------------------------------------------------
(* The frames built for a command.                                         *)

LEMMA FirstOf == \A x : Append(<<>>, x) = <<x>>
  OBVIOUS

LEMMA PairOf == ASSUME NEW S, NEW x \in S, NEW y \in S PROVE Append(<<x>>, y) = <<x, y>>
<1>1. <<x>> \in Seq(S) /\ Len(<<x>>) = 1 /\ <<x>>[1] = x OBVIOUS
<1>2. PICK s \in Seq(S) : s = <<x>> BY <1>1
<1>3. Append(s, y) \in Seq(S) /\ Len(Append(s, y)) = 2 /\ Append(s, y)[1] = x /\ Append(s, y)[2] = y
  <2>1. Len(s) = 1 /\ s[1] = x BY <1>1, <1>2
  <2>2. /\ Append(s, y) \in Seq(S) /\ Len(Append(s, y)) = Len(s) + 1 /\ Append(s, y)[Len(s) + 1] = y
        /\ \A i \in 1 .. Len(s) : Append(s, y)[i] = s[i]
    BY SeqFacts
  <2>3. 1 \in 1 .. 1 /\ 1 + 1 = 2 OBVIOUS
  <2> QED BY <2>1, <2>2, <2>3
<1>4. <<x, y>> \in Seq(S) OBVIOUS
<1>5. Len(<<x, y>>) = 2 OBVIOUS
<1>6. <<x, y>>[1] = x /\ <<x, y>>[2] = y OBVIOUS
<1>7. PICK r \in Seq(S) : r = <<x, y>> BY <1>4
<1>8. \A i \in 1 .. 2 : Append(s, y)[i] = r[i]
  <2>1. 1 .. 2 = {1, 2} OBVIOUS
  <2>2. r[1] = x /\ r[2] = y BY <1>6, <1>7
  <2> QED BY <1>3, <2>1, <2>2
<1>9. Len(r) = 2 BY <1>5, <1>7
<1>10. Append(s, y) = r BY <1>3, <1>8, <1>9, SeqEqual
<1> QED BY <1>10, <1>7, <1>2

LEMMA FrameSeqs ==
  /\ Append(<<>>, "QUEUED") = <<"QUEUED">> /\ Append(<<>>, "DIRECT") = <<"DIRECT">>
  /\ Append(<<"QUEUED">>, "COMPLETION") = Complete
<1>1. "QUEUED" \in Stages /\ "COMPLETION" \in Stages BY DEF Stages
<1>2. Append(<<"QUEUED">>, "COMPLETION") = <<"QUEUED", "COMPLETION">> BY <1>1, PairOf
<1> QED BY <1>2, FirstOf DEF Complete

\* What is live with an acknowledged command was before, but for a fill.
LEMMA AckedBefore ==
    ASSUME IInv, TypeOK', [Next]_vars, ~RouteFill
    PROVE  \A b \in Bufs : Live(b)' /\ msg'[b] \in Acked => Live(b) /\ msg'[b] = msg[b]
<1>1. Internal \notin Acked BY Names
<1> QED BY <1>1, LiveBefore

\* One buffer has a command the I/O thread gives back.
LEMMA IoReleased ==
    ASSUME IInv, TypeOK', [Next]_vars, Releaser(Io), msg[hand[Io]] = cmd, cmd \in External
    PROVE  \A b \in Bufs : Live(b)' /\ msg'[b] \in External => Live(b) /\ b # hand[Io] /\ msg'[b] = msg[b]
<1>1. PICK a \in Bufs : /\ a = hand[Io] /\ Live(a) /\ msg' = msg
                        /\ \A b \in Bufs \ {a} : (Live(b)' <=> Live(b))
                        /\ Live(a)' => refs[a] # 1
  BY Names, LiveReleased
<1>2. ~Live(a)' BY <1>1 DEF IInv, Sole
<1> QED BY <1>1, <1>2

LEMMA FramesRests == ASSUME IInv, TypeOK', [Next]_vars, IoRests PROVE Frames'
<1> USE DEF IInv
<1>t. PlaceTypes BY AllTypes
<1>n. Io \in Threads BY Names
<1>0. ~RouteFill BY <1>t, <1>n DEF RouteFill, Goto, PlaceTypes, IoRests
<1>1. \A b \in Bufs : Live(b)' /\ msg'[b] \in Acked => Live(b) /\ msg'[b] = msg[b] BY <1>0, AckedBefore
<1> QED BY <1>1 DEF Frames, IoRests, AckOrder

LEMMA FramesStep == ASSUME IInv, TypeOK', [Next]_vars PROVE Frames'
<1> USE DEF IInv
<1>t. PlaceTypes BY AllTypes
<1>n. /\ Io \in Threads /\ Acked \subseteq External /\ NoBuf \notin Bufs BY Names
<1>i. IoHand BY DEF Hands
<1>f. /\ AckOrder
      /\ \A c \in External : c \in todo \/ c \notin Acked \/ (cmd = c /\ pc[Io] \in Early) => acks[c] = <<>>
      /\ pc[Io] = "COMPLETION" => acks[cmd] = <<"QUEUED">>
      /\ pc[Io] = "finish" \/ (pc[Io] = "send" /\ hand[Io] # NoBuf) => acks[cmd] = Complete
      /\ \A b \in Bufs : Live(b) /\ msg[b] \in Acked /\ hand[Io] # b =>
           acks[msg[b]] = IF cmd = msg[b] /\ pc[Io] = "QUEUED" THEN <<>> ELSE <<"QUEUED">>
  BY DEF Frames
<1>a. ~RouteFill => \A b \in Bufs : Live(b)' /\ msg'[b] \in Acked => Live(b) /\ msg'[b] = msg[b]
  BY AckedBefore
<1>s. \A a, b \in Bufs : Live(a) /\ Live(b) /\ msg[a] \in External /\ msg[a] = msg[b] => a = b
  BY DEF Sole
<1>o. acks' = acks => AckOrder' BY <1>f DEF AckOrder
<1>1. ASSUME NEW c \in External, Receive(c) PROVE Frames'
  <2>1. /\ c \in todo /\ cmd' = c /\ todo' \subseteq todo /\ acks' = acks /\ pc'[Io] \in {"fill", "sync"}
        /\ pc[Io] = "idle" /\ hand[Io] = NoBuf /\ ~RouteFill
    BY <1>1, <1>t, <1>n, <1>i DEF Receive, Goto, PlaceTypes, IoHand, RouteFill
  <2>2. \A b \in Bufs : Live(b)' /\ msg'[b] \in Acked => acks'[msg'[b]] = <<"QUEUED">>
    BY <2>1, <1>a, <1>f, <1>n
  <2> QED BY <2>1, <2>2, <1>f, <1>o DEF Frames
<1>2. CASE RouteFill
  <2>1. /\ pc[Io] = "fill" /\ pc'[Io] = "push" /\ hand' = hand /\ cmd' = cmd /\ todo' = todo /\ acks' = acks
        /\ Filler(Io)
    BY <1>2, <1>t, <1>n DEF RouteFill, Goto, PlaceTypes, client, Filler
  <2>2. \A b \in Bufs \ {hand[Io]} : (Live(b)' <=> Live(b)) /\ msg'[b] = msg[b] BY <2>1, <1>n, LiveFilled
  <2> QED BY <2>1, <2>2, <1>f, <1>o DEF Frames, Early
<1>3. CASE RoutePush
  <2>1. /\ pc[Io] = "push" /\ hand[Io] \in Bufs /\ cmd' = cmd /\ todo' = todo /\ acks' = acks
        /\ msg[hand[Io]] = cmd /\ cmd \in External /\ ~RouteFill
    BY <1>3, <1>i DEF RoutePush, client, Routing, IoHand, RouteFill
  <2>2. Live(hand[Io]) BY <2>1, HandLive
  <2>3. \/ pc'[Io] = "refuse" /\ hand' = hand
        \/ hand'[Io] = NoBuf /\ pc'[Io] = IF cmd \in Acked THEN "QUEUED" ELSE "idle"
    BY <1>3, <1>t, <1>n DEF RoutePush, Goto, Drop, PlaceTypes
  <2>4. acks[cmd] = <<>> BY <2>1, <1>f DEF Early
  <2>5. \A b \in Bufs : Live(b) /\ msg[b] = cmd => b = hand[Io] BY <2>1, <2>2, <1>s
  <2>6. \A c \in External : c \in todo' \/ c \notin Acked \/ (cmd' = c /\ pc'[Io] \in Early) => acks'[c] = <<>>
    BY <2>1, <2>4, <1>f
  <2>7. \A b \in Bufs : Live(b)' /\ msg'[b] \in Acked /\ hand'[Io] # b =>
          acks'[msg'[b]] = IF cmd' = msg'[b] /\ pc'[Io] = "QUEUED" THEN <<>> ELSE <<"QUEUED">>
    <3> SUFFICES ASSUME NEW b \in Bufs, Live(b)', msg'[b] \in Acked, hand'[Io] # b
                 PROVE  acks[msg'[b]] = IF cmd = msg'[b] /\ pc'[Io] = "QUEUED" THEN <<>> ELSE <<"QUEUED">>
      BY <2>1
    <3>1. Live(b) /\ msg'[b] = msg[b] BY <2>1, <1>a
    <3>2. CASE b = hand[Io] BY <3>1, <3>2, <2>1, <2>3, <2>4
    <3>3. CASE b # hand[Io] BY <3>1, <3>3, <2>1, <2>5, <1>f
    <3> QED BY <3>2, <3>3
  <2> QED BY <2>1, <2>3, <2>6, <2>7, <1>o DEF Frames
<1>4. CASE RouteRefused
  <2>1. /\ pc[Io] = "refuse" /\ pc'[Io] = "sync" /\ cmd' = cmd /\ todo' = todo /\ acks' = acks
        /\ cmd \in External /\ msg[hand[Io]] = cmd /\ Releaser(Io)
    BY <1>4, <1>t, <1>n DEF RouteRefused, Goto, PlaceTypes, client, Routing, Releaser
  <2>2. \A b \in Bufs : Live(b)' /\ msg'[b] \in Acked => Live(b) /\ b # hand[Io] /\ msg'[b] = msg[b]
    BY <2>1, <1>n, IoReleased
  <2> QED BY <2>1, <2>2, <1>f, <1>o DEF Frames, Early
<1>5. CASE SyncHandle
  <2>1. /\ pc[Io] = "sync" /\ pc'[Io] = (IF cmd \in Acked THEN "DIRECT" ELSE "idle") /\ cmd' = cmd /\ todo' = todo
        /\ hand' = hand /\ acks' = acks /\ ~RouteFill
    BY <1>5, <1>t, <1>n DEF SyncHandle, Goto, PlaceTypes, client, RouteFill
  <2> QED BY <2>1, <1>a, <1>f, <1>o DEF Frames, Early
<1>6. CASE PopCompletion
  <2>1. Done \in Queues /\ Done[1] = "done" BY QueueNames
  <2>2. Head(queue[Done]) \in Bufs /\ InQueue(Done, Head(queue[Done])) BY <1>6, <2>1, InPopped DEF PopCompletion
  <2>3. PICK b \in Bufs : b = Head(queue[Done]) /\ InQueue(Done, b) BY <2>2
  <2>4. Live(b) /\ msg[b] \in Acked BY <2>1, <2>3, QueuedLive DEF Places, InSlot, Read
  <2>5. /\ pc[Io] = "idle" /\ hand[Io] = NoBuf /\ pc'[Io] = "COMPLETION" /\ hand'[Io] = b /\ cmd' = msg[b]
        /\ todo' = todo /\ acks' = acks /\ ~RouteFill
    BY <1>6, <2>3, <1>t, <1>n, <1>i DEF PopCompletion, Goto, PlaceTypes, client, IoHand, RouteFill
  <2>6. \A a \in Bufs : Live(a) /\ msg[a] \in Acked => acks[msg[a]] = <<"QUEUED">> BY <2>5, <1>f, <1>n
  <2>7. acks'[cmd'] = <<"QUEUED">> BY <2>4, <2>5, <2>6
  <2>8. \A a \in Bufs : Live(a)' /\ msg'[a] \in Acked => acks'[msg'[a]] = <<"QUEUED">> BY <2>5, <2>6, <1>a
  <2> QED BY <2>5, <2>7, <2>8, <1>f, <1>o DEF Frames, Early
<1>8. CASE EncodeAck
  <2>1. /\ pc[Io] \in Stages /\ pc'[Io] = "send" /\ hand' = hand /\ cmd' = cmd /\ todo' = todo /\ ~RouteFill
        /\ cmd \in Acked /\ cmd \in External /\ cmd \notin todo
        /\ acks' = [acks EXCEPT ![cmd] = Append(acks[cmd], pc[Io])]
    BY <1>8, <1>t, <1>n DEF EncodeAck, Goto, PlaceTypes, Routing, Stages, RouteFill
  <2>2. /\ acks'[cmd] = Append(acks[cmd], pc[Io])
        /\ \A c \in External \ {cmd} : acks'[c] = acks[c]
    BY <2>1 DEF TypeOK
  <2>3. \/ pc[Io] = "QUEUED" /\ acks'[cmd] = <<"QUEUED">> /\ hand[Io] = NoBuf
        \/ pc[Io] = "DIRECT" /\ acks'[cmd] = <<"DIRECT">> /\ hand[Io] = NoBuf /\ Fresh(cmd)
        \/ pc[Io] = "COMPLETION" /\ acks'[cmd] = Complete /\ hand[Io] \in Bufs /\ msg[hand[Io]] = cmd
           /\ Live(hand[Io])
    <3>1. CASE pc[Io] = "QUEUED" BY <3>1, <2>1, <2>2, <1>f, <1>i, FrameSeqs DEF Early, IoHand
    <3>2. CASE pc[Io] = "DIRECT" BY <3>2, <2>1, <2>2, <1>f, <1>i, FrameSeqs DEF Early, IoHand, Routing
    <3>3. CASE pc[Io] = "COMPLETION"
      <4>1. hand[Io] \in Bufs /\ msg[hand[Io]] = cmd BY <3>3, <1>i DEF IoHand, Routing
      <4>2. Live(hand[Io]) BY <3>3, <4>1, HandLive
      <4>3. acks'[cmd] = Complete BY <3>3, <2>2, <1>f, FrameSeqs
      <4> QED BY <3>3, <4>1, <4>2, <4>3
    <3> QED BY <3>1, <3>2, <3>3, <2>1 DEF Stages
  <2>4. AckOrder'
    <3>1. acks'[cmd] \in {<<>>, <<"QUEUED">>, <<"QUEUED", "COMPLETION">>, <<"DIRECT">>} BY <2>3 DEF Complete
    <3> QED BY <3>1, <2>2, <1>f DEF AckOrder
  <2>5. \A c \in External : c \in todo \/ c \notin Acked => acks'[c] = <<>> BY <2>1, <2>2, <1>f
  <2>6. \A b \in Bufs : Live(b)' /\ msg'[b] \in Acked /\ hand[Io] # b => acks'[msg'[b]] = <<"QUEUED">>
    <3> SUFFICES ASSUME NEW b \in Bufs, Live(b)', msg'[b] \in Acked, hand[Io] # b
                 PROVE  acks'[msg'[b]] = <<"QUEUED">>
      OBVIOUS
    <3>1. Live(b) /\ msg'[b] = msg[b] /\ msg[b] \in External BY <2>1, <1>a, <1>n
    <3>2. CASE msg[b] = cmd BY <3>1, <3>2, <2>3, <1>s DEF Fresh
    <3>3. CASE msg[b] # cmd BY <3>1, <3>3, <2>2, <1>f
    <3> QED BY <3>2, <3>3
  <2>7. hand[Io] # NoBuf => acks'[cmd] = Complete BY <2>3
  <2> QED BY <2>1, <2>4, <2>5, <2>6, <2>7 DEF Frames, Early
<1>9. CASE Send(Io)
  <2>1. /\ pc[Io] = "send" /\ pc'[Io] = (IF hand[Io] = NoBuf THEN "idle" ELSE "finish") /\ ~RouteFill
        /\ hand' = hand /\ cmd' = cmd /\ todo' = todo /\ acks' = acks
    BY <1>9, <1>t, <1>n DEF Send, Goto, PlaceTypes, client, RouteFill
  <2> QED BY <2>1, <1>a, <1>f, <1>o DEF Frames, Early
<1>10. CASE Finish(Io)
  <2>1. /\ pc[Io] = "finish" /\ pc'[Io] = "idle" /\ cmd' = cmd /\ todo' = todo /\ acks' = acks
        /\ cmd \in External /\ msg[hand[Io]] = cmd /\ Releaser(Io)
    BY <1>10, <1>t, <1>n DEF Finish, Goto, PlaceTypes, client, Releaser, Routing
  <2>2. \A b \in Bufs : Live(b)' /\ msg'[b] \in Acked => Live(b) /\ b # hand[Io] /\ msg'[b] = msg[b]
    BY <2>1, <1>n, IoReleased
  <2> QED BY <2>1, <2>2, <1>f, <1>o DEF Frames, Early
<1>11. TaskAction \/ NextQueue \/ (\E w \in Workers : WorkAction(w)) \/ UNCHANGED vars => IoRests
  BY TaskAlone, WorkAlone, RestOfQueue
<1>12. CASE IoRests BY <1>12, FramesRests
<1> QED BY <1>1, <1>2, <1>3, <1>4, <1>5, <1>6, <1>8, <1>9, <1>10, <1>11, <1>12, Kinds DEF IoAction

----------------------------------------------------------------------------
(* The outcomes.                                                           *)

\* A live buffer has command c, and is not only waiting to be released.
Has(b, c) == Live(b) /\ msg[b] = c
Spent(b) == hand[Task] = b /\ pc[Task] = "finish"
Carries(c) == \E b \in Bufs : Has(b, c) /\ ~Spent(b)

LEMMA CarriedIs == \A c : Carried(c) # {} <=> Carries(c)
  BY DEF Carried, Carries, Has, Spent, Live

\* The buffers with a command change by the I/O thread's fill and release
\* and by the task thread's release only.
LEMMA HasSame ==
    ASSUME IInv, TypeOK', [Next]_vars, ~RouteFill, ~RouteRefused, ~Finish(Io), ~Finish(Task)
    PROVE  \A b \in Bufs, c \in External : Has(b, c)' <=> Has(b, c)
<1>n. Internal \notin External /\ Workers \subseteq Threads BY Names
<1>1. CASE Quiet BY <1>1, LiveQuiet, QuietKeeps DEF Has
<1>2. ASSUME NEW t \in Threads, Filler(t) PROVE \A b \in Bufs, c \in External : Has(b, c)' <=> Has(b, c)
  <2>1. t # Io BY <1>2, Names DEF Filler
  <2>2. PICK a \in Bufs : /\ ~Live(a) /\ msg'[a] = Internal
                          /\ \A b \in Bufs \ {a} : (Live(b)' <=> Live(b)) /\ msg'[b] = msg[b]
    BY <1>2, <2>1, LiveFilled
  <2> QED BY <2>2, <1>n DEF Has
<1>3. ASSUME NEW t \in Threads, Releaser(t) PROVE \A b \in Bufs, c \in External : Has(b, c)' <=> Has(b, c)
  <2>1. t \in Workers /\ PostRelease(t) BY <1>3 DEF Releaser
  <2>2. PICK a \in Bufs : /\ a = hand[t] /\ msg' = msg
                          /\ \A b \in Bufs \ {a} : Live(b)' <=> Live(b)
    BY <1>3, LiveReleased
  <2>3. Owed(t, a) > 0
    <3>1. pc[t] = "push" /\ failed[t] > 0 /\ Len(left[t]) \in Nat /\ failed[t] \in Nat
      BY <2>1, Recipient DEF PostRelease, IInv
    <3>2. Owed(t, a) = Len(left[t]) + failed[t] BY <2>1, <2>2, <3>1 DEF Owed
    <3> QED BY <3>1, <3>2
  <2>4. msg[a] = Internal BY <2>1, <2>3 DEF IInv, Places
  <2> QED BY <2>2, <2>4, <1>n DEF Has
<1> QED BY <1>1, <1>2, <1>3, Steps

LEMMA HasFilled ==
    ASSUME IInv, TypeOK', RouteFill
    PROVE  \A b \in Bufs, c \in External \ {cmd} : Has(b, c)' <=> Has(b, c)
<1>1. Filler(Io) /\ Io \in Threads BY Names DEF Filler
<1>2. PICK a \in Bufs : /\ ~Live(a) /\ msg'[a] = cmd
                        /\ \A b \in Bufs \ {a} : (Live(b)' <=> Live(b)) /\ msg'[b] = msg[b]
  BY <1>1, LiveFilled
<1> QED BY <1>2 DEF Has

LEMMA HasReleased ==
    ASSUME IInv, TypeOK', NEW t \in {Io, Task}, Releaser(t)
    PROVE  \A b \in Bufs \ {hand[t]}, c \in External : Has(b, c)' <=> Has(b, c)
<1>1. t \in Threads BY Names
<1>2. PICK a \in Bufs : /\ a = hand[t] /\ msg' = msg
                        /\ \A b \in Bufs \ {a} : Live(b)' <=> Live(b)
  BY <1>1, LiveReleased
<1> QED BY <1>2 DEF Has

\* The I/O thread and the task thread do not have one command's buffer both.
LEMMA HandsApart ==
    ASSUME IInv, NEW b \in Bufs, msg[b] \in External, hand[Io] = b, pc[Io] # "fill",
           hand[Task] = b, pc[Task] # "fill"
    PROVE  FALSE
<1>1. Owed(Io, b) = 1 /\ Owed(Task, b) = 1 BY HandOwed
<1>2. Owed(Io, b) > 0 /\ Owed(Task, b) > 0 BY <1>1
<1> QED BY <1>2, Names, InOneHand

LEMMA IoCarries ==
    ASSUME IInv, pc[Io] \in {"push", "refuse", "COMPLETION"}
    PROVE  Carries(cmd)
<1>1. hand[Io] \in Bufs /\ msg[hand[Io]] = cmd /\ cmd \in External /\ pc[Io] # "fill"
  BY DEF IInv, Hands, IoHand, Routing
<1>2. PICK b \in Bufs : b = hand[Io] BY <1>1
<1>3. Live(b) BY <1>1, <1>2, HandLive DEF IInv
<1>4. ~Spent(b) BY <1>1, <1>2, HandsApart DEF Spent
<1> QED BY <1>1, <1>2, <1>3, <1>4 DEF Carries, Has

LEMMA CarriesIo ==
    ASSUME IInv, TypeOK', [Next]_vars, TaskRests, ~Finish(Task)
    PROVE  \A c \in External : c # cmd \/ (~RouteFill /\ ~RouteRefused /\ ~Finish(Io)) =>
             (Carries(c)' <=> Carries(c))
<1> USE DEF IInv
<1>s. \A b \in Bufs : Spent(b)' <=> Spent(b) BY DEF TaskRests, Spent
<1>1. CASE ~RouteFill /\ ~RouteRefused /\ ~Finish(Io)
  BY <1>1, <1>s, HasSame DEF Carries
<1>2. CASE RouteFill BY <1>2, <1>s, HasFilled DEF Carries
<1>3. CASE RouteRefused \/ Finish(Io)
  <2>1. Releaser(Io) BY <1>3 DEF Releaser
  <2>2. msg[hand[Io]] = cmd BY <1>3 DEF RouteRefused, Finish, Routing
  <2>3. msg' = msg BY <1>3 DEF RouteRefused, Finish
  <2>4. \A b \in Bufs, c \in External \ {cmd} : Has(b, c)' <=> Has(b, c)
    <3>1. \A b \in Bufs \ {hand[Io]}, c \in External : Has(b, c)' <=> Has(b, c) BY <2>1, HasReleased
    <3> QED BY <3>1, <2>2, <2>3 DEF Has
  <2> QED BY <2>4, <1>3, <1>s DEF Carries, RouteFill, RouteRefused, Finish
<1> QED BY <1>1, <1>2, <1>3

\* Of the task thread's steps, only an outcome without room and the end of
\* an execution without acknowledgement leave a command's buffer spent.
LEMMA CarriesTask ==
    ASSUME IInv, TypeOK', [Next]_vars, TaskAction
    PROVE  \A c \in External : \/ Carries(c)' <=> Carries(c)
                               \/ Handle /\ c = msg[hand[Task]] /\ c \notin Acked
                               \/ HandOver /\ ~HasRoom(Done) /\ c = msg[hand[Task]]
<1> USE DEF IInv
<1>t. PlaceTypes BY AllTypes
<1>n. /\ Io \in Threads /\ Task \in Threads /\ Io # Task /\ NoBuf \notin Bufs /\ Internal \notin External
  BY Names
<1>h. TaskHand BY DEF Hands
<1>1. CASE Finish(Task)
  <2>1. pc[Task] = "finish" /\ pc'[Task] = "idle" /\ hand[Task] \in Bufs /\ hand'[Task] = NoBuf /\ Releaser(Task)
    BY <1>1, <1>t, <1>n, <1>h DEF Finish, Goto, Drop, PlaceTypes, TaskHand, Releaser
  <2>2. \A b \in Bufs \ {hand[Task]}, c \in External : Has(b, c)' <=> Has(b, c) BY <2>1, HasReleased
  <2>3. PICK a \in Bufs : a = hand[Task] /\ msg' = msg /\ Live(a) /\ (Live(a)' => refs[a] # 1)
    BY <2>1, <1>n, LiveReleased
  <2>4. \A c \in External : ~Has(a, c)' BY <2>3 DEF Has, Sole
  <2>5. \A b \in Bufs : ~Spent(b)' BY <2>1, <1>n DEF Spent
  <2>6. \A b \in Bufs : Spent(b) <=> b = a BY <2>1, <2>3 DEF Spent
  <2> QED BY <2>2, <2>3, <2>4, <2>5, <2>6 DEF Carries
<1>2. CASE TaskAction /\ ~Finish(Task)
  <2>0. ~RouteFill /\ ~RouteRefused /\ ~Finish(Io)
    <3>1. IoRests BY <1>2, TaskAlone
    <3> QED BY <3>1, <1>t, <1>n DEF RouteFill, RouteRefused, Finish, Goto, PlaceTypes, IoRests
  <2>1. \A b \in Bufs, c \in External : Has(b, c)' <=> Has(b, c) BY <2>0, <1>2, HasSame
  <2>a. \A b \in Bufs : ~Spent(b)
    BY <1>2 DEF Spent, TaskAction, Pop, EncodeTelemetry, Handle, HandOver, Send
  <2>2. CASE pc'[Task] # "finish"
    <3>1. \A b \in Bufs : ~Spent(b)' BY <2>2 DEF Spent
    <3> QED BY <2>1, <2>a, <3>1 DEF Carries
  <2>3. CASE pc'[Task] = "finish"
    <3>1. \/ Handle /\ msg[hand[Task]] \notin Acked
          \/ HandOver /\ ~HasRoom(Done)
          \/ Send(Task)
      BY <2>3, <1>2, <1>t, <1>n DEF TaskAction, Pop, EncodeTelemetry, Handle, HandOver, Send, Goto, PlaceTypes
    <3>2. hand' = hand /\ hand[Task] \in Bufs /\ msg' = msg
      BY <3>1, <1>h DEF Handle, HandOver, Send, TaskHand
    <3>3. \A b \in Bufs : Spent(b)' <=> b = hand[Task] BY <2>3, <3>2 DEF Spent
    <3>4. \A c \in External \ {msg[hand[Task]]} : Carries(c)' <=> Carries(c)
      BY <2>1, <2>a, <3>2, <3>3 DEF Carries, Has
    <3>5. CASE Handle /\ msg[hand[Task]] \notin Acked BY <3>4, <3>5
    <3>6. CASE HandOver /\ ~HasRoom(Done) BY <3>4, <3>6
    <3>7. CASE Send(Task)
      <4>1. msg[hand[Task]] = Internal BY <3>2, <3>7 DEF Send, Places, AtTask
      <4> QED BY <4>1, <3>4, <1>n
    <3> QED BY <3>1, <3>5, <3>6, <3>7
  <2> QED BY <2>2, <2>3
<1> QED BY <1>1, <1>2

\* The client has been sent no outcome.
Unanswered == {<<>>, <<"QUEUED">>}

LEMMA AnswerIs ==
  \A a \in {<<>>, <<"QUEUED">>, <<"QUEUED", "COMPLETION">>, <<"DIRECT">>} :
    (~ \E s \in {"COMPLETION", "DIRECT"} : s \in ToSet(a)) <=> a \in Unanswered
<1>1. /\ ToSet(<<>>) = {} /\ ToSet(<<"QUEUED">>) = {"QUEUED"} /\ ToSet(<<"DIRECT">>) = {"DIRECT"}
      /\ ToSet(<<"QUEUED", "COMPLETION">>) = {"QUEUED", "COMPLETION"}
  BY DEF ToSet
<1>2. /\ <<"QUEUED", "COMPLETION">> # <<>> /\ <<"QUEUED", "COMPLETION">> # <<"QUEUED">>
      /\ <<"DIRECT">> # <<>> /\ <<"DIRECT">> # <<"QUEUED">>
  OBVIOUS
<1> QED BY <1>1, <1>2 DEF Unanswered

IsLost(c) ==
  c \in Acked /\ handled[c] = 1 /\ acks[c] \in Unanswered /\ ~Carries(c) /\ ~(cmd = c /\ pc[Io] = "DIRECT")
Underway(c) == cmd = c /\ pc[Io] \in {"fill", "push", "refuse", "sync"}
Found(c) == handled[c] = 0 => Carries(c) \/ Underway(c)

LEMMA LostIs == AckOrder => \A c : c \in Lost <=> IsLost(c)
<1>1. \A c : (Carried(c) = {}) <=> ~Carries(c) BY CarriedIs
<1>2. Acked \subseteq External BY Names
<1> QED BY <1>1, <1>2, AnswerIs DEF Lost, Waiting, IsLost, AckOrder

LEMMA LostNext == AckOrder' => \A c : c \in Lost' <=> IsLost(c)'
<1>1. \A c : (Carried(c)' = {}) <=> ~Carries(c)' BY DEF Carried, Carries, Has, Spent, Live
<1>2. Acked \subseteq External BY Names
<1> QED BY <1>1, <1>2, AnswerIs DEF Lost, Waiting, IsLost, AckOrder

LEMMA OutcomesKept ==
    ASSUME IInv, AckOrder', drops' = drops, \A c \in Acked : IsLost(c)' <=> IsLost(c),
           \A c \in External \ todo' : Found(c)'
    PROVE  Outcomes'
<1>1. AckOrder BY DEF IInv, Frames
<1>2. \A c : IsLost(c) => c \in Acked BY DEF IsLost
<1>3. \A c : IsLost(c)' => c \in Acked BY DEF IsLost
<1>4. \A c : c \in Lost' <=> c \in Lost BY <1>1, <1>2, <1>3, LostIs, LostNext
<1>5. Lost' = Lost BY <1>4
<1>6. \A c \in External \ todo' : handled'[c] = 0 => Carried(c)' # {} \/ Underway(c)'
  BY DEF Found, Carried, Carries, Has, Spent, Live
<1>7. IsFiniteSet(Lost) /\ drops = Cardinality(Lost) BY DEF IInv, Outcomes, OutcomesAccounted, Lost
<1>8. IsFiniteSet(Lost') /\ drops' = Cardinality(Lost') BY <1>5, <1>7
<1> QED BY <1>6, <1>8 DEF Outcomes, OutcomesAccounted, Lost, Underway

\* What is known of the outcomes before a step.
LEMMA OutcomesNow ==
    ASSUME IInv, TypeOK', [Next]_vars
    PROVE  /\ \A c \in External \ todo : Found(c)
           /\ \A c \in External : handled'[c] = 0 => handled[c] = 0
           /\ \A c \in Acked : IsLost(c) => c \in External /\ handled[c] = 1
<1>1. \A c \in External \ todo : Found(c)
  BY DEF IInv, Outcomes, OutcomesAccounted, Found, Underway, Carried, Carries, Has, Spent, Live
<1>2. \A c \in External : handled[c] \in 0..1 BY DEF IInv, TypeOK
<1>3. \A c \in External : handled[c] = 1 => handled'[c] = 1 BY HandledStays
<1>4. \A c \in External : handled'[c] = 0 => handled[c] = 0 BY <1>2, <1>3
<1>5. Acked \subseteq External BY Names
<1> QED BY <1>1, <1>4, <1>5 DEF IsLost

LEMMA OutcomesIo == ASSUME IInv, TypeOK', AckOrder', [Next]_vars, IoAction PROVE Outcomes'
<1> USE DEF IInv
<1>t. PlaceTypes BY AllTypes
<1>n. Io \in Threads /\ Io # Task /\ Acked \subseteq External BY Names
<1>i. IoHand BY DEF Hands
<1>d. TaskRests /\ drops' = drops BY IoAlone DEF TaskRests
<1>0. ~Finish(Task) /\ ~Handle
  <2>1. Finish(Task) \/ Handle => pc'[Task] # pc[Task] BY <1>t, Names DEF Finish, Handle, Goto, PlaceTypes
  <2> QED BY <2>1, <1>d DEF TaskRests
<1>k. \A c \in External : c # cmd \/ (~RouteFill /\ ~RouteRefused /\ ~Finish(Io)) => (Carries(c)' <=> Carries(c))
  BY <1>0, <1>d, CarriesIo
<1>h. ~SyncHandle => handled' = handled BY <1>0, HandledBy
<1>f. \A c \in External \ todo : Found(c) BY OutcomesNow
<1>z. \A c \in External : handled'[c] = 0 => handled[c] = 0 BY OutcomesNow
<1>1. ASSUME NEW c \in External, Receive(c) PROVE Outcomes'
  <2>1. /\ pc[Io] = "idle" /\ pc'[Io] \in {"fill", "sync"} /\ cmd' = c /\ todo' = todo \ {c} /\ acks' = acks
        /\ ~SyncHandle /\ ~RouteFill /\ ~RouteRefused /\ ~Finish(Io)
    BY <1>1, <1>t, <1>n DEF Receive, Goto, PlaceTypes, SyncHandle, RouteFill, RouteRefused, Finish
  <2>2. \A a \in Acked : IsLost(a)' <=> IsLost(a) BY <2>1, <1>k, <1>h, <1>n DEF IsLost
  <2>3. \A a \in External \ todo' : Found(a)' BY <2>1, <1>k, <1>h, <1>f DEF Found, Underway
  <2> QED BY <2>2, <2>3, <1>d, OutcomesKept
<1>2. CASE RouteFill
  <2>1. /\ pc[Io] = "fill" /\ pc'[Io] = "push" /\ cmd' = cmd /\ todo' = todo /\ acks' = acks
        /\ cmd \in External /\ handled[cmd] = 0 /\ ~SyncHandle
    BY <1>2, <1>t, <1>n DEF RouteFill, Goto, PlaceTypes, client, Routing, SyncHandle
  <2>2. \A a \in Acked : IsLost(a)' <=> IsLost(a) BY <2>1, <1>k, <1>h, <1>n DEF IsLost
  <2>3. \A a \in External \ todo' : Found(a)' BY <2>1, <1>k, <1>h, <1>f DEF Found, Underway
  <2> QED BY <2>2, <2>3, <1>d, OutcomesKept
<1>3. CASE RoutePush
  <2>1. /\ pc[Io] = "push" /\ pc'[Io] \in {"QUEUED", "idle", "refuse"} /\ cmd' = cmd /\ todo' = todo /\ acks' = acks
        /\ ~SyncHandle /\ ~RouteFill /\ ~RouteRefused /\ ~Finish(Io)
    BY <1>3, <1>t, <1>n DEF RoutePush, Goto, PlaceTypes, client, SyncHandle, RouteFill, RouteRefused, Finish
  <2>2. Carries(cmd) BY <2>1, IoCarries
  <2>3. \A a \in Acked : IsLost(a)' <=> IsLost(a) BY <2>1, <1>k, <1>h, <1>n DEF IsLost
  <2>4. \A a \in External \ todo' : Found(a)' BY <2>1, <2>2, <1>k, <1>h, <1>f DEF Found, Underway
  <2> QED BY <2>3, <2>4, <1>d, OutcomesKept
<1>4. CASE RouteRefused
  <2>1. /\ pc[Io] = "refuse" /\ pc'[Io] = "sync" /\ cmd' = cmd /\ todo' = todo /\ acks' = acks
        /\ cmd \in External /\ handled[cmd] = 0 /\ ~SyncHandle
    BY <1>4, <1>t, <1>n DEF RouteRefused, Goto, PlaceTypes, client, Routing, SyncHandle
  <2>2. \A a \in Acked : IsLost(a)' <=> IsLost(a) BY <2>1, <1>k, <1>h, <1>n DEF IsLost
  <2>3. \A a \in External \ todo' : Found(a)' BY <2>1, <1>k, <1>h, <1>f DEF Found, Underway
  <2> QED BY <2>2, <2>3, <1>d, OutcomesKept
<1>5. CASE SyncHandle
  <2>1. /\ pc[Io] = "sync" /\ pc'[Io] = (IF cmd \in Acked THEN "DIRECT" ELSE "idle") /\ cmd' = cmd /\ todo' = todo
        /\ acks' = acks /\ ~RouteFill /\ ~RouteRefused /\ ~Finish(Io)
    BY <1>5, <1>t, <1>n DEF SyncHandle, Goto, PlaceTypes, client, RouteFill, RouteRefused, Finish
  <2>2. cmd \in External /\ handled[cmd] = 0 /\ \A c \in External : handled'[c] = IF c = cmd THEN 1 ELSE handled[c]
    BY <1>5, SyncHandled
  <2>3. \A a \in Acked : IsLost(a)' <=> IsLost(a) BY <2>1, <2>2, <1>k, <1>n DEF IsLost
  <2>4. \A a \in External \ todo' : Found(a)' BY <2>1, <2>2, <1>k, <1>f DEF Found, Underway
  <2> QED BY <2>3, <2>4, <1>d, OutcomesKept
<1>6. CASE PopCompletion
  <2>1. /\ pc[Io] = "idle" /\ pc'[Io] = "COMPLETION" /\ todo' = todo /\ acks' = acks
        /\ ~SyncHandle /\ ~RouteFill /\ ~RouteRefused /\ ~Finish(Io)
    BY <1>6, <1>t, <1>n DEF PopCompletion, Goto, PlaceTypes, client, SyncHandle, RouteFill, RouteRefused, Finish
  <2>2. \A a \in Acked : IsLost(a)' <=> IsLost(a) BY <2>1, <1>k, <1>h, <1>n DEF IsLost
  <2>3. \A a \in External \ todo' : Found(a)' BY <2>1, <1>k, <1>h, <1>f DEF Found, Underway
  <2> QED BY <2>2, <2>3, <1>d, OutcomesKept
<1>7. CASE EncodeAck
  <2>1. /\ pc[Io] \in Stages /\ pc'[Io] = "send" /\ cmd' = cmd /\ todo' = todo
        /\ ~SyncHandle /\ ~RouteFill /\ ~RouteRefused /\ ~Finish(Io)
        /\ cmd \in External /\ acks' = [acks EXCEPT ![cmd] = Append(acks[cmd], pc[Io])]
    BY <1>7, <1>t, <1>n DEF EncodeAck, Goto, PlaceTypes, Routing, Stages, SyncHandle, RouteFill, RouteRefused, Finish
  <2>2. acks'[cmd] = Append(acks[cmd], pc[Io]) /\ \A c \in External \ {cmd} : acks'[c] = acks[c]
    BY <2>1 DEF TypeOK
  <2>3. \/ pc[Io] = "QUEUED" /\ acks[cmd] = <<>> /\ acks'[cmd] = <<"QUEUED">>
        \/ pc[Io] = "DIRECT" /\ acks'[cmd] = <<"DIRECT">>
        \/ pc[Io] = "COMPLETION" /\ acks'[cmd] = Complete
    BY <2>1, <2>2, FrameSeqs DEF Frames, Early, Stages
  <2>4. Complete \notin Unanswered /\ <<"DIRECT">> \notin Unanswered
        /\ <<>> \in Unanswered /\ <<"QUEUED">> \in Unanswered
    BY DEF Complete, Unanswered
  <2>5. pc[Io] = "COMPLETION" => Carries(cmd) BY IoCarries
  <2>6. IsLost(cmd)' <=> IsLost(cmd) BY <2>1, <2>3, <2>4, <2>5, <1>k, <1>h DEF IsLost
  <2>7. \A a \in Acked \ {cmd} : IsLost(a)' <=> IsLost(a) BY <2>1, <2>2, <1>k, <1>h, <1>n DEF IsLost
  <2>8. \A a \in External \ todo' : Found(a)' BY <2>1, <1>k, <1>h, <1>f DEF Found, Underway, Stages
  <2>9. \A a \in Acked : IsLost(a)' <=> IsLost(a) BY <2>1, <2>6, <2>7
  <2> QED BY <2>8, <2>9, <1>d, OutcomesKept
<1>8. CASE Send(Io)
  <2>1. /\ pc[Io] = "send" /\ pc'[Io] \in {"idle", "finish"} /\ cmd' = cmd /\ todo' = todo /\ acks' = acks
        /\ ~SyncHandle /\ ~RouteFill /\ ~RouteRefused /\ ~Finish(Io)
    BY <1>8, <1>t, <1>n DEF Send, Goto, PlaceTypes, client, SyncHandle, RouteFill, RouteRefused, Finish
  <2>2. \A a \in Acked : IsLost(a)' <=> IsLost(a) BY <2>1, <1>k, <1>h, <1>n DEF IsLost
  <2>3. \A a \in External \ todo' : Found(a)' BY <2>1, <1>k, <1>h, <1>f DEF Found, Underway
  <2> QED BY <2>2, <2>3, <1>d, OutcomesKept
<1>9. CASE Finish(Io)
  <2>1. /\ pc[Io] = "finish" /\ pc'[Io] = "idle" /\ cmd' = cmd /\ todo' = todo /\ acks' = acks /\ ~SyncHandle
        /\ cmd \in External /\ handled[cmd] = 1 /\ acks[cmd] = Complete
    BY <1>9, <1>t, <1>n DEF Finish, Goto, PlaceTypes, client, SyncHandle, Routing, Frames
  <2>2. Complete \notin Unanswered BY DEF Complete, Unanswered
  <2>3. \A a \in Acked : IsLost(a)' <=> IsLost(a) BY <2>1, <2>2, <1>k, <1>h, <1>n DEF IsLost
  <2>4. \A a \in External \ todo' : Found(a)' BY <2>1, <1>k, <1>h, <1>f DEF Found, Underway
  <2> QED BY <2>3, <2>4, <1>d, OutcomesKept
<1> QED BY <1>1, <1>2, <1>3, <1>4, <1>5, <1>6, <1>7, <1>8, <1>9 DEF IoAction

\* The outcome that finds no room: one command more is lost, and counted.
LEMMA OutcomeDropped ==
    ASSUME IInv, TypeOK', AckOrder', [Next]_vars, HandOver, ~HasRoom(Done)
    PROVE  Outcomes'
<1> USE DEF IInv
<1>t. PlaceTypes BY AllTypes
<1>n. Task \in Threads /\ Io # Task /\ Acked \subseteq External BY Names
<1>1. /\ pc[Task] = "outcome" /\ pc'[Task] = "finish" /\ hand' = hand /\ hand[Task] \in Bufs
      /\ handled' = handled /\ todo' = todo /\ drops' = drops + 1 /\ TaskAction
  BY <1>t, <1>n DEF HandOver, Goto, PlaceTypes, client, Hands, TaskHand, TaskAction
<1>r. IoRests BY <1>1, TaskAlone
<1>2. PICK b \in Bufs : b = hand[Task] BY <1>1
<1>3. Live(b) /\ Read(b) BY <1>1, <1>2, HandLive DEF Places, AtTask
<1>4. PICK c \in External : c = msg[b] /\ c \in Acked /\ handled[c] = 1 BY <1>3, <1>n DEF Read
<1>5. Carries(c)
  <2>1. ~Spent(b) BY <1>1 DEF Spent
  <2> QED BY <2>1, <1>3, <1>4 DEF Carries, Has
<1>6. ~RouteFill /\ ~RouteRefused /\ ~Finish(Io) /\ ~Finish(Task) /\ ~Handle
  <2>1. RouteFill \/ RouteRefused \/ Finish(Io) => pc'[Io] # pc[Io]
    BY <1>t, Names DEF RouteFill, RouteRefused, Finish, Goto, PlaceTypes
  <2> QED BY <2>1, <1>1, <1>r DEF IoRests, Finish, Handle
<1>7. ~Carries(c)'
  <2>1. \A a \in Bufs : Has(a, c)' => a = b
    <3>1. \A a \in Bufs : Has(a, c)' => Has(a, c) BY <1>6, HasSame
    <3> QED BY <3>1, <1>3, <1>4 DEF Has, Sole
  <2>2. Spent(b)' BY <1>1, <1>2 DEF Spent
  <2> QED BY <2>1, <2>2 DEF Carries
<1>8. \A a \in External \ {c} : Carries(a)' <=> Carries(a) BY <1>1, <1>2, <1>4, <1>6, CarriesTask
<1>9. acks[c] \in Unanswered
  <2>1. hand[Io] # b
    <3> SUFFICES ASSUME hand[Io] = b PROVE FALSE OBVIOUS
    <3>1. pc[Io] # "fill" BY <1>2, <1>3, Names DEF Pool, Filling, Idle, Live
    <3> QED BY <3>1, <1>1, <1>2, <1>4, HandsApart
  <2>2. acks[c] = IF cmd = c /\ pc[Io] = "QUEUED" THEN <<>> ELSE <<"QUEUED">> BY <2>1, <1>3, <1>4 DEF Frames
  <2> QED BY <2>2 DEF Unanswered
<1>10. ~(cmd = c /\ pc[Io] = "DIRECT") BY <1>3, <1>4 DEF Routing, Fresh
<1>11. ~IsLost(c) /\ IsLost(c)' BY <1>1, <1>r, <1>4, <1>5, <1>7, <1>9, <1>10 DEF IsLost, IoRests
<1>12. \A a \in Acked \ {c} : IsLost(a)' <=> IsLost(a) BY <1>1, <1>r, <1>8, <1>n DEF IsLost, IoRests
<1>13. AckOrder BY DEF Frames
<1>14. \A a : (IsLost(a) => a \in Acked) /\ (IsLost(a)' => a \in Acked) BY DEF IsLost
<1>15. \A a : a \in Lost' <=> a \in Lost \/ a = c BY <1>11, <1>12, <1>13, <1>14, LostIs, LostNext
<1>16. Lost' = Lost \cup {c} BY <1>15
<1>17. c \notin Lost BY <1>11, <1>13, LostIs
<1>18. IsFiniteSet(Lost) /\ drops = Cardinality(Lost) BY DEF Outcomes, OutcomesAccounted, Lost
<1>19. IsFiniteSet(Lost') /\ drops' = Cardinality(Lost') BY <1>1, <1>16, <1>17, <1>18, Grown
<1>f. \A a \in External \ todo : Found(a) BY OutcomesNow
<1>20. \A a \in External \ todo' : Found(a)' BY <1>1, <1>r, <1>4, <1>8, <1>f DEF Found, Underway, IoRests
<1>21. \A a \in External \ todo' : handled'[a] = 0 => Carried(a)' # {} \/ Underway(a)'
  BY <1>20 DEF Found, Carried, Carries, Has, Spent, Live
<1> QED BY <1>19, <1>21 DEF Outcomes, OutcomesAccounted, Lost, Underway

LEMMA OutcomesTask == ASSUME IInv, TypeOK', AckOrder', [Next]_vars, TaskAction PROVE Outcomes'
<1> USE DEF IInv
<1>t. PlaceTypes BY AllTypes
<1>n. Task \in Threads /\ Io # Task /\ Acked \subseteq External BY Names
<1>r. IoRests BY TaskAlone
<1>f. \A c \in External \ todo : Found(c) BY OutcomesNow
<1>k. \A c \in External : \/ Carries(c)' <=> Carries(c)
                          \/ Handle /\ c = msg[hand[Task]] /\ c \notin Acked
                          \/ HandOver /\ ~HasRoom(Done) /\ c = msg[hand[Task]]
  BY CarriesTask
<1>s. ~SyncHandle
  <2>1. SyncHandle => pc'[Io] # pc[Io] BY <1>t, Names DEF SyncHandle, Goto, PlaceTypes
  <2> QED BY <2>1, <1>r DEF IoRests
<1>1. CASE HandOver /\ ~HasRoom(Done) BY <1>1, OutcomeDropped
<1>2. CASE Handle
  <2>1. PICK b \in Bufs : /\ b = hand[Task] /\ Live(b)
                          /\ \A c \in External : handled'[c] = IF c = msg[b] THEN handled[c] + 1 ELSE handled[c]
    BY <1>2, HandledTask
  <2>2. pc[Task] = "handle" /\ drops' = drops BY <1>2 DEF Handle
  <2>3. msg[b] \in External => handled[msg[b]] = 0 BY <2>1, <2>2 DEF Places, AtTask, Unread
  <2>4. Carries(msg[b])
    <3>1. ~Spent(b) BY <2>2 DEF Spent
    <3> QED BY <3>1, <2>1 DEF Carries, Has
  <2>5. ~HandOver BY <2>2 DEF HandOver
  <2>6. \A a \in Acked : IsLost(a)' <=> IsLost(a)
    <3> SUFFICES ASSUME NEW a \in Acked PROVE IsLost(a)' <=> IsLost(a) OBVIOUS
    <3>1. Carries(a)' <=> Carries(a) BY <1>k, <2>5, <1>n
    <3>2. CASE a = msg[b] BY <3>1, <3>2, <2>4 DEF IsLost
    <3>3. CASE a # msg[b] BY <3>1, <3>3, <2>1, <1>r, <1>n DEF IsLost, IoRests
    <3> QED BY <3>2, <3>3
  <2>7. \A a \in External \ todo' : Found(a)'
    <3> SUFFICES ASSUME NEW a \in External \ todo', handled'[a] = 0 PROVE Carries(a)' \/ Underway(a)'
      BY DEF Found
    <3>1. a # msg[b] /\ handled[a] = 0 BY <2>1, <2>3
    <3>2. Carries(a)' <=> Carries(a) BY <3>1, <1>k, <2>1, <2>5
    <3> QED BY <3>1, <3>2, <1>f, <1>r DEF Found, Underway, IoRests
  <2> QED BY <2>2, <2>6, <2>7, OutcomesKept
<1>3. CASE ~Handle /\ ~(HandOver /\ ~HasRoom(Done))
  <2>1. \A c \in External : Carries(c)' <=> Carries(c) BY <1>3, <1>k
  <2>2. handled' = handled BY <1>3, <1>s, HandledBy
  <2>3. drops' = drops BY <1>3 DEF TaskAction, Pop, EncodeTelemetry, HandOver, Send, Finish
  <2>4. \A a \in Acked : IsLost(a)' <=> IsLost(a) BY <2>1, <2>2, <1>r, <1>n DEF IsLost, IoRests
  <2>5. \A a \in External \ todo' : Found(a)' BY <2>1, <2>2, <1>r, <1>f DEF Found, Underway, IoRests
  <2> QED BY <2>3, <2>4, <2>5, OutcomesKept
<1> QED BY <1>1, <1>2, <1>3

LEMMA OutcomesStep == ASSUME IInv, TypeOK', AckOrder', [Next]_vars PROVE Outcomes'
<1> USE DEF IInv
<1>t. PlaceTypes BY AllTypes
<1>n. Task \in Threads /\ Io \in Threads /\ Acked \subseteq External BY Names
<1>1. CASE IoAction BY <1>1, OutcomesIo
<1>2. CASE TaskAction BY <1>2, OutcomesTask
<1>3. CASE IoRests /\ TaskRests
  <2>1. ~RouteFill /\ ~RouteRefused /\ ~Finish(Io) /\ ~Finish(Task) /\ ~Handle /\ ~SyncHandle
    <3>1. RouteFill \/ RouteRefused \/ Finish(Io) \/ SyncHandle => pc'[Io] # pc[Io]
      BY <1>t, <1>n DEF RouteFill, RouteRefused, Finish, SyncHandle, Goto, PlaceTypes
    <3>2. Finish(Task) \/ Handle => pc'[Task] # pc[Task] BY <1>t, <1>n DEF Finish, Handle, Goto, PlaceTypes
    <3> QED BY <3>1, <3>2, <1>3 DEF IoRests, TaskRests
  <2>2. \A c \in External : Carries(c)' <=> Carries(c) BY <2>1, <1>3, CarriesIo
  <2>3. handled' = handled BY <2>1, HandledBy
  <2>4. \A c \in External \ todo : Found(c) BY OutcomesNow
  <2>5. \A a \in Acked : IsLost(a)' <=> IsLost(a) BY <2>2, <2>3, <1>3, <1>n DEF IsLost, IoRests
  <2>6. \A a \in External \ todo' : Found(a)' BY <2>2, <2>3, <2>4, <1>3 DEF Found, Underway, IoRests
  <2> QED BY <2>5, <2>6, <1>3, OutcomesKept DEF TaskRests
<1>4. NextQueue \/ (\E w \in Workers : WorkAction(w)) \/ UNCHANGED vars => IoRests /\ TaskRests
  BY WorkAlone, RestOfQueue
<1> QED BY <1>1, <1>2, <1>3, <1>4, Kinds

----------------------------------------------------------------------------
(* The theorems.                                                           *)

\* The buffers in the order the pool is filled in.
LEMMA Listed ==
  /\ SetToSeq(Bufs) \in Seq(Bufs) /\ Len(SetToSeq(Bufs)) = Cardinality(Bufs)
  /\ \A i, j \in DOMAIN SetToSeq(Bufs) : SetToSeq(Bufs)[i] = SetToSeq(Bufs)[j] => i = j
<1>1. IsFiniteSet(Bufs) BY PoolAssumption
<1>2. PICK n \in Nat : n = Cardinality(Bufs) BY <1>1, FS_CardinalityType
<1>3. ExistsBijection(1 .. n, Bufs) BY <1>1, <1>2, FS_CardinalityType
<1>4. PICK f \in Bijection(1 .. n, Bufs) : TRUE BY <1>3 DEF ExistsBijection
<1>5. f \in [1 .. n -> Bufs] /\ \A i, j \in 1 .. n : f[i] = f[j] => i = j
  BY <1>4 DEF Bijection, Injection, IsInjective
<1>6. \E g \in [1 .. n -> Bufs] : IsInjective(g) BY <1>5 DEF IsInjective
<1>7. SetToSeq(Bufs) = CHOOSE g \in [1 .. n -> Bufs] : IsInjective(g) BY <1>2 DEF SetToSeq
<1>8. SetToSeq(Bufs) \in [1 .. n -> Bufs] /\ IsInjective(SetToSeq(Bufs)) BY <1>6, <1>7
<1>9. PICK s \in [1 .. n -> Bufs] : s = SetToSeq(Bufs) /\ IsInjective(s) BY <1>8
<1>10. s \in Seq(Bufs) /\ Len(s) = n /\ DOMAIN s = 1 .. n BY <1>9
<1> QED BY <1>2, <1>9, <1>10 DEF IsInjective

LEMMA InitHolders == ASSUME Init PROVE \A b \in Bufs : Slots(b) = {} /\ Shares(b) = {} /\ Holders(b) = 0
<1> SUFFICES ASSUME NEW b \in Bufs PROVE Slots(b) = {} /\ Shares(b) = {} /\ Holders(b) = 0
  OBVIOUS
<1>1. Slots(b) = {}
  <2>1. \A q \in Queues : DOMAIN queue[q] = {} BY DEF Init
  <2> QED BY <2>1 DEF Slots
<1>2. Shares(b) = {}
  <2>1. \A t \in Threads : Owed(t, b) = 0 BY Names DEF Init, Owed
  <2>2. 1 .. 0 = {} OBVIOUS
  <2> QED BY <2>1, <2>2 DEF Shares
<1>3. Cardinality({}) = 0 BY FS_EmptySet
<1> QED BY <1>1, <1>2, <1>3 DEF Holders

LEMMA InitInv == Init => IInv
<1> SUFFICES ASSUME Init PROVE IInv OBVIOUS
<1>n. /\ Io \in Threads /\ Task \in Threads /\ Workers \subseteq Threads /\ NoBuf \notin Bufs
      /\ Internal \notin External /\ Acked \subseteq External
  BY Names
<1>p. /\ \A t \in Threads : pc[t] = "idle" /\ hand[t] = NoBuf
      /\ \A w \in Workers : left[w] = <<>> /\ failed[w] = 0
      /\ cmd = Internal /\ todo = External /\ drops = 0
      /\ \A c \in External : handled[c] = 0 /\ acks[c] = <<>>
      /\ \A b \in Bufs : msg[b] = Internal /\ refs[b] = 1
      /\ \A q \in Queues : queue[q] = <<>>
  BY <1>n DEF Init
<1>h. \A b \in Bufs : Slots(b) = {} /\ Shares(b) = {} /\ Holders(b) = 0 BY InitHolders
<1>l. \A b \in Bufs : ~Live(b) BY <1>h DEF Live
<1>1. TypeOK
  <2>1. PoolTypes
    <3>1. Cardinality(Bufs) \in Nat /\ Ring \in Nat \ {0} BY PoolAssumption, RingIsNat
    <3>2. Cardinality(Bufs) % Ring \in 0 .. Ring - 1
      <4>1. Cardinality(Bufs) \in Int BY <3>1
      <4> QED BY <4>1, <3>1, Mod
    <3>3. NoCell \in 0 .. Ring BY RingIsNat
    <3> QED BY <3>2, <3>3, Listed DEF Init, PoolTypes
  <2>2. QueueTypes
    <3>1. \A q \in Queues : Len(queue[q]) <= Cap(q)
      <4>1. Len(<<>>) = 0 OBVIOUS
      <4>2. \A q \in Queues : Len(queue[q]) = 0 BY <1>p, <4>1
      <4> QED BY <4>2, Capacities
    <3> QED BY <3>1 DEF Init, QueueTypes
  <2>3. PlaceTypes BY DEF Init, PlaceTypes, Labels
  <2>4. WorkTypes BY QueueAssumption DEF Init, WorkTypes
  <2>5. CommandTypes BY Sweeps DEF Init, CommandTypes
  <2> QED BY <2>1, <2>2, <2>3, <2>4, <2>5, AllTypes
<1>2. Hands BY <1>n, <1>p DEF Hands, IoHand, TaskHand, WorkerHand, IoPlaces, TaskPlaces
<1>3. Counts
  <2>1. IsFiniteSet({}) BY FS_EmptySet
  <2> QED BY <2>1, <1>h, <1>l DEF Counts
<1>4. Pool BY <1>h, <1>p, <1>n, Listed, SeqFacts DEF Pool, Idle, Filling, Init
<1>5. Sole BY <1>l DEF Sole
<1>6. Places
  <2>1. \A q \in Queues, b \in Bufs : ~InQueue(q, b) BY <1>p DEF InQueue
  <2>2. \A w \in Workers, b \in Bufs : Owed(w, b) = 0 BY <1>p, <1>n DEF Owed
  <2> QED BY <2>1, <2>2, <1>p, <1>n DEF Places
<1>7. Routing BY <1>p, <1>n DEF Routing
<1>8. Frames BY <1>p, <1>n, <1>l DEF Frames, AckOrder
<1>9. Outcomes
  <2>1. Lost = {} BY <1>p, <1>n DEF Lost, Waiting
  <2>2. IsFiniteSet(Lost) /\ Cardinality(Lost) = 0 BY <2>1, FS_EmptySet
  <2> QED BY <2>2, <1>p DEF Outcomes, OutcomesAccounted, Lost
<1> QED BY <1>1, <1>2, <1>3, <1>4, <1>5, <1>6, <1>7, <1>8, <1>9 DEF IInv

LEMMA InvStep == IInv /\ [Next]_vars => IInv'
<1> SUFFICES ASSUME IInv, [Next]_vars PROVE IInv' OBVIOUS
<1>1. TypeOK' BY TypeStep
<1>2. Hands' /\ Counts' /\ Pool' /\ Sole' /\ Places' /\ Routing' /\ Frames'
  BY <1>1, HandsStep, CountsStep, PoolStep, SoleStep, PlacesStep, RoutingStep, FramesStep
<1>3. AckOrder' BY <1>2 DEF Frames
<1>4. Outcomes' BY <1>1, <1>3, OutcomesStep
<1> QED BY <1>1, <1>2, <1>4 DEF IInv

LEMMA Invariant == Spec => []IInv
<1>1. Init => IInv BY InitInv
<1>2. IInv /\ [Next]_vars => IInv' BY InvStep
<1> QED BY <1>1, <1>2, PTL DEF Spec

\* Every variable keeps its type; in particular no queue of a component and
\* no completion goes beyond the capacity it was made with.
THEOREM TypeCorrect == Spec => []TypeOK
<1>1. IInv => TypeOK BY DEF IInv
<1> QED BY <1>1, Invariant, PTL

\* A buffer's count (MessageBuffer::refCount) is at every moment the number
\* of queue slots and threads that still have to release it, whatever the
\* recipients of a multicast do meanwhile, and what the pool lends is held
\* by nobody and free once.
THEOREM RefsStayExact == Spec => []RefsExact
<1>1. IInv => RefsExact BY DEF IInv, Counts, Pool, Idle, RefsExact, Live
<1> QED BY <1>1, Invariant, PTL

\* The client of a command is told QUEUED once and then COMPLETION once, or
\* has the one direct answer, in whatever order the two threads run.
THEOREM AcksInOrder == Spec => []AckOrder
<1>1. IInv => AckOrder BY DEF IInv, Frames
<1> QED BY <1>1, Invariant, PTL

\* stats_.completionDrops counts exactly the executed commands whose client
\* is never told, and a command received is executed, in one buffer, or with
\* the I/O thread.
THEOREM OutcomesAreAccounted == Spec => []OutcomesAccounted
<1>1. IInv => OutcomesAccounted BY DEF IInv, Outcomes
<1> QED BY <1>1, Invariant, PTL
=============================================================================
