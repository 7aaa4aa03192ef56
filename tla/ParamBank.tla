----------------------------- MODULE ParamBank -----------------------------
(***************************************************************************)
(* ParamBank<TParams>: two banks of atomic words, one published and one to *)
(* stage into, behind a sequence counter that is odd while a bank is being *)
(* written.  One control-plane thread stages, publishes and rolls back;    *)
(* any number of readers copy the published bank word by word and try      *)
(* again when the counter has moved.                                       *)
(***************************************************************************)
EXTENDS Integers, FiniteSets

CONSTANTS
    Sets,       \* parameter sets a caller may stage
    Valid,      \* those of them the owner's validator accepts
    Default,    \* TParams{}, in both banks at the start; never validated
    Words,      \* 64-bit words of a set
    Readers,
    MaxCalls    \* calls of the control plane in a behaviour

None == 2

ASSUME BankAssumption ==
    /\ Valid \subseteq Sets /\ Default \in Sets
    /\ Words \in Nat \ {0}
    /\ MaxCalls \in Nat

VARIABLES
    banks, seq, activeIdx,                 \* shared with the readers
    stagedIdx, prevIdx, stagedValid, published,
    calls, wpc, wset, wword,               \* the control plane
    rpc, s0, idx, rword, words, result,    \* the readers
    seen,        \* sets that were active at some moment of the read
    replaced,    \* the set that was active before the last apply
    staged,      \* the set of the last accepted load
    fresh        \* it has neither been published nor rejected since

bankVars   == <<banks, seq, activeIdx>>
indexVars  == <<stagedIdx, prevIdx, stagedValid, published>>
writerVars == <<calls, wpc, wset, wword>>
readerVars == <<rpc, s0, idx, rword, words, result>>
ghostVars  == <<seen, replaced, staged, fresh>>
vars == <<bankVars, indexVars, writerVars, readerVars, ghostVars>>

WordIdx == 1 .. Words
Even(n) == n % 2 = 0
Whole(v) == [w \in WordIdx |-> v]
Active == banks[activeIdx][1]

Init ==
    /\ banks = [b \in 0 .. 1 |-> Whole(Default)]
    /\ seq = 0 /\ activeIdx = 0
    /\ stagedIdx = 1 /\ prevIdx = None
    /\ stagedValid = FALSE /\ published = FALSE
    /\ calls = 0 /\ wpc = "idle" /\ wset = Default /\ wword = 1
    /\ rpc = [r \in Readers |-> "idle"]
    /\ s0 = [r \in Readers |-> 0]
    /\ idx = [r \in Readers |-> 0]
    /\ rword = [r \in Readers |-> 1]
    /\ words = [r \in Readers |-> Whole(Default)]
    /\ result = [r \in Readers |-> Whole(Default)]
    /\ seen = [r \in Readers |-> {Default}]
    /\ replaced = Default /\ staged = Default /\ fresh = FALSE

----------------------------------------------------------------------------
(* load: validates before it touches a bank, forfeits the rollback whose   *)
(* source it is about to overwrite, stores under an odd counter.           *)

Called == wpc = "idle" /\ calls < MaxCalls /\ calls' = calls + 1

\* A payload that does not decode, or a set the validator rejects.
LoadRejected ==
    /\ Called
    /\ stagedValid' = FALSE /\ fresh' = FALSE
    /\ UNCHANGED <<bankVars, stagedIdx, prevIdx, published, wpc, wset, wword, readerVars,
                   seen, replaced, staged>>

\* Slip: the history is kept.
KeptPrev == prevIdx
ForfeitedPrev == IF prevIdx = stagedIdx THEN None ELSE prevIdx

LoadAccepted(v) ==
    /\ Called
    /\ prevIdx' = ForfeitedPrev
    /\ wset' = v /\ wpc' = "odd"
    /\ fresh' = FALSE
    /\ UNCHANGED <<bankVars, stagedIdx, stagedValid, published, wword, readerVars,
                   seen, replaced, staged>>

OpenBracket ==
    /\ wpc = "odd"
    /\ seq' = seq + 1
    /\ wpc' = "store" /\ wword' = 1
    /\ UNCHANGED <<banks, activeIdx, indexVars, calls, wset, readerVars, ghostVars>>

StoreWord ==
    /\ wpc = "store" /\ wword <= Words
    /\ banks' = [banks EXCEPT ![stagedIdx][wword] = wset]
    /\ wword' = wword + 1
    /\ UNCHANGED <<seq, activeIdx, indexVars, calls, wpc, wset, readerVars, ghostVars>>

Closed == seq + 1

\* Slip: the stage is not marked.
Unmarked == stagedValid
Marked == TRUE

CloseBracket ==
    /\ wpc = "store" /\ wword > Words
    /\ seq' = Closed
    /\ stagedValid' = Marked
    /\ staged' = wset /\ fresh' = TRUE
    /\ wpc' = "idle"
    /\ UNCHANGED <<banks, activeIdx, stagedIdx, prevIdx, published, calls, wset, wword,
                   readerVars, seen, replaced>>

----------------------------------------------------------------------------
(* Publishing: readers see the one store to activeIdx.                     *)

Reading == {r \in Readers : rpc[r] # "idle"}

Publish(b) ==
    /\ activeIdx' = b
    /\ seen' = [r \in Readers |-> IF r \in Reading THEN seen[r] \cup {banks[b][1]}
                                  ELSE seen[r]]
    /\ published' = TRUE /\ fresh' = FALSE

PublishInitial ==
    /\ Called /\ stagedValid /\ ~published
    /\ Publish(stagedIdx)
    /\ stagedIdx' = 1 - stagedIdx
    /\ UNCHANGED <<banks, seq, prevIdx, stagedValid, wpc, wset, wword, readerVars,
                   replaced, staged>>

Apply ==
    /\ Called /\ stagedValid
    /\ prevIdx' = activeIdx
    /\ replaced' = Active
    /\ Publish(stagedIdx)
    /\ stagedIdx' = 1 - stagedIdx
    /\ UNCHANGED <<banks, seq, stagedValid, wpc, wset, wword, readerVars, staged>>

OtherBank == 1 - prevIdx

Rollback ==
    /\ Called /\ prevIdx # None
    /\ Publish(prevIdx)
    /\ stagedIdx' = OtherBank
    /\ prevIdx' = None
    /\ UNCHANGED <<banks, seq, stagedValid, wpc, wset, wword, readerVars, replaced,
                   staged>>

----------------------------------------------------------------------------
(* active(): copy the words of the published bank, accept the copy if the  *)
(* counter is even and has not moved.                                      *)

RGoes(r, step) == rpc' = [rpc EXCEPT ![r] = step]
readerOnly == <<bankVars, indexVars, writerVars, replaced, staged, fresh>>

ReadBegin(r) ==
    /\ rpc[r] = "idle"
    /\ seen' = [seen EXCEPT ![r] = {Active}]
    /\ RGoes(r, "seq")
    /\ UNCHANGED <<readerOnly, s0, idx, rword, words, result>>

LoadSeq(r) ==
    /\ rpc[r] = "seq" /\ Even(seq)
    /\ s0' = [s0 EXCEPT ![r] = seq]
    /\ RGoes(r, "idx")
    /\ UNCHANGED <<readerOnly, seen, idx, rword, words, result>>

LoadIdx(r) ==
    /\ rpc[r] = "idx"
    /\ idx' = [idx EXCEPT ![r] = activeIdx]
    /\ rword' = [rword EXCEPT ![r] = 1]
    /\ RGoes(r, "copy")
    /\ UNCHANGED <<readerOnly, seen, s0, words, result>>

CopyWord(r) ==
    /\ rpc[r] = "copy" /\ rword[r] <= Words
    /\ words' = [words EXCEPT ![r][rword[r]] = banks[idx[r]][rword[r]]]
    /\ rword' = [rword EXCEPT ![r] = @ + 1]
    /\ UNCHANGED <<readerOnly, seen, rpc, s0, idx, result>>

\* Slip: an even counter is taken for an unmoved one.
StillEven(r) == Even(seq)
Unmoved(r) == seq = s0[r]

Validate(r) ==
    /\ rpc[r] = "copy" /\ rword[r] > Words
    /\ IF Unmoved(r)
       THEN RGoes(r, "idle") /\ result' = [result EXCEPT ![r] = words[r]]
       ELSE RGoes(r, "seq") /\ UNCHANGED result
    /\ UNCHANGED <<readerOnly, seen, s0, idx, rword, words>>

----------------------------------------------------------------------------

Store == OpenBracket \/ StoreWord \/ CloseBracket
Control ==
    \/ LoadRejected \/ \E v \in Valid : LoadAccepted(v)
    \/ PublishInitial \/ Apply \/ Rollback
ReadOn(r) == LoadSeq(r) \/ LoadIdx(r) \/ CopyWord(r) \/ Validate(r)

Next ==
    \/ Store \/ Control
    \/ \E r \in Readers : ReadBegin(r) \/ ReadOn(r)

Spec == Init /\ [][Next]_vars

\* Threads are scheduled; the control plane need not call.
FairSpec == Spec /\ WF_vars(Store) /\ \A r \in Readers : WF_vars(ReadOn(r))

----------------------------------------------------------------------------
(* Properties.                                                             *)

\* Every variable keeps its type; the counter is odd only within a bracket, and
\* the bank being staged is never the published one.
TypeOK ==
    /\ banks \in [0 .. 1 -> [WordIdx -> Sets]]
    /\ seq \in Nat /\ activeIdx \in 0 .. 1
    /\ stagedIdx = 1 - activeIdx
    /\ prevIdx \in {0, 1, None} /\ stagedValid \in BOOLEAN /\ published \in BOOLEAN
    /\ calls \in 0 .. MaxCalls
    /\ wpc \in {"idle", "odd", "store"}
    /\ Even(seq) <=> (wpc # "store")
    /\ wset \in Sets /\ wword \in 1 .. Words + 1
    /\ rpc \in [Readers -> {"idle", "seq", "idx", "copy"}]
    /\ s0 \in [Readers -> Nat] /\ idx \in [Readers -> 0 .. 1]
    /\ rword \in [Readers -> 1 .. Words + 1]
    /\ words \in [Readers -> [WordIdx -> Sets]]
    /\ result \in [Readers -> [WordIdx -> Sets]]
    /\ seen \in [Readers -> SUBSET Sets]
    /\ replaced \in Sets /\ staged \in Sets /\ fresh \in BOOLEAN

\* What active() returns is a whole set, and one that was published at some
\* moment between the call and the return, however the reader is preempted
\* across stagings, publishes and rollbacks.
ReadsAreWhole ==
    \A r \in Readers : rpc[r] = "idle" => \E v \in seen[r] : result[r] = Whole(v)

\* canRollback() tells the truth: while it says yes, the bank rollback() would
\* publish holds, whole, the set the last apply replaced.
RollbackRestores == prevIdx # None => banks[prevIdx] = Whole(replaced)

\* What a caller has staged stays in the bank the next publish takes, whole and
\* marked valid, until it is published, rejected or replaced by another load.
StagedIsKept ==
    fresh => stagedValid /\ stagedIdx # activeIdx /\ banks[stagedIdx] = Whole(staged)

\* A read ends: it is tried again only as often as a bank is written.
ReadsEnd == \A r \in Readers : (rpc[r] = "seq") ~> (rpc[r] = "idle")

=============================================================================
