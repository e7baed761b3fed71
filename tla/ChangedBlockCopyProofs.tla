----------------------- MODULE ChangedBlockCopyProofs -----------------------
(***************************************************************************)
(* What a call of CopyChangedBlocks may be trusted with, for any number of *)
(* extents, blocks, workers, handles, sub-ranges, attempts and failures.   *)
(***************************************************************************)
EXTENDS ChangedBlockCopy, Integers, FiniteSetTheorems, TLAPS

LEMMA Numbers == NumExtents \in Nat /\ SubRanges \in Nat /\ Workers # {}
BY ChangedBlockCopyAssumption

-----------------------------------------------------------------------------
(* The inductive invariant.                                                 *)
Types ==
  /\ fed \in 0 .. NumExtents /\ errs \in Nat
  /\ wstate \in [Workers -> WorkerStates]
  /\ extent \in [Workers -> 0 .. NumExtents]
  /\ waiting \in [Workers -> Nat] /\ holding \in [Workers -> Nat]
  /\ copied \subseteq Extents

Busy(w) == wstate[w] \in {"status", "walk", "copy", "pause"}

(* Goroutines of a worker exist only while it copies; it has an extent when *)
(* it works.                                                                *)
Bracketed ==
  \A w \in Workers :
    /\ wstate[w] # "copy" => waiting[w] = 0 /\ holding[w] = 0
    /\ Busy(w) => extent[w] \in Extents

(* Why an extent may stay behind.  Once true, this stays true.              *)
Excused == callerDone \/ result = "error" \/ errs > 0

(* Nobody stops early without an excuse.                                    *)
StopsForCause ==
  /\ cancelled => callerDone \/ result = "error" \/ main = "returned"
  /\ feeder = "closed" => fed = NumExtents \/ Excused
  /\ \A w \in Workers : wstate[w] = "exited" => feeder = "closed" \/ Excused

(* An extent handed out is copied, worked on, or excused.                   *)
Covered ==
  \A e \in Extents : e <= fed =>
    \/ e \in copied \/ Excused
    \/ \E w \in Workers : extent[w] = e /\ Busy(w)

(* What the calling goroutine knows at each point.                          *)
MainKnows ==
  /\ main \in {"drain", "close", "flush", "returned"} => doneChan
  /\ main \in {"close", "flush", "returned"} /\ errs > 0 => result = "error"
  /\ main = "join" => result = "error"
  /\ progClosed => main \in {"flush", "returned"}

Inv == Types /\ Bracketed /\ StopsForCause /\ Covered /\ MainKnows

LEMMA InvInit == Init => Inv
BY Numbers DEF Init, Inv, Types, WorkerStates, Bracketed, Busy, StopsForCause, Covered, Extents, MainKnows

-----------------------------------------------------------------------------
(* What a worker's step may do, for the invariant: it changes its own state *)
(* only, adds its extent to copied when done, and stops for cause.          *)
WorkerStep(w) ==
  /\ wstate[w] # "exited"
  /\ wstate' = [wstate EXCEPT ![w] = wstate'[w]] /\ wstate'[w] \in WorkerStates
  /\ waiting' \in [Workers -> Nat] /\ holding' \in [Workers -> Nat]
  /\ \A v \in Workers \ {w} : waiting'[v] = waiting[v] /\ holding'[v] = holding[v]
  /\ wstate'[w] # "copy" => waiting'[w] = 0 /\ holding'[w] = 0
  /\ wstate'[w] \in {"status", "walk", "copy", "pause"} => Busy(w)
  /\ Busy(w) /\ ~ (wstate'[w] \in {"status", "walk", "copy", "pause"}) =>
       extent[w] \in copied' \/ cancelled \/ errs' > 0
  /\ wstate'[w] = "exited" => feeder = "closed" \/ cancelled \/ errs' > 0
  /\ errs' \in {errs, errs + 1}
  /\ copied' = copied \/ (Busy(w) /\ copied' = copied \cup {extent[w]})
  /\ UNCHANGED <<callerDone, fed, feeder, extent, cancelled, progClosed, main, result>>

LEMMA WorkerSteps ==
  ASSUME Inv, NEW w \in Workers, Worker(w)
  PROVE  WorkerStep(w)
<1> USE Numbers DEF Inv, Types, Bracketed, Busy, Move, Joined, WorkerStates
<1>1. CASE NoMoreExtents(w) \/ StatusCancelled(w) \/ PauseCancelled(w) \/ ReportCancelled(w)
  BY <1>1 DEF NoMoreExtents, StatusCancelled, PauseCancelled, ReportCancelled, WorkerStep
<1>2. CASE AcquireForStatus(w) \/ ReportProgress(w)
  BY <1>2 DEF AcquireForStatus, ReportProgress, WorkerStep
<1>3. CASE ReleaseAfterStatus(w) \/ PauseEnds(w) \/ NextBlock(w)
  BY <1>3 DEF ReleaseAfterStatus, PauseEnds, NextBlock, BlockCopied, StartBlock, WorkerStep
<1>4. CASE SubRangeAcquires(w)
  BY <1>4 DEF SubRangeAcquires, WorkerStep
<1>5. CASE SubRangeCancelled(w) \/ SubRangeEnds(w)
  BY <1>5 DEF SubRangeCancelled, SubRangeEnds, WorkerStep
<1>6. CASE ExtentCopied(w)
  BY <1>6 DEF ExtentCopied, BlockCopied, WorkerStep
<1>7. CASE AttemptCancelled(w)
  BY <1>7 DEF AttemptCancelled, WorkerStep
<1>8. CASE AttemptFailed(w)
  BY <1>8 DEF AttemptFailed, WorkerStep
<1> QED BY <1>1, <1>2, <1>3, <1>4, <1>5, <1>6, <1>7, <1>8 DEF Worker

LEMMA WorkerKeeps ==
  ASSUME Inv, NEW w \in Workers, WorkerStep(w)
  PROVE  Inv'
<1>0. main \in {"select", "join"} \/ main \notin {"drain", "close", "flush", "returned"}
  BY DEF WorkerStep, Inv, MainKnows, doneChan
<1>1. \A v \in Workers \ {w} : wstate'[v] = wstate[v] /\ (Busy(v)' <=> Busy(v))
  BY DEF WorkerStep, Inv, Types, Busy
<1>2. Types'
  BY DEF WorkerStep, Inv, Types, Bracketed
<1>3. Bracketed'
  BY <1>1 DEF WorkerStep, Inv, Types, Bracketed, Busy
<1>4. Excused => Excused'
  BY DEF WorkerStep, Inv, Types, Excused
<1>5. cancelled => Excused
  BY <1>0 DEF Inv, StopsForCause, Excused
<1>6. StopsForCause'
  BY <1>0, <1>1, <1>4, <1>5 DEF WorkerStep, Inv, StopsForCause, Excused
<1>7. Covered'
  <2> SUFFICES ASSUME NEW e \in Extents, e <= fed, ~ Excused', e \notin copied'
               PROVE  \E v \in Workers : extent[v] = e /\ Busy(v)'
    BY DEF Covered, WorkerStep, Busy
  <2>1. PICK v \in Workers : extent[v] = e /\ Busy(v)
    BY <1>4 DEF Inv, Covered, WorkerStep
  <2>2. Busy(v)'
    BY <1>1, <1>4, <1>5, <2>1 DEF WorkerStep, Busy, Excused
  <2> QED BY <2>1, <2>2
<1>8. MainKnows'
  BY <1>0 DEF WorkerStep, Inv, MainKnows, doneChan
<1> QED BY <1>2, <1>3, <1>6, <1>7, <1>8 DEF Inv

LEMMA FeedKeeps ==
  ASSUME Inv, NEW w \in Workers, Feed(w)
  PROVE  Inv'
<1>1. /\ feeder = "feeding" /\ fed < NumExtents /\ fed' = fed + 1
      /\ wstate[w] = "receive" /\ wstate' = [wstate EXCEPT ![w] = "status"]
      /\ extent' = [extent EXCEPT ![w] = fed + 1]
      /\ UNCHANGED <<callerDone, feeder, waiting, holding, errs, cancelled, progClosed, main, result, copied>>
  BY DEF Feed, Move
<1>2. fed + 1 \in Extents /\ fed + 1 \in 0 .. NumExtents
  BY <1>1, Numbers DEF Inv, Types, Extents
<1>3. Types' /\ Bracketed'
  BY <1>1, <1>2 DEF Inv, Types, WorkerStates, Bracketed, Busy
<1>4. StopsForCause' /\ MainKnows'
  BY <1>1 DEF Inv, Types, StopsForCause, Excused, MainKnows, doneChan
<1>5. Covered'
  <2> SUFFICES ASSUME NEW e \in Extents, e <= fed + 1, ~ Excused, e \notin copied
               PROVE  \E v \in Workers : extent'[v] = e /\ Busy(v)'
    BY <1>1 DEF Covered, Excused
  <2>1. CASE e = fed + 1
    BY <1>1, <2>1 DEF Inv, Types, Busy
  <2>2. CASE e # fed + 1
    <3>1. e <= fed
      BY <2>2, Numbers DEF Inv, Types, Extents
    <3>2. PICK v \in Workers : extent[v] = e /\ Busy(v)
      BY <3>1 DEF Inv, Covered
    <3> QED BY <1>1, <3>2 DEF Inv, Types, Busy
  <2> QED BY <2>1, <2>2
<1> QED BY <1>3, <1>4, <1>5 DEF Inv

(* The steps of the other goroutines and of the caller.                     *)
LEMMA OthersKeep ==
  ASSUME Inv, FeederCloses \/ Aggregator \/ Main \/ CallerCancel \/ UNCHANGED vars
  PROVE  Inv'
<1> USE DEF workVars
<1>1. UNCHANGED <<fed, wstate, extent, waiting, holding, copied>> /\ errs' \in Nat
  BY DEF FeederCloses, Aggregator, AggregatorReceives, AggregatorEnds, Main, WorkersDone, FirstError,
         DrainErrors, Join, CloseProgress, Return, CallerCancel, vars, Inv, Types
<1>2. Types' /\ Bracketed'
  BY <1>1 DEF Inv, Types, Bracketed, Busy
<1>3. Excused => Excused'
  BY DEF FeederCloses, Aggregator, AggregatorReceives, AggregatorEnds, Main, WorkersDone, FirstError,
         DrainErrors, Join, CloseProgress, Return, CallerCancel, vars, Excused
<1>4. Covered'
  BY <1>1, <1>3 DEF Inv, Covered, Busy
<1>5. StopsForCause' /\ MainKnows'
  <2>1. CASE FeederCloses
    BY <2>1, Numbers DEF FeederCloses, Inv, StopsForCause, Excused, MainKnows, doneChan
  <2>2. CASE Aggregator \/ UNCHANGED vars
    BY <2>2 DEF Aggregator, AggregatorReceives, AggregatorEnds, vars, Inv, StopsForCause, Excused, MainKnows, doneChan
  <2>3. CASE CallerCancel
    BY <2>3 DEF CallerCancel, Inv, StopsForCause, Excused, MainKnows, doneChan
  <2>4. CASE Main
    BY <2>4 DEF Main, WorkersDone, FirstError, DrainErrors, Join, CloseProgress, Return,
                Inv, Types, StopsForCause, Excused, MainKnows, doneChan
  <2> QED BY <2>1, <2>2, <2>3, <2>4
<1> QED BY <1>2, <1>4, <1>5 DEF Inv

LEMMA InvAlways == Spec => []Inv
<1>1. Inv /\ [Next]_vars => Inv'
  BY WorkerSteps, WorkerKeeps, FeedKeeps, OthersKeep DEF Next, Goroutines
<1> QED BY InvInit, <1>1, PTL DEF Spec

-----------------------------------------------------------------------------
(* The blocks of an extent.  Bytes are missing only after a short write: a  *)
(* block that failed is written again as a whole.                           *)
BlocksTyped ==
  /\ block \in [Workers -> 1 .. NumBlocks] /\ short \in [Workers -> BOOLEAN]
  /\ gaps \subseteq Extents /\ shorts \in 0 .. MaxShort
GapsFromShort == shorts = 0 => gaps = {} /\ \A w \in Workers : ~ short[w]
BlocksInv == BlocksTyped /\ GapsFromShort

LEMMA BlockBounds == NumBlocks \in Nat /\ NumBlocks >= 1 /\ MaxShort \in Nat
BY ChangedBlockCopyAssumption

LEMMA BlocksStep ==
  ASSUME Inv, BlocksInv, [Next]_vars
  PROVE  BlocksInv'
<1> USE BlockBounds DEF BlocksInv, BlocksTyped, GapsFromShort
<1>1. ASSUME NEW w \in Workers, NEW n \in 1 .. NumBlocks, StartBlock(w, n)
      PROVE  /\ block' \in [Workers -> 1 .. NumBlocks] /\ short' \in [Workers -> BOOLEAN]
             /\ shorts = 0 => \A v \in Workers : ~ short'[v]
  BY <1>1 DEF StartBlock
<1>2. ASSUME NEW w \in Workers, BlockCopied(w)
      PROVE  gaps' \subseteq Extents /\ (shorts = 0 => gaps' = {})
  <2>1. extent[w] \in Extents
    BY <1>2 DEF BlockCopied, Joined, Inv, Bracketed, Busy
  <2> QED BY <1>2, <2>1 DEF BlockCopied
<1>3. ASSUME NEW w \in Workers, ReleaseAfterStatus(w) \/ PauseEnds(w)
      PROVE  BlocksInv'
  <2>1. StartBlock(w, 1) \/ StartBlock(w, block[w])
    BY <1>3 DEF ReleaseAfterStatus, PauseEnds
  <2>2. UNCHANGED <<gaps, shorts>>
    BY <1>3 DEF ReleaseAfterStatus, PauseEnds
  <2> QED BY <1>1, <2>1, <2>2
<1>4. ASSUME NEW w \in Workers, NextBlock(w)
      PROVE  BlocksInv'
  <2>1. StartBlock(w, block[w] + 1) /\ block[w] + 1 \in 1 .. NumBlocks /\ BlockCopied(w)
        /\ UNCHANGED shorts
    BY <1>4 DEF NextBlock
  <2> QED BY <1>1, <1>2, <2>1
<1>5. ASSUME NEW w \in Workers, ExtentCopied(w)
      PROVE  BlocksInv'
  BY <1>2, <1>5 DEF ExtentCopied
<1>6. ASSUME NEW w \in Workers, SubRangeEnds(w)
      PROVE  BlocksInv'
  <2>1. UNCHANGED <<block, gaps>>
    BY <1>6 DEF SubRangeEnds
  <2>2. CASE UNCHANGED <<short, shorts>>
    BY <2>1, <2>2
  <2>3. CASE /\ shorts < MaxShort /\ shorts' = shorts + 1
             /\ short' = [short EXCEPT ![w] = TRUE]
    <3>1. short' \in [Workers -> BOOLEAN]
      BY <2>3
    <3>2. shorts' \in 0 .. MaxShort /\ shorts' # 0
      BY <2>3
    <3> QED BY <2>1, <3>1, <3>2
  <2> QED BY <1>6, <2>2, <2>3 DEF SubRangeEnds
<1>7. ASSUME NEW w \in Workers,
             \/ Feed(w) \/ NoMoreExtents(w) \/ AcquireForStatus(w) \/ StatusCancelled(w)
             \/ SubRangeAcquires(w) \/ SubRangeCancelled(w) \/ AttemptCancelled(w) \/ AttemptFailed(w)
             \/ PauseCancelled(w) \/ ReportProgress(w) \/ ReportCancelled(w)
      PROVE  BlocksInv'
  BY <1>7 DEF Feed, NoMoreExtents, AcquireForStatus, StatusCancelled, SubRangeAcquires,
     SubRangeCancelled, AttemptCancelled, AttemptFailed, PauseCancelled, ReportProgress,
     ReportCancelled, blockVars
<1>8. CASE FeederCloses \/ Aggregator \/ Main \/ CallerCancel \/ UNCHANGED vars
  BY <1>8 DEF FeederCloses, Aggregator, AggregatorReceives, AggregatorEnds, Main, WorkersDone,
     FirstError, DrainErrors, Join, CloseProgress, Return, CallerCancel, vars, blockVars
<1> QED BY <1>3, <1>4, <1>5, <1>6, <1>7, <1>8 DEF Next, Goroutines, Worker

LEMMA BlocksAlways == Spec => []BlocksInv
<1>1. Init => BlocksInv
  BY BlockBounds DEF Init, BlocksInv, BlocksTyped, GapsFromShort
<1> QED BY <1>1, BlocksStep, InvAlways, PTL DEF Spec

(* A nil error of an uncancelled caller means that every changed extent has *)
(* been copied, whichever goroutine wins each race, if no write ended       *)
(* short.                                                                   *)
THEOREM NilCopied == Spec => []NilMeansCopied
<1>1. Inv /\ BlocksInv => NilMeansCopied
  <2> SUFFICES ASSUME Inv, BlocksInv, ~ callerDone, shorts = 0, main = "returned", result = "nil"
               PROVE  Extents \subseteq copied /\ gaps = {}
    BY DEF NilMeansCopied, NilAlwaysMeansCopied, Inv, Types
  <2>1. doneChan /\ ~ Excused
    BY DEF Inv, Types, MainKnows, Excused
  <2>2. fed = NumExtents
    BY <2>1, Numbers DEF Inv, StopsForCause, doneChan
  <2>3. gaps = {}
    BY DEF BlocksInv, GapsFromShort
  <2> QED BY <2>1, <2>2, <2>3, Numbers DEF Inv, Covered, Busy, doneChan, Extents
<1> QED BY InvAlways, BlocksAlways, <1>1, PTL

(* An error that a worker sent is the call's result or was followed by one. *)
THEOREM ErrorsReported == Spec => []ErrorNotLost
<1>1. Inv => ErrorNotLost
  BY DEF Inv, MainKnows, ErrorNotLost
<1> QED BY InvAlways, <1>1, PTL

-----------------------------------------------------------------------------
(* The handles in use are counted by one token each, a pair of a worker and *)
(* a number, so that a worker's step adds or removes a single one.          *)
InUse(w) == IF wstate[w] = "walk" THEN holding[w] + 1 ELSE holding[w]
Tokens == {t \in Workers \X (1 .. SubRanges) : t[2] <= InUse(t[1])}
Exited == {w \in Workers : wstate[w] = "exited"}

PoolInv == free \in Nat /\ free + Cardinality(Tokens) = HandlePoolSize
(* Every error in errorChan was the last act of a worker.                   *)
ErrorsInv == errs <= Cardinality(Exited)
(* Sub-ranges and attempts stay within their number, a worker that copies   *)
(* has one left.                                                            *)
Limits ==
  \A w \in Workers : /\ waiting[w] + holding[w] <= SubRanges
                     /\ retries[w] <= MaxRetries
                     /\ wstate[w] \in {"walk", "copy", "pause"} => retries[w] < MaxRetries
RestTyped ==
  /\ feeder \in {"feeding", "closed"} /\ broken \in [Workers -> BOOLEAN]
  /\ retries \in [Workers -> Nat]
  /\ cancelled \in BOOLEAN /\ callerDone \in BOOLEAN
  /\ progress \in 0 .. NumExtents /\ progClosed \in BOOLEAN
  /\ aggregator \in {"draining", "done"}
  /\ main \in {"select", "drain", "join", "close", "flush", "returned"}
  /\ result \in {"nil", "error"} /\ faults \in 0 .. MaxFaults

Counts == PoolInv /\ ErrorsInv /\ Limits /\ RestTyped

LEMMA Bounds ==
  /\ NumExtents \in Nat /\ MaxFaults \in Nat /\ HandlePoolSize \in Nat
  /\ SubRanges \in Nat /\ SubRanges >= 1 /\ MaxRetries \in Nat /\ MaxRetries >= 1
  /\ IsFiniteSet(Workers)
BY ChangedBlockCopyAssumption

LEMMA CountsFinite ==
  /\ IsFiniteSet(Tokens) /\ Cardinality(Tokens) \in Nat
  /\ IsFiniteSet(Exited) /\ Cardinality(Exited) \in Nat
  /\ Cardinality(Exited) <= Cardinality(Workers) /\ Cardinality(Workers) \in Nat
<1>1. IsFiniteSet(1 .. SubRanges)
  BY Bounds, FS_Interval
<1>2. IsFiniteSet(Workers \X (1 .. SubRanges))
  BY <1>1, Bounds, FS_Product
<1>3. IsFiniteSet(Tokens)
  <2>1. Tokens \in SUBSET (Workers \X (1 .. SubRanges))
    BY DEF Tokens
  <2> QED BY <1>2, <2>1, FS_Subset
<1>4. IsFiniteSet(Exited) /\ Cardinality(Exited) <= Cardinality(Workers)
  <2>1. Exited \in SUBSET Workers
    BY DEF Exited
  <2> QED BY <2>1, Bounds, FS_Subset
<1> QED BY <1>3, <1>4, Bounds, FS_CardinalityType

LEMMA CountsInit == Init => Counts
<1> SUFFICES ASSUME Init PROVE Counts
  OBVIOUS
<1>1. Tokens = {}
  BY Bounds DEF Init, Tokens, InUse
<1>2. Cardinality(Tokens) = 0
  BY <1>1, FS_EmptySet
<1>3. PoolInv
  BY <1>2, Bounds DEF Init, PoolInv
<1>4. ErrorsInv
  BY CountsFinite DEF Init, ErrorsInv
<1>5. Limits
  BY Bounds DEF Init, Limits
<1>6. RestTyped
  <2>1. broken \in [Workers -> BOOLEAN] /\ retries \in [Workers -> Nat]
    BY DEF Init
  <2>2. progress \in 0 .. NumExtents /\ faults \in 0 .. MaxFaults
    BY Bounds DEF Init
  <2> QED BY <2>1, <2>2 DEF Init, RestTyped
<1> QED BY <1>3, <1>4, <1>5, <1>6 DEF Counts

(* One worker takes a handle more, or gives one back.                       *)
SameUse(v) == InUse(v)' = InUse(v)
LEMMA TokenTaken ==
  ASSUME NEW w \in Workers, InUse(w) \in Nat, InUse(w)' = InUse(w) + 1, InUse(w) < SubRanges,
         \A v \in Workers \ {w} : SameUse(v)
  PROVE  Cardinality(Tokens') = Cardinality(Tokens) + 1
<1> DEFINE t == <<w, InUse(w) + 1>>
<1>0. PICK n \in 1 .. SubRanges : n = InUse(w) + 1
  BY Bounds
<1>1. <<w, n>> \notin Tokens /\ Tokens' = Tokens \cup {<<w, n>>}
  <2>1. \A v \in Workers, k \in 1 .. SubRanges :
          k <= InUse(v)' <=> (k <= InUse(v) \/ (v = w /\ k = n))
    BY <1>0, Bounds DEF SameUse
  <2>2. ~ (n <= InUse(w))
    BY <1>0
  <2>3. \A x \in Workers \X (1 .. SubRanges) :
          x \in Tokens' <=> (x \in Tokens \/ x = <<w, n>>)
    <3>1. SUFFICES ASSUME NEW v \in Workers, NEW k \in 1 .. SubRanges
                   PROVE  <<v, k>> \in Tokens' <=> (<<v, k>> \in Tokens \/ <<v, k>> = <<w, n>>)
      OBVIOUS
    <3> QED BY <2>1 DEF Tokens
  <2>4. Tokens \subseteq Workers \X (1 .. SubRanges) /\ Tokens' \subseteq Workers \X (1 .. SubRanges)
    BY DEF Tokens
  <2> QED BY <1>0, <2>2, <2>3, <2>4 DEF Tokens
<1> QED BY <1>1, CountsFinite, FS_AddElement

LEMMA TokenBack ==
  ASSUME NEW w \in Workers, InUse(w) \in Nat, InUse(w) > 0, InUse(w)' = InUse(w) - 1,
         InUse(w) <= SubRanges,
         \A v \in Workers \ {w} : SameUse(v)
  PROVE  Cardinality(Tokens') = Cardinality(Tokens) - 1
<1>0. PICK n \in 1 .. SubRanges : n = InUse(w)
  BY Bounds
<1>1. <<w, n>> \in Tokens /\ Tokens' = Tokens \ {<<w, n>>}
  <2>1. \A v \in Workers, k \in 1 .. SubRanges :
          k <= InUse(v)' <=> (k <= InUse(v) /\ ~ (v = w /\ k = n))
    BY <1>0, Bounds DEF SameUse
  <2>2. n <= InUse(w)
    BY <1>0
  <2>3. \A x \in Workers \X (1 .. SubRanges) :
          x \in Tokens' <=> (x \in Tokens /\ x # <<w, n>>)
    <3>1. SUFFICES ASSUME NEW v \in Workers, NEW k \in 1 .. SubRanges
                   PROVE  <<v, k>> \in Tokens' <=> (<<v, k>> \in Tokens /\ <<v, k>> # <<w, n>>)
      OBVIOUS
    <3> QED BY <2>1 DEF Tokens
  <2>4. Tokens \subseteq Workers \X (1 .. SubRanges) /\ Tokens' \subseteq Workers \X (1 .. SubRanges)
    BY DEF Tokens
  <2> QED BY <1>0, <2>2, <2>3, <2>4 DEF Tokens
<1> QED BY <1>1, CountsFinite, FS_RemoveElement

LEMMA TokensKept ==
  ASSUME \A v \in Workers : SameUse(v)
  PROVE  Tokens' = Tokens
BY DEF Tokens, SameUse

LEMMA PoolStep ==
  ASSUME Inv, Counts, [Next]_vars
  PROVE  PoolInv'
<1> USE DEF SameUse
<1>0. /\ \A v \in Workers : holding[v] \in Nat /\ waiting[v] \in Nat
      /\ wstate \in [Workers -> WorkerStates] /\ holding \in [Workers -> Nat]
      /\ \A v \in Workers : wstate[v] # "copy" => holding[v] = 0
      /\ \A v \in Workers : waiting[v] + holding[v] <= SubRanges
  BY DEF Inv, Types, Bracketed, Counts, Limits
<1>1. ASSUME NEW w \in Workers, AcquireForStatus(w)
      PROVE  PoolInv'
  <2>1. InUse(w) = 0 /\ InUse(w)' = 1 /\ \A v \in Workers \ {w} : SameUse(v)
    BY <1>0, <1>1 DEF AcquireForStatus, Move, InUse
  <2>2. Cardinality(Tokens') = Cardinality(Tokens) + 1
    BY <2>1, TokenTaken, Bounds
  <2>3. free > 0 /\ free' = free - 1
    BY <1>1 DEF AcquireForStatus
  <2> QED BY <2>2, <2>3, CountsFinite, Bounds DEF Counts, PoolInv
<1>2. ASSUME NEW w \in Workers, ReleaseAfterStatus(w)
      PROVE  PoolInv'
  <2>1. InUse(w) = 1 /\ InUse(w)' = 0 /\ \A v \in Workers \ {w} : SameUse(v)
    BY <1>0, <1>2 DEF ReleaseAfterStatus, Move, InUse
  <2>2. Cardinality(Tokens') = Cardinality(Tokens) - 1
    BY <2>1, TokenBack, Bounds
  <2>3. free' = free + 1
    BY <1>2 DEF ReleaseAfterStatus
  <2> QED BY <2>2, <2>3, CountsFinite, Bounds DEF Counts, PoolInv
<1>3. ASSUME NEW w \in Workers, SubRangeAcquires(w)
      PROVE  PoolInv'
  <2>1. /\ InUse(w) = holding[w] /\ holding[w] < SubRanges /\ InUse(w)' = holding[w] + 1
        /\ \A v \in Workers \ {w} : SameUse(v)
    BY <1>0, <1>3, Bounds DEF SubRangeAcquires, InUse
  <2>2. Cardinality(Tokens') = Cardinality(Tokens) + 1
    BY <1>0, <2>1, TokenTaken, Bounds
  <2>3. free > 0 /\ free' = free - 1
    BY <1>3 DEF SubRangeAcquires
  <2> QED BY <2>2, <2>3, CountsFinite, Bounds DEF Counts, PoolInv
<1>4. ASSUME NEW w \in Workers, SubRangeEnds(w)
      PROVE  PoolInv'
  <2>1. /\ InUse(w) = holding[w] /\ holding[w] > 0 /\ holding[w] <= SubRanges
        /\ InUse(w)' = holding[w] - 1
        /\ \A v \in Workers \ {w} : SameUse(v)
    BY <1>0, <1>4, Bounds DEF SubRangeEnds, InUse
  <2>2. Cardinality(Tokens') = Cardinality(Tokens) - 1
    BY <1>0, <2>1, TokenBack, Bounds
  <2>3. free' = free + 1
    BY <1>4 DEF SubRangeEnds
  <2> QED BY <2>2, <2>3, CountsFinite, Bounds DEF Counts, PoolInv
<1>5. ASSUME NEW w \in Workers,
             \/ Feed(w) \/ NoMoreExtents(w) \/ StatusCancelled(w) \/ SubRangeCancelled(w)
             \/ ExtentCopied(w) \/ AttemptCancelled(w) \/ AttemptFailed(w) \/ PauseEnds(w)
             \/ PauseCancelled(w) \/ ReportProgress(w) \/ ReportCancelled(w) \/ NextBlock(w)
      PROVE  PoolInv'
  <2>1. free' = free /\ holding' = holding
    BY <1>5 DEF Feed, NoMoreExtents, StatusCancelled, SubRangeCancelled, ExtentCopied,
       AttemptCancelled, AttemptFailed, PauseEnds, PauseCancelled, ReportProgress,
       ReportCancelled, NextBlock
  <2>2. \A v \in Workers : wstate'[v] = "walk" <=> wstate[v] = "walk"
    BY <1>0, <1>5 DEF Feed, NoMoreExtents, StatusCancelled, SubRangeCancelled, ExtentCopied,
       AttemptCancelled, AttemptFailed, PauseEnds, PauseCancelled, ReportProgress,
       ReportCancelled, NextBlock, BlockCopied, Joined, Move
  <2> QED BY <2>1, <2>2, TokensKept DEF InUse, Counts, PoolInv
<1>6. CASE FeederCloses \/ Aggregator \/ Main \/ CallerCancel \/ UNCHANGED vars
  <2>1. UNCHANGED workVars
    BY <1>6 DEF FeederCloses, Aggregator, AggregatorReceives, AggregatorEnds, Main, WorkersDone,
       FirstError, DrainErrors, Join, CloseProgress, Return, CallerCancel, vars, workVars
  <2> QED BY <2>1, TokensKept DEF workVars, InUse, Counts, PoolInv
<1> QED BY <1>1, <1>2, <1>3, <1>4, <1>5, <1>6 DEF Next, Goroutines, Worker

LEMMA ErrorsStep ==
  ASSUME Inv, Counts, [Next]_vars
  PROVE  ErrorsInv'
<1>0. wstate \in [Workers -> WorkerStates] /\ errs \in Nat
  BY DEF Inv, Types
<1>1. ASSUME NEW w \in Workers, AttemptFailed(w), errs' # errs
      PROVE  ErrorsInv'
  <2>1. errs' = errs + 1 /\ wstate[w] # "exited" /\ wstate' = [wstate EXCEPT ![w] = "exited"]
    BY <1>1 DEF AttemptFailed, Joined, Move
  <2>2. Exited' = Exited \cup {w} /\ w \notin Exited
    BY <1>0, <2>1 DEF Exited
  <2>3. Cardinality(Exited') = Cardinality(Exited) + 1
    BY <2>2, CountsFinite, FS_AddElement
  <2> QED BY <1>0, <2>1, <2>3, CountsFinite DEF Counts, ErrorsInv
<1>2. CASE errs' \in Nat /\ errs' <= errs
  <2>1. Exited \subseteq Exited'
    <3>1. \A w \in Workers : Worker(w) => \A v \in Exited : wstate'[v] = "exited"
      BY <1>0, WorkerSteps DEF WorkerStep, Exited
    <3>2. \A w \in Workers : Feed(w) => \A v \in Exited : wstate'[v] = "exited"
      BY <1>0 DEF Feed, Move, Exited
    <3>3. FeederCloses \/ Aggregator \/ Main \/ CallerCancel \/ UNCHANGED vars
            => wstate' = wstate
      BY DEF FeederCloses, Aggregator, AggregatorReceives, AggregatorEnds, Main, WorkersDone,
         FirstError, DrainErrors, Join, CloseProgress, Return, CallerCancel, vars, workVars
    <3> QED BY <3>1, <3>2, <3>3 DEF Next, Goroutines, Exited
  <2>2. Exited \in SUBSET Exited' /\ IsFiniteSet(Exited')
    <3>1. Exited' \in SUBSET Workers
      BY DEF Exited
    <3> QED BY <2>1, <3>1, Bounds, FS_Subset
  <2>3. Cardinality(Exited) <= Cardinality(Exited') /\ Cardinality(Exited') \in Nat
    BY <2>2, FS_Subset, FS_CardinalityType
  <2> QED BY <1>0, <1>2, <2>3, CountsFinite DEF Counts, ErrorsInv
<1>3. (\E w \in Workers : AttemptFailed(w) /\ errs' # errs) \/ (errs' \in Nat /\ errs' <= errs)
  <2>1. ASSUME NEW w \in Workers,
             \/ Feed(w) \/ NoMoreExtents(w) \/ StatusCancelled(w) \/ SubRangeCancelled(w)
             \/ ExtentCopied(w) \/ AttemptCancelled(w) \/ PauseEnds(w) \/ AcquireForStatus(w)
             \/ PauseCancelled(w) \/ ReportProgress(w) \/ ReportCancelled(w)
             \/ ReleaseAfterStatus(w) \/ SubRangeAcquires(w) \/ SubRangeEnds(w) \/ NextBlock(w)
        PROVE  errs' = errs
    BY <2>1 DEF Feed, NoMoreExtents, StatusCancelled, SubRangeCancelled, ExtentCopied,
       AttemptCancelled, PauseEnds, PauseCancelled, ReportProgress,
       ReportCancelled, AcquireForStatus, ReleaseAfterStatus, SubRangeAcquires, SubRangeEnds,
       NextBlock
  <2>2. CASE FeederCloses \/ Aggregator \/ Main \/ CallerCancel \/ UNCHANGED vars
    BY <1>0, <2>2 DEF FeederCloses, Aggregator, AggregatorReceives, AggregatorEnds, Main,
       WorkersDone, FirstError, DrainErrors, Join, CloseProgress, Return, CallerCancel, vars
  <2> QED BY <1>0, <2>1, <2>2 DEF Next, Goroutines, Worker
<1> QED BY <1>1, <1>2, <1>3

LEMMA LimitsStep ==
  ASSUME Inv, Counts, [Next]_vars
  PROVE  Limits' /\ retries' \in [Workers -> Nat]
<1>0. /\ wstate \in [Workers -> WorkerStates] /\ retries \in [Workers -> Nat]
      /\ waiting \in [Workers -> Nat] /\ holding \in [Workers -> Nat]
      /\ Limits /\ \A v \in Workers : wstate[v] # "copy" => waiting[v] = 0 /\ holding[v] = 0
  BY DEF Inv, Types, Counts, RestTyped, Bracketed
<1>1. ASSUME NEW w \in Workers,
             AcquireForStatus(w) \/ ReleaseAfterStatus(w) \/ PauseEnds(w) \/ NextBlock(w) \/ ExtentCopied(w)
      PROVE  Limits' /\ retries' \in [Workers -> Nat]
  <2>1. CASE AcquireForStatus(w)
    BY <1>0, <2>1, Bounds DEF AcquireForStatus, Move, Limits
  <2>2. CASE ReleaseAfterStatus(w)
    BY <1>0, <2>2, Bounds DEF ReleaseAfterStatus, StartBlock, Move, Limits
  <2>3. CASE PauseEnds(w)
    BY <1>0, <2>3, Bounds DEF PauseEnds, StartBlock, Move, Limits
  <2>4. CASE NextBlock(w)
    <3>1. /\ waiting' = [waiting EXCEPT ![w] = SubRanges] /\ holding[w] = 0
          /\ retries' = [retries EXCEPT ![w] = 0] /\ UNCHANGED <<wstate, holding>>
      BY <2>4 DEF NextBlock, BlockCopied, StartBlock, Joined
    <3> QED BY <1>0, <3>1, Bounds DEF Limits
  <2>5. CASE ExtentCopied(w)
    BY <1>0, <2>5, Bounds DEF ExtentCopied, BlockCopied, Joined, Move, Limits
  <2> QED BY <1>1, <2>1, <2>2, <2>3, <2>4, <2>5
<1>2. ASSUME NEW w \in Workers, SubRangeAcquires(w) \/ SubRangeCancelled(w) \/ SubRangeEnds(w)
      PROVE  Limits' /\ retries' \in [Workers -> Nat]
  <2>1. UNCHANGED <<retries, wstate>>
    BY <1>2 DEF SubRangeAcquires, SubRangeCancelled, SubRangeEnds
  <2>2. \A v \in Workers : waiting'[v] + holding'[v] <= SubRanges
    <3>1. CASE SubRangeAcquires(w)
      BY <1>0, <3>1, Bounds DEF SubRangeAcquires, Limits
    <3>2. CASE SubRangeCancelled(w)
      BY <1>0, <3>2, Bounds DEF SubRangeCancelled, Limits
    <3>3. CASE SubRangeEnds(w)
      BY <1>0, <3>3, Bounds DEF SubRangeEnds, Limits
    <3> QED BY <1>2, <3>1, <3>2, <3>3
  <2> QED BY <1>0, <2>1, <2>2 DEF Limits
<1>3. ASSUME NEW w \in Workers, AttemptFailed(w)
      PROVE  Limits' /\ retries' \in [Workers -> Nat]
  BY <1>0, <1>3, Bounds DEF AttemptFailed, Joined, Move, Limits
<1>4. ASSUME NEW w \in Workers,
             \/ Feed(w) \/ NoMoreExtents(w) \/ StatusCancelled(w)
             \/ AttemptCancelled(w) \/ PauseCancelled(w) \/ ReportProgress(w)
             \/ ReportCancelled(w)
      PROVE  Limits' /\ retries' \in [Workers -> Nat]
  <2>1. UNCHANGED <<waiting, holding, retries>>
    BY <1>4 DEF Feed, NoMoreExtents, StatusCancelled, AttemptCancelled,
       PauseCancelled, ReportProgress, ReportCancelled
  <2>2. \A v \in Workers : wstate'[v] \in {"walk", "copy", "pause"} =>
          wstate[v] \in {"walk", "copy", "pause"}
    BY <1>0, <1>4 DEF Feed, NoMoreExtents, StatusCancelled, AttemptCancelled,
       PauseCancelled, ReportProgress, ReportCancelled, Joined, Move
  <2> QED BY <1>0, <2>1, <2>2 DEF Limits
<1>5. CASE FeederCloses \/ Aggregator \/ Main \/ CallerCancel \/ UNCHANGED vars
  <2>1. UNCHANGED workVars
    BY <1>5 DEF FeederCloses, Aggregator, AggregatorReceives, AggregatorEnds, Main, WorkersDone,
       FirstError, DrainErrors, Join, CloseProgress, Return, CallerCancel, vars, workVars
  <2> QED BY <1>0, <2>1 DEF workVars, Limits
<1> QED BY <1>1, <1>2, <1>3, <1>4, <1>5 DEF Next, Goroutines, Worker

LEMMA RestStep ==
  ASSUME Inv, Counts, [Next]_vars
  PROVE  RestTyped'
<1>0. retries' \in [Workers -> Nat]
  BY LimitsStep
<1>1. ASSUME NEW w \in Workers, Worker(w) \/ Feed(w)
      PROVE  RestTyped'
  <2>1. CASE NoMoreExtents(w) \/ StatusCancelled(w) \/ AttemptCancelled(w) \/ PauseCancelled(w)
              \/ ReportCancelled(w) \/ ExtentCopied(w) \/ Feed(w) \/ AcquireForStatus(w)
              \/ SubRangeAcquires(w) \/ AttemptFailed(w)
    BY <1>0, <2>1 DEF NoMoreExtents, StatusCancelled, AttemptCancelled, PauseCancelled,
       ReportCancelled, ExtentCopied, Feed, AcquireForStatus, SubRangeAcquires, AttemptFailed,
       Counts, RestTyped
  <2>2. CASE ReleaseAfterStatus(w)
    BY <1>0, <2>2 DEF ReleaseAfterStatus, StartBlock, Counts, RestTyped
  <2>5. CASE PauseEnds(w)
    BY <1>0, <2>5 DEF PauseEnds, StartBlock, Counts, RestTyped
  <2>7. CASE NextBlock(w)
    BY <1>0, <2>7 DEF NextBlock, StartBlock, Counts, RestTyped
  <2>6. CASE SubRangeCancelled(w)
    BY <1>0, <2>6 DEF SubRangeCancelled, Counts, RestTyped
  <2>3. CASE SubRangeEnds(w)
    <3>1. broken' \in [Workers -> BOOLEAN]
      BY <2>3 DEF SubRangeEnds, Counts, RestTyped
    <3>2. faults' \in 0 .. MaxFaults
      BY <2>3, Bounds DEF SubRangeEnds, Counts, RestTyped
    <3> QED BY <1>0, <2>3, <3>1, <3>2 DEF SubRangeEnds, Counts, RestTyped
  <2>4. CASE ReportProgress(w)
    BY <1>0, <2>4, Bounds DEF ReportProgress, Counts, RestTyped
  <2> QED BY <1>1, <2>1, <2>2, <2>3, <2>4, <2>5, <2>6, <2>7 DEF Worker
<1>2. CASE Aggregator
  <2>1. CASE AggregatorReceives
    BY <1>0, <2>1, Bounds DEF AggregatorReceives, workVars, Counts, RestTyped
  <2>2. CASE AggregatorEnds
    BY <1>0, <2>2 DEF AggregatorEnds, workVars, Counts, RestTyped
  <2> QED BY <1>2, <2>1, <2>2 DEF Aggregator
<1>3. CASE FeederCloses
  BY <1>0, <1>3 DEF FeederCloses, workVars, Counts, RestTyped
<1>5. CASE CallerCancel
  BY <1>0, <1>5 DEF CallerCancel, workVars, Counts, RestTyped
<1>6. CASE UNCHANGED vars
  BY <1>0, <1>6 DEF vars, workVars, Counts, RestTyped
<1>4. CASE Main
  <2>1. CASE WorkersDone
    BY <1>0, <2>1 DEF WorkersDone, workVars, Counts, RestTyped
  <2>2. CASE FirstError
    BY <1>0, <2>2 DEF FirstError, workVars, Counts, RestTyped
  <2>3. CASE DrainErrors
    BY <1>0, <2>3 DEF DrainErrors, workVars, Counts, RestTyped
  <2>4. CASE Join
    BY <1>0, <2>4 DEF Join, workVars, Counts, RestTyped
  <2>5. CASE CloseProgress
    BY <1>0, <2>5 DEF CloseProgress, workVars, Counts, RestTyped
  <2>6. CASE Return
    BY <1>0, <2>6 DEF Return, workVars, Counts, RestTyped
  <2> QED BY <1>4, <2>1, <2>2, <2>3, <2>4, <2>5, <2>6 DEF Main
<1> QED BY <1>1, <1>2, <1>3, <1>4, <1>5, <1>6 DEF Next, Goroutines

LEMMA CountsAlways == Spec => [](Inv /\ Counts)
<1>1. Inv /\ Counts /\ [Next]_vars => Counts'
  BY PoolStep, ErrorsStep, LimitsStep, RestStep DEF Counts
<1> QED BY InvAlways, CountsInit, <1>1, PTL DEF Spec

(* Queues, pool and counters stay within their bounds: no handle is given   *)
(* back that was not taken, no worker attempts a block more often than      *)
(* GetRetryLimits allows, errorChan has room for every error and            *)
(* incrementalcopyprogress for every message.                               *)
THEOREM TypeCorrect == Spec => []TypeOK
<1>1. ASSUME Inv, Counts, BlocksInv PROVE TypeOK
  <2>1. free \in 0 .. HandlePoolSize
    BY <1>1, CountsFinite, Bounds DEF Counts, PoolInv
  <2>2. errs \in 0 .. Cardinality(Workers)
    BY <1>1, CountsFinite DEF Inv, Types, Counts, ErrorsInv
  <2>3. /\ \A w \in Workers : /\ waiting[w] \in 0 .. SubRanges /\ holding[w] \in 0 .. SubRanges
                               /\ retries[w] \in 0 .. MaxRetries
    BY <1>1, Bounds DEF Inv, Types, Counts, Limits, RestTyped
  <2>4. /\ waiting \in [Workers -> 0 .. SubRanges] /\ holding \in [Workers -> 0 .. SubRanges]
        /\ retries \in [Workers -> 0 .. MaxRetries]
    BY <1>1, <2>3 DEF Inv, Types, Counts, RestTyped
  <2> QED BY <1>1, <2>1, <2>2, <2>4 DEF TypeOK, Inv, Types, Counts, RestTyped, BlocksInv, BlocksTyped
<1> QED BY CountsAlways, BlocksAlways, <1>1, PTL

(* The invariant CopyChangedBlocks states for itself (nbdops.go:699-702):   *)
(* when the deferred closes run, no goroutine is left that could use what   *)
(* they close, and every handle is back in the pool.                        *)
THEOREM PoolWholeWhenClosed == Spec => []NoUseAfterClose
<1>1. ASSUME Inv, Counts, progClosed PROVE free = HandlePoolSize
  <2>1. \A w \in Workers : InUse(w) = 0
    BY <1>1 DEF Inv, MainKnows, Bracketed, doneChan, InUse
  <2>2. Tokens = {}
    BY <2>1, Bounds DEF Tokens
  <2>3. Cardinality(Tokens) = 0
    BY <2>2, FS_EmptySet
  <2> QED BY <1>1, <2>3, Bounds DEF Counts, PoolInv
<1>2. Inv /\ Counts => NoUseAfterClose
  BY <1>1 DEF NoUseAfterClose, Inv, MainKnows, Bracketed, doneChan
<1> QED BY CountsAlways, <1>2, PTL
=============================================================================
