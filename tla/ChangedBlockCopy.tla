-------------------------- MODULE ChangedBlockCopy --------------------------
(***************************************************************************)
(* CopyChangedBlocks of v2v-helper/nbd: one call that copies the coalesced *)
(* CBT extents of a disk.  A feeder hands the extents to workers over an   *)
(* unbuffered channel; a worker takes a libnbd handle of a fixed pool to   *)
(* ask for the block status, then copies the blocks it found one after     *)
(* another, each in sub-ranges, one goroutine and one handle each; an      *)
(* aggregator drains the progress channel.  The first error cancels the    *)
(* derived context copyCtx; the caller's cancellation reaches copyCtx as   *)
(* well.  A write that ends short is logged and taken for a whole one.     *)
(***************************************************************************)
EXTENDS Naturals, FiniteSets

CONSTANTS
  NumExtents,    \* len(coalesced); extents are 1..NumExtents
  Workers,       \* the extent workers (workerCount of them)
  HandlePoolSize,
  NumBlocks,     \* blocks getBlockStatus finds in an extent; 1..NumBlocks
  SubRanges,     \* sub-ranges a block is split into
  MaxRetries,    \* GetRetryLimits
  MaxFaults,     \* bound: reads or writes that fail
  MaxShort,      \* bound: writes that end short
  CallerCancels  \* the caller's context may be cancelled

Extents == 1 .. NumExtents

ASSUME ChangedBlockCopyAssumption ==
  /\ {NumExtents, MaxFaults, MaxShort} \subseteq Nat
  /\ {HandlePoolSize, NumBlocks, SubRanges, MaxRetries} \subseteq Nat \ {0}
  /\ CallerCancels \in BOOLEAN
  /\ IsFiniteSet(Workers) /\ Workers # {}

VARIABLES
  fed,        \* extents the feeder has handed out
  feeder,     \* "feeding", or "closed": extentCh is closed
  wstate,     \* what each worker is doing
  extent,     \* its extent (0: none yet)
  block,      \* blockIdx in its extent
  waiting,    \* its sub-range goroutines that still need a handle
  holding,    \* its sub-range goroutines that hold one
  broken,     \* one of its sub-ranges failed
  short,      \* one of its sub-ranges wrote less than it read
  retries,    \* its failed attempts at the current block
  free,       \* handles in the pool
  errs,       \* errors in errorChan
  cancelled,  \* copyCtx is done
  callerDone, \* the caller's context is done
  progress,   \* messages in incrementalcopyprogress
  progClosed, \* ... which is closed
  aggregator, \* "draining" or "done": progressDone is closed
  main,       \* where the calling goroutine is
  result,     \* firstErr
  copied,     \* extents whose every block was taken for copied
  gaps,       \* history: extents with bytes that were never written
  shorts,     \* writes that ended short so far
  faults      \* failures so far

blockVars == <<block, short, gaps, shorts>>
workVars == <<wstate, extent, waiting, holding, broken, retries, free>>
vars == <<fed, feeder, wstate, extent, waiting, holding, broken, retries, free,
          errs, cancelled, callerDone, progress, progClosed, aggregator, main,
          result, copied, faults, block, short, gaps, shorts>>

Init ==
  /\ fed = 0 /\ feeder = "feeding"
  /\ wstate = [w \in Workers |-> "receive"]
  /\ extent = [w \in Workers |-> 0]
  /\ waiting = [w \in Workers |-> 0]
  /\ holding = [w \in Workers |-> 0]
  /\ broken = [w \in Workers |-> FALSE]
  /\ block = [w \in Workers |-> 1]
  /\ short = [w \in Workers |-> FALSE]
  /\ retries = [w \in Workers |-> 0]
  /\ free = HandlePoolSize
  /\ errs = 0 /\ cancelled = FALSE /\ callerDone = FALSE
  /\ progress = 0 /\ progClosed = FALSE /\ aggregator = "draining"
  /\ main = "select" /\ result = "nil"
  /\ copied = {} /\ gaps = {} /\ faults = 0 /\ shorts = 0

Move(w, from, to) ==
  /\ wstate[w] = from
  /\ wstate' = [wstate EXCEPT ![w] = to]

-----------------------------------------------------------------------------
(* The feeder.  When copyCtx is done and a worker is receiving, Go's select *)
(* may take either case.                                                    *)

Feed(w) ==
  /\ feeder = "feeding" /\ fed < NumExtents
  /\ Move(w, "receive", "status")
  /\ fed' = fed + 1
  /\ extent' = [extent EXCEPT ![w] = fed + 1]
  /\ UNCHANGED <<callerDone, blockVars, feeder, waiting, holding, broken, retries, free, errs, cancelled,
                 progress, progClosed, aggregator, main, result, copied, faults>>

FeederCloses ==
  /\ feeder = "feeding" /\ (fed = NumExtents \/ cancelled)
  /\ feeder' = "closed"
  /\ UNCHANGED <<callerDone, blockVars, fed, workVars, errs, cancelled, progress, progClosed, aggregator,
                 main, result, copied, faults>>

-----------------------------------------------------------------------------
(* A worker. *)

NoMoreExtents(w) ==
  /\ feeder = "closed"
  /\ Move(w, "receive", "exited")
  /\ UNCHANGED <<callerDone, blockVars, fed, feeder, extent, waiting, holding, broken, retries, free, errs,
                 cancelled, progress, progClosed, aggregator, main, result, copied, faults>>

(* Mutant: the handle is used without being taken from the pool.            *)
AcquireForStatusShares(w) ==
  /\ free > 0
  /\ Move(w, "status", "walk")
  /\ retries' = [retries EXCEPT ![w] = 0]
  /\ UNCHANGED <<callerDone, blockVars, fed, feeder, extent, waiting, holding, broken, free, errs, cancelled,
                 progress, progClosed, aggregator, main, result, copied, faults>>

(* Acquire a handle, walk the block status, release the handle. *)
AcquireForStatus(w) ==
  /\ free > 0
  /\ Move(w, "status", "walk")
  /\ free' = free - 1
  /\ retries' = [retries EXCEPT ![w] = 0]
  /\ UNCHANGED <<callerDone, blockVars, fed, feeder, extent, waiting, holding, broken, errs, cancelled,
                 progress, progClosed, aggregator, main, result, copied, faults>>

StatusCancelled(w) ==
  /\ cancelled
  /\ Move(w, "status", "exited")
  /\ UNCHANGED <<callerDone, blockVars, fed, feeder, extent, waiting, holding, broken, retries, free, errs,
                 cancelled, progress, progClosed, aggregator, main, result, copied, faults>>

(* copyBlockParallel starts a goroutine for each sub-range of block n.      *)
StartBlock(w, n) ==
  /\ block' = [block EXCEPT ![w] = n]
  /\ waiting' = [waiting EXCEPT ![w] = SubRanges]
  /\ broken' = [broken EXCEPT ![w] = FALSE]
  /\ short' = [short EXCEPT ![w] = FALSE]

(* Mutant: the handle is kept while the sub-ranges wait for theirs.         *)
ReleaseAfterStatusKeeps(w) ==
  /\ Move(w, "walk", "copy")
  /\ StartBlock(w, 1)
  /\ UNCHANGED <<callerDone, fed, feeder, extent, holding, retries, free, errs, cancelled, progress,
                 progClosed, aggregator, main, result, copied, gaps, faults, shorts>>

ReleaseAfterStatus(w) ==
  /\ Move(w, "walk", "copy")
  /\ free' = free + 1
  /\ StartBlock(w, 1)
  /\ UNCHANGED <<callerDone, fed, feeder, extent, holding, retries, errs, cancelled, progress,
                 progClosed, aggregator, main, result, copied, gaps, faults, shorts>>

(* A sub-range gets a handle, or gives up as copyCtx is done; it copies its *)
(* bytes, or fails, or a write ends short, which pwrite logs and copyRange  *)
(* does not look at.                                                        *)
SubRangeAcquires(w) ==
  /\ wstate[w] = "copy" /\ waiting[w] > 0 /\ free > 0
  /\ waiting' = [waiting EXCEPT ![w] = @ - 1]
  /\ holding' = [holding EXCEPT ![w] = @ + 1]
  /\ free' = free - 1
  /\ UNCHANGED <<callerDone, blockVars, fed, feeder, wstate, extent, broken, retries, errs, cancelled,
                 progress, progClosed, aggregator, main, result, copied, faults>>

SubRangeCancelled(w) ==
  /\ wstate[w] = "copy" /\ waiting[w] > 0 /\ cancelled
  /\ waiting' = [waiting EXCEPT ![w] = @ - 1]
  /\ broken' = [broken EXCEPT ![w] = TRUE]
  /\ UNCHANGED <<callerDone, blockVars, fed, feeder, wstate, extent, holding, retries, free, errs, cancelled,
                 progress, progClosed, aggregator, main, result, copied, faults>>

SubRangeEnds(w) ==
  /\ wstate[w] = "copy" /\ holding[w] > 0
  /\ holding' = [holding EXCEPT ![w] = @ - 1]
  /\ free' = free + 1
  /\ \/ UNCHANGED <<broken, faults, short, shorts>>
     \/ /\ faults < MaxFaults /\ faults' = faults + 1
        /\ broken' = [broken EXCEPT ![w] = TRUE]
        /\ UNCHANGED <<short, shorts>>
     \/ /\ shorts < MaxShort /\ shorts' = shorts + 1
        /\ short' = [short EXCEPT ![w] = TRUE]
        /\ UNCHANGED <<broken, faults>>
  /\ UNCHANGED <<callerDone, fed, feeder, wstate, extent, block, waiting, retries, errs, cancelled,
                 progress, progClosed, aggregator, main, result, copied, gaps>>

Joined(w) == wstate[w] = "copy" /\ waiting[w] = 0 /\ holding[w] = 0

(* A block without an error is done; the last one completes its extent.     *)
BlockCopied(w) ==
  /\ Joined(w) /\ ~ broken[w]
  /\ gaps' = IF short[w] THEN gaps \cup {extent[w]} ELSE gaps
  /\ retries' = [retries EXCEPT ![w] = 0]

NextBlock(w) ==
  /\ BlockCopied(w) /\ block[w] < NumBlocks
  /\ StartBlock(w, block[w] + 1)
  /\ UNCHANGED <<callerDone, fed, feeder, wstate, extent, holding, free, errs, cancelled, progress,
                 progClosed, aggregator, main, result, copied, faults, shorts>>

ExtentCopied(w) ==
  /\ BlockCopied(w) /\ block[w] = NumBlocks
  /\ Move(w, "copy", "report")
  /\ copied' = copied \cup {extent[w]}
  /\ UNCHANGED <<callerDone, fed, feeder, extent, block, waiting, holding, broken, short, free, errs,
                 cancelled, progress, progClosed, aggregator, main, result, faults, shorts>>

(* The attempt failed: quiet exit if copyCtx is done, an error after        *)
(* MaxRetries attempts, a pause before the next one otherwise.              *)
AttemptCancelled(w) ==
  /\ Joined(w) /\ broken[w] /\ cancelled
  /\ Move(w, "copy", "exited")
  /\ UNCHANGED <<callerDone, blockVars, fed, feeder, extent, waiting, holding, broken, retries, free, errs,
                 cancelled, progress, progClosed, aggregator, main, result, copied, faults>>

(* Mutant: a worker gives up without a word.                                *)
AttemptFailedSilently(w) ==
  /\ Joined(w) /\ broken[w] /\ ~ cancelled
  /\ retries' = [retries EXCEPT ![w] = @ + 1]
  /\ Move(w, "copy", IF retries[w] + 1 >= MaxRetries THEN "exited" ELSE "pause")
  /\ UNCHANGED <<callerDone, blockVars, fed, feeder, extent, waiting, holding, broken, free, errs, cancelled,
                 progress, progClosed, aggregator, main, result, copied, faults>>
AttemptFailed(w) ==
  /\ Joined(w) /\ broken[w] /\ ~ cancelled
  /\ retries' = [retries EXCEPT ![w] = @ + 1]
  /\ IF retries[w] + 1 >= MaxRetries
     THEN Move(w, "copy", "exited") /\ errs' = errs + 1
     ELSE Move(w, "copy", "pause") /\ UNCHANGED errs
  /\ UNCHANGED <<callerDone, blockVars, fed, feeder, extent, waiting, holding, broken, free, cancelled,
                 progress, progClosed, aggregator, main, result, copied, faults>>

PauseEnds(w) ==
  /\ Move(w, "pause", "copy")
  /\ StartBlock(w, block[w])
  /\ UNCHANGED <<callerDone, fed, feeder, extent, holding, retries, free, errs, cancelled, progress,
                 progClosed, aggregator, main, result, copied, gaps, faults, shorts>>

PauseCancelled(w) ==
  /\ cancelled
  /\ Move(w, "pause", "exited")
  /\ UNCHANGED <<callerDone, blockVars, fed, feeder, extent, waiting, holding, broken, retries, free, errs,
                 cancelled, progress, progClosed, aggregator, main, result, copied, faults>>

(* incrementalcopyprogress has room for one message per extent. *)
ReportProgress(w) ==
  /\ progress < NumExtents
  /\ Move(w, "report", "receive")
  /\ progress' = progress + 1
  /\ UNCHANGED <<callerDone, blockVars, fed, feeder, extent, waiting, holding, broken, retries, free, errs,
                 cancelled, progClosed, aggregator, main, result, copied, faults>>

ReportCancelled(w) ==
  /\ cancelled
  /\ Move(w, "report", "exited")
  /\ UNCHANGED <<callerDone, blockVars, fed, feeder, extent, waiting, holding, broken, retries, free, errs,
                 cancelled, progress, progClosed, aggregator, main, result, copied, faults>>

-----------------------------------------------------------------------------
(* The progress aggregator. *)

AggregatorReceives ==
  /\ aggregator = "draining" /\ progress > 0
  /\ progress' = progress - 1
  /\ \/ UNCHANGED aggregator
     \/ cancelled /\ aggregator' = "done"
  /\ UNCHANGED <<callerDone, blockVars, fed, feeder, workVars, errs, cancelled, progClosed, main, result,
                 copied, faults>>

AggregatorEnds ==
  /\ aggregator = "draining" /\ progress = 0 /\ progClosed
  /\ aggregator' = "done"
  /\ UNCHANGED <<callerDone, blockVars, fed, feeder, workVars, errs, cancelled, progress, progClosed, main,
                 result, copied, faults>>

-----------------------------------------------------------------------------
(* The calling goroutine.  doneChan is closed once every worker exited. *)

doneChan == \A w \in Workers : wstate[w] = "exited"

WorkersDone ==
  /\ main = "select" /\ doneChan
  /\ main' = "drain"
  /\ UNCHANGED <<callerDone, blockVars, fed, feeder, workVars, errs, cancelled, progress, progClosed,
                 aggregator, result, copied, faults>>

FirstError ==
  /\ main = "select" /\ errs > 0
  /\ errs' = errs - 1 /\ result' = "error"
  /\ cancelled' = TRUE
  /\ main' = "join"
  /\ UNCHANGED <<callerDone, blockVars, fed, feeder, workVars, progress, progClosed, aggregator,
                 copied, faults>>

(* Mutant: doneChan wins the race and errorChan is not looked at again.     *)
DrainErrorsSkipped ==
  /\ main = "drain" /\ main' = "close"
  /\ UNCHANGED <<callerDone, blockVars, fed, feeder, workVars, errs, cancelled, progress, progClosed,
                 aggregator, result, copied, faults>>

DrainErrors ==
  /\ main = "drain"
  /\ IF errs > 0 THEN errs' = errs - 1 /\ result' = "error"
                 ELSE UNCHANGED <<errs, result>>
  /\ main' = "close"
  /\ UNCHANGED <<callerDone, blockVars, fed, feeder, workVars, cancelled, progress, progClosed, aggregator,
                 copied, faults>>

(* Mutant: the workers are cancelled and not waited for.                    *)
JoinEarly ==
  /\ main = "join" /\ main' = "close"
  /\ UNCHANGED <<callerDone, blockVars, fed, feeder, workVars, errs, cancelled, progress, progClosed,
                 aggregator, result, copied, faults>>

Join ==
  /\ main = "join" /\ doneChan
  /\ main' = "close"
  /\ UNCHANGED <<callerDone, blockVars, fed, feeder, workVars, errs, cancelled, progress, progClosed,
                 aggregator, result, copied, faults>>

CloseProgress ==
  /\ main = "close"
  /\ progClosed' = TRUE
  /\ main' = "flush"
  /\ UNCHANGED <<callerDone, blockVars, fed, feeder, workVars, errs, cancelled, progress, aggregator,
                 result, copied, faults>>

(* ... and the deferred cancel, pool.Close and fd.Close. *)
Return ==
  /\ main = "flush" /\ aggregator = "done"
  /\ main' = "returned"
  /\ cancelled' = TRUE
  /\ UNCHANGED <<callerDone, blockVars, fed, feeder, workVars, errs, progress, progClosed, aggregator,
                 result, copied, faults>>

(* SIGTERM cancels the context of the whole migration. *)
CallerCancel ==
  /\ CallerCancels /\ ~ callerDone
  /\ callerDone' = TRUE /\ cancelled' = TRUE
  /\ UNCHANGED <<fed, feeder, workVars, blockVars, errs, progress, progClosed, aggregator,
                 main, result, copied, faults>>

-----------------------------------------------------------------------------
Worker(w) ==
  \/ NoMoreExtents(w) \/ AcquireForStatus(w) \/ StatusCancelled(w)
  \/ ReleaseAfterStatus(w) \/ SubRangeAcquires(w) \/ SubRangeCancelled(w)
  \/ SubRangeEnds(w) \/ NextBlock(w) \/ ExtentCopied(w) \/ AttemptCancelled(w)
  \/ AttemptFailed(w) \/ PauseEnds(w) \/ PauseCancelled(w) \/ ReportProgress(w)
  \/ ReportCancelled(w)

Aggregator == AggregatorReceives \/ AggregatorEnds

Main == WorkersDone \/ FirstError \/ DrainErrors \/ Join \/ CloseProgress \/ Return

Goroutines ==
  \/ (\E w \in Workers : Feed(w) \/ Worker(w))
  \/ FeederCloses \/ Aggregator \/ Main

Next == Goroutines \/ CallerCancel \/ (main = "returned" /\ UNCHANGED vars)

Spec == Init /\ [][Next]_vars

(* Every goroutine that can run eventually does. *)
FairSpec == Spec /\ WF_vars(Goroutines)

-----------------------------------------------------------------------------
WorkerStates == {"receive", "status", "walk", "copy", "pause", "report", "exited"}

TypeOK ==
  /\ fed \in 0 .. NumExtents /\ feeder \in {"feeding", "closed"}
  /\ wstate \in [Workers -> WorkerStates]
  /\ extent \in [Workers -> 0 .. NumExtents]
  /\ waiting \in [Workers -> 0 .. SubRanges]
  /\ holding \in [Workers -> 0 .. SubRanges]
  /\ broken \in [Workers -> BOOLEAN]
  /\ retries \in [Workers -> 0 .. MaxRetries]
  /\ free \in 0 .. HandlePoolSize
  /\ errs \in 0 .. Cardinality(Workers)
  /\ cancelled \in BOOLEAN /\ callerDone \in BOOLEAN
  /\ progress \in 0 .. NumExtents /\ progClosed \in BOOLEAN
  /\ aggregator \in {"draining", "done"}
  /\ main \in {"select", "drain", "join", "close", "flush", "returned"}
  /\ result \in {"nil", "error"}
  /\ block \in [Workers -> 1 .. NumBlocks] /\ short \in [Workers -> BOOLEAN]
  /\ copied \subseteq Extents /\ gaps \subseteq Extents
  /\ faults \in 0 .. MaxFaults /\ shorts \in 0 .. MaxShort

-----------------------------------------------------------------------------
(* A call that returns nil has copied every extent: "copyCtx was cancelled; *)
(* the originating error is already in errorChan" (nbdops.go:787).          *)
NilAlwaysMeansCopied ==
  main = "returned" /\ result = "nil" => copied = Extents /\ gaps = {}

(* That holds unless the caller was cancelled or a write ended short        *)
(* (nbdops.go:590): nbd_copy.go advances the change ID on the strength of   *)
(* it, whatever blocks failed and were tried again.                         *)
NilMeansCopied == ~ callerDone /\ shorts = 0 => NilAlwaysMeansCopied

(* The invariant the function body states for itself (nbdops.go:699-702):   *)
(* pool.Close and fd.Close never run while a goroutine could use them, and  *)
(* nothing is sent on the closed progress channel.                          *)
NoUseAfterClose ==
  progClosed => /\ \A w \in Workers : wstate[w] = "exited" /\ waiting[w] = 0 /\ holding[w] = 0
                /\ free = HandlePoolSize

(* An error a worker put into errorChan is never lost, whichever of         *)
(* doneChan and errorChan the select sees first.                            *)
ErrorNotLost == main = "returned" /\ errs > 0 => result = "error"

(* A worker never waits for room in the progress channel, even when the     *)
(* aggregator has stopped reading.                                          *)
ProgressNeverBlocks ==
  (\E w \in Workers : wstate[w] = "report") => progress < NumExtents

(* The call returns, also when the pool is smaller than the demand, when    *)
(* extents fail and when it is cancelled half way.                          *)
Terminates == <>(main = "returned")
=============================================================================
