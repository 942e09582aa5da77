--------------------------- MODULE StreamTransfer ---------------------------
(***************************************************************************)
(* StreamTransfer (src/StreamTransfer.cpp): one event-driven download.     *)
(* send() runs on the thread of the request's task and hands the transfer  *)
(* over to the writer's IO loop, which reads the file chunk by chunk in    *)
(* the onwrite callback.  One unit of length is one chunk of kChunkSize.   *)
(*                                                                         *)
(* The loop is one thread.  It runs a posted event or a callback to its    *)
(* end, except that the while loop of pump() is one step per iteration     *)
(* (loopPc = "pump"), since the task's thread may act in between.          *)
(***************************************************************************)
EXTENDS ResponseWriter, Integers

CONSTANT MaxLen      \* bound: the longest transfer, in chunks

ASSUME MaxLenAssumption == MaxLen \in Nat

VARIABLES
  sendLen,           \* what Content-Length promises
  fileLeft,          \* chunks the file can still deliver; it may have shrunk
  remaining, finished, pumping, cleanupScheduled,   \* TransferState
  ownership,         \* TransferState holds the writer
  activeCount, errorCount,                          \* TransferStats
  results,           \* the arguments of the calls of onComplete, in order
  handoff,           \* markStreamingHandoff() was called
  loopPc             \* what the IO loop is doing: "loop" or "pump"

stateVars == <<remaining, finished, pumping, cleanupScheduled, ownership>>
statVars == <<activeCount, errorCount, results>>
streamVars == <<sendLen, fileLeft, stateVars, statVars, handoff, loopPc>>

StreamInit ==
  /\ sendLen \in 0 .. MaxLen
  /\ fileLeft \in 0 .. sendLen
  /\ remaining = 0 /\ finished = FALSE /\ pumping = FALSE
  /\ cleanupScheduled = FALSE /\ ownership = FALSE
  /\ activeCount = 0 /\ errorCount = 0 /\ results = <<>>
  /\ handoff = FALSE /\ loopPc = "loop"

StreamTypeOK ==
  /\ sendLen \in 0 .. MaxLen /\ fileLeft \in 0 .. MaxLen /\ remaining \in 0 .. MaxLen
  /\ {finished, pumping, cleanupScheduled, ownership, handoff} \subseteq BOOLEAN
  /\ activeCount \in Int /\ errorCount \in Nat
  /\ results \in Seq(BOOLEAN)
  /\ loopPc \in {"loop", "pump"}

(* postToWriterLoop fails only without an io or a loop, and a connected    *)
(* writer has both.                                                        *)
PostFails == ~connected

(* scheduleCleanup: clear the callbacks on the loop, or, when nothing can  *)
(* be posted, drop the writer at once.  `queue' is the rest of the posted  *)
(* events.                                                                 *)
ScheduleCleanup(queue) ==
  IF cleanupScheduled THEN posted' = queue /\ UNCHANGED <<cleanupScheduled, ownership>>
  ELSE /\ cleanupScheduled' = TRUE
       /\ \/ posted' = Append(queue, "cleanup") /\ UNCHANGED ownership
          \/ PostFails /\ posted' = queue /\ ownership' = FALSE

(* Mutant: finish() forgets that it has run. *)
FinishAgain(success, queue) ==
  /\ finished' = TRUE
  /\ activeCount' = activeCount - 1
  /\ errorCount' = errorCount + (IF success THEN 0 ELSE 1)
  /\ results' = Append(results, success)
  /\ ScheduleCleanup(queue)

(* finish(): record the end, report it, and schedule the cleanup; once. *)
Finish(success, queue) ==
  IF finished
  THEN posted' = queue /\ UNCHANGED <<finished, statVars, cleanupScheduled, ownership>>
  ELSE /\ finished' = TRUE
       /\ activeCount' = activeCount - 1
       /\ errorCount' = errorCount + (IF success THEN 0 ELSE 1)
       /\ results' = Append(results, success)
       /\ ScheduleCleanup(queue)

NotFinishing(queue) ==
  posted' = queue /\ UNCHANGED <<finished, statVars, cleanupScheduled, ownership>>

(***************************************************************************)
(* send(), on the thread of the request's task                             *)
(***************************************************************************)
(* l.181-207: no writer, no loop, or no file.  The context answers with an *)
(* error and onComplete(false) is called before send() returns.            *)
SendRefused ==
  /\ results' = Append(results, FALSE)
  /\ UNCHANGED <<writerVars, sendLen, fileLeft, stateVars, activeCount, errorCount, handoff, loopPc>>

(* l.208-259: take the writer over and post the transfer to the loop. *)
SendHandedOff ==
  /\ remaining' = sendLen
  /\ handoff' = TRUE
  /\ \/ /\ posted' = Append(posted, IF sendLen = 0 THEN "zero" ELSE "start")
        /\ activeCount' = activeCount + 1
        /\ ownership' = TRUE
        /\ UNCHANGED <<finished, cleanupScheduled, errorCount, results>>
     \/ \* the post fails, and finish(state, false) runs here: recordStart and
        \* recordEnd cancel out, and nothing can be posted for the cleanup
        /\ PostFails
        /\ finished' = TRUE /\ cleanupScheduled' = TRUE
        /\ errorCount' = errorCount + 1
        /\ results' = Append(results, FALSE)
        /\ UNCHANGED <<posted, activeCount, ownership>>
  /\ UNCHANGED <<connection, wstate, pending, onwrite, onclose, sent, keepAlive,
                 sendLen, fileLeft, pumping, loopPc>>

(***************************************************************************)
(* The IO loop                                                             *)
(***************************************************************************)
(* libhv reports a closed connection to onclose, which finishes. *)
CloseCallback ==
  /\ loopPc = "loop" /\ ~connected /\ ~closeReported
  /\ closeReported' = TRUE
  /\ IF onclose THEN Finish(FALSE, posted) ELSE NotFinishing(posted)
  /\ UNCHANGED <<connected, closing, wstate, pending, onwrite, onclose, sent, keepAlive,
                 sendLen, fileLeft, remaining, pumping, handoff, loopPc>>

(* A connection that End() wants closed is closed when all is written. *)
CloseAfterEnd == loopPc = "loop" /\ closing /\ ~pending /\ Disconnect /\ UNCHANGED streamVars

NextPosted(event) == loopPc = "loop" /\ posted # <<>> /\ Head(posted) = event

(* Mutant: the closed connection is noticed and nobody is told. *)
StartTooLateSilent ==
  /\ NextPosted("start") /\ ~connected
  /\ NotFinishing(Tail(posted))
  /\ UNCHANGED <<connection, wstate, pending, onwrite, onclose, sent, keepAlive,
                 sendLen, fileLeft, remaining, pumping, handoff, loopPc>>

(* startStreaming, on a connection that is closed. *)
StartTooLate ==
  /\ NextPosted("start") /\ ~connected
  /\ Finish(FALSE, Tail(posted))
  /\ UNCHANGED <<connection, wstate, pending, onwrite, onclose, sent, keepAlive,
                 sendLen, fileLeft, remaining, pumping, handoff, loopPc>>

(* startStreaming: set the callbacks, then EndHeaders.  Headers that go out *)
(* at once call onwrite, and so pump(), from inside EndHeaders; a writer    *)
(* that somebody has already ended refuses them.                            *)
StartStreaming(outcome) ==
  /\ NextPosted("start") /\ connected
  /\ onwrite' = TRUE /\ onclose' = TRUE
  /\ \/ /\ outcome # "failed" /\ wstate = "begin"
        /\ wstate' = "sending"
        /\ NotFinishing(Tail(posted))
        /\ pending' = (outcome = "buffered")
        /\ IF outcome = "flushed" THEN pumping' = TRUE /\ loopPc' = "pump"
           ELSE UNCHANGED <<pumping, loopPc>>
        /\ UNCHANGED connected
     \/ /\ outcome = "failed"
        /\ Finish(FALSE, Tail(posted))
        /\ connected' = (wstate = "end")
        /\ UNCHANGED <<wstate, pending, pumping, loopPc>>
  /\ UNCHANGED <<closing, closeReported, sent, keepAlive, sendLen, fileLeft, remaining, handoff>>

(* The zero-length transfer, l.239-246. *)
ZeroLength ==
  /\ NextPosted("zero")
  /\ IF connected THEN End /\ Finish(TRUE, Tail(posted))
     ELSE Finish(FALSE, Tail(posted)) /\ UNCHANGED <<closing, wstate>>
  /\ UNCHANGED <<connected, closeReported, pending, onwrite, onclose, sent, keepAlive,
                 sendLen, fileLeft, remaining, pumping, handoff, loopPc>>

(* Mutant: the cleanup keeps its hold on the writer. *)
CleanupKeepsWriter ==
  /\ NextPosted("cleanup")
  /\ posted' = Tail(posted)
  /\ onwrite' = FALSE /\ onclose' = FALSE
  /\ UNCHANGED <<connection, wstate, pending, sent, keepAlive, sendLen, fileLeft, ownership,
                 remaining, finished, pumping, cleanupScheduled, statVars, handoff, loopPc>>

(* The event posted by scheduleCleanup. *)
Cleanup ==
  /\ NextPosted("cleanup")
  /\ posted' = Tail(posted)
  /\ onwrite' = FALSE /\ onclose' = FALSE /\ ownership' = FALSE
  /\ UNCHANGED <<connection, wstate, pending, sent, keepAlive, sendLen, fileLeft,
                 remaining, finished, pumping, cleanupScheduled, statVars, handoff, loopPc>>

(* Mutant: pump() returns without lowering its flag. *)
PumpReturnsPumping == loopPc' = "loop" /\ UNCHANGED pumping

PumpReturns == loopPc' = "loop" /\ pumping' = FALSE

(* One iteration of pump()'s loop that ends it: disconnected, the last     *)
(* write not yet drained, or nothing to read.                              *)
PumpStops ==
  /\ loopPc = "pump"
  /\ \/ ~connected /\ Finish(FALSE, posted)
     \/ connected /\ pending /\ NotFinishing(posted)
     \/ connected /\ ~pending /\ fileLeft = 0 /\ Finish(FALSE, posted)
  /\ PumpReturns
  /\ UNCHANGED <<connection, wstate, pending, onwrite, onclose, sent, keepAlive,
                 sendLen, fileLeft, remaining, handoff>>

(* Mutant: the test for the last chunk is off by one. *)
LastChunkEarly == remaining - 1 <= 1

LastChunk == remaining - 1 <= 0

(* One iteration that reads and writes a chunk.  A chunk that goes out at  *)
(* once calls onwrite inside WriteBody, where the pumping flag turns pump  *)
(* away.  After the last chunk: End() and finish(true).                    *)
PumpChunk(outcome) ==
  /\ loopPc = "pump" /\ connected /\ ~pending /\ fileLeft > 0
  /\ fileLeft' = fileLeft - 1
  /\ remaining' = remaining - 1
  /\ \/ /\ outcome = "failed"
        /\ connected' = FALSE
        /\ Finish(FALSE, posted)
        /\ PumpReturns
        /\ UNCHANGED <<closing, wstate, pending, sent>>
     \/ /\ outcome # "failed"
        /\ sent' = sent + 1
        /\ pending' = (outcome = "buffered")
        /\ IF LastChunk THEN End /\ Finish(TRUE, posted) /\ PumpReturns
           ELSE NotFinishing(posted) /\ UNCHANGED <<closing, wstate, loopPc, pumping>>
        /\ UNCHANGED connected
  /\ UNCHANGED <<closeReported, onwrite, onclose, keepAlive, sendLen, handoff>>

(* The socket drains the write buffer: onwrite, and so pump(), if it is    *)
(* set; pump() leaves at once when the transfer is finished or pumping.    *)
WriteDrained ==
  /\ loopPc = "loop" /\ connected /\ pending
  /\ pending' = FALSE
  /\ IF onwrite /\ ~finished /\ ~pumping THEN loopPc' = "pump" /\ pumping' = TRUE
     ELSE UNCHANGED <<loopPc, pumping>>
  /\ UNCHANGED <<connection, wstate, onwrite, onclose, posted, sent, keepAlive, sendLen,
                 fileLeft, remaining, finished, cleanupScheduled, ownership, statVars, handoff>>

(* The peer closes the connection. *)
PeerCloses == Disconnect /\ UNCHANGED streamVars

LoopStep ==
  \/ CloseCallback \/ CloseAfterEnd
  \/ StartTooLate \/ ZeroLength \/ Cleanup \/ PumpStops
  \/ \E o \in WriteOutcomes : StartStreaming(o) \/ PumpChunk(o)

=============================================================================
