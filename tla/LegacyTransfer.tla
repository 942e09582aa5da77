--------------------------- MODULE LegacyTransfer ---------------------------
(***************************************************************************)
(* LegacyTransfer::send on a handler's thread.  Every use of the response   *)
(* writer is a step that runOnWriterLoopSync posts to the writer's IO loop  *)
(* and waits for, five seconds at most while the loop has not begun it.     *)
(* The steps refer to variables on send()'s stack.  One unit of data stands *)
(* for a chunk.  AccelTransfer, the third strategy, leaves the data to the  *)
(* web server in front and is one action here.                              *)
(***************************************************************************)
EXTENDS Naturals, Sequences

CONSTANTS
  SendLen,    \* chunks to send
  Threshold,  \* kBackpressureThreshold, in chunks
  MaxWaits    \* kBackpressureTimeoutMs / kBackpressureWaitMs

ASSUME LegacyConstants ==
  SendLen \in Nat \ {0} /\ Threshold \in Nat /\ MaxWaits \in Nat \ {0}

VARIABLES
  strategy,   \* what FileTransferFactory made
  onLoop,     \* send() runs on the IO loop's own thread
  available,  \* chunks the file really holds
  at,         \* the step send() is at
  place,      \* inside runOnWriterLoopSync for it
  calls,      \* every SyncWriterCall posted so far
  begun,      \* how many of them the loop has begun
  running,    \* what the loop is running: localFn, or "none"
  seen,       \* what the last step stored on send()'s stack
  remaining, waits, timedOut,
  withdrawn,  \* the steps send() gave up waiting for
  path,       \* how send() delivers
  completed,  \* the arguments onComplete was called with
  connected, wstate, buffered, written, \* the writer and its connection
  taskEnded   \* the task that called send() has finished

sender == <<at, place, remaining, waits, timedOut, withdrawn, path, completed>>
writer == <<connected, wstate, buffered, written>>
given == <<strategy, onLoop, available>>
vars == <<given, sender, calls, begun, running, seen, writer, taskEnded>>

\* FileTransferFactory::create; "stream" is the module StreamTransfer.
Strategy(mode) == CASE mode = "legacy" -> "legacy" [] mode = "accel" -> "accel"

Nothing == [ret |-> 0, pending |-> 0, connected |-> TRUE]

Init ==
  /\ strategy \in {Strategy(mode) : mode \in {"legacy", "accel"}}
  /\ onLoop \in BOOLEAN /\ available \in 0 .. SendLen
  /\ at = "begin" /\ place = "calling" /\ calls = <<>> /\ begun = 0 /\ running = "none"
  /\ seen = Nothing /\ remaining = SendLen /\ waits = 0 /\ timedOut = FALSE
  /\ withdrawn = {} /\ path = "none" /\ completed = <<>>
  /\ connected = TRUE /\ wstate = "begin" /\ buffered = 0 /\ written = 0
  /\ taskEnded = FALSE

\* recordEnd and onComplete, then send() returns.
Complete(success) == at' = "done" /\ completed' = Append(completed, success)

-----------------------------------------------------------------------------
(* send(): the ways that need no step on the loop *)

Begin(how, success, body) ==
  /\ at = "begin" /\ path' = how /\ written' = body /\ Complete(success)
  /\ UNCHANGED <<given, place, calls, begun, running, seen, remaining, waits, timedOut, withdrawn,
                 connected, wstate, buffered, taskEnded>>

Whole == available = SendLen

\* A small range is read and checked; other small files are left to libhv.
SendSmall ==
  /\ strategy = "legacy"
  /\ \/ Begin("range", Whole, IF Whole THEN SendLen ELSE 0)
     \/ Begin("served", TRUE, available)

\* Without a writer the range is read unchecked, or libhv serves the file.
SendWithoutWriter == strategy = "legacy" /\ Begin("unchecked", TRUE, available)

\* No IO, no file, or no such place in it.
SendRefused == strategy = "legacy" /\ Begin("refused", FALSE, 0)

SendAccel == strategy = "accel" /\ Begin("accel", TRUE, 0)

SendStream ==
  /\ at = "begin" /\ strategy = "legacy"
  /\ path' = "stream" /\ at' = "headers"
  /\ UNCHANGED <<given, place, calls, begun, running, seen, remaining, waits, timedOut, withdrawn,
                 completed, writer, taskEnded>>

-----------------------------------------------------------------------------
(* runOnWriterLoopSync *)

Steps == {"headers", "check", "write", "end"}
Stays == UNCHANGED <<given, at, remaining, waits, timedOut, path, completed, taskEnded>>
Kept == Stays /\ UNCHANGED withdrawn

\* The steps' effects: endHeaders; writeBufsize and writerConnected; writeBody
\* and writerConnected; end.
Effect(fn) ==
  CASE fn = "headers" ->
         \E ok \in {connected, FALSE} :
           /\ wstate' = IF ok THEN "sending" ELSE wstate
           /\ seen' = [seen EXCEPT !.ret = IF ok THEN 0 ELSE 1]
           /\ connected' = ok
           /\ UNCHANGED <<buffered, written>>
    [] fn = "check" ->
         /\ seen' = [seen EXCEPT !.pending = buffered, !.connected = connected]
         /\ UNCHANGED writer
    [] fn = "write" ->
         \E ok \in {connected, FALSE} :
           /\ seen' = [seen EXCEPT !.ret = IF ok THEN 0 ELSE 1, !.connected = ok]
           /\ connected' = ok
           /\ buffered' = IF ok THEN buffered + 1 ELSE 0
           /\ written' = IF ok THEN written + 1 ELSE written
           /\ UNCHANGED wstate
    [] fn = "end" -> wstate' = "end" /\ UNCHANGED <<seen, connected, buffered, written>>

\* The writer has no IO any more.
CallFails ==
  /\ at \in Steps /\ place = "calling" /\ ~connected
  /\ place' = "false" /\ Kept
  /\ UNCHANGED <<calls, begun, running, seen, writer>>

\* On the loop's own thread the step runs at once.
CallDirectly ==
  /\ at \in Steps /\ place = "calling" /\ onLoop
  /\ Effect(at) /\ place' = "true" /\ Kept
  /\ UNCHANGED <<calls, begun, running>>

Post ==
  /\ at \in Steps /\ place = "calling" /\ ~onLoop
  /\ calls' = Append(calls, [fn |-> at, started |-> FALSE, done |-> FALSE])
  /\ place' = "waiting" /\ Kept
  /\ UNCHANGED <<begun, running, seen, writer>>

\* The posted event: mark the call as started and copy its step ...
LoopBegin ==
  /\ running = "none" /\ begun < Len(calls)
  /\ begun' = begun + 1 /\ running' = calls[begun + 1].fn
  /\ calls' = [calls EXCEPT ![begun + 1].started = TRUE]
  /\ UNCHANGED <<given, sender, seen, writer, taskEnded>>

\* ... run the copy, then clear the step and report it done.
LoopRun ==
  /\ running \in Steps
  /\ Effect(running) /\ running' = "ran"
  /\ UNCHANGED <<given, sender, calls, begun, taskEnded>>

\* Mutant: the call is never marked as done.
LoopReportSilent ==
  /\ running \in {"ran", "cleared"} /\ running' = "none"
  /\ UNCHANGED <<given, sender, calls, begun, seen, writer, taskEnded>>
LoopReport ==
  /\ running \in {"ran", "cleared"}
  /\ calls' = [calls EXCEPT ![begun].done = TRUE, ![begun].fn = "cleared"]
  /\ running' = "none"
  /\ UNCHANGED <<given, sender, begun, seen, writer, taskEnded>>

Mine == calls[Len(calls)]

WaitDone ==
  /\ place = "waiting" /\ Mine.done
  /\ place' = "true" /\ Kept
  /\ UNCHANGED <<calls, begun, running, seen, writer>>

\* Mutant: a step the loop has begun is given up too.
MayWithdrawAlways == TRUE
MayWithdraw == ~Mine.started
\* wait_for timed out: a step the loop has not begun is withdrawn, one it has
\* begun is waited for.
WaitTimeout ==
  /\ place = "waiting" /\ ~Mine.done /\ MayWithdraw
  /\ calls' = [calls EXCEPT ![Len(calls)].fn = "cleared", ![Len(calls)].done = TRUE]
  /\ withdrawn' = withdrawn \cup {at} /\ place' = "false" /\ Stays
  /\ UNCHANGED <<begun, running, seen, writer>>

-----------------------------------------------------------------------------
(* send(): what follows each step *)

Goes(step) == at' = step /\ UNCHANGED completed
Returned(step) ==
  /\ at = step /\ place \in {"true", "false"} /\ place' = "calling"
  /\ UNCHANGED <<given, calls, begun, running, seen, withdrawn, path, writer, taskEnded>>

HeadersDone ==
  /\ Returned("headers")
  /\ IF place = "true" /\ seen.ret = 0 THEN Goes("check") ELSE Complete(FALSE)
  /\ UNCHANGED <<remaining, waits, timedOut>>

MustWait == place = "true" /\ seen.connected /\ seen.pending > Threshold

\* Backpressure: sleep, count the time, look again or give up.
CheckWaits ==
  /\ Returned("check") /\ MustWait
  /\ waits' = waits + 1 /\ timedOut' = (waits + 1 >= MaxWaits)
  /\ Goes(IF timedOut' THEN "end" ELSE "check")
  /\ UNCHANGED remaining

\* Disconnected, or the file has nothing more: leave the loop.
CheckPasses ==
  /\ Returned("check") /\ ~MustWait
  /\ waits' = 0
  /\ Goes(IF place = "true" /\ seen.connected /\ SendLen - remaining < available
          THEN "write" ELSE "end")
  /\ UNCHANGED <<remaining, timedOut>>

WriteDone ==
  /\ Returned("write")
  /\ IF place = "true" /\ seen.ret = 0 /\ seen.connected
     THEN remaining' = remaining - 1 /\ Goes(IF remaining = 1 THEN "end" ELSE "check")
     ELSE remaining' = remaining /\ Goes("end")
  /\ UNCHANGED <<waits, timedOut>>

\* Mutant: leaving the loop early counts as success.
SucceededUnlessTimedOut == ~timedOut
Succeeded == remaining = 0 /\ ~timedOut
EndDone ==
  /\ Returned("end") /\ Complete(Succeeded)
  /\ UNCHANGED <<remaining, waits, timedOut>>

-----------------------------------------------------------------------------
(* The task around send(), and the connection *)

\* makeAsyncHandler's task ends a response whose writer is still at its
\* beginning, and only that.
TaskEnds ==
  /\ at = "done" /\ ~taskEnded /\ taskEnded' = TRUE
  /\ wstate' = IF wstate = "begin" THEN "end" ELSE wstate
  /\ UNCHANGED <<given, sender, calls, begun, running, seen, connected, buffered, written>>

LoopFree == running = "none" /\ (onLoop => taskEnded)

Drain ==
  /\ LoopFree /\ connected /\ buffered > 0 /\ buffered' = buffered - 1
  /\ UNCHANGED <<given, sender, calls, begun, running, seen, connected, wstate, written, taskEnded>>

PeerCloses ==
  /\ LoopFree /\ connected /\ connected' = FALSE /\ buffered' = 0
  /\ UNCHANGED <<given, sender, calls, begun, running, seen, wstate, written, taskEnded>>

SendNext ==
  \/ SendSmall \/ SendWithoutWriter \/ SendRefused \/ SendAccel \/ SendStream
  \/ CallFails \/ CallDirectly \/ Post \/ WaitDone \/ WaitTimeout
  \/ HeadersDone \/ CheckWaits \/ CheckPasses \/ WriteDone \/ EndDone
  \/ TaskEnds
LoopFinishes == LoopRun \/ LoopReport

Next == SendNext \/ LoopBegin \/ LoopFinishes \/ Drain \/ PeerCloses

\* The handler's thread runs and its waits time out; the loop finishes a step
\* it has begun, but may be too busy to begin one.
Spec == Init /\ [][Next]_vars /\ WF_vars(SendNext) /\ WF_vars(LoopFinishes)

-----------------------------------------------------------------------------
(* Properties *)

\* The loop never runs a step whose caller has stopped waiting for it: the
\* step's references to send()'s stack, and to the Context, are valid.
StepOnlyWhileWaited ==
  running \in Steps => place = "waiting" /\ begun = Len(calls)

\* onComplete(true) after a checked or streamed delivery means that every byte
\* of the range was handed to the response, also when the file is shorter than
\* announced, the peer leaves, or a step is withdrawn.
SuccessIsWhole ==
  completed = <<TRUE>> /\ path \in {"range", "stream"} => written = SendLen

\* send() returns and the response is ended, even if the loop never begins
\* another step, unless the step that ends it is the one withdrawn.
ResponseEnds ==
  <>(/\ taskEnded
     /\ \/ wstate = "end" \/ ~connected
        \/ "end" \in withdrawn)
=============================================================================
