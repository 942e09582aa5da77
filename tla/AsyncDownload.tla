--------------------------- MODULE AsyncDownload ---------------------------
(***************************************************************************)
(* An asynchronous route (makeAsyncHandler, src/Router.cpp) whose handler  *)
(* sends a file with StreamTransfer: the request's task, on a thread of    *)
(* the dispatcher, and the writer's IO loop work on the same response.     *)
(***************************************************************************)
EXTENDS StreamTransfer

VARIABLES
  taskPc,             \* where the task is
  streamingHandoff,   \* the task's local: what it read from the context
  threw,              \* history: the chain threw after send()
  tracked,            \* the sum of the calls of the tracker
  onLoop              \* there is no dispatcher, the task runs on the IO loop

taskVars == <<taskPc, streamingHandoff, threw, tracked, onLoop>>
vars == <<writerVars, streamVars, taskVars>>

Init ==
  /\ WriterInit /\ StreamInit
  /\ taskPc = "none" /\ streamingHandoff = FALSE /\ threw = FALSE /\ tracked = 0
  /\ onLoop \in BOOLEAN

(* The loop turns, unless it is running the task itself. *)
LoopFree == onLoop => taskPc \in {"none", "done"}

(* The request arrives: count it and dispatch the task. *)
Dispatch ==
  /\ taskPc = "none"
  /\ tracked' = tracked + 1
  /\ taskPc' = "handler"
  /\ UNCHANGED <<writerVars, streamVars, streamingHandoff, threw, onLoop>>

(* The chain throws or answers without a transfer. *)
HandlerWithoutSend ==
  /\ taskPc = "handler"
  /\ taskPc' = "decide"
  /\ UNCHANGED <<writerVars, streamVars, streamingHandoff, threw, tracked, onLoop>>

HandlerSends ==
  /\ taskPc = "handler"
  /\ SendRefused \/ SendHandedOff
  /\ taskPc' = "sent"
  /\ UNCHANGED <<streamingHandoff, threw, tracked, onLoop>>

HandlerReturns ==
  /\ taskPc = "sent"
  /\ streamingHandoff' = handoff
  /\ taskPc' = "decide"
  /\ UNCHANGED <<writerVars, streamVars, threw, tracked, onLoop>>

(* Mutant: the catch block untracks the request, as the task's end does. *)
HandlerThrowsUntracks ==
  /\ taskPc = "sent"
  /\ threw' = TRUE /\ tracked' = tracked - 1
  /\ taskPc' = "decide"
  /\ UNCHANGED <<writerVars, streamVars, streamingHandoff, onLoop>>

(* The handler, or a middleware around it, throws after send().  catch      *)
(* (...): streamingHandoff keeps its initial value.                         *)
HandlerThrows ==
  /\ taskPc = "sent"
  /\ threw' = TRUE
  /\ taskPc' = "decide"
  /\ UNCHANGED <<writerVars, streamVars, streamingHandoff, tracked, onLoop>>

(* Mutant: the task ends every response that has not begun. *)
MustEndAlways == wstate = "begin"

(* l.126-127: nobody took the response over and it has not begun. *)
MustEnd == ~streamingHandoff /\ wstate = "begin"

TaskDecides ==
  /\ taskPc = "decide"
  /\ taskPc' = IF MustEnd THEN "end" ELSE "untrack"
  /\ UNCHANGED <<writerVars, streamVars, streamingHandoff, threw, tracked, onLoop>>

TaskEnds ==
  /\ taskPc = "end"
  /\ End
  /\ taskPc' = "untrack"
  /\ UNCHANGED <<connected, closeReported, pending, onwrite, onclose, posted, sent, keepAlive,
                 streamVars, streamingHandoff, threw, tracked, onLoop>>

TaskUntracks ==
  /\ taskPc = "untrack"
  /\ tracked' = tracked - 1
  /\ taskPc' = "done"
  /\ UNCHANGED <<writerVars, streamVars, streamingHandoff, threw, onLoop>>

TaskStep ==
  HandlerWithoutSend \/ HandlerSends \/ HandlerReturns \/ HandlerThrows
  \/ TaskDecides \/ TaskEnds \/ TaskUntracks

Loop == LoopFree /\ LoopStep /\ UNCHANGED taskVars
Drain == LoopFree /\ WriteDrained /\ UNCHANGED taskVars
Leave == PeerCloses /\ UNCHANGED taskVars

Next == Dispatch \/ TaskStep \/ Loop \/ Drain \/ Leave

(* The task's thread and the loop run.  A peer reads what is sent to it or *)
(* goes away: StreamTransfer has no timeout of its own.                    *)
Fairness ==
  /\ WF_vars(TaskStep)
  /\ WF_vars(Loop)
  /\ WF_vars(Drain)

Spec == Init /\ [][Next]_vars /\ Fairness

-----------------------------------------------------------------------------
(* Every variable has its type. *)
TypeOK ==
  /\ WriterTypeOK /\ StreamTypeOK
  /\ taskPc \in {"none", "handler", "sent", "decide", "end", "untrack", "done"}
  /\ streamingHandoff \in BOOLEAN /\ threw \in BOOLEAN /\ onLoop \in BOOLEAN /\ tracked \in 0 .. 1

(* onComplete is called at most once, whoever gets to finish() first, and   *)
(* the statistics agree with it: a transfer is active from its start until  *)
(* its one recorded end.                                                    *)
AccountedOnce ==
  /\ Len(results) <= 1
  /\ activeCount = IF handoff /\ ~finished THEN 1 ELSE 0
  /\ handoff => (errorCount = 1 <=> results = <<FALSE>>)

(* onComplete(true) is the truth: every promised chunk was written and the  *)
(* response is ended.                                                       *)
SuccessIsWhole == results = <<TRUE>> => sent = sendLen /\ wstate = "end"

(* A task that returned after handing the response over does not end it:    *)
(* no body is written to an ended response, whichever of the task's         *)
(* decision and the loop's first write comes first.                         *)
ReturnKeepsHandoff == [][sent' # sent /\ ~threw => wstate # "end"]_vars

(* Once the transfer has taken the response over, nobody ends it before its *)
(* body is written (Router.cpp l.123-125).                                  *)
NoBodyAfterEnd == [][sent' # sent => wstate # "end"]_vars

(* A transfer that was handed over reports its end, however it ends. *)
Completes == handoff ~> results # <<>>

(* The transfer lets go of the writer, although the writer's callbacks and  *)
(* the transfer hold each other.                                            *)
Released == finished ~> ~ownership

(* pump() never stalls: as long as the file delivers what was promised, the *)
(* response is ended or the connection is gone.                             *)
IntactFileEnds == (handoff /\ fileLeft >= remaining) ~> (wstate = "end" \/ ~connected)

(* A response that was handed over is ended, or its connection is closed    *)
(* (Router.cpp l.123, "StreamTransfer ... is itself responsible for End()"). *)
HandedOverEnds == handoff ~> (wstate = "end" \/ ~connected)

=============================================================================
