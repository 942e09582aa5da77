------------------------- MODULE AsyncDownloadProofs -------------------------
(***************************************************************************)
(* Proofs about AsyncDownload for transfers of any length.                 *)
(***************************************************************************)
EXTENDS AsyncDownload, TLAPS

(* The type invariant in two parts, since they are proved differently. *)
Booleans ==
  /\ connected \in BOOLEAN /\ closing \in BOOLEAN /\ closeReported \in BOOLEAN
  /\ pending \in BOOLEAN /\ onwrite \in BOOLEAN /\ onclose \in BOOLEAN
  /\ keepAlive \in BOOLEAN /\ finished \in BOOLEAN /\ pumping \in BOOLEAN
  /\ cleanupScheduled \in BOOLEAN /\ ownership \in BOOLEAN /\ handoff \in BOOLEAN
  /\ streamingHandoff \in BOOLEAN /\ threw \in BOOLEAN /\ onLoop \in BOOLEAN

Ranges ==
  /\ wstate \in {"begin", "sending", "end"} /\ sent \in Nat
  /\ sendLen \in 0 .. MaxLen /\ fileLeft \in 0 .. MaxLen /\ remaining \in 0 .. MaxLen
  /\ loopPc \in {"loop", "pump"}
  /\ taskPc \in {"none", "handler", "sent", "decide", "end", "untrack", "done"}

(* A queue of one event; the lists of one result. *)
Only(x) == <<x>>
Yes == <<TRUE>>
No == <<FALSE>>

(* The task: it knows of the handoff unless the chain threw, and only a     *)
(* task that does not ends the response.                                    *)
TaskRules ==
  /\ taskPc \in {"none", "handler"} => ~handoff /\ results = <<>> /\ wstate = "begin"
  /\ taskPc \in {"decide", "end", "untrack", "done"} /\ handoff /\ ~threw => streamingHandoff
  /\ taskPc = "end" => ~streamingHandoff
  /\ tracked = IF taskPc \in {"none", "done"} THEN 0 ELSE 1
  /\ wstate = "end" /\ handoff /\ ~threw => finished

(* The loop: at most one event is posted at a time.  The callbacks are not  *)
(* set before the transfer has begun, and pump() runs only in a transfer    *)
(* that is not finished and has something left.                             *)
LoopRules ==
  /\ posted \in {<<>>, Only("start"), Only("zero"), Only("cleanup")}
  /\ posted # <<>> \/ finished \/ onclose \/ onwrite \/ loopPc = "pump" => handoff
  /\ posted \in {Only("start"), Only("zero")} =>
       ~finished /\ ~onclose /\ ~onwrite /\ loopPc = "loop"
  /\ posted = Only("start") => remaining >= 1
  /\ posted = Only("zero") => remaining = 0
  /\ posted = Only("cleanup") => finished
  /\ finished <=> cleanupScheduled
  /\ loopPc = "pump" => ~finished /\ remaining >= 1
  /\ onwrite /\ ~finished => remaining >= 1

(* The accounts, before, during and after the transfer. *)
Accounts ==
  /\ ~handoff => activeCount = 0 /\ errorCount = 0 /\ sent = 0 /\ results \in {<<>>, No}
  /\ handoff /\ ~finished =>
       activeCount = 1 /\ errorCount = 0 /\ results = <<>> /\ sent + remaining = sendLen
  /\ finished =>
       /\ activeCount = 0
       /\ \/ results = Yes /\ errorCount = 0 /\ sent = sendLen /\ wstate = "end"
          \/ results = No /\ errorCount = 1

DownloadInv == Booleans /\ Ranges /\ TaskRules /\ LoopRules /\ Accounts

-----------------------------------------------------------------------------
(* Queues of one event, lists of one result. *)
LEMMA Singles ==
  /\ \A x : Only(x) # <<>> /\ Append(<<>>, x) = Only(x) /\ Head(Only(x)) = x /\ Tail(Only(x)) = <<>>
  /\ \A x, y : Only(x) = Only(y) => x = y
  /\ Yes # No /\ Yes # <<>> /\ No # <<>>
  /\ Append(<<>>, TRUE) = Yes /\ Append(<<>>, FALSE) = No
<1>1. ASSUME NEW x PROVE <<x>> # <<>> /\ Append(<<>>, x) = <<x>> /\ Head(<<x>>) = x /\ Tail(<<x>>) = <<>>
  <2>1. Len(<<>>) = 0 /\ Len(<<x>>) = 1
    OBVIOUS
  <2>2. <<>> # <<x>>
    BY <2>1
  <2> QED BY <2>2
<1>2. ASSUME NEW x, NEW y, <<x>> = <<y>> PROVE x = y
  BY <1>2
<1>3. <<TRUE>> # <<FALSE>>
  <2>1. <<TRUE>>[1] = TRUE /\ <<FALSE>>[1] = FALSE
    OBVIOUS
  <2> QED BY <2>1
<1> QED BY <1>1, <1>2, <1>3 DEF Only, Yes, No

(* They are sequences. *)
LEMMA SinglesAreSeqs ==
  ASSUME NEW S, NEW x \in S
  PROVE  Only(x) \in Seq(S) /\ <<>> \in Seq(S)
BY DEF Only

(* The inductive invariant contains the type invariant. *)
LEMMA InvHasTypes == DownloadInv => TypeOK
<1> SUFFICES ASSUME DownloadInv PROVE TypeOK
  OBVIOUS
<1>1. results \in {<<>>, Yes, No} /\ activeCount \in Int /\ errorCount \in Nat
  BY DEF DownloadInv, Accounts
<1>2. results \in Seq(BOOLEAN)
  <2>1. Yes \in Seq(BOOLEAN) /\ No \in Seq(BOOLEAN) /\ <<>> \in Seq(BOOLEAN)
    BY DEF Yes, No
  <2> QED BY <1>1, <2>1, Zenon
<1>3. posted \in Seq({"start", "zero", "cleanup"})
  BY SinglesAreSeqs DEF DownloadInv, LoopRules
<1>4. WriterTypeOK
  BY <1>3 DEF DownloadInv, Booleans, Ranges, WriterTypeOK
<1>5. {finished, pumping, cleanupScheduled, ownership, handoff} \subseteq BOOLEAN
  BY Zenon DEF DownloadInv, Booleans
<1>6. StreamTypeOK
  BY <1>1, <1>2, <1>5 DEF DownloadInv, Ranges, StreamTypeOK
<1>7. tracked \in 0 .. 1
  BY DEF DownloadInv, TaskRules
<1> QED BY <1>4, <1>6, <1>7 DEF DownloadInv, Booleans, Ranges, TypeOK

(* Nothing has been sent. *)
LEMMA InitHolds == Init => DownloadInv
<1> SUFFICES ASSUME Init PROVE DownloadInv
  OBVIOUS
<1>1. Booleans
  BY Zenon DEF Init, WriterInit, StreamInit, Booleans
<1>2. Ranges
  BY MaxLenAssumption DEF Init, WriterInit, StreamInit, Ranges
<1>3. TaskRules /\ LoopRules /\ Accounts
  BY Singles DEF Init, WriterInit, StreamInit, TaskRules, LoopRules, Accounts
<1> QED BY <1>1, <1>2, <1>3 DEF DownloadInv

(* finish() of a transfer that is not finished, with nothing else posted. *)
LEMMA FinishDoes ==
  ASSUME DownloadInv, handoff, ~finished, NEW success \in BOOLEAN, NEW queue, queue = <<>>,
         Finish(success, queue)
  PROVE  /\ finished' = TRUE /\ cleanupScheduled' = TRUE /\ ownership' \in BOOLEAN
         /\ activeCount' = 0 /\ errorCount' = IF success THEN 0 ELSE 1
         /\ results' = IF success THEN Yes ELSE No
         /\ posted' \in {<<>>, Only("cleanup")}
<1>1. /\ activeCount = 1 /\ errorCount = 0 /\ results = <<>> /\ ~cleanupScheduled
      /\ ownership \in BOOLEAN
  BY DEF DownloadInv, Accounts, LoopRules, Booleans
<1>2. /\ finished' = TRUE /\ activeCount' = activeCount - 1
      /\ errorCount' = errorCount + (IF success THEN 0 ELSE 1)
      /\ results' = Append(results, success) /\ ScheduleCleanup(queue)
  BY DEF Finish
<1>3. /\ cleanupScheduled' = TRUE /\ ownership' \in BOOLEAN
      /\ posted' = Append(<<>>, "cleanup") \/ posted' = <<>>
  BY <1>1, <1>2 DEF ScheduleCleanup
<1>4. activeCount' = 0 /\ errorCount' = IF success THEN 0 ELSE 1
  BY <1>1, <1>2
<1>5. results' = IF success THEN Yes ELSE No
  <2>1. CASE success = TRUE
    BY <1>1, <1>2, <2>1, Singles
  <2>2. CASE success = FALSE
    BY <1>1, <1>2, <2>2, Singles
  <2> QED BY <2>1, <2>2
<1> QED BY <1>2, <1>3, <1>4, <1>5, Singles

(* The task's own steps, send() excepted. *)
LEMMA TaskKeeps ==
  ASSUME DownloadInv,
         \/ Dispatch \/ HandlerWithoutSend \/ HandlerReturns \/ HandlerThrows
         \/ TaskDecides \/ TaskUntracks
  PROVE  DownloadInv'
<1>1. UNCHANGED <<writerVars, streamVars>>
  BY DEF Dispatch, HandlerWithoutSend, HandlerReturns, HandlerThrows, TaskDecides, TaskUntracks
<1>2. Booleans'
  <2>1. streamingHandoff' \in BOOLEAN /\ threw' \in BOOLEAN /\ onLoop' \in BOOLEAN
    <3>1. CASE HandlerReturns
      BY <3>1, <1>1 DEF HandlerReturns, DownloadInv, Booleans
    <3>2. CASE Dispatch \/ HandlerWithoutSend \/ HandlerThrows \/ TaskDecides \/ TaskUntracks
      BY <3>2 DEF DownloadInv, Booleans, Dispatch, HandlerWithoutSend, HandlerThrows,
                  TaskDecides, TaskUntracks
    <3> QED BY <3>1, <3>2
  <2> QED BY <1>1, <2>1 DEF writerVars, connection, streamVars, stateVars, DownloadInv, Booleans
<1>3. Ranges'
  BY <1>1 DEF writerVars, connection, streamVars, stateVars, statVars, DownloadInv, Ranges,
     Dispatch, HandlerWithoutSend, HandlerReturns, HandlerThrows, TaskDecides, TaskUntracks
<1>4. TaskRules'
  <2> USE <1>1 DEF writerVars, streamVars, stateVars, statVars, DownloadInv, TaskRules
  <2>1. CASE Dispatch
    BY <2>1 DEF Dispatch
  <2>2. CASE HandlerWithoutSend
    BY <2>2 DEF HandlerWithoutSend
  <2>3. CASE HandlerReturns
    BY <2>3 DEF HandlerReturns
  <2>4. CASE HandlerThrows
    BY <2>4 DEF HandlerThrows
  <2>5. CASE TaskDecides
    BY <2>5 DEF TaskDecides, MustEnd
  <2>6. CASE TaskUntracks
    BY <2>6 DEF TaskUntracks
  <2> QED BY <2>1, <2>2, <2>3, <2>4, <2>5, <2>6
<1>5. LoopRules' /\ Accounts'
  BY <1>1 DEF writerVars, streamVars, stateVars, statVars, DownloadInv, LoopRules, Accounts
<1> QED BY <1>2, <1>3, <1>4, <1>5 DEF DownloadInv

(* The task ends a response that nobody took over, as far as it knows. *)
LEMMA TaskEndsKeeps ==
  ASSUME DownloadInv, TaskEnds
  PROVE  DownloadInv'
<1> USE DEF TaskEnds, End, streamVars, stateVars, statVars, DownloadInv
<1>1. Booleans'
  BY DEF Booleans
<1>2. Ranges'
  BY DEF Ranges
<1>3. TaskRules'
  BY DEF TaskRules
<1>4. LoopRules' /\ Accounts'
  BY DEF LoopRules, Accounts
<1> QED BY <1>1, <1>2, <1>3, <1>4

(* send() refuses or hands the transfer over to the loop. *)
LEMMA HandlerSendsKeeps ==
  ASSUME DownloadInv, HandlerSends
  PROVE  DownloadInv'
<1>0. /\ ~handoff /\ results = <<>> /\ wstate = "begin" /\ posted = <<>> /\ ~finished
      /\ ~onclose /\ ~onwrite /\ loopPc = "loop" /\ activeCount = 0 /\ errorCount = 0 /\ sent = 0
      /\ tracked = 1 /\ taskPc' = "sent" /\ UNCHANGED <<streamingHandoff, threw, tracked, onLoop>>
  BY DEF HandlerSends, DownloadInv, TaskRules, LoopRules, Accounts, Ranges
<1>1. CASE SendRefused
  <2> USE <1>0, <1>1 DEF SendRefused, writerVars, connection, stateVars, DownloadInv
  <2>1. Booleans'
    BY DEF Booleans
  <2>2. Ranges'
    BY DEF Ranges
  <2>3. TaskRules' /\ LoopRules'
    BY DEF TaskRules, LoopRules
  <2>4. Accounts'
    BY Singles DEF Accounts
  <2> QED BY <2>1, <2>2, <2>3, <2>4
<1>2. CASE SendHandedOff
  <2>1. /\ remaining' = sendLen /\ handoff' = TRUE
        /\ UNCHANGED <<connection, wstate, pending, onwrite, onclose, sent, keepAlive,
                       sendLen, fileLeft, pumping, loopPc>>
    BY <1>2 DEF SendHandedOff
  <2>2. sendLen \in Nat
    BY MaxLenAssumption DEF DownloadInv, Ranges
  <2>3. \/ /\ posted' = IF sendLen = 0 THEN Only("zero") ELSE Only("start")
           /\ activeCount' = 1 /\ ownership' = TRUE
           /\ UNCHANGED <<finished, cleanupScheduled, errorCount, results>>
        \/ /\ finished' = TRUE /\ cleanupScheduled' = TRUE /\ errorCount' = 1
           /\ results' = No /\ UNCHANGED <<posted, activeCount, ownership>>
    <3>1. /\ Append(posted, IF sendLen = 0 THEN "zero" ELSE "start") =
               (IF sendLen = 0 THEN Only("zero") ELSE Only("start"))
          /\ Append(results, FALSE) = No
      BY <1>0, Singles, Zenon
    <3>2. CASE /\ posted' = Append(posted, IF sendLen = 0 THEN "zero" ELSE "start")
               /\ activeCount' = activeCount + 1 /\ ownership' = TRUE
               /\ UNCHANGED <<finished, cleanupScheduled, errorCount, results>>
      BY <1>0, <3>1, <3>2
    <3>3. CASE /\ finished' = TRUE /\ cleanupScheduled' = TRUE /\ errorCount' = errorCount + 1
               /\ results' = Append(results, FALSE)
               /\ UNCHANGED <<posted, activeCount, ownership>>
      <4>1. errorCount' = 1
        BY <1>0, <3>3
      <4> QED BY <3>1, <3>3, <4>1, Zenon
    <3> QED BY <1>2, <3>2, <3>3, Zenon DEF SendHandedOff
  <2>4. Booleans'
    BY <1>0, <2>1, <2>3 DEF DownloadInv, Booleans, connection
  <2>5. Ranges'
    BY <1>0, <2>1 DEF DownloadInv, Ranges
  <2>6. TaskRules'
    BY <1>0, <2>1 DEF TaskRules
  <2>7. LoopRules'
    BY <1>0, <2>1, <2>2, <2>3, Singles DEF DownloadInv, LoopRules
  <2>8. Accounts'
    BY <1>0, <2>1, <2>2, <2>3, Singles DEF Accounts
  <2> QED BY <2>4, <2>5, <2>6, <2>7, <2>8 DEF DownloadInv
<1> QED BY <1>1, <1>2 DEF HandlerSends

(* A step of the loop that ends in finish(): the rules hold again, provided *)
(* that success is reported of a whole and ended response only.             *)
LEMMA FinishKeeps ==
  ASSUME DownloadInv, handoff, ~finished, NEW success \in BOOLEAN, NEW queue, queue = <<>>,
         Finish(success, queue), UNCHANGED taskVars, UNCHANGED <<handoff, sendLen>>,
         loopPc' = "loop", success => sent' = sendLen /\ wstate' = "end"
  PROVE  TaskRules' /\ LoopRules' /\ Accounts'
<1>1. /\ finished' = TRUE /\ cleanupScheduled' = TRUE /\ activeCount' = 0
      /\ errorCount' = IF success THEN 0 ELSE 1
      /\ results' = IF success THEN Yes ELSE No
      /\ posted' \in {<<>>, Only("cleanup")}
  BY FinishDoes
<1>2. taskPc \notin {"none", "handler"}
  BY DEF DownloadInv, TaskRules
<1>3. TaskRules'
  BY <1>1, <1>2 DEF DownloadInv, TaskRules, taskVars
<1>4. LoopRules'
  BY <1>1, Singles DEF LoopRules
<1>5. Accounts'
  <2>1. CASE success = TRUE
    BY <1>1, <2>1 DEF Accounts
  <2>2. CASE success = FALSE
    BY <1>1, <2>2 DEF Accounts
  <2> QED BY <2>1, <2>2
<1> QED BY <1>3, <1>4, <1>5

(* The connection breaks. *)
LEMMA ConnectionKeeps ==
  ASSUME DownloadInv, CloseAfterEnd \/ PeerCloses, UNCHANGED taskVars
  PROVE  DownloadInv'
<1> USE DEF CloseAfterEnd, PeerCloses, Disconnect, streamVars, stateVars, statVars, taskVars,
            DownloadInv
<1>1. Booleans'
  <2>1. connected' \in BOOLEAN
    OBVIOUS
  <2> QED BY <2>1 DEF Booleans
<1>2. Ranges'
  BY DEF Ranges
<1>3. TaskRules' /\ LoopRules' /\ Accounts'
  BY DEF TaskRules, LoopRules, Accounts
<1> QED BY <1>1, <1>2, <1>3

(* The write buffer is empty: onwrite may enter pump(). *)
LEMMA WriteDrainedKeeps ==
  ASSUME DownloadInv, WriteDrained, UNCHANGED taskVars
  PROVE  DownloadInv'
<1>0. /\ loopPc = "loop"
      /\ UNCHANGED <<connection, wstate, onwrite, onclose, posted, sent, keepAlive, sendLen,
                     fileLeft, remaining, finished, cleanupScheduled, ownership, statVars, handoff>>
  BY DEF WriteDrained
<1>1. \/ UNCHANGED <<loopPc, pumping>>
      \/ onwrite /\ ~finished /\ loopPc' = "pump" /\ pumping' = TRUE
  BY DEF WriteDrained
<1>2. Booleans'
  <2>1. pending' \in BOOLEAN /\ pumping' \in BOOLEAN
    BY <1>1 DEF WriteDrained, DownloadInv, Booleans
  <2> QED BY <1>0, <2>1 DEF connection, taskVars, DownloadInv, Booleans
<1>3. Ranges'
  BY <1>0, <1>1 DEF taskVars, DownloadInv, Ranges
<1>4. TaskRules' /\ Accounts'
  BY <1>0 DEF statVars, taskVars, DownloadInv, TaskRules, Accounts
<1>5. LoopRules'
  BY <1>0, <1>1 DEF DownloadInv, LoopRules
<1> QED BY <1>2, <1>3, <1>4, <1>5 DEF DownloadInv

(* The connection's end is reported: onclose finishes an open transfer. *)
LEMMA CloseCallbackKeeps ==
  ASSUME DownloadInv, CloseCallback, UNCHANGED taskVars
  PROVE  DownloadInv'
<1>0. /\ closeReported' = TRUE /\ loopPc = "loop"
      /\ UNCHANGED <<connected, closing, wstate, pending, onwrite, onclose, sent, keepAlive,
                     sendLen, fileLeft, remaining, pumping, handoff, loopPc>>
  BY DEF CloseCallback
<1>1. CASE onclose /\ ~finished
  <2>1. handoff /\ posted = <<>>
    BY <1>1 DEF DownloadInv, LoopRules
  <2>2. Finish(FALSE, posted)
    BY <1>1 DEF CloseCallback
  <2>3. finished' = TRUE /\ cleanupScheduled' = TRUE /\ ownership' \in BOOLEAN
    BY <1>1, <2>1, <2>2, FinishDoes
  <2>4. TaskRules' /\ LoopRules' /\ Accounts'
    BY <1>0, <1>1, <2>1, <2>2, FinishKeeps
  <2>5. Booleans'
    BY <1>0, <2>3 DEF taskVars, DownloadInv, Booleans
  <2>6. Ranges'
    BY <1>0 DEF taskVars, DownloadInv, Ranges
  <2> QED BY <2>4, <2>5, <2>6 DEF DownloadInv
<1>2. CASE ~onclose \/ finished
  <2>1. UNCHANGED <<posted, finished, statVars, cleanupScheduled, ownership>>
    BY <1>2 DEF CloseCallback, Finish, NotFinishing
  <2>2. Booleans'
    BY <1>0, <2>1 DEF taskVars, DownloadInv, Booleans
  <2>3. Ranges'
    BY <1>0, <2>1 DEF taskVars, DownloadInv, Ranges
  <2>4. TaskRules' /\ LoopRules' /\ Accounts'
    BY <1>0, <2>1 DEF statVars, taskVars, DownloadInv, TaskRules, LoopRules, Accounts
  <2> QED BY <2>2, <2>3, <2>4 DEF DownloadInv
<1> QED BY <1>1, <1>2

(* A posted event is the only one. *)
LEMMA PostedAlone ==
  ASSUME DownloadInv, NEW event, NextPosted(event)
  PROVE  /\ loopPc = "loop" /\ handoff /\ posted = Only(event) /\ Tail(posted) = <<>>
         /\ event \in {"start", "zero"} => ~finished
BY Singles DEF DownloadInv, LoopRules, NextPosted

(* The transfer comes to nothing. *)
LEMMA StartTooLateKeeps ==
  ASSUME DownloadInv, StartTooLate, UNCHANGED taskVars
  PROVE  DownloadInv'
<1>0. /\ NextPosted("start") /\ Finish(FALSE, Tail(posted))
      /\ UNCHANGED <<connection, wstate, pending, onwrite, onclose, sent, keepAlive,
                     sendLen, fileLeft, remaining, pumping, handoff, loopPc>>
  BY DEF StartTooLate
<1>1. loopPc = "loop" /\ handoff /\ ~finished /\ Tail(posted) = <<>>
  BY <1>0, PostedAlone
<1>2. finished' = TRUE /\ cleanupScheduled' = TRUE /\ ownership' \in BOOLEAN
  BY <1>0, <1>1, FinishDoes
<1>3. TaskRules' /\ LoopRules' /\ Accounts'
  BY <1>0, <1>1, FinishKeeps
<1>4. Booleans'
  BY <1>0, <1>2 DEF connection, taskVars, DownloadInv, Booleans
<1>5. Ranges'
  BY <1>0 DEF taskVars, DownloadInv, Ranges
<1> QED BY <1>3, <1>4, <1>5 DEF DownloadInv

(* A transfer of nothing is whole at once. *)
LEMMA ZeroLengthKeeps ==
  ASSUME DownloadInv, ZeroLength, UNCHANGED taskVars
  PROVE  DownloadInv'
<1>0. /\ NextPosted("zero")
      /\ UNCHANGED <<connected, closeReported, pending, onwrite, onclose, sent, keepAlive,
                     sendLen, fileLeft, remaining, pumping, handoff, loopPc>>
  BY DEF ZeroLength
<1>1. loopPc = "loop" /\ handoff /\ ~finished /\ posted = Only("zero") /\ Tail(posted) = <<>>
  BY <1>0, PostedAlone
<1>2. sent = sendLen
  BY <1>1, MaxLenAssumption DEF DownloadInv, LoopRules, Accounts, Ranges
<1>3. PICK success \in BOOLEAN :
        /\ Finish(success, Tail(posted))
        /\ wstate' \in {wstate, "end"} /\ closing' \in BOOLEAN
        /\ success => wstate' = "end"
  <2>1. CASE connected
    BY <2>1 DEF ZeroLength, End, DownloadInv, Booleans
  <2>2. CASE ~connected
    BY <2>2 DEF ZeroLength, DownloadInv, Booleans
  <2> QED BY <2>1, <2>2
<1>4. finished' = TRUE /\ cleanupScheduled' = TRUE /\ ownership' \in BOOLEAN
  BY <1>1, <1>3, FinishDoes
<1>5. TaskRules' /\ LoopRules' /\ Accounts'
  BY <1>0, <1>1, <1>2, <1>3, FinishKeeps
<1>6. Booleans'
  BY <1>0, <1>3, <1>4 DEF taskVars, DownloadInv, Booleans
<1>7. Ranges'
  BY <1>0, <1>3 DEF taskVars, DownloadInv, Ranges
<1> QED BY <1>5, <1>6, <1>7 DEF DownloadInv

(* The callbacks are cleared after finish(). *)
LEMMA CleanupKeeps ==
  ASSUME DownloadInv, Cleanup, UNCHANGED taskVars
  PROVE  DownloadInv'
<1>0. /\ NextPosted("cleanup") /\ posted' = Tail(posted)
      /\ onwrite' = FALSE /\ onclose' = FALSE /\ ownership' = FALSE
      /\ UNCHANGED <<connection, wstate, pending, sent, keepAlive, sendLen, fileLeft,
                     remaining, finished, pumping, cleanupScheduled, statVars, handoff, loopPc>>
  BY DEF Cleanup
<1>1. posted' = <<>>
  BY <1>0, PostedAlone
<1>2. Booleans'
  BY <1>0 DEF connection, taskVars, DownloadInv, Booleans
<1>3. Ranges'
  BY <1>0 DEF taskVars, DownloadInv, Ranges
<1>4. TaskRules' /\ LoopRules' /\ Accounts'
  BY <1>0, <1>1, Singles DEF statVars, taskVars, DownloadInv, TaskRules, LoopRules, Accounts
<1> QED BY <1>2, <1>3, <1>4 DEF DownloadInv

(* The transfer begins. *)
LEMMA StartStreamingKeeps ==
  ASSUME DownloadInv, NEW outcome, StartStreaming(outcome), UNCHANGED taskVars
  PROVE  DownloadInv'
<1>0. /\ NextPosted("start") /\ onwrite' = TRUE /\ onclose' = TRUE
      /\ UNCHANGED <<closing, closeReported, sent, keepAlive, sendLen, fileLeft, remaining, handoff>>
  BY DEF StartStreaming
<1>1. loopPc = "loop" /\ handoff /\ ~finished /\ posted = Only("start") /\ Tail(posted) = <<>>
  BY <1>0, PostedAlone
<1>2. remaining >= 1 /\ taskPc \notin {"none", "handler"}
  BY <1>1 DEF DownloadInv, LoopRules, TaskRules
<1>3. CASE Finish(FALSE, Tail(posted)) /\ connected' = (wstate = "end")
           /\ UNCHANGED <<wstate, pending, pumping, loopPc>>
  <2>1. finished' = TRUE /\ cleanupScheduled' = TRUE /\ ownership' \in BOOLEAN
    BY <1>1, <1>3, FinishDoes
  <2>2. TaskRules' /\ LoopRules' /\ Accounts'
    BY <1>0, <1>1, <1>3, FinishKeeps
  <2>3. Booleans'
    BY <1>0, <1>3, <2>1 DEF taskVars, DownloadInv, Booleans
  <2>4. Ranges'
    BY <1>0, <1>3 DEF taskVars, DownloadInv, Ranges
  <2> QED BY <2>2, <2>3, <2>4 DEF DownloadInv
<1>4. CASE /\ wstate' = "sending" /\ NotFinishing(Tail(posted)) /\ pending' = (outcome = "buffered")
           /\ IF outcome = "flushed" THEN pumping' = TRUE /\ loopPc' = "pump"
              ELSE UNCHANGED <<pumping, loopPc>>
           /\ UNCHANGED connected
  <2>1. posted' = <<>> /\ UNCHANGED <<finished, statVars, cleanupScheduled, ownership>>
    BY <1>1, <1>4 DEF NotFinishing
  <2>2. pumping' \in BOOLEAN /\ loopPc' \in {"loop", "pump"} /\ pending' \in BOOLEAN
    BY <1>1, <1>4 DEF DownloadInv, Booleans
  <2>3. Booleans'
    BY <1>0, <1>4, <2>1, <2>2 DEF taskVars, DownloadInv, Booleans
  <2>4. Ranges'
    BY <1>0, <1>4, <2>2 DEF taskVars, DownloadInv, Ranges
  <2>5. TaskRules'
    BY <1>0, <1>2, <1>4, <2>1 DEF taskVars, statVars, DownloadInv, TaskRules
  <2>6. LoopRules'
    BY <1>0, <1>1, <1>2, <2>1, Singles DEF DownloadInv, LoopRules
  <2>7. Accounts'
    BY <1>0, <1>1, <2>1 DEF statVars, DownloadInv, Accounts
  <2> QED BY <2>3, <2>4, <2>5, <2>6, <2>7 DEF DownloadInv
<1> QED BY <1>3, <1>4 DEF StartStreaming

(* pump() runs in an open transfer with nothing posted. *)
LEMMA Pumping ==
  ASSUME DownloadInv, loopPc = "pump"
  PROVE  /\ handoff /\ ~finished /\ posted = <<>> /\ remaining >= 1
         /\ sent + remaining = sendLen /\ (wstate = "end" => threw)
         /\ sent \in Nat /\ sendLen \in Nat /\ remaining \in Nat /\ fileLeft \in 0 .. MaxLen
BY Singles, MaxLenAssumption DEF DownloadInv, LoopRules, Accounts, TaskRules, Ranges

(* pump() returns with the transfer failed, or waits for the socket. *)
LEMMA PumpStopsKeeps ==
  ASSUME DownloadInv, PumpStops, UNCHANGED taskVars
  PROVE  DownloadInv'
<1>0. /\ loopPc = "pump" /\ loopPc' = "loop" /\ pumping' = FALSE
      /\ UNCHANGED <<connection, wstate, pending, onwrite, onclose, sent, keepAlive,
                     sendLen, fileLeft, remaining, handoff>>
  BY DEF PumpStops, PumpReturns
<1>1. handoff /\ ~finished /\ posted = <<>>
  BY <1>0, Pumping
<1>2. Ranges'
  BY <1>0 DEF taskVars, DownloadInv, Ranges
<1>3. CASE Finish(FALSE, posted)
  <2>1. finished' = TRUE /\ cleanupScheduled' = TRUE /\ ownership' \in BOOLEAN
    BY <1>1, <1>3, FinishDoes
  <2>2. TaskRules' /\ LoopRules' /\ Accounts'
    BY <1>0, <1>1, <1>3, FinishKeeps
  <2>3. Booleans'
    BY <1>0, <2>1 DEF connection, taskVars, DownloadInv, Booleans
  <2> QED BY <1>2, <2>2, <2>3 DEF DownloadInv
<1>4. CASE NotFinishing(posted)
  <2>1. UNCHANGED <<posted, finished, statVars, cleanupScheduled, ownership>>
    BY <1>4 DEF NotFinishing
  <2>2. Booleans'
    <3>1. pumping' \in BOOLEAN
      BY <1>0
    <3> QED BY <1>0, <2>1, <3>1 DEF connection, taskVars, DownloadInv, Booleans
  <2>3. TaskRules' /\ Accounts'
    BY <1>0, <2>1 DEF taskVars, statVars, DownloadInv, TaskRules, Accounts
  <2>4. LoopRules'
    BY <1>0, <2>1 DEF DownloadInv, LoopRules
  <2> QED BY <1>2, <2>2, <2>3, <2>4 DEF DownloadInv
<1> QED BY <1>3, <1>4 DEF PumpStops

(* pump() writes a chunk: the write fails, it was the last one, or there    *)
(* is more.                                                                 *)
LEMMA PumpChunkKeeps ==
  ASSUME DownloadInv, NEW outcome, PumpChunk(outcome), UNCHANGED taskVars
  PROVE  DownloadInv'
<1>0. /\ loopPc = "pump" /\ fileLeft > 0 /\ fileLeft' = fileLeft - 1 /\ remaining' = remaining - 1
      /\ UNCHANGED <<closeReported, onwrite, onclose, keepAlive, sendLen, handoff>>
  BY DEF PumpChunk
<1>1. /\ handoff /\ ~finished /\ posted = <<>> /\ remaining >= 1
      /\ sent + remaining = sendLen /\ sent \in Nat /\ sendLen \in Nat /\ remaining \in Nat
  BY <1>0, Pumping
<1>2. fileLeft' \in 0 .. MaxLen /\ remaining' \in 0 .. MaxLen
  BY <1>0, <1>1, MaxLenAssumption DEF DownloadInv, Ranges
<1>3. taskPc \notin {"none", "handler"}
  BY <1>1 DEF DownloadInv, TaskRules
<1>4. CASE /\ connected' = FALSE /\ Finish(FALSE, posted) /\ PumpReturns
           /\ UNCHANGED <<closing, wstate, pending, sent>>
  <2>1. finished' = TRUE /\ cleanupScheduled' = TRUE /\ ownership' \in BOOLEAN
    BY <1>1, <1>4, FinishDoes
  <2>2. loopPc' = "loop" /\ pumping' = FALSE
    BY <1>4 DEF PumpReturns
  <2>3. TaskRules' /\ LoopRules' /\ Accounts'
    BY <1>0, <1>1, <1>4, <2>2, FinishKeeps
  <2>4. Booleans'
    BY <1>0, <1>4, <2>1, <2>2 DEF taskVars, DownloadInv, Booleans
  <2>5. Ranges'
    BY <1>0, <1>2, <1>4, <2>2 DEF taskVars, DownloadInv, Ranges
  <2> QED BY <2>3, <2>4, <2>5 DEF DownloadInv
<1>5. CASE /\ sent' = sent + 1 /\ pending' = (outcome = "buffered")
           /\ LastChunk /\ End /\ Finish(TRUE, posted) /\ PumpReturns /\ UNCHANGED connected
  <2>1. finished' = TRUE /\ cleanupScheduled' = TRUE /\ ownership' \in BOOLEAN
    BY <1>1, <1>5, FinishDoes
  <2>2. loopPc' = "loop" /\ pumping' = FALSE /\ wstate' = "end" /\ closing' \in BOOLEAN
    BY <1>5 DEF PumpReturns, End
  <2>3. sent' = sendLen /\ sent' \in Nat
    BY <1>1, <1>5 DEF LastChunk
  <2>4. TaskRules' /\ LoopRules' /\ Accounts'
    BY <1>0, <1>1, <1>5, <2>2, <2>3, FinishKeeps
  <2>5. Booleans'
    BY <1>0, <1>5, <2>1, <2>2 DEF taskVars, DownloadInv, Booleans
  <2>6. Ranges'
    BY <1>0, <1>2, <2>2, <2>3 DEF taskVars, DownloadInv, Ranges
  <2> QED BY <2>4, <2>5, <2>6 DEF DownloadInv
<1>6. CASE /\ sent' = sent + 1 /\ pending' = (outcome = "buffered")
           /\ ~LastChunk /\ NotFinishing(posted)
           /\ UNCHANGED <<closing, wstate, loopPc, pumping>> /\ UNCHANGED connected
  <2>1. UNCHANGED <<posted, finished, statVars, cleanupScheduled, ownership>>
    BY <1>6 DEF NotFinishing
  <2>2. remaining' >= 1 /\ sent' + remaining' = sendLen /\ sent' \in Nat
    BY <1>0, <1>1, <1>6 DEF LastChunk
  <2>3. Booleans'
    BY <1>0, <1>6, <2>1 DEF taskVars, DownloadInv, Booleans
  <2>4. Ranges'
    BY <1>0, <1>2, <1>6, <2>2 DEF taskVars, DownloadInv, Ranges
  <2>5. TaskRules'
    BY <1>0, <1>3, <1>6, <2>1 DEF taskVars, statVars, DownloadInv, TaskRules
  <2>6. LoopRules'
    BY <1>0, <1>1, <1>6, <2>1, <2>2, Singles DEF DownloadInv, LoopRules
  <2>7. Accounts'
    BY <1>0, <1>1, <2>1, <2>2 DEF statVars, DownloadInv, Accounts
  <2> QED BY <2>3, <2>4, <2>5, <2>6, <2>7 DEF DownloadInv
<1> QED BY <1>4, <1>5, <1>6 DEF PumpChunk

(* Every step keeps the inductive invariant. *)
LEMMA NextKeeps ==
  ASSUME DownloadInv, [Next]_vars
  PROVE  DownloadInv'
<1>1. CASE UNCHANGED vars
  <2> USE <1>1 DEF vars, writerVars, connection, streamVars, stateVars, statVars, taskVars
  <2>1. Booleans'
    BY DEF DownloadInv, Booleans
  <2>2. Ranges'
    BY DEF DownloadInv, Ranges
  <2>3. TaskRules' /\ LoopRules' /\ Accounts'
    BY DEF DownloadInv, TaskRules, LoopRules, Accounts
  <2> QED BY <2>1, <2>2, <2>3 DEF DownloadInv
<1>2. CASE Dispatch \/ TaskStep
  BY <1>2, TaskKeeps, TaskEndsKeeps, HandlerSendsKeeps DEF TaskStep
<1>3. CASE Loop
  BY <1>3, CloseCallbackKeeps, ConnectionKeeps, StartTooLateKeeps, ZeroLengthKeeps, CleanupKeeps,
     PumpStopsKeeps, StartStreamingKeeps, PumpChunkKeeps DEF Loop, LoopStep
<1>4. CASE Drain \/ Leave
  BY <1>4, WriteDrainedKeeps, ConnectionKeeps DEF Drain, Leave
<1> QED BY <1>1, <1>2, <1>3, <1>4 DEF Next

(* The inductive invariant holds of every behaviour. *)
LEMMA DownloadInvHolds == Spec => []DownloadInv
<1>1. Init => DownloadInv
  BY InitHolds
<1>2. DownloadInv /\ [Next]_vars => DownloadInv'
  BY NextKeeps
<1> QED BY <1>1, <1>2, PTL DEF Spec

-----------------------------------------------------------------------------
(* Every variable has its type, for a transfer of any length. *)
THEOREM DownloadTypes == Spec => []TypeOK
BY DownloadInvHolds, InvHasTypes, PTL

(* Whoever gets to finish() first, on the loop or in send(): onComplete is  *)
(* called at most once and TransferStats agree with it.                     *)
THEOREM TransfersAreCountedOnce == Spec => []AccountedOnce
<1>1. DownloadInv => AccountedOnce
  <2> SUFFICES ASSUME DownloadInv PROVE AccountedOnce
    OBVIOUS
  <2>1. Len(<<>>) = 0 /\ Len(Yes) = 1 /\ Len(No) = 1
    BY DEF Yes, No
  <2>2. Len(results) <= 1
    <3>1. results \in {<<>>, Yes, No}
      BY DEF DownloadInv, Accounts
    <3> QED BY <2>1, <3>1
  <2>3. activeCount = IF handoff /\ ~finished THEN 1 ELSE 0
    BY DEF DownloadInv, Accounts
  <2>4. handoff => (errorCount = 1 <=> results = No)
    BY Singles DEF DownloadInv, Accounts
  <2> QED BY <2>2, <2>3, <2>4 DEF AccountedOnce, No
<1> QED BY <1>1, DownloadInvHolds, PTL

(* onComplete(true) is only reported of a response that is ended with every *)
(* promised chunk written.                                                  *)
THEOREM ReportedSuccessIsWhole == Spec => []SuccessIsWhole
<1>1. DownloadInv => SuccessIsWhole
  BY Singles DEF DownloadInv, Accounts, SuccessIsWhole, Yes
<1> QED BY <1>1, DownloadInvHolds, PTL

(* Unless the chain threw after send(), no chunk is written to an ended     *)
(* response: the task's decision and the loop's writes do not collide.      *)
THEOREM TaskLeavesHandoffAlone == Spec => ReturnKeepsHandoff
<1>1. DownloadInv /\ [Next]_vars => [sent' # sent /\ ~threw => wstate # "end"]_vars
  <2> SUFFICES ASSUME DownloadInv, [Next]_vars, sent' # sent, ~threw
               PROVE  wstate # "end"
    OBVIOUS
  <2>1. loopPc = "pump" \/ HandlerSends
    BY DEF vars, writerVars, Next, Dispatch, TaskStep, HandlerWithoutSend, HandlerReturns, HandlerThrows,
           TaskDecides, TaskEnds, TaskUntracks, Loop, Drain, Leave, LoopStep, CloseCallback,
           CloseAfterEnd, StartTooLate, ZeroLength, Cleanup, PumpStops, StartStreaming, PumpChunk,
           WriteDrained, PeerCloses, Disconnect
  <2>2. CASE loopPc = "pump"
    BY <2>2, Pumping
  <2>3. CASE HandlerSends
    BY <2>3 DEF HandlerSends, DownloadInv, TaskRules
  <2> QED BY <2>1, <2>2, <2>3
<1> QED BY <1>1, DownloadInvHolds, PTL DEF Spec, ReturnKeepsHandoff

=============================================================================
