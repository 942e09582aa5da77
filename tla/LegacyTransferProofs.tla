------------------------ MODULE LegacyTransferProofs ------------------------
(***************************************************************************)
(* Proofs about LegacyTransfer for every length, threshold and time limit. *)
(***************************************************************************)
EXTENDS LegacyTransfer, SequenceTheorems, TLAPS

Call == [fn : Steps \cup {"cleared"}, started : BOOLEAN, done : BOOLEAN]

LegacyTypeOK ==
  /\ at \in Steps \cup {"begin", "done"}
  /\ place \in {"calling", "waiting", "true", "false"}
  /\ calls \in Seq(Call) /\ begun \in 0 .. Len(calls)
  /\ running \in Steps \cup {"none", "ran", "cleared"}
  /\ remaining \in Nat /\ written \in Nat /\ completed \in Seq(BOOLEAN)
  /\ seen \in [ret : {0, 1}, pending : Nat, connected : BOOLEAN]
  /\ connected \in BOOLEAN /\ buffered \in Nat /\ available \in Nat

(* What runOnWriterLoopSync and the posted events keep: calls are begun in  *)
(* order; only the last one may be open, and only while it is waited for;   *)
(* one that is done before it is begun has lost its step.                   *)
Protocol ==
  /\ place # "calling" => at \in Steps
  /\ place = "waiting" => calls # <<>>
  /\ \A i \in 1 .. Len(calls) :
       /\ calls[i].started <=> i <= begun
       /\ ~calls[i].done => i = Len(calls) /\ place = "waiting" /\ calls[i].fn = at
       /\ calls[i].done => calls[i].fn = "cleared"
  /\ running # "none" => begun > 0
  /\ running \in Steps => calls[begun].fn = running
  /\ running \in Steps \cup {"ran"} => ~calls[begun].done
  /\ running \in {"none", "cleared"} => \A i \in 1 .. begun : calls[i].done

(* The loop has executed the write that send() is at. *)
Executed ==
  /\ at = "write"
  /\ \/ place = "true"
     \/ place = "waiting" /\ (running = "ran" \/ Mine.done)

(* Bytes are counted twice, by the writer and by remaining; in between a    *)
(* write is executed and not yet subtracted.                                *)
Counting ==
  /\ at = "begin" <=> path = "none"
  /\ at # "done" => completed = <<>>
  /\ at \in Steps => path = "stream"
  /\ path \in {"none", "stream"} =>
       written + remaining = IF Executed /\ seen.ret = 0 THEN SendLen + 1 ELSE SendLen
  /\ Executed => (seen.ret = 0 <=> seen.connected)
  /\ at \in {"begin", "headers", "check", "write"} => remaining > 0
  /\ path = "stream" /\ completed = <<TRUE>> => remaining = 0
  /\ path = "range" /\ completed = <<TRUE>> => written = SendLen

LegacyInv == LegacyTypeOK /\ Protocol /\ Counting

-----------------------------------------------------------------------------
(* Replacing one call leaves the others as they are. *)
LEMMA CallReplaced ==
  ASSUME NEW s \in Seq(Call), NEW i \in 1 .. Len(s), NEW c \in Call
  PROVE  LET t == [s EXCEPT ![i] = c]
         IN /\ t \in Seq(Call) /\ Len(t) = Len(s)
            /\ \A j \in 1 .. Len(s) : t[j] = IF j = i THEN c ELSE s[j]
BY DEF Call

(* Posting a call leaves the others as they are. *)
LEMMA CallPosted ==
  ASSUME NEW s \in Seq(Call), NEW c \in Call
  PROVE  LET t == Append(s, c)
         IN /\ t \in Seq(Call) /\ Len(t) = Len(s) + 1
            /\ \A j \in 1 .. Len(t) : t[j] = IF j = Len(t) THEN c ELSE s[j]
OBVIOUS

(* No result is not a lone TRUE. *)
LEMMA NoResult == <<>> # <<TRUE>>
<1>1. Len(<<>>) = 0 /\ Len(<<TRUE>>) = 1
  OBVIOUS
<1> QED BY <1>1

(* Completing once: the list of results was empty, so a lone TRUE is the    *)
(* result just added.                                                       *)
LEMMA FirstResult ==
  ASSUME NEW success \in BOOLEAN
  PROVE  Append(<<>>, success) = <<TRUE>> => success
<1>1. Append(<<>>, success)[1] = success
  OBVIOUS
<1> QED BY <1>1

(* send() starts with nothing posted, nothing counted. *)
LEMMA InitHolds == Init => LegacyInv
<1> SUFFICES ASSUME Init PROVE LegacyInv
  OBVIOUS
<1> USE LegacyConstants DEF Init
<1>1. LegacyTypeOK
  BY DEF LegacyTypeOK, Nothing
<1>2. Protocol
  BY DEF Protocol, Steps
<1>3. Counting
  BY NoResult DEF Counting, Executed, Steps
<1> QED BY <1>1, <1>2, <1>3 DEF LegacyInv

(* The ways that need no step on the loop. *)
LEMMA BeginKeeps ==
  ASSUME LegacyInv, NEW how \in {"range", "served", "unchecked", "refused", "accel"},
         NEW success \in BOOLEAN, NEW body \in Nat, Begin(how, success, body),
         how = "range" /\ success => body = SendLen
  PROVE  LegacyInv'
<1> USE DEF LegacyInv, Begin, Complete
<1>1. LegacyTypeOK'
  BY DEF LegacyTypeOK, given
<1>2. Protocol'
  BY DEF Protocol, Steps
<1>3. Counting'
  <2>1. completed = <<>> /\ completed' = Append(<<>>, success)
    BY DEF Counting
  <2>2. completed' = <<TRUE>> => success
    BY <2>1, FirstResult
  <2>3. ~Executed'
    BY DEF Executed
  <2> QED BY <2>2, <2>3 DEF Counting, Steps
<1> QED BY <1>1, <1>2, <1>3

(* What a step does to the writer and to send()'s stack. *)
LEMMA EffectDoes ==
  ASSUME LegacyTypeOK, NEW fn \in Steps, Effect(fn)
  PROVE  /\ seen' \in [ret : {0, 1}, pending : Nat, connected : BOOLEAN]
         /\ connected' \in BOOLEAN /\ buffered' \in Nat /\ written' \in Nat
         /\ fn # "write" => written' = written
         /\ fn = "write" =>
              /\ seen'.ret = 0 <=> seen'.connected
              /\ written' = IF seen'.ret = 0 THEN written + 1 ELSE written
<1> USE DEF LegacyTypeOK
<1>1. CASE fn = "headers"
  BY <1>1 DEF Effect
<1>2. CASE fn = "check"
  BY <1>2 DEF Effect, writer
<1>3. CASE fn = "write"
  <2>1. PICK ok \in {connected, FALSE} :
           /\ seen' = [seen EXCEPT !.ret = IF ok THEN 0 ELSE 1, !.connected = ok]
           /\ connected' = ok
           /\ buffered' = IF ok THEN buffered + 1 ELSE 0
           /\ written' = IF ok THEN written + 1 ELSE written
    BY <1>3 DEF Effect
  <2>2. ok = TRUE \/ ok = FALSE
    OBVIOUS
  <2>3. CASE ok = TRUE
    <3>1. seen' \in [ret : {0, 1}, pending : Nat, connected : BOOLEAN]
      BY <2>1, <2>3
    <3>2. seen'.ret = 0 /\ seen'.connected = TRUE
      BY <2>1, <2>3
    <3>3. connected' \in BOOLEAN /\ buffered' \in Nat /\ written' \in Nat
      BY <2>1, <2>3
    <3>4. written' = IF seen'.ret = 0 THEN written + 1 ELSE written
      BY <2>1, <2>3, <3>2
    <3> QED BY <1>3, <3>1, <3>2, <3>3, <3>4
  <2>4. CASE ok = FALSE
    <3>1. seen' \in [ret : {0, 1}, pending : Nat, connected : BOOLEAN]
      BY <2>1, <2>4
    <3>2. seen'.ret = 1 /\ seen'.connected = FALSE
      BY <2>1, <2>4
    <3>3. connected' \in BOOLEAN /\ buffered' \in Nat /\ written' \in Nat
      BY <2>1, <2>4
    <3>4. written' = IF seen'.ret = 0 THEN written + 1 ELSE written
      BY <2>1, <2>4, <3>2
    <3> QED BY <1>3, <3>1, <3>2, <3>3, <3>4
  <2> QED BY <2>2, <2>3, <2>4
<1>4. CASE fn = "end"
  BY <1>4 DEF Effect
<1> QED BY <1>1, <1>2, <1>3, <1>4 DEF Steps

(* send() calls a step: it fails, runs at once, or is posted. *)
LEMMA CallKeeps ==
  ASSUME LegacyInv, CallFails \/ CallDirectly \/ Post
  PROVE  LegacyInv'
<1> USE DEF LegacyInv, Kept, Stays, given
<1>1. CASE CallFails
  <2> USE <1>1 DEF CallFails, writer
  <2>1. LegacyTypeOK'
    BY DEF LegacyTypeOK
  <2>2. Protocol'
    BY DEF Protocol, Steps, LegacyTypeOK
  <2>3. ~Executed /\ ~Executed'
    BY DEF Executed
  <2>4. Counting'
    BY <2>3 DEF Counting
  <2> QED BY <2>1, <2>2, <2>4
<1>2. CASE CallDirectly
  <2> USE <1>2 DEF CallDirectly
  <2>0. at \in Steps
    OBVIOUS
  <2>1. LegacyTypeOK'
    BY EffectDoes, <2>0 DEF LegacyTypeOK
  <2>2. Protocol'
    BY DEF Protocol, Steps, LegacyTypeOK
  <2>3. ~Executed /\ (Executed' <=> at = "write")
    BY DEF Executed
  <2>4. Counting'
    <3>1. completed = <<>> /\ completed # <<TRUE>>
      BY <2>0, NoResult DEF Counting, Steps
    <3>2. path \in {"none", "stream"} => written + remaining = SendLen
      BY <2>3 DEF Counting
    <3>3. path' \in {"none", "stream"} =>
            written' + remaining' = IF Executed' /\ seen'.ret = 0 THEN SendLen + 1 ELSE SendLen
      <4>1. written' = IF at = "write" /\ seen'.ret = 0 THEN written + 1 ELSE written
        BY <2>0, EffectDoes
      <4>2. path' = path /\ remaining' = remaining /\ remaining \in Nat /\ written \in Nat
        BY DEF LegacyTypeOK
      <4> HIDE <1>2 DEF LegacyInv
      <4> QED BY <2>3, <3>2, <4>1, <4>2, LegacyConstants
    <3>4. Executed' => (seen'.ret = 0 <=> seen'.connected)
      BY <2>0, <2>3, EffectDoes
    <3> QED BY <3>1, <3>3, <3>4 DEF Counting
  <2> QED BY <2>1, <2>2, <2>4
<1>3. CASE Post
  <2> USE <1>3 DEF Post, writer
  <2> DEFINE c == [fn |-> at, started |-> FALSE, done |-> FALSE]
  <2>1. c \in Call /\ calls \in Seq(Call)
    BY DEF Call, LegacyTypeOK
  <2>2. /\ calls' \in Seq(Call) /\ Len(calls') = Len(calls) + 1
        /\ \A j \in 1 .. Len(calls') : calls'[j] = IF j = Len(calls') THEN c ELSE calls[j]
    BY <2>1, CallPosted
  <2>3. LegacyTypeOK'
    BY <2>2 DEF LegacyTypeOK
  <2>4. running \notin Steps \cup {"ran"}
    BY DEF Protocol, LegacyTypeOK, Steps
  <2>5. Protocol'
    <3>1. \A i \in 1 .. Len(calls) : calls[i].done
      BY DEF Protocol
    <3> QED BY <2>2, <2>4, <3>1 DEF Protocol, LegacyTypeOK, Steps
  <2>6. ~Executed /\ ~Executed'
    BY <2>1, <2>2, <2>4 DEF Executed, Mine, LegacyTypeOK
  <2>7. Counting'
    BY <2>6 DEF Counting
  <2> QED BY <2>3, <2>5, <2>7
<1> QED BY <1>1, <1>2, <1>3

(* The loop begins, runs and reports a posted step. *)
LEMMA LoopKeeps ==
  ASSUME LegacyInv, LoopBegin \/ LoopRun \/ LoopReport
  PROVE  LegacyInv'
<1> USE DEF LegacyInv, given, sender
<1>1. CASE LoopBegin
  <2> USE <1>1 DEF LoopBegin, writer
  <2> DEFINE c == [calls[begun + 1] EXCEPT !.started = TRUE]
  <2>1. begun + 1 \in 1 .. Len(calls) /\ calls \in Seq(Call) /\ calls[begun + 1] \in Call
    BY DEF LegacyTypeOK
  <2>2. c \in Call /\ c.fn = calls[begun + 1].fn /\ c.done = calls[begun + 1].done /\ c.started = TRUE
    BY <2>1 DEF Call
  <2>3. /\ calls' \in Seq(Call) /\ Len(calls') = Len(calls)
        /\ \A j \in 1 .. Len(calls) : calls'[j] = IF j = begun + 1 THEN c ELSE calls[j]
    BY <2>1, <2>2, CallReplaced
  <2>4. LegacyTypeOK'
    BY <2>1, <2>3 DEF LegacyTypeOK, Call
  <2>5. Protocol'
    BY <2>1, <2>2, <2>3 DEF Protocol, LegacyTypeOK, Steps
  <2>6. Executed' <=> Executed
    <3>1. Mine'.done <=> Mine.done
      BY <2>1, <2>2, <2>3 DEF Mine, LegacyTypeOK
    <3>2. running # "ran" /\ running' # "ran"
      BY <2>1 DEF Call, Steps
    <3> QED BY <3>1, <3>2 DEF Executed
  <2>7. Counting'
    BY <2>6 DEF Counting
  <2> QED BY <2>4, <2>5, <2>7
<1>2. CASE LoopRun
  <2> USE <1>2 DEF LoopRun
  <2>0. running \in Steps
    OBVIOUS
  <2>1. LegacyTypeOK'
    BY EffectDoes, <2>0 DEF LegacyTypeOK
  <2>2. begun \in 1 .. Len(calls) /\ begun = Len(calls) /\ place = "waiting" /\ running = at
    BY <2>0 DEF Protocol, LegacyTypeOK, Steps
  <2>3. Protocol'
    BY <2>2 DEF Protocol, LegacyTypeOK, Steps
  <2>4. ~Executed /\ (Executed' <=> at = "write")
    BY <2>0, <2>2 DEF Executed, Mine, Protocol, Steps
  <2>5. Counting'
    <3>1. completed = <<>> /\ completed # <<TRUE>>
      BY <2>0, <2>2, NoResult DEF Counting, Steps
    <3>2. path \in {"none", "stream"} => written + remaining = SendLen
      BY <2>4 DEF Counting
    <3>3. path' \in {"none", "stream"} =>
            written' + remaining' = IF Executed' /\ seen'.ret = 0 THEN SendLen + 1 ELSE SendLen
      <4>1. written' = IF at = "write" /\ seen'.ret = 0 THEN written + 1 ELSE written
        BY <2>0, <2>2, EffectDoes
      <4>2. path' = path /\ remaining' = remaining /\ remaining \in Nat /\ written \in Nat
        BY DEF LegacyTypeOK
      <4> HIDE <1>2 DEF LegacyInv
      <4> QED BY <2>4, <3>2, <4>1, <4>2, LegacyConstants
    <3>4. Executed' => (seen'.ret = 0 <=> seen'.connected)
      BY <2>0, <2>2, <2>4, EffectDoes
    <3> QED BY <3>1, <3>3, <3>4 DEF Counting
  <2> QED BY <2>1, <2>3, <2>5
<1>3. CASE LoopReport
  <2> USE <1>3 DEF LoopReport, writer
  <2>1. begun \in 1 .. Len(calls) /\ calls \in Seq(Call) /\ calls[begun] \in Call
    BY DEF LegacyTypeOK, Protocol
  <2> DEFINE c == [calls[begun] EXCEPT !.done = TRUE, !.fn = "cleared"]
  <2>2. c \in Call /\ c.fn = "cleared" /\ c.done = TRUE /\ c.started = calls[begun].started
    BY <2>1 DEF Call
  <2>3. /\ calls' \in Seq(Call) /\ Len(calls') = Len(calls)
        /\ calls'[begun].fn = "cleared" /\ calls'[begun].done /\ calls'[begun].started = calls[begun].started
        /\ \A j \in 1 .. Len(calls) : j # begun => calls'[j] = calls[j]
    <3>1. calls' = [calls EXCEPT ![begun] = c]
      OBVIOUS
    <3> HIDE <1>3 DEF c
    <3>2. /\ calls' \in Seq(Call) /\ Len(calls') = Len(calls)
          /\ \A j \in 1 .. Len(calls) : calls'[j] = IF j = begun THEN c ELSE calls[j]
      BY <2>1, <2>2, <3>1, CallReplaced
    <3> QED BY <2>1, <2>2, <3>2
  <2>4. LegacyTypeOK'
    BY <2>3 DEF LegacyTypeOK
  <2>5. Protocol'
    BY <2>1, <2>3 DEF Protocol, LegacyTypeOK, Steps
  <2>6. Executed' <=> Executed
    BY <2>1, <2>3 DEF Executed, Mine, Protocol, LegacyTypeOK, Steps
  <2>7. Counting'
    BY <2>6 DEF Counting
  <2> QED BY <2>4, <2>5, <2>7
<1> QED BY <1>1, <1>2, <1>3

(* The wait for a posted step ends: it is done, or it is withdrawn. *)
LEMMA WaitKeeps ==
  ASSUME LegacyInv, WaitDone \/ WaitTimeout
  PROVE  LegacyInv'
<1> USE DEF LegacyInv, Stays, given, writer
<1>1. CASE WaitDone
  <2> USE <1>1 DEF WaitDone, Kept
  <2>1. LegacyTypeOK'
    BY DEF LegacyTypeOK
  <2>2. Len(calls) \in 1 .. Len(calls)
    BY EmptySeq DEF Protocol, LegacyTypeOK
  <2>3. Protocol'
    BY <2>2 DEF Protocol, LegacyTypeOK, Steps, Mine
  <2>4. Executed' <=> Executed
    BY DEF Executed
  <2>5. Counting'
    BY <2>4 DEF Counting
  <2> QED BY <2>1, <2>3, <2>5
<1>2. CASE WaitTimeout
  <2> USE <1>2 DEF WaitTimeout, MayWithdraw, Mine
  <2> DEFINE n == Len(calls)
  <2>1. n \in 1 .. n /\ calls \in Seq(Call) /\ calls[n] \in Call
    BY EmptySeq DEF LegacyTypeOK, Protocol
  <2> DEFINE c == [calls[n] EXCEPT !.fn = "cleared", !.done = TRUE]
  <2>2. c \in Call /\ c.fn = "cleared" /\ c.done = TRUE /\ c.started = calls[n].started
    BY <2>1 DEF Call
  <2>3. /\ calls' \in Seq(Call) /\ Len(calls') = n
        /\ calls'[n].fn = "cleared" /\ calls'[n].done /\ calls'[n].started = calls[n].started
        /\ \A j \in 1 .. n : j # n => calls'[j] = calls[j]
    <3>1. calls' = [calls EXCEPT ![n] = c]
      OBVIOUS
    <3> HIDE <1>2 DEF c
    <3>2. /\ calls' \in Seq(Call) /\ Len(calls') = Len(calls)
          /\ \A j \in 1 .. Len(calls) : calls'[j] = IF j = n THEN c ELSE calls[j]
      BY <2>1, <2>2, <3>1, CallReplaced
    <3> QED BY <2>1, <2>2, <3>2
  <2>4. LegacyTypeOK'
    BY <2>3 DEF LegacyTypeOK
  <2>5. begun < n /\ running \notin Steps \cup {"ran"}
    BY <2>1 DEF Protocol, LegacyTypeOK, Steps
  <2>6. Protocol'
    BY <2>1, <2>3, <2>5 DEF Protocol, LegacyTypeOK, Steps
  <2>7. ~Executed /\ ~Executed'
    BY <2>5 DEF Executed
  <2>8. Counting'
    BY <2>7 DEF Counting
  <2> QED BY <2>4, <2>6, <2>8
<1> QED BY <1>1, <1>2

(* send() goes on after a step; nothing on the loop changes. *)
LEMMA ReturnedKeeps ==
  ASSUME LegacyInv, HeadersDone \/ CheckWaits \/ CheckPasses \/ WriteDone \/ EndDone
  PROVE  LegacyInv'
<1> USE DEF LegacyInv
<1>1. /\ at \in Steps /\ place \in {"true", "false"} /\ place' = "calling"
      /\ UNCHANGED <<available, calls, begun, running, seen, path, connected, buffered, written>>
  BY DEF HeadersDone, CheckWaits, CheckPasses, WriteDone, EndDone, Returned, Steps, given, writer
<1>2. /\ at' \in Steps \cup {"done"}
      /\ at' = "done" => completed' \in {Append(completed, FALSE), Append(completed, Succeeded)}
      /\ at' # "done" => completed' = completed
  BY DEF HeadersDone, CheckWaits, CheckPasses, WriteDone, EndDone, Goes, Complete, Steps
<1>3. completed = <<>> /\ path # "none"
  BY <1>1 DEF Counting, Steps
<1>4. remaining' \in Nat
  <2>1. remaining \in Nat /\ (at = "write" => remaining > 0)
    BY DEF LegacyTypeOK, Counting
  <2>2. CASE HeadersDone \/ CheckWaits \/ CheckPasses \/ EndDone
    BY <2>1, <2>2 DEF HeadersDone, CheckWaits, CheckPasses, EndDone
  <2>3. CASE WriteDone
    BY <2>1, <2>3 DEF WriteDone, Returned
  <2> QED BY <2>2, <2>3
<1>5. LegacyTypeOK'
  <2>1. Succeeded \in BOOLEAN
    BY DEF Succeeded
  <2>2. completed' \in Seq(BOOLEAN)
    <3>1. completed \in Seq(BOOLEAN)
      BY DEF LegacyTypeOK
    <3>2. Append(completed, FALSE) \in Seq(BOOLEAN) /\ Append(completed, Succeeded) \in Seq(BOOLEAN)
      BY <2>1, <3>1
    <3> QED BY <1>2, <3>1, <3>2
  <2> QED BY <1>1, <1>2, <1>4, <2>2 DEF LegacyTypeOK, Steps
<1>6. Protocol'
  BY <1>1 DEF Protocol, LegacyTypeOK, Steps
<1>7. ~Executed'
  BY <1>1 DEF Executed
<1>8. Counting'
  <2>1. path' \in {"none", "stream"} => written' + remaining' = SendLen
    <3>1. CASE at # "write"
      BY <1>1, <3>1 DEF Executed, Counting, HeadersDone, CheckWaits, CheckPasses, EndDone,
                        WriteDone, Returned, LegacyTypeOK
    <3>2. CASE at = "write"
      <4>1. WriteDone /\ remaining > 0
        BY <3>2 DEF HeadersDone, CheckWaits, CheckPasses, EndDone, Returned, Counting
      <4>2. CASE place = "true" /\ seen.ret = 0
        <5>1. Executed /\ seen.connected /\ remaining' = remaining - 1
          BY <3>2, <4>1, <4>2 DEF Executed, Counting, WriteDone
        <5> QED BY <1>1, <4>1, <4>2, <5>1, LegacyConstants DEF Counting, LegacyTypeOK
      <4>3. CASE ~(place = "true" /\ seen.ret = 0)
        <5>1. ~(Executed /\ seen.ret = 0) /\ remaining' = remaining
          BY <1>1, <4>1, <4>3 DEF Executed, WriteDone
        <5> QED BY <1>1, <5>1 DEF Counting
      <4> QED BY <4>2, <4>3
    <3> QED BY <3>1, <3>2
  <2>2. at' \in {"begin", "headers", "check", "write"} => remaining' > 0
    <3>1. at # "end" => remaining \in Nat /\ remaining > 0
      BY <1>1 DEF Counting, LegacyTypeOK, Steps
    <3>2. CASE HeadersDone \/ CheckWaits \/ CheckPasses
      BY <3>1, <3>2 DEF HeadersDone, CheckWaits, CheckPasses, Returned
    <3>3. CASE WriteDone
      BY <3>1, <3>3 DEF WriteDone, Goes, Returned
    <3>4. CASE EndDone
      BY <3>4 DEF EndDone, Complete
    <3> QED BY <3>2, <3>3, <3>4
  <2>3. path' = "stream" /\ completed' = <<TRUE>> => remaining' = 0
    <3>1. CASE at' # "done"
      BY <1>2, <1>3, <3>1, NoResult
    <3>2. CASE EndDone
      <4>1. Succeeded \in BOOLEAN /\ completed' = Append(<<>>, Succeeded)
        BY <1>3, <3>2 DEF EndDone, Complete, Succeeded
      <4>2. completed' = <<TRUE>> => Succeeded
        BY <4>1, FirstResult
      <4> QED BY <3>2, <4>2 DEF EndDone, Succeeded
    <3>3. CASE at' = "done" /\ ~EndDone
      <4>1. completed' = Append(<<>>, FALSE)
        BY <1>3, <3>3 DEF HeadersDone, CheckWaits, CheckPasses, WriteDone, Goes, Complete
      <4> QED BY <4>1, FirstResult
    <3> QED BY <3>1, <3>2, <3>3
  <2>4. path = "stream"
    BY <1>1 DEF Counting
  <2> QED BY <1>1, <1>2, <1>3, <1>7, <2>1, <2>2, <2>3, <2>4 DEF Counting, Steps
<1> QED BY <1>5, <1>6, <1>8

(* The task's end and the connection touch neither the calls nor the count. *)
LEMMA AroundKeeps ==
  ASSUME LegacyInv, TaskEnds \/ Drain \/ PeerCloses \/ UNCHANGED vars
  PROVE  LegacyInv'
<1>1. /\ connected' \in BOOLEAN /\ buffered' \in Nat
      /\ UNCHANGED <<available, at, place, calls, begun, running, seen, remaining, path,
                     completed, written>>
  <2> USE DEF vars, given, sender, writer, LegacyInv, LegacyTypeOK
  <2>1. CASE TaskEnds
    BY <2>1 DEF TaskEnds
  <2>2. CASE Drain
    BY <2>2 DEF Drain
  <2>3. CASE PeerCloses
    BY <2>3 DEF PeerCloses
  <2>4. CASE UNCHANGED vars
    BY <2>4
  <2> QED BY <2>1, <2>2, <2>3, <2>4
<1>2. LegacyTypeOK'
  BY <1>1 DEF LegacyInv, LegacyTypeOK
<1>3. Protocol'
  BY <1>1 DEF LegacyInv, Protocol
<1>4. Counting'
  BY <1>1 DEF LegacyInv, Counting, Executed, Mine
<1> QED BY <1>2, <1>3, <1>4 DEF LegacyInv

(* Every step keeps the inductive invariant. *)
LEMMA NextKeeps == LegacyInv /\ [Next]_vars => LegacyInv'
<1> SUFFICES ASSUME LegacyInv, [Next]_vars PROVE LegacyInv'
  OBVIOUS
<1>0. available \in Nat /\ SendLen \in Nat /\ Whole \in BOOLEAN
  BY LegacyConstants DEF LegacyInv, LegacyTypeOK, Whole
<1>1. CASE SendSmall
  <2>1. CASE Begin("range", Whole, IF Whole THEN SendLen ELSE 0)
    BY <1>0, <2>1, BeginKeeps
  <2>2. CASE Begin("served", TRUE, available)
    BY <1>0, <2>2, BeginKeeps
  <2> QED BY <1>1, <2>1, <2>2 DEF SendSmall
<1>2. CASE SendWithoutWriter
  BY <1>0, <1>2, BeginKeeps DEF SendWithoutWriter
<1>3. CASE SendRefused
  BY <1>3, BeginKeeps DEF SendRefused
<1>4. CASE SendAccel
  BY <1>4, BeginKeeps DEF SendAccel
<1>5. CASE SendStream
  <2> USE <1>5 DEF SendStream, LegacyInv, given, writer
  <2>1. LegacyTypeOK'
    BY DEF LegacyTypeOK, Steps
  <2>2. Protocol'
    BY DEF Protocol, Steps
  <2>3. Counting'
    <3>1. ~Executed /\ ~Executed' /\ path = "none" /\ completed = <<>>
      BY DEF Executed, Counting
    <3>2. written + remaining = SendLen
      BY <3>1 DEF Counting
    <3>3. remaining > 0
      BY DEF Counting
    <3> QED BY <3>1, <3>2, <3>3, NoResult DEF Counting, Steps
  <2> QED BY <2>1, <2>2, <2>3
<1>6. CASE CallFails \/ CallDirectly \/ Post
  BY <1>6, CallKeeps
<1>7. CASE WaitDone \/ WaitTimeout
  BY <1>7, WaitKeeps
<1>8. CASE HeadersDone \/ CheckWaits \/ CheckPasses \/ WriteDone \/ EndDone
  BY <1>8, ReturnedKeeps
<1>9. CASE LoopBegin \/ LoopRun \/ LoopReport
  BY <1>9, LoopKeeps
<1>10. CASE TaskEnds \/ Drain \/ PeerCloses \/ UNCHANGED vars
  BY <1>10, AroundKeeps
<1> QED
  BY <1>1, <1>2, <1>3, <1>4, <1>5, <1>6, <1>7, <1>8, <1>9, <1>10
  DEF Next, SendNext, LoopFinishes

(* The inductive invariant holds throughout. *)
LEMMA LegacyInvHolds == Spec => []LegacyInv
BY InitHolds, NextKeeps, PTL DEF Spec

-----------------------------------------------------------------------------
(* runOnWriterLoopSync never returns while the loop runs its step: the loop *)
(* is at a step only while that step's caller waits for it, for every       *)
(* length, threshold and time limit.                                        *)
THEOREM StepsAreWaitedFor == Spec => []StepOnlyWhileWaited
<1>1. LegacyInv => StepOnlyWhileWaited
  BY DEF LegacyInv, LegacyTypeOK, Protocol, StepOnlyWhileWaited, Steps
<1> QED BY <1>1, LegacyInvHolds, PTL

(* LegacyTransfer::send reports success after a checked or streamed         *)
(* delivery only when the whole range was handed to the response.           *)
THEOREM LegacySuccessIsWhole == Spec => []SuccessIsWhole
<1>1. LegacyInv => SuccessIsWhole
  <2> SUFFICES ASSUME LegacyInv, completed = <<TRUE>>, path = "stream"
               PROVE  written = SendLen
    BY DEF SuccessIsWhole, LegacyInv, Counting
  <2>1. at = "done"
    BY NoResult DEF LegacyInv, Counting
  <2>2. remaining = 0 /\ written + remaining = SendLen
    BY <2>1 DEF LegacyInv, Counting, Executed
  <2> QED BY <2>2 DEF LegacyInv, LegacyTypeOK
<1> QED BY <1>1, LegacyInvHolds, PTL

=============================================================================
