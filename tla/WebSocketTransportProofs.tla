----------------------- MODULE WebSocketTransportProofs -----------------------
(***************************************************************************)
(* Proofs about WebSocketTransport for any URLs and any number of calls,   *)
(* disconnects and waits.                                                  *)
(***************************************************************************)
EXTENDS WebSocketTransport, SequenceTheorems, TLAPS

Ids == 1 .. MaxCalls

(* The types of libhv's part, as sets of records.  Only an answer carries   *)
(* the number of a request; onopen is a callback of two steps.              *)
Channels ==
  [to : Targets \cup {NoTarget}, st : {"closed", "connecting", "up"}, inbox : Seq(Ids)]

Callbacks ==
  {NoCallback} \cup [kind : {"up", "opened", "down"}, id : {0}]
               \cup [kind : {"message"}, id : Ids]

HvPart == client \in BOOLEAN /\ chan \in Channels /\ cb \in Callbacks /\ oldCb \in Callbacks

(* Where a call has not sent, and where it waits for an answer. *)
Before == {"create", "check", "open", "wait", "waiting", "connected", "send"}
Awaiting == {"receive", "rxwait", "rxwoken"}
Places == {"idle"} \cup Before \cup Awaiting

(* A request without a body has number 0 and is never sent. *)
CallPart ==
  /\ pc \in [Callers -> Places]
  /\ reqId \in [Callers -> 0 .. MaxCalls] /\ answer \in [Callers -> 0 .. MaxCalls]
  /\ reqUrl \in [Callers -> Targets \cup {NoTarget}]
  /\ polls \in [Callers -> 0 .. MaxPolls]
  /\ \A c \in Callers : /\ pc[c] \in Before => reqUrl[c] \in Targets
                        /\ pc[c] = "send" => reqId[c] \in Ids

RestPart ==
  /\ m_connected \in BOOLEAN /\ m_connectFailed \in BOOLEAN
  /\ m_currentUrl \in Targets \cup {NoTarget}
  /\ m_messageQueue \in Seq(Ids)
  /\ clientMutex \in Callers \cup {Nobody}
  /\ dPc \in {"idle", "clear", "destroy"}
  /\ calls \in 0 .. MaxCalls /\ disconnects \in 0 .. MaxDisconnects
  /\ crashed \in BOOLEAN /\ givenUp \in BOOLEAN

WsTypes == HvPart /\ CallPart /\ RestPart

(* From the connection on. *)
Connecting == {"wait", "waiting", "connected", "send"}

(* A channel that is not closed leads where m_currentUrl says, except while *)
(* the caller is replacing it, and from then on where the request wants to  *)
(* go.                                                                      *)
Routed ==
  \A c \in Callers :
    /\ pc[c] # "open" /\ m_currentUrl # NoTarget => chan.st = "closed" \/ chan.to = m_currentUrl
    /\ pc[c] = "open" => m_currentUrl \in {reqUrl[c], NoTarget}
    /\ pc[c] \in Connecting => chan.st = "closed" \/ chan.to = reqUrl[c]

(* The answers that are on their way: in the channel, in a callback or in   *)
(* the message queue.                                                       *)
Carried(callback) == IF callback.kind = "message" THEN 1 ELSE 0
InFlight == Len(chan.inbox) + Len(m_messageQueue) + Carried(cb) + Carried(oldCb)

(* Every answer on its way is one to request id. *)
OnlyAnswers(id) ==
  /\ \A i \in 1 .. Len(chan.inbox) : chan.inbox[i] = id
  /\ \A i \in 1 .. Len(m_messageQueue) : m_messageQueue[i] = id
  /\ cb.kind = "message" => cb.id = id
  /\ oldCb.kind = "message" => oldCb.id = id

(* As long as nothing was given up, the only answer on its way is the one   *)
(* that the caller waits for.                                               *)
Matched ==
  ~givenUp => \A c \in Callers :
    /\ pc[c] \notin Awaiting => InFlight = 0
    /\ pc[c] \in Awaiting => InFlight <= 1 /\ OnlyAnswers(reqId[c])
    /\ pc[c] = "idle" => answer[c] \in {0, reqId[c]}

-----------------------------------------------------------------------------
(* What a channel and a callback can be. *)
LEMMA HvValues ==
  /\ NoChannel \in Channels /\ NoChannel.to = NoTarget /\ NoChannel.st = "closed"
  /\ NoChannel.inbox = <<>>
  /\ NoCallback \in Callbacks /\ NoCallback.kind = "none" /\ NoCallback.id = 0
  /\ \A t \in Targets : [to |-> t, st |-> "connecting", inbox |-> <<>>] \in Channels
  /\ \A k \in {"up", "opened", "down"} : [kind |-> k, id |-> 0] \in Callbacks
  /\ \A i \in Ids : [kind |-> "message", id |-> i] \in Callbacks
  /\ \A b \in Callbacks : b # NoCallback => b.kind \in {"up", "opened", "down", "message"}
  /\ \A b \in Callbacks : b.kind = "message" => b.id \in Ids
<1>1. /\ NoChannel \in Channels /\ NoChannel.to = NoTarget /\ NoChannel.st = "closed"
      /\ NoChannel.inbox = <<>>
  BY DEF NoChannel, Channels
<1>2. NoCallback \in Callbacks /\ NoCallback.kind = "none" /\ NoCallback.id = 0
  BY DEF NoCallback, Callbacks
<1>3. \A t \in Targets : [to |-> t, st |-> "connecting", inbox |-> <<>>] \in Channels
  BY DEF Channels
<1>4. \A k \in {"up", "opened", "down"} : [kind |-> k, id |-> 0] \in Callbacks
  BY DEF Callbacks
<1>5. \A i \in Ids : [kind |-> "message", id |-> i] \in Callbacks
  BY DEF Callbacks
<1>6. \A b \in Callbacks : b # NoCallback => b.kind \in {"up", "opened", "down", "message"}
  BY DEF Callbacks
<1>7. \A b \in Callbacks : b.kind = "message" => b.id \in Ids
  BY <1>2 DEF Callbacks
<1> QED BY <1>1, <1>2, <1>3, <1>4, <1>5, <1>6, <1>7

(* What is left of a callback when it has run is a callback, and carries no *)
(* answer: onopen goes on to its second step, the others are over.          *)
LEMMA AfterValues ==
  \A b \in Callbacks : After(b) \in Callbacks /\ After(b).kind # "message"
<1> SUFFICES ASSUME NEW b \in Callbacks
             PROVE  After(b) \in Callbacks /\ After(b).kind # "message"
  OBVIOUS
<1>1. CASE b.kind = "up" /\ client
  <2>1. b \in [kind : {"up", "opened", "down"}, id : {0}]
    BY <1>1, HvValues DEF Callbacks
  <2>2. [b EXCEPT !.kind = "opened"] = [kind |-> "opened", id |-> 0]
    BY <2>1
  <2> QED BY <1>1, <2>2, HvValues DEF After
<1>2. CASE ~(b.kind = "up" /\ client)
  BY <1>2, HvValues DEF After
<1> QED BY <1>1, <1>2

(* The refined types imply the type invariant. *)
LEMMA TypesSuffice == WsTypes => TypeOK
<1> SUFFICES ASSUME WsTypes PROVE TypeOK
  OBVIOUS
<1>1. HvTypeOK
  <2>1. Ids \subseteq Nat
    BY WebSocketAssumption DEF Ids
  <2>2. chan.inbox \in Seq(Ids) /\ chan.to \in Targets \cup {NoTarget}
        /\ chan.st \in {"closed", "connecting", "up"}
    BY DEF WsTypes, HvPart, Channels
  <2>3. chan.inbox \in Seq(Nat)
    BY <2>1, <2>2, SeqMonotonic
  <2>4. \A b \in Callbacks : b.kind \in {"none", "up", "opened", "down", "message"} /\ b.id \in Nat
    <3>1. NoCallback.kind = "none" /\ NoCallback.id = 0
      BY DEF NoCallback
    <3>2. ASSUME NEW b \in [kind : {"up", "opened", "down"}, id : {0}]
          PROVE  b.kind \in {"up", "opened", "down"} /\ b.id \in Nat
      OBVIOUS
    <3>3. ASSUME NEW b \in [kind : {"message"}, id : Ids]
          PROVE  b.kind = "message" /\ b.id \in Nat
      BY <2>1
    <3> QED BY <3>1, <3>2, <3>3 DEF Callbacks
  <2> QED BY <2>2, <2>3, <2>4 DEF WsTypes, HvPart, HvTypeOK
<1>2. m_messageQueue \in Seq(1 .. MaxCalls)
  BY DEF WsTypes, RestPart, Ids
<1> QED BY <1>1, <1>2 DEF WsTypes, CallPart, RestPart, TypeOK, Places, Before, Awaiting

(* The constructor's state. *)
LEMMA InitTypes == Init => WsTypes
<1> SUFFICES ASSUME Init PROVE WsTypes
  OBVIOUS
<1>1. HvPart
  BY HvValues DEF Init, HvInit, HvPart
<1>2. CallPart
  BY WebSocketAssumption DEF Init, CallPart, Places, Before, Awaiting
<1>3. RestPart
  <2>1. m_messageQueue \in Seq(Ids) /\ calls \in 0 .. MaxCalls /\ disconnects \in 0 .. MaxDisconnects
    BY WebSocketAssumption DEF Init
  <2> QED BY <2>1, Zenon DEF Init, RestPart
<1> QED BY <1>1, <1>2, <1>3 DEF WsTypes

(* What the steps of a call do to its own variables. *)
LEMMA GotoTypes ==
  ASSUME CallPart, NEW c \in Callers, NEW at \in Places,
         pc' = [pc EXCEPT ![c] = at], UNCHANGED <<reqId, reqUrl>>,
         at \in Before => pc[c] \in Before, at = "send" => reqId[c] \in Ids,
         polls' \in [Callers -> 0 .. MaxPolls], answer' \in [Callers -> 0 .. MaxCalls]
  PROVE  CallPart'
BY DEF CallPart

(* The steps of a call that leave libhv alone. *)
PlainStep(c) ==
  \/ Check(c) \/ WaitTest(c) \/ WaitFails(c) \/ WaitAgain(c) \/ Connected(c)
  \/ Receive(c) \/ ReceiveTimeout(c) \/ ReceiveWoken(c) \/ SpuriousWakeup(c)

(* They move the call within its phase, to the next one or back to idle. *)
LEMMA PlainMoves ==
  ASSUME WsTypes, NEW c \in Callers, PlainStep(c)
  PROVE  CallPart'
<1> USE DEF WsTypes
<1>0. /\ pc \in [Callers -> Places]
      /\ polls \in [Callers -> 0 .. MaxPolls] /\ answer \in [Callers -> 0 .. MaxCalls]
      /\ 0 \in 0 .. MaxCalls /\ reqId \in [Callers -> 0 .. MaxCalls]
  BY WebSocketAssumption DEF CallPart
<1>1. /\ UNCHANGED <<reqId, reqUrl>> /\ polls' \in [Callers -> 0 .. MaxPolls]
      /\ answer' \in [Callers -> 0 .. MaxCalls]
      /\ \E at \in Places : /\ pc' = [pc EXCEPT ![c] = at]
                            /\ at \in Before => pc[c] \in Before
                            /\ at = "send" => reqId[c] \in Ids
  <2> USE <1>0 DEF At, Goto, Fail, call, Places, Before, Awaiting
  <2>1. CASE Check(c)
    BY <2>1 DEF Check
  <2>2. CASE WaitTest(c) \/ WaitFails(c)
    BY <2>2 DEF WaitTest, WaitFails
  <2>3. CASE WaitAgain(c)
    <3>1. polls[c] + 1 \in 0 .. MaxPolls
      BY <2>3, WebSocketAssumption DEF WaitAgain
    <3>2. polls' \in [Callers -> 0 .. MaxPolls]
      BY <2>3, <3>1 DEF WaitAgain
    <3> QED BY <2>3, <3>2 DEF WaitAgain
  <2>4. CASE Connected(c)
    <3>1. reqId[c] # 0 => reqId[c] \in Ids
      BY WebSocketAssumption DEF Ids
    <3> QED BY <2>4, <3>1 DEF Connected
  <2>5. CASE PopMessage(c) /\ UNCHANGED <<reqId, reqUrl, polls>>
    <3>1. Head(m_messageQueue) \in 0 .. MaxCalls
      BY <2>5, HeadTailProperties, WebSocketAssumption DEF PopMessage, RestPart, Ids
    <3> QED BY <2>5, <3>1 DEF PopMessage
  <2>6. CASE (Receive(c) \/ ReceiveWoken(c)) /\ ~PopMessage(c)
    BY <2>6 DEF Receive, ReceiveWoken
  <2>7. CASE ReceiveTimeout(c) \/ SpuriousWakeup(c)
    BY <2>7 DEF ReceiveTimeout, SpuriousWakeup
  <2>8. (Receive(c) \/ ReceiveWoken(c)) => UNCHANGED <<reqId, reqUrl, polls>>
    BY DEF Receive, ReceiveWoken
  <2> QED BY <2>1, <2>2, <2>3, <2>4, <2>5, <2>6, <2>7, <2>8 DEF PlainStep
<1> QED BY <1>1, GotoTypes

(* They keep the types. *)
LEMMA PlainTypes ==
  ASSUME WsTypes, NEW c \in Callers, PlainStep(c)
  PROVE  WsTypes'
<1> USE DEF WsTypes
<1>1. CallPart'
  BY PlainMoves
<1>2. UNCHANGED hv
  BY DEF PlainStep, Check, WaitTest, WaitFails, WaitAgain, Connected, Receive, ReceiveTimeout,
     ReceiveWoken, SpuriousWakeup
<1>3. HvPart'
  BY <1>2 DEF hv, HvPart
<1>4. RestPart'
  <2>1. m_messageQueue' \in Seq(Ids)
    <3>1. m_messageQueue' \in {m_messageQueue, <<>>} \/ (m_messageQueue # <<>> /\ m_messageQueue' = Tail(m_messageQueue))
      BY DEF PlainStep, Check, WaitTest, WaitFails, WaitAgain, Connected, Receive, ReceiveTimeout,
         ReceiveWoken, SpuriousWakeup, PopMessage
    <3>2. m_messageQueue \in Seq(Ids) /\ <<>> \in Seq(Ids)
      BY DEF RestPart
    <3>3. m_messageQueue # <<>> => Tail(m_messageQueue) \in Seq(Ids)
      BY <3>2, HeadTailProperties
    <3> QED BY <3>1, <3>2, <3>3
  <2>2. m_connected' \in BOOLEAN /\ m_connectFailed' \in BOOLEAN /\ givenUp' \in BOOLEAN
    <3> USE DEF RestPart, HvPart, flags, Goto, Fail
    <3>1. CASE Check(c) \/ WaitTest(c) \/ WaitFails(c)
      BY <3>1 DEF Check, WaitTest, WaitFails
    <3>2. CASE WaitAgain(c) \/ Connected(c)
      BY <3>2 DEF WaitAgain, Connected
    <3>3. CASE Receive(c) \/ ReceiveTimeout(c) \/ ReceiveWoken(c) \/ SpuriousWakeup(c)
      BY <3>3 DEF Receive, ReceiveTimeout, ReceiveWoken, SpuriousWakeup, PopMessage
    <3> QED BY <3>1, <3>2, <3>3 DEF PlainStep
  <2>3. /\ m_currentUrl' \in {m_currentUrl, reqUrl[c]} /\ clientMutex' \in {clientMutex, c}
        /\ UNCHANGED <<dPc, calls, disconnects, crashed>>
    BY DEF PlainStep, Check, WaitTest, WaitFails, WaitAgain, Connected, Receive, ReceiveTimeout,
       ReceiveWoken, SpuriousWakeup, bounds
  <2>4. reqUrl[c] \in Targets \cup {NoTarget}
    BY DEF CallPart
  <2> QED BY <2>1, <2>2, <2>3, <2>4 DEF RestPart
<1> QED BY <1>1, <1>3, <1>4

(* The steps that use libhv's client, and the beginning of a call. *)
LEMMA ClientTypes ==
  ASSUME WsTypes, NEW c \in Callers,
         \/ \E url \in Targets, body \in BOOLEAN : Call(c, url, body)
         \/ CallReceive(c) \/ Create(c) \/ Open(c) \/ Send(c)
  PROVE  WsTypes'
<1> USE DEF WsTypes
<1>0. /\ pc \in [Callers -> Places]
      /\ polls \in [Callers -> 0 .. MaxPolls] /\ answer \in [Callers -> 0 .. MaxCalls]
      /\ 0 \in 0 .. MaxCalls /\ 0 \in 0 .. MaxPolls /\ calls \in 0 .. MaxCalls
  BY WebSocketAssumption DEF CallPart, RestPart
<1>1. ASSUME NEW url \in Targets, NEW body \in BOOLEAN, Call(c, url, body)
      PROVE  WsTypes'
  <2>1. calls + 1 \in 0 .. MaxCalls
    BY <1>0, <1>1, WebSocketAssumption DEF Call
  <2>2. HvPart'
    BY <1>1 DEF Call, HvPart, hv
  <2>3. CallPart'
    BY <1>0, <1>1, <2>1 DEF Call, Goto, CallPart, Places, Before
  <2>4. RestPart'
    BY <1>1, <2>1 DEF Call, Goto, RestPart, flags
  <2> QED BY <2>2, <2>3, <2>4
<1>2. CASE CallReceive(c)
  <2>1. calls + 1 \in 0 .. MaxCalls
    BY <1>0, <1>2, WebSocketAssumption DEF CallReceive
  <2>2. HvPart'
    BY <1>2 DEF CallReceive, HvPart, hv
  <2>3. CallPart'
    BY <1>0, <1>2 DEF CallReceive, Goto, CallPart, Places, Before, Awaiting
  <2>4. RestPart'
    BY <1>2, <2>1 DEF CallReceive, Goto, RestPart, flags
  <2> QED BY <2>2, <2>3, <2>4
<1>3. CASE Create(c)
  <2>1. HvPart'
    BY <1>3, HvValues DEF Create, HvPart
  <2>2. CallPart'
    BY <1>0, <1>3, GotoTypes DEF Create, Goto, At, call, Places, Before
  <2>3. RestPart'
    BY <1>3 DEF Create, Goto, RestPart, flags, bounds
  <2> QED BY <2>1, <2>2, <2>3
<1>4. CASE Open(c)
  <2>0. pc[c] = "open" /\ reqUrl[c] \in Targets
    BY <1>4 DEF Open, At, CallPart, Before
  <2>1. HvPart'
    <3>1. chan.inbox \in Seq(Ids) /\ <<>> \in Seq(Ids)
      BY DEF HvPart, Channels
    <3>2. [chan EXCEPT !.st = "closed", !.inbox = <<>>] \in Channels
      BY <3>1 DEF HvPart, Channels
    <3> QED BY <1>4, <2>0, <3>2, HvValues DEF Open, OpenChannel, HvPart
  <2>2. CallPart'
    <3>1. UNCHANGED <<reqId, reqUrl, polls>> /\ answer' \in [Callers -> 0 .. MaxCalls]
      BY <1>0, <1>4 DEF Open, Goto, Fail, call
    <3>2. PICK at \in {"wait", "idle"} : pc' = [pc EXCEPT ![c] = at]
      BY <1>4 DEF Open, Goto, Fail
    <3> QED BY <1>0, <2>0, <3>1, <3>2, GotoTypes DEF Places, Before
  <2>3. RestPart'
    BY <1>4, <2>0 DEF Open, Goto, Fail, RestPart, flags, bounds
  <2> QED BY <2>1, <2>2, <2>3
<1>5. CASE Send(c)
  <2>0. pc[c] = "send" /\ reqId[c] \in Ids
    BY <1>5 DEF Send, At, CallPart
  <2>1. HvPart'
    <3>1. Append(chan.inbox, reqId[c]) \in Seq(Ids)
      BY <2>0, AppendProperties DEF HvPart, Channels
    <3>2. [chan EXCEPT !.inbox = Append(chan.inbox, reqId[c])] \in Channels
      BY <3>1 DEF HvPart, Channels
    <3> QED BY <1>5, <3>2 DEF Send, Accepted, Refused, HvPart
  <2>2. CallPart'
    <3>1. UNCHANGED <<reqId, reqUrl, polls>> /\ answer' \in [Callers -> 0 .. MaxCalls]
      BY <1>0, <1>5 DEF Send, Accepted, Refused, Goto, Fail, call
    <3>2. PICK at \in {"receive", "idle"} : pc' = [pc EXCEPT ![c] = at]
      BY <1>5 DEF Send, Accepted, Refused, Goto, Fail
    <3> QED BY <1>0, <3>1, <3>2, GotoTypes DEF Places, Before, Awaiting
  <2>3. RestPart'
    BY <1>5 DEF Send, Accepted, Refused, Goto, Fail, HvPart, RestPart, bounds
  <2> QED BY <2>1, <2>2, <2>3
<1> QED BY <1>1, <1>2, <1>3, <1>4, <1>5

(* disconnect(), the channel and the callbacks. *)
LEMMA OtherTypes ==
  ASSUME WsTypes,
         \/ DisconnectBegin \/ DisconnectClear \/ DisconnectReturn
         \/ ChannelStep \/ Callback \/ OldCallback
  PROVE  WsTypes'
<1> USE DEF WsTypes
<1>1. CASE DisconnectBegin
  <2>1. HvPart'
    BY <1>1, HvValues DEF DisconnectBegin, MoveOut, HvPart, hv
  <2>2. CallPart'
    BY <1>1 DEF DisconnectBegin, CallPart, call
  <2>3. RestPart'
    <3>1. disconnects' \in 0 .. MaxDisconnects
      BY <1>1, WebSocketAssumption DEF DisconnectBegin, RestPart
    <3> QED BY <1>1, <3>1 DEF DisconnectBegin, RestPart
  <2> QED BY <2>1, <2>2, <2>3
<1>2. CASE DisconnectClear
  <2>1. HvPart'
    BY <1>2 DEF DisconnectClear, HvPart, hv
  <2>2. CallPart'
    BY <1>2 DEF DisconnectClear, CallPart, call, Places, Before, Awaiting
  <2>3. RestPart'
    BY <1>2 DEF DisconnectClear, RestPart, flags, bounds
  <2> QED BY <2>1, <2>2, <2>3
<1>3. CASE DisconnectReturn
  <2>1. HvPart' /\ CallPart'
    BY <1>3 DEF DisconnectReturn, HvPart, CallPart, hv, call
  <2>2. RestPart'
    BY <1>3 DEF DisconnectReturn, RestPart, flags, bounds
  <2> QED BY <2>1, <2>2
<1>4. CASE ChannelStep
  <2>1. HvPart'
    <3>1. chan.inbox \in Seq(Ids) /\ <<>> \in Seq(Ids)
      BY DEF HvPart, Channels
    <3>2. CASE ChannelUp
      BY <3>2, HvValues DEF ChannelUp, HvPart, Channels
    <3>3. CASE ChannelDown
      BY <3>1, <3>3, HvValues DEF ChannelDown, HvPart, Channels
    <3>4. CASE ChannelMessage
      <4>1. Head(chan.inbox) \in Ids /\ Tail(chan.inbox) \in Seq(Ids)
        BY <3>1, <3>4, HeadTailProperties DEF ChannelMessage
      <4> QED BY <3>4, <4>1, HvValues DEF ChannelMessage, HvPart, Channels
    <3> QED BY <1>4, <3>2, <3>3, <3>4 DEF ChannelStep
  <2>2. CallPart' /\ RestPart'
    BY <1>4 DEF ChannelStep, CallPart, RestPart, call, flags, bounds
  <2> QED BY <2>1, <2>2
<1>5. ASSUME NEW b \in Callbacks, RunCallback(b), cb' \in Callbacks, oldCb' \in Callbacks
      PROVE  WsTypes'
  <2>1. HvPart'
    BY <1>5 DEF RunCallback, HvPart
  <2>2. UNCHANGED <<m_currentUrl, clientMutex, reqId, reqUrl, polls, answer, dPc, calls,
                    disconnects, givenUp>>
    BY <1>5 DEF RunCallback, call, bounds
  <2>3. b.kind \in {"up", "opened", "down", "message"} /\ (b.kind = "message" => b.id \in Ids)
    BY <1>5, HvValues DEF RunCallback
  <2>4. CASE b.kind # "message"
    <3>1. UNCHANGED <<m_messageQueue, pc>>
      BY <1>5, <2>3, <2>4 DEF RunCallback
    <3>2. m_connected' \in BOOLEAN /\ m_connectFailed' \in BOOLEAN /\ crashed' \in BOOLEAN
      <4>1. CASE b.kind = "up"
        BY <1>5, <4>1 DEF RunCallback, RestPart
      <4>2. CASE b.kind = "opened"
        BY <1>5, <4>2 DEF RunCallback, RestPart, HvPart, flags
      <4>3. CASE b.kind = "down"
        BY <1>5, <4>3 DEF RunCallback, RestPart
      <4> QED BY <2>3, <2>4, <4>1, <4>2, <4>3
    <3> QED BY <2>1, <2>2, <3>1, <3>2 DEF CallPart, RestPart
  <2>5. CASE b.kind = "message"
    <3>1. /\ m_messageQueue' = Append(m_messageQueue, b.id) /\ UNCHANGED flags /\ UNCHANGED crashed
          /\ UNCHANGED pc \/ \E c \in Receivers : pc' = [pc EXCEPT ![c] = "rxwoken"]
      BY <1>5, <2>5 DEF RunCallback
    <3>2. m_messageQueue' \in Seq(Ids)
      BY <2>3, <2>5, <3>1, AppendProperties DEF RestPart
    <3>3. RestPart'
      BY <2>2, <3>1, <3>2 DEF RestPart, flags
    <3>4. CallPart'
      BY <2>2, <3>1 DEF CallPart, Receivers, Places, Before, Awaiting
    <3> QED BY <2>1, <3>3, <3>4
  <2> QED BY <2>4, <2>5
<1>6. CASE Callback \/ OldCallback
  BY <1>5, <1>6, AfterValues DEF Callback, OldCallback, HvPart
<1> QED BY <1>1, <1>2, <1>3, <1>4, <1>6

(* Every step keeps the types. *)
LEMMA NextTypes ==
  ASSUME WsTypes, [Next]_vars
  PROVE  WsTypes'
<1>1. CASE UNCHANGED vars
  BY <1>1 DEF vars, hv, flags, call, bounds, WsTypes, HvPart, CallPart, RestPart
<1>2. CASE Next
  BY <1>2, PlainTypes, ClientTypes, OtherTypes DEF Next, SendRequest, PlainStep
<1> QED BY <1>1, <1>2

(* Every variable has its type, for any number of callers. *)
THEOREM WebSocketTypes == Spec => []TypeOK
<1>1. Init => WsTypes
  BY InitTypes
<1>2. WsTypes /\ [Next]_vars => WsTypes'
  BY NextTypes
<1> QED BY <1>1, <1>2, TypesSuffice, PTL DEF Spec

-----------------------------------------------------------------------------
(* One thread uses the transport, and another may disconnect it.  Requests  *)
(* of several threads would have to share the connection and the queue.     *)

(* Only Check moves m_currentUrl, with the mutex held until Open; the       *)
(* connection is kept only if m_currentUrl is already what the call wants.  *)
LEMMA PlainRouted ==
  ASSUME NEW c, Callers = {c}, WsTypes, Routed, PlainStep(c)
  PROVE  Routed'
<1>0. pc \in [Callers -> Places] /\ c \in Callers /\ (pc[c] = "check" => reqUrl[c] \in Targets)
  BY DEF WsTypes, CallPart, Before
<1>1. UNCHANGED <<chan, reqUrl>>
  BY DEF PlainStep, Check, WaitTest, WaitFails, WaitAgain, Connected, Receive, ReceiveTimeout,
     ReceiveWoken, SpuriousWakeup, hv, call
<1> USE <1>0 DEF At, Goto, Fail
<1>2. CASE Check(c)
  BY <1>1, <1>2, WebSocketAssumption DEF Check, NeedReconnect, Routed, Connecting
<1>3. ASSUME UNCHANGED m_currentUrl, pc[c] # "open", pc'[c] # "open",
             pc'[c] \in Connecting => pc[c] \in Connecting
      PROVE  Routed'
  BY <1>1, <1>3 DEF Routed
<1>4. CASE WaitTest(c) \/ WaitFails(c) \/ WaitAgain(c) \/ Connected(c)
  BY <1>3, <1>4 DEF WaitTest, WaitFails, WaitAgain, Connected, Connecting
<1>5. CASE Receive(c) \/ ReceiveTimeout(c) \/ ReceiveWoken(c) \/ SpuriousWakeup(c)
  BY <1>3, <1>5 DEF Receive, ReceiveTimeout, ReceiveWoken, SpuriousWakeup, PopMessage, Connecting
<1> QED BY <1>2, <1>4, <1>5 DEF PlainStep

(* Creating, opening and using the client. *)
LEMMA ClientRouted ==
  ASSUME NEW c, Callers = {c}, WsTypes, Routed,
         \/ \E url \in Targets, body \in BOOLEAN : Call(c, url, body)
         \/ CallReceive(c) \/ Create(c) \/ Open(c) \/ Send(c)
  PROVE  Routed'
<1>0. pc \in [Callers -> Places] /\ c \in Callers /\ chan \in Channels
  BY DEF WsTypes, CallPart, HvPart
<1> USE <1>0 DEF At, Goto, Fail
<1>1. ASSUME NEW url, NEW body, Call(c, url, body)
      PROVE  Routed'
  BY <1>1 DEF Call, Routed, Connecting, hv
<1>2. CASE CallReceive(c)
  BY <1>2 DEF CallReceive, Routed, Connecting, hv
<1>3. CASE Create(c)
  BY <1>3, HvValues DEF Create, Routed, Connecting
<1>4. CASE Open(c)
  <2>0. /\ pc[c] = "open" /\ UNCHANGED <<reqUrl, m_currentUrl>>
        /\ pc'[c] # "open"
    BY <1>4 DEF Open, call
  <2>1. chan'.to = reqUrl[c] \/ chan'.st = "closed"
    <3>1. [chan EXCEPT !.st = "closed", !.inbox = <<>>].st = "closed"
      BY DEF Channels
    <3>2. OpenChannel(reqUrl[c]) => chan'.to = reqUrl[c]
      BY DEF OpenChannel
    <3> QED BY <1>4, <3>1, <3>2 DEF Open
  <2> QED BY <2>0, <2>1 DEF Routed
<1>5. CASE Send(c)
  <2>1. chan'.to = chan.to /\ chan'.st = chan.st
    BY <1>5 DEF Send, Accepted, Refused, Channels
  <2>2. /\ UNCHANGED <<reqUrl, m_currentUrl>> /\ pc[c] = "send" /\ pc'[c] \in {"receive", "idle"}
    BY <1>5 DEF Send, Accepted, Refused, call
  <2> QED BY <2>1, <2>2 DEF Routed, Connecting
<1> QED BY <1>1, <1>2, <1>3, <1>4, <1>5

(* Callbacks wake receivers, and move no call otherwise. *)
LEMMA CallbackMoves ==
  ASSUME WsTypes, Callback \/ OldCallback
  PROVE  /\ UNCHANGED <<chan, reqId, reqUrl, m_currentUrl, givenUp, answer>>
         /\ UNCHANGED pc \/ \E d \in Receivers : pc' = [pc EXCEPT ![d] = "rxwoken"]
<1>1. PICK b \in {cb, oldCb} : RunCallback(b)
  BY DEF Callback, OldCallback
<1>2. b.kind \in {"up", "opened", "down", "message"}
  BY <1>1, HvValues DEF RunCallback, WsTypes, HvPart
<1>3. UNCHANGED pc \/ \E d \in Receivers : pc' = [pc EXCEPT ![d] = "rxwoken"]
  BY <1>1, <1>2 DEF RunCallback
<1> QED BY <1>1, <1>3 DEF RunCallback, call

(* disconnect(), the channel and the callbacks. *)
LEMMA OtherRouted ==
  ASSUME NEW c, Callers = {c}, WsTypes, Routed,
         \/ DisconnectBegin \/ DisconnectClear \/ DisconnectReturn
         \/ ChannelStep \/ Callback \/ OldCallback
  PROVE  Routed'
<1>0. pc \in [Callers -> Places] /\ chan \in Channels
  BY DEF WsTypes, CallPart, HvPart
<1>1. UNCHANGED reqUrl /\ m_currentUrl' \in {m_currentUrl, NoTarget}
  BY DEF DisconnectBegin, DisconnectClear, DisconnectReturn, ChannelStep, Callback, OldCallback,
         RunCallback, call
<1>2. \/ UNCHANGED chan \/ chan'.st = "closed"
      \/ chan'.to = chan.to /\ chan.st # "closed"
  <2>1. CASE ChannelStep
    BY <1>0, <2>1 DEF ChannelStep, ChannelUp, ChannelDown, ChannelMessage, Channels
  <2>2. CASE ~ChannelStep
    BY <2>2, HvValues DEF DisconnectBegin, MoveOut, DisconnectClear, DisconnectReturn, Callback, OldCallback,
                RunCallback, hv
  <2> QED BY <2>1, <2>2
<1>3. (pc'[c] \in Connecting => pc[c] \in Connecting) /\ (pc'[c] = "open" <=> pc[c] = "open")
  <2>1. CASE Callback \/ OldCallback
    BY <1>0, <2>1, CallbackMoves DEF Receivers, Connecting
  <2>2. CASE DisconnectClear
    BY <2>2 DEF DisconnectClear, Connecting
  <2>3. CASE DisconnectBegin \/ DisconnectReturn \/ ChannelStep
    BY <2>3 DEF DisconnectBegin, DisconnectReturn, ChannelStep
  <2> QED BY <2>1, <2>2, <2>3
<1> QED BY <1>1, <1>2, <1>3 DEF Routed

(* Every step keeps the routing. *)
LEMMA NextRouted ==
  ASSUME NEW c, Callers = {c}, WsTypes, Routed, [Next]_vars
  PROVE  Routed'
<1>1. CASE UNCHANGED vars
  BY <1>1 DEF vars, hv, call, Routed
<1>2. CASE Next
  BY <1>2, PlainRouted, ClientRouted, OtherRouted DEF Next, SendRequest, PlainStep
<1> QED BY <1>1, <1>2

(* The request leaves in Send only. *)
LEMMA OnlySendSends ==
  ASSUME NEW c, Callers = {c}, WsTypes, [Next]_vars, pc[c] = "send", pc'[c] = "receive"
  PROVE  Send(c)
<1>0. pc \in [Callers -> Places] /\ c \in Callers
  BY DEF WsTypes, CallPart
<1>1. CASE \/ \E url \in Targets, body \in BOOLEAN : Call(c, url, body)
           \/ CallReceive(c) \/ Create(c) \/ Open(c) \/ PlainStep(c)
  BY <1>1 DEF PlainStep, Check, WaitTest, WaitFails, WaitAgain, Connected, Receive, ReceiveTimeout,
     ReceiveWoken, SpuriousWakeup, Call, CallReceive, Create, Open, At
<1>2. CASE DisconnectBegin \/ DisconnectClear \/ DisconnectReturn \/ ChannelStep \/ UNCHANGED vars
  BY <1>0, <1>2 DEF DisconnectBegin, DisconnectClear, DisconnectReturn, ChannelStep, vars
<1>3. CASE Callback \/ OldCallback
  BY <1>0, <1>3, CallbackMoves DEF Receivers
<1> QED BY <1>1, <1>2, <1>3 DEF Next, SendRequest, PlainStep

(* sendRequest: a message goes to the peer of its own URL, although         *)
(* m_connected may still speak of the connection that was replaced, and     *)
(* although a message may be handed over while the channel is connecting.   *)
THEOREM MessagesGoHome ==
  ASSUME NEW caller, Callers = {caller}
  PROVE  Spec => SentToOwnUrl
<1>1. Init => WsTypes /\ Routed
  BY InitTypes, HvValues DEF Init, HvInit, Routed
<1>2. WsTypes /\ Routed /\ [Next]_vars => (WsTypes /\ Routed)'
  BY NextTypes, NextRouted
<1>3. WsTypes /\ Routed /\ [Next]_vars
        => [\A c \in Callers : pc[c] = "send" /\ pc'[c] = "receive" => chan.to = reqUrl[c]]_vars
  <2> SUFFICES ASSUME WsTypes, Routed, [Next]_vars, pc[caller] = "send", pc'[caller] = "receive"
               PROVE  chan.to = reqUrl[caller]
    OBVIOUS
  <2>1. Send(caller)
    BY OnlySendSends
  <2>2. chan.st # "closed"
    <3>1. pc \in [Callers -> Places]
      BY DEF WsTypes, CallPart
    <3> QED BY <2>1, <3>1 DEF Send, Accepted, Refused, Fail
  <2> QED BY <2>2 DEF Routed, Connecting
<1> QED BY <1>1, <1>2, <1>3, PTL DEF Spec, SentToOwnUrl

-----------------------------------------------------------------------------
(* The parts of the count. *)
LEMMA Counts ==
  /\ WsTypes => /\ Len(chan.inbox) \in Nat /\ Len(m_messageQueue) \in Nat
                 /\ Carried(cb) \in {0, 1} /\ Carried(oldCb) \in {0, 1}
  /\ WsTypes' => /\ Len(chan'.inbox) \in Nat /\ Len(m_messageQueue') \in Nat
                  /\ Carried(cb') \in {0, 1} /\ Carried(oldCb') \in {0, 1}
  /\ Carried(NoCallback) = 0 /\ Len(<<>>) = 0
<1>1. WsTypes => chan.inbox \in Seq(Ids) /\ m_messageQueue \in Seq(Ids)
  BY DEF WsTypes, HvPart, RestPart, Channels
<1>2. WsTypes' => chan'.inbox \in Seq(Ids) /\ m_messageQueue' \in Seq(Ids)
  BY DEF WsTypes, HvPart, RestPart, Channels
<1>3. \A b : Carried(b) \in {0, 1}
  BY DEF Carried
<1>4. Carried(NoCallback) = 0
  BY HvValues DEF Carried
<1> QED BY <1>1, <1>2, <1>3, <1>4, LenProperties

(* Nothing is on its way, or what is answers request 0, which is none. *)
LEMMA NothingInFlight ==
  ASSUME WsTypes
  PROVE  /\ InFlight = 0 => \A id : OnlyAnswers(id)
         /\ OnlyAnswers(0) => InFlight = 0
<1>0. /\ Len(chan.inbox) \in Nat /\ Len(m_messageQueue) \in Nat
      /\ Carried(cb) \in {0, 1} /\ Carried(oldCb) \in {0, 1}
      /\ chan.inbox \in Seq(Ids) /\ m_messageQueue \in Seq(Ids)
  BY Counts DEF WsTypes, HvPart, RestPart, Channels
<1>1. ASSUME InFlight = 0 PROVE \A id : OnlyAnswers(id)
  <2>1. Len(chan.inbox) = 0 /\ Len(m_messageQueue) = 0 /\ Carried(cb) = 0 /\ Carried(oldCb) = 0
    BY <1>0, <1>1 DEF InFlight
  <2> QED BY <2>1 DEF OnlyAnswers, Carried
<1>2. ASSUME OnlyAnswers(0) PROVE InFlight = 0
  <2>1. 0 \notin Ids
    BY DEF Ids
  <2>2. Len(chan.inbox) = 0
    <3>1. Len(chan.inbox) >= 1 => chan.inbox[1] \in Ids
      BY <1>0, ElementOfSeq
    <3> QED BY <1>0, <1>2, <2>1, <3>1 DEF OnlyAnswers
  <2>3. Len(m_messageQueue) = 0
    <3>1. Len(m_messageQueue) >= 1 => m_messageQueue[1] \in Ids
      BY <1>0, ElementOfSeq
    <3> QED BY <1>0, <1>2, <2>1, <3>1 DEF OnlyAnswers
  <2>4. Carried(cb) = 0 /\ Carried(oldCb) = 0
    BY <1>2, <2>1, HvValues DEF OnlyAnswers, Carried, WsTypes, HvPart
  <2> QED BY <2>2, <2>3, <2>4 DEF InFlight
<1> QED BY <1>1, <1>2

(* No answer comes to those on their way; some may be dropped. *)
Fewer == InFlight' <= InFlight /\ \A id : OnlyAnswers(id) => OnlyAnswers(id)'

(* The call stays in its phase, or ends without having sent. *)
LEMMA StillMatched ==
  ASSUME NEW c, Callers = {c}, WsTypes, WsTypes', Matched, Fewer,
         UNCHANGED <<reqId, givenUp>>, pc'[c] \in Awaiting <=> pc[c] \in Awaiting,
         pc'[c] = "idle" => answer'[c] = 0 \/ (pc[c] = "idle" /\ answer'[c] = answer[c])
  PROVE  Matched'
<1>1. InFlight \in Nat /\ InFlight' \in Nat
  <2>1. \A i, q \in Nat, x, y \in {0, 1} : i + q + x + y \in Nat
    OBVIOUS
  <2>2. InFlight' = Len(chan'.inbox) + Len(m_messageQueue') + Carried(cb') + Carried(oldCb')
    BY DEF InFlight, Carried
  <2> QED BY <2>1, <2>2, Counts, Zenon DEF InFlight
<1>2. CASE givenUp
  BY <1>2 DEF Matched
<1>3. CASE ~givenUp
  <2>1. pc'[c] \notin Awaiting => InFlight' = 0
    BY <1>1, <1>3 DEF Matched, Fewer
  <2>2. pc'[c] \in Awaiting => InFlight' <= 1 /\ OnlyAnswers(reqId[c])'
    <3>1. ASSUME pc'[c] \in Awaiting PROVE InFlight' <= 1
      BY <1>1, <1>3, <3>1 DEF Matched, Fewer
    <3>2. ASSUME pc'[c] \in Awaiting PROVE OnlyAnswers(reqId[c])'
      <4>1. OnlyAnswers(reqId[c])
        BY <1>3, <3>2 DEF Matched
      <4>2. \A id : OnlyAnswers(id) => OnlyAnswers(id)'
        BY DEF Fewer
      <4>3. PICK n : n = reqId[c]
        OBVIOUS
      <4>4. OnlyAnswers(n)'
        BY <4>1, <4>2, <4>3
      <4>5. n = reqId'[c]
        BY <4>3
      <4> QED BY <4>4, <4>5 DEF OnlyAnswers
    <3> QED BY <3>1, <3>2
  <2>3. pc'[c] = "idle" => answer'[c] \in {0, reqId'[c]}
    BY <1>3 DEF Matched
  <2> QED BY <2>1, <2>2, <2>3 DEF Matched
<1> QED BY <1>2, <1>3

(* Nothing is added anywhere, and a callback at most changes hands. *)
LEMMA FewerAnswers ==
  ASSUME WsTypes, WsTypes',
         chan'.inbox \in {chan.inbox, <<>>}, m_messageQueue' \in {m_messageQueue, <<>>},
         \/ UNCHANGED <<cb, oldCb>>
         \/ cb'.kind # "message" /\ oldCb' \in {oldCb, cb}
         \/ oldCb'.kind # "message" /\ cb' = cb
  PROVE  Fewer
<1>1. Len(m_messageQueue') <= Len(m_messageQueue) /\ Len(chan'.inbox) <= Len(chan.inbox)
  BY Counts
<1>2. Carried(cb') + Carried(oldCb') <= Carried(cb) + Carried(oldCb)
  <2>1. CASE UNCHANGED <<cb, oldCb>>
    BY <2>1, Counts DEF Carried
  <2>2. CASE cb'.kind # "message" /\ oldCb' \in {oldCb, cb}
    BY <2>2 DEF Carried
  <2>3. CASE oldCb'.kind # "message" /\ cb' = cb
    BY <2>3 DEF Carried
  <2> QED BY <2>1, <2>2, <2>3
<1>3. InFlight' = Len(chan'.inbox) + Len(m_messageQueue') + Carried(cb') + Carried(oldCb')
  BY DEF InFlight, Carried
<1>4. InFlight' <= InFlight
  BY <1>1, <1>2, <1>3, Counts DEF InFlight
<1>5. ASSUME NEW id, OnlyAnswers(id) PROVE OnlyAnswers(id)'
  <2>1. \A i \in 1 .. Len(chan'.inbox) : chan'.inbox[i] = id
    BY <1>5, Counts DEF OnlyAnswers
  <2>2. \A i \in 1 .. Len(m_messageQueue') : m_messageQueue'[i] = id
    BY <1>5, Counts DEF OnlyAnswers
  <2>3. (cb'.kind = "message" => cb'.id = id) /\ (oldCb'.kind = "message" => oldCb'.id = id)
    BY <1>5 DEF OnlyAnswers
  <2> QED BY <2>1, <2>2, <2>3 DEF OnlyAnswers
<1> QED BY <1>4, <1>5 DEF Fewer

(* A call ends with -1, and says so if its request was sent. *)
LEMMA FailMatched ==
  ASSUME NEW c, Callers = {c}, WsTypes, WsTypes', Matched, pc[c] \in Awaiting,
         Fail(c, reqId[c] # 0), UNCHANGED <<chan, cb, oldCb, m_messageQueue, reqId>>
  PROVE  Matched'
<1>1. CASE givenUp'
  BY <1>1 DEF Matched
<1>2. CASE ~givenUp'
  <2>1. reqId[c] = 0 /\ ~givenUp
    BY <1>2 DEF Fail
  <2>2. InFlight = 0
    BY <2>1, NothingInFlight DEF Matched
  <2>3. InFlight' = 0
    BY <2>2 DEF InFlight, Carried
  <2>4. pc'[c] = "idle" /\ answer'[c] = 0
    BY DEF Fail, WsTypes, CallPart
  <2> QED BY <2>3, <2>4 DEF Matched, Awaiting
<1> QED BY <1>1, <1>2

(* A call takes the packet it was waiting for. *)
LEMMA PopMatched ==
  ASSUME NEW c, Callers = {c}, WsTypes, WsTypes', Matched, pc[c] \in Awaiting,
         PopMessage(c), UNCHANGED <<chan, cb, oldCb, reqId>>
  PROVE  Matched'
<1>1. CASE givenUp
  BY <1>1 DEF PopMessage, Matched
<1>2. CASE ~givenUp
  <2>1. InFlight <= 1 /\ OnlyAnswers(reqId[c])
    BY <1>2 DEF Matched
  <2>2. /\ m_messageQueue \in Seq(Ids) /\ m_messageQueue # <<>> /\ Len(m_messageQueue) \in Nat \ {0}
        /\ Len(m_messageQueue') = Len(m_messageQueue) - 1 /\ Head(m_messageQueue) = m_messageQueue[1]
    BY EmptySeq, HeadTailProperties DEF PopMessage, WsTypes, RestPart
  <2>3. Head(m_messageQueue) = reqId[c]
    BY <2>1, <2>2 DEF OnlyAnswers
  <2>4. InFlight' = 0
    <3>1. InFlight' = Len(chan.inbox) + Len(m_messageQueue') + Carried(cb) + Carried(oldCb)
      BY DEF InFlight, Carried
    <3> QED BY <2>1, <2>2, <3>1, Counts DEF InFlight
  <2>5. pc'[c] = "idle" /\ answer'[c] = reqId[c]
    BY <2>3 DEF PopMessage, WsTypes, CallPart
  <2> QED BY <2>4, <2>5 DEF Matched, Awaiting
<1> QED BY <1>1, <1>2

(* Nothing is on its way, and the call is not over: whatever it waits for   *)
(* now, it cannot be given the answer to something else.                    *)
LEMMA EmptyMatched ==
  ASSUME NEW c, Callers = {c}, WsTypes, Matched, pc[c] \notin Awaiting, pc'[c] # "idle",
         UNCHANGED <<chan, cb, oldCb, m_messageQueue, givenUp>>
  PROVE  Matched'
<1>1. CASE givenUp
  BY <1>1 DEF Matched
<1>2. CASE ~givenUp
  <2>1. InFlight = 0
    BY <1>2 DEF Matched
  <2>2. OnlyAnswers(reqId'[c])
    BY <2>1, NothingInFlight
  <2>3. InFlight' = 0 /\ OnlyAnswers(reqId[c])'
    BY <2>1, <2>2 DEF InFlight, Carried, OnlyAnswers
  <2> QED BY <2>3 DEF Matched
<1> QED BY <1>1, <1>2

(* The steps of sendRequest that leave libhv's part alone. *)
LEMMA PlainMatched ==
  ASSUME NEW c, Callers = {c}, WsTypes, WsTypes', Matched, PlainStep(c)
  PROVE  Matched'
<1>0. pc \in [Callers -> Places] /\ c \in Callers /\ givenUp \in BOOLEAN
      /\ answer \in [Callers -> 0 .. MaxCalls]
  BY DEF WsTypes, CallPart, RestPart
<1>1. UNCHANGED <<chan, cb, oldCb, reqId>>
  BY DEF PlainStep, Check, WaitTest, WaitFails, WaitAgain, Connected, Receive, ReceiveTimeout,
     ReceiveWoken, SpuriousWakeup, hv, call
<1>2. CASE PopMessage(c) /\ pc[c] \in Awaiting
  BY <1>1, <1>2, PopMatched
<1>3. CASE Fail(c, reqId[c] # 0) /\ pc[c] \in Awaiting /\ UNCHANGED m_messageQueue
  BY <1>1, <1>3, FailMatched
<1>4. CASE /\ UNCHANGED givenUp /\ m_messageQueue' \in {m_messageQueue, <<>>}
           /\ pc[c] # "idle" /\ (pc'[c] \in Awaiting <=> pc[c] \in Awaiting)
           /\ pc'[c] = "idle" => answer'[c] = 0
  BY <1>1, <1>4, FewerAnswers, StillMatched
<1>5. ASSUME Fail(c, FALSE)
      PROVE  UNCHANGED givenUp /\ pc'[c] = "idle" /\ answer'[c] = 0
  BY <1>0, <1>5 DEF Fail
<1> USE <1>0 DEF At, Goto
<1>6. CASE Check(c)
  BY <1>4, <1>5, <1>6 DEF Check, Awaiting
<1>7. CASE WaitTest(c) \/ WaitFails(c) \/ WaitAgain(c)
  BY <1>4, <1>5, <1>7 DEF WaitTest, WaitFails, WaitAgain, Awaiting
<1>8. CASE Connected(c)
  <2>1. CASE m_connected
    BY <1>1, <1>8, <2>1, EmptyMatched DEF Connected, Awaiting
  <2>2. CASE ~m_connected
    BY <1>4, <1>5, <1>8, <2>2 DEF Connected, Awaiting
  <2> QED BY <2>1, <2>2
<1>9. CASE Receive(c) \/ ReceiveTimeout(c)
  BY <1>2, <1>3, <1>4, <1>9 DEF Receive, ReceiveTimeout, Awaiting
<1>10. CASE ReceiveWoken(c) \/ SpuriousWakeup(c)
  BY <1>2, <1>3, <1>4, <1>10 DEF ReceiveWoken, SpuriousWakeup, Awaiting
<1> QED BY <1>6, <1>7, <1>8, <1>9, <1>10 DEF PlainStep

(* The beginning of a call, and the steps that use libhv's client. *)
LEMMA ClientMatched ==
  ASSUME NEW c, Callers = {c}, WsTypes, WsTypes', Matched,
         \/ \E url \in Targets, body \in BOOLEAN : Call(c, url, body)
         \/ CallReceive(c) \/ Create(c) \/ Open(c) \/ Send(c)
  PROVE  Matched'
<1>0. pc \in [Callers -> Places] /\ c \in Callers /\ givenUp \in BOOLEAN
      /\ answer \in [Callers -> 0 .. MaxCalls] /\ reqId \in [Callers -> 0 .. MaxCalls]
  BY DEF WsTypes, CallPart, RestPart
<1>a. UNCHANGED oldCb /\ UNCHANGED cb
  BY DEF Call, CallReceive, Create, Open, Send, hv
<1>1. ASSUME NEW url \in Targets, NEW body \in BOOLEAN, Call(c, url, body)
      PROVE  Matched'
  BY <1>0, <1>1, EmptyMatched DEF Call, At, Goto, hv, Awaiting
<1>2. CASE CallReceive(c)
  BY <1>0, <1>2, EmptyMatched DEF CallReceive, At, Goto, hv, Awaiting
<1>3. CASE Create(c)
  <2>1. /\ UNCHANGED <<givenUp, reqId, m_messageQueue>> /\ chan' \in {chan, NoChannel}
        /\ pc'[c] \notin Awaiting /\ pc[c] \notin Awaiting /\ pc'[c] # "idle"
    BY <1>0, <1>3 DEF Create, At, Goto, Awaiting, call
  <2> QED BY <1>a, <2>1, HvValues, FewerAnswers, StillMatched
<1>4. CASE Open(c)
  <2>1. chan'.inbox = <<>>
    <3>1. chan \in Channels
      BY DEF WsTypes, HvPart
    <3>2. [chan EXCEPT !.st = "closed", !.inbox = <<>>].inbox = <<>>
      BY <3>1 DEF Channels
    <3>3. OpenChannel(reqUrl[c]) => chan'.inbox = <<>>
      BY DEF OpenChannel
    <3> QED BY <1>4, <3>2, <3>3 DEF Open
  <2>2. /\ UNCHANGED <<givenUp, reqId, m_messageQueue>>
        /\ pc'[c] \notin Awaiting /\ pc[c] \notin Awaiting /\ (pc'[c] = "idle" => answer'[c] = 0)
    BY <1>0, <1>4 DEF Open, At, Goto, Fail, Awaiting, call
  <2> QED BY <1>a, <2>1, <2>2, FewerAnswers, StillMatched
<1>5. CASE Send(c)
  <2>0. pc[c] = "send" /\ UNCHANGED <<m_messageQueue, reqId>>
    BY <1>5 DEF Send, At, call
  <2>1. CASE Accepted(c) /\ chan.st = "up"
    <3>1. /\ chan' = [chan EXCEPT !.inbox = Append(@, reqId[c])] /\ pc'[c] = "receive"
          /\ UNCHANGED givenUp
      BY <1>0, <2>1 DEF Accepted, Goto
    <3>2. CASE givenUp
      BY <3>1, <3>2 DEF Matched
    <3>3. CASE ~givenUp
      <4>0. chan \in Channels /\ chan.inbox \in Seq(Ids) /\ reqId[c] \in Ids
        BY <1>0, <2>0 DEF WsTypes, HvPart, CallPart, Channels
      <4>1. InFlight = 0
        BY <2>0, <3>3 DEF Matched, Awaiting
      <4>2. OnlyAnswers(reqId[c]) /\ Len(chan.inbox) = 0
        BY <4>1, Counts, NothingInFlight DEF InFlight
      <4>3. chan'.inbox = Append(chan.inbox, reqId[c])
        BY <3>1, <4>0 DEF Channels
      <4>4. Len(chan'.inbox) = 1 /\ chan'.inbox[1] = reqId[c]
        BY <4>0, <4>2, <4>3, AppendProperties
      <4>5. InFlight' = Len(chan'.inbox) + Len(m_messageQueue) + Carried(cb) + Carried(oldCb)
        BY <1>a, <2>0 DEF InFlight, Carried
      <4>6. InFlight' = 1
        BY <4>1, <4>2, <4>4, <4>5, Counts DEF InFlight
      <4>7. OnlyAnswers(reqId[c])'
        BY <1>a, <2>0, <4>2, <4>4 DEF OnlyAnswers
      <4> QED BY <3>1, <4>6, <4>7 DEF Matched, Awaiting
    <3> QED BY <3>2, <3>3
  <2>2. CASE Accepted(c) /\ chan.st # "up"
    BY <1>0, <1>a, <2>0, <2>2, EmptyMatched DEF Accepted, Goto, Awaiting
  <2>3. CASE Refused(c)
    <3>1. /\ UNCHANGED <<chan, givenUp>>
          /\ pc'[c] \notin Awaiting /\ pc[c] \notin Awaiting /\ answer'[c] = 0
      BY <1>0, <2>0, <2>3 DEF Refused, Fail, Awaiting
    <3> QED BY <1>a, <2>0, <3>1, FewerAnswers, StillMatched
  <2> QED BY <1>5, <2>1, <2>2, <2>3 DEF Send
<1> QED BY <1>1, <1>2, <1>3, <1>4, <1>5

(* A callback, once made, puts the answer it carries into the queue. *)
LEMMA DeliveryFewer ==
  ASSUME WsTypes, WsTypes', NEW b, b.kind = "message", b \in {cb, oldCb},
         m_messageQueue' = Append(m_messageQueue, b.id), UNCHANGED chan,
         \/ b = cb /\ cb'.kind # "message" /\ UNCHANGED oldCb
         \/ b = oldCb /\ oldCb'.kind # "message" /\ UNCHANGED cb
  PROVE  Fewer
<1>0. m_messageQueue \in Seq(Ids) /\ b.id \in Ids
  BY HvValues DEF WsTypes, HvPart, RestPart
<1>1. /\ Len(m_messageQueue') = Len(m_messageQueue) + 1
      /\ \A i \in 1 .. Len(m_messageQueue) : m_messageQueue'[i] = m_messageQueue[i]
      /\ m_messageQueue'[Len(m_messageQueue) + 1] = b.id
  BY <1>0, AppendProperties
<1>2. Carried(cb') + Carried(oldCb') + 1 = Carried(cb) + Carried(oldCb)
  BY DEF Carried
<1>3. InFlight' = Len(chan.inbox) + Len(m_messageQueue') + Carried(cb') + Carried(oldCb')
  BY DEF InFlight, Carried
<1>4. InFlight' <= InFlight
  <2>1. InFlight = Len(chan.inbox) + Len(m_messageQueue) + Carried(cb) + Carried(oldCb)
    BY DEF InFlight
  <2>2. /\ Len(chan.inbox) \in Nat /\ Len(m_messageQueue) \in Nat
        /\ {Carried(cb), Carried(oldCb), Carried(cb'), Carried(oldCb')} \subseteq {0, 1}
    BY Counts
  <2>3. \A i, q, x, y, u, v \in Nat : x + y + 1 = u + v => i + (q + 1) + x + y <= i + q + u + v
    OBVIOUS
  <2>4. {Carried(cb), Carried(oldCb), Carried(cb'), Carried(oldCb')} \subseteq Nat
    BY <2>2
  <2>5. Len(chan.inbox) + (Len(m_messageQueue) + 1) + Carried(cb') + Carried(oldCb')
          <= Len(chan.inbox) + Len(m_messageQueue) + Carried(cb) + Carried(oldCb)
    BY <1>2, <2>2, <2>3, <2>4, Zenon
  <2> QED BY <1>1, <1>3, <2>1, <2>5, Zenon
<1>5. ASSUME NEW id, OnlyAnswers(id) PROVE OnlyAnswers(id)'
  <2>1. b.id = id
    BY <1>5 DEF OnlyAnswers
  <2>2. \A i \in 1 .. Len(m_messageQueue') : m_messageQueue'[i] = id
    <3>1. \A i \in 1 .. Len(m_messageQueue) : m_messageQueue[i] = id
      BY <1>5 DEF OnlyAnswers
    <3>2. ASSUME NEW i \in 1 .. Len(m_messageQueue')
          PROVE  i \in 1 .. Len(m_messageQueue) \/ i = Len(m_messageQueue) + 1
      BY <1>1, Counts
    <3> QED BY <1>1, <2>1, <3>1, <3>2
  <2>3. (cb'.kind = "message" => cb'.id = id) /\ (oldCb'.kind = "message" => oldCb'.id = id)
    BY <1>5 DEF OnlyAnswers
  <2> QED BY <1>5, <2>2, <2>3 DEF OnlyAnswers
<1> QED BY <1>4, <1>5 DEF Fewer

(* The loop thread takes the next answer from the channel. *)
LEMMA MessageFewer ==
  ASSUME WsTypes, WsTypes', ChannelMessage, UNCHANGED m_messageQueue
  PROVE  Fewer
<1>0. /\ chan \in Channels /\ chan.inbox \in Seq(Ids) /\ chan.inbox # <<>>
      /\ chan'.inbox = Tail(chan.inbox) /\ cb' = [kind |-> "message", id |-> Head(chan.inbox)]
      /\ cb = NoCallback /\ UNCHANGED oldCb
  BY DEF WsTypes, HvPart, Channels, ChannelMessage, LoopFree
<1>1. /\ Len(chan'.inbox) = Len(chan.inbox) - 1 /\ Len(chan.inbox) >= 1
      /\ Head(chan.inbox) = chan.inbox[1]
      /\ \A i \in 1 .. Len(chan'.inbox) : chan'.inbox[i] = chan.inbox[i + 1]
  <2>1. Len(chan.inbox) \in Nat /\ Len(chan.inbox) # 0
    BY <1>0, EmptySeq, LenProperties
  <2> QED BY <1>0, <2>1, HeadTailProperties
<1>2. Carried(cb) = 0 /\ Carried(cb') = 1
  BY <1>0, HvValues DEF Carried
<1>3. InFlight' = Len(chan'.inbox) + Len(m_messageQueue) + Carried(cb') + Carried(oldCb)
  BY <1>0 DEF InFlight, Carried
<1>4. InFlight' <= InFlight
  BY <1>1, <1>2, <1>3, Counts DEF InFlight
<1>5. ASSUME NEW id, OnlyAnswers(id) PROVE OnlyAnswers(id)'
  <2>1. \A i \in 1 .. Len(chan'.inbox) : chan'.inbox[i] = id
    <3>1. \A i \in 1 .. Len(chan'.inbox) : i + 1 \in 1 .. Len(chan.inbox)
      BY <1>1, Counts
    <3> QED BY <1>1, <1>5, <3>1 DEF OnlyAnswers
  <2>2. cb'.id = id
    BY <1>0, <1>1, <1>5, Counts DEF OnlyAnswers
  <2> QED BY <1>0, <1>5, <2>1, <2>2 DEF OnlyAnswers
<1> QED BY <1>4, <1>5 DEF Fewer

(* disconnect(), the channel and the callbacks. *)
LEMMA OtherMatched ==
  ASSUME NEW c, Callers = {c}, WsTypes, WsTypes', Matched,
         \/ DisconnectBegin \/ DisconnectClear \/ DisconnectReturn
         \/ ChannelStep \/ Callback \/ OldCallback
  PROVE  Matched'
<1>0. pc \in [Callers -> Places] /\ chan \in Channels
  BY DEF WsTypes, CallPart, HvPart
<1>1. UNCHANGED <<reqId, givenUp, answer>>
  BY DEF DisconnectBegin, DisconnectClear, DisconnectReturn, ChannelStep, Callback, OldCallback,
         RunCallback, call
<1>2. CASE Fewer /\ (pc'[c] = pc[c] \/ {pc[c], pc'[c]} \subseteq Awaiting)
  BY <1>1, <1>2, StillMatched DEF Awaiting
<1>3. CASE DisconnectBegin
  <2>1. chan' \in {chan, NoChannel} /\ UNCHANGED <<pc, m_messageQueue>>
        /\ (UNCHANGED <<cb, oldCb>> \/ (cb' = NoCallback /\ oldCb' = cb))
    BY <1>3 DEF DisconnectBegin, MoveOut, hv
  <2> QED BY <1>2, <2>1, FewerAnswers, HvValues
<1>4. CASE DisconnectClear \/ DisconnectReturn
  <2>1. UNCHANGED <<chan, cb, oldCb>> /\ m_messageQueue' \in {m_messageQueue, <<>>}
        /\ (pc'[c] = pc[c] \/ {pc[c], pc'[c]} \subseteq Awaiting)
    BY <1>0, <1>4 DEF DisconnectClear, DisconnectReturn, hv, Awaiting
  <2> QED BY <1>2, <2>1, FewerAnswers
<1>5. CASE ChannelStep
  <2>1. UNCHANGED <<pc, m_messageQueue>>
    BY <1>5 DEF ChannelStep
  <2>2. CASE ChannelUp \/ ChannelDown
    <3>1. chan'.inbox \in {chan.inbox, <<>>} /\ cb'.kind # "message" /\ UNCHANGED oldCb
      <4>1. CASE ChannelUp
        BY <1>0, <4>1 DEF ChannelUp, Channels
      <4>2. CASE ChannelDown
        BY <1>0, <4>2 DEF ChannelDown, Channels
      <4> QED BY <2>2, <4>1, <4>2
    <3> QED BY <1>2, <2>1, <3>1, FewerAnswers
  <2>3. CASE ChannelMessage
    BY <1>2, <2>1, <2>3, MessageFewer
  <2> QED BY <1>5, <2>2, <2>3 DEF ChannelStep
<1>6. CASE Callback \/ OldCallback
  <2>1. PICK b \in {cb, oldCb} :
          /\ RunCallback(b)
          /\ \/ b = cb /\ cb' = After(cb) /\ UNCHANGED oldCb
             \/ b = oldCb /\ oldCb' = After(oldCb) /\ UNCHANGED cb
    BY <1>6 DEF Callback, OldCallback
  <2>2. \/ b = cb /\ cb'.kind # "message" /\ UNCHANGED oldCb
        \/ b = oldCb /\ oldCb'.kind # "message" /\ UNCHANGED cb
    BY <2>1, AfterValues DEF WsTypes, HvPart
  <2>3. b.kind \in {"up", "opened", "down", "message"} /\ UNCHANGED chan
    BY <2>1, HvValues DEF RunCallback, WsTypes, HvPart
  <2>4. pc'[c] = pc[c] \/ {pc[c], pc'[c]} \subseteq Awaiting
    BY <1>0, <1>6, CallbackMoves DEF Receivers, Awaiting
  <2>5. CASE b.kind = "message"
    <3>1. m_messageQueue' = Append(m_messageQueue, b.id)
      BY <2>1, <2>5 DEF RunCallback
    <3>2. Fewer
      BY <2>1, <2>2, <2>3, <2>5, <3>1, DeliveryFewer
    <3> QED BY <1>2, <2>4, <3>2
  <2>6. CASE b.kind # "message"
    <3>1. UNCHANGED m_messageQueue
      BY <2>1, <2>3, <2>6 DEF RunCallback
    <3> QED BY <1>2, <2>2, <2>3, <2>4, <3>1, FewerAnswers
  <2> QED BY <2>5, <2>6
<1> QED BY <1>3, <1>4, <1>5, <1>6

(* Every step keeps the answers matched. *)
LEMMA NextMatched ==
  ASSUME NEW c, Callers = {c}, WsTypes, Matched, [Next]_vars
  PROVE  Matched'
<1>0. WsTypes'
  BY NextTypes
<1>1. CASE UNCHANGED vars
  BY <1>1 DEF vars, hv, call, Matched, InFlight, Carried, OnlyAnswers
<1>2. CASE Next
  BY <1>0, <1>2, PlainMatched, ClientMatched, OtherMatched DEF Next, SendRequest, PlainStep
<1> QED BY <1>1, <1>2

(* sendRequest and receiveResponse: as long as no request has been given    *)
(* up, what a call returns is the answer to its own request, and a call     *)
(* without a request, or whose message was lost on a channel that was still *)
(* connecting, is not given the answer to an earlier one.                   *)
THEOREM WebSocketAnswersGoHome ==
  ASSUME NEW caller, Callers = {caller}
  PROVE  Spec => []OwnAnswerUnlessGivenUp
<1>1. Init => WsTypes /\ Matched
  <2> SUFFICES ASSUME Init PROVE Matched
    BY InitTypes
  <2>1. chan.inbox = <<>> /\ m_messageQueue = <<>> /\ cb = NoCallback /\ oldCb = NoCallback
    BY HvValues DEF Init, HvInit
  <2>2. InFlight = 0
    BY <2>1, Counts DEF InFlight
  <2>3. pc[caller] = "idle" /\ answer[caller] = 0
    BY DEF Init
  <2> QED BY <2>2, <2>3 DEF Matched, Awaiting
<1>2. WsTypes /\ Matched /\ [Next]_vars => (WsTypes /\ Matched)'
  BY NextTypes, NextMatched
<1>3. Matched => OwnAnswerUnlessGivenUp
  BY DEF Matched, OwnAnswerUnlessGivenUp
<1> QED BY <1>1, <1>2, <1>3, PTL DEF Spec

===============================================================================
