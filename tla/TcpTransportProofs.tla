------------------------- MODULE TcpTransportProofs -------------------------
(***************************************************************************)
(* Proofs about TcpTransport for any hosts and any number of calls,        *)
(* disconnects and waits.                                                  *)
(***************************************************************************)
EXTENDS TcpTransport, SequenceTheorems, TLAPS

Ids == 1 .. MaxCalls

(* The types of libhv's part, as sets of records.  Only an answer carries   *)
(* the number of a request.                                                 *)
Channels ==
  [to : Targets \cup {NoTarget}, st : {"closed", "connecting", "up"}, inbox : Seq(Ids)]

Callbacks ==
  {NoCallback} \cup [kind : {"up", "down"}, id : {0}] \cup [kind : {"message"}, id : Ids]

HvPart == client \in BOOLEAN /\ chan \in Channels /\ cb \in Callbacks /\ oldCb \in Callbacks

(* Where sendRequest has not sent yet, and where it waits for an answer. *)
Before == {"check", "recreate", "close", "reset", "open", "wait", "waiting", "connected", "send"}
After == {"sent", "channel", "receive", "rx", "rxwait", "rxwoken"}

CallPart ==
  /\ pc \in [Callers -> {"idle"} \cup Before \cup After]
  /\ reqId \in [Callers -> 0 .. MaxCalls] /\ answer \in [Callers -> 0 .. MaxCalls]
  /\ reqTo \in [Callers -> Targets \cup {NoTarget}]
  /\ polls \in [Callers -> 0 .. MaxPolls]
  /\ \A c \in Callers : pc[c] \in Before => reqId[c] \in Ids /\ reqTo[c] \in Targets

RestPart ==
  /\ m_connected \in BOOLEAN /\ m_connectFailed \in BOOLEAN
  /\ m_current \in Targets \cup {NoTarget}
  /\ m_packetQueue \in Seq(Ids)
  /\ clientMutex \in Callers \cup {Nobody}
  /\ dPc \in {"idle", "stop", "destroy"} /\ needStop \in BOOLEAN
  /\ calls \in 0 .. MaxCalls /\ disconnects \in 0 .. MaxDisconnects
  /\ crashed \in BOOLEAN /\ givenUp \in BOOLEAN

TcpTypes == HvPart /\ CallPart /\ RestPart

(* The channel leads where m_current says, if both say anything, and from   *)
(* the connection on it leads where the request wants to go, or nowhere.    *)
Routed ==
  /\ m_current # NoTarget => chan.to \in {m_current, NoTarget}
  /\ chan.to = NoTarget => chan.st = "closed"
  /\ \A c \in Callers : pc[c] \in {"wait", "waiting", "connected", "send"} =>
       chan.to \in {reqTo[c], NoTarget}

(* The answers that are on their way: in the channel, in a callback or in   *)
(* the packet queue.                                                        *)
Carried(callback) == IF callback.kind = "message" THEN 1 ELSE 0
InFlight == Len(chan.inbox) + Len(m_packetQueue) + Carried(cb) + Carried(oldCb)

(* Every answer on its way is one to request id. *)
OnlyAnswers(id) ==
  /\ \A i \in 1 .. Len(chan.inbox) : chan.inbox[i] = id
  /\ \A i \in 1 .. Len(m_packetQueue) : m_packetQueue[i] = id
  /\ cb.kind = "message" => cb.id = id
  /\ oldCb.kind = "message" => oldCb.id = id

(* As long as nothing was given up, the only answer on its way is the one   *)
(* that the caller waits for.                                               *)
Matched ==
  ~givenUp => \A c \in Callers :
    /\ pc[c] \notin After => InFlight = 0
    /\ pc[c] \in After => InFlight <= 1 /\ OnlyAnswers(reqId[c])
    /\ pc[c] = "idle" => answer[c] \in {0, reqId[c]}

-----------------------------------------------------------------------------
(* What a channel and a callback can be. *)
LEMMA HvValues ==
  /\ NoChannel \in Channels /\ NoChannel.to = NoTarget /\ NoChannel.st = "closed"
  /\ NoChannel.inbox = <<>>
  /\ NoCallback \in Callbacks /\ NoCallback.kind = "none"
  /\ \A t \in Targets : [to |-> t, st |-> "connecting", inbox |-> <<>>] \in Channels
  /\ \A k \in {"up", "down"} : [kind |-> k, id |-> 0] \in Callbacks
  /\ \A i \in Ids : [kind |-> "message", id |-> i] \in Callbacks
  /\ \A b \in Callbacks : b # NoCallback => b.kind \in {"up", "down", "message"}
  /\ \A b \in Callbacks : b.kind = "message" => b.id \in Ids
<1>1. /\ NoChannel \in Channels /\ NoChannel.to = NoTarget /\ NoChannel.st = "closed"
      /\ NoChannel.inbox = <<>>
  BY DEF NoChannel, Channels
<1>2. NoCallback \in Callbacks /\ NoCallback.kind = "none"
  BY DEF NoCallback, Callbacks
<1>3. \A t \in Targets : [to |-> t, st |-> "connecting", inbox |-> <<>>] \in Channels
  BY DEF Channels
<1>4. \A k \in {"up", "down"} : [kind |-> k, id |-> 0] \in Callbacks
  BY DEF Callbacks
<1>5. \A i \in Ids : [kind |-> "message", id |-> i] \in Callbacks
  BY DEF Callbacks
<1>6. \A b \in Callbacks : b # NoCallback => b.kind \in {"up", "down", "message"}
  BY DEF Callbacks
<1>7. \A b \in Callbacks : b.kind = "message" => b.id \in Ids
  BY <1>2 DEF Callbacks
<1> QED BY <1>1, <1>2, <1>3, <1>4, <1>5, <1>6, <1>7

(* The refined types imply the type invariant. *)
LEMMA TypesSuffice == TcpTypes => TypeOK
<1> SUFFICES ASSUME TcpTypes PROVE TypeOK
  OBVIOUS
<1>1. HvTypeOK
  <2>1. Ids \subseteq Nat
    BY TcpAssumption DEF Ids
  <2>2. chan.inbox \in Seq(Ids) /\ chan.to \in Targets \cup {NoTarget}
        /\ chan.st \in {"closed", "connecting", "up"}
    BY DEF TcpTypes, HvPart, Channels
  <2>3. chan.inbox \in Seq(Nat)
    BY <2>1, <2>2, SeqMonotonic
  <2>4. \A b \in Callbacks : b.kind \in {"none", "up", "opened", "down", "message"} /\ b.id \in Nat
    <3>1. NoCallback.kind = "none" /\ NoCallback.id = 0
      BY DEF NoCallback
    <3>2. ASSUME NEW b \in [kind : {"up", "down"}, id : {0}]
          PROVE  b.kind \in {"up", "down"} /\ b.id \in Nat
      OBVIOUS
    <3>3. ASSUME NEW b \in [kind : {"message"}, id : Ids]
          PROVE  b.kind = "message" /\ b.id \in Nat
      BY <2>1
    <3> QED BY <3>1, <3>2, <3>3 DEF Callbacks
  <2> QED BY <2>2, <2>3, <2>4 DEF TcpTypes, HvPart, HvTypeOK
<1>2. m_packetQueue \in Seq(1 .. MaxCalls)
  BY DEF TcpTypes, RestPart, Ids
<1> QED BY <1>1, <1>2 DEF TcpTypes, CallPart, RestPart, TypeOK, Before, After

(* The constructor's state. *)
LEMMA InitTypes == Init => TcpTypes
<1> SUFFICES ASSUME Init PROVE TcpTypes
  OBVIOUS
<1>1. HvPart
  BY HvValues DEF Init, HvInit, HvPart
<1>2. CallPart
  BY TcpAssumption DEF Init, CallPart, Before, After
<1>3. RestPart
  <2>1. m_packetQueue \in Seq(Ids) /\ calls \in 0 .. MaxCalls /\ disconnects \in 0 .. MaxDisconnects
    BY TcpAssumption DEF Init
  <2> QED BY <2>1, Zenon DEF Init, RestPart
<1> QED BY <1>1, <1>2, <1>3 DEF TcpTypes

(* What the steps of a call do to its own variables. *)
LEMMA GotoTypes ==
  ASSUME CallPart, NEW c \in Callers, NEW at \in {"idle"} \cup Before \cup After,
         pc' = [pc EXCEPT ![c] = at], UNCHANGED <<reqId, reqTo>>,
         at \in Before => pc[c] \in Before,
         polls' \in [Callers -> 0 .. MaxPolls], answer' \in [Callers -> 0 .. MaxCalls]
  PROVE  CallPart'
BY DEF CallPart

(* Receivers are woken, and caller c goes on. *)
LEMMA NotifyTypes ==
  ASSUME CallPart, NEW c \in Callers, NEW at \in {"idle"} \cup Before,
         pc' = NotifyReceivers(c, at), UNCHANGED <<reqId, reqTo, polls>>,
         at \in Before => pc[c] \in Before, answer' \in [Callers -> 0 .. MaxCalls]
  PROVE  CallPart'
<1>1. \A d \in Callers : pc'[d] \in {"idle"} \cup Before \cup After
  BY DEF CallPart, NotifyReceivers, After
<1>2. \A d \in Callers : pc'[d] \in Before => pc[d] \in Before
  BY DEF NotifyReceivers, Before
<1>3. pc' \in [Callers -> {"idle"} \cup Before \cup After]
  BY <1>1 DEF NotifyReceivers
<1> QED BY <1>2, <1>3 DEF CallPart

(* The steps of sendRequest that leave libhv alone. *)
PlainStep(c) ==
  \/ Check(c) \/ ReconnectClose(c) \/ ReconnectReset(c) \/ WaitTest(c) \/ WaitTimeout(c)
  \/ WaitAgain(c) \/ Connected(c) \/ Sent(c) \/ UseChannel(c) \/ Receive(c) \/ ReceiveTest(c)
  \/ ReceiveTimeout(c) \/ ReceiveWoken(c) \/ SpuriousWakeup(c)

(* They move the call within its phase, to the next one or back to idle. *)
LEMMA PlainMoves ==
  ASSUME TcpTypes, NEW c \in Callers, PlainStep(c)
  PROVE  CallPart'
<1> USE DEF TcpTypes
<1>0. /\ pc \in [Callers -> {"idle"} \cup Before \cup After]
      /\ polls \in [Callers -> 0 .. MaxPolls] /\ answer \in [Callers -> 0 .. MaxCalls]
      /\ 0 \in 0 .. MaxCalls
  BY TcpAssumption DEF CallPart
<1>1. CASE ReconnectClose(c) \/ WaitTimeout(c)
  <2>1. PICK at \in {"idle", "reset"} : pc' = NotifyReceivers(c, at) /\ pc[c] \in Before
    BY <1>1 DEF ReconnectClose, WaitTimeout, DisconnectInternal, At, Before
  <2>2. UNCHANGED <<reqId, reqTo, polls>> /\ answer' \in [Callers -> 0 .. MaxCalls]
    BY <1>0, <1>1 DEF ReconnectClose, WaitTimeout, call
  <2> QED BY <2>1, <2>2, NotifyTypes DEF Before
<1>2. ASSUME ~ReconnectClose(c), ~WaitTimeout(c)
      PROVE  /\ UNCHANGED <<reqId, reqTo>> /\ polls' \in [Callers -> 0 .. MaxPolls]
             /\ answer' \in [Callers -> 0 .. MaxCalls]
             /\ \E at \in {"idle"} \cup Before \cup After :
                  pc' = [pc EXCEPT ![c] = at] /\ (at \in Before => pc[c] \in Before)
  <2> USE <1>0 DEF At, Goto, Fail, call, Before, After
  <2>1. CASE Check(c) \/ ReconnectReset(c)
    BY <2>1 DEF Check, ReconnectReset
  <2>2. CASE WaitTest(c) \/ Connected(c)
    BY <2>2 DEF WaitTest, Connected
  <2>3. CASE WaitAgain(c)
    <3>1. polls[c] + 1 \in 0 .. MaxPolls
      BY <2>3, TcpAssumption DEF WaitAgain
    <3>2. polls' \in [Callers -> 0 .. MaxPolls]
      BY <2>3, <3>1 DEF WaitAgain
    <3> QED BY <2>3, <3>2 DEF WaitAgain
  <2>4. CASE Sent(c) \/ UseChannel(c) \/ Receive(c)
    BY <2>4 DEF Sent, UseChannel, Receive
  <2>5. CASE PopPacket(c) /\ UNCHANGED <<reqId, reqTo, polls>>
    <3>1. Head(m_packetQueue) \in 0 .. MaxCalls
      BY <2>5, HeadTailProperties, TcpAssumption DEF PopPacket, RestPart, Ids
    <3> QED BY <2>5, <3>1 DEF PopPacket, Fail
  <2>6. CASE (ReceiveTest(c) \/ ReceiveWoken(c)) /\ ~PopPacket(c)
    BY <2>6 DEF ReceiveTest, ReceiveWoken
  <2>7. CASE ReceiveTimeout(c) \/ SpuriousWakeup(c)
    BY <2>7 DEF ReceiveTimeout, SpuriousWakeup
  <2>8. (ReceiveTest(c) \/ ReceiveWoken(c)) => UNCHANGED <<reqId, reqTo, polls>>
    BY DEF ReceiveTest, ReceiveWoken
  <2> QED BY <1>2, <2>1, <2>2, <2>3, <2>4, <2>5, <2>6, <2>7, <2>8 DEF PlainStep
<1>3. CASE ~ReconnectClose(c) /\ ~WaitTimeout(c)
  BY <1>2, <1>3, GotoTypes
<1> QED BY <1>1, <1>3

(* They keep the types. *)
LEMMA PlainTypes ==
  ASSUME TcpTypes, NEW c \in Callers, PlainStep(c)
  PROVE  TcpTypes'
<1> USE DEF TcpTypes
<1>1. CallPart'
  BY PlainMoves
<1>2. UNCHANGED hv
  BY DEF PlainStep, Check, ReconnectClose, ReconnectReset, WaitTest, WaitTimeout, WaitAgain, Connected,
     Sent, UseChannel, Receive, ReceiveTest, ReceiveTimeout, ReceiveWoken, SpuriousWakeup
<1>3. HvPart'
  BY <1>2 DEF hv, HvPart
<1>4. RestPart'
  <2>1. m_packetQueue' \in Seq(Ids)
    <3>1. m_packetQueue' \in {m_packetQueue, <<>>} \/ (m_packetQueue # <<>> /\ m_packetQueue' = Tail(m_packetQueue))
      BY DEF PlainStep, Check, ReconnectClose, ReconnectReset, WaitTest, WaitTimeout, WaitAgain, Connected,
         Sent, UseChannel, Receive, ReceiveTest, ReceiveTimeout, ReceiveWoken, SpuriousWakeup,
         DisconnectInternal, PopPacket
    <3>2. m_packetQueue \in Seq(Ids) /\ <<>> \in Seq(Ids)
      BY DEF RestPart
    <3>3. m_packetQueue # <<>> => Tail(m_packetQueue) \in Seq(Ids)
      BY <3>2, HeadTailProperties
    <3> QED BY <3>1, <3>2, <3>3
  <2>2. m_connected' \in BOOLEAN /\ m_connectFailed' \in BOOLEAN /\ crashed' \in BOOLEAN /\ givenUp' \in BOOLEAN
    <3> USE DEF RestPart, HvPart, flags, Goto, Fail
    <3>1. CASE Check(c) \/ ReconnectClose(c) \/ ReconnectReset(c)
      BY <3>1 DEF Check, ReconnectClose, ReconnectReset, DisconnectInternal
    <3>2. CASE WaitTest(c) \/ WaitTimeout(c) \/ WaitAgain(c)
      BY <3>2 DEF WaitTest, WaitTimeout, WaitAgain, DisconnectInternal
    <3>3. CASE Connected(c) \/ Sent(c) \/ UseChannel(c) \/ Receive(c)
      BY <3>3 DEF Connected, Sent, UseChannel, Receive
    <3>4. CASE ReceiveTest(c) \/ ReceiveTimeout(c) \/ ReceiveWoken(c) \/ SpuriousWakeup(c)
      BY <3>4 DEF ReceiveTest, ReceiveTimeout, ReceiveWoken, SpuriousWakeup, PopPacket
    <3> QED BY <3>1, <3>2, <3>3, <3>4 DEF PlainStep
  <2>3. /\ m_current' \in {m_current, NoTarget} /\ clientMutex' \in {clientMutex, c}
        /\ UNCHANGED <<dPc, needStop, calls, disconnects>>
    BY DEF PlainStep, Check, ReconnectClose, ReconnectReset, WaitTest, WaitTimeout, WaitAgain, Connected,
       Sent, UseChannel, Receive, ReceiveTest, ReceiveTimeout, ReceiveWoken, SpuriousWakeup,
       DisconnectInternal, closer, bounds
  <2> QED BY <2>1, <2>2, <2>3 DEF RestPart
<1> QED BY <1>1, <1>3, <1>4

(* The steps that use libhv's client, and the beginning of a call. *)
LEMMA ClientTypes ==
  ASSUME TcpTypes, NEW c \in Callers,
         \/ \E t \in Targets : Call(c, t)
         \/ CallReceive(c) \/ Recreate(c) \/ ReconnectOpen(c) \/ Send(c)
  PROVE  TcpTypes'
<1> USE DEF TcpTypes
<1>0. /\ pc \in [Callers -> {"idle"} \cup Before \cup After]
      /\ polls \in [Callers -> 0 .. MaxPolls] /\ answer \in [Callers -> 0 .. MaxCalls]
      /\ 0 \in 0 .. MaxCalls /\ 0 \in 0 .. MaxPolls /\ calls \in 0 .. MaxCalls
  BY TcpAssumption DEF CallPart, RestPart
<1>1. ASSUME NEW t \in Targets, Call(c, t)
      PROVE  TcpTypes'
  <2>1. calls + 1 \in Ids /\ calls + 1 \in 0 .. MaxCalls
    BY <1>0, <1>1, TcpAssumption DEF Call, Ids
  <2>2. HvPart'
    BY <1>1 DEF Call, HvPart, hv
  <2>3. CallPart'
    BY <1>0, <1>1, <2>1 DEF Call, Goto, CallPart, Before
  <2>4. RestPart'
    BY <1>1, <2>1 DEF Call, Goto, RestPart, flags, closer
  <2> QED BY <2>2, <2>3, <2>4
<1>2. CASE CallReceive(c)
  <2>1. calls + 1 \in 0 .. MaxCalls
    BY <1>0, <1>2, TcpAssumption DEF CallReceive
  <2>2. HvPart'
    BY <1>2 DEF CallReceive, HvPart, hv
  <2>3. CallPart'
    BY <1>0, <1>2 DEF CallReceive, Goto, CallPart, Before, After
  <2>4. RestPart'
    BY <1>2, <2>1 DEF CallReceive, Goto, RestPart, flags, closer
  <2> QED BY <2>2, <2>3, <2>4
<1>3. CASE Recreate(c)
  <2>1. HvPart'
    BY <1>3, HvValues DEF Recreate, HvPart
  <2>2. CallPart'
    BY <1>0, <1>3, GotoTypes DEF Recreate, Goto, At, call, Before
  <2>3. RestPart'
    BY <1>3 DEF Recreate, Goto, RestPart, closer, bounds
  <2> QED BY <2>1, <2>2, <2>3
<1>4. CASE ReconnectOpen(c)
  <2>0. pc[c] = "open" /\ reqTo[c] \in Targets
    BY <1>4 DEF ReconnectOpen, At, CallPart, Before
  <2>1. HvPart'
    BY <1>4, <2>0, HvValues DEF ReconnectOpen, OpenChannel, HvPart
  <2>2. CallPart'
    <3>1. UNCHANGED <<reqId, reqTo, polls>> /\ answer' \in [Callers -> 0 .. MaxCalls]
      BY <1>0, <1>4 DEF ReconnectOpen, Goto, Fail, call
    <3>2. PICK at \in {"wait", "idle"} : pc' = [pc EXCEPT ![c] = at]
      BY <1>4 DEF ReconnectOpen, Goto, Fail
    <3> QED BY <1>0, <2>0, <3>1, <3>2, GotoTypes DEF Before
  <2>3. RestPart'
    BY <1>4, <2>0 DEF ReconnectOpen, Goto, Fail, RestPart, flags, closer, bounds
  <2> QED BY <2>1, <2>2, <2>3
<1>5. CASE Send(c)
  <2>0. pc[c] = "send" /\ reqId[c] \in Ids
    BY <1>5 DEF Send, At, CallPart, Before
  <2>1. HvPart'
    <3>1. Append(chan.inbox, reqId[c]) \in Seq(Ids)
      BY <2>0, AppendProperties DEF HvPart, Channels
    <3>2. [chan EXCEPT !.inbox = Append(chan.inbox, reqId[c])] \in Channels
      BY <3>1 DEF HvPart, Channels
    <3> QED BY <1>5, <3>2 DEF Send, HvPart
  <2>2. CallPart'
    <3>1. UNCHANGED <<reqId, reqTo, polls>> /\ answer' \in [Callers -> 0 .. MaxCalls]
      BY <1>0, <1>5 DEF Send, Goto, Fail, call
    <3>2. PICK at \in {"sent", "idle"} : pc' = [pc EXCEPT ![c] = at]
      BY <1>5 DEF Send, Goto, Fail
    <3> QED BY <1>0, <3>1, <3>2, GotoTypes DEF Before, After
  <2>3. RestPart'
    BY <1>5 DEF Send, Goto, Fail, HvPart, RestPart, closer, bounds
  <2> QED BY <2>1, <2>2, <2>3
<1> QED BY <1>1, <1>2, <1>3, <1>4, <1>5

(* disconnect(), the channel and the callbacks. *)
LEMMA OtherTypes ==
  ASSUME TcpTypes,
         \/ DisconnectBegin \/ DisconnectClear \/ DisconnectReturn
         \/ ChannelStep \/ Callback \/ OldCallback
  PROVE  TcpTypes'
<1> USE DEF TcpTypes
<1>1. CASE DisconnectBegin
  <2>1. HvPart'
    BY <1>1, HvValues DEF DisconnectBegin, MoveOut, HvPart, hv
  <2>2. CallPart'
    BY <1>1 DEF DisconnectBegin, CallPart, call
  <2>3. RestPart'
    <3>1. disconnects' \in 0 .. MaxDisconnects
      BY <1>1, TcpAssumption DEF DisconnectBegin, RestPart
    <3>2. needStop' \in BOOLEAN
      BY <1>1 DEF DisconnectBegin
    <3> QED BY <1>1, <3>1, <3>2 DEF DisconnectBegin, RestPart
  <2> QED BY <2>1, <2>2, <2>3
<1>2. CASE DisconnectClear
  <2>1. HvPart'
    BY <1>2 DEF DisconnectClear, HvPart, hv
  <2>2. CallPart'
    BY <1>2 DEF DisconnectClear, CallPart, call, Before, After
  <2>3. RestPart'
    BY <1>2 DEF DisconnectClear, RestPart, flags, bounds
  <2> QED BY <2>1, <2>2, <2>3
<1>3. CASE DisconnectReturn
  <2>1. HvPart' /\ CallPart'
    BY <1>3 DEF DisconnectReturn, HvPart, CallPart, hv, call
  <2>2. RestPart'
    BY <1>3 DEF DisconnectReturn, RestPart, flags, bounds
  <2> QED BY <2>1, <2>2
<1>4. CASE ChannelStep
  <2>1. HvPart'
    <3>1. chan.inbox \in Seq(Ids) /\ <<>> \in Seq(Ids)
      BY DEF HvPart, Channels
    <3>2. CASE ChannelUp
      BY <3>2, HvValues DEF ChannelUp, HvPart, Channels
    <3>3. CASE ChannelDown
      BY <3>1, <3>3, HvValues DEF ChannelDown, HvPart, Channels
    <3>4. CASE ChannelMessage
      <4>1. Head(chan.inbox) \in Ids /\ Tail(chan.inbox) \in Seq(Ids)
        BY <3>1, <3>4, HeadTailProperties DEF ChannelMessage
      <4> QED BY <3>4, <4>1, HvValues DEF ChannelMessage, HvPart, Channels
    <3> QED BY <1>4, <3>2, <3>3, <3>4 DEF ChannelStep
  <2>2. CallPart' /\ RestPart'
    BY <1>4 DEF ChannelStep, CallPart, RestPart, call, flags, closer, bounds
  <2> QED BY <2>1, <2>2
<1>5. ASSUME NEW b \in Callbacks, RunCallback(b), cb' \in Callbacks, oldCb' \in Callbacks
      PROVE  TcpTypes'
  <2>1. HvPart'
    BY <1>5 DEF RunCallback, HvPart
  <2>2. UNCHANGED <<m_current, clientMutex, reqId, reqTo, polls, answer, dPc, needStop, calls,
                    disconnects, crashed, givenUp>>
    BY <1>5 DEF RunCallback, call, closer, bounds
  <2>3. b.kind \in {"up", "down", "message"} /\ (b.kind = "message" => b.id \in Ids)
    BY <1>5, HvValues DEF RunCallback
  <2>4. CASE b.kind # "message"
    <3>1. /\ m_connected' \in BOOLEAN /\ m_connectFailed' \in BOOLEAN
          /\ UNCHANGED <<m_packetQueue, pc>>
      BY <1>5, <2>3, <2>4 DEF RunCallback, RestPart
    <3> QED BY <2>1, <2>2, <3>1 DEF CallPart, RestPart
  <2>5. CASE b.kind = "message"
    <3>1. /\ m_packetQueue' = Append(m_packetQueue, b.id) /\ UNCHANGED flags
          /\ UNCHANGED pc \/ \E c \in Receivers : pc' = [pc EXCEPT ![c] = "rxwoken"]
      BY <1>5, <2>5 DEF RunCallback
    <3>2. m_packetQueue' \in Seq(Ids)
      BY <2>3, <2>5, <3>1, AppendProperties DEF RestPart
    <3>3. RestPart'
      BY <2>2, <3>1, <3>2 DEF RestPart, flags
    <3>4. CallPart'
      BY <2>2, <3>1 DEF CallPart, Receivers, Before, After
    <3> QED BY <2>1, <3>3, <3>4
  <2> QED BY <2>4, <2>5
<1>6. CASE Callback \/ OldCallback
  BY <1>5, <1>6, HvValues DEF Callback, OldCallback, HvPart
<1> QED BY <1>1, <1>2, <1>3, <1>4, <1>6

(* Every step keeps the types. *)
LEMMA NextTypes ==
  ASSUME TcpTypes, [Next]_vars
  PROVE  TcpTypes'
<1>1. CASE UNCHANGED vars
  BY <1>1 DEF vars, hv, flags, call, closer, bounds, TcpTypes, HvPart, CallPart, RestPart
<1>2. CASE Next
  BY <1>2, PlainTypes, ClientTypes, OtherTypes DEF Next, SendRequest, PlainStep
<1> QED BY <1>1, <1>2

(* Every variable has its type, for any number of callers. *)
THEOREM TransportTypes == Spec => []TypeOK
<1>1. Init => TcpTypes
  BY InitTypes
<1>2. TcpTypes /\ [Next]_vars => TcpTypes'
  BY NextTypes
<1> QED BY <1>1, <1>2, TypesSuffice, PTL DEF Spec

-----------------------------------------------------------------------------
(* One thread uses the transport, and another may disconnect it.  Requests  *)
(* of several threads would have to share the connection and the queue.     *)

Connecting == {"wait", "waiting", "connected", "send"}

(* The caller reaches the connection's phase by a reconnection of its own,  *)
(* or because m_current is already what it asks for.                        *)
LEMMA PlainRouted ==
  ASSUME NEW c, Callers = {c}, TcpTypes, Routed, PlainStep(c)
  PROVE  Routed'
<1>1. UNCHANGED <<chan, reqTo>> /\ m_current' \in {m_current, NoTarget}
  BY DEF PlainStep, Check, ReconnectClose, ReconnectReset, WaitTest, WaitTimeout, WaitAgain, Connected,
     Sent, UseChannel, Receive, ReceiveTest, ReceiveTimeout, ReceiveWoken, SpuriousWakeup,
     DisconnectInternal, hv, call
<1>2. pc'[c] \in Connecting => pc[c] \in Connecting \/ (pc[c] = "check" /\ m_current = reqTo[c])
  <2>0. pc \in [Callers -> {"idle"} \cup Before \cup After] /\ c \in Callers
    BY DEF TcpTypes, CallPart
  <2> USE <2>0 DEF At, Goto, Fail, Connecting
  <2>1. CASE Check(c)
    BY <2>1 DEF Check, NeedReconnect
  <2>2. CASE ReconnectClose(c) \/ ReconnectReset(c) \/ WaitTimeout(c)
    BY <2>2 DEF ReconnectClose, ReconnectReset, WaitTimeout, DisconnectInternal, NotifyReceivers
  <2>3. CASE WaitTest(c) \/ WaitAgain(c) \/ Connected(c)
    BY <2>3 DEF WaitTest, WaitAgain, Connected
  <2>4. CASE Sent(c) \/ UseChannel(c) \/ Receive(c)
    BY <2>4 DEF Sent, UseChannel, Receive
  <2>5. CASE ReceiveTest(c) \/ ReceiveTimeout(c) \/ ReceiveWoken(c) \/ SpuriousWakeup(c)
    BY <2>5 DEF ReceiveTest, ReceiveTimeout, ReceiveWoken, SpuriousWakeup, PopPacket
  <2> QED BY <2>1, <2>2, <2>3, <2>4, <2>5 DEF PlainStep
<1>3. pc[c] = "check" => reqTo[c] \in Targets
  BY DEF TcpTypes, CallPart, Before
<1> QED BY <1>1, <1>2, <1>3, TcpAssumption DEF Routed, Connecting

(* Opening, recreating and using the client. *)
LEMMA ClientRouted ==
  ASSUME NEW c, Callers = {c}, TcpTypes, Routed,
         \/ \E t \in Targets : Call(c, t)
         \/ CallReceive(c) \/ Recreate(c) \/ ReconnectOpen(c) \/ Send(c)
  PROVE  Routed'
<1>0. pc \in [Callers -> {"idle"} \cup Before \cup After] /\ c \in Callers /\ chan \in Channels
  BY DEF TcpTypes, CallPart, HvPart
<1> USE <1>0 DEF At, Goto, Fail
<1>1. ASSUME NEW t, Call(c, t)
      PROVE  Routed'
  BY <1>1 DEF Call, Routed, hv
<1>2. CASE CallReceive(c)
  BY <1>2 DEF CallReceive, Routed, hv
<1>3. CASE Recreate(c)
  BY <1>3, HvValues DEF Recreate, Routed
<1>4. CASE ReconnectOpen(c)
  <2>0. pc[c] = "open" /\ reqTo[c] \in Targets /\ UNCHANGED reqTo
    BY <1>4 DEF ReconnectOpen, TcpTypes, CallPart, Before, call
  <2>1. CASE OpenChannel(reqTo[c]) /\ m_current' = reqTo[c]
    <3>1. chan'.to = reqTo[c]
      BY <2>1 DEF OpenChannel
    <3> QED BY <2>0, <2>1, <3>1, TcpAssumption DEF Routed
  <2>2. CASE Fail(c, FALSE) /\ UNCHANGED <<chan, m_current>>
    BY <2>0, <2>2 DEF Routed
  <2> QED BY <1>4, <2>1, <2>2 DEF ReconnectOpen
<1>5. CASE Send(c)
  <2>1. chan'.to = chan.to /\ chan'.st = chan.st
    BY <1>5 DEF Send, Channels
  <2> QED BY <1>5, <2>1 DEF Send, Routed, call
<1> QED BY <1>1, <1>2, <1>3, <1>4, <1>5

(* disconnect(), the channel and the callbacks. *)
LEMMA OtherRouted ==
  ASSUME NEW c, Callers = {c}, TcpTypes, Routed,
         \/ DisconnectBegin \/ DisconnectClear \/ DisconnectReturn
         \/ ChannelStep \/ Callback \/ OldCallback
  PROVE  Routed'
<1>0. pc \in [Callers -> {"idle"} \cup Before \cup After] /\ chan \in Channels
  BY DEF TcpTypes, CallPart, HvPart
<1>1. UNCHANGED reqTo /\ m_current' \in {m_current, NoTarget}
  BY DEF DisconnectBegin, DisconnectClear, DisconnectReturn, ChannelStep, Callback, OldCallback,
         RunCallback, call
<1>2. \/ UNCHANGED chan \/ chan' = NoChannel
      \/ chan'.to = chan.to /\ (chan'.st = "closed" \/ chan.st # "closed")
  <2>1. CASE ChannelStep
    BY <1>0, <2>1 DEF ChannelStep, ChannelUp, ChannelDown, ChannelMessage, Channels
  <2>2. CASE ~ChannelStep
    BY <2>2 DEF DisconnectBegin, MoveOut, DisconnectClear, DisconnectReturn, Callback, OldCallback,
                RunCallback, hv
  <2> QED BY <2>1, <2>2
<1>3. pc'[c] \in Connecting => pc[c] \in Connecting
  <2>1. CASE Callback \/ OldCallback
    <3>1. PICK b \in {cb, oldCb} : RunCallback(b)
      BY <2>1 DEF Callback, OldCallback
    <3>2. b.kind \in {"up", "down", "message"}
      BY <3>1, HvValues DEF RunCallback, TcpTypes, HvPart
    <3>3. UNCHANGED pc \/ \E d \in Receivers : pc' = [pc EXCEPT ![d] = "rxwoken"]
      BY <3>1, <3>2 DEF RunCallback
    <3> QED BY <1>0, <3>3 DEF Receivers, Connecting
  <2>2. CASE DisconnectClear
    BY <2>2 DEF DisconnectClear, Connecting
  <2>3. CASE DisconnectBegin \/ DisconnectReturn \/ ChannelStep
    BY <2>3 DEF DisconnectBegin, DisconnectReturn, ChannelStep
  <2> QED BY <2>1, <2>2, <2>3
<1> QED BY <1>1, <1>2, <1>3, HvValues DEF Routed, Connecting

(* Every step keeps the routing. *)
LEMMA NextRouted ==
  ASSUME NEW c, Callers = {c}, TcpTypes, Routed, [Next]_vars
  PROVE  Routed'
<1>1. CASE UNCHANGED vars
  BY <1>1 DEF vars, hv, call, Routed
<1>2. CASE Next
  BY <1>2, PlainRouted, ClientRouted, OtherRouted DEF Next, SendRequest, PlainStep
<1> QED BY <1>1, <1>2

(* The request leaves in Send only. *)
LEMMA OnlySendSends ==
  ASSUME NEW c, Callers = {c}, TcpTypes, [Next]_vars, pc[c] = "send", pc'[c] = "sent"
  PROVE  Send(c)
<1>0. pc \in [Callers -> {"idle"} \cup Before \cup After] /\ c \in Callers
  BY DEF TcpTypes, CallPart
<1>1. CASE \/ \E t \in Targets : Call(c, t)
           \/ CallReceive(c) \/ Recreate(c) \/ ReconnectOpen(c) \/ PlainStep(c)
  BY <1>1 DEF PlainStep, Check, ReconnectClose, ReconnectReset, WaitTest, WaitTimeout, WaitAgain, Connected,
     Sent, UseChannel, Receive, ReceiveTest, ReceiveTimeout, ReceiveWoken, SpuriousWakeup, Call,
     CallReceive, Recreate, ReconnectOpen, At
<1>2. CASE DisconnectBegin \/ DisconnectClear \/ DisconnectReturn \/ ChannelStep \/ UNCHANGED vars
  BY <1>0, <1>2 DEF DisconnectBegin, DisconnectClear, DisconnectReturn, ChannelStep, vars
<1>3. CASE Callback \/ OldCallback
  <2>1. PICK b \in {cb, oldCb} : RunCallback(b)
    BY <1>3 DEF Callback, OldCallback
  <2>2. b.kind \in {"up", "down", "message"}
    BY <2>1, HvValues DEF RunCallback, TcpTypes, HvPart
  <2>3. UNCHANGED pc \/ \E d \in Receivers : pc' = [pc EXCEPT ![d] = "rxwoken"]
    BY <2>1, <2>2 DEF RunCallback
  <2> QED BY <1>0, <2>3 DEF Receivers
<1> QED BY <1>1, <1>2, <1>3 DEF Next, SendRequest, PlainStep

(* sendRequest: a request goes to the host its URL names.  Neither a late   *)
(* callback of the previous connection nor disconnect() can make the        *)
(* transport believe in a connection that leads elsewhere.                  *)
THEOREM RequestsGoHome ==
  ASSUME NEW caller, Callers = {caller}
  PROVE  Spec => SentToOwnHost
<1>1. Init => TcpTypes /\ Routed
  BY InitTypes, HvValues DEF Init, HvInit, Routed
<1>2. TcpTypes /\ Routed /\ [Next]_vars => (TcpTypes /\ Routed)'
  BY NextTypes, NextRouted
<1>3. TcpTypes /\ Routed /\ [Next]_vars
        => [\A c \in Callers : pc[c] = "send" /\ pc'[c] = "sent" => chan.to = reqTo[c]]_vars
  <2> SUFFICES ASSUME TcpTypes, Routed, [Next]_vars, pc[caller] = "send", pc'[caller] = "sent"
               PROVE  chan.to = reqTo[caller]
    OBVIOUS
  <2>1. Send(caller)
    BY OnlySendSends
  <2>2. chan.st = "up"
    <3>1. pc \in [Callers -> {"idle"} \cup Before \cup After]
      BY DEF TcpTypes, CallPart
    <3> QED BY <2>1, <3>1 DEF Send, Fail
  <2> QED BY <2>2 DEF Routed
<1> QED BY <1>1, <1>2, <1>3, PTL DEF Spec, SentToOwnHost

-----------------------------------------------------------------------------
(* The parts of the count. *)
LEMMA Counts ==
  /\ TcpTypes => /\ Len(chan.inbox) \in Nat /\ Len(m_packetQueue) \in Nat
                 /\ Carried(cb) \in {0, 1} /\ Carried(oldCb) \in {0, 1}
  /\ TcpTypes' => /\ Len(chan'.inbox) \in Nat /\ Len(m_packetQueue') \in Nat
                  /\ Carried(cb') \in {0, 1} /\ Carried(oldCb') \in {0, 1}
  /\ Carried(NoCallback) = 0 /\ Len(<<>>) = 0
<1>1. TcpTypes => chan.inbox \in Seq(Ids) /\ m_packetQueue \in Seq(Ids)
  BY DEF TcpTypes, HvPart, RestPart, Channels
<1>2. TcpTypes' => chan'.inbox \in Seq(Ids) /\ m_packetQueue' \in Seq(Ids)
  BY DEF TcpTypes, HvPart, RestPart, Channels
<1>3. \A b : Carried(b) \in {0, 1}
  BY DEF Carried
<1>4. Carried(NoCallback) = 0
  BY HvValues DEF Carried
<1> QED BY <1>1, <1>2, <1>3, <1>4, LenProperties

(* Nothing is on its way, or what is answers request 0, which is none. *)
LEMMA NothingInFlight ==
  ASSUME TcpTypes
  PROVE  /\ InFlight = 0 => \A id : OnlyAnswers(id)
         /\ OnlyAnswers(0) => InFlight = 0
<1>0. /\ Len(chan.inbox) \in Nat /\ Len(m_packetQueue) \in Nat
      /\ Carried(cb) \in {0, 1} /\ Carried(oldCb) \in {0, 1}
      /\ chan.inbox \in Seq(Ids) /\ m_packetQueue \in Seq(Ids)
  BY Counts DEF TcpTypes, HvPart, RestPart, Channels
<1>1. ASSUME InFlight = 0 PROVE \A id : OnlyAnswers(id)
  <2>1. Len(chan.inbox) = 0 /\ Len(m_packetQueue) = 0 /\ Carried(cb) = 0 /\ Carried(oldCb) = 0
    BY <1>0, <1>1 DEF InFlight
  <2> QED BY <2>1 DEF OnlyAnswers, Carried
<1>2. ASSUME OnlyAnswers(0) PROVE InFlight = 0
  <2>1. 0 \notin Ids
    BY DEF Ids
  <2>2. Len(chan.inbox) = 0
    <3>1. Len(chan.inbox) >= 1 => chan.inbox[1] \in Ids
      BY <1>0, ElementOfSeq
    <3> QED BY <1>0, <1>2, <2>1, <3>1 DEF OnlyAnswers
  <2>3. Len(m_packetQueue) = 0
    <3>1. Len(m_packetQueue) >= 1 => m_packetQueue[1] \in Ids
      BY <1>0, ElementOfSeq
    <3> QED BY <1>0, <1>2, <2>1, <3>1 DEF OnlyAnswers
  <2>4. Carried(cb) = 0 /\ Carried(oldCb) = 0
    BY <1>2, <2>1, HvValues DEF OnlyAnswers, Carried, TcpTypes, HvPart
  <2> QED BY <2>2, <2>3, <2>4 DEF InFlight
<1> QED BY <1>1, <1>2

(* No answer comes to those on their way; some may be dropped. *)
Fewer == InFlight' <= InFlight /\ \A id : OnlyAnswers(id) => OnlyAnswers(id)'

(* The call stays in its phase, or ends without having sent. *)
LEMMA StillMatched ==
  ASSUME NEW c, Callers = {c}, TcpTypes, TcpTypes', Matched, Fewer,
         UNCHANGED <<reqId, givenUp>>, pc'[c] \in After <=> pc[c] \in After,
         pc'[c] = "idle" => answer'[c] = 0 \/ (pc[c] = "idle" /\ answer'[c] = answer[c])
  PROVE  Matched'
<1>1. InFlight \in Nat /\ InFlight' \in Nat
  <2>1. /\ Len(chan.inbox) \in Nat /\ Len(m_packetQueue) \in Nat
        /\ Carried(cb) \in {0, 1} /\ Carried(oldCb) \in {0, 1}
    BY Counts
  <2>2. /\ Len(chan'.inbox) \in Nat /\ Len(m_packetQueue') \in Nat
        /\ Carried(cb') \in {0, 1} /\ Carried(oldCb') \in {0, 1}
    BY Counts
  <2>3. InFlight \in Nat
    BY <2>1 DEF InFlight
  <2>4. InFlight' \in Nat
    BY <2>2 DEF InFlight
  <2> QED BY <2>3, <2>4
<1>2. CASE givenUp
  BY <1>2 DEF Matched
<1>3. CASE ~givenUp
  <2>1. pc'[c] \notin After => InFlight' = 0
    BY <1>1, <1>3 DEF Matched, Fewer
  <2>2. pc'[c] \in After => InFlight' <= 1 /\ OnlyAnswers(reqId[c])'
    <3>1. ASSUME pc'[c] \in After PROVE InFlight' <= 1
      BY <1>1, <1>3, <3>1 DEF Matched, Fewer
    <3>2. ASSUME pc'[c] \in After PROVE OnlyAnswers(reqId[c])'
      <4>1. OnlyAnswers(reqId[c])
        BY <1>3, <3>2 DEF Matched
      <4>2. \A id : OnlyAnswers(id) => OnlyAnswers(id)'
        BY DEF Fewer
      <4>3. PICK n : n = reqId[c]
        OBVIOUS
      <4>4. OnlyAnswers(n)'
        BY <4>1, <4>2, <4>3
      <4>5. n = reqId'[c]
        BY <4>3
      <4> QED BY <4>4, <4>5 DEF OnlyAnswers
    <3> QED BY <3>1, <3>2
  <2>3. pc'[c] = "idle" => answer'[c] \in {0, reqId'[c]}
    BY <1>3 DEF Matched
  <2> QED BY <2>1, <2>2, <2>3 DEF Matched
<1> QED BY <1>2, <1>3

(* Nothing is added anywhere, and a callback at most changes hands. *)
LEMMA FewerAnswers ==
  ASSUME TcpTypes, TcpTypes',
         chan'.inbox \in {chan.inbox, <<>>}, m_packetQueue' \in {m_packetQueue, <<>>},
         \/ UNCHANGED <<cb, oldCb>>
         \/ cb'.kind # "message" /\ oldCb' \in {oldCb, cb}
         \/ oldCb'.kind # "message" /\ cb' = cb
  PROVE  Fewer
<1>1. Len(m_packetQueue') <= Len(m_packetQueue) /\ Len(chan'.inbox) <= Len(chan.inbox)
  BY Counts
<1>2. Carried(cb') + Carried(oldCb') <= Carried(cb) + Carried(oldCb)
  <2>1. CASE UNCHANGED <<cb, oldCb>>
    BY <2>1, Counts DEF Carried
  <2>2. CASE cb'.kind # "message" /\ oldCb' \in {oldCb, cb}
    BY <2>2 DEF Carried
  <2>3. CASE oldCb'.kind # "message" /\ cb' = cb
    BY <2>3 DEF Carried
  <2> QED BY <2>1, <2>2, <2>3
<1>3. InFlight' = Len(chan'.inbox) + Len(m_packetQueue') + Carried(cb') + Carried(oldCb')
  BY DEF InFlight, Carried
<1>4. InFlight' <= InFlight
  BY <1>1, <1>2, <1>3, Counts DEF InFlight
<1>5. ASSUME NEW id, OnlyAnswers(id) PROVE OnlyAnswers(id)'
  <2>1. \A i \in 1 .. Len(chan'.inbox) : chan'.inbox[i] = id
    BY <1>5, Counts DEF OnlyAnswers
  <2>2. \A i \in 1 .. Len(m_packetQueue') : m_packetQueue'[i] = id
    BY <1>5, Counts DEF OnlyAnswers
  <2>3. (cb'.kind = "message" => cb'.id = id) /\ (oldCb'.kind = "message" => oldCb'.id = id)
    BY <1>5 DEF OnlyAnswers
  <2> QED BY <2>1, <2>2, <2>3 DEF OnlyAnswers
<1> QED BY <1>4, <1>5 DEF Fewer

(* A call ends with -1, and says so if its request was sent. *)
LEMMA FailMatched ==
  ASSUME NEW c, Callers = {c}, TcpTypes, TcpTypes', Matched, pc[c] \in After,
         Fail(c, reqId[c] # 0), UNCHANGED <<chan, cb, oldCb, m_packetQueue, reqId>>
  PROVE  Matched'
<1>1. CASE givenUp'
  BY <1>1 DEF Matched
<1>2. CASE ~givenUp'
  <2>1. reqId[c] = 0 /\ ~givenUp
    BY <1>2 DEF Fail
  <2>2. InFlight = 0
    BY <2>1, NothingInFlight DEF Matched
  <2>3. InFlight' = 0
    BY <2>2 DEF InFlight, Carried
  <2>4. pc'[c] = "idle" /\ answer'[c] = 0
    BY DEF Fail, TcpTypes, CallPart
  <2> QED BY <2>3, <2>4 DEF Matched, After
<1> QED BY <1>1, <1>2

(* A call takes the packet it was waiting for. *)
LEMMA PopMatched ==
  ASSUME NEW c, Callers = {c}, TcpTypes, TcpTypes', Matched, pc[c] \in After,
         PopPacket(c), UNCHANGED <<chan, cb, oldCb, reqId>>
  PROVE  Matched'
<1>1. CASE givenUp
  BY <1>1 DEF PopPacket, Fail, Matched
<1>2. CASE ~givenUp
  <2>1. InFlight <= 1 /\ OnlyAnswers(reqId[c])
    BY <1>2 DEF Matched
  <2>2. /\ m_packetQueue \in Seq(Ids) /\ m_packetQueue # <<>> /\ Len(m_packetQueue) \in Nat \ {0}
        /\ Len(m_packetQueue') = Len(m_packetQueue) - 1 /\ Head(m_packetQueue) = m_packetQueue[1]
    BY EmptySeq, HeadTailProperties DEF PopPacket, TcpTypes, RestPart
  <2>3. Head(m_packetQueue) = reqId[c]
    BY <2>1, <2>2 DEF OnlyAnswers
  <2>4. InFlight' = 0
    <3>1. InFlight' = Len(chan.inbox) + Len(m_packetQueue') + Carried(cb) + Carried(oldCb)
      BY DEF InFlight, Carried
    <3> QED BY <2>1, <2>2, <3>1, Counts DEF InFlight
  <2>5. pc'[c] = "idle" /\ answer'[c] \in {0, reqId[c]}
    BY <2>3 DEF PopPacket, Fail, TcpTypes, CallPart
  <2> QED BY <2>4, <2>5 DEF Matched, After
<1> QED BY <1>1, <1>2

(* The steps of sendRequest that leave libhv's part alone. *)
LEMMA PlainMatched ==
  ASSUME NEW c, Callers = {c}, TcpTypes, TcpTypes', Matched, PlainStep(c)
  PROVE  Matched'
<1>0. pc \in [Callers -> {"idle"} \cup Before \cup After] /\ c \in Callers
      /\ answer \in [Callers -> 0 .. MaxCalls]
  BY DEF TcpTypes, CallPart
<1>1. UNCHANGED <<chan, cb, oldCb, reqId>>
  BY DEF PlainStep, Check, ReconnectClose, ReconnectReset, WaitTest, WaitTimeout, WaitAgain, Connected,
     Sent, UseChannel, Receive, ReceiveTest, ReceiveTimeout, ReceiveWoken, SpuriousWakeup, hv, call
<1>2. CASE PopPacket(c) /\ pc[c] \in After
  BY <1>1, <1>2, PopMatched
<1>3. CASE Fail(c, reqId[c] # 0) /\ pc[c] \in After /\ UNCHANGED m_packetQueue
  BY <1>1, <1>3, FailMatched
<1>4. CASE /\ UNCHANGED givenUp /\ m_packetQueue' \in {m_packetQueue, <<>>}
           /\ pc[c] # "idle" /\ (pc'[c] \in After <=> pc[c] \in After)
           /\ pc'[c] = "idle" => answer'[c] = 0
  BY <1>1, <1>4, FewerAnswers, StillMatched
<1> USE <1>0 DEF At, Goto
<1>5. CASE Check(c) \/ ReconnectReset(c) \/ WaitAgain(c) \/ UseChannel(c) \/ SpuriousWakeup(c)
  BY <1>4, <1>5 DEF Check, ReconnectReset, WaitAgain, UseChannel, SpuriousWakeup, Before, After
<1>6. CASE ReconnectClose(c) \/ WaitTimeout(c)
  BY <1>4, <1>6 DEF ReconnectClose, WaitTimeout, DisconnectInternal, NotifyReceivers, After
<1>7. CASE WaitTest(c) \/ Connected(c)
  BY <1>4, <1>7 DEF WaitTest, Connected, Fail, After, TcpTypes, RestPart
<1>8. CASE Sent(c) \/ Receive(c)
  BY <1>3, <1>4, <1>8 DEF Sent, Receive, After
<1>9. CASE ReceiveTest(c) \/ ReceiveTimeout(c) \/ ReceiveWoken(c)
  BY <1>2, <1>3, <1>4, <1>9 DEF ReceiveTest, ReceiveTimeout, ReceiveWoken, After
<1> QED BY <1>5, <1>6, <1>7, <1>8, <1>9 DEF PlainStep

(* The beginning of a call, and the steps that use libhv's client. *)
LEMMA ClientMatched ==
  ASSUME NEW c, Callers = {c}, TcpTypes, TcpTypes', Matched,
         \/ \E t \in Targets : Call(c, t)
         \/ CallReceive(c) \/ Recreate(c) \/ ReconnectOpen(c) \/ Send(c)
  PROVE  Matched'
<1>0. pc \in [Callers -> {"idle"} \cup Before \cup After] /\ c \in Callers
      /\ answer \in [Callers -> 0 .. MaxCalls] /\ reqId \in [Callers -> 0 .. MaxCalls]
  BY DEF TcpTypes, CallPart
<1>a. UNCHANGED oldCb /\ (UNCHANGED cb)
  BY DEF Call, CallReceive, Recreate, ReconnectOpen, Send, hv
<1>1. ASSUME pc[c] = "idle", pc'[c] \in {"check", "receive"}, UNCHANGED <<chan, m_packetQueue, givenUp>>
      PROVE  Matched'
  <2>1. CASE givenUp
    BY <1>1, <2>1 DEF Matched
  <2>2. CASE ~givenUp
    <3>1. InFlight = 0
      BY <1>1, <2>2 DEF Matched, After
    <3>2. OnlyAnswers(reqId'[c])
      BY <3>1, NothingInFlight
    <3>3. InFlight' = 0 /\ OnlyAnswers(reqId[c])'
      BY <1>a, <1>1, <3>1, <3>2 DEF InFlight, Carried, OnlyAnswers
    <3> QED BY <1>1, <3>3 DEF Matched
  <2> QED BY <2>1, <2>2
<1>2. CASE (\E t \in Targets : Call(c, t)) \/ CallReceive(c)
  BY <1>0, <1>1, <1>2 DEF Call, CallReceive, At, Goto, hv
<1>3. CASE Recreate(c)
  <2>1. /\ UNCHANGED <<givenUp, reqId, m_packetQueue>> /\ chan' = NoChannel
        /\ pc'[c] \notin After /\ pc[c] \notin After /\ pc'[c] # "idle"
    BY <1>0, <1>3 DEF Recreate, At, Goto, After, call
  <2> QED BY <1>a, <2>1, HvValues, FewerAnswers, StillMatched
<1>4. CASE ReconnectOpen(c)
  <2>1. /\ UNCHANGED <<givenUp, reqId, m_packetQueue>> /\ chan'.inbox \in {chan.inbox, <<>>}
        /\ pc'[c] \notin After /\ pc[c] \notin After /\ (pc'[c] = "idle" => answer'[c] = 0)
    BY <1>0, <1>4 DEF ReconnectOpen, OpenChannel, At, Goto, Fail, After, call, TcpTypes, RestPart
  <2> QED BY <1>a, <2>1, FewerAnswers, StillMatched
<1>5. CASE Send(c)
  <2>1. CASE client /\ chan.st = "up"
    <3>1. /\ chan' = [chan EXCEPT !.inbox = Append(@, reqId[c])] /\ pc[c] = "send" /\ pc'[c] = "sent"
          /\ UNCHANGED <<m_packetQueue, reqId, givenUp>>
      BY <1>0, <1>5, <2>1 DEF Send, At, Goto, call
    <3>2. CASE givenUp
      BY <3>1, <3>2 DEF Matched
    <3>3. CASE ~givenUp
      <4>0. chan \in Channels /\ chan.inbox \in Seq(Ids) /\ reqId[c] \in Ids
        BY <3>1 DEF TcpTypes, HvPart, CallPart, Channels, Before
      <4>1. InFlight = 0
        BY <3>1, <3>3 DEF Matched, After
      <4>2. OnlyAnswers(reqId[c]) /\ Len(chan.inbox) = 0
        BY <4>1, Counts, NothingInFlight DEF InFlight
      <4>3. chan'.inbox = Append(chan.inbox, reqId[c])
        BY <3>1, <4>0 DEF Channels
      <4>4. Len(chan'.inbox) = 1 /\ chan'.inbox[1] = reqId[c]
        BY <4>0, <4>2, <4>3, AppendProperties
      <4>5. InFlight' = Len(chan'.inbox) + Len(m_packetQueue) + Carried(cb) + Carried(oldCb)
        BY <1>a, <3>1 DEF InFlight, Carried
      <4>6. InFlight' = 1
        BY <4>1, <4>2, <4>4, <4>5, Counts DEF InFlight
      <4>7. OnlyAnswers(reqId[c])'
        BY <1>a, <3>1, <4>2, <4>4 DEF OnlyAnswers
      <4> QED BY <3>1, <4>6, <4>7 DEF Matched, After
    <3> QED BY <3>2, <3>3
  <2>2. CASE ~(client /\ chan.st = "up")
    <3>1. /\ UNCHANGED <<chan, givenUp, reqId, m_packetQueue>>
          /\ pc'[c] \notin After /\ pc[c] \notin After /\ (pc'[c] = "idle" => answer'[c] = 0)
      BY <1>0, <1>5, <2>2 DEF Send, At, Fail, After, call, TcpTypes, RestPart
    <3> QED BY <1>a, <3>1, FewerAnswers, StillMatched
  <2> QED BY <2>1, <2>2
<1> QED BY <1>2, <1>3, <1>4, <1>5

(* A callback, once made, puts the answer it carries into the queue. *)
LEMMA DeliveryFewer ==
  ASSUME TcpTypes, TcpTypes', NEW b, b.kind = "message", b \in {cb, oldCb},
         m_packetQueue' = Append(m_packetQueue, b.id), UNCHANGED chan,
         \/ b = cb /\ cb' = NoCallback /\ UNCHANGED oldCb
         \/ b = oldCb /\ oldCb' = NoCallback /\ UNCHANGED cb
  PROVE  Fewer
<1>0. m_packetQueue \in Seq(Ids) /\ b.id \in Ids
  BY HvValues DEF TcpTypes, HvPart, RestPart
<1>1. /\ Len(m_packetQueue') = Len(m_packetQueue) + 1
      /\ \A i \in 1 .. Len(m_packetQueue) : m_packetQueue'[i] = m_packetQueue[i]
      /\ m_packetQueue'[Len(m_packetQueue) + 1] = b.id
  BY <1>0, AppendProperties
<1>2. Carried(cb') + Carried(oldCb') + 1 = Carried(cb) + Carried(oldCb)
  BY HvValues DEF Carried
<1>3. InFlight' = Len(chan.inbox) + Len(m_packetQueue') + Carried(cb') + Carried(oldCb')
  BY DEF InFlight, Carried
<1>4. InFlight' <= InFlight
  <2>1. InFlight = Len(chan.inbox) + Len(m_packetQueue) + Carried(cb) + Carried(oldCb)
    BY DEF InFlight
  <2>2. /\ Len(chan.inbox) \in Nat /\ Len(m_packetQueue) \in Nat
        /\ {Carried(cb), Carried(oldCb), Carried(cb'), Carried(oldCb')} \subseteq {0, 1}
    BY Counts
  <2>3. \A i, q, x, y, u, v \in Nat : x + y + 1 = u + v => i + (q + 1) + x + y <= i + q + u + v
    OBVIOUS
  <2>4. {Carried(cb), Carried(oldCb), Carried(cb'), Carried(oldCb')} \subseteq Nat
    BY <2>2
  <2>5. Len(chan.inbox) + (Len(m_packetQueue) + 1) + Carried(cb') + Carried(oldCb')
          <= Len(chan.inbox) + Len(m_packetQueue) + Carried(cb) + Carried(oldCb)
    BY <1>2, <2>2, <2>3, <2>4, Zenon
  <2> QED BY <1>1, <1>3, <2>1, <2>5, Zenon
<1>5. ASSUME NEW id, OnlyAnswers(id) PROVE OnlyAnswers(id)'
  <2>1. b.id = id
    BY <1>5 DEF OnlyAnswers
  <2>2. \A i \in 1 .. Len(m_packetQueue') : m_packetQueue'[i] = id
    <3>1. \A i \in 1 .. Len(m_packetQueue) : m_packetQueue[i] = id
      BY <1>5 DEF OnlyAnswers
    <3>2. ASSUME NEW i \in 1 .. Len(m_packetQueue')
          PROVE  i \in 1 .. Len(m_packetQueue) \/ i = Len(m_packetQueue) + 1
      BY <1>1, Counts
    <3> QED BY <1>1, <2>1, <3>1, <3>2
  <2>3. (cb'.kind = "message" => cb'.id = id) /\ (oldCb'.kind = "message" => oldCb'.id = id)
    BY <1>5, HvValues DEF OnlyAnswers
  <2> QED BY <1>5, <2>2, <2>3 DEF OnlyAnswers
<1> QED BY <1>4, <1>5 DEF Fewer

(* The loop thread takes the next answer from the channel. *)
LEMMA MessageFewer ==
  ASSUME TcpTypes, TcpTypes', ChannelMessage, UNCHANGED m_packetQueue
  PROVE  Fewer
<1>0. /\ chan \in Channels /\ chan.inbox \in Seq(Ids) /\ chan.inbox # <<>>
      /\ chan'.inbox = Tail(chan.inbox) /\ cb' = [kind |-> "message", id |-> Head(chan.inbox)]
      /\ cb = NoCallback /\ UNCHANGED oldCb
  BY DEF TcpTypes, HvPart, Channels, ChannelMessage, LoopFree
<1>1. /\ Len(chan'.inbox) = Len(chan.inbox) - 1 /\ Len(chan.inbox) >= 1
      /\ Head(chan.inbox) = chan.inbox[1]
      /\ \A i \in 1 .. Len(chan'.inbox) : chan'.inbox[i] = chan.inbox[i + 1]
  <2>1. Len(chan.inbox) \in Nat /\ Len(chan.inbox) # 0
    BY <1>0, EmptySeq, LenProperties
  <2> QED BY <1>0, <2>1, HeadTailProperties
<1>2. Carried(cb) = 0 /\ Carried(cb') = 1
  BY <1>0, HvValues DEF Carried
<1>3. InFlight' = Len(chan'.inbox) + Len(m_packetQueue) + Carried(cb') + Carried(oldCb)
  BY <1>0 DEF InFlight, Carried
<1>4. InFlight' <= InFlight
  BY <1>1, <1>2, <1>3, Counts DEF InFlight
<1>5. ASSUME NEW id, OnlyAnswers(id) PROVE OnlyAnswers(id)'
  <2>1. \A i \in 1 .. Len(chan'.inbox) : chan'.inbox[i] = id
    <3>1. \A i \in 1 .. Len(chan'.inbox) : i + 1 \in 1 .. Len(chan.inbox)
      BY <1>1, Counts
    <3> QED BY <1>1, <1>5, <3>1 DEF OnlyAnswers
  <2>2. cb'.id = id
    BY <1>0, <1>1, <1>5, Counts DEF OnlyAnswers
  <2> QED BY <1>0, <1>5, <2>1, <2>2 DEF OnlyAnswers
<1> QED BY <1>4, <1>5 DEF Fewer

(* disconnect(), the channel and the callbacks. *)
LEMMA OtherMatched ==
  ASSUME NEW c, Callers = {c}, TcpTypes, TcpTypes', Matched,
         \/ DisconnectBegin \/ DisconnectClear \/ DisconnectReturn
         \/ ChannelStep \/ Callback \/ OldCallback
  PROVE  Matched'
<1>0. pc \in [Callers -> {"idle"} \cup Before \cup After] /\ chan \in Channels
  BY DEF TcpTypes, CallPart, HvPart
<1>1. UNCHANGED <<reqId, givenUp, answer>>
  BY DEF DisconnectBegin, DisconnectClear, DisconnectReturn, ChannelStep, Callback, OldCallback,
         RunCallback, call
<1>2. CASE Fewer /\ (pc'[c] = pc[c] \/ {pc[c], pc'[c]} \subseteq After)
  BY <1>1, <1>2, StillMatched DEF After
<1>3. CASE DisconnectBegin
  <2>1. chan' \in {chan, NoChannel} /\ UNCHANGED <<pc, m_packetQueue>>
        /\ (UNCHANGED <<cb, oldCb>> \/ (cb' = NoCallback /\ oldCb' = cb))
    BY <1>3 DEF DisconnectBegin, MoveOut, hv
  <2> QED BY <1>2, <2>1, FewerAnswers, HvValues
<1>4. CASE DisconnectClear \/ DisconnectReturn
  <2>1. UNCHANGED <<chan, cb, oldCb>> /\ m_packetQueue' \in {m_packetQueue, <<>>}
        /\ (pc'[c] = pc[c] \/ {pc[c], pc'[c]} \subseteq After)
    BY <1>0, <1>4 DEF DisconnectClear, DisconnectReturn, hv, After
  <2> QED BY <1>2, <2>1, FewerAnswers
<1>5. CASE ChannelStep
  <2>1. UNCHANGED <<pc, m_packetQueue>>
    BY <1>5 DEF ChannelStep
  <2>2. CASE ChannelUp \/ ChannelDown
    <3>1. chan'.inbox \in {chan.inbox, <<>>} /\ cb'.kind # "message" /\ UNCHANGED oldCb
      <4>1. CASE ChannelUp
        BY <1>0, <4>1 DEF ChannelUp, Channels
      <4>2. CASE ChannelDown
        BY <1>0, <4>2 DEF ChannelDown, Channels
      <4> QED BY <2>2, <4>1, <4>2
    <3> QED BY <1>2, <2>1, <3>1, FewerAnswers
  <2>3. CASE ChannelMessage
    BY <1>2, <2>1, <2>3, MessageFewer
  <2> QED BY <1>5, <2>2, <2>3 DEF ChannelStep
<1>6. CASE Callback \/ OldCallback
  <2>1. PICK b \in {cb, oldCb} :
          /\ RunCallback(b)
          /\ \/ b = cb /\ cb' = NoCallback /\ UNCHANGED oldCb
             \/ b = oldCb /\ oldCb' = NoCallback /\ UNCHANGED cb
    BY <1>6 DEF Callback, OldCallback
  <2>2. b.kind \in {"up", "down", "message"} /\ UNCHANGED chan
    BY <2>1, HvValues DEF RunCallback, TcpTypes, HvPart
  <2>3. CASE b.kind = "message"
    <3>1. /\ m_packetQueue' = Append(m_packetQueue, b.id)
          /\ UNCHANGED pc \/ \E d \in Receivers : pc' = [pc EXCEPT ![d] = "rxwoken"]
      BY <2>1, <2>3 DEF RunCallback
    <3>2. pc'[c] = pc[c] \/ {pc[c], pc'[c]} \subseteq After
      BY <1>0, <3>1 DEF Receivers, After
    <3>3. Fewer
      BY <2>1, <2>2, <2>3, <3>1, DeliveryFewer
    <3> QED BY <1>2, <3>2, <3>3
  <2>4. CASE b.kind \in {"up", "down"}
    <3>1. UNCHANGED <<pc, m_packetQueue>>
      BY <2>1, <2>4 DEF RunCallback
    <3> QED BY <1>2, <2>1, <2>2, <3>1, FewerAnswers, HvValues
  <2> QED BY <2>2, <2>3, <2>4
<1> QED BY <1>3, <1>4, <1>5, <1>6

(* Every step keeps the answers matched. *)
LEMMA NextMatched ==
  ASSUME NEW c, Callers = {c}, TcpTypes, Matched, [Next]_vars
  PROVE  Matched'
<1>0. TcpTypes'
  BY NextTypes
<1>1. CASE UNCHANGED vars
  BY <1>1 DEF vars, hv, call, Matched, InFlight, Carried, OnlyAnswers
<1>2. CASE Next
  BY <1>0, <1>2, PlainMatched, ClientMatched, OtherMatched DEF Next, SendRequest, PlainStep
<1> QED BY <1>1, <1>2

(* sendRequest and receiveResponse: as long as no request has been given    *)
(* up, what a call returns is the answer to its own request.  Neither a     *)
(* reconnection nor disconnect() nor a callback of the old client leaves    *)
(* the answer to an earlier request where a later call finds it.            *)
THEOREM AnswersGoHome ==
  ASSUME NEW caller, Callers = {caller}
  PROVE  Spec => []OwnAnswerUnlessGivenUp
<1>1. Init => TcpTypes /\ Matched
  <2> SUFFICES ASSUME Init PROVE Matched
    BY InitTypes
  <2>1. chan.inbox = <<>> /\ m_packetQueue = <<>> /\ cb = NoCallback /\ oldCb = NoCallback
    BY HvValues DEF Init, HvInit
  <2>2. InFlight = 0
    BY <2>1, Counts DEF InFlight
  <2>3. pc[caller] = "idle" /\ answer[caller] = 0
    BY DEF Init
  <2> QED BY <2>2, <2>3 DEF Matched, After
<1>2. TcpTypes /\ Matched /\ [Next]_vars => (TcpTypes /\ Matched)'
  BY NextTypes, NextMatched
<1>3. Matched => OwnAnswerUnlessGivenUp
  BY DEF Matched, OwnAnswerUnlessGivenUp
<1> QED BY <1>1, <1>2, <1>3, PTL DEF Spec

=============================================================================
