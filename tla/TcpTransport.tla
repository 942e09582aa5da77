---------------------------- MODULE TcpTransport ----------------------------
(***************************************************************************)
(* TcpTransport (src/TcpTransport.cpp): sendRequest on one or more calling *)
(* threads, disconnect() on another, and the callbacks that libhv's loop   *)
(* thread makes.  Everything done under m_clientMutex or m_bufferMutex is  *)
(* one step, except the reconnection, whose stores to the atomics          *)
(* m_connected and m_connectFailed race with the callbacks.                *)
(***************************************************************************)
EXTENDS HvClient

CONSTANTS
  Callers,          \* threads that call sendRequest
  MaxCalls,         \* bound: calls of sendRequest
  MaxDisconnects,   \* bound: calls of disconnect()
  MaxPolls          \* the connect timeout, in waits of at most 100 ms

ASSUME TcpAssumption ==
  /\ NoTarget \notin Targets
  /\ MaxCalls \in Nat /\ MaxDisconnects \in Nat /\ MaxPolls \in Nat \ {0}

VARIABLES
  m_connected, m_connectFailed,
  m_current,        \* m_currentHost and m_currentPort; NoTarget when they are cleared
  m_packetQueue,    \* answers, named by the request they answer
  clientMutex,      \* who holds m_clientMutex between steps
  pc, reqId, reqTo, polls,   \* sendRequest: where, the request, its URL, waits so far
  answer,           \* what the last sendRequest returned: a request's answer, 0 for -1
  dPc, needStop,    \* disconnect(): where, and whether the client has been started
  calls, disconnects,
  crashed,          \* a null or destroyed client was dereferenced
  givenUp           \* history: a request was sent and its sendRequest returned -1

flags == <<m_connected, m_connectFailed>>
call == <<reqId, reqTo, polls>>
bounds == <<calls, disconnects>>
closer == <<dPc, needStop>>
vars == <<hv, flags, m_current, m_packetQueue, clientMutex, pc, call, answer, closer, bounds,
          crashed, givenUp>>

Nobody == "nobody"

(* The constructor makes a client that is not connected. *)
Init ==
  /\ HvInit
  /\ m_connected = FALSE /\ m_connectFailed = FALSE
  /\ m_current = NoTarget /\ m_packetQueue = <<>> /\ clientMutex = Nobody
  /\ pc = [c \in Callers |-> "idle"] /\ polls = [c \in Callers |-> 0]
  /\ reqId = [c \in Callers |-> 0] /\ reqTo = [c \in Callers |-> NoTarget]
  /\ answer = [c \in Callers |-> 0]
  /\ dPc = "idle" /\ needStop = FALSE /\ calls = 0 /\ disconnects = 0
  /\ crashed = FALSE /\ givenUp = FALSE

-----------------------------------------------------------------------------
(* What several steps of sendRequest and disconnect do.                    *)

At(c, at) == pc[c] = at /\ ~crashed
Goto(c, at) == pc' = [pc EXCEPT ![c] = at] /\ UNCHANGED <<answer, givenUp>>
MutexFree == clientMutex = Nobody

(* return -1; `sent' is whether the request has gone out. *)
Fail(c, sent) ==
  /\ pc' = [pc EXCEPT ![c] = "idle"]
  /\ answer' = [answer EXCEPT ![c] = 0]
  /\ givenUp' = (givenUp \/ sent)

(* m_packetCondition.notify_all, with caller c going on to `at'. *)
NotifyReceivers(c, at) ==
  [d \in Callers |-> IF d = c THEN at ELSE IF pc[d] = "rxwait" THEN "rxwoken" ELSE pc[d]]

(* disconnectInternal(), after which caller c goes on to `at'. *)
DisconnectInternal(c, at) ==
  /\ m_connected' = (m_connected /\ ~client)
  /\ m_current' = NoTarget
  /\ m_packetQueue' = <<>>
  /\ pc' = NotifyReceivers(c, at)

-----------------------------------------------------------------------------
(* sendRequest, up to the connection                                       *)

(* A URL that does not parse returns -1 here and changes nothing. *)
Call(c, t) ==
  /\ At(c, "idle") /\ calls < MaxCalls
  /\ calls' = calls + 1
  /\ reqId' = [reqId EXCEPT ![c] = calls + 1]
  /\ reqTo' = [reqTo EXCEPT ![c] = t]
  /\ polls' = [polls EXCEPT ![c] = 0]
  /\ Goto(c, "check")
  /\ UNCHANGED <<hv, flags, m_current, m_packetQueue, clientMutex, closer, disconnects, crashed>>

(* receiveResponse() called on its own, for no request. *)
CallReceive(c) ==
  /\ At(c, "idle") /\ calls < MaxCalls
  /\ calls' = calls + 1
  /\ reqId' = [reqId EXCEPT ![c] = 0]
  /\ Goto(c, "receive")
  /\ UNCHANGED <<hv, flags, m_current, m_packetQueue, clientMutex, reqTo, polls, closer, disconnects,
                 crashed>>

(* Mutant: the connection is kept whatever host it leads to. *)
NeedReconnectIgnoresHost(c) == ~m_connected

(* needReconnect, l.184 *)
NeedReconnect(c) == ~m_connected \/ m_current # reqTo[c]

Check(c) ==
  /\ At(c, "check") /\ MutexFree
  /\ Goto(c, IF ~client THEN "recreate" ELSE IF NeedReconnect(c) THEN "close" ELSE "wait")
  /\ UNCHANGED <<hv, flags, m_current, m_packetQueue, clientMutex, call, closer, bounds, crashed>>

(* A client that is replaced here is destroyed, which waits for its loop. *)
Recreate(c) ==
  /\ At(c, "recreate") /\ MutexFree /\ cb = NoCallback
  /\ client' = TRUE /\ chan' = NoChannel
  /\ m_connected' = FALSE
  /\ Goto(c, "close")
  /\ UNCHANGED <<cb, oldCb, m_connectFailed, m_current, m_packetQueue, clientMutex, call, closer,
                 bounds, crashed>>

ReconnectClose(c) ==
  /\ At(c, "close") /\ MutexFree
  /\ clientMutex' = c
  /\ DisconnectInternal(c, "reset")
  /\ UNCHANGED <<hv, m_connectFailed, call, answer, closer, bounds, crashed, givenUp>>

(* l.224: m_client->setConnectTimeout, whether there is a client or not. *)
ReconnectReset(c) ==
  /\ At(c, "reset")
  /\ IF client THEN m_connectFailed' = FALSE /\ UNCHANGED crashed
     ELSE crashed' = TRUE /\ UNCHANGED m_connectFailed
  /\ Goto(c, "open")
  /\ UNCHANGED <<hv, m_connected, m_current, m_packetQueue, clientMutex, call, closer, bounds>>

(* createsocket and start; createsocket may fail. *)
ReconnectOpen(c) ==
  /\ At(c, "open")
  /\ clientMutex' = Nobody
  /\ \/ /\ OpenChannel(reqTo[c])
        /\ m_current' = reqTo[c]
        /\ Goto(c, "wait")
     \/ Fail(c, FALSE) /\ UNCHANGED <<chan, m_current>>
  /\ UNCHANGED <<client, cb, oldCb, flags, m_packetQueue, call, closer, bounds, crashed>>

(* The test of l.259 and the one inside the loop. *)
WaitTest(c) ==
  /\ At(c, "wait") /\ MutexFree
  /\ \/ m_connected /\ Goto(c, "connected")
     \/ ~m_connected /\ m_connectFailed /\ Fail(c, FALSE)
     \/ ~m_connected /\ ~m_connectFailed /\ Goto(c, "waiting")
  /\ UNCHANGED <<hv, flags, m_current, m_packetQueue, clientMutex, call, closer, bounds, crashed>>

(* wait_for has returned, notified or after 100 ms.  A timeout closes the  *)
(* connection; it may come early, and does not come later than MaxPolls.   *)
WaitTimeout(c) ==
  /\ At(c, "waiting") /\ MutexFree
  /\ DisconnectInternal(c, "idle")
  /\ answer' = [answer EXCEPT ![c] = 0]
  /\ UNCHANGED <<hv, m_connectFailed, clientMutex, call, closer, bounds, crashed, givenUp>>

(* Mutant: the elapsed time is not compared with the timeout. *)
WaitAgainForever(c) ==
  /\ At(c, "waiting") /\ MutexFree
  /\ polls' = [polls EXCEPT ![c] = @ + 1]
  /\ IF client /\ chan.st = "up" THEN m_connected' = TRUE /\ Goto(c, "connected")
     ELSE Goto(c, "wait") /\ UNCHANGED m_connected
  /\ UNCHANGED <<hv, m_connectFailed, m_current, m_packetQueue, clientMutex, reqId, reqTo, closer,
                 bounds, crashed>>

WaitAgain(c) ==
  /\ At(c, "waiting") /\ MutexFree /\ polls[c] < MaxPolls
  /\ polls' = [polls EXCEPT ![c] = @ + 1]
  /\ IF client /\ chan.st = "up" THEN m_connected' = TRUE /\ Goto(c, "connected")
     ELSE Goto(c, "wait") /\ UNCHANGED m_connected
  /\ UNCHANGED <<hv, m_connectFailed, m_current, m_packetQueue, clientMutex, reqId, reqTo, closer,
                 bounds, crashed>>

-----------------------------------------------------------------------------
(* sendRequest, from the connection on                                     *)

(* l.300 *)
Connected(c) ==
  /\ At(c, "connected")
  /\ IF m_connected THEN Goto(c, "send") ELSE Fail(c, FALSE)
  /\ UNCHANGED <<hv, flags, m_current, m_packetQueue, clientMutex, call, closer, bounds, crashed>>

(* The framed request goes out on whatever channel the client has. *)
Send(c) ==
  /\ At(c, "send") /\ MutexFree
  /\ IF client /\ chan.st = "up"
     THEN /\ chan' = [chan EXCEPT !.inbox = Append(@, reqId[c])]
          /\ Goto(c, "sent")
          /\ UNCHANGED m_connected
     ELSE /\ m_connected' = (m_connected /\ ~client)
          /\ Fail(c, FALSE)
          /\ UNCHANGED chan
  /\ UNCHANGED <<client, cb, oldCb, m_connectFailed, m_current, m_packetQueue, clientMutex, call,
                 closer, bounds, crashed>>

(* l.353 and the test of m_client in l.361, neither under the mutex. *)
Sent(c) ==
  /\ At(c, "sent")
  /\ \/ ~m_connected /\ Fail(c, reqId[c] # 0)
     \/ m_connected /\ client /\ Goto(c, "channel")
     \/ m_connected /\ ~client /\ Goto(c, "receive")
  /\ UNCHANGED <<hv, flags, m_current, m_packetQueue, clientMutex, call, closer, bounds, crashed>>

(* m_client->channel, and the timeouts set on it. *)
UseChannel(c) ==
  /\ At(c, "channel")
  /\ crashed' = ~client
  /\ Goto(c, "receive")
  /\ UNCHANGED <<hv, flags, m_current, m_packetQueue, clientMutex, call, closer, bounds>>

(* receiveResponseWithTimeout; it fails too if its timeout is not positive. *)
Receive(c) ==
  /\ At(c, "receive")
  /\ \/ m_connected /\ Goto(c, "rx")
     \/ Fail(c, reqId[c] # 0)
  /\ UNCHANGED <<hv, flags, m_current, m_packetQueue, clientMutex, call, closer, bounds, crashed>>

(* Mutant: front() without pop(). *)
PopPacketKeepsFront(c) ==
  /\ m_packetQueue # <<>>
  /\ answer' = [answer EXCEPT ![c] = Head(m_packetQueue)]
  /\ pc' = [pc EXCEPT ![c] = "idle"]
  /\ UNCHANGED <<givenUp, m_packetQueue>>

(* A packet that is too short for a length is taken and then fails the call. *)
PopPacket(c) ==
  /\ m_packetQueue # <<>>
  /\ m_packetQueue' = Tail(m_packetQueue)
  /\ \/ /\ answer' = [answer EXCEPT ![c] = Head(m_packetQueue)]
        /\ pc' = [pc EXCEPT ![c] = "idle"]
        /\ UNCHANGED givenUp
     \/ Fail(c, reqId[c] # 0)

(* The first test of the queue; an empty one is waited on once. *)
ReceiveTest(c) ==
  /\ At(c, "rx")
  /\ \/ PopPacket(c)
     \/ m_packetQueue = <<>> /\ Goto(c, "rxwait") /\ UNCHANGED m_packetQueue
  /\ UNCHANGED <<hv, flags, m_current, clientMutex, call, closer, bounds, crashed>>

(* Mutant: wait instead of wait_for. *)
ReceiveTimeoutNever(c) == FALSE /\ UNCHANGED vars

ReceiveTimeout(c) ==
  /\ At(c, "rxwait")
  /\ Fail(c, reqId[c] # 0)
  /\ UNCHANGED <<hv, flags, m_current, m_packetQueue, clientMutex, call, closer, bounds, crashed>>

SpuriousWakeup(c) ==
  /\ At(c, "rxwait")
  /\ Goto(c, "rxwoken")
  /\ UNCHANGED <<hv, flags, m_current, m_packetQueue, clientMutex, call, closer, bounds, crashed>>

ReceiveWoken(c) ==
  /\ At(c, "rxwoken")
  /\ \/ PopPacket(c)
     \/ m_packetQueue = <<>> /\ Fail(c, reqId[c] # 0) /\ UNCHANGED m_packetQueue
  /\ UNCHANGED <<hv, flags, m_current, clientMutex, call, closer, bounds, crashed>>

SendRequest(c) ==
  \/ Check(c) \/ Recreate(c) \/ ReconnectClose(c) \/ ReconnectReset(c) \/ ReconnectOpen(c)
  \/ WaitTest(c) \/ WaitTimeout(c) \/ WaitAgain(c)
  \/ Connected(c) \/ Send(c) \/ Sent(c) \/ UseChannel(c)
  \/ Receive(c) \/ ReceiveTest(c) \/ ReceiveTimeout(c) \/ ReceiveWoken(c)

-----------------------------------------------------------------------------
(* disconnect(), on a thread of its own                                    *)

(* Take the callbacks off and move the client out of m_client. *)
DisconnectBegin ==
  /\ dPc = "idle" /\ disconnects < MaxDisconnects /\ MutexFree /\ ~crashed
  /\ disconnects' = disconnects + 1
  /\ MoveOut
  /\ needStop' = (client /\ m_current # NoTarget)
  /\ m_connected' = FALSE /\ m_connectFailed' = TRUE
  /\ m_current' = NoTarget
  /\ dPc' = "stop"
  /\ UNCHANGED <<m_packetQueue, clientMutex, pc, call, answer, calls, crashed, givenUp>>

(* stop() waits for the loop thread, which ends the callback it is in; it  *)
(* is skipped when m_current says that the client was never started.       *)
DisconnectClear ==
  /\ dPc = "stop" /\ (needStop => oldCb = NoCallback) /\ ~crashed
  /\ m_packetQueue' = <<>>
  /\ pc' = [c \in Callers |-> IF pc[c] = "rxwait" THEN "rxwoken" ELSE pc[c]]
  /\ dPc' = "destroy"
  /\ UNCHANGED <<hv, flags, m_current, clientMutex, call, answer, needStop, bounds, crashed, givenUp>>

(* The client goes out of scope, and its destructor waits for the loop. *)
DisconnectReturn ==
  /\ dPc = "destroy" /\ oldCb = NoCallback /\ ~crashed
  /\ dPc' = "idle" /\ needStop' = FALSE
  /\ UNCHANGED <<hv, flags, m_current, m_packetQueue, clientMutex, pc, call, answer, bounds,
                 crashed, givenUp>>

-----------------------------------------------------------------------------
(* The loop thread and the callbacks                                       *)

ChannelStep ==
  /\ ~crashed
  /\ ChannelUp \/ ChannelDown \/ ChannelMessage
  /\ UNCHANGED <<flags, m_current, m_packetQueue, clientMutex, pc, call, answer, closer, bounds,
                 crashed, givenUp>>

Receivers == {c \in Callers : pc[c] = "rxwait"}

(* onConnection and onMessage; notify_one wakes one receiver. *)
RunCallback(callback) ==
  /\ callback # NoCallback /\ ~crashed
  /\ CASE callback.kind = "up" ->
            m_connected' = TRUE /\ UNCHANGED <<m_connectFailed, m_packetQueue, pc>>
       [] callback.kind = "down" ->
            m_connected' = FALSE /\ m_connectFailed' = TRUE /\ UNCHANGED <<m_packetQueue, pc>>
       [] callback.kind = "message" ->
            /\ m_packetQueue' = Append(m_packetQueue, callback.id)
            /\ IF Receivers = {} THEN UNCHANGED pc
               ELSE \E c \in Receivers : pc' = [pc EXCEPT ![c] = "rxwoken"]
            /\ UNCHANGED flags
  /\ UNCHANGED <<client, chan, m_current, clientMutex, call, answer, closer, bounds, crashed, givenUp>>

Callback == RunCallback(cb) /\ cb' = NoCallback /\ UNCHANGED oldCb
OldCallback == RunCallback(oldCb) /\ oldCb' = NoCallback /\ UNCHANGED cb

Next ==
  \/ \E c \in Callers : (\E t \in Targets : Call(c, t)) \/ CallReceive(c) \/ SendRequest(c) \/ SpuriousWakeup(c)
  \/ DisconnectBegin \/ DisconnectClear \/ DisconnectReturn
  \/ ChannelStep
  \/ Callback \/ OldCallback

Spec == Init /\ [][Next]_vars

(* A running thread takes its next step, a wait_for returns when its time  *)
(* is over (WaitTimeout, WaitAgain and ReceiveTimeout are such returns),   *)
(* and a callback that has begun ends.  Nothing is asked of the peer.      *)
Fairness ==
  /\ \A c \in Callers : WF_vars(SendRequest(c))
  /\ WF_vars(DisconnectClear \/ DisconnectReturn)
  /\ WF_vars(Callback) /\ WF_vars(OldCallback)

FairSpec == Spec /\ Fairness

-----------------------------------------------------------------------------
(* Every variable has its type. *)
TypeOK ==
  /\ HvTypeOK
  /\ m_connected \in BOOLEAN /\ m_connectFailed \in BOOLEAN
  /\ m_current \in Targets \cup {NoTarget}
  /\ m_packetQueue \in Seq(1 .. MaxCalls)
  /\ clientMutex \in Callers \cup {Nobody}
  /\ pc \in [Callers -> {"idle", "check", "recreate", "close", "reset", "open", "wait", "waiting",
                         "connected", "send", "sent", "channel", "receive", "rx", "rxwait", "rxwoken"}]
  /\ reqId \in [Callers -> 0 .. MaxCalls] /\ answer \in [Callers -> 0 .. MaxCalls]
  /\ reqTo \in [Callers -> Targets \cup {NoTarget}]
  /\ polls \in [Callers -> 0 .. MaxPolls]
  /\ dPc \in {"idle", "stop", "destroy"} /\ needStop \in BOOLEAN /\ calls \in 0 .. MaxCalls /\ disconnects \in 0 .. MaxDisconnects
  /\ crashed \in BOOLEAN /\ givenUp \in BOOLEAN

(* A request goes to the host its URL names, whatever late callback of an   *)
(* older connection sets m_connected and whenever disconnect() interferes.  *)
SentToOwnHost ==
  [][\A c \in Callers : pc[c] = "send" /\ pc'[c] = "sent" => chan.to = reqTo[c]]_vars

(* As long as no request has been given up, a sendRequest that returns 0    *)
(* returns the answer to its own request, and receiveResponse() finds none: *)
(* neither reconnecting nor disconnecting leaves an answer behind.          *)
OwnAnswerUnlessGivenUp ==
  ~givenUp => \A c \in Callers : pc[c] = "idle" => answer[c] \in {0, reqId[c]}

(* sendRequest has a connection of its own for each request (the comment of *)
(* connect(), l.472), so that the packet it takes is the answer to it.      *)
OwnAnswer == \A c \in Callers : pc[c] = "idle" => answer[c] \in {0, reqId[c]}

(* sendRequest returns, whatever the peer does, unless the process dies. *)
Returns == \A c \in Callers : pc[c] # "idle" ~> (pc[c] = "idle" \/ crashed)

=============================================================================
