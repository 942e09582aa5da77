------------------------- MODULE WebSocketTransport -------------------------
(***************************************************************************)
(* WebSocketTransport (src/WebSocketTransport.cpp): sendRequest on calling *)
(* threads, disconnect() on another, and the callbacks of libhv's loop     *)
(* thread.  Everything done under m_clientMutex or m_messageMutex is one   *)
(* step, except the reconnection, which is split where it stores           *)
(* m_connectFailed and where it opens the new channel.                     *)
(***************************************************************************)
EXTENDS HvClient

CONSTANTS
  Callers,          \* threads that call sendRequest or receiveResponse
  MaxCalls,         \* bound: calls of sendRequest and receiveResponse
  MaxDisconnects,   \* bound: calls of disconnect()
  MaxPolls          \* the connect timeout, in waits of at most 100 ms

ASSUME WebSocketAssumption ==
  /\ NoTarget \notin Targets
  /\ MaxCalls \in Nat /\ MaxDisconnects \in Nat /\ MaxPolls \in Nat \ {0}

VARIABLES
  m_connected, m_connectFailed,
  m_currentUrl,     \* NoTarget when it is cleared
  m_messageQueue,   \* messages, named by the request they answer
  clientMutex,      \* who holds m_clientMutex between steps
  pc, polls,        \* sendRequest: where, waits so far
  reqId, reqUrl,    \*   the request, 0 if it has no body, and its URL
  answer,           \* what the last call returned: a request's answer, 0 for -1
  dPc,              \* disconnect(): where
  calls, disconnects,
  crashed,          \* onopen dereferenced a client that disconnect() had taken away
  givenUp           \* history: a request was sent and its sendRequest returned -1

flags == <<m_connected, m_connectFailed>>
call == <<reqId, reqUrl, polls>>
bounds == <<calls, disconnects>>
vars == <<hv, flags, m_currentUrl, m_messageQueue, clientMutex, pc, call, answer, dPc, bounds,
          crashed, givenUp>>

Nobody == "nobody"

(* The constructors make a client that is not connected. *)
Init ==
  /\ HvInit
  /\ m_connected = FALSE /\ m_connectFailed = FALSE
  /\ m_currentUrl = NoTarget /\ m_messageQueue = <<>> /\ clientMutex = Nobody
  /\ pc = [c \in Callers |-> "idle"] /\ polls = [c \in Callers |-> 0]
  /\ reqId = [c \in Callers |-> 0] /\ reqUrl = [c \in Callers |-> NoTarget]
  /\ answer = [c \in Callers |-> 0]
  /\ dPc = "idle" /\ calls = 0 /\ disconnects = 0
  /\ crashed = FALSE /\ givenUp = FALSE

At(c, at) == pc[c] = at /\ ~crashed
Goto(c, at) == pc' = [pc EXCEPT ![c] = at] /\ UNCHANGED <<answer, givenUp>>
MutexFree == clientMutex = Nobody

(* return -1; `sent' is whether the request has gone out. *)
Fail(c, sent) ==
  /\ pc' = [pc EXCEPT ![c] = "idle"]
  /\ answer' = [answer EXCEPT ![c] = 0]
  /\ givenUp' = (givenUp \/ sent)

-----------------------------------------------------------------------------
(* sendRequest, up to the connection                                       *)

(* A request with or without a body.  A URL that does not parse, or whose   *)
(* scheme is not ws or wss, returns -1 here and changes nothing.            *)
Call(c, url, body) ==
  /\ At(c, "idle") /\ calls < MaxCalls
  /\ calls' = calls + 1
  /\ reqId' = [reqId EXCEPT ![c] = IF body THEN calls + 1 ELSE 0]
  /\ reqUrl' = [reqUrl EXCEPT ![c] = url]
  /\ polls' = [polls EXCEPT ![c] = 0]
  /\ Goto(c, "create")
  /\ UNCHANGED <<hv, flags, m_currentUrl, m_messageQueue, clientMutex, dPc, disconnects, crashed>>

(* l.264-288: a new client if disconnect() has taken the old one away. *)
Create(c) ==
  /\ At(c, "create") /\ MutexFree
  /\ IF client THEN UNCHANGED <<client, chan, flags, m_currentUrl>>
     ELSE /\ client' = TRUE /\ chan' = NoChannel
          /\ m_connected' = FALSE /\ m_connectFailed' = FALSE
          /\ m_currentUrl' = NoTarget
  /\ Goto(c, "check")
  /\ UNCHANGED <<cb, oldCb, m_messageQueue, clientMutex, call, dPc, bounds, crashed>>

(* Mutant: the connection is kept whatever URL it was opened for. *)
NeedReconnectIgnoresUrl(c) == ~m_connected

(* l.305 *)
NeedReconnect(c) == ~m_connected \/ m_currentUrl # reqUrl[c]

(* l.295-321.  m_connected is not touched: it keeps the state of the        *)
(* connection that is being replaced.                                       *)
Check(c) ==
  /\ At(c, "check") /\ MutexFree
  /\ \/ /\ ~client /\ Fail(c, FALSE)
        /\ UNCHANGED <<m_messageQueue, m_currentUrl, m_connectFailed, clientMutex>>
     \/ /\ client /\ ~NeedReconnect(c)
        /\ Goto(c, "wait")
        /\ UNCHANGED <<m_messageQueue, m_currentUrl, m_connectFailed, clientMutex>>
     \/ /\ client /\ NeedReconnect(c)
        /\ m_messageQueue' = <<>>
        /\ m_currentUrl' = reqUrl[c]
        /\ m_connectFailed' = FALSE
        /\ clientMutex' = c
        /\ Goto(c, "open")
  /\ UNCHANGED <<hv, m_connected, call, dPc, bounds, crashed>>

(* open(), which may fail.  libhv closes the channel it has before it makes  *)
(* a new one, so the old one is gone even then (external); m_connected and  *)
(* m_currentUrl stay as they are.                                           *)
Open(c) ==
  /\ At(c, "open")
  /\ clientMutex' = Nobody
  /\ \/ OpenChannel(reqUrl[c]) /\ Goto(c, "wait")
     \/ Fail(c, FALSE) /\ chan' = [chan EXCEPT !.st = "closed", !.inbox = <<>>]
  /\ UNCHANGED <<client, cb, oldCb, flags, m_currentUrl, m_messageQueue, call, dPc, bounds, crashed>>

WaitTest(c) ==
  /\ At(c, "wait") /\ MutexFree
  /\ Goto(c, IF m_connected THEN "connected" ELSE "waiting")
  /\ UNCHANGED <<hv, flags, m_currentUrl, m_messageQueue, clientMutex, call, dPc, bounds, crashed>>

(* wait_for has returned, notified or after 100 ms: the connection has      *)
(* failed, or the timeout, which is positive, is over (it may come early,   *)
(* and does not come later than MaxPolls).  Neither closes the channel.     *)
WaitFails(c) ==
  /\ At(c, "waiting") /\ MutexFree
  /\ Fail(c, FALSE)
  /\ UNCHANGED <<hv, flags, m_currentUrl, m_messageQueue, clientMutex, call, dPc, bounds, crashed>>

WaitAgain(c) ==
  /\ At(c, "waiting") /\ MutexFree /\ ~m_connectFailed /\ polls[c] < MaxPolls
  /\ polls' = [polls EXCEPT ![c] = @ + 1]
  /\ IF client /\ chan.st = "up" THEN m_connected' = TRUE /\ Goto(c, "connected")
     ELSE Goto(c, "wait") /\ UNCHANGED m_connected
  /\ UNCHANGED <<hv, m_connectFailed, m_currentUrl, m_messageQueue, clientMutex, reqId, reqUrl, dPc,
                 bounds, crashed>>

-----------------------------------------------------------------------------
(* sendRequest, from the connection on                                     *)

(* l.390; a request without a body goes straight to receiveResponse. *)
Connected(c) ==
  /\ At(c, "connected")
  /\ IF m_connected THEN Goto(c, IF reqId[c] = 0 THEN "receive" ELSE "send") ELSE Fail(c, FALSE)
  /\ UNCHANGED <<hv, flags, m_currentUrl, m_messageQueue, clientMutex, call, dPc, bounds, crashed>>

(* The client takes the message: on an open channel for the peer; on one    *)
(* that is still connecting it may take it too, and then it is lost.        *)
Accepted(c) ==
  /\ client
  /\ \/ chan.st = "up" /\ chan' = [chan EXCEPT !.inbox = Append(@, reqId[c])]
     \/ chan.st = "connecting" /\ UNCHANGED chan
  /\ Goto(c, "receive")
  /\ UNCHANGED m_connected

(* No client, or send() returns an error. *)
Refused(c) ==
  /\ ~client \/ chan.st # "up"
  /\ m_connected' = (m_connected /\ ~client)
  /\ Fail(c, FALSE)
  /\ UNCHANGED chan

Send(c) ==
  /\ At(c, "send") /\ MutexFree
  /\ Accepted(c) \/ Refused(c)
  /\ UNCHANGED <<client, cb, oldCb, m_connectFailed, m_currentUrl, m_messageQueue, clientMutex, call,
                 dPc, bounds, crashed>>

(* receiveResponse() called on its own, for no request. *)
CallReceive(c) ==
  /\ At(c, "idle") /\ calls < MaxCalls
  /\ calls' = calls + 1
  /\ reqId' = [reqId EXCEPT ![c] = 0]
  /\ Goto(c, "receive")
  /\ UNCHANGED <<hv, flags, m_currentUrl, m_messageQueue, clientMutex, reqUrl, polls, dPc, disconnects,
                 crashed>>

(* Mutant: front() without pop(). *)
PopMessageKeepsFront(c) ==
  /\ m_messageQueue # <<>>
  /\ answer' = [answer EXCEPT ![c] = Head(m_messageQueue)]
  /\ pc' = [pc EXCEPT ![c] = "idle"]
  /\ UNCHANGED <<givenUp, m_messageQueue>>

PopMessage(c) ==
  /\ m_messageQueue # <<>>
  /\ answer' = [answer EXCEPT ![c] = Head(m_messageQueue)]
  /\ m_messageQueue' = Tail(m_messageQueue)
  /\ pc' = [pc EXCEPT ![c] = "idle"]
  /\ UNCHANGED givenUp

(* receiveResponse: the connection and the queue are tested under           *)
(* m_messageMutex, and an empty queue is waited on once.                    *)
Receive(c) ==
  /\ At(c, "receive")
  /\ \/ ~m_connected /\ Fail(c, reqId[c] # 0) /\ UNCHANGED m_messageQueue
     \/ m_connected /\ PopMessage(c)
     \/ m_connected /\ m_messageQueue = <<>> /\ Goto(c, "rxwait") /\ UNCHANGED m_messageQueue
  /\ UNCHANGED <<hv, flags, m_currentUrl, clientMutex, call, dPc, bounds, crashed>>

(* Mutant: wait instead of wait_for. *)
ReceiveTimeoutNever(c) == FALSE /\ UNCHANGED vars

ReceiveTimeout(c) ==
  /\ At(c, "rxwait")
  /\ Fail(c, reqId[c] # 0)
  /\ UNCHANGED <<hv, flags, m_currentUrl, m_messageQueue, clientMutex, call, dPc, bounds, crashed>>

SpuriousWakeup(c) ==
  /\ At(c, "rxwait")
  /\ Goto(c, "rxwoken")
  /\ UNCHANGED <<hv, flags, m_currentUrl, m_messageQueue, clientMutex, call, dPc, bounds, crashed>>

ReceiveWoken(c) ==
  /\ At(c, "rxwoken")
  /\ \/ PopMessage(c)
     \/ m_messageQueue = <<>> /\ Fail(c, reqId[c] # 0) /\ UNCHANGED m_messageQueue
  /\ UNCHANGED <<hv, flags, m_currentUrl, clientMutex, call, dPc, bounds, crashed>>

SendRequest(c) ==
  \/ Create(c) \/ Check(c) \/ Open(c) \/ WaitTest(c) \/ WaitFails(c) \/ WaitAgain(c)
  \/ Connected(c) \/ Send(c) \/ Receive(c) \/ ReceiveTimeout(c) \/ ReceiveWoken(c)

-----------------------------------------------------------------------------
(* disconnect(), on a thread of its own                                    *)

DisconnectBegin ==
  /\ dPc = "idle" /\ disconnects < MaxDisconnects /\ MutexFree /\ ~crashed
  /\ disconnects' = disconnects + 1
  /\ MoveOut
  /\ m_connected' = FALSE /\ m_connectFailed' = TRUE
  /\ m_currentUrl' = NoTarget
  /\ dPc' = "clear"
  /\ UNCHANGED <<m_messageQueue, clientMutex, pc, call, answer, calls, crashed, givenUp>>

(* close() does not wait for the loop. *)
DisconnectClear ==
  /\ dPc = "clear" /\ ~crashed
  /\ m_messageQueue' = <<>>
  /\ pc' = [c \in Callers |-> IF pc[c] = "rxwait" THEN "rxwoken" ELSE pc[c]]
  /\ dPc' = "destroy"
  /\ UNCHANGED <<hv, flags, m_currentUrl, clientMutex, call, answer, bounds, crashed, givenUp>>

(* The client goes out of scope, and its destructor waits for the loop. *)
DisconnectReturn ==
  /\ dPc = "destroy" /\ oldCb = NoCallback /\ ~crashed
  /\ dPc' = "idle"
  /\ UNCHANGED <<hv, flags, m_currentUrl, m_messageQueue, clientMutex, pc, call, answer, bounds,
                 crashed, givenUp>>

-----------------------------------------------------------------------------
(* The loop thread and the callbacks                                       *)

ChannelStep ==
  /\ ~crashed
  /\ ChannelUp \/ ChannelDown \/ ChannelMessage
  /\ UNCHANGED <<flags, m_currentUrl, m_messageQueue, clientMutex, pc, call, answer, dPc, bounds,
                 crashed, givenUp>>

Receivers == {c \in Callers : pc[c] = "rxwait"}

(* onopen, onclose and onmessage.  onopen tests m_client without the mutex  *)
(* and then, in a second step ("opened"), uses it.                          *)
RunCallback(callback) ==
  /\ callback # NoCallback /\ ~crashed
  /\ CASE callback.kind = "up" ->
            m_connected' = TRUE /\ UNCHANGED <<m_connectFailed, m_messageQueue, pc, crashed>>
       [] callback.kind = "opened" ->
            crashed' = ~client /\ UNCHANGED <<flags, m_messageQueue, pc>>
       [] callback.kind = "down" ->
            m_connected' = FALSE /\ m_connectFailed' = TRUE /\ UNCHANGED <<m_messageQueue, pc, crashed>>
       [] callback.kind = "message" ->
            /\ m_messageQueue' = Append(m_messageQueue, callback.id)
            /\ IF Receivers = {} THEN UNCHANGED pc
               ELSE \E c \in Receivers : pc' = [pc EXCEPT ![c] = "rxwoken"]
            /\ UNCHANGED <<flags, crashed>>
  /\ UNCHANGED <<client, chan, m_currentUrl, clientMutex, call, answer, dPc, bounds, givenUp>>

After(callback) ==
  IF callback.kind = "up" /\ client THEN [callback EXCEPT !.kind = "opened"] ELSE NoCallback

Callback == RunCallback(cb) /\ cb' = After(cb) /\ UNCHANGED oldCb
OldCallback == RunCallback(oldCb) /\ oldCb' = After(oldCb) /\ UNCHANGED cb

Next ==
  \/ \E c \in Callers : \/ \E url \in Targets, body \in BOOLEAN : Call(c, url, body)
                        \/ CallReceive(c) \/ SendRequest(c) \/ SpuriousWakeup(c)
  \/ DisconnectBegin \/ DisconnectClear \/ DisconnectReturn
  \/ ChannelStep
  \/ Callback \/ OldCallback

Spec == Init /\ [][Next]_vars

(* As in TcpTransport: threads run, timed waits end, callbacks return.      *)
Fairness ==
  /\ \A c \in Callers : WF_vars(SendRequest(c))
  /\ WF_vars(DisconnectClear \/ DisconnectReturn)
  /\ WF_vars(Callback) /\ WF_vars(OldCallback)

FairSpec == Spec /\ Fairness

-----------------------------------------------------------------------------
(* Every variable has its type. *)
TypeOK ==
  /\ HvTypeOK
  /\ m_connected \in BOOLEAN /\ m_connectFailed \in BOOLEAN
  /\ m_currentUrl \in Targets \cup {NoTarget}
  /\ m_messageQueue \in Seq(1 .. MaxCalls)
  /\ clientMutex \in Callers \cup {Nobody}
  /\ pc \in [Callers -> {"idle", "create", "check", "open", "wait", "waiting", "connected", "send",
                         "receive", "rxwait", "rxwoken"}]
  /\ reqId \in [Callers -> 0 .. MaxCalls] /\ answer \in [Callers -> 0 .. MaxCalls]
  /\ reqUrl \in [Callers -> Targets \cup {NoTarget}]
  /\ polls \in [Callers -> 0 .. MaxPolls]
  /\ dPc \in {"idle", "clear", "destroy"}
  /\ calls \in 0 .. MaxCalls /\ disconnects \in 0 .. MaxDisconnects
  /\ crashed \in BOOLEAN /\ givenUp \in BOOLEAN

(* A message never reaches the peer of another URL, although m_connected    *)
(* may still speak of the previous connection.                              *)
SentToOwnUrl ==
  [][\A c \in Callers : pc[c] = "send" /\ pc'[c] = "receive" => chan.to = reqUrl[c]]_vars

(* As long as no request has been given up, what sendRequest returns is the *)
(* answer to its own request, and receiveResponse() finds none.             *)
OwnAnswerUnlessGivenUp ==
  ~givenUp => \A c \in Callers : pc[c] = "idle" => answer[c] \in {0, reqId[c]}

(* sendRequest, and receiveResponse, return, whatever the peer does, unless *)
(* the process dies.                                                        *)
Returns == \A c \in Callers : pc[c] # "idle" ~> (pc[c] = "idle" \/ crashed)

(* A request is sent once the connection to its URL has been opened or has  *)
(* been lost again, never while it is still being made (l.347, "wait until  *)
(* the connection is established").                                         *)
SendWaitsForOpen ==
  [][\A c \in Callers : pc[c] = "send" /\ pc'[c] # "send" => chan.st # "connecting"]_vars

=============================================================================
