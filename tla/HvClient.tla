------------------------------ MODULE HvClient ------------------------------
(***************************************************************************)
(* libhv's TcpClient and WebSocketClient and their loop thread, as far as  *)
(* src/TcpTransport.cpp and src/WebSocketTransport.cpp use them.  This     *)
(* module is external: libhv is not part of the repository.                *)
(*                                                                         *)
(* A client has one channel at a time, which comes up, carries answers and *)
(* goes down.  A callback is a step of its own after the event it reports  *)
(* (cb), on the loop thread; a client that is being closed may still be in *)
(* one (oldCb).  Closing a channel only asks the loop to do so, which      *)
(* ChannelDown may do at any time anyway; opening one replaces the         *)
(* channel, and the old one makes no further callbacks.                    *)
(***************************************************************************)
EXTENDS Naturals, Sequences

CONSTANTS
  Targets,          \* what a channel can lead to: host:port pairs or URLs
  NoTarget

VARIABLES
  client,           \* m_client is not null
  chan,             \* its channel: peer, state, and the requests the peer has not answered
  cb,               \* the callback the loop of m_client is in
  oldCb             \* the same for the client that disconnect() is closing

hv == <<client, chan, cb, oldCb>>

NoChannel == [to |-> NoTarget, st |-> "closed", inbox |-> <<>>]
NoCallback == [kind |-> "none", id |-> 0]

HvInit == client = TRUE /\ chan = NoChannel /\ cb = NoCallback /\ oldCb = NoCallback

HvTypeOK ==
  /\ client \in BOOLEAN
  /\ chan.to \in Targets \cup {NoTarget} /\ chan.st \in {"closed", "connecting", "up"}
  /\ chan.inbox \in Seq(Nat)
  /\ {cb.kind, oldCb.kind} \subseteq {"none", "up", "opened", "down", "message"}
  /\ {cb.id, oldCb.id} \subseteq Nat

(* createsocket and start, or open. *)
OpenChannel(t) == chan' = [to |-> t, st |-> "connecting", inbox |-> <<>>]

(* The callbacks are taken off and the client leaves m_client; a callback  *)
(* that has begun goes on.                                                 *)
MoveOut ==
  IF client THEN client' = FALSE /\ oldCb' = cb /\ cb' = NoCallback /\ chan' = NoChannel
  ELSE UNCHANGED hv

LoopFree == client /\ cb = NoCallback

ChannelUp ==
  /\ LoopFree /\ chan.st = "connecting"
  /\ chan' = [chan EXCEPT !.st = "up"]
  /\ cb' = [kind |-> "up", id |-> 0]
  /\ UNCHANGED <<client, oldCb>>

(* Refused, closed by the peer, timed out, or closed by the transport. *)
ChannelDown ==
  /\ LoopFree /\ chan.st # "closed"
  /\ chan' = [chan EXCEPT !.st = "closed", !.inbox = <<>>]
  /\ cb' = [kind |-> "down", id |-> 0]
  /\ UNCHANGED <<client, oldCb>>

(* The peer answers its requests in order. *)
ChannelMessage ==
  /\ LoopFree /\ chan.st = "up" /\ chan.inbox # <<>>
  /\ chan' = [chan EXCEPT !.inbox = Tail(@)]
  /\ cb' = [kind |-> "message", id |-> Head(chan.inbox)]
  /\ UNCHANGED <<client, oldCb>>

=============================================================================
