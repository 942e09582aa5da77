--------------------------- MODULE ResponseWriter ---------------------------
(***************************************************************************)
(* libhv's HttpResponseWriter and the IO loop it belongs to, as far as     *)
(* src/Router.cpp and src/StreamTransfer.cpp use them.  This module is     *)
(* external: libhv is not part of the repository.                          *)
(*                                                                         *)
(* A write either goes out at once, and then the onwrite callback runs     *)
(* inside the call; or it stays in the write buffer until the socket is    *)
(* writable; or it fails, and then the connection is closed.               *)
(***************************************************************************)
EXTENDS Naturals, Sequences

VARIABLES
  connected,    \* isConnected()
  closing,      \* the connection is to be closed once the buffer is empty
  closeReported,\* the loop has reported the closed connection to onclose
  wstate,       \* state: SEND_BEGIN, SEND_HEADER/SEND_BODY, SEND_END
  pending,      \* ~isWriteComplete()
  onwrite,      \* the callback is set
  onclose,      \* the callback is set
  posted,       \* custom events posted to the loop, in order
  sent,         \* how many body chunks were accepted by WriteBody
  keepAlive     \* the request did not say Connection: close

connection == <<connected, closing, closeReported>>
writerVars == <<connection, wstate, pending, onwrite, onclose, posted, sent, keepAlive>>

WriterTypeOK ==
  /\ connected \in BOOLEAN /\ closing \in BOOLEAN /\ closeReported \in BOOLEAN
  /\ pending \in BOOLEAN
  /\ onwrite \in BOOLEAN /\ onclose \in BOOLEAN /\ keepAlive \in BOOLEAN
  /\ wstate \in {"begin", "sending", "end"}
  /\ posted \in Seq({"start", "zero", "cleanup"})
  /\ sent \in Nat

WriterInit ==
  /\ connected = TRUE /\ closing = FALSE /\ closeReported = FALSE
  /\ wstate = "begin" /\ pending = FALSE
  /\ onwrite = FALSE /\ onclose = FALSE
  /\ posted = <<>> /\ sent = 0
  /\ keepAlive \in BOOLEAN

(* What becomes of a write on a connected writer. *)
WriteOutcomes == {"flushed", "buffered", "failed"}

(* End(): the response is complete; the connection is closed afterwards    *)
(* unless it is kept.  A second End() changes nothing.                     *)
End ==
  /\ wstate' = "end"
  /\ closing' = (closing \/ ~keepAlive)

(* The connection breaks or is closed; the loop reports it later. *)
Disconnect ==
  /\ connected
  /\ connected' = FALSE
  /\ UNCHANGED <<closing, closeReported, wstate, pending, onwrite, onclose, posted, sent, keepAlive>>

=============================================================================
