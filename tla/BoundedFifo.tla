---------------------------- MODULE BoundedFifo ----------------------------
(***************************************************************************)
(* What a bounded, dropping queue promises its one producer and its one    *)
(* consumer: values come out in the order in which they went in, at most   *)
(* Room of them are inside, and a value is refused only when Room of them  *)
(* are.  SPSCQueue is shown to implement this specification.               *)
(***************************************************************************)
EXTENDS Naturals, Sequences

CONSTANTS Values,   \* what may be queued
          Room      \* how many values fit

VARIABLES queue,    \* the values inside, oldest first
          taken,    \* every value handed to the consumer, in order
          dropped   \* how many values were refused

fifoVars == <<queue, taken, dropped>>

Init ==
  /\ queue = <<>>
  /\ taken = <<>>
  /\ dropped = 0

(* A value is accepted. *)
Put(v) ==
  /\ Len(queue) < Room
  /\ queue' = Append(queue, v)
  /\ UNCHANGED <<taken, dropped>>

(* A value is refused, and only a full queue refuses. *)
Drop ==
  /\ Len(queue) = Room
  /\ dropped' = dropped + 1
  /\ UNCHANGED <<queue, taken>>

(* The oldest value is handed to the consumer. *)
Take ==
  /\ queue # <<>>
  /\ taken' = Append(taken, Head(queue))
  /\ queue' = Tail(queue)
  /\ UNCHANGED dropped

Next == (\E v \in Values : Put(v)) \/ Drop \/ Take

Spec == Init /\ [][Next]_fifoVars

=============================================================================
