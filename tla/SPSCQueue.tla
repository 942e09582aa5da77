----------------------------- MODULE SPSCQueue -----------------------------
(***************************************************************************)
(* SPSCQueue<T>, the single-producer single-consumer ring buffer of        *)
(* include/intertwine/fw/SPSCQueue.{hpp,inl}.                              *)
(*                                                                         *)
(* push, pop and size are split at every access to state another thread    *)
(* can touch: the atomics m_writePos and m_readPos and the plain slots of  *)
(* m_buffer.  A thread's own position is written by no other thread, so    *)
(* its relaxed load is part of the step that loads the other position.     *)
(* `x & m_mask' is `x % Capacity', Capacity being a power of two.          *)
(***************************************************************************)
EXTENDS Integers, Sequences

CONSTANTS Values,      \* the items pushed
          NoItem,      \* a default-constructed or moved-from slot
          Capacity,    \* m_capacity, as rounded up by the constructor
          MaxPush      \* bound: how many times push is called

ASSUME CapacityAssumption == Capacity \in Nat \ {0}
ASSUME MaxPushAssumption == MaxPush \in Nat
ASSUME NoItemAssumption == NoItem \notin Values

VARIABLES
  m_buffer,     \* slot -> the item it holds
  m_writePos,   \* the slot the producer fills next
  m_readPos,    \* the slot the consumer empties next
  m_pushCount, m_popCount, m_dropCount,
  pPc, pItem,   \* producer: where it is inside push, and push's argument
  cPc, cItem,   \* consumer: where it is inside pop, and pop's out parameter
  clearing,     \* the consumer's pop is one of clear()'s
  sPc, sBy,     \* a call of size()/empty(): where it is, who makes it,
  sRead,        \*   the currentRead it has loaded
  sResult,      \*   and what it returns
  accepted,     \* history: every item published by push, in order
  delivered     \* history: every item handed out by pop, in order

ring == <<m_buffer, m_writePos, m_readPos>>
counts == <<m_pushCount, m_popCount, m_dropCount>>
producer == <<pPc, pItem>>
consumer == <<cPc, cItem, clearing>>
sizing == <<sPc, sBy, sRead, sResult>>
history == <<accepted, delivered>>
vars == <<ring, counts, producer, consumer, sizing, history>>

Slots == 0 .. Capacity - 1
Items == Values \cup {NoItem}
Callers == {"producer", "consumer", "monitor"}

(* Mutant: the position is not masked. *)
SuccUnmasked(pos) == pos + 1

(* (pos + 1) & m_mask *)
Succ(pos) == (pos + 1) % Capacity

Init ==
  /\ m_buffer = [s \in Slots |-> NoItem]
  /\ m_writePos = 0 /\ m_readPos = 0
  /\ m_pushCount = 0 /\ m_popCount = 0 /\ m_dropCount = 0
  /\ pPc = "idle" /\ pItem = NoItem
  /\ cPc = "idle" /\ cItem = NoItem /\ clearing = FALSE
  /\ sPc = "idle" /\ sBy = "monitor" /\ sRead = 0 /\ sResult = 0
  /\ accepted = <<>> /\ delivered = <<>>

(* size() occupies the thread that calls it until it returns. *)
BusySizing(who) == sPc # "idle" /\ sBy = who

(***************************************************************************)
(* push                                                                    *)
(***************************************************************************)
(* Mutant: the test for a full ring is missing. *)
IsFullNever == FALSE

IsFull == Succ(m_writePos) = m_readPos

(* Load m_readPos and decide whether the ring is full. *)
PushCheck(v) ==
  /\ pPc = "idle" /\ ~BusySizing("producer")
  /\ m_pushCount + m_dropCount < MaxPush
  /\ pItem' = v
  /\ pPc' = IF IsFull THEN "drop" ELSE "write"
  /\ UNCHANGED <<ring, counts, consumer, sizing, history>>

PushDrop ==
  /\ pPc = "drop"
  /\ m_dropCount' = m_dropCount + 1
  /\ pPc' = "idle" /\ pItem' = NoItem
  /\ UNCHANGED <<ring, m_pushCount, m_popCount, consumer, sizing, history>>

PushWrite ==
  /\ pPc = "write"
  /\ m_buffer' = [m_buffer EXCEPT ![m_writePos] = pItem]
  /\ pPc' = "publish"
  /\ UNCHANGED <<m_writePos, m_readPos, counts, pItem, consumer, sizing, history>>

PushPublish ==
  /\ pPc = "publish"
  /\ m_writePos' = Succ(m_writePos)
  /\ accepted' = Append(accepted, pItem)
  /\ pPc' = "count"
  /\ UNCHANGED <<m_buffer, m_readPos, counts, pItem, consumer, sizing, delivered>>

PushCount ==
  /\ pPc = "count"
  /\ m_pushCount' = m_pushCount + 1
  /\ pPc' = "idle" /\ pItem' = NoItem
  /\ UNCHANGED <<ring, m_popCount, m_dropCount, consumer, sizing, history>>

(***************************************************************************)
(* pop and clear.  clear() repeats pop until it returns false.             *)
(***************************************************************************)
ClearBegin ==
  /\ cPc = "idle" /\ ~clearing /\ ~BusySizing("consumer")
  /\ clearing' = TRUE
  /\ UNCHANGED <<ring, counts, producer, cPc, cItem, sizing, history>>

(* Mutant: the last item is taken for none. *)
IsEmptyEarly == Succ(m_readPos) = m_writePos \/ m_readPos = m_writePos

IsEmpty == m_readPos = m_writePos

(* Load m_writePos; an empty ring ends pop (false) and with it clear. *)
PopCheck ==
  /\ cPc = "idle" /\ ~BusySizing("consumer")
  /\ IF IsEmpty
       THEN clearing' = FALSE /\ cPc' = "idle"
       ELSE cPc' = "take" /\ UNCHANGED clearing
  /\ UNCHANGED <<ring, counts, producer, cItem, sizing, history>>

(* item = std::move(m_buffer[currentRead]) *)
PopTake ==
  /\ cPc = "take"
  /\ cItem' = m_buffer[m_readPos]
  /\ m_buffer' = [m_buffer EXCEPT ![m_readPos] = NoItem]
  /\ cPc' = "advance"
  /\ UNCHANGED <<m_writePos, m_readPos, counts, producer, clearing, sizing, history>>

PopAdvance ==
  /\ cPc = "advance"
  /\ m_readPos' = Succ(m_readPos)
  /\ delivered' = Append(delivered, cItem)
  /\ cPc' = "count"
  /\ UNCHANGED <<m_buffer, m_writePos, counts, producer, cItem, clearing, sizing, accepted>>

PopCount ==
  /\ cPc = "count"
  /\ m_popCount' = m_popCount + 1
  /\ cPc' = "idle" /\ cItem' = NoItem
  /\ UNCHANGED <<ring, m_pushCount, m_dropCount, producer, clearing, sizing, history>>

(***************************************************************************)
(* size(), and empty(), which makes the same two loads and returns         *)
(* whether the difference is zero.                                         *)
(***************************************************************************)
SizeLoadRead(who) ==
  /\ sPc = "idle"
  /\ who = "producer" => pPc = "idle"
  /\ who = "consumer" => cPc = "idle" /\ ~clearing
  /\ sPc' = "loaded" /\ sBy' = who /\ sRead' = m_readPos
  /\ UNCHANGED <<ring, counts, producer, consumer, sResult, history>>

(* How many slots lie between two positions. *)
Distance(from, to) == IF to >= from THEN to - from ELSE (Capacity - from) + to

(* Mutant: one slot is lost when the positions have wrapped. *)
LoadedSizeShort ==
  IF m_writePos >= sRead THEN m_writePos - sRead ELSE (Capacity - 1 - sRead) + m_writePos

LoadedSize == Distance(sRead, m_writePos)

SizeLoadWrite ==
  /\ sPc = "loaded"
  /\ sResult' = LoadedSize
  /\ sPc' = "done"
  /\ UNCHANGED <<ring, counts, producer, consumer, sBy, sRead, history>>

SizeReturn ==
  /\ sPc = "done"
  /\ sPc' = "idle" /\ sRead' = 0 /\ sResult' = 0
  /\ UNCHANGED <<ring, counts, producer, consumer, sBy, history>>

Push == (\E v \in Values : PushCheck(v)) \/ PushDrop \/ PushWrite \/ PushPublish \/ PushCount
Pop == PopCheck \/ PopTake \/ PopAdvance \/ PopCount
Size == (\E who \in Callers : SizeLoadRead(who)) \/ SizeLoadWrite \/ SizeReturn

Next == Push \/ Pop \/ ClearBegin \/ Size

Spec == Init /\ [][Next]_vars

(* A thread inside push or size is a running thread: it takes its next     *)
(* step.  Whether anybody calls push or size is the program's business.    *)
(* The consumer keeps calling pop, whatever else it calls in between.      *)
Fairness ==
  /\ WF_vars(PushDrop \/ PushWrite \/ PushPublish \/ PushCount)
  /\ SF_vars(Pop)
  /\ WF_vars(SizeLoadWrite \/ SizeReturn)

FairSpec == Spec /\ Fairness

-----------------------------------------------------------------------------
(* The number of items in the ring. *)
Used == Distance(m_readPos, m_writePos)

(* The slot of the k-th oldest item. *)
SlotOf(k) == IF m_readPos + k - 1 < Capacity THEN m_readPos + k - 1
             ELSE m_readPos + k - 1 - Capacity

(* The ring's content; while pop holds an item it has not yet removed, that *)
(* item is still the oldest one.                                            *)
Contents == [k \in 1 .. Used |->
               IF k = 1 /\ cPc = "advance" THEN cItem ELSE m_buffer[SlotOf(k)]]

(* Every variable has its type. *)
TypeOK ==
  /\ m_buffer \in [Slots -> Items]
  /\ m_writePos \in Slots /\ m_readPos \in Slots
  /\ m_pushCount \in Nat /\ m_popCount \in Nat /\ m_dropCount \in Nat
  /\ pPc \in {"idle", "drop", "write", "publish", "count"} /\ pItem \in Items
  /\ cPc \in {"idle", "take", "advance", "count"} /\ cItem \in Items
  /\ clearing \in BOOLEAN
  /\ sPc \in {"idle", "loaded", "done"} /\ sBy \in Callers
  /\ sRead \in Slots /\ sResult \in Slots
  /\ accepted \in Seq(Values) /\ delivered \in Seq(Items)

(* FIFO without loss, duplication or overwriting (push, pop): the items     *)
(* handed out are a prefix of the items accepted, and the ring holds        *)
(* exactly the rest, in order, across every wrap-around.                    *)
Fifo ==
  /\ Len(accepted) = Len(delivered) + Used
  /\ \A i \in 1 .. Len(delivered) : delivered[i] = accepted[i]
  /\ \A k \in 1 .. Used : Contents[k] = accepted[Len(delivered) + k]

(* m_buffer's slots are plain memory (push l.45/62, pop l.77): the slot the *)
(* producer is about to write and the one the consumer is about to move     *)
(* from are never the same, and the producer's is never one that holds an   *)
(* item not yet handed out.                                                 *)
NoSlotRace ==
  pPc \in {"write", "publish"} =>
    /\ Used < Capacity - 1
    /\ cPc \in {"take", "advance"} => m_writePos # m_readPos

(* size() and empty() load two positions that move in between.  Called by   *)
(* the producer the answer never understates the content (so a push it      *)
(* finds room for succeeds); called by the consumer it never overstates it  *)
(* (so a pop it finds an item for succeeds).                                *)
SizeSound ==
  sPc = "done" =>
    /\ sBy = "producer" => sResult >= Used
    /\ sBy = "consumer" => sResult <= Used

(* The ring implements the abstract queue: push takes effect at the store   *)
(* of m_writePos, pop at the store of m_readPos, a refused push at its load *)
(* of m_readPos.                                                            *)
Abstract == INSTANCE BoundedFifo WITH
  queue <- Contents,
  taken <- delivered,
  dropped <- m_dropCount + (IF pPc = "drop" THEN 1 ELSE 0),
  Room <- Capacity - 1

ImplementsFifo == Abstract!Spec

(* Every published item is eventually handed out, as long as the consumer   *)
(* keeps calling pop.                                                       *)
EveryItemDelivered ==
  \A n \in 1 .. MaxPush : (Len(accepted) = n) ~> (Len(delivered) >= n)

=============================================================================
