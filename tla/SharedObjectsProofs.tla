------------------------- MODULE SharedObjectsProofs -------------------------
(***************************************************************************)
(* Proofs about the small objects that threads share: SPSCQueue,            *)
(* LockfreeQueue with its FlowController, JwtUtil and IdUtil.  They are     *)
(* independent, and each theorem speaks of one of them.                     *)
(***************************************************************************)
EXTENDS SPSCQueue, LockfreeQueue, JwtUtil, IdUtil, SequenceTheorems, FiniteSetTheorems, TLAPS

-----------------------------------------------------------------------------
(* SPSCQueue, for every capacity, every set of values and every number of   *)
(* pushes.                                                                  *)

(* Advancing a position stays in the ring: one step up, or back to zero. *)
LEMMA SuccInSlots ==
  ASSUME NEW pos \in Slots
  PROVE  /\ Succ(pos) \in Slots
         /\ Succ(pos) = IF pos + 1 = Capacity THEN 0 ELSE pos + 1
<1>1. Capacity \in Nat /\ Capacity > 0 /\ pos \in Nat /\ pos < Capacity
  BY CapacityAssumption DEF Slots
<1>2. CASE pos + 1 = Capacity
  <2>1. Capacity % Capacity = 0
    BY <1>1, SMT
  <2> QED BY <1>1, <1>2, <2>1 DEF Succ, Slots
<1>3. CASE pos + 1 < Capacity
  <2>1. (pos + 1) % Capacity = pos + 1
    BY <1>1, <1>3, SMT
  <2> QED BY <1>1, <1>3, <2>1 DEF Succ, Slots
<1> QED BY <1>1, <1>2, <1>3

(* The distance between two positions is a number of slots. *)
LEMMA DistanceInSlots ==
  ASSUME NEW from \in Slots, NEW to \in Slots
  PROVE  Distance(from, to) \in Slots
BY CapacityAssumption DEF Slots, Distance

(* Storing m_writePos makes a ring with room one longer. *)
LEMMA DistanceGrows ==
  ASSUME NEW from \in Slots, NEW to \in Slots,
         Distance(from, to) < Capacity - 1
  PROVE  Distance(from, Succ(to)) = Distance(from, to) + 1
BY SuccInSlots, CapacityAssumption DEF Slots, Distance

(* Storing m_readPos makes a ring that is not empty one shorter. *)
LEMMA DistanceShrinks ==
  ASSUME NEW from \in Slots, NEW to \in Slots,
         Distance(from, to) > 0
  PROVE  Distance(Succ(from), to) = Distance(from, to) - 1
BY SuccInSlots, CapacityAssumption DEF Slots, Distance

(* push's test for a full ring (l.40, l.57) is exact. *)
LEMMA FullTest ==
  ASSUME NEW from \in Slots, NEW to \in Slots
  PROVE  Succ(to) = from <=> Distance(from, to) = Capacity - 1
BY SuccInSlots, CapacityAssumption DEF Slots, Distance

(* pop's test for an empty ring (l.73) is exact. *)
LEMMA EmptyTest ==
  ASSUME NEW from \in Slots, NEW to \in Slots
  PROVE  from = to <=> Distance(from, to) = 0
BY CapacityAssumption DEF Slots, Distance

-----------------------------------------------------------------------------
(* A push under way carries a value; none is a moved-from item. *)
ArgumentOK == pPc # "idle" => pItem \in Values

(* Every variable has its type in every reachable state, and push's         *)
(* argument is one of the values.                                           *)
THEOREM TypeCorrect == Spec => [](TypeOK /\ ArgumentOK)
<1> USE CapacityAssumption
<1>0. 0 \in Slots
  BY DEF Slots
<1>1. Init => TypeOK /\ ArgumentOK
  BY <1>0 DEF Init, TypeOK, ArgumentOK, Items, Callers
<1>2. TypeOK /\ ArgumentOK /\ [Next]_vars => (TypeOK /\ ArgumentOK)'
  <2> SUFFICES ASSUME TypeOK, ArgumentOK, [Next]_vars
               PROVE  TypeOK' /\ ArgumentOK'
    OBVIOUS
  <2> USE DEF TypeOK, ArgumentOK, Items, Callers, ring, counts, producer, consumer, sizing, history
  <2>1. ASSUME NEW v \in Values, PushCheck(v) PROVE TypeOK' /\ ArgumentOK'
    BY <2>1 DEF PushCheck
  <2>2. CASE PushDrop
    BY <2>2 DEF PushDrop
  <2>3. CASE PushWrite
    BY <2>3 DEF PushWrite
  <2>4. CASE PushPublish
    BY <2>4, SuccInSlots DEF PushPublish
  <2>5. CASE PushCount
    BY <2>5 DEF PushCount
  <2>6. CASE PopCheck
    BY <2>6 DEF PopCheck
  <2>7. CASE PopTake
    BY <2>7 DEF PopTake
  <2>8. CASE PopAdvance
    BY <2>8, SuccInSlots DEF PopAdvance
  <2>9. CASE PopCount
    BY <2>9 DEF PopCount
  <2>10. CASE ClearBegin
    BY <2>10 DEF ClearBegin
  <2>11. ASSUME NEW who \in Callers, SizeLoadRead(who) PROVE TypeOK' /\ ArgumentOK'
    BY <2>11 DEF SizeLoadRead
  <2>12. CASE SizeLoadWrite
    BY <2>12, DistanceInSlots DEF SizeLoadWrite, LoadedSize
  <2>13. CASE SizeReturn
    BY <2>13, <1>0 DEF SizeReturn
  <2>14. CASE UNCHANGED vars
    BY <2>14 DEF vars
  <2> QED
    BY <2>1, <2>2, <2>3, <2>4, <2>5, <2>6, <2>7, <2>8, <2>9, <2>10, <2>11,
       <2>12, <2>13, <2>14 DEF Next, Push, Pop, Size
<1> QED
  BY <1>1, <1>2, PTL DEF Spec

-----------------------------------------------------------------------------
(* What the two threads know of each other: a producer that found room      *)
(* still has it when it stores, and its slot holds its item from the write  *)
(* on; a consumer that found an item still has it.                          *)
RoomInv ==
  /\ pPc \in {"write", "publish"} => Used < Capacity - 1
  /\ pPc = "publish" => m_buffer[m_writePos] = pItem
  /\ cPc \in {"take", "advance"} => Used > 0

(* The inductive invariant behind Fifo. *)
FifoInv == TypeOK /\ ArgumentOK /\ RoomInv /\ Fifo

(* push's slot is none of the slots that hold an item. *)
LEMMA WriteSlotFree ==
  ASSUME TypeOK, NEW k \in 1 .. Used
  PROVE  SlotOf(k) \in Slots /\ SlotOf(k) # m_writePos
BY CapacityAssumption DEF TypeOK, Slots, Used, Distance, SlotOf

(* Distinct items are in distinct slots. *)
LEMMA SlotsDistinct ==
  ASSUME TypeOK, NEW k \in 1 .. Used, NEW l \in 1 .. Used, SlotOf(k) = SlotOf(l)
  PROVE  k = l
BY CapacityAssumption DEF TypeOK, Slots, Used, Distance, SlotOf

(* A step that leaves the ring, pop's item and the histories alone keeps Fifo. *)
LEMMA FifoUnchanged ==
  ASSUME Fifo, UNCHANGED <<ring, cItem, history>>,
         cPc' = "advance" <=> cPc = "advance"
  PROVE  Fifo'
<1>1. Used' = Used /\ Contents' = Contents
  BY DEF Used, Distance, Contents, SlotOf, ring
<1> QED BY <1>1 DEF Fifo, history

(* Every step of the two threads keeps the room and the order. *)
LEMMA FifoStep == FifoInv /\ [Next]_vars => (RoomInv /\ Fifo)'
<1> SUFFICES ASSUME FifoInv, [Next]_vars PROVE RoomInv' /\ Fifo'
  OBVIOUS
<1> USE CapacityAssumption
<1>0. /\ Capacity \in Nat /\ Used \in Slots /\ Used \in Nat
      /\ m_writePos \in Slots /\ m_readPos \in Slots
      /\ TypeOK /\ RoomInv /\ Fifo
  <2>1. m_writePos \in Slots /\ m_readPos \in Slots
    BY DEF FifoInv, TypeOK
  <2>2. Used \in Slots
    BY <2>1, DistanceInSlots DEF Used
  <2> QED BY <2>1, <2>2 DEF FifoInv, Slots
<1>a. /\ Len(accepted) = Len(delivered) + Used
      /\ Len(accepted) \in Nat /\ Len(delivered) \in Nat
  BY <1>0 DEF Fifo, TypeOK
<1>1. ASSUME NEW v \in Values, PushCheck(v) PROVE RoomInv' /\ Fifo'
  <2>1. Used' = Used
    BY <1>1 DEF PushCheck, IsFull, ring, Used, Distance
  <2>2. RoomInv'
    BY <1>0, <1>1, <2>1, FullTest DEF PushCheck, IsFull, ring, RoomInv, consumer, Slots, Used
  <2>3. Fifo'
    BY <1>0, <1>1, FifoUnchanged DEF PushCheck, IsFull, consumer, history
  <2> QED BY <2>2, <2>3
<1>2. CASE PushDrop
  <2>1. Used' = Used
    BY <1>2 DEF PushDrop, ring, Used, Distance
  <2> QED BY <1>0, <1>2, <2>1, FifoUnchanged DEF PushDrop, RoomInv, consumer, ring, history
<1>3. CASE PushWrite
  <2>1. Used' = Used
    BY <1>3 DEF PushWrite, Used, Distance
  <2>2. RoomInv'
    BY <1>0, <1>3, <2>1 DEF PushWrite, RoomInv, consumer, TypeOK
  <2>3. \A k \in 1 .. Used : Contents'[k] = Contents[k]
    <3> SUFFICES ASSUME NEW k \in 1 .. Used PROVE Contents'[k] = Contents[k]
      OBVIOUS
    <3>1. SlotOf(k) \in Slots /\ SlotOf(k) # m_writePos
      BY <1>0, WriteSlotFree
    <3>2. SlotOf(k)' = SlotOf(k)
      BY <1>3 DEF PushWrite, SlotOf
    <3>3. m_buffer'[SlotOf(k)] = m_buffer[SlotOf(k)]
      BY <1>0, <1>3, <3>1 DEF PushWrite, TypeOK
    <3> QED BY <1>3, <2>1, <3>2, <3>3 DEF PushWrite, Contents, consumer
  <2>4. Fifo'
    BY <1>0, <1>3, <2>1, <2>3 DEF PushWrite, Fifo, history
  <2> QED BY <2>2, <2>4
<1>4. CASE PushPublish
  <2>1. Used' = Used + 1
    BY <1>0, <1>4, DistanceGrows DEF PushPublish, RoomInv, Used
  <2>2. RoomInv'
    BY <1>0, <1>4, <2>1 DEF PushPublish, RoomInv, consumer
  <2>3. \A k \in 1 .. Used : Contents'[k] = Contents[k]
    <3> SUFFICES ASSUME NEW k \in 1 .. Used PROVE Contents'[k] = Contents[k]
      OBVIOUS
    <3>1. SlotOf(k)' = SlotOf(k)
      BY <1>4 DEF PushPublish, SlotOf
    <3> QED BY <1>0, <1>4, <2>1, <3>1 DEF PushPublish, Contents, consumer
  <2>4. Contents'[Used + 1] = pItem
    <3> PICK k \in Nat : k = Used + 1
      BY <1>0
    <3>1. SlotOf(k) = m_writePos
      BY <1>0 DEF Used, Distance, SlotOf, Slots
    <3>2. SlotOf(k)' = m_writePos
      BY <1>4, <3>1 DEF SlotOf, PushPublish
    <3>3. ~(k = 1 /\ cPc' = "advance")
      BY <1>0, <1>4 DEF RoomInv, PushPublish, consumer
    <3>4. k \in 1 .. Used'
      BY <1>0, <2>1
    <3>5. Contents'[k] = m_buffer'[SlotOf(k)']
      BY <3>3, <3>4 DEF Contents
    <3> QED BY <1>0, <1>4, <3>2, <3>5 DEF PushPublish, RoomInv
  <2>5. Fifo'
    <3>1. /\ accepted' = Append(accepted, pItem) /\ accepted \in Seq(Values)
          /\ delivered' = delivered /\ delivered \in Seq(Items)
          /\ pItem \in Values
      BY <1>0, <1>4 DEF PushPublish, FifoInv, TypeOK, ArgumentOK
    <3>2. Len(accepted') = Len(delivered') + Used'
      BY <1>0, <1>a, <2>1, <3>1
    <3>3. \A i \in 1 .. Len(delivered') : delivered'[i] = accepted'[i]
      BY <1>0, <3>1 DEF Fifo
    <3>4. ASSUME NEW k \in 1 .. Used' PROVE Contents'[k] = accepted'[Len(delivered') + k]
      <4>1. CASE k = Used + 1
        <5>1. Len(delivered') + k = Len(accepted) + 1
          BY <1>0, <1>a, <3>1, <4>1
        <5>2. accepted'[Len(accepted) + 1] = pItem
          BY <3>1
        <5> QED BY <2>4, <4>1, <5>1, <5>2
      <4>2. CASE k # Used + 1
        <5>1. k \in 1 .. Used
          BY <1>0, <2>1, <4>2
        <5>2. accepted'[Len(delivered) + k] = accepted[Len(delivered) + k]
          BY <1>0, <3>1, <5>1 DEF Fifo
        <5> QED BY <1>0, <2>3, <3>1, <5>1, <5>2 DEF Fifo
      <4> QED BY <4>1, <4>2
    <3> QED BY <3>2, <3>3, <3>4 DEF Fifo
  <2> QED BY <2>2, <2>5
<1>5. CASE PushCount
  <2>1. Used' = Used
    BY <1>5 DEF PushCount, ring, Used, Distance
  <2> QED BY <1>0, <1>5, <2>1, FifoUnchanged DEF PushCount, RoomInv, consumer, ring, history
<1>6. CASE PopCheck
  <2>1. Used' = Used
    BY <1>6 DEF PopCheck, IsEmpty, ring, Used, Distance
  <2>2. RoomInv'
    BY <1>0, <1>6, <2>1, EmptyTest DEF PopCheck, IsEmpty, ring, RoomInv, producer, Slots, Used
  <2>3. Fifo'
    BY <1>0, <1>6, FifoUnchanged DEF PopCheck, IsEmpty, history
  <2> QED BY <2>2, <2>3
<1>7. CASE PopTake
  <2>1. Used' = Used /\ Used > 0
    BY <1>0, <1>7 DEF PopTake, Used, Distance, RoomInv
  <2>2. m_readPos # m_writePos
    BY <1>0, <2>1, EmptyTest DEF Used
  <2>3. RoomInv'
    BY <1>0, <1>7, <2>1, <2>2 DEF PopTake, RoomInv, producer, TypeOK
  <2>4. \A k \in 1 .. Used : Contents'[k] = Contents[k]
    <3> SUFFICES ASSUME NEW k \in 1 .. Used PROVE Contents'[k] = Contents[k]
      OBVIOUS
    <3>1. SlotOf(k)' = SlotOf(k)
      BY <1>7 DEF PopTake, SlotOf
    <3>2. 1 \in 1 .. Used /\ SlotOf(1) = m_readPos
      BY <1>0, <2>1 DEF SlotOf, Slots
    <3>3. CASE k = 1
      BY <1>7, <2>1, <3>2, <3>3 DEF PopTake, Contents
    <3>4. CASE k # 1
      <4>1. SlotOf(k) \in Slots /\ SlotOf(k) # m_readPos
        BY <1>0, <3>2, <3>4, SlotsDistinct, WriteSlotFree
      <4> QED BY <1>0, <1>7, <2>1, <3>1, <3>4, <4>1 DEF PopTake, Contents, TypeOK
    <3> QED BY <3>3, <3>4
  <2>5. Fifo'
    BY <1>0, <1>7, <2>1, <2>4 DEF PopTake, Fifo, history
  <2> QED BY <2>3, <2>5
<1>8. CASE PopAdvance
  <2>1. Used > 0 /\ Used' = Used - 1
    BY <1>0, <1>8, DistanceShrinks DEF PopAdvance, RoomInv, Used
  <2>2. RoomInv'
    BY <1>0, <1>8, <2>1 DEF PopAdvance, RoomInv, producer
  <2>3. Contents[1] = cItem
    BY <1>0, <1>8, <2>1 DEF PopAdvance, Contents
  <2>4. \A k \in 1 .. Used' : Contents'[k] = Contents[k + 1]
    <3> SUFFICES ASSUME NEW k \in 1 .. Used' PROVE Contents'[k] = Contents[k + 1]
      OBVIOUS
    <3>1. k + 1 \in 1 .. Used /\ k + 1 # 1
      BY <1>0, <2>1
    <3>2. SlotOf(k)' = SlotOf(k + 1)
      <4>1. m_readPos' = IF m_readPos + 1 = Capacity THEN 0 ELSE m_readPos + 1
        BY <1>0, <1>8, SuccInSlots DEF PopAdvance
      <4>2. k \in Nat /\ k >= 1 /\ k < Capacity
        BY <1>0, <2>1 DEF Slots
      <4> QED BY <1>0, <4>1, <4>2 DEF SlotOf, Slots
    <3> QED BY <1>0, <1>8, <2>1, <3>1, <3>2 DEF PopAdvance, Contents
  <2>5. Fifo'
    <3>1. /\ delivered' = Append(delivered, cItem) /\ delivered \in Seq(Items)
          /\ accepted' = accepted /\ accepted \in Seq(Values)
      BY <1>0, <1>8 DEF PopAdvance, TypeOK
    <3>2. cItem = accepted[Len(delivered) + 1]
      BY <1>0, <2>1, <2>3 DEF Fifo
    <3>3. Len(delivered') = Len(delivered) + 1 /\ Len(delivered) \in Nat
      BY <3>1
    <3>4. Len(accepted') = Len(delivered') + Used'
      BY <1>0, <1>a, <2>1, <3>1, <3>3
    <3>5. \A i \in 1 .. Len(delivered') : delivered'[i] = accepted'[i]
      BY <1>0, <3>1, <3>2, <3>3 DEF Fifo
    <3>6. ASSUME NEW k \in 1 .. Used' PROVE Contents'[k] = accepted'[Len(delivered') + k]
      <4>1. k + 1 \in 1 .. Used
        BY <1>0, <2>1
      <4>2. Contents[k + 1] = accepted[Len(delivered) + (k + 1)]
        BY <1>0, <4>1 DEF Fifo
      <4> QED BY <1>0, <1>a, <2>1, <2>4, <3>1, <3>3, <4>2
    <3> QED BY <3>4, <3>5, <3>6 DEF Fifo
  <2> QED BY <2>2, <2>5
<1>9. CASE PopCount
  <2>1. Used' = Used
    BY <1>9 DEF PopCount, ring, Used, Distance
  <2>2. Contents' = Contents
    BY <1>9, <2>1 DEF PopCount, Contents, SlotOf, ring
  <2> QED BY <1>0, <1>9, <2>1, <2>2 DEF PopCount, RoomInv, Fifo, producer, ring, history
<1>10. CASE ClearBegin
  <2>1. Used' = Used
    BY <1>10 DEF ClearBegin, ring, Used, Distance
  <2> QED BY <1>0, <1>10, <2>1, FifoUnchanged DEF ClearBegin, RoomInv, producer, ring, history
<1>11. CASE UNCHANGED <<ring, producer, consumer, history>>
  <2>1. Used' = Used
    BY <1>11 DEF ring, Used, Distance
  <2> QED BY <1>0, <1>11, <2>1, FifoUnchanged DEF RoomInv, producer, consumer, ring, history
<1>12. CASE Size \/ UNCHANGED vars
  BY <1>11, <1>12 DEF Size, SizeLoadRead, SizeLoadWrite, SizeReturn, vars
<1> QED
  BY <1>1, <1>2, <1>3, <1>4, <1>5, <1>6, <1>7, <1>8, <1>9, <1>10, <1>12
  DEF Next, Push, Pop

(* The inductive invariant holds in every reachable state. *)
LEMMA FifoInvariant == Spec => []FifoInv
<1>1. Init => RoomInv /\ Fifo
  <2> SUFFICES ASSUME Init PROVE RoomInv /\ Fifo
    OBVIOUS
  <2>1. Used = 0
    BY DEF Init, Used, Distance
  <2> QED BY <2>1 DEF Init, RoomInv, Fifo
<1>2. FifoInv /\ [Next]_vars => (RoomInv /\ Fifo)'
  BY FifoStep
<1> QED
  BY <1>1, <1>2, TypeCorrect, PTL DEF Spec, FifoInv

(* FIFO order, no loss, no duplication, no overwriting: in every reachable  *)
(* state of a ring of any capacity, what pop has handed out is a prefix of  *)
(* what push has accepted and the ring holds exactly the rest.              *)
THEOREM FifoCorrect == Spec => []Fifo
BY FifoInvariant, PTL DEF FifoInv

(* No data race on m_buffer: between push's test and its store there is a   *)
(* free slot, and it is not the one pop is moving from.                     *)
THEOREM SlotsNeverRace == Spec => []NoSlotRace
<1>1. FifoInv => NoSlotRace
  <2> SUFFICES ASSUME FifoInv PROVE NoSlotRace
    OBVIOUS
  <2>1. cPc \in {"take", "advance"} => m_writePos # m_readPos
    BY EmptyTest DEF FifoInv, RoomInv, TypeOK, Used
  <2> QED BY <2>1 DEF FifoInv, RoomInv, NoSlotRace
<1> QED BY <1>1, FifoInvariant, PTL

-----------------------------------------------------------------------------
(* What a size() under way knows: its caller does nothing else, the         *)
(* producer's first load can only be behind the consumer, the consumer's is *)
(* its own position.                                                        *)
SizeInv ==
  /\ BusySizing("producer") => pPc = "idle"
  /\ BusySizing("consumer") => cPc = "idle"
  /\ sPc = "loaded" /\ sBy = "producer" => Distance(sRead, m_writePos) >= Used
  /\ sPc = "loaded" /\ sBy = "consumer" => sRead = m_readPos
  /\ SizeSound

(* Every step keeps what size() has loaded within bounds. *)
LEMMA SizeStep == FifoInv /\ SizeInv /\ [Next]_vars => SizeInv'
<1> SUFFICES ASSUME FifoInv, SizeInv, [Next]_vars PROVE SizeInv'
  OBVIOUS
<1> USE CapacityAssumption
<1>0. /\ Used \in Int /\ m_writePos \in Slots /\ m_readPos \in Slots /\ sRead \in Slots
      /\ sResult \in Int /\ RoomInv /\ TypeOK
  <2>1. m_writePos \in Slots /\ m_readPos \in Slots /\ sRead \in Slots /\ sResult \in Slots
    BY DEF FifoInv, TypeOK
  <2>2. Used \in Slots
    BY <2>1, DistanceInSlots DEF Used
  <2> QED BY <2>1, <2>2 DEF FifoInv, Slots
<1>1. CASE PushPublish
  <2>1. Used' = Used + 1
    BY <1>0, <1>1, DistanceGrows DEF PushPublish, RoomInv, Used
  <2>2. ~BusySizing("producer")
    BY <1>1 DEF SizeInv, PushPublish
  <2> QED BY <1>0, <1>1, <2>1, <2>2 DEF PushPublish, SizeInv, SizeSound, BusySizing, sizing, consumer
<1>2. CASE PopAdvance
  <2>1. Used' = Used - 1
    BY <1>0, <1>2, DistanceShrinks DEF PopAdvance, RoomInv, Used
  <2>2. ~BusySizing("consumer")
    BY <1>2 DEF SizeInv, PopAdvance
  <2>3. sPc = "loaded" => Distance(sRead, m_writePos)' = Distance(sRead, m_writePos)
    BY <1>2 DEF PopAdvance, sizing, Distance
  <2>4. Distance(sRead, m_writePos) \in Int
    BY <1>0, DistanceInSlots DEF Slots
  <2> QED BY <1>0, <1>2, <2>1, <2>2, <2>3, <2>4
          DEF PopAdvance, SizeInv, SizeSound, BusySizing, sizing, producer
<1>3. CASE UNCHANGED <<m_writePos, m_readPos>>
  <2>1. Used' = Used /\ Distance(sRead, m_writePos)' = Distance(sRead', m_writePos)
    BY <1>3 DEF Used, Distance
  <2>2. CASE Push \/ Pop \/ ClearBegin
    <3>1. UNCHANGED sizing
      BY <2>2 DEF Push, Pop, ClearBegin, PushCheck, PushDrop, PushWrite, PushPublish,
                  PushCount, PopCheck, PopTake, PopAdvance, PopCount
    <3>2. pPc' = pPc \/ ~BusySizing("producer")
      BY <2>2 DEF Push, Pop, ClearBegin, PushCheck, PushDrop, PushWrite, PushPublish,
                  PushCount, PopCheck, PopTake, PopAdvance, PopCount, producer, SizeInv
    <3>3. cPc' = cPc \/ ~BusySizing("consumer")
      BY <2>2 DEF Push, Pop, ClearBegin, PushCheck, PushDrop, PushWrite, PushPublish,
                  PushCount, PopCheck, PopTake, PopAdvance, PopCount, consumer, SizeInv
    <3> QED BY <1>3, <2>1, <3>1, <3>2, <3>3 DEF sizing, SizeInv, SizeSound, BusySizing
  <2>3. ASSUME NEW who \in Callers, SizeLoadRead(who) PROVE SizeInv'
    <3>1. Distance(m_readPos, m_writePos) = Used
      BY DEF Used
    <3> QED BY <1>0, <2>1, <2>3, <3>1
            DEF SizeLoadRead, SizeInv, SizeSound, BusySizing, producer, consumer, ring
  <2>4. CASE SizeLoadWrite
    BY <1>0, <2>1, <2>4 DEF SizeLoadWrite, LoadedSize, SizeInv, SizeSound, BusySizing, producer, consumer, Used
  <2>5. CASE SizeReturn
    BY <2>5 DEF SizeReturn, SizeInv, SizeSound, BusySizing
  <2>6. CASE UNCHANGED vars
    BY <2>1, <2>6 DEF vars, sizing, producer, consumer, ring, SizeInv, SizeSound, BusySizing
  <2> QED BY <2>2, <2>3, <2>4, <2>5, <2>6 DEF Next, Size
<1>4. PushPublish \/ PopAdvance \/ UNCHANGED <<m_writePos, m_readPos>>
  BY DEF Next, Push, Pop, Size, ClearBegin, PushCheck, PushDrop, PushWrite, PushCount,
         PopCheck, PopTake, PopCount, SizeLoadRead, SizeLoadWrite, SizeReturn, vars, ring
<1> QED BY <1>1, <1>2, <1>3, <1>4

(* size() and empty() err on the side that is safe for the thread that      *)
(* calls them.                                                              *)
THEOREM SizeCorrect == Spec => []SizeSound
<1>1. Init => SizeInv
  BY DEF Init, SizeInv, SizeSound, BusySizing
<1>2. FifoInv /\ SizeInv /\ [Next]_vars => SizeInv'
  BY SizeStep
<1>3. SizeInv => SizeSound
  BY DEF SizeInv
<1> QED BY <1>1, <1>2, <1>3, FifoInvariant, PTL DEF Spec

-----------------------------------------------------------------------------
(* Under the invariant the ring's content is a sequence: the accepted       *)
(* values not yet handed out.                                               *)
ContentsOK ==
  /\ Contents \in Seq(Values) /\ Len(Contents) = Used /\ Used \in Nat
  /\ Len(accepted) = Len(delivered) + Used
  /\ Len(accepted) \in Nat /\ Len(delivered) \in Nat
  /\ \A k \in 1 .. Used : Contents[k] = accepted[Len(delivered) + k]

(* It follows from the invariant. *)
LEMMA ContentsSeq == FifoInv => ContentsOK
<1> SUFFICES ASSUME FifoInv PROVE ContentsOK
  OBVIOUS
<1>1. Len(accepted) \in Nat /\ Len(delivered) \in Nat /\ accepted \in Seq(Values)
  BY DEF FifoInv, TypeOK
<1>2. Used \in Nat
  <2>1. m_writePos \in Slots /\ m_readPos \in Slots
    BY DEF FifoInv, TypeOK
  <2> QED BY <2>1, DistanceInSlots, CapacityAssumption DEF Used, Slots
<1>3. /\ Len(accepted) = Len(delivered) + Used
      /\ \A k \in 1 .. Used : Contents[k] = accepted[Len(delivered) + k]
  BY DEF FifoInv, Fifo
<1>4. ASSUME NEW k \in 1 .. Used PROVE Contents[k] \in Values
  <2>1. Len(delivered) + k \in 1 .. Len(accepted)
    BY <1>1, <1>2, <1>3
  <2> QED BY <1>1, <1>3, <2>1, ElementOfSeq
<1>5. Contents \in [1 .. Used -> Values]
  BY <1>4 DEF Contents
<1>6. Contents \in Seq(Values) /\ Len(Contents) = Used
  BY <1>2, <1>5
<1> QED BY <1>1, <1>2, <1>3, <1>6 DEF ContentsOK

(* A step that changes neither history leaves the content as it is. *)
LEMMA ContentsUnchanged ==
  ASSUME FifoInv, FifoInv', UNCHANGED history
  PROVE  Contents' = Contents
<1>1. /\ Contents \in Seq(Values) /\ Len(Contents) = Used /\ Used \in Nat
      /\ Len(accepted) = Len(delivered) + Used
      /\ Len(accepted) \in Nat /\ Len(delivered) \in Nat
      /\ \A k \in 1 .. Used : Contents[k] = accepted[Len(delivered) + k]
  BY ContentsSeq DEF ContentsOK
<1>a. ContentsOK'
  BY ContentsSeq, PTL
<1>2. /\ Contents' \in Seq(Values) /\ Len(Contents') = Used' /\ Used' \in Nat
      /\ Len(accepted') = Len(delivered') + Used'
      /\ \A k \in 1 .. Used' : Contents'[k] = accepted'[Len(delivered') + k]
  BY <1>a DEF ContentsOK
<1>3. Used' = Used /\ accepted' = accepted /\ delivered' = delivered
  BY <1>1, <1>2 DEF history
<1>4. \A k \in 1 .. Len(Contents) : Contents'[k] = Contents[k]
  BY <1>1, <1>2, <1>3
<1> QED BY <1>1, <1>2, <1>3, <1>4, SeqEqual

(* Every step of the ring is a step of the abstract queue, or none. *)
LEMMA AbstractStep == FifoInv /\ FifoInv' /\ [Next]_vars => [Abstract!Next]_Abstract!fifoVars
<1> SUFFICES ASSUME FifoInv, FifoInv', [Next]_vars
             PROVE  [Abstract!Next]_Abstract!fifoVars
  OBVIOUS
<1> DEFINE lost == m_dropCount + (IF pPc = "drop" THEN 1 ELSE 0)
<1>1. /\ Contents \in Seq(Values) /\ Len(Contents) = Used /\ Used \in Nat
      /\ Len(accepted) = Len(delivered) + Used
      /\ Len(accepted) \in Nat /\ Len(delivered) \in Nat
      /\ \A k \in 1 .. Used : Contents[k] = accepted[Len(delivered) + k]
  BY ContentsSeq DEF ContentsOK
<1>a. ContentsOK'
  BY ContentsSeq, PTL
<1>2. /\ Contents' \in Seq(Values) /\ Len(Contents') = Used' /\ Used' \in Nat
      /\ Len(accepted') = Len(delivered') + Used'
      /\ \A k \in 1 .. Used' : Contents'[k] = accepted'[Len(delivered') + k]
  BY <1>a DEF ContentsOK
<1>3. /\ accepted \in Seq(Values) /\ delivered \in Seq(Items) /\ m_dropCount \in Nat
      /\ m_readPos \in Slots /\ m_writePos \in Slots
  BY DEF FifoInv, TypeOK
<1>4. CASE PushPublish
  <2>1. /\ pItem \in Values /\ Used < Capacity - 1
        /\ accepted' = Append(accepted, pItem) /\ delivered' = delivered
    BY <1>4 DEF PushPublish, FifoInv, ArgumentOK, RoomInv
  <2>2. Len(accepted') = Len(accepted) + 1 /\ Used' = Used + 1
    <3>1. Len(accepted') = Len(accepted) + 1
      BY <1>3, <2>1
    <3> QED BY <1>1, <1>2, <2>1, <3>1
  <2>3. /\ Append(Contents, pItem) \in Seq(Values)
        /\ Len(Append(Contents, pItem)) = Used + 1
        /\ \A k \in 1 .. Used : Append(Contents, pItem)[k] = Contents[k]
        /\ Append(Contents, pItem)[Used + 1] = pItem
    BY <1>1, <2>1, AppendProperties
  <2>4. ASSUME NEW k \in 1 .. Used' PROVE Contents'[k] = Append(Contents, pItem)[k]
    <3>1. CASE k = Used + 1
      <4>1. Len(delivered') + k = Len(accepted) + 1
        BY <1>1, <2>1, <3>1
      <4>2. accepted'[Len(accepted) + 1] = pItem
        BY <1>3, <2>1
      <4> QED BY <1>2, <2>3, <3>1, <4>1, <4>2
    <3>2. CASE k # Used + 1
      <4>1. k \in 1 .. Used
        BY <1>1, <2>2, <3>2
      <4>2. accepted'[Len(delivered) + k] = accepted[Len(delivered) + k]
        BY <1>1, <1>3, <2>1, <4>1
      <4> QED BY <1>1, <1>2, <2>1, <2>3, <4>1, <4>2
    <3> QED BY <3>1, <3>2
  <2>5. Contents' = Append(Contents, pItem)
    BY <1>2, <2>2, <2>3, <2>4, SeqEqual
  <2>6. lost' = lost
    BY <1>4 DEF PushPublish, counts
  <2> QED BY <1>1, <2>1, <2>5, <2>6 DEF Abstract!Next, Abstract!Put
<1>5. CASE PopAdvance
  <2>1. /\ accepted' = accepted /\ delivered' = Append(delivered, cItem)
        /\ Used > 0 /\ cItem \in Items
    BY <1>5 DEF PopAdvance, FifoInv, TypeOK, RoomInv
  <2>2. Contents[1] = cItem
    BY <1>1, <1>5, <2>1 DEF PopAdvance, Contents
  <2>3. Len(delivered') = Len(delivered) + 1 /\ Used' = Used - 1
    BY <1>1, <1>2, <1>3, <2>1
  <2>4. Contents # <<>>
    BY <1>1, <2>1
  <2>5. /\ Tail(Contents) \in Seq(Values) /\ Len(Tail(Contents)) = Used - 1
        /\ \A k \in 1 .. Used - 1 : Tail(Contents)[k] = Contents[k + 1]
    BY <1>1, <2>4, HeadTailProperties
  <2>6. ASSUME NEW k \in 1 .. Used' PROVE Contents'[k] = Tail(Contents)[k]
    <3>1. k + 1 \in 1 .. Used /\ k \in 1 .. Used - 1
      BY <1>1, <2>3
    <3>2. Len(delivered') + k = Len(delivered) + (k + 1)
      BY <1>1, <2>3
    <3> QED BY <1>1, <1>2, <2>1, <2>5, <3>1, <3>2
  <2>7. Contents' = Tail(Contents)
    BY <1>2, <2>3, <2>5, <2>6, SeqEqual
  <2>8. Head(Contents) = cItem
    BY <1>1, <2>2, <2>4
  <2>9. lost' = lost
    BY <1>5 DEF PopAdvance, counts, producer
  <2> QED BY <2>1, <2>4, <2>7, <2>8, <2>9 DEF Abstract!Next, Abstract!Take
<1>6. ASSUME NEW v \in Values, PushCheck(v) PROVE [Abstract!Next]_Abstract!fifoVars
  <2>1. Contents' = Contents /\ delivered' = delivered
    BY <1>6, ContentsUnchanged DEF PushCheck, IsFull, history
  <2>2. CASE Succ(m_writePos) = m_readPos
    <3>1. Len(Contents) = Capacity - 1
      BY <1>1, <1>3, <2>2, FullTest DEF Used
    <3>2. lost' = lost + 1
      BY <1>3, <1>6, <2>2 DEF PushCheck, IsFull, counts
    <3> QED BY <2>1, <3>1, <3>2 DEF Abstract!Next, Abstract!Drop
  <2>3. CASE Succ(m_writePos) # m_readPos
    <3>1. lost' = lost
      BY <1>6, <2>3 DEF PushCheck, IsFull, counts
    <3> QED BY <2>1, <3>1 DEF Abstract!fifoVars
  <2> QED BY <2>2, <2>3
<1>7. CASE UNCHANGED history /\ lost' = lost
  BY <1>7, ContentsUnchanged DEF Abstract!fifoVars, history
<1>8. CASE PushDrop \/ PushWrite \/ PushCount
  BY <1>3, <1>7, <1>8 DEF PushDrop, PushWrite, PushCount, counts
<1>9. CASE PopCheck \/ PopTake \/ PopCount \/ ClearBegin \/ Size \/ UNCHANGED vars
  BY <1>7, <1>9 DEF PopCheck, IsEmpty, PopTake, PopCount, ClearBegin, Size, SizeLoadRead,
     SizeLoadWrite, SizeReturn, vars, counts, producer
<1> QED BY <1>4, <1>5, <1>6, <1>8, <1>9 DEF Next, Push, Pop

(* The ring buffer implements the bounded queue: whatever the capacity and  *)
(* the interleaving, its callers see a queue of Capacity - 1 places that    *)
(* refuses only when full.                                                  *)
THEOREM RingImplementsFifo == Spec => ImplementsFifo
<1>1. Init => Abstract!Init
  <2> SUFFICES ASSUME Init PROVE Abstract!Init
    OBVIOUS
  <2>1. Used = 0
    BY DEF Init, Used, Distance
  <2>2. Contents \in [{} -> Items] /\ DOMAIN Contents = {}
    BY <2>1 DEF Contents
  <2>3. Contents = <<>>
    BY <2>2
  <2> QED BY <2>3 DEF Init, Abstract!Init
<1>2. FifoInv /\ FifoInv' /\ [Next]_vars => [Abstract!Next]_Abstract!fifoVars
  BY AbstractStep
<1> QED BY <1>1, <1>2, FifoInvariant, PTL DEF Spec, ImplementsFifo, Abstract!Spec

-----------------------------------------------------------------------------
(* LockfreeQueue and FlowController, for any number of producers and        *)
(* consumers, any limits and any number of attempts.                        *)

Workers == Producers \cup Consumers
Places == {"idle", "sizing", "sized", "allowed", "pushed", "popped", "clearing", "cleared"}

FlowTypeOK ==
  /\ stage \in [Workers -> Places] /\ loaded \in [Producers -> Nat]
  /\ length \in Nat /\ pushCount \in Nat /\ popCount \in Nat
  /\ attempts \in Nat /\ drops \in Nat /\ refused \in Nat /\ limit \in Limits
  /\ \A t \in Workers : stage[t] = "pushed" => t \in Producers

At(place) == {t \in Workers : stage[t] = place}
Number(place) == Cardinality(At(place))

(* The counters lag behind the queue by the threads between the queue's     *)
(* change and its counting, and attempts lead by those allowed to push.     *)
Counts ==
  /\ pushCount + Number("pushed") = popCount + Number("popped") + Number("cleared") + length
  /\ attempts = pushCount + Number("pushed") + Number("allowed") + drops + refused

MaxLimit == CHOOSE m \in Limits : \A n \in Limits : n <= m

(* The producers whose push is under way or may still follow from what they *)
(* have loaded, if the pushes counted when they began were v at most.       *)
Out(v) ==
  {t \in Producers :
     \/ stage[t] \in {"allowed", "pushed"}
     \/ stage[t] = "sized" /\ loaded[t] < MaxLimit
     \/ stage[t] = "sizing" /\ loaded[t] <= v}

(* Since the count was v each producer has at most one push of its own      *)
(* outstanding; otherwise they were let in by a size below the limit.       *)
Overshoot ==
  \A v \in Int : v >= -1 =>
    \/ pushCount + Cardinality(Out(v)) <= Cardinality(Producers) + v
    \/ pushCount + Cardinality(Out(v)) <= Cardinality(Producers) + popCount + MaxLimit - 1

FlowInv == FlowTypeOK /\ Counts /\ Overshoot

-----------------------------------------------------------------------------
(* The largest limit is a limit. *)
LEMMA MaxLimitIsLargest == MaxLimit \in Limits /\ MaxLimit \in Nat /\ \A n \in Limits : n <= MaxLimit
BY FlowLimits, FlowConstants DEF MaxLimit

(* Workers can be counted. *)
LEMMA Countable ==
  /\ IsFiniteSet(Workers) /\ Cardinality(Producers) \in Nat \ {0}
  /\ \A S \in SUBSET Workers : IsFiniteSet(S) /\ Cardinality(S) \in Nat
  /\ \A S \in SUBSET Producers : IsFiniteSet(S) /\ Cardinality(S) \in Nat
                                 /\ Cardinality(S) <= Cardinality(Producers)
<1>1. IsFiniteSet(Workers)
  BY FlowThreads, FS_Union DEF Workers
<1>2. Cardinality(Producers) \in Nat /\ Cardinality(Producers) # 0
  BY FlowThreads, FS_CardinalityType, FS_EmptySet
<1>3. ASSUME NEW S \in SUBSET Workers PROVE IsFiniteSet(S) /\ Cardinality(S) \in Nat
  BY <1>1, FS_Subset, FS_CardinalityType
<1>4. ASSUME NEW S \in SUBSET Producers
      PROVE IsFiniteSet(S) /\ Cardinality(S) \in Nat /\ Cardinality(S) <= Cardinality(Producers)
  BY FlowThreads, FS_Subset, FS_CardinalityType
<1> QED BY <1>1, <1>2, <1>3, <1>4

(* A thread that goes from one place to another is counted at the other. *)
LEMMA Moves ==
  ASSUME FlowTypeOK, NEW t \in Workers, NEW from \in Places, NEW to \in Places, from # to,
         Proceeds(t, from, to)
  PROVE  /\ stage' \in [Workers -> Places] /\ stage'[t] = to /\ stage[t] = from
         /\ \A u \in Workers : u # t => stage'[u] = stage[u]
         /\ \A p \in Places :
              /\ Number(p) \in Nat
              /\ Number(p)' = IF p = from THEN Number(p) - 1
                              ELSE IF p = to THEN Number(p) + 1 ELSE Number(p)
<1>1. /\ stage' \in [Workers -> Places] /\ stage'[t] = to /\ stage[t] = from
      /\ \A u \in Workers : u # t => stage'[u] = stage[u]
  BY DEF FlowTypeOK, Proceeds
<1>2. ASSUME NEW p \in Places
      PROVE  /\ Number(p) \in Nat
             /\ Number(p)' = IF p = from THEN Number(p) - 1
                             ELSE IF p = to THEN Number(p) + 1 ELSE Number(p)
  <2>1. At(p) \in SUBSET Workers
    BY DEF At
  <2>2. IsFiniteSet(At(p)) /\ Number(p) \in Nat
    BY <2>1, Countable DEF Number
  <2>3. CASE p = from
    <3>1. At(p)' = At(p) \ {t} /\ t \in At(p)
      BY <1>1, <2>3 DEF At
    <3> QED BY <2>2, <2>3, <3>1, FS_RemoveElement DEF Number
  <2>4. CASE p = to
    <3>1. At(p)' = At(p) \cup {t} /\ t \notin At(p)
      BY <1>1, <2>4 DEF At
    <3> QED BY <2>2, <2>4, <3>1, FS_AddElement DEF Number
  <2>5. CASE p # from /\ p # to
    <3>1. At(p)' = At(p)
      BY <1>1, <2>5 DEF At
    <3> QED BY <2>2, <2>5, <3>1 DEF Number
  <2> QED BY <2>2, <2>3, <2>4, <2>5
<1> QED BY <1>1, <1>2

(* Nobody pushes yet. *)
LEMMA InitHolds == FlowInit => FlowInv
<1> SUFFICES ASSUME FlowInit PROVE FlowInv
  OBVIOUS
<1>1. FlowTypeOK
  BY DEF FlowInit, FlowTypeOK, Workers, Places
<1>2. \A p \in Places \ {"idle"} : Number(p) = 0
  <2>1. \A p \in Places \ {"idle"} : At(p) = {}
    BY DEF FlowInit, At, Workers
  <2> QED BY <2>1, FS_EmptySet DEF Number
<1>3. Counts
  BY <1>2 DEF FlowInit, Counts, Places
<1>4. Overshoot
  <2>1. \A v \in Int : Out(v) = {}
    BY DEF FlowInit, Out
  <2> QED BY <2>1, FS_EmptySet, Countable, MaxLimitIsLargest DEF FlowInit, Overshoot
<1> QED BY <1>1, <1>3, <1>4 DEF FlowInv

(* A step that lets nobody else out, and counts no push, keeps the bound. *)
LEMMA FewerOut ==
  ASSUME FlowInv, UNCHANGED pushCount, popCount' \in Nat, popCount' >= popCount,
         \A v \in Int : v >= -1 => Out(v)' \subseteq Out(v)
  PROVE  Overshoot'
<1> SUFFICES ASSUME NEW v \in Int, v >= -1
             PROVE  \/ pushCount' + Cardinality(Out(v)') <= Cardinality(Producers) + v
                    \/ pushCount' + Cardinality(Out(v)')
                         <= Cardinality(Producers) + popCount' + MaxLimit - 1
  BY DEF Overshoot
<1>1. Out(v) \in SUBSET Producers /\ Out(v)' \in SUBSET Producers /\ Out(v)' \subseteq Out(v)
  BY DEF Out
<1>2. Cardinality(Out(v)') <= Cardinality(Out(v)) /\ Cardinality(Out(v)') \in Nat
      /\ Cardinality(Out(v)) \in Nat
  BY <1>1, Countable, FS_Subset
<1>3. \/ pushCount + Cardinality(Out(v)) <= Cardinality(Producers) + v
      \/ pushCount + Cardinality(Out(v)) <= Cardinality(Producers) + popCount + MaxLimit - 1
  BY DEF FlowInv, Overshoot
<1> QED BY <1>2, <1>3, Countable, MaxLimitIsLargest DEF FlowInv, FlowTypeOK

(* size() loads the pushes: whoever is out now is one of the producers. *)
LEMMA SizeLoadPushKeeps ==
  ASSUME FlowInv, NEW t \in Producers, SizeLoadPush(t)
  PROVE  FlowInv'
<1>1. /\ Proceeds(t, "idle", "sizing") /\ loaded' = [loaded EXCEPT ![t] = pushCount]
      /\ UNCHANGED <<length, pushCount, popCount, limit, attempts, drops, refused>>
  BY DEF SizeLoadPush, controller
<1>2. /\ stage' \in [Workers -> Places] /\ stage'[t] = "sizing" /\ stage[t] = "idle"
      /\ \A u \in Workers : u # t => stage'[u] = stage[u]
      /\ \A p \in Places \ {"idle", "sizing"} : Number(p)' = Number(p)
  BY <1>1, Moves DEF FlowInv, Workers, Places
<1>3. FlowTypeOK'
  BY <1>1, <1>2 DEF FlowInv, FlowTypeOK
<1>4. Counts'
  BY <1>1, <1>2 DEF FlowInv, Counts, Places
<1>5. Overshoot'
  <2> SUFFICES ASSUME NEW v \in Int, v >= -1
               PROVE  \/ pushCount' + Cardinality(Out(v)') <= Cardinality(Producers) + v
                      \/ pushCount' + Cardinality(Out(v)')
                           <= Cardinality(Producers) + popCount' + MaxLimit - 1
    BY DEF Overshoot
  <2>1. Out(v)' \in SUBSET Producers
    BY DEF Out
  <2>2. CASE v >= pushCount
    BY <1>1, <2>1, <2>2, Countable DEF FlowInv, FlowTypeOK
  <2>3. CASE v < pushCount
    <3>1. Out(v)' = Out(v)
      BY <1>1, <1>2, <2>3 DEF Out, Workers, FlowInv, FlowTypeOK
    <3> QED BY <1>1, <3>1 DEF FlowInv, Overshoot
  <2> QED BY <2>2, <2>3 DEF FlowInv, FlowTypeOK
<1> QED BY <1>3, <1>4, <1>5 DEF FlowInv

(* size() loads the pops: a producer that will be let in was counted among  *)
(* those who began when it did.                                             *)
LEMMA SizeLoadPopKeeps ==
  ASSUME FlowInv, NEW t \in Producers, SizeLoadPop(t)
  PROVE  FlowInv'
<1> DEFINE x == loaded[t]
           size == IF x > popCount THEN x - popCount ELSE 0
<1>1. /\ Proceeds(t, "sizing", "sized") /\ loaded' = [loaded EXCEPT ![t] = size]
      /\ UNCHANGED <<length, pushCount, popCount, limit, attempts, drops, refused>>
  BY DEF SizeLoadPop, controller
<1>2. /\ stage' \in [Workers -> Places] /\ stage'[t] = "sized" /\ stage[t] = "sizing"
      /\ \A u \in Workers : u # t => stage'[u] = stage[u]
      /\ \A p \in Places \ {"sizing", "sized"} : Number(p)' = Number(p)
  BY <1>1, Moves DEF FlowInv, Workers, Places
<1>3. x \in Nat /\ popCount \in Nat /\ pushCount \in Nat /\ size \in Nat
  BY DEF FlowInv, FlowTypeOK
<1>4. loaded'[t] = size /\ \A u \in Producers : u # t => loaded'[u] = loaded[u]
  BY <1>1 DEF FlowInv, FlowTypeOK
<1>5. FlowTypeOK'
  BY <1>1, <1>2, <1>3 DEF FlowInv, FlowTypeOK
<1>6. Counts'
  BY <1>1, <1>2 DEF FlowInv, Counts, Places
<1>7. Overshoot'
  <2>1. CASE size >= MaxLimit
    <3>1. ASSUME NEW v \in Int, v >= -1 PROVE Out(v)' \subseteq Out(v)
      BY <1>2, <1>3, <1>4, <2>1, MaxLimitIsLargest DEF Out, Workers
    <3> QED BY <1>1, <1>3, <3>1, FewerOut
  <2>2. CASE size < MaxLimit
    <3>1. x <= popCount + MaxLimit - 1
      BY <1>3, <2>2, MaxLimitIsLargest
    <3>2. pushCount + Cardinality(Out(x)) <= Cardinality(Producers) + popCount + MaxLimit - 1
      <4>1. x \in Int /\ x >= -1
        BY <1>3
      <4>2. \/ pushCount + Cardinality(Out(x)) <= Cardinality(Producers) + x
            \/ pushCount + Cardinality(Out(x)) <= Cardinality(Producers) + popCount + MaxLimit - 1
        BY <4>1 DEF FlowInv, Overshoot
      <4>3. Out(x) \in SUBSET Producers
        BY DEF Out
      <4>4. Cardinality(Out(x)) \in Nat
        BY <4>3, Countable
      <4> HIDE DEF x
      <4> QED BY <1>3, <3>1, <4>2, <4>4, Countable, MaxLimitIsLargest
    <3> SUFFICES ASSUME NEW v \in Int, v >= -1
                 PROVE  \/ pushCount' + Cardinality(Out(v)') <= Cardinality(Producers) + v
                        \/ pushCount' + Cardinality(Out(v)')
                             <= Cardinality(Producers) + popCount' + MaxLimit - 1
      BY DEF Overshoot
    <3>3. CASE v >= x
      <4>1. Out(v)' = Out(v)
        BY <1>2, <1>3, <1>4, <2>2, <3>3, MaxLimitIsLargest DEF Out, Workers
      <4> QED BY <1>1, <4>1 DEF FlowInv, Overshoot
    <3>4. CASE v < x
      <4>1. Out(v)' \subseteq Out(x)
        BY <1>2, <1>3, <1>4, <3>4 DEF Out, Workers, FlowInv, FlowTypeOK
      <4>2. Out(x) \in SUBSET Producers /\ Out(v)' \in SUBSET Producers
        BY DEF Out
      <4>3. /\ Cardinality(Out(v)') <= Cardinality(Out(x))
            /\ Cardinality(Out(v)') \in Nat /\ Cardinality(Out(x)) \in Nat
        BY <4>1, <4>2, Countable, FS_Subset
      <4> HIDE DEF x
      <4> QED BY <1>1, <1>3, <3>2, <4>3, Countable, MaxLimitIsLargest
    <3> QED BY <1>3, <3>3, <3>4
  <2> QED BY <1>3, <2>1, <2>2, MaxLimitIsLargest
<1> QED BY <1>5, <1>6, <1>7 DEF FlowInv

(* tryPush lets in whom the limit in force allows, hence the largest does. *)
LEMMA TryPushKeeps ==
  ASSUME FlowInv, NEW t \in Producers, TryPush(t)
  PROVE  FlowInv'
<1> DEFINE may == CanPush(loaded[t])
           to == IF may THEN "allowed" ELSE "idle"
<1>1. /\ Proceeds(t, "sized", to) /\ attempts' = attempts + 1
      /\ may => UNCHANGED <<drops, refused>>
      /\ ~may => \/ drops' = drops + 1 /\ refused' = refused
                 \/ drops' = drops /\ refused' = refused + 1
      /\ loaded' = [loaded EXCEPT ![t] = 0]
      /\ UNCHANGED <<length, pushCount, popCount, limit>>
  BY DEF TryPush, FlowInv, FlowTypeOK
<1>2. may => loaded[t] < MaxLimit
  BY MaxLimitIsLargest, FlowConstants DEF CanPush, FlowInv, FlowTypeOK
<1>3. to \in Places /\ to # "sized" /\ (may => to = "allowed") /\ (~may => to = "idle")
  BY DEF Places
<1> HIDE DEF may, to
<1>4. /\ stage' \in [Workers -> Places] /\ stage'[t] = to /\ stage[t] = "sized"
      /\ \A u \in Workers : u # t => stage'[u] = stage[u]
      /\ \A p \in Places :
           /\ Number(p) \in Nat
           /\ Number(p)' = IF p = "sized" THEN Number(p) - 1
                           ELSE IF p = to THEN Number(p) + 1 ELSE Number(p)
  BY <1>1, <1>3, Moves DEF FlowInv, Workers, Places
<1>5. FlowTypeOK'
  BY <1>1, <1>4 DEF FlowInv, FlowTypeOK
<1>6. Counts'
  <2>1. /\ Number("pushed")' = Number("pushed") /\ Number("popped")' = Number("popped")
        /\ Number("cleared")' = Number("cleared")
        /\ Number("allowed")' = IF may THEN Number("allowed") + 1 ELSE Number("allowed")
        /\ Number("allowed") \in Nat /\ Number("pushed") \in Nat
    BY <1>3, <1>4 DEF Places
  <2> QED BY <1>1, <2>1 DEF FlowInv, FlowTypeOK, Counts
<1>7. \A v \in Int : v >= -1 => Out(v)' \subseteq Out(v)
  BY <1>1, <1>2, <1>3, <1>4 DEF Out, Workers, FlowInv, FlowTypeOK
<1>8. Overshoot'
  BY <1>1, <1>7, FewerOut DEF FlowInv, FlowTypeOK
<1> QED BY <1>5, <1>6, <1>8 DEF FlowInv

(* push(): first the queue, ... *)
LEMMA PushKeeps ==
  ASSUME FlowInv, NEW t \in Producers, QueuePush(t)
  PROVE  FlowInv'
<1>1. /\ Proceeds(t, "allowed", "pushed") /\ length' = length + 1
      /\ UNCHANGED <<pushCount, popCount, limit, attempts, drops, refused, loaded>>
  BY DEF QueuePush, controller
<1>2. /\ stage' \in [Workers -> Places] /\ stage'[t] = "pushed" /\ stage[t] = "allowed"
      /\ \A u \in Workers : u # t => stage'[u] = stage[u]
      /\ Number("pushed")' = Number("pushed") + 1 /\ Number("allowed")' = Number("allowed") - 1
      /\ Number("popped")' = Number("popped") /\ Number("cleared")' = Number("cleared")
      /\ \A p \in Places : Number(p) \in Nat
  BY <1>1, Moves DEF FlowInv, Workers, Places
<1>3. FlowTypeOK'
  BY <1>1, <1>2 DEF FlowInv, FlowTypeOK
<1>4. Counts'
  BY <1>1, <1>2 DEF FlowInv, FlowTypeOK, Counts, Places
<1>5. \A v \in Int : v >= -1 => Out(v)' \subseteq Out(v)
  BY <1>1, <1>2 DEF Out, Workers
<1>6. Overshoot'
  BY <1>1, <1>5, FewerOut DEF FlowInv, FlowTypeOK
<1> QED BY <1>3, <1>4, <1>6 DEF FlowInv

(* ... then its counter. *)
LEMMA PushCountsKeeps ==
  ASSUME FlowInv, NEW t \in Producers, PushCounts(t)
  PROVE  FlowInv'
<1>1. /\ Proceeds(t, "pushed", "idle") /\ pushCount' = pushCount + 1
      /\ UNCHANGED <<length, popCount, limit, attempts, drops, refused, loaded>>
  BY DEF PushCounts, controller
<1>2. /\ stage' \in [Workers -> Places] /\ stage'[t] = "idle" /\ stage[t] = "pushed"
      /\ \A u \in Workers : u # t => stage'[u] = stage[u]
      /\ Number("pushed")' = Number("pushed") - 1 /\ Number("allowed")' = Number("allowed")
      /\ Number("popped")' = Number("popped") /\ Number("cleared")' = Number("cleared")
      /\ \A p \in Places : Number(p) \in Nat
  BY <1>1, Moves DEF FlowInv, Workers, Places
<1>3. FlowTypeOK'
  BY <1>1, <1>2 DEF FlowInv, FlowTypeOK
<1>4. Counts'
  <2>1. /\ pushCount \in Nat /\ Number("pushed") \in Nat
        /\ pushCount' + Number("pushed")' = pushCount + Number("pushed")
    BY <1>1, <1>2 DEF FlowInv, FlowTypeOK, Places
  <2> QED BY <1>1, <1>2, <2>1 DEF FlowInv, Counts
<1>5. ASSUME NEW v \in Int
      PROVE  /\ Cardinality(Out(v)') = Cardinality(Out(v)) - 1
             /\ Cardinality(Out(v)) \in Nat
  <2>1. Out(v)' = Out(v) \ {t} /\ t \in Out(v) /\ Out(v) \in SUBSET Producers
    BY <1>1, <1>2 DEF Out, Workers
  <2>2. IsFiniteSet(Out(v)) /\ Cardinality(Out(v)) \in Nat
    BY <2>1, Countable
  <2> QED BY <2>1, <2>2, FS_RemoveElement
<1>6. Overshoot'
  BY <1>1, <1>5, Countable, MaxLimitIsLargest DEF FlowInv, FlowTypeOK, Overshoot
<1> QED BY <1>3, <1>4, <1>6 DEF FlowInv

(* A consumer takes an item, counts it, begins or ends a clear(). *)
LEMMA ConsumerKeeps ==
  ASSUME FlowInv, NEW t \in Consumers, QueuePop(t) \/ PopCounts(t) \/ Clear(t)
  PROVE  FlowInv'
<1> DEFINE Calm == {"idle", "popped", "clearing", "cleared"}
<1>1. /\ UNCHANGED <<pushCount, limit, attempts, drops, refused, loaded>>
      /\ length' \in Nat /\ popCount' \in Nat /\ popCount' >= popCount
  BY DEF QueuePop, PopCounts, Clear, controller, FlowInv, FlowTypeOK
<1>2. PICK from \in Calm, to \in Calm :
        /\ from # to /\ Proceeds(t, from, to)
        /\ \/ /\ <<from, to>> \in {<<"idle", "popped">>, <<"clearing", "cleared">>}
              /\ length > 0 /\ length' = length - 1 /\ popCount' = popCount
           \/ /\ <<from, to>> \in {<<"popped", "idle">>, <<"cleared", "clearing">>}
              /\ length' = length /\ popCount' = popCount + 1
           \/ /\ <<from, to>> \in {<<"idle", "clearing">>, <<"clearing", "idle">>}
              /\ length' = length /\ popCount' = popCount
  BY DEF QueuePop, PopCounts, Clear, Proceeds
<1>3. /\ stage' \in [Workers -> Places] /\ stage'[t] = to /\ stage[t] = from
      /\ \A u \in Workers : u # t => stage'[u] = stage[u]
      /\ \A p \in Places :
           /\ Number(p) \in Nat
           /\ Number(p)' = IF p = from THEN Number(p) - 1
                           ELSE IF p = to THEN Number(p) + 1 ELSE Number(p)
  BY <1>2, Moves DEF FlowInv, Workers, Places
<1>4. FlowTypeOK'
  BY <1>1, <1>3 DEF FlowInv, FlowTypeOK
<1>5. Counts'
  <2>1. Number("pushed")' = Number("pushed") /\ Number("allowed")' = Number("allowed")
    BY <1>2, <1>3 DEF Places
  <2>2. popCount' + Number("popped")' + Number("cleared")' + length'
          = popCount + Number("popped") + Number("cleared") + length
    BY <1>2, <1>3 DEF Places, FlowInv, FlowTypeOK
  <2> QED BY <1>1, <2>1, <2>2 DEF FlowInv, Counts
<1>6. \A v \in Int : v >= -1 => Out(v)' \subseteq Out(v)
  BY <1>1, <1>2, <1>3 DEF Out, Workers
<1>7. Overshoot'
  BY <1>1, <1>6, FewerOut
<1> QED BY <1>4, <1>5, <1>7 DEF FlowInv

(* The setters and stuttering move no thread and change no count. *)
LEMMA SetterKeeps ==
  ASSUME FlowInv,
         \/ \E n \in Limits : SetMaxQueueSize(n)
         \/ \E flag \in BOOLEAN : SetDropOnFull(flag)
         \/ ResetDropCount \/ UNCHANGED flowVars
  PROVE  FlowInv'
<1>1. /\ UNCHANGED <<length, pushCount, popCount, attempts, drops, refused, stage, loaded>>
      /\ limit' \in Limits
  BY DEF SetMaxQueueSize, SetDropOnFull, ResetDropCount, flowVars, controller, FlowInv, FlowTypeOK
<1>2. FlowTypeOK'
  BY <1>1 DEF FlowInv, FlowTypeOK
<1>3. Counts'
  BY <1>1 DEF FlowInv, Counts, Number, At
<1>4. Overshoot'
  BY <1>1 DEF FlowInv, Overshoot, Out
<1> QED BY <1>2, <1>3, <1>4 DEF FlowInv

(* The inductive invariant holds throughout. *)
LEMMA FlowInvHolds == FlowSpec => []FlowInv
<1>1. FlowInv /\ [FlowNext]_flowVars => FlowInv'
  BY SizeLoadPushKeeps, SizeLoadPopKeeps, TryPushKeeps, PushKeeps, PushCountsKeeps,
     ConsumerKeeps, SetterKeeps DEF FlowNext
<1> QED BY <1>1, InitHolds, PTL DEF FlowSpec

-----------------------------------------------------------------------------
(* What size() has loaded first is no more than the pushes counted since. *)
Loads == \A t \in Producers : stage[t] = "sizing" => loaded[t] <= pushCount

(* Pushes are never uncounted. *)
LEMMA LoadsHold == FlowSpec => []Loads
<1>1. FlowInit => Loads
  BY DEF FlowInit, Loads
<1>2. FlowInv /\ Loads /\ [FlowNext]_flowVars => Loads'
  <2> SUFFICES ASSUME FlowInv, Loads, [FlowNext]_flowVars,
                      NEW t \in Producers, stage'[t] = "sizing"
               PROVE  loaded'[t] <= pushCount'
    BY DEF Loads
  <2>1. /\ stage \in [Workers -> Places] /\ loaded \in [Producers -> Nat] /\ pushCount \in Nat
        /\ t \in Workers
    BY DEF FlowInv, FlowTypeOK, Workers
  <2>2. CASE \E u \in Producers : SizeLoadPush(u)
    <3>1. PICK u \in Producers : SizeLoadPush(u)
      BY <2>2
    <3>2. CASE u = t
      BY <2>1, <3>1, <3>2 DEF SizeLoadPush
    <3>3. CASE u # t
      BY <2>1, <3>1, <3>3 DEF SizeLoadPush, Proceeds, Loads
    <3> QED BY <3>2, <3>3
  <2>3. CASE \E u \in Producers : SizeLoadPop(u) \/ TryPush(u) \/ QueuePush(u) \/ PushCounts(u)
    <3>1. PICK u \in Producers : SizeLoadPop(u) \/ TryPush(u) \/ QueuePush(u) \/ PushCounts(u)
      BY <2>3
    <3>2. u # t
      BY <2>1, <3>1 DEF SizeLoadPop, TryPush, QueuePush, PushCounts, Proceeds
    <3>3. stage'[t] = stage[t] /\ loaded'[t] = loaded[t] /\ pushCount' \in {pushCount, pushCount + 1}
      BY <2>1, <3>1, <3>2 DEF SizeLoadPop, TryPush, QueuePush, PushCounts, Proceeds
    <3> QED BY <2>1, <3>3 DEF Loads
  <2>4. CASE \E u \in Consumers : QueuePop(u) \/ PopCounts(u) \/ Clear(u)
    <3>1. PICK u \in Consumers : QueuePop(u) \/ PopCounts(u) \/ Clear(u)
      BY <2>4
    <3>2. stage'[t] = stage[t] /\ UNCHANGED <<loaded, pushCount>>
      BY <2>1, <3>1 DEF QueuePop, PopCounts, Clear, Proceeds
    <3> QED BY <3>2 DEF Loads
  <2>5. CASE \/ \E n \in Limits : SetMaxQueueSize(n)
             \/ \E flag \in BOOLEAN : SetDropOnFull(flag)
             \/ ResetDropCount \/ UNCHANGED flowVars
    BY <2>5 DEF SetMaxQueueSize, SetDropOnFull, ResetDropCount, flowVars, Loads
  <2> QED BY <2>2, <2>3, <2>4, <2>5 DEF FlowNext
<1> QED BY <1>1, <1>2, FlowInvHolds, PTL DEF FlowSpec

(* At rest everything is counted. *)
LEMMA Settles == FlowInv => SettledCounts
<1> SUFFICES ASSUME FlowInv, \A t \in Workers : stage[t] \in {"idle", "clearing"}
             PROVE  pushCount = popCount + length /\ attempts = pushCount + drops + refused
  BY DEF SettledCounts, Workers
<1>1. At("pushed") = {} /\ At("popped") = {} /\ At("cleared") = {} /\ At("allowed") = {}
  BY DEF At
<1>2. Number("pushed") = 0 /\ Number("popped") = 0 /\ Number("cleared") = 0 /\ Number("allowed") = 0
  BY <1>1, FS_EmptySet DEF Number
<1> QED BY <1>2 DEF FlowInv, FlowTypeOK, Counts

(* The pops that are not counted yet are those of pop() and of clear(). *)
LEMMA UncountedPops ==
  /\ Uncounted = Number("popped") + Number("cleared")
  /\ Number("popped") \in Nat /\ Number("cleared") \in Nat /\ Number("pushed") \in Nat
<1>1. /\ At("popped") \in SUBSET Workers /\ At("cleared") \in SUBSET Workers
      /\ At("pushed") \in SUBSET Workers
      /\ At("popped") \cap At("cleared") = {}
      /\ {t \in Producers \cup Consumers : stage[t] \in {"popped", "cleared"}} = At("popped") \cup At("cleared")
  BY DEF At, Workers
<1>2. /\ IsFiniteSet(At("popped")) /\ IsFiniteSet(At("cleared"))
      /\ Cardinality(At("popped")) \in Nat /\ Cardinality(At("cleared")) \in Nat
      /\ Cardinality(At("pushed")) \in Nat
  BY <1>1, Countable
<1>3. Cardinality(At("popped") \cup At("cleared")) = Cardinality(At("popped")) + Cardinality(At("cleared"))
  <2>1. Cardinality(At("popped") \cup At("cleared"))
          = Cardinality(At("popped")) + Cardinality(At("cleared")) - Cardinality(At("popped") \cap At("cleared"))
    BY <1>2, FS_Union
  <2> QED BY <1>1, <1>2, <2>1, FS_EmptySet
<1> QED BY <1>1, <1>2, <1>3 DEF Uncounted, Number

(* LockfreeQueue::size is exact when no operation is in progress, and the   *)
(* FlowController has then accounted for every tryPush; in between it       *)
(* overstates by the pops that are not counted yet at most, and never wraps.*)
THEOREM SizeIsTruthful == FlowSpec => SizeTruthful
<1>1. ASSUME FlowInv, Loads, [FlowNext]_flowVars
      PROVE  [\A t \in Producers : stage[t] = "sizing" /\ stage'[t] = "sized" =>
                loaded'[t] <= length + Uncounted]_flowVars
  <2> SUFFICES ASSUME NEW t \in Producers, stage[t] = "sizing", stage'[t] = "sized"
               PROVE  loaded'[t] <= length + Uncounted
    OBVIOUS
  <2>1. stage \in [Workers -> Places] /\ loaded \in [Producers -> Nat] /\ t \in Workers
    BY <1>1 DEF FlowInv, FlowTypeOK, Workers
  <2>2. \A u \in Workers, from \in Places, to \in Places :
           Proceeds(u, from, to) => u = t /\ from = "sizing" /\ to = "sized"
    BY <2>1 DEF Proceeds
  <2>3. SizeLoadPop(t)
    <3>1. stage' # stage
      OBVIOUS
    <3>2. CASE \E u \in Producers : SizeLoadPush(u) \/ SizeLoadPop(u) \/ QueuePush(u) \/ PushCounts(u)
      BY <2>2, <3>2 DEF SizeLoadPush, SizeLoadPop, QueuePush, PushCounts, Workers, Places
    <3>3. CASE \E u \in Producers : TryPush(u)
      BY <2>1, <3>3 DEF TryPush, Proceeds
    <3>4. CASE \E u \in Consumers : QueuePop(u) \/ PopCounts(u) \/ Clear(u)
      BY <2>2, <3>4 DEF QueuePop, PopCounts, Clear, Workers, Places
    <3> QED BY <1>1, <3>1, <3>2, <3>3, <3>4
            DEF FlowNext, flowVars, SetMaxQueueSize, SetDropOnFull, ResetDropCount
  <2>4. loaded'[t] = IF loaded[t] > popCount THEN loaded[t] - popCount ELSE 0
    BY <2>1, <2>3 DEF SizeLoadPop
  <2>5. loaded[t] <= pushCount
    BY <1>1 DEF Loads
  <2>6. pushCount + Number("pushed") = popCount + Number("popped") + Number("cleared") + length
    BY <1>1 DEF FlowInv, Counts
  <2>7. loaded[t] \in Nat /\ pushCount \in Nat /\ popCount \in Nat /\ length \in Nat
    BY <1>1, <2>1 DEF FlowInv, FlowTypeOK
  <2> QED BY <2>4, <2>5, <2>6, <2>7, UncountedPops
<1> QED BY <1>1, Settles, LoadsHold, FlowInvHolds, PTL DEF FlowSpec, SizeTruthful

(* tryPush is asked with a size that is stale in both of its parts, and yet *)
(* the queue overshoots the largest limit by one item less than there are   *)
(* producers at most.                                                       *)
THEOREM OvershootIsBounded == FlowSpec => []BoundedOvershoot
<1>1. FlowInv => BoundedOvershoot
  <2> SUFFICES ASSUME FlowInv PROVE length <= MaxLimit + Cardinality(Producers) - 1
    BY MaxLimitIsLargest DEF BoundedOvershoot
  <2>1. pushCount + Cardinality(Out(-1)) <= Cardinality(Producers) + popCount + MaxLimit - 1
    <3>1. -1 \in Int /\ -1 >= -1
      OBVIOUS
    <3>2. \/ pushCount + Cardinality(Out(-1)) <= Cardinality(Producers) + (-1)
          \/ pushCount + Cardinality(Out(-1)) <= Cardinality(Producers) + popCount + MaxLimit - 1
      BY <3>1 DEF FlowInv, Overshoot
    <3>3. Out(-1) \in SUBSET Producers
      BY DEF Out
    <3>4. Cardinality(Out(-1)) \in Nat
      BY <3>3, Countable
    <3> QED BY <3>2, <3>4, Countable, MaxLimitIsLargest DEF FlowInv, FlowTypeOK
  <2>2. /\ Number("pushed") <= Cardinality(Out(-1))
        /\ Number("pushed") \in Nat /\ Cardinality(Out(-1)) \in Nat
    <3>1. At("pushed") \subseteq Out(-1) /\ Out(-1) \in SUBSET Producers
      BY DEF At, Out, FlowInv, FlowTypeOK
    <3> QED BY <3>1, Countable, FS_Subset DEF Number
  <2>3. Number("popped") \in Nat /\ Number("cleared") \in Nat
    <3>1. At("popped") \in SUBSET Workers /\ At("cleared") \in SUBSET Workers
      BY DEF At
    <3> QED BY <3>1, Countable DEF Number
  <2>4. pushCount + Number("pushed") = popCount + Number("popped") + Number("cleared") + length
    BY DEF FlowInv, Counts
  <2> QED BY <2>1, <2>2, <2>3, <2>4, Countable, MaxLimitIsLargest DEF FlowInv, FlowTypeOK
<1> QED BY <1>1, FlowInvHolds, PTL

-----------------------------------------------------------------------------
(* JwtUtil, for any tokens, lifetimes and limits, and for any bound on the  *)
(* clock and on restarts.                                                   *)

JwtTypeOK ==
  /\ clock \in Nat /\ run \in Nat /\ startTime \in Nat /\ maxEntries \in Nat
  /\ issued \in [Tokens -> [iat : Nat, exp : Nat, run : Nat]]

(* Tokens are stamped with the second and the run they were signed in, and  *)
(* the start time of a run is no earlier than the last run's tokens.        *)
Stamps ==
  /\ \A t \in Signed : Iat(t) <= clock /\ issued[t].run <= run
  /\ startTime > 0 => \A t \in Signed : issued[t].run < run => Iat(t) <= startTime

(* Between its checks verify() holds a signed token that was not too old.   *)
Checked ==
  LET t == verifying.token
  IN verifying.at = "checked" =>
       /\ t \in Signed
       /\ verifying.start > 0 /\ issued[t].run < run => Iat(t) = verifying.start

(* The blacklist and what was written are finite sets of signed tokens.     *)
Entries ==
  /\ IsFiniteSet(blacklist) /\ IsFiniteSet(stored)
  /\ blacklist \subseteq Signed /\ stored \subseteq Signed

(* Every revocation that stands is listed until the token has expired, and  *)
(* the callback has written the ones made while it was set.                 *)
Listed ==
  /\ stored = recorded
  /\ \A t \in standing : t \in Signed /\ (t \in blacklist \/ Expired(t))

JwtInv == JwtTypeOK /\ Stamps /\ Checked /\ Entries /\ Listed

-----------------------------------------------------------------------------
(* Nothing is signed and nothing revoked. *)
LEMMA JwtInitHolds == JwtInit => JwtInv
BY JwtConstants, FS_EmptySet
   DEF JwtInit, JwtInv, JwtTypeOK, Stamps, Checked, Entries, Listed, Signed, None

(* A step that leaves clock, tokens and verify() alone may change the       *)
(* blacklist if it keeps what stands.                                       *)
LEMMA BlacklistKeeps ==
  ASSUME JwtInv, UNCHANGED <<clock, issued, run, startTime, verifying>>,
         maxEntries' \in Nat, Entries', Listed'
  PROVE  JwtInv'
BY DEF JwtInv, JwtTypeOK, Stamps, Checked, Signed, Iat

(* Purging drops expired entries only. *)
LEMMA PurgedExpired ==
  ASSUME JwtInv
  PROVE  /\ Purged(blacklist) = {t \in blacklist : ~Expired(t)}
         /\ IsFiniteSet(Purged(blacklist))
<1>1. clock \in Nat /\ \A t \in blacklist : issued[t].exp \in Nat
  BY DEF JwtInv, JwtTypeOK, Entries, Signed
<1>2. Purged(blacklist) \subseteq blacklist
  BY DEF Purged
<1>3. IsFiniteSet(Purged(blacklist))
  BY <1>2, FS_Subset DEF JwtInv, Entries
<1> QED BY <1>1, <1>3 DEF Purged, Expired, Exp

(* What goes to make room is what the limit may cost: the entries that      *)
(* expire before an evicted one are evicted too, and no more go than is     *)
(* needed.                                                                  *)
LEMMA EvictedEndangered ==
  ASSUME JwtInv, NEW out \in Evictions(Purged(blacklist)), NEW o \in out
  PROVE  o \in Endangered
<1> DEFINE entries == Purged(blacklist)
           kept == entries \ out
           earlier == {d \in entries : Exp(d) < Exp(o)}
<1>1. /\ ~(maxEntries = 0 \/ Cardinality(entries) < maxEntries)
      /\ out \subseteq entries /\ Cardinality(kept) = maxEntries - 1
      /\ \A k \in kept : Exp(o) <= Exp(k)
  BY DEF Evictions
<1>2. IsFiniteSet(entries) /\ entries = {t \in blacklist : ~Expired(t)}
  BY PurgedExpired
<1>3. \A t \in entries : Exp(t) \in Nat
  BY <1>2 DEF JwtInv, JwtTypeOK, Entries, Signed, Exp
<1>4. earlier \subseteq out \ {o}
  <2> SUFFICES ASSUME NEW d \in earlier PROVE d \in out /\ d # o
    OBVIOUS
  <2>1. d \in entries /\ o \in entries /\ Exp(d) < Exp(o)
    BY <1>1
  <2>2. Exp(d) \in Nat /\ Exp(o) \in Nat
    BY <1>3, <2>1
  <2>3. d \notin kept
    <3> SUFFICES ASSUME d \in kept PROVE FALSE
      OBVIOUS
    <3>1. Exp(o) <= Exp(d)
      BY <1>1
    <3> QED BY <3>1, <2>1, <2>2
  <2> QED BY <2>1, <2>2, <2>3
<1>5. /\ IsFiniteSet(out) /\ IsFiniteSet(kept)
      /\ IsFiniteSet(out \ {o}) /\ Cardinality(out \ {o}) = Cardinality(out) - 1
      /\ Cardinality(out) \in Nat /\ Cardinality(kept) \in Nat
  <2>1. IsFiniteSet(out) /\ IsFiniteSet(kept)
    BY <1>1, <1>2, FS_Subset
  <2> QED BY <2>1, FS_RemoveElement, FS_CardinalityType
<1>6. IsFiniteSet(earlier) /\ Cardinality(earlier) \in Nat
      /\ Cardinality(earlier) <= Cardinality(out) - 1
  BY <1>4, <1>5, FS_Subset, FS_CardinalityType
<1>7. Cardinality(entries) = Cardinality(out) + Cardinality(kept)
  <2>1. entries = out \cup kept /\ out \cap kept = {}
    BY <1>1
  <2>2. Cardinality(out \cup kept) =
          Cardinality(out) + Cardinality(kept) - Cardinality(out \cap kept)
    BY <1>5, FS_Union
  <2>3. Cardinality(out \cap kept) = 0
    BY <2>1, FS_EmptySet
  <2> HIDE DEF kept, entries
  <2> QED BY <1>5, <2>1, <2>2, <2>3
<1>8. maxEntries \in Nat /\ maxEntries > 0
  BY <1>1 DEF JwtInv, JwtTypeOK
<1>9. Cardinality(earlier) + maxEntries <= Cardinality(entries)
  <2> HIDE DEF kept, entries, earlier
  <2> QED BY <1>1, <1>5, <1>6, <1>7, <1>8
<1>10. o \in entries
  BY <1>1
<1> QED BY <1>2, <1>8, <1>9, <1>10 DEF Endangered

(* revoke() lists the token and loses none that stands. *)
LEMMA RevokeKeeps ==
  ASSUME JwtInv, NEW t \in Tokens, Revoke(t)
  PROVE  JwtInv'
<1>1. PICK out \in Evictions(Purged(blacklist)) :
         blacklist' = (Purged(blacklist) \ out) \cup {t}
  BY DEF Revoke
<1>2. /\ t \in Signed /\ standing' = (standing \ Endangered) \cup {t}
      /\ stored' = IF persist THEN stored \cup {t} ELSE stored
      /\ recorded' = IF persist THEN recorded \cup {t} ELSE recorded
      /\ UNCHANGED <<clock, issued, run, startTime, verifying, maxEntries>>
  BY DEF Revoke
<1>3. Purged(blacklist) = {u \in blacklist : ~Expired(u)} /\ IsFiniteSet(Purged(blacklist))
  BY PurgedExpired
<1>4. Signed' = Signed /\ \A u \in Signed : Expired(u)' <=> Expired(u)
  BY <1>2 DEF Signed, Expired, Exp
<1>5. Entries'
  <2>1. IsFiniteSet(Purged(blacklist) \ out)
    BY <1>3, FS_Subset
  <2>2. IsFiniteSet(blacklist')
    BY <1>1, <2>1, FS_AddElement
  <2>3. IsFiniteSet(stored')
    BY <1>2, FS_AddElement DEF JwtInv, Entries
  <2> QED BY <1>1, <1>2, <1>3, <1>4, <2>2, <2>3 DEF JwtInv, Entries
<1>6. Listed'
  <2>1. stored' = recorded'
    BY <1>2 DEF JwtInv, Listed
  <2>2. ASSUME NEW u \in standing', u # t PROVE u \in Signed /\ (u \in blacklist' \/ Expired(u))
    <3>1. u \in standing /\ u \notin Endangered
      BY <1>2, <2>2
    <3>2. u \in Signed /\ (u \in blacklist \/ Expired(u))
      BY <3>1 DEF JwtInv, Listed
    <3>3. u \notin out
      BY <3>1, EvictedEndangered
    <3> QED BY <1>1, <1>3, <3>2, <3>3
  <2>3. t \in blacklist'
    BY <1>1
  <2> QED BY <1>2, <1>4, <2>1, <2>2, <2>3 DEF Listed
<1> QED BY <1>2, <1>5, <1>6, BlacklistKeeps DEF JwtInv, JwtTypeOK

(* cleanup() drops what has expired. *)
LEMMA CleanupKeeps ==
  ASSUME JwtInv, Cleanup
  PROVE  JwtInv'
<1>1. /\ blacklist' = Purged(blacklist)
      /\ UNCHANGED <<clock, issued, run, startTime, verifying, maxEntries, stored, standing, recorded>>
  BY DEF Cleanup, revocations
<1>2. Purged(blacklist) = {u \in blacklist : ~Expired(u)} /\ IsFiniteSet(Purged(blacklist))
  BY PurgedExpired
<1>3. Signed' = Signed /\ \A u \in Signed : Expired(u)' <=> Expired(u)
  BY <1>1 DEF Signed, Expired, Exp
<1>4. Entries' /\ Listed'
  BY <1>1, <1>2, <1>3 DEF JwtInv, Entries, Listed
<1> QED BY <1>1, <1>4, BlacklistKeeps DEF JwtInv, JwtTypeOK

(* loadEntries() brings back what the callback has written. *)
LEMMA LoadKeeps ==
  ASSUME JwtInv, LoadEntries
  PROVE  JwtInv'
<1>1. /\ blacklist' = blacklist \cup stored /\ standing' = standing \cup recorded
      /\ UNCHANGED <<clock, issued, run, startTime, verifying, maxEntries, stored, recorded>>
  BY DEF LoadEntries
<1>2. Signed' = Signed /\ \A u \in Signed : Expired(u)' <=> Expired(u)
  BY <1>1 DEF Signed, Expired, Exp
<1>3. IsFiniteSet(blacklist')
  BY <1>1, FS_Union DEF JwtInv, Entries
<1>4. Entries' /\ Listed'
  BY <1>1, <1>2, <1>3 DEF JwtInv, Entries, Listed
<1> QED BY <1>1, <1>4, BlacklistKeeps DEF JwtInv, JwtTypeOK

(* sign() makes a token that is neither being verified nor revoked. *)
LEMMA SignKeeps ==
  ASSUME JwtInv,
         NEW t \in Tokens, NEW lifetime \in Lifetimes, Sign(t, lifetime)
  PROVE  JwtInv'
<1> DEFINE new == [iat |-> clock, exp |-> clock + lifetime, run |-> run]
<1>1. /\ t \notin Signed /\ issued' = [issued EXCEPT ![t] = new]
      /\ UNCHANGED <<clock, run, blacklist, startTime, verifying, maxEntries, stored, standing, recorded>>
  BY DEF Sign, revocations
<1>2. new \in [iat : Nat, exp : Nat, run : Nat]
  BY JwtConstants DEF JwtInv, JwtTypeOK
<1>3. JwtTypeOK'
  BY <1>1, <1>2 DEF JwtInv, JwtTypeOK
<1>4. /\ \A u \in Tokens \ {t} : issued'[u] = issued[u]
      /\ issued'[t].iat = clock /\ issued'[t].run = run
  BY <1>1 DEF JwtInv, JwtTypeOK
<1>5. Stamps'
  BY <1>1, <1>4 DEF JwtInv, JwtTypeOK, Stamps, Signed, Iat
<1>6. Checked'
  BY <1>1, <1>4 DEF JwtInv, Checked, Signed, Iat, Exp, Expired
<1>7. Signed \subseteq Signed' /\ \A u \in Signed : Expired(u)' <=> Expired(u)
  BY <1>1, <1>4 DEF Signed, Expired, Exp
<1>8. Entries' /\ Listed'
  BY <1>1, <1>7 DEF JwtInv, Entries, Listed
<1> QED BY <1>3, <1>5, <1>6, <1>8 DEF JwtInv

(* Only Checked speaks of verify(). *)
LEMMA VerifyKeeps ==
  ASSUME JwtInv, Checked',
         UNCHANGED <<clock, issued, run, blacklist, maxEntries, startTime, stored, standing, recorded>>
  PROVE  JwtInv'
BY DEF JwtInv, JwtTypeOK, Stamps, Entries, Listed, Signed, Iat, Exp, Expired

(* verify() looks at the start time before it looks at the blacklist. *)
LEMMA VerifyBeginKeeps ==
  ASSUME JwtInv, NEW t \in Tokens, VerifyBegin(t)
  PROVE  JwtInv'
<1>1. /\ t \in Signed
      /\ UNCHANGED <<clock, issued, run, blacklist, maxEntries, startTime, stored, standing, recorded>>
      /\ verifying' = IF Expired(t) \/ TooOld(t) THEN None
                      ELSE [at |-> "checked", token |-> t, start |-> startTime]
  BY DEF VerifyBegin, revocations
<1>2. CASE Expired(t) \/ TooOld(t)
  BY <1>1, <1>2, VerifyKeeps DEF Checked, None
<1>3. CASE ~(Expired(t) \/ TooOld(t))
  <2>1. verifying'.token = t /\ verifying'.start = startTime
    BY <1>1, <1>3
  <2>2. startTime > 0 /\ issued[t].run < run => Iat(t) = startTime
    BY <1>1, <1>3 DEF TooOld, JwtInv, JwtTypeOK, Stamps, Iat, Signed
  <2>3. Checked'
    BY <1>1, <2>1, <2>2 DEF Checked, Signed, Iat
  <2> QED BY <1>1, <2>3, VerifyKeeps
<1> QED BY <1>2, <1>3

(* Every step keeps the inductive invariant. *)
LEMMA JwtNextKeeps == JwtInv /\ [JwtNext]_jwtVars => JwtInv'
<1> SUFFICES ASSUME JwtInv, [JwtNext]_jwtVars PROVE JwtInv'
  OBVIOUS
<1>1. CASE \E t \in Tokens, n \in Lifetimes : Sign(t, n)
  BY <1>1, SignKeeps
<1>2. CASE \E t \in Tokens : VerifyBegin(t)
  BY <1>2, VerifyBeginKeeps
<1>3. CASE VerifyEnd
  <2>1. /\ verifying'.at # "checked"
        /\ UNCHANGED <<clock, issued, run, blacklist, maxEntries, startTime, stored, standing, recorded>>
    BY <1>3 DEF VerifyEnd, revocations
  <2> QED BY <2>1, VerifyKeeps DEF Checked
<1>4. CASE \E t \in Tokens : Revoke(t)
  BY <1>4, RevokeKeeps
<1>5. CASE Cleanup \/ LoadEntries
  BY <1>5, CleanupKeeps, LoadKeeps
<1>6. CASE \/ \E n \in EntryLimits : SetMaxEntries(n)
           \/ SetPersistCallback \/ UNCHANGED jwtVars
  <2>1. /\ UNCHANGED <<clock, issued, run, startTime, verifying, blacklist, stored, standing, recorded>>
        /\ maxEntries' \in EntryLimits \cup {maxEntries}
    BY <1>6 DEF SetMaxEntries, SetPersistCallback, jwtVars, revocations
  <2>2. maxEntries' \in Nat
    BY <2>1, JwtConstants DEF JwtInv, JwtTypeOK
  <2>3. Entries' /\ Listed'
    BY <2>1 DEF JwtInv, Entries, Listed, Signed, Exp, Expired
  <2> QED BY <2>1, <2>2, <2>3, BlacklistKeeps
<1>7. CASE SetStartTimeSeconds
  BY <1>7 DEF SetStartTimeSeconds, revocations, JwtInv, JwtTypeOK, Stamps, Checked, Entries, Listed,
     Signed, Iat, Exp, Expired
<1>8. CASE Tick
  <2>1. /\ clock' = clock + 1
        /\ UNCHANGED <<issued, run, startTime, verifying, maxEntries, blacklist, stored, standing, recorded>>
    BY <1>8 DEF Tick, revocations
  <2>2. Signed' = Signed /\ \A u \in Signed : Expired(u) => Expired(u)'
    BY <2>1 DEF JwtInv, JwtTypeOK, Signed, Expired, Exp
  <2>3. Entries' /\ Listed'
    BY <2>1, <2>2 DEF JwtInv, Entries, Listed
  <2>4. JwtTypeOK' /\ Stamps' /\ Checked'
    BY <2>1 DEF JwtInv, JwtTypeOK, Stamps, Checked, Signed, Iat
  <2> QED BY <2>3, <2>4 DEF JwtInv
<1>9. CASE Restart
  <2>1. /\ run' = run + 1 /\ standing' = {} /\ blacklist' = {} /\ maxEntries' \in EntryLimits
        /\ startTime' = 0 /\ verifying' = None
        /\ UNCHANGED <<clock, issued, stored, recorded>>
    BY <1>9 DEF Restart
  <2>2. Signed' = Signed
    BY <2>1 DEF Signed
  <2>3. Entries' /\ Listed'
    BY <2>1, <2>2, FS_EmptySet DEF JwtInv, Entries, Listed
  <2>4. JwtTypeOK'
    BY <2>1, JwtConstants DEF JwtInv, JwtTypeOK
  <2>5. Stamps' /\ Checked'
    BY <2>1 DEF JwtInv, JwtTypeOK, Stamps, Checked, Signed, Iat, None
  <2> QED BY <2>3, <2>4, <2>5 DEF JwtInv
<1> QED BY <1>1, <1>2, <1>3, <1>4, <1>5, <1>6, <1>7, <1>8, <1>9 DEF JwtNext

(* The inductive invariant holds throughout. *)
LEMMA JwtInvHolds == JwtSpec => []JwtInv
BY JwtInitHolds, JwtNextKeeps, PTL DEF JwtSpec

-----------------------------------------------------------------------------
(* verify() accepts when isRevoked finds no entry. *)
LEMMA AcceptsUnlisted ==
  ASSUME [JwtNext]_jwtVars, Accepts
  PROVE  verifying.token \notin blacklist
<1>1. verifying' # verifying
  BY DEF Accepts
<1>2. verifying'.at = "accepted" /\ verifying.at = "checked"
  BY DEF Accepts
<1>3. VerifyEnd \/ \E t \in Tokens : VerifyBegin(t)
  BY <1>1, <1>2 DEF JwtNext, jwtVars, Sign, Revoke, Cleanup, SetMaxEntries, SetPersistCallback, LoadEntries,
     SetStartTimeSeconds, Tick, Restart, None
<1> QED BY <1>2, <1>3 DEF VerifyEnd, VerifyBegin, IsRevoked

(* A token for which revoke() has returned is not accepted, whatever was    *)
(* purged, evicted, lost or loaded since, and also if verify() had begun    *)
(* before; it can be only if a full list evicted it or a restart lost it,   *)
(* or if it expired while verify() ran.                                     *)
THEOREM RevocationHolds == JwtSpec => RevokedStaysOut
<1>1. JwtInv /\ [JwtNext]_jwtVars =>
        [Accepts => verifying.token \notin standing \/ Expired(verifying.token)]_jwtVars
  BY AcceptsUnlisted DEF JwtInv, Listed
<1> QED BY <1>1, JwtInvHolds, PTL DEF JwtSpec, RevokedStaysOut

(* setStartTimeSeconds expels the sessions of earlier runs except those of  *)
(* the very second, whenever verify() began and however often the start     *)
(* time was set.                                                            *)
THEOREM EarlierRunsExpelled == JwtSpec => OldSessionsExpelled
<1>1. JwtInv /\ [JwtNext]_jwtVars =>
        [Accepts /\ verifying.start > 0 /\ issued[verifying.token].run < run =>
           Iat(verifying.token) = verifying.start]_jwtVars
  BY DEF JwtInv, Checked, Accepts
<1> QED BY <1>1, JwtInvHolds, PTL DEF JwtSpec, OldSessionsExpelled

-----------------------------------------------------------------------------
(* IdUtil, for any threads, ids, length of the sequence and bounds.         *)

Nodes == (-1 .. 31) \X (-1 .. 31)
Generators == [node : Nodes, sequence : 0 .. MaxSequence, last : Nat \cup {-1}]

IdTypeOK ==
  /\ millis \in Nat
  /\ generator \in [IdThreads -> Generators]
  /\ waiting \in [IdThreads -> Nat \cup {-1}]
  /\ \A id \in given : id[2] \in Nat /\ id[4] \in Nat

(* No id of thread t is later than its generator: the time is at most       *)
(* m_lastTimestamp and, in that millisecond, the sequence number at most    *)
(* m_sequence; the latter not while the call waits, having set it to 0.     *)
Behind(t) ==
  \A id \in given : id[1] = t =>
    /\ id[2] <= generator[t].last
    /\ waiting[t] = -1 /\ id[2] = generator[t].last => id[4] <= generator[t].sequence

IdInv ==
  /\ IdTypeOK
  /\ \A t \in IdThreads : t \notin failed \cup wentBack => Behind(t)
  /\ UniqueIds

(* nextId returns an id that is later than every one before, or the         *)
(* generator has followed the clock back.                                   *)
LEMMA ReturnKeeps ==
  ASSUME IdInv, NEW t \in IdThreads, NEW sequence \in 0 .. MaxSequence,
         Return(t, millis, sequence),
         t \notin failed /\ generator[t].last <= millis =>
           \/ generator[t].last < millis
           \/ waiting[t] = -1 /\ generator[t].sequence < sequence
  PROVE  IdInv'
<1> DEFINE id0 == <<t, millis, generator[t].node, sequence>>
           g == generator[t]
<1>0. /\ millis \in Nat /\ generator \in [IdThreads -> Generators] /\ g \in Generators
      /\ waiting \in [IdThreads -> Nat \cup {-1}]
      /\ g.last \in Int /\ g.sequence \in Nat /\ sequence \in Nat
  BY DEF IdInv, IdTypeOK, Generators
<1>1. /\ generator' = [generator EXCEPT ![t].last = millis, ![t].sequence = sequence]
      /\ given' = given \cup {id0}
      /\ repeated' = IF id0 \in given THEN repeated \cup {t} ELSE repeated
      /\ wentBack' = IF millis < g.last THEN wentBack \cup {t} ELSE wentBack
      /\ waiting' = [waiting EXCEPT ![t] = -1]
      /\ UNCHANGED <<millis, failed>>
  BY DEF Return
<1>2. /\ generator'[t].last = millis /\ generator'[t].sequence = sequence /\ waiting'[t] = -1
      /\ \A u \in IdThreads \ {t} : generator'[u] = generator[u] /\ waiting'[u] = waiting[u]
      /\ generator' \in [IdThreads -> Generators] /\ waiting' \in [IdThreads -> Nat \cup {-1}]
  BY <1>0, <1>1 DEF Generators
<1>3. id0[1] = t /\ id0[2] = millis /\ id0[4] = sequence
  OBVIOUS
<1>4. IdTypeOK'
  BY <1>0, <1>1, <1>2, <1>3 DEF IdInv, IdTypeOK
<1>5. ASSUME t \notin failed \cup wentBack'
      PROVE  id0 \notin given /\ Behind(t)'
  <2>1. g.last <= millis /\ t \notin wentBack
    BY <1>0, <1>1, <1>5
  <2>2. g.last < millis \/ (waiting[t] = -1 /\ g.sequence < sequence /\ g.last = millis)
    BY <1>0, <1>5, <2>1
  <2>3. Behind(t)
    BY <1>5, <2>1 DEF IdInv
  <2>4. \A id \in given : id[2] \in Nat /\ id[4] \in Nat
    BY DEF IdInv, IdTypeOK
  <2>5. ASSUME NEW id \in given, id[1] = t
        PROVE  id[2] < millis \/ (id[2] = millis /\ id[4] < sequence)
    <3>1. id[2] <= g.last /\ (waiting[t] = -1 /\ id[2] = g.last => id[4] <= g.sequence)
      BY <2>3, <2>5 DEF Behind
    <3> QED BY <1>0, <2>2, <2>4, <3>1
  <2>6. id0 \notin given
    BY <1>0, <1>3, <2>5
  <2>7. Behind(t)'
    BY <1>0, <1>1, <1>2, <1>3, <2>4, <2>5 DEF Behind
  <2> QED BY <2>6, <2>7
<1>6. ASSUME NEW u \in IdThreads, u \notin (failed \cup wentBack)', u # t
      PROVE  Behind(u)'
  <2>1. Behind(u)
    BY <1>1, <1>6 DEF IdInv
  <2> QED BY <1>1, <1>2, <1>3, <1>6, <2>1 DEF Behind
<1>7. UniqueIds'
  BY <1>1, <1>5 DEF IdInv, UniqueIds
<1> QED BY <1>1, <1>4, <1>5, <1>6, <1>7 DEF IdInv

(* The sequence wraps or goes up by one. *)
LEMMA SequenceStep ==
  ASSUME NEW s \in 0 .. MaxSequence, (s + 1) % (MaxSequence + 1) # 0
  PROVE  (s + 1) % (MaxSequence + 1) = s + 1 /\ s + 1 \in 0 .. MaxSequence
<1>1. CASE s = MaxSequence
  BY <1>1
<1>2. CASE s < MaxSequence
  BY <1>2, IdConstants
<1> QED BY <1>1, <1>2, IdConstants

(* The steps that return no id. *)
LEMMA IdPlainKeeps ==
  ASSUME IdInv, NEW t \in IdThreads,
         MakeGenerator(t) \/ Overflow(t) \/ LoopTurn(t)
  PROVE  IdInv'
<1>0. /\ millis \in Nat /\ generator \in [IdThreads -> Generators] /\ generator[t] \in Generators
      /\ waiting \in [IdThreads -> Nat \cup {-1}]
  BY DEF IdInv, IdTypeOK
<1>1. UNCHANGED <<millis, given, repeated, wentBack>> /\ failed \subseteq failed'
  BY DEF MakeGenerator, Overflow, LoopTurn, idHistory
<1>2. ASSUME generator' \in [IdThreads -> Generators], waiting' \in [IdThreads -> Nat \cup {-1}],
             \A u \in IdThreads : u \notin failed' =>
               /\ generator'[u].last = generator[u].last
               /\ waiting'[u] = -1 => /\ waiting[u] = -1
                                      /\ generator'[u].sequence = generator[u].sequence
      PROVE  IdInv'
  BY <1>1, <1>2 DEF IdInv, IdTypeOK, Behind, UniqueIds
<1>3. CASE MakeGenerator(t)
  <2>1. UNCHANGED waiting
    BY <1>3 DEF MakeGenerator
  <2>2. CASE UNCHANGED generator
    BY <1>0, <1>2, <2>1, <2>2
  <2>3. CASE InRange(Node(t)) /\ generator' = [generator EXCEPT ![t].node = Node(t)]
    <3>1. Node(t) \in Nodes
      BY <2>3 DEF InRange, Node, Nodes
    <3>2. generator' \in [IdThreads -> Generators]
      BY <1>0, <2>3, <3>1 DEF Generators
    <3>3. \A u \in IdThreads : /\ generator'[u].last = generator[u].last
                             /\ generator'[u].sequence = generator[u].sequence
      BY <1>0, <2>3 DEF Generators
    <3> QED BY <1>0, <1>2, <2>1, <3>2, <3>3
  <2> QED BY <1>3, <2>2, <2>3 DEF MakeGenerator
<1>4. CASE Overflow(t)
  <2>1. /\ generator' = [generator EXCEPT ![t].sequence = 0]
        /\ waiting' = [waiting EXCEPT ![t] = 0]
    BY <1>4 DEF Overflow
  <2>2. generator' \in [IdThreads -> Generators] /\ waiting' \in [IdThreads -> Nat \cup {-1}]
    BY <1>0, <2>1, IdConstants DEF Generators
  <2>3. /\ \A u \in IdThreads : generator'[u].last = generator[u].last
        /\ \A u \in IdThreads \ {t} : /\ generator'[u].sequence = generator[u].sequence
                                     /\ waiting'[u] = waiting[u]
        /\ waiting'[t] = 0
    BY <1>0, <2>1 DEF Generators
  <2> QED BY <1>2, <2>2, <2>3
<1>5. CASE LoopTurn(t)
  <2>1. /\ waiting[t] >= 0 /\ UNCHANGED generator
        /\ \/ t \in failed' /\ waiting' = [waiting EXCEPT ![t] = -1]
           \/ waiting' = [waiting EXCEPT ![t] = waiting[t] + 1]
    BY <1>5 DEF LoopTurn
  <2>2. CASE t \in failed' /\ waiting' = [waiting EXCEPT ![t] = -1]
    BY <1>0, <1>2, <2>1, <2>2
  <2>3. CASE waiting' = [waiting EXCEPT ![t] = waiting[t] + 1]
    <3>1. waiting[t] + 1 \in Nat /\ waiting[t] + 1 # -1
      BY <1>0, <2>1
    <3> QED BY <1>0, <1>2, <2>1, <2>3, <3>1
  <2> QED BY <2>1, <2>2, <2>3
<1> QED BY <1>3, <1>4, <1>5

(* Every step keeps the invariant. *)
LEMMA IdNextKeeps == IdInv /\ [IdNext]_idVars => IdInv'
<1> SUFFICES ASSUME IdInv, [IdNext]_idVars PROVE IdInv'
  OBVIOUS
<1>1. CASE \E t \in IdThreads : NewMillisecond(t) \/ SameMillisecond(t) \/ LoopEnds(t)
  <2>1. PICK t \in IdThreads : NewMillisecond(t) \/ SameMillisecond(t) \/ LoopEnds(t)
    BY <1>1
  <2>0. /\ millis \in Nat /\ generator[t].last \in Int /\ generator[t].sequence \in 0 .. MaxSequence
    BY DEF IdInv, IdTypeOK, Generators
  <2>2. CASE NewMillisecond(t) \/ LoopEnds(t)
    BY <2>0, <2>2, ReturnKeeps, IdConstants DEF NewMillisecond, LoopEnds
  <2>3. CASE SameMillisecond(t)
    <3> DEFINE s == generator[t].sequence
    <3>1. (s + 1) % (MaxSequence + 1) = s + 1 /\ s + 1 \in 0 .. MaxSequence
      BY <2>0, <2>3, SequenceStep DEF SameMillisecond, Overflows
    <3>2. waiting[t] = -1 /\ Return(t, millis, s + 1)
      BY <2>3, <3>1 DEF SameMillisecond, Ready, Calls
    <3> QED BY <2>0, <3>1, <3>2, ReturnKeeps
  <2> QED BY <2>1, <2>2, <2>3
<1>2. CASE \E t \in IdThreads : MakeGenerator(t) \/ Overflow(t) \/ LoopTurn(t)
  BY <1>2, IdPlainKeeps
<1>3. CASE (\E ids \in CustomIds : InitSnowflake(ids)) \/ UNCHANGED idVars
  BY <1>3 DEF InitSnowflake, idVars, idHistory, IdInv, IdTypeOK, Behind, UniqueIds
<1>4. CASE MillisecondPasses \/ SetBack
  <2>1. millis' \in Nat /\ UNCHANGED <<generator, waiting, given, repeated, wentBack, failed>>
    BY <1>4 DEF MillisecondPasses, SetBack, idHistory, IdInv, IdTypeOK
  <2> QED BY <2>1 DEF IdInv, IdTypeOK, Behind, UniqueIds
<1> QED BY <1>1, <1>2, <1>3, <1>4 DEF IdNext, NextId

(* generateSnowflakeId: a thread gets no id twice unless one of its calls   *)
(* has failed or its generator has followed the clock back.  The sequence   *)
(* may wrap any number of times and the clock may be set back and catch up  *)
(* again between two calls.                                                 *)
THEOREM SnowflakeIdsUnique == IdSpec => []UniqueIds
<1>1. IdInit => IdInv
  <2> SUFFICES ASSUME IdInit PROVE IdInv
    OBVIOUS
  <2>1. NoGenerator \in Generators
    BY IdConstants DEF NoGenerator, Generators, Nodes
  <2>2. IdTypeOK
    BY <2>1 DEF IdInit, IdTypeOK
  <2> QED BY <2>2 DEF IdInit, IdInv, Behind, UniqueIds
<1>2. IdInv /\ [IdNext]_idVars => IdInv'
  BY IdNextKeeps
<1>3. IdInv => UniqueIds
  BY DEF IdInv
<1> QED BY <1>1, <1>2, <1>3, PTL DEF IdSpec

==============================================================================
