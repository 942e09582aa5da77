--------------------------- MODULE LockfreeQueue ---------------------------
(***************************************************************************)
(* A LockfreeQueue guarded by a FlowController, the way the controller's    *)
(* interface asks for: a producer passes size() to tryPush and pushes if it *)
(* returns true.  boost::lockfree::queue, which is external, grows beyond   *)
(* its capacity, so a push never fails; the counters that size() reads are  *)
(* raised after the queue has changed.  The items decide nothing: only how  *)
(* many there are is kept.                                                  *)
(***************************************************************************)
EXTENDS Naturals, FiniteSets

CONSTANTS
  Producers, Consumers,
  Limits,       \* maxQueueSize, also as changed by setMaxQueueSize
  Capacities,   \* the arguments of the constructor
  MaxAttempts   \* bound: tryPush calls

ASSUME FlowConstants ==
  /\ Limits \subseteq Nat /\ Capacities \subseteq Nat /\ MaxAttempts \in Nat
\* A process has finitely many threads, and some of them produce.
ASSUME FlowThreads ==
  IsFiniteSet(Producers) /\ IsFiniteSet(Consumers) /\ Producers # {}
\* The limits are of type size_t.
ASSUME FlowLimits == \E m \in Limits : \A n \in Limits : n <= m

VARIABLES
  capacity,     \* m_capacity
  length,       \* the items in m_queue
  pushCount, popCount,
  limit,        \* m_maxQueueSize
  dropOnFull,   \* m_dropOnFull
  attempts, drops, dropCount, \* m_totalPushAttempts, m_totalDrops, m_dropCount
  refused,      \* tryPush calls that returned false without counting a drop
  stage,        \* where each thread is
  loaded        \* what a producer has loaded in size()

controller == <<limit, dropOnFull, attempts, drops, dropCount, refused>>
flowVars == <<capacity, length, pushCount, popCount, controller, stage, loaded>>

\* The smallest power of two that is not below the argument.
Powers == {2 ^ i : i \in 0 .. 8}
RoundedUp(n) == CHOOSE p \in Powers : p >= n /\ \A q \in Powers : q >= n => p <= q

FlowInit ==
  /\ capacity \in {RoundedUp(n) : n \in Capacities}
  /\ length = 0 /\ pushCount = 0 /\ popCount = 0
  /\ limit \in Limits /\ dropOnFull \in BOOLEAN
  /\ attempts = 0 /\ drops = 0 /\ dropCount = 0 /\ refused = 0
  /\ stage = [t \in Producers \cup Consumers |-> "idle"]
  /\ loaded = [t \in Producers |-> 0]

Proceeds(t, from, to) == stage[t] = from /\ stage' = [stage EXCEPT ![t] = to]

-----------------------------------------------------------------------------
(* A producer: size(), tryPush(), push() *)

SizeLoadPush(t) ==
  /\ attempts + Cardinality({u \in Producers : stage[u] \in {"sizing", "sized"}}) < MaxAttempts
  /\ Proceeds(t, "idle", "sizing")
  /\ loaded' = [loaded EXCEPT ![t] = pushCount]
  /\ UNCHANGED <<capacity, length, pushCount, popCount, controller>>

\* Mutant: the difference of the unsigned counters wraps around.
SizeLoadPopWraps(t) ==
  /\ Proceeds(t, "sizing", "sized")
  /\ loaded' = [loaded EXCEPT ![t] = (@ + 2 ^ 16 - popCount) % 2 ^ 16]
  /\ UNCHANGED <<capacity, length, pushCount, popCount, controller>>
\* More pops than pushes may have been counted since; the difference is cut at 0.
SizeLoadPop(t) ==
  /\ Proceeds(t, "sizing", "sized")
  /\ loaded' = [loaded EXCEPT ![t] = IF @ > popCount THEN @ - popCount ELSE 0]
  /\ UNCHANGED <<capacity, length, pushCount, popCount, controller>>

\* Mutant: one item too many.
CanPushAtLimit(size) == size <= limit
CanPush(size) == size < limit

TryPush(t) ==
  /\ attempts' = attempts + 1
  /\ LET may  == CanPush(loaded[t])
         drop == IF ~may /\ dropOnFull THEN 1 ELSE 0
     IN /\ Proceeds(t, "sized", IF may THEN "allowed" ELSE "idle")
        /\ drops' = drops + drop /\ dropCount' = dropCount + drop
        /\ refused' = IF ~may /\ ~dropOnFull THEN refused + 1 ELSE refused
  /\ loaded' = [loaded EXCEPT ![t] = 0]
  /\ UNCHANGED <<capacity, length, pushCount, popCount, limit, dropOnFull>>

QueuePush(t) ==
  /\ Proceeds(t, "allowed", "pushed")
  /\ length' = length + 1
  /\ UNCHANGED <<capacity, pushCount, popCount, controller, loaded>>

PushCounts(t) ==
  /\ Proceeds(t, "pushed", "idle")
  /\ pushCount' = pushCount + 1
  /\ UNCHANGED <<capacity, length, popCount, controller, loaded>>

-----------------------------------------------------------------------------
(* A consumer: pop(), and clear(), which pops until the queue is empty *)

QueuePop(t) ==
  /\ length > 0 /\ length' = length - 1
  /\ \/ Proceeds(t, "idle", "popped") \/ Proceeds(t, "clearing", "cleared")
  /\ UNCHANGED <<capacity, pushCount, popCount, controller, loaded>>

PopCounts(t) ==
  /\ \/ Proceeds(t, "popped", "idle") \/ Proceeds(t, "cleared", "clearing")
  /\ popCount' = popCount + 1
  /\ UNCHANGED <<capacity, length, pushCount, controller, loaded>>

Clear(t) ==
  /\ \/ Proceeds(t, "idle", "clearing")
     \/ length = 0 /\ Proceeds(t, "clearing", "idle")
  /\ UNCHANGED <<capacity, length, pushCount, popCount, controller, loaded>>

-----------------------------------------------------------------------------
(* The controller's setters *)

SetMaxQueueSize(n) ==
  /\ limit' = n
  /\ UNCHANGED <<capacity, length, pushCount, popCount, dropOnFull, attempts, drops, dropCount,
                 refused, stage, loaded>>

SetDropOnFull(flag) ==
  /\ dropOnFull' = flag
  /\ UNCHANGED <<capacity, length, pushCount, popCount, limit, attempts, drops, dropCount,
                 refused, stage, loaded>>

ResetDropCount ==
  /\ dropCount' = 0
  /\ UNCHANGED <<capacity, length, pushCount, popCount, limit, dropOnFull, attempts, drops,
                 refused, stage, loaded>>

FlowNext ==
  \/ \E t \in Producers :
       SizeLoadPush(t) \/ SizeLoadPop(t) \/ TryPush(t) \/ QueuePush(t) \/ PushCounts(t)
  \/ \E t \in Consumers : QueuePop(t) \/ PopCounts(t) \/ Clear(t)
  \/ \E n \in Limits : SetMaxQueueSize(n)
  \/ \E flag \in BOOLEAN : SetDropOnFull(flag)
  \/ ResetDropCount

FlowSpec == FlowInit /\ [][FlowNext]_flowVars

-----------------------------------------------------------------------------
(* Properties *)

\* However stale the sizes the producers test, the queue never holds more than
\* the largest limit and one item for each producer but one.
BoundedOvershoot ==
  \E n \in Limits : length <= n + Cardinality(Producers) - 1

\* When no operation is in progress size() is the number of items, also after
\* a clear(), and every attempt was pushed, dropped or refused.
SettledCounts ==
  (\A t \in Producers \cup Consumers : stage[t] \in {"idle", "clearing"}) =>
    /\ pushCount = popCount + length
    /\ attempts = pushCount + drops + refused

\* The items that are out of the queue and not counted yet.
Uncounted == Cardinality({t \in Producers \cup Consumers : stage[t] \in {"popped", "cleared"}})

\* size() is exact at rest.  While threads push and pop it returns at most the
\* number of items then in the queue and one more for each thread that has
\* taken an item and not counted it: although its two loads are not atomic and
\* the second may be the larger, the unsigned difference never wraps.
SizeTruthful ==
  /\ []SettledCounts
  /\ [][\A t \in Producers : stage[t] = "sizing" /\ stage'[t] = "sized" =>
         loaded'[t] <= length + Uncounted]_flowVars
=============================================================================
