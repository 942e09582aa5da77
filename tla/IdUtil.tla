------------------------------- MODULE IdUtil -------------------------------
(***************************************************************************)
(* IdUtil::generateSnowflakeId: each thread makes its own                   *)
(* SnowflakeGenerator on its first call; the generators share the system    *)
(* clock, which an adjustment may set back.  An id is the tuple of its four *)
(* bit fields.                                                              *)
(***************************************************************************)
EXTENDS Integers

CONSTANTS
  IdThreads,
  HashOf,       \* the hash of each thread's id, modulo 32
  HostHash,     \* getHostMacHash() % 32: negative when the hash's top bit is set
  CustomIds,    \* the arguments of initSnowflake, pairs of ids
  MaxSequence,  \* MAX_SEQUENCE
  MaxWaitCount, \* MAX_WAIT_COUNT
  MaxMillis, MaxAdjustments, MaxIds \* bounds: clock, steps back, calls per thread

ASSUME IdConstants ==
  /\ HashOf \in [IdThreads -> 0 .. 31] /\ HostHash \in -31 .. 31
  /\ MaxSequence \in Nat /\ MaxWaitCount \in Nat \ {0}
  /\ MaxMillis \in Nat /\ MaxAdjustments \in Nat /\ MaxIds \in Nat

VARIABLES
  millis,     \* currentTimeMillis()
  adjusted,   \* how often the clock was set back
  custom,     \* s_customDatacenterId and s_customWorkerId, -1 when not set
  generator,  \* each thread's generator
  waiting,    \* each thread's waitCount in nextId's loop; -1 outside it
  given,      \* the ids returned, each with the thread that got it
  repeated,   \* the threads that got an id twice
  failed,     \* the threads a call of which returned 0 or threw
  wentBack,   \* the threads whose generator followed the clock backwards
  count

idHistory == <<given, repeated, wentBack>>
idVars == <<millis, adjusted, custom, generator, waiting, idHistory, failed, count>>

NoGenerator == [node |-> <<-1, -1>>, sequence |-> 0, last |-> -1]

IdInit ==
  /\ millis = 0 /\ adjusted = 0 /\ custom = <<-1, -1>>
  /\ generator = [t \in IdThreads |-> NoGenerator]
  /\ waiting = [t \in IdThreads |-> -1]
  /\ given = {} /\ repeated = {} /\ failed = {} /\ wentBack = {} /\ count = [t \in IdThreads |-> 0]

InitSnowflake(ids) ==
  /\ custom' = ids
  /\ UNCHANGED <<millis, adjusted, generator, waiting, idHistory, failed, count>>

-----------------------------------------------------------------------------
(* The generator of a thread *)

Node(t) == <<IF custom[1] >= 0 THEN custom[1] % 32 ELSE HostHash,
             IF custom[2] >= 0 THEN custom[2] % 32 ELSE HashOf[t]>>
InRange(node) == node[1] \in 0 .. 31 /\ node[2] \in 0 .. 31

Calls(t) == count[t] < MaxIds /\ waiting[t] = -1

\* The first call makes the generator; its constructor throws on a bad id.
MakeGenerator(t) ==
  /\ Calls(t) /\ generator[t] = NoGenerator
  /\ IF InRange(Node(t))
     THEN /\ generator' = [generator EXCEPT ![t].node = Node(t)]
          /\ UNCHANGED <<failed, count>>
     ELSE /\ failed' = failed \cup {t} /\ count' = [count EXCEPT ![t] = @ + 1]
          /\ UNCHANGED generator
  /\ UNCHANGED <<millis, adjusted, custom, waiting, idHistory>>

-----------------------------------------------------------------------------
(* nextId *)

\* Remember the timestamp and put the id together.
Return(t, timestamp, sequence) ==
  /\ generator' = [generator EXCEPT ![t].last = timestamp, ![t].sequence = sequence]
  /\ LET id == <<t, timestamp, generator[t].node, sequence>>
     IN /\ given' = given \cup {id}
        /\ repeated' = IF id \in given THEN repeated \cup {t} ELSE repeated
  /\ wentBack' = IF timestamp < generator[t].last THEN wentBack \cup {t} ELSE wentBack
  /\ waiting' = [waiting EXCEPT ![t] = -1]
  /\ count' = [count EXCEPT ![t] = @ + 1]
  /\ UNCHANGED <<millis, adjusted, custom, failed>>

\* Mutant: the wrapped sequence is used in the same millisecond.
OverflowsNever(t) == FALSE
Overflows(t) == (generator[t].sequence + 1) % (MaxSequence + 1) = 0

Ready(t) == Calls(t) /\ generator[t] # NoGenerator

\* Any other millisecond, an earlier one too, starts at 0.
NewMillisecond(t) ==
  /\ Ready(t) /\ millis # generator[t].last
  /\ Return(t, millis, 0)

SameMillisecond(t) ==
  /\ Ready(t) /\ millis = generator[t].last /\ ~Overflows(t)
  /\ Return(t, millis, (generator[t].sequence + 1) % (MaxSequence + 1))

\* m_sequence is 0 from here on, whatever becomes of the call.
Overflow(t) ==
  /\ Ready(t) /\ millis = generator[t].last /\ Overflows(t)
  /\ generator' = [generator EXCEPT ![t].sequence = 0]
  /\ waiting' = [waiting EXCEPT ![t] = 0]
  /\ UNCHANGED <<millis, adjusted, custom, idHistory, failed, count>>

\* One turn of the loop, which reads the clock and does not sleep: a later
\* millisecond ends it, an earlier one and the last turn make the call fail.
LoopEnds(t) ==
  /\ waiting[t] >= 0 /\ millis > generator[t].last
  /\ Return(t, millis, 0)

GivesUp(t) == millis < generator[t].last \/ waiting[t] + 1 = MaxWaitCount

\* Mutant: the loop waits for a later millisecond however long it takes.
LoopTurnEndless(t) ==
  /\ waiting[t] >= 0 /\ millis <= generator[t].last
  /\ UNCHANGED idVars
LoopTurn(t) ==
  /\ waiting[t] >= 0 /\ millis <= generator[t].last
  /\ IF GivesUp(t)
     THEN /\ failed' = failed \cup {t} /\ waiting' = [waiting EXCEPT ![t] = -1]
          /\ count' = [count EXCEPT ![t] = @ + 1]
     ELSE /\ waiting' = [waiting EXCEPT ![t] = @ + 1]
          /\ UNCHANGED <<failed, count>>
  /\ UNCHANGED <<millis, adjusted, custom, generator, idHistory>>

NextId(t) == NewMillisecond(t) \/ SameMillisecond(t) \/ Overflow(t) \/ LoopEnds(t) \/ LoopTurn(t)

-----------------------------------------------------------------------------
MillisecondPasses ==
  /\ millis < MaxMillis /\ millis' = millis + 1
  /\ UNCHANGED <<adjusted, custom, generator, waiting, idHistory, failed, count>>

SetBack ==
  /\ adjusted < MaxAdjustments /\ millis > 0 /\ millis' = millis - 1 /\ adjusted' = adjusted + 1
  /\ UNCHANGED <<custom, generator, waiting, idHistory, failed, count>>

IdNext ==
  \/ \E ids \in CustomIds : InitSnowflake(ids)
  \/ \E t \in IdThreads : MakeGenerator(t) \/ NextId(t)
  \/ MillisecondPasses \/ SetBack

IdSpec == IdInit /\ [][IdNext]_idVars

\* A thread in nextId goes on; nothing says that the clock advances meanwhile.
IdFairSpec == IdSpec /\ \A t \in IdThreads : WF_idVars(LoopEnds(t) \/ LoopTurn(t))

-----------------------------------------------------------------------------
(* Properties *)

\* A thread gets an id a second time only after one of its calls has failed
\* or its generator has followed the clock backwards: sequence numbers that
\* wrap, a clock set back and forth unseen, or initSnowflake do no harm.
UniqueIds == repeated \subseteq failed \cup wentBack

\* nextId returns even if the clock stands still or runs backwards.
CallsReturn == \A t \in IdThreads : waiting[t] >= 0 ~> waiting[t] = -1
=============================================================================
