------------------------------ MODULE Snowflake ------------------------------
(***************************************************************************)
(* Snowflake ids: SnowflakeGenerator.next over SequenceSourceImpl. Every   *)
(* id of the system comes from here, requests and commands included; that  *)
(* no two are equal is what idempotence by command id rests on, and that   *)
(* they grow is what the sqlite queues and every paged list rest on.       *)
(*                                                                         *)
(* A generator is named by its partition. A call holds the source's lock,  *)
(* and its clock is the machine's: it may step back at any time, between   *)
(* two calls or while a call spins for the next millisecond.               *)
(***************************************************************************)
EXTENDS Integers, Sequences

CONSTANTS
  PartitionCount,   \* 64: 6 bits
  SequenceSize,     \* 65536: 16 bits
  MaxElapsed,       \* bound on the clocks
  BackWhileSpinning \* whether a clock may step back during the spin

ASSUME PartitionCountAssumption == PartitionCount \in Nat \ {0}
ASSUME SequenceSizeAssumption == SequenceSize \in Nat /\ SequenceSize > 1
ASSUME MaxElapsedAssumption == MaxElapsed \in Nat
ASSUME BackWhileSpinningAssumption == BackWhileSpinning \in BOOLEAN

VARIABLES
  clock,              \* what elapsedSource would answer
  previousCalledAt,
  nextSequence,
  spinning,           \* the call waits in the loop for another millisecond
  issued              \* history: the ids a generator has issued, in order

vars == <<clock, previousCalledAt, nextSequence, spinning, issued>>

Partitions == 0..(PartitionCount - 1)

maxSequence == SequenceSize - 1

\* Mutant: the partition is left out of the id.
IdShort(elapsed, partition, sequence) ==
  elapsed * (PartitionCount * SequenceSize) + sequence

\* generate: 41 bits elapsed, 6 bits partition, 16 bits sequence.
Id(elapsed, partition, sequence) ==
  elapsed * (PartitionCount * SequenceSize) + partition * SequenceSize + sequence

Init ==
  /\ clock \in [Partitions -> 0..MaxElapsed]
  /\ previousCalledAt = [p \in Partitions |-> 0]
  /\ nextSequence = [p \in Partitions |-> 0]
  /\ spinning = [p \in Partitions |-> FALSE]
  /\ issued = [p \in Partitions |-> <<>>]

\* The call returns (elapsed, sequence) and leaves these two behind.
Return(p, elapsed, sequence) ==
  /\ issued' = [issued EXCEPT ![p] = Append(@, Id(elapsed, p, sequence))]
  /\ previousCalledAt' = [previousCalledAt EXCEPT ![p] = elapsed]
  /\ nextSequence' = [nextSequence EXCEPT ![p] = sequence + 1]
  /\ UNCHANGED clock

\* Mutant: the sequence 0 that was just returned is not counted.
NewMillisecondFromZero(p) ==
  /\ ~spinning[p]
  /\ clock[p] > previousCalledAt[p]
  /\ issued' = [issued EXCEPT ![p] = Append(@, Id(clock[p], p, 0))]
  /\ previousCalledAt' = [previousCalledAt EXCEPT ![p] = clock[p]]
  /\ nextSequence' = [nextSequence EXCEPT ![p] = 0]
  /\ UNCHANGED <<clock, spinning>>

NewMillisecond(p) ==
  /\ ~spinning[p]
  /\ clock[p] > previousCalledAt[p]
  /\ Return(p, clock[p], 0)
  /\ UNCHANGED spinning

\* Mutant: nobody looks whether the millisecond is used up.
SameMillisecondUnlimited(p) ==
  /\ ~spinning[p]
  /\ clock[p] = previousCalledAt[p]
  /\ Return(p, previousCalledAt[p], nextSequence[p])
  /\ UNCHANGED spinning

SameMillisecond(p) ==
  /\ ~spinning[p]
  /\ clock[p] = previousCalledAt[p]
  /\ nextSequence[p] < maxSequence
  /\ Return(p, previousCalledAt[p], nextSequence[p])
  /\ UNCHANGED spinning

Exhausted(p) ==
  /\ ~spinning[p]
  /\ clock[p] = previousCalledAt[p]
  /\ nextSequence[p] >= maxSequence
  /\ spinning' = [spinning EXCEPT ![p] = TRUE]
  /\ UNCHANGED <<clock, previousCalledAt, nextSequence, issued>>

\* The loop ends with any other reading of the clock.
Resume(p) ==
  /\ spinning[p]
  /\ clock[p] # previousCalledAt[p]
  /\ Return(p, clock[p], 0)
  /\ spinning' = [spinning EXCEPT ![p] = FALSE]

\* A call at clock[p] < previousCalledAt[p] throws: no step of its own.
NextId(p) == NewMillisecond(p) \/ SameMillisecond(p) \/ Exhausted(p) \/ Resume(p)

Tick(p) ==
  /\ clock[p] < MaxElapsed
  /\ clock' = [clock EXCEPT ![p] = @ + 1]
  /\ UNCHANGED <<previousCalledAt, nextSequence, spinning, issued>>

StepBack(p) ==
  /\ spinning[p] => BackWhileSpinning
  /\ \E t \in 0..(clock[p] - 1) : clock' = [clock EXCEPT ![p] = t]
  /\ UNCHANGED <<previousCalledAt, nextSequence, spinning, issued>>

Next == \E p \in Partitions : NextId(p) \/ Tick(p) \/ StepBack(p)

Spec == Init /\ [][Next]_vars
-----------------------------------------------------------------------------
\* Every variable has its type: no sequence number is outside its 16 bits.
TypeOK ==
  /\ clock \in [Partitions -> 0..MaxElapsed]
  /\ previousCalledAt \in [Partitions -> 0..MaxElapsed]
  /\ nextSequence \in [Partitions -> 0..maxSequence]
  /\ spinning \in [Partitions -> BOOLEAN]
  /\ issued \in [Partitions -> Seq(Nat)]

\* The ids of a generator grow strictly, so none is issued twice, while its
\* clock steps forward and back between calls: a call that would have to
\* repeat one throws.
Growing ==
  \A p \in Partitions : \A i, j \in DOMAIN issued[p] :
    i < j => issued[p][i] < issued[p][j]

\* No two generators ever issue the same id: elapsed, partition and sequence
\* never run into each other's bits.
Apart ==
  \A p, q \in Partitions :
    p # q => \A i \in DOMAIN issued[p], j \in DOMAIN issued[q] :
               issued[p][i] # issued[q][j]

\* SequenceSource.next: "Blocks if sequence is exhausted until next
\* millisecond". The call that found the millisecond used up returns with a
\* later one.
BlocksUntilNext ==
  [][\A p \in Partitions :
       spinning[p] /\ ~spinning'[p]
         => previousCalledAt'[p] > previousCalledAt[p]]_vars
=============================================================================
