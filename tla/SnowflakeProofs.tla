--------------------------- MODULE SnowflakeProofs ---------------------------
(***************************************************************************)
(* Snowflake ids grow and never collide, for any layout of the bits, any   *)
(* number of generators and however long their clocks run.                 *)
(***************************************************************************)
EXTENDS Snowflake, TLAPS

\* Multiplication keeps an order, and leaves a gap of one factor.
LEMMA Times ==
  ASSUME NEW a \in Nat, NEW b \in Nat, NEW n \in Nat, a < b
  PROVE  a * n + n <= b * n
<1>1. PICK d \in Nat : b = a + 1 + d
  <2>1. b - a - 1 \in Nat /\ b = a + 1 + (b - a - 1)
    OBVIOUS
  <2> QED
    BY <2>1
<1>2. (a + 1 + d) * n = a * n + n + d * n
  OBVIOUS
<1>3. d * n >= 0 /\ d * n \in Nat /\ a * n \in Nat
  OBVIOUS
<1> QED
  BY <1>1, <1>2, <1>3

\* A number is written in one way only as a quotient and a remainder.
LEMMA Quotient ==
  ASSUME NEW n \in Nat, NEW a \in Nat, NEW b \in Nat,
         NEW r \in 0..(n - 1), NEW s \in 0..(n - 1),
         a * n + r = b * n + s
  PROVE  a = b
<1>0. a * n \in Nat /\ b * n \in Nat
  OBVIOUS
<1>1. CASE a < b
  BY <1>0, <1>1, Times
<1>2. CASE b < a
  BY <1>0, <1>2, Times
<1> QED
  BY <1>1, <1>2

Ranks == 0..maxSequence

\* An id splits into the generator's part and the rest: first the sequence,
\* then the partition is taken off.
LEMMA IdSplit ==
  ASSUME NEW e \in Nat, NEW p \in Partitions, NEW s \in Ranks
  PROVE  /\ e * PartitionCount + p \in Nat
         /\ Id(e, p, s) = (e * PartitionCount + p) * SequenceSize + s
         /\ Id(e, p, s) \in Nat
<1>1. p \in Nat /\ s \in Nat /\ PartitionCount \in Nat /\ SequenceSize \in Nat
  BY PartitionCountAssumption, SequenceSizeAssumption DEF Partitions, Ranks, maxSequence
<1>2. e * PartitionCount \in Nat
  BY <1>1
<1>3. (e * PartitionCount + p) * SequenceSize
        = (e * PartitionCount) * SequenceSize + p * SequenceSize
  BY <1>1, <1>2
<1>4. (e * PartitionCount) * SequenceSize = e * (PartitionCount * SequenceSize)
  BY <1>1
<1>5. (e * PartitionCount + p) * SequenceSize \in Nat
  BY <1>1, <1>2
<1> QED
  BY <1>1, <1>2, <1>3, <1>4, <1>5 DEF Id

\* Generators have ids of their own.
LEMMA IdApart ==
  ASSUME NEW e \in Nat, NEW f \in Nat, NEW p \in Partitions, NEW q \in Partitions,
         NEW s \in Ranks, NEW t \in Ranks, Id(e, p, s) = Id(f, q, t)
  PROVE  p = q
<1>1. e * PartitionCount + p = f * PartitionCount + q
  <2>1. s \in 0..(SequenceSize - 1) /\ t \in 0..(SequenceSize - 1) /\ SequenceSize \in Nat
    BY SequenceSizeAssumption DEF Ranks, maxSequence
  <2>2. /\ e * PartitionCount + p \in Nat /\ f * PartitionCount + q \in Nat
        /\ (e * PartitionCount + p) * SequenceSize + s
             = (f * PartitionCount + q) * SequenceSize + t
    BY IdSplit
  <2> QED
    BY <2>1, <2>2, Quotient
<1>2. e = f
  BY <1>1, Quotient, PartitionCountAssumption DEF Partitions
<1> QED
  BY <1>1, <1>2, PartitionCountAssumption DEF Partitions

\* A later millisecond, or a later sequence number of the same, gives a
\* greater id.
LEMMA IdGrows ==
  ASSUME NEW e \in Nat, NEW f \in Nat, NEW p \in Partitions,
         NEW s \in Ranks, NEW t \in Ranks, e < f \/ (e = f /\ s < t)
  PROVE  Id(e, p, s) < Id(f, p, t)
<1> DEFINE A == e * PartitionCount + p
           B == f * PartitionCount + p
<1>1. A \in Nat /\ B \in Nat /\ Id(e, p, s) = A * SequenceSize + s
      /\ Id(f, p, t) = B * SequenceSize + t
  BY IdSplit
<1>2. s \in Nat /\ t \in Nat /\ s < SequenceSize /\ SequenceSize \in Nat
  BY SequenceSizeAssumption DEF Ranks, maxSequence
<1>3. CASE e < f
  <2>1. e * PartitionCount + PartitionCount <= f * PartitionCount
    BY <1>3, Times, PartitionCountAssumption
  <2>2. A < B
    BY <2>1, PartitionCountAssumption DEF Partitions
  <2>3. A * SequenceSize + SequenceSize <= B * SequenceSize
    BY <1>1, <1>2, <2>2, Times
  <2>4. A * SequenceSize \in Nat /\ B * SequenceSize \in Nat
    BY <1>1, <1>2
  <2> QED
    BY <1>1, <1>2, <2>3, <2>4
<1>4. CASE e = f /\ s < t
  <2>1. A * SequenceSize \in Nat
    BY <1>1, <1>2
  <2> QED
    BY <1>1, <1>2, <1>4, <2>1
<1> QED
  BY <1>3, <1>4
-----------------------------------------------------------------------------
\* Every id is one of its generator's, and lies below the one the generator
\* would issue next in the millisecond it is in. A spin only waits for later
\* milliseconds.
Below ==
  \A p \in Partitions : \A i \in DOMAIN issued[p] :
    issued[p][i] < Id(previousCalledAt[p], p, nextSequence[p])

Owned ==
  \A p \in Partitions : \A i \in DOMAIN issued[p] :
    \E e \in Nat, s \in Ranks : issued[p][i] = Id(e, p, s)

SpinsForward == \A p \in Partitions : spinning[p] => clock[p] >= previousCalledAt[p]

USE DEF Ranks

LEMMA NextType == TypeOK /\ [Next]_vars => TypeOK'
<1> SUFFICES ASSUME TypeOK, [Next]_vars PROVE TypeOK'
  OBVIOUS
<1>0. maxSequence \in Nat /\ 1 <= maxSequence
  BY SequenceSizeAssumption DEF maxSequence
<1>1. ASSUME NEW p \in Partitions, NEW e \in 0..MaxElapsed, NEW s \in 0..maxSequence,
             s + 1 <= maxSequence, Return(p, e, s)
      PROVE  /\ clock' \in [Partitions -> 0..MaxElapsed]
             /\ previousCalledAt' \in [Partitions -> 0..MaxElapsed]
             /\ nextSequence' \in [Partitions -> 0..maxSequence]
             /\ issued' \in [Partitions -> Seq(Nat)]
  <2>1. Id(e, p, s) \in Nat
    BY IdSplit, MaxElapsedAssumption
  <2>2. s + 1 \in 0..maxSequence
    BY <1>0, <1>1
  <2>3. issued' \in [Partitions -> Seq(Nat)]
    BY <1>1, <2>1 DEF TypeOK, Return
  <2> QED
    BY <1>1, <2>2, <2>3 DEF TypeOK, Return
<1>2. ASSUME NEW p \in Partitions, NextId(p) PROVE TypeOK'
  <2>1. CASE NewMillisecond(p)
    BY <2>1, <1>0, <1>1 DEF NewMillisecond, TypeOK
  <2>2. CASE SameMillisecond(p)
    BY <2>2, <1>0, <1>1 DEF SameMillisecond, TypeOK
  <2>3. CASE Exhausted(p)
    BY <2>3 DEF Exhausted, TypeOK
  <2>4. CASE Resume(p)
    BY <2>4, <1>0, <1>1 DEF Resume, TypeOK
  <2> QED
    BY <1>2, <2>1, <2>2, <2>3, <2>4 DEF NextId
<1>3. ASSUME NEW p \in Partitions, Tick(p) PROVE TypeOK'
  BY <1>3, MaxElapsedAssumption DEF Tick, TypeOK
<1>4. ASSUME NEW p \in Partitions, StepBack(p) PROVE TypeOK'
  BY <1>4, MaxElapsedAssumption DEF StepBack, TypeOK
<1>5. CASE UNCHANGED vars
  BY <1>5 DEF TypeOK, vars
<1> QED
  BY <1>2, <1>3, <1>4, <1>5 DEF Next

\* The variables keep their types; in particular no sequence number outgrows
\* its bits.
THEOREM TypeCorrect == Spec => []TypeOK
<1>1. Init => TypeOK
  BY SequenceSizeAssumption, MaxElapsedAssumption DEF Init, TypeOK, maxSequence
<1> QED
  BY <1>1, NextType, PTL DEF Spec

\* A call issues one id of one generator.
OneIssued ==
  \E p \in Partitions, e \in 0..MaxElapsed, s \in 0..maxSequence :
    /\ Return(p, e, s)
    /\ s + 1 <= maxSequence
    /\ \/ e > previousCalledAt[p]
       \/ e = previousCalledAt[p] /\ s = nextSequence[p]
       \/ spinning[p] /\ e = clock[p] /\ e # previousCalledAt[p] /\ s = 0

\* A step issues nothing, or one id.
LEMMA OneId ==
  ASSUME TypeOK, [Next]_vars
  PROVE  UNCHANGED <<issued, previousCalledAt, nextSequence>> \/ OneIssued
<1>0. maxSequence \in Nat /\ 1 <= maxSequence
  BY SequenceSizeAssumption DEF maxSequence
<1>1. ASSUME NEW p \in Partitions, NewMillisecond(p) PROVE OneIssued
  BY <1>0, <1>1 DEF NewMillisecond, OneIssued, TypeOK
<1>2. ASSUME NEW p \in Partitions, SameMillisecond(p) PROVE OneIssued
  BY <1>0, <1>2 DEF SameMillisecond, OneIssued, TypeOK
<1>3. ASSUME NEW p \in Partitions, Resume(p) PROVE OneIssued
  BY <1>0, <1>3 DEF Resume, OneIssued, TypeOK
<1> QED
  BY <1>1, <1>2, <1>3
     DEF Next, NextId, Exhausted, Tick, StepBack, vars

\* No two generators ever issue the same id, whatever their clocks do.
THEOREM NeverCollide == Spec => []Apart
<1>1. Init => Owned
  BY DEF Init, Owned
<1>2. ASSUME TypeOK, Owned, [Next]_vars PROVE Owned'
  <2>1. CASE UNCHANGED <<issued, previousCalledAt, nextSequence>>
    BY <1>2, <2>1 DEF Owned
  <2>2. ASSUME NEW p \in Partitions, NEW e \in 0..MaxElapsed, NEW s \in 0..maxSequence,
               Return(p, e, s)
        PROVE  Owned'
    <3> SUFFICES ASSUME NEW q \in Partitions, NEW i \in DOMAIN issued'[q]
                 PROVE  \E f \in Nat, t \in Ranks : issued'[q][i] = Id(f, q, t)
      BY DEF Owned
    <3>1. CASE q # p
      BY <1>2, <2>2, <3>1 DEF Return, Owned, TypeOK
    <3>2. CASE q = p
      <4>1. issued'[p] = Append(issued[p], Id(e, p, s)) /\ issued[p] \in Seq(Nat)
        BY <1>2, <2>2 DEF Return, TypeOK
      <4>2. \/ i \in DOMAIN issued[p] /\ issued'[p][i] = issued[p][i]
            \/ issued'[p][i] = Id(e, p, s)
        BY <3>2, <4>1
      <4>3. e \in Nat
        BY MaxElapsedAssumption
      <4> QED
        BY <1>2, <3>2, <4>2, <4>3 DEF Owned
    <3> QED
      BY <3>1, <3>2
  <2> QED
    BY <1>2, <2>1, <2>2, OneId DEF OneIssued
<1>3. Owned => Apart
  BY IdApart DEF Owned, Apart
<1> QED
  BY <1>1, <1>2, <1>3, TypeCorrect, PTL DEF Spec

Inv == TypeOK /\ Below /\ Growing /\ SpinsForward

\* The ids of a generator grow strictly, as long as its clock does not step back
\* while a call spins. Between two calls it may.
THEOREM AlwaysGrow == ASSUME ~BackWhileSpinning PROVE Spec => []Growing
<1>1. Init => Inv
  BY SequenceSizeAssumption, MaxElapsedAssumption
     DEF Init, Inv, TypeOK, Below, Growing, SpinsForward, maxSequence
<1>2. ASSUME Inv, [Next]_vars PROVE SpinsForward'
  <2> USE <1>2 DEF Inv, TypeOK, SpinsForward
  <2>1. ASSUME NEW p \in Partitions, NewMillisecond(p) PROVE SpinsForward'
    BY <2>1 DEF NewMillisecond, Return
  <2>2. ASSUME NEW p \in Partitions, SameMillisecond(p) PROVE SpinsForward'
    BY <2>2 DEF SameMillisecond, Return
  <2>3. ASSUME NEW p \in Partitions, Exhausted(p) PROVE SpinsForward'
    BY <2>3 DEF Exhausted
  <2>4. ASSUME NEW p \in Partitions, Resume(p) PROVE SpinsForward'
    BY <2>4 DEF Resume, Return
  <2>5. ASSUME NEW p \in Partitions, Tick(p) PROVE SpinsForward'
    BY <2>5, MaxElapsedAssumption DEF Tick
  <2>6. ASSUME NEW p \in Partitions, StepBack(p) PROVE SpinsForward'
    BY <2>6, BackWhileSpinningAssumption DEF StepBack
  <2>7. CASE UNCHANGED vars
    BY <2>7 DEF vars
  <2> QED
    BY <2>1, <2>2, <2>3, <2>4, <2>5, <2>6, <2>7 DEF Next, NextId
<1>3. ASSUME Inv, [Next]_vars PROVE Below' /\ Growing'
  <2>0. TypeOK /\ TypeOK'
    BY <1>3, NextType DEF Inv
  <2>1. CASE UNCHANGED <<issued, previousCalledAt, nextSequence>>
    BY <1>3, <2>1 DEF Inv, Below, Growing
  <2>2. ASSUME NEW p \in Partitions, NEW e \in 0..MaxElapsed, NEW s \in 0..maxSequence,
               Return(p, e, s), s + 1 <= maxSequence,
               e > previousCalledAt[p] \/ (e = previousCalledAt[p] /\ s = nextSequence[p])
        PROVE  Below' /\ Growing'
    <3> DEFINE new == Id(e, p, s)
               top == Id(previousCalledAt[p], p, nextSequence[p])
    <3>1. /\ issued'[p] = Append(issued[p], new)
          /\ issued[p] \in Seq(Nat)
          /\ previousCalledAt'[p] = e /\ nextSequence'[p] = s + 1
          /\ \A q \in Partitions : q # p =>
               /\ issued'[q] = issued[q]
               /\ previousCalledAt'[q] = previousCalledAt[q]
               /\ nextSequence'[q] = nextSequence[q]
      BY <2>0, <2>2 DEF Return, TypeOK
    <3>2. /\ e \in Nat /\ previousCalledAt[p] \in Nat
          /\ nextSequence[p] \in Ranks /\ s \in Ranks /\ s + 1 \in Ranks
      BY <2>0, <2>2, MaxElapsedAssumption, SequenceSizeAssumption
         DEF TypeOK, maxSequence
    <3>3. /\ top \in Nat /\ new \in Nat /\ top <= new
          /\ Id(e, p, s + 1) \in Nat /\ new < Id(e, p, s + 1)
      <4>1. top \in Nat /\ new \in Nat /\ Id(e, p, s + 1) \in Nat
        BY <3>2, IdSplit
      <4>2. new < Id(e, p, s + 1)
        BY <3>2, IdGrows
      <4>3. e > previousCalledAt[p] => top < new
        BY <3>2, IdGrows
      <4> QED
        BY <2>2, <4>1, <4>2, <4>3
    <3>4. \A i \in DOMAIN issued[p] : issued[p][i] \in Nat /\ issued[p][i] < top
      BY <1>3, <3>1 DEF Inv, Below
    <3>5. \A i \in DOMAIN issued'[p] :
            \/ i = Len(issued[p]) + 1 /\ issued'[p][i] = new
            \/ i \in DOMAIN issued[p] /\ issued'[p][i] = issued[p][i]
      BY <3>1
    <3>6. Below'
      <4>1. \A i \in DOMAIN issued'[p] : issued'[p][i] < Id(e, p, s + 1)
        BY <3>3, <3>4, <3>5
      <4> QED
        BY <4>1, <1>3, <3>1 DEF Below, Inv
    <3>7. Growing'
      <4> SUFFICES ASSUME NEW q \in Partitions, NEW i \in DOMAIN issued'[q],
                          NEW j \in DOMAIN issued'[q], i < j
                   PROVE  issued'[q][i] < issued'[q][j]
        BY DEF Growing
      <4>1. CASE q # p
        BY <4>1, <1>3, <3>1 DEF Growing, Inv
      <4>2. CASE q = p
        <5>1. i \in DOMAIN issued[p] /\ issued'[p][i] = issued[p][i]
          BY <4>2, <3>1
        <5>2. CASE j = Len(issued[p]) + 1
          <6>1. issued'[p][j] = new
            BY <5>2, <3>1
          <6>2. issued[p][i] \in Nat /\ issued[p][i] < top
            BY <5>1, <3>4
          <6> QED
            BY <4>2, <5>1, <6>1, <6>2, <3>3
        <5>3. CASE j \in DOMAIN issued[p]
          BY <4>2, <5>1, <5>3, <3>1, <1>3 DEF Growing, Inv
        <5> QED
          BY <4>2, <5>2, <5>3, <3>5
      <4> QED
        BY <4>1, <4>2
    <3> QED
      BY <3>6, <3>7
  <2>3. ASSUME NEW p \in Partitions, spinning[p], clock[p] # previousCalledAt[p]
        PROVE  clock[p] > previousCalledAt[p]
    BY <1>3, <2>0, <2>3, MaxElapsedAssumption DEF Inv, SpinsForward, TypeOK
  <2> QED
    BY <2>0, <1>3, <2>1, <2>2, <2>3, OneId DEF OneIssued
<1>4. Inv /\ [Next]_vars => Inv'
  BY <1>2, <1>3, NextType DEF Inv
<1>5. Inv => Growing
  BY DEF Inv
<1> QED
  BY <1>1, <1>4, <1>5, PTL DEF Spec
=============================================================================
