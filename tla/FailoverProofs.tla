--------------------------- MODULE FailoverProofs ---------------------------
(***************************************************************************)
(* What the rotation of module Failover returns, for any number of exits.  *)
(***************************************************************************)
EXTENDS Failover, LeastNumber, SequenceTheorems

\* AvoidSet::insert keeps a list of exits.
LEMMA AvoidInsertType ==
  ASSUME NEW avoid \in Seq(Exits), NEW key \in Exits
  PROVE  AvoidInsert(avoid, key) \in Seq(Exits)
<1>1. CASE key \in Avoided(avoid)
  <2> DEFINE p == PositionOf(avoid, key)
             before == SubSeq(avoid, 1, p - 1)
             after == SubSeq(avoid, p + 1, Len(avoid))
  <2>1. p \in 1 .. Len(avoid)
    BY <1>1 DEF Avoided, PositionOf
  <2>2. before \in Seq(Exits)
    <3>1. \A i \in 1 .. p - 1 : avoid[i] \in Exits
      BY <2>1
    <3> HIDE DEF p
    <3> QED BY <2>1, <3>1, SubSeqProperties
  <2>3. after \in Seq(Exits)
    <3>1. \A i \in p + 1 .. Len(avoid) : avoid[i] \in Exits
      BY <2>1
    <3> HIDE DEF p
    <3> QED BY <2>1, <3>1, SubSeqProperties
  <2>4. before \o after \o <<key>> \in Seq(Exits)
    <3> HIDE DEF before, after
    <3>1. before \o after \in Seq(Exits)
      BY <2>2, <2>3, ConcatProperties
    <3>2. <<key>> \in Seq(Exits)
      OBVIOUS
    <3> QED BY <3>1, <3>2, ConcatProperties
  <2> QED BY <1>1, <2>4 DEF AvoidInsert
<1>2. CASE key \notin Avoided(avoid)
  BY <1>2, AppendProperties DEF AvoidInsert
<1> QED BY <1>1, <1>2

\* A remainder by the number of exits names an exit.
LEMMA ModIsExit ==
  ASSUME NEW n \in Nat
  PROVE  n % N \in Exits
BY NAssumption DEF Exits

\* Going once or twice round the exits comes back to the same one.
LEMMA ModRound ==
  ASSUME NEW x \in Exits
  PROVE  x % N = x /\ (x + N) % N = x /\ (x + N + N) % N = x
BY NAssumption DEF Exits

\* The rotation steps to an exit that is free, when it finds one.
LEMMA FreeStep ==
  ASSUME NEW start \in Nat, NEW avoid, FreeSteps(start, avoid) # {}
  PROVE  \E step \in FreeSteps(start, avoid) :
            /\ \A t \in FreeSteps(start, avoid) : step <= t
            /\ NextCandidate(start, avoid) = (start + step) % N
<1>1. FreeSteps(start, avoid) \subseteq Nat
  BY NAssumption DEF FreeSteps, Exits
<1>2. \E s \in FreeSteps(start, avoid) : \A t \in FreeSteps(start, avoid) : s <= t
  BY <1>1, Minimum
<1> QED BY <1>2 DEF NextCandidate

\* next_candidate always names an exit.
LEMMA NextCandidateType ==
  ASSUME NEW start \in Nat, NEW avoid
  PROVE  NextCandidate(start, avoid) \in Exits
<1>1. CASE FreeSteps(start, avoid) = {}
  BY <1>1, ModIsExit DEF NextCandidate
<1>2. CASE FreeSteps(start, avoid) # {}
  <2>1. PICK step \in FreeSteps(start, avoid) :
          NextCandidate(start, avoid) = (start + step) % N
    BY <1>2, FreeStep
  <2>2. start + step \in Nat
    BY NAssumption DEF FreeSteps, Exits
  <2> QED BY <2>1, <2>2, ModIsExit
<1> QED BY <1>1, <1>2

\* Every exit lies within one round of a start the supervisor can be at.
LEMMA WithinOneRound ==
  ASSUME NEW start \in 0 .. N + 1, NEW x \in Exits
  PROVE  \E step \in Exits : (start + step) % N = x
<1>1. CASE start <= x
  <2>1. x - start \in Exits /\ start + (x - start) = x
    BY <1>1, NAssumption DEF Exits
  <2> QED BY <2>1, ModRound
<1>2. CASE start > x /\ start <= x + N
  <2>1. CASE start < x + N + 1 /\ start > x
    <3>1. x + N - start \in Exits /\ start + (x + N - start) = x + N
      BY <2>1, NAssumption DEF Exits
    <3> QED BY <3>1, ModRound
  <2> QED BY <1>2, <2>1, NAssumption DEF Exits
<1>3. CASE start > x + N
  <2>1. x + N + N - start \in Exits /\ start + (x + N + N - start) = x + N + N
    BY <1>3, NAssumption DEF Exits
  <2> QED BY <2>1, ModRound
<1> QED BY <1>1, <1>2, <1>3, NAssumption DEF Exits

\* next_candidate returns an avoided exit only when every exit is avoided.
LEMMA NextCandidateFree ==
  ASSUME NEW start \in 0 .. N + 1, NEW avoid
  PROVE  NextCandidate(start, avoid) \notin Avoided(avoid) \/ Exits \subseteq Avoided(avoid)
<1>0. start \in Nat
  BY NAssumption
<1>1. CASE FreeSteps(start, avoid) = {}
  BY <1>1, WithinOneRound DEF FreeSteps
<1>2. CASE FreeSteps(start, avoid) # {}
  BY <1>0, <1>2, FreeStep DEF FreeSteps
<1> QED BY <1>1, <1>2

\* Starting at an exit that is not avoided, next_candidate returns it.
LEMMA NextCandidateKeeps ==
  ASSUME NEW start \in Exits, NEW avoid, start \notin Avoided(avoid)
  PROVE  NextCandidate(start, avoid) = start
<1>1. 0 \in FreeSteps(start, avoid)
  BY ModRound, NAssumption DEF FreeSteps, Exits
<1>2. PICK step \in FreeSteps(start, avoid) :
        /\ \A t \in FreeSteps(start, avoid) : step <= t
        /\ NextCandidate(start, avoid) = (start + step) % N
  BY <1>1, FreeStep, NAssumption DEF Exits
<1>3. step = 0
  BY <1>1, <1>2, NAssumption DEF FreeSteps, Exits
<1> QED BY <1>2, <1>3, ModRound, NAssumption DEF Exits

\* Starting one past an exit, next_candidate returns to it only when every other
\* exit is avoided.
LEMMA NextCandidateMovesOn ==
  ASSUME NEW x \in Exits, NEW avoid, NextCandidate(x + 1, avoid) = x
  PROVE  Exits \ {x} \subseteq Avoided(avoid)
<1> SUFFICES ASSUME NEW y \in Exits, y # x, y \notin Avoided(avoid)
             PROVE  FALSE
  OBVIOUS
<1>0. x + 1 \in Nat
  BY NAssumption DEF Exits
<1>1. PICK s \in 0 .. N - 2 : (x + 1 + s) % N = y
  <2>1. CASE y > x
    <3>1. y - x - 1 \in 0 .. N - 2 /\ x + 1 + (y - x - 1) = y
      BY <2>1, NAssumption DEF Exits
    <3> QED BY <3>1, ModRound
  <2>2. CASE y < x
    <3>1. y + N - x - 1 \in 0 .. N - 2 /\ x + 1 + (y + N - x - 1) = y + N
      BY <2>2, NAssumption DEF Exits
    <3> QED BY <3>1, ModRound
  <2> QED BY <2>1, <2>2, NAssumption DEF Exits
<1>2. s \in FreeSteps(x + 1, avoid)
  BY <1>1, NAssumption DEF FreeSteps, Exits
<1>3. PICK step \in FreeSteps(x + 1, avoid) :
        /\ \A t \in FreeSteps(x + 1, avoid) : step <= t
        /\ NextCandidate(x + 1, avoid) = (x + 1 + step) % N
  BY <1>0, <1>2, FreeStep
<1>4. step \in 0 .. N - 2
  <2>1. step <= s
    BY <1>2, <1>3
  <2>2. step \in Exits
    BY DEF FreeSteps
  <2> QED BY <2>1, <2>2, NAssumption DEF Exits
<1>5. CASE x + 1 + step < N
  <2>1. x + 1 + step \in Exits
    BY <1>4, <1>5, NAssumption DEF Exits
  <2> QED BY <1>3, <1>4, <2>1, ModRound, NAssumption DEF Exits
<1>6. CASE x + 1 + step >= N
  <2>1. x + 1 + step - N \in Exits /\ x + 1 + step = (x + 1 + step - N) + N
    BY <1>4, <1>6, NAssumption DEF Exits
  <2>2. (x + 1 + step) % N = x + 1 + step - N
    BY <2>1, ModRound
  <2> QED BY <1>3, <1>4, <2>2, NAssumption DEF Exits
<1> QED BY <1>4, <1>5, <1>6, NAssumption DEF Exits
=============================================================================
