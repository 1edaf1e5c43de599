------------------------------ MODULE Failover ------------------------------
(***************************************************************************)
(* The exit rotation of the failover datapaths: the TTL avoid set and the  *)
(* rotation that skips avoided exits (portfollow.rs), as the connect       *)
(* closures of client.rs use them.                                         *)
(*                                                                         *)
(* Exits are named by their index in the candidate list.  All entries of   *)
(* an avoid set share one TTL, so they expire in insertion order: the set  *)
(* is the sequence of its live keys, oldest first, and an expiry drops the *)
(* head.                                                                   *)
(***************************************************************************)
EXTENDS Integers, Sequences

CONSTANT N  \* how many candidate exits the datapath was given

ASSUME NAssumption == N \in Nat \ {0}

Exits == 0 .. N - 1

\* The keys of an avoid set: what AvoidSet::contains answers for.
Avoided(avoid) == {avoid[i] : i \in DOMAIN avoid}

\* Position of key in an avoid set that holds it.
PositionOf(avoid, key) == CHOOSE i \in DOMAIN avoid : avoid[i] = key

\* AvoidSet::insert: an older entry of the key is dropped, the key becomes
\* the newest entry.
AvoidInsert(avoid, key) ==
  IF key \in Avoided(avoid)
  THEN LET p == PositionOf(avoid, key)
       IN  SubSeq(avoid, 1, p - 1) \o SubSeq(avoid, p + 1, Len(avoid)) \o <<key>>
  ELSE Append(avoid, key)

\* How many places after start the first exit that is not avoided lies.
FreeSteps(start, avoid) ==
  {step \in Exits : (start + step) % N \notin Avoided(avoid)}

\* Mutant: the rotation does not look at the avoid set.
NextCandidate_BlindToAvoid(start, avoid) ==
  start % N

\* next_candidate: the first exit at or after start that is not avoided, and
\* start itself when all are (it fails open).
NextCandidate(start, avoid) ==
  IF FreeSteps(start, avoid) = {}
  THEN start % N
  ELSE LET step == CHOOSE s \in FreeSteps(start, avoid) :
                     \A t \in FreeSteps(start, avoid) : s <= t
       IN  (start + step) % N
=============================================================================
