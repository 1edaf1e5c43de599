-------------------------- MODULE SupervisorProofs --------------------------
(***************************************************************************)
(* The supervisor keeps its promises for any number of exits and epochs,   *)
(* with or without a gate, standing aside or not.                          *)
(***************************************************************************)
EXTENDS Supervisor, FailoverProofs

\* The task waits to redial, or is about to.
Between == {"draining", "spreading", "backoff", "top", "aside", "held"}

\* The epoch is being torn down.
Closing == {"retract", "retire", "close"}

\* Where the rotation stands: on the exit of the epoch that is up, one past it
\* once a drain or a conviction ended it, and never further than two past the
\* last exit.
RotationInv ==
  /\ pc = "dialing" => dial \in Exits
  /\ pc \in Up \cup Closing => exit \in Exits /\ dial = NoExit /\ gen # 0
  /\ pc \in Up => cursor = exit
  /\ pc \in Closing => cursor = IF cause = "EgressDead" THEN exit + 1 ELSE exit
  /\ pc \in Between /\ dial = NoExit /\ gen > 0 =>
       /\ exit \in Exits
       /\ cursor = IF cause \in {"Drained", "EgressDead"} THEN exit + 1 ELSE exit

\* What each channel holds at each point of an epoch.
ChannelInv ==
  /\ NoStaleEpoch
  /\ pc \in Up => metrics = gen
  /\ pc = "start" => forwarder = 0 /\ addressing = 0
  /\ pc = "publish" => forwarder = 0 /\ addressing = gen
  /\ pc \in {"announce", "complete", "serving", "gating", "retract"} =>
       forwarder = gen /\ metrics = gen /\ addressing = gen
  /\ pc \in {"retire", "close"} => forwarder = 0
  /\ pc = "close" => metrics = 0

\* What the published state says at each point of the loop.
StateInv ==
  /\ pc \in {"aside", "dialing", "failing", "start", "publish", "announce"} =>
       state \in {"Connecting", "Reconnecting"}
  /\ pc \in {"complete", "serving", "gating"} => state = "Connected"
  /\ pc \in {"failing", "failed"} \/ state = "Failed" => fatal
  /\ fatal => pc \in {"failing", "failed", "aborted"} /\
              state \in {"Connecting", "Reconnecting", "Failed"}

\* Which epoch the last report is about.
ReportInv ==
  /\ pc \in Up => epochEnd.gen = gen - 1
  /\ pc \in Pcs \ (Up \cup {"aborted"}) => epochEnd.gen = gen
  /\ epochEnd.gen \in {gen - 1, gen}

\* A refused drain is out of the select; an open migration is not completed yet.
DrainInv ==
  /\ pc = "gating" => drainArmed
  /\ RefusedDrainStays
  /\ migration = "Migrating" => migrating
  /\ pc \in {"serving", "gating"} \cup Closing => ~migrating

IndInv == TypeOK /\ RotationInv /\ ChannelInv /\ StateInv /\ ReportInv /\ DrainInv

\* The invariant holds as the task is spawned.
LEMMA InitInv == Init => IndInv
<1> SUFFICES ASSUME Init PROVE IndInv
  OBVIOUS
<1>1. /\ first \in BOOLEAN /\ drainArmed \in BOOLEAN /\ migrating \in BOOLEAN
      /\ fatal \in BOOLEAN /\ reconnectPermit \in BOOLEAN /\ wakePermit \in BOOLEAN
      /\ verdict \in BOOLEAN /\ routed \in BOOLEAN
  BY Zenon DEF Init
<1>2. TypeOK
  BY <1>1, NAssumption, SupervisorAssumption
  DEF Init, TypeOK, Pcs, Up, Over, NoExit, Exits, Causes, Enders
<1>3. RotationInv /\ ChannelInv /\ StateInv /\ ReportInv /\ DrainInv
  BY DEF Init, RotationInv, ChannelInv, NoStaleEpoch, StateInv, ReportInv, DrainInv,
         RefusedDrainStays, Up, Down, Between, Closing, Pcs, Over
<1> QED BY <1>2, <1>3 DEF IndInv

\* Every step of the task, and of everything around it, preserves the invariant.
LEMMA StepInv == IndInv /\ [Next]_vars => IndInv'
<1> SUFFICES ASSUME IndInv, [Next]_vars PROVE IndInv'
  OBVIOUS
<1> USE NAssumption, SupervisorAssumption
    DEF IndInv, TypeOK, RotationInv, ChannelInv, NoStaleEpoch, StateInv, ReportInv,
        DrainInv, RefusedDrainStays, Up, Over, Down, Between, Closing, Pcs, NoExit, Exits,
        task, published, route, inputs, Causes, Enders
<1>1. CASE Announce
  <2>1. first' \in BOOLEAN
    BY <1>1, Zenon DEF Announce
  <2> QED BY <1>1, <2>1 DEF Announce
<1>2. CASE Dial
  <2>1. dial' \in Exits
    BY <1>2, NextCandidateType DEF Dial, PickExit
  <2> QED BY <1>2, <2>1 DEF Dial, PickExit
<1>3. CASE Hold
  BY <1>3 DEF Hold
<1>4. CASE Resume
  <2>1. dial' \in Exits
    BY <1>4, NextCandidateType DEF Resume, PickExit
  <2> QED BY <1>4, <2>1 DEF Resume, PickExit
<1>5. CASE DialOk
  BY <1>5 DEF DialOk
<1>6. CASE DialErr
  <2>1. avoid' \in Seq(Exits)
    BY <1>6, AvoidInsertType DEF DialErr, FailDial, Lower
  <2> QED BY <1>6, <2>1 DEF DialErr, FailDial, Lower
<1>7. CASE DialReselect
  <2>1. avoid' \in Seq(Exits)
    BY <1>7, AvoidInsertType DEF DialReselect, FailDial, Lower
  <2> QED BY <1>7, <2>1 DEF DialReselect, FailDial, Lower
<1>8. CASE DialFatal
  <2>1. avoid' \in Seq(Exits)
    BY <1>8, AvoidInsertType DEF DialFatal, FailDial
  <2> QED BY <1>8, <2>1 DEF DialFatal, FailDial
<1>9. CASE GiveUp
  BY <1>9 DEF GiveUp
<1>10. CASE StartDatapath
  BY <1>10 DEF StartDatapath
<1>11. CASE PublishForwarder
  BY <1>11 DEF PublishForwarder
<1>12. CASE PublishConnected
  BY <1>12 DEF PublishConnected
<1>13. CASE CompleteMigration
  <2>1. migrating' \in BOOLEAN
    BY <1>13, Zenon DEF CompleteMigration
  <2> QED BY <1>13, <2>1 DEF CompleteMigration
<1>14. CASE EndSession
  BY <1>14 DEF EndSession, Leave
<1>15. CASE EndMoved
  BY <1>15 DEF EndMoved, Leave
<1>16. CASE EndEgress
  BY <1>16 DEF EndEgress, Leave
<1>17. CASE EndHost
  <2>1. reconnectPermit' \in BOOLEAN
    BY <1>17, Zenon DEF EndHost
  <2> QED BY <1>17, <2>1 DEF EndHost, Leave
<1>19. CASE AskGate
  BY <1>19 DEF AskGate
<1>20. CASE GateAllows
  BY <1>20 DEF GateAllows, Leave
<1>21. CASE GateRefuses
  <2>1. drainArmed' \in BOOLEAN
    BY <1>21, Zenon DEF GateRefuses
  <2> QED BY <1>21, <2>1 DEF GateRefuses
<1>22. CASE Retract
  BY <1>22 DEF Retract
<1>23. CASE Retire
  BY <1>23 DEF Retire
<1>24. CASE CloseDrained
  BY <1>24 DEF CloseDrained
<1>25. CASE CloseEpoch
  BY <1>25 DEF CloseEpoch, Lower
<1>26. CASE PublishDraining
  BY <1>26 DEF PublishDraining
<1>27. CASE SpreadElapses
  BY <1>27 DEF SpreadElapses
<1>28. CASE BackoffElapses
  BY <1>28 DEF BackoffElapses
<1>29. CASE Woken
  <2>1. wakePermit' \in BOOLEAN
    BY <1>29, Zenon DEF Woken
  <2> QED BY <1>29, <2>1 DEF Woken
<1>30. CASE EnderFires
  BY <1>30 DEF EnderFires
<1>31. CASE RequestReconnect
  BY <1>31 DEF RequestReconnect
<1>32. CASE VerdictChanges
  BY <1>32 DEF VerdictChanges
<1>33. CASE ServeRoute
  BY <1>33 DEF ServeRoute
<1>34. CASE LeaveRoute
  <2>1. wakePermit' \in BOOLEAN
    BY <1>34, Zenon DEF LeaveRoute
  <2>2. routed' \in BOOLEAN
    BY <1>34, Zenon DEF LeaveRoute
  <2>3. UNCHANGED <<pc, task, published, ready, reconnectPermit, verdict>>
    BY <1>34, Zenon DEF LeaveRoute
  <2> QED BY <2>1, <2>2, <2>3
<1>35. CASE AvoidExpires
  BY <1>35 DEF AvoidExpires
<1>36. CASE Shutdown
  BY <1>36 DEF Shutdown
<1>37. CASE Terminated
  BY <1>37 DEF Terminated, vars
<1>38. CASE UNCHANGED vars
  BY <1>38 DEF vars
<1> QED
  BY <1>1, <1>2, <1>3, <1>4, <1>5, <1>6, <1>7, <1>8, <1>9, <1>10, <1>11, <1>12, <1>13, <1>14, <1>15, <1>16, <1>17, <1>19, <1>20, <1>21, <1>22, <1>23, <1>24, <1>25, <1>26, <1>27, <1>28, <1>29, <1>30, <1>31, <1>32, <1>33, <1>34, <1>35, <1>36, <1>37, <1>38
  DEF Next, TaskStep, DialStep, OpenStep, ServeStep, CloseStep, Environment

\* The inductive invariant holds throughout.
LEMMA Invariance == Spec => []IndInv
BY InitInv, StepInv, PTL DEF Spec
-----------------------------------------------------------------------------
(***************************************************************************)
(* What a host reads on the channels, at any time.                         *)
(***************************************************************************)

\* Type correctness: in particular the rotation cursor never runs further than two
\* places past the last exit.
THEOREM TypeCorrect == Spec => []TypeOK
<1>1. IndInv => TypeOK
  BY DEF IndInv
<1> QED BY <1>1, Invariance, PTL

\* No channel ever offers anything of an epoch that is over.
THEOREM NeverStale == Spec => []NoStaleEpoch
<1>1. IndInv => NoStaleEpoch
  BY DEF IndInv, ChannelInv
<1> QED BY <1>1, Invariance, PTL

\* Once an epoch reports Connected, its forwarder, counters and addressing are there.
THEOREM Usable == Spec => []ConnectedIsUsable
<1>1. IndInv => ConnectedIsUsable
  BY DEF IndInv, ChannelInv, StateInv, ConnectedIsUsable, Up
<1> QED BY <1>1, Invariance, PTL

\* Failed is always explained, and never latched under a connected tunnel.
THEOREM Explained == Spec => []FatalIsExplained
<1>1. IndInv => FatalIsExplained
  BY DEF IndInv, StateInv, FatalIsExplained
<1> QED BY <1>1, Invariance, PTL

\* A drain the gate refused never ends the epoch it was raised against.
THEOREM RefusalStays == Spec => []RefusedDrainStays
<1>1. IndInv => RefusedDrainStays
  BY DEF IndInv, DrainInv
<1> QED BY <1>1, Invariance, PTL
-----------------------------------------------------------------------------
(***************************************************************************)
(* Which exit is dialled.                                                  *)
(***************************************************************************)

\* Only Dial and Resume pick an exit, and both take next_candidate.
LEMMA PickStep ==
  ASSUME IndInv, Next, Picks
  PROVE  /\ pc \in Between
         /\ cursor \in 0 .. N + 1
         /\ dial' = NextCandidate(cursor, avoid)
<1>1. Dial \/ Resume
  <2>1. ~ (OpenStep \/ ServeStep \/ CloseStep)
    BY DEF OpenStep, ServeStep, CloseStep, Picks, StartDatapath, PublishForwarder,
           PublishConnected, CompleteMigration, EndSession, EndMoved, EndEgress, EndHost,
           AskGate, GateAllows, GateRefuses, Leave, Retract, Retire,
           CloseDrained, CloseEpoch, PublishDraining, SpreadElapses, BackoffElapses, Woken
  <2>2. ~ (Environment \/ Terminated)
    BY DEF Environment, Terminated, Picks, vars, EnderFires, RequestReconnect,
           VerdictChanges, ServeRoute, LeaveRoute, AvoidExpires, Shutdown
  <2>3. ~ (Announce \/ Hold \/ DialOk \/ DialErr \/ DialReselect \/ DialFatal \/ GiveUp)
    BY DEF Picks, Announce, Hold, DialOk, DialErr, DialReselect, DialFatal, FailDial, GiveUp
  <2> QED BY <2>1, <2>2, <2>3 DEF Next, TaskStep, DialStep
<1> QED BY <1>1 DEF Dial, Resume, PickExit, Between, IndInv, TypeOK

\* An exit that failed is not dialled within its TTL while another is free.
THEOREM DialsFree == Spec => DialsFreeExit
<1>1. IndInv /\ [Next]_vars =>
        [Picks => dial' \notin Avoided(avoid) \/ Exits \subseteq Avoided(avoid)]_vars
  <2> SUFFICES ASSUME IndInv, Next
               PROVE  Picks => dial' \notin Avoided(avoid) \/ Exits \subseteq Avoided(avoid)
    BY Zenon
  <2>1. CASE Picks
    BY <2>1, PickStep, NextCandidateFree
  <2> QED BY <2>1
<1> QED BY <1>1, Invariance, PTL DEF Spec, DialsFreeExit

\* A drain or a dead egress moves to another exit, if one is free.
THEOREM MovesOn == Spec => DrainMovesOn
<1>1. IndInv /\ [Next]_vars =>
        [FirstPick /\ cause \in {"Drained", "EgressDead"} =>
          dial' # exit \/ Exits \ {exit} \subseteq Avoided(avoid)]_vars
  <2> SUFFICES ASSUME IndInv, Next
               PROVE  FirstPick /\ cause \in {"Drained", "EgressDead"} =>
          dial' # exit \/ Exits \ {exit} \subseteq Avoided(avoid)
    BY Zenon
  <2>1. CASE FirstPick /\ cause \in {"Drained", "EgressDead"}
    <3>1. exit \in Exits /\ dial' = NextCandidate(exit + 1, avoid)
      BY <2>1, PickStep DEF FirstPick, IndInv, RotationInv
    <3> QED BY <2>1, <3>1, NextCandidateMovesOn
  <2> QED BY <2>1
<1> QED BY <1>1, Invariance, PTL DEF Spec, DrainMovesOn

\* Any other end is rebuilt over the same exit, unless that exit is avoided.
THEOREM KeepsExit == Spec => RebuildKeepsExit
<1>1. IndInv /\ [Next]_vars =>
        [FirstPick /\ cause \in {"SessionClosed", "PathMoved", "HostRequested"} =>
          dial' = exit \/ exit \in Avoided(avoid)]_vars
  <2> SUFFICES ASSUME IndInv, Next
               PROVE  FirstPick /\ cause \in {"SessionClosed", "PathMoved", "HostRequested"} =>
          dial' = exit \/ exit \in Avoided(avoid)
    BY Zenon
  <2>1. CASE FirstPick /\ cause \in {"SessionClosed", "PathMoved", "HostRequested"}
    <3>1. exit \in Exits /\ dial' = NextCandidate(exit, avoid)
      BY <2>1, PickStep DEF FirstPick, IndInv, RotationInv
    <3> QED BY <2>1, <3>1, NextCandidateKeeps
  <2> QED BY <2>1
<1> QED BY <1>1, Invariance, PTL DEF Spec, RebuildKeepsExit
-----------------------------------------------------------------------------
(***************************************************************************)
(* The order of what is published.                                         *)
(***************************************************************************)

\* Which actions write which channel; a task that is gone stays gone.
LEMMA Writers ==
  ASSUME Next
  PROVE  /\ migration' # migration => CompleteMigration \/ GateRefuses \/ CloseDrained
         /\ state' # state =>
              \/ Announce \/ Hold \/ Resume \/ GiveUp \/ PublishConnected \/ PublishDraining
         /\ forwarder' # forwarder => PublishForwarder \/ Retract
         /\ gen' # gen => DialOk
         /\ epochEnd' # epochEnd => pc \in {"serving", "gating"}
         /\ pc \in Over => pc' = pc
<1>1. CASE DialStep
  BY <1>1 DEF DialStep, Announce, Dial, Hold, Resume, PickExit, DialOk, DialErr,
              DialReselect, DialFatal, FailDial, GiveUp, published, task, Over
<1>2. CASE OpenStep
  BY <1>2 DEF OpenStep, StartDatapath, PublishForwarder, PublishConnected,
              CompleteMigration, published, task, Over
<1>3. CASE ServeStep
  BY <1>3 DEF ServeStep, EndSession, EndMoved, EndEgress, EndHost, Leave,
              AskGate, GateAllows, GateRefuses, published, task, Over
<1>4. CASE CloseStep
  BY <1>4 DEF CloseStep, Retract, Retire, CloseDrained, CloseEpoch, PublishDraining,
              SpreadElapses, BackoffElapses, Woken, published, task, Over
<1>5. CASE Environment \/ Terminated
  BY <1>5 DEF Environment, Terminated, EnderFires, RequestReconnect, VerdictChanges,
              ServeRoute, LeaveRoute, AvoidExpires, Shutdown, published, task, Over, vars
<1> QED BY <1>1, <1>2, <1>3, <1>4, <1>5 DEF Next, TaskStep

\* An announced migration is closed only by Completed, under a usable tunnel.
THEOREM MigrationCloses == Spec => MigrationCompletes
<1>1. IndInv /\ [Next]_vars =>
        [migration = "Migrating" /\ migration' # migration =>
           migration' = "Completed" /\ forwarder = gen /\ state = "Connected"]_vars
  <2> SUFFICES ASSUME IndInv, Next, migration = "Migrating", migration' # migration
               PROVE  migration' = "Completed" /\ forwarder = gen /\ state = "Connected"
    BY Zenon
  <2>1. CASE CompleteMigration
    BY <2>1 DEF CompleteMigration, IndInv, ChannelInv, StateInv, DrainInv
  <2>2. CASE GateRefuses \/ CloseDrained
    BY <2>2 DEF GateRefuses, CloseDrained, IndInv, DrainInv, Closing
  <2> QED BY <2>1, <2>2, Writers
<1> QED BY <1>1, Invariance, PTL DEF Spec, MigrationCompletes

\* The report of an ended epoch precedes the state that announces its rebuild.
THEOREM ReportFirst == Spec => EndReportedFirst
<1>1. IndInv /\ [Next]_vars =>
        [state' # state /\ state' \in {"Reconnecting", "Draining"} => epochEnd.gen = gen]_vars
  <2> SUFFICES ASSUME IndInv, Next, state' # state, state' \in {"Reconnecting", "Draining"}
               PROVE  epochEnd.gen = gen
    BY Zenon
  <2>1. Announce \/ Resume \/ PublishDraining
    BY Writers DEF Hold, GiveUp, PublishConnected
  <2> QED BY <2>1 DEF Announce, Resume, PublishDraining, IndInv, ReportInv, Pcs, Up, Over
<1> QED BY <1>1, Invariance, PTL DEF Spec, EndReportedFirst

\* The forwarder channel implements the feed that drives every port forward.
THEOREM Refinement == Spec => FeedOK
<1>1. Init => Feed!FeedInit
  BY DEF Init, Feed!FeedInit, Over
<1>2. IndInv /\ [Next]_vars => [Feed!FeedNext]_(Feed!feedVars)
  <2> SUFFICES ASSUME IndInv, [Next]_vars
               PROVE  Feed!FeedNext \/ UNCHANGED Feed!feedVars
    BY Zenon
  <2>1. CASE UNCHANGED vars
    BY <2>1 DEF vars, task, published, inputs, Feed!feedVars
  <2>2. CASE PublishForwarder
    BY <2>2 DEF PublishForwarder, task, Feed!FeedNext, Feed!Publish, IndInv, TypeOK,
                ChannelInv, ReportInv, RotationInv, Up, Over
  <2>3. CASE Retract
    BY <2>3 DEF Retract, task, Feed!FeedNext, Feed!Withdraw, IndInv, TypeOK, ChannelInv,
                ReportInv, RotationInv, Up, Over, Pcs, Closing
  <2>4. CASE Next /\ ~PublishForwarder /\ ~Retract
    <3>1. UNCHANGED forwarder
      BY <2>4, Writers
    <3> DEFINE offered == IF forwarder = 0 /\ epochEnd.gen # gen THEN gen - 1 ELSE gen
    <3>2. UNCHANGED offered
      <4>1. CASE gen' # gen
        <5>1. DialOk
          BY <2>4, <4>1, Writers
        <5> QED BY <3>1, <5>1 DEF DialOk, IndInv, TypeOK, ChannelInv, NoStaleEpoch, Down,
                                  ReportInv, Pcs, Up, Over
      <4>2. CASE gen' = gen /\ epochEnd' # epochEnd
        <5>1. pc \in {"serving", "gating"}
          BY <2>4, <4>2, Writers
        <5> QED BY <3>1, <4>2, <5>1 DEF IndInv, ChannelInv, RotationInv, Up
      <4>3. CASE gen' = gen /\ epochEnd' = epochEnd
        BY <3>1, <4>3
      <4> QED BY <4>1, <4>2, <4>3
    <3>3. CASE pc \in Over
      <4>1. pc' \in Over
        BY <2>4, <3>3, Writers
      <4> QED BY <3>1, <3>2, <3>3, <4>1 DEF Feed!feedVars
    <3>4. CASE pc \notin Over /\ pc' \in Over
      BY <3>1, <3>2, <3>4 DEF Feed!FeedNext, Feed!Close
    <3>5. CASE pc \notin Over /\ pc' \notin Over
      BY <3>1, <3>2, <3>5 DEF Feed!feedVars
    <3> QED BY <3>3, <3>4, <3>5
  <2> QED BY <2>1, <2>2, <2>3, <2>4
<1> QED BY <1>1, <1>2, Invariance, PTL DEF Spec, FeedOK, Feed!FeedSpec
=============================================================================
