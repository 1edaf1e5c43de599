----------------------------- MODULE Supervisor -----------------------------
(***************************************************************************)
(* supervise_datapath (warren-sdk/src/supervisor.rs) driving the failover  *)
(* connect closure (warren-sdk/src/client.rs): one task that establishes a *)
(* tunnel, serves an epoch over it, and rebuilds it whenever an epoch      *)
(* ender fires, publishing what it does on watch channels that other tasks *)
(* read at any time.  One action per stretch of the task between two       *)
(* points where another task can see or change something.                  *)
(*                                                                         *)
(* A single pinned circuit is the case N = 1: its closure has neither      *)
(* cursor nor avoid set, and with one candidate both are without effect.   *)
(***************************************************************************)
EXTENDS Failover

CONSTANTS
  HasGate,      \* a pre-migrate gate is wired (EpochGuards::pre_migrate)
  StandsAside,  \* the proxy holds its dial behind a system Warren tunnel
  MaxGen,       \* bound: how many epochs may be served
  MaxLevel      \* bound: where the redial backoff stops growing

ASSUME SupervisorAssumption ==
  /\ HasGate \in BOOLEAN /\ StandsAside \in BOOLEAN
  /\ MaxGen \in Nat /\ MaxLevel \in Nat

NoExit == -1

VARIABLES
  \* the task
  pc,          \* where the loop stands
  first,       \* no dial was announced yet
  gen,         \* generation of the current or last epoch, 0 before the first
  exit,        \* the exit the current or last epoch reached
  dial,        \* the exit of the last dial since that epoch, else NoExit
  cursor,      \* rotation cursor of the connect closure
  avoid,       \* its avoid set
  drainArmed,  \* the drain arm of this epoch's select is still polled
  cause,       \* which ender ended the epoch being torn down
  migrating,   \* a drain migration waits for its Completed event
  level,       \* step of the redial backoff schedule
  \* what it publishes
  state,       \* ConnectionState
  forwarder, metrics, addressing,  \* the epoch each channel holds, 0 for None
  migration,   \* outcome of the last MigrationEvent
  fatal,       \* a FatalCause is latched
  epochEnd,    \* the last EpochEnd report: its cause, and the epoch it is about
  \* what it waits for
  ready,       \* the epoch enders of this epoch that have fired
  reconnectPermit,  \* the stored permit of reconnect_request
  wakePermit,  \* the stored permit of wake
  verdict,     \* the host route is proven to exit through Warren
  routed       \* the listeners are served through that route

task == <<first, gen, exit, dial, cursor, avoid, drainArmed, cause, migrating, level>>
published == <<state, forwarder, metrics, addressing, migration, fatal, epochEnd>>
route == <<verdict, routed>>
inputs == <<ready, reconnectPermit, wakePermit, route>>
vars == <<pc, task, published, inputs>>

Causes == {"SessionClosed", "PathMoved", "EgressDead", "HostRequested", "Drained"}
Enders == {"closed", "moved", "egress", "drain"}

\* The task owns an established tunnel.
Up == {"start", "publish", "announce", "complete", "serving", "gating"}

\* The task is gone: it returned after a fatal verdict, or it was aborted.
Over == {"failed", "aborted"}

Pcs == Up \cup Over \cup
  {"top", "aside", "held", "dialing", "failing", "retract", "retire",
   "close", "draining", "spreading", "backoff"}

\* Mutant: the schedule never stops growing.
Lower_Unbounded(n) == n + 1

\* The next, slower, step of the backoff schedule.
Lower(n) == IF n < MaxLevel THEN n + 1 ELSE MaxLevel

Init ==
  /\ pc = "top" /\ first = TRUE /\ gen = 0 /\ exit = NoExit /\ dial = NoExit
  /\ cursor = 0 /\ avoid = <<>> /\ drainArmed = FALSE
  /\ cause = "SessionClosed" /\ migrating = FALSE /\ level = 0
  /\ state = "Connecting" /\ forwarder = 0 /\ metrics = 0 /\ addressing = 0
  /\ migration = "None" /\ fatal = FALSE
  /\ epochEnd = [gen |-> 0, cause |-> "SessionClosed"]
  /\ ready = {} /\ reconnectPermit = FALSE /\ wakePermit = FALSE
  /\ verdict = FALSE /\ routed = FALSE
-----------------------------------------------------------------------------
(***************************************************************************)
(* Dialling.                                                               *)
(***************************************************************************)

\* Top of the loop: the redial is announced.
Announce ==
  /\ pc = "top"
  /\ state' = IF first THEN "Connecting" ELSE "Reconnecting"
  /\ first' = FALSE
  /\ pc' = "aside"
  /\ UNCHANGED <<gen, exit, dial, cursor, avoid, drainArmed, cause, migrating, level,
                 forwarder, metrics, addressing, migration, fatal, epochEnd, inputs>>

\* The connect closure picks its exit and starts to dial it.
PickExit ==
  /\ dial' = NextCandidate(cursor, avoid)
  /\ pc' = "dialing"
  /\ UNCHANGED <<first, gen, exit, cursor, avoid, drainArmed, cause, migrating, level,
                 forwarder, metrics, addressing, migration, fatal, epochEnd, inputs>>

Dial ==
  /\ pc = "aside" /\ ~verdict
  /\ PickExit
  /\ UNCHANGED state

\* The host route already exits through Warren: the dial is held and the
\* proxy reported connected, since its clients are served over that route.
Hold ==
  /\ pc = "aside" /\ verdict
  /\ state' = "Connected"
  /\ pc' = "held"
  /\ UNCHANGED <<task, forwarder, metrics, addressing, migration, fatal, epochEnd, inputs>>

\* Mutant: the held dial waits for the wake of the route server.
Resume_OnlyWoken ==
  /\ pc = "held" /\ ~verdict /\ wakePermit
  /\ state' = "Reconnecting"
  /\ PickExit

\* The verdict is withdrawn: the held dial goes out.
Resume ==
  /\ pc = "held" /\ ~verdict
  /\ state' = "Reconnecting"
  /\ PickExit

\* Mutant: the migration completes as soon as the dial succeeds.
DialOk_CompletesEarly ==
  /\ pc = "dialing" /\ gen < MaxGen
  /\ cursor' = dial
  /\ exit' = dial
  /\ dial' = NoExit
  /\ gen' = gen + 1
  /\ metrics' = gen + 1
  /\ ready' = {}
  /\ drainArmed' = TRUE
  /\ migration' = IF migrating THEN "Completed" ELSE migration
  /\ pc' = "start"
  /\ UNCHANGED <<first, avoid, cause, migrating, level, state, forwarder, addressing,
                 fatal, epochEnd, reconnectPermit, wakePermit, route>>

\* The tunnel is up: the closure keeps the cursor on this exit, the task opens
\* an epoch and publishes its counters.
DialOk ==
  /\ pc = "dialing" /\ gen < MaxGen
  /\ cursor' = dial
  /\ exit' = dial
  /\ dial' = NoExit
  /\ gen' = gen + 1
  /\ metrics' = gen + 1
  /\ ready' = {}
  /\ drainArmed' = TRUE
  /\ pc' = "start"
  /\ UNCHANGED <<first, avoid, cause, migrating, level, state, forwarder, addressing,
                 migration, fatal, epochEnd, reconnectPermit, wakePermit, route>>

\* A failed dial: the closure avoids the exit and moves its cursor past it.
FailDial(extra) ==
  /\ pc = "dialing"
  /\ avoid' = AvoidInsert(avoid, dial)
  /\ cursor' = dial + 1 + extra
  /\ UNCHANGED <<first, gen, exit, dial, drainArmed, cause, migrating, state, forwarder,
                 metrics, addressing, migration, epochEnd, inputs>>

\* RetrySameTarget.
DialErr ==
  /\ FailDial(0)
  /\ level' = Lower(level)
  /\ pc' = "backoff"
  /\ UNCHANGED fatal

\* RetryReselect: on_drain advances the cursor once more.
DialReselect ==
  /\ FailDial(1)
  /\ level' = Lower(level)
  /\ pc' = "backoff"
  /\ UNCHANGED fatal

\* Mutant: the terminal state is published with no cause.
DialFatal_Unlatched ==
  /\ FailDial(0)
  /\ pc' = "failing"
  /\ UNCHANGED <<level, fatal>>

\* Fatal: the cause is latched, then the terminal state is published.
DialFatal ==
  /\ FailDial(0)
  /\ fatal' = TRUE
  /\ pc' = "failing"
  /\ UNCHANGED level

GiveUp ==
  /\ pc = "failing"
  /\ state' = "Failed"
  /\ pc' = "failed"
  /\ UNCHANGED <<task, forwarder, metrics, addressing, migration, fatal, epochEnd, inputs>>
-----------------------------------------------------------------------------
(***************************************************************************)
(* Opening the epoch: each channel is sent on its own.                     *)
(***************************************************************************)

\* Mutant: Connected is published before the forwarder.
StartDatapath_AnnouncesFirst ==
  /\ pc = "start"
  /\ addressing' = gen
  /\ state' = "Connected"
  /\ pc' = "publish"
  /\ UNCHANGED <<task, forwarder, metrics, migration, fatal, epochEnd, inputs>>

\* datapath.start: the device begins the epoch, then its addressing is public.
StartDatapath ==
  /\ pc = "start"
  /\ addressing' = gen
  /\ pc' = "publish"
  /\ UNCHANGED <<task, state, forwarder, metrics, migration, fatal, epochEnd, inputs>>

PublishForwarder ==
  /\ pc = "publish"
  /\ forwarder' = gen
  /\ pc' = "announce"
  /\ UNCHANGED <<task, state, metrics, addressing, migration, fatal, epochEnd, inputs>>

PublishConnected ==
  /\ pc = "announce"
  /\ state' = "Connected"
  /\ pc' = "complete"
  /\ UNCHANGED <<task, forwarder, metrics, addressing, migration, fatal, epochEnd, inputs>>

\* migrating.take(): a reconnect that follows a drain completes its migration.
CompleteMigration ==
  /\ pc = "complete"
  /\ migration' = IF migrating THEN "Completed" ELSE migration
  /\ migrating' = FALSE
  /\ pc' = "serving"
  /\ UNCHANGED <<first, gen, exit, dial, cursor, avoid, drainArmed, cause, level, state,
                 forwarder, metrics, addressing, fatal, epochEnd, inputs>>
-----------------------------------------------------------------------------
(***************************************************************************)
(* Serving: the select over the epoch enders.  Any ready arm may win.      *)
(***************************************************************************)

\* Mutant: the epoch is retracted without its report.
Leave_Unreported(why) ==
  /\ cause' = why
  /\ pc' = "retract"
  /\ UNCHANGED <<first, gen, exit, dial, avoid, drainArmed, migrating, level, state,
                 forwarder, metrics, addressing, migration, fatal, epochEnd, ready, wakePermit, route>>

\* The epoch is over: its cause is reported before anything is retracted.
Leave(why) ==
  /\ cause' = why
  /\ epochEnd' = [gen |-> gen, cause |-> why]
  /\ pc' = "retract"
  /\ UNCHANGED <<first, gen, exit, dial, avoid, drainArmed, migrating, level, state,
                 forwarder, metrics, addressing, migration, fatal, ready, wakePermit, route>>

EndSession ==
  /\ pc = "serving" /\ "closed" \in ready
  /\ Leave("SessionClosed")
  /\ UNCHANGED <<cursor, reconnectPermit>>

EndMoved ==
  /\ pc = "serving" /\ "moved" \in ready
  /\ Leave("PathMoved")
  /\ UNCHANGED <<cursor, reconnectPermit>>

\* The exit forwards nothing: on_drain rotates past it.
EndEgress ==
  /\ pc = "serving" /\ "egress" \in ready
  /\ cursor' = cursor + 1
  /\ Leave("EgressDead")
  /\ UNCHANGED reconnectPermit

\* Mutant: a host request rotates the cursor as a drain does.
EndHost_Rotates ==
  /\ pc = "serving" /\ reconnectPermit
  /\ reconnectPermit' = FALSE
  /\ Leave("HostRequested")
  /\ cursor' = cursor + 1

\* Mutant: the select rebuilt after a refused drain forgets the host arm.
EndHost_OnlyArmed ==
  /\ pc = "serving" /\ reconnectPermit /\ drainArmed
  /\ reconnectPermit' = FALSE
  /\ Leave("HostRequested")
  /\ UNCHANGED cursor

\* The host's request consumes the stored permit.
EndHost ==
  /\ pc = "serving" /\ reconnectPermit
  /\ reconnectPermit' = FALSE
  /\ Leave("HostRequested")
  /\ UNCHANGED cursor

\* Mutant: the drain arm stays armed after a refusal.
AskGate_Rearmed ==
  /\ pc = "serving" /\ "drain" \in ready
  /\ pc' = "gating"
  /\ UNCHANGED <<task, published, inputs>>

\* Mutant: the drain arm of a gated datapath is never polled.
AskGate_Unwired ==
  /\ pc = "serving" /\ "drain" \in ready /\ drainArmed /\ ~HasGate
  /\ pc' = "gating"
  /\ UNCHANGED <<task, published, inputs>>

\* The drain arm awaits the gate; no other arm is polled meanwhile.
AskGate ==
  /\ pc = "serving" /\ "drain" \in ready /\ drainArmed
  /\ pc' = "gating"
  /\ UNCHANGED <<task, published, inputs>>

\* A gate that allows the migration, or none.
GateAllows ==
  /\ pc = "gating"
  /\ Leave("Drained")
  /\ UNCHANGED <<cursor, reconnectPermit>>

\* A refusal, or PRE_MIGRATE_TIMEOUT: the epoch keeps serving, and the drain
\* arm is disarmed for the rest of it.
GateRefuses ==
  /\ pc = "gating" /\ HasGate
  /\ migration' = "CancelledPortConflict"
  /\ drainArmed' = FALSE
  /\ pc' = "serving"
  /\ UNCHANGED <<first, gen, exit, dial, cursor, avoid, cause, migrating, level, state,
                 forwarder, metrics, addressing, fatal, epochEnd, inputs>>
-----------------------------------------------------------------------------
(***************************************************************************)
(* Tearing the epoch down, and the wait before the redial.                 *)
(***************************************************************************)

\* Mutant: the forwarder of the dead epoch is left in the channel.
Retract_KeepsForwarder ==
  /\ pc = "retract"
  /\ pc' = "retire"
  /\ UNCHANGED <<task, state, forwarder, metrics, addressing, migration, fatal, epochEnd, inputs>>

Retract ==
  /\ pc = "retract"
  /\ forwarder' = 0
  /\ pc' = "retire"
  /\ UNCHANGED <<task, state, metrics, addressing, migration, fatal, epochEnd, inputs>>

Retire ==
  /\ pc = "retire"
  /\ metrics' = 0
  /\ pc' = "close"
  /\ UNCHANGED <<task, state, forwarder, addressing, migration, fatal, epochEnd, inputs>>

\* Mutant: a drain does not rotate the cursor.
CloseDrained_StaysPut ==
  /\ pc = "close" /\ cause = "Drained"
  /\ addressing' = 0
  /\ migrating' = TRUE
  /\ migration' = "Migrating"
  /\ pc' = "draining"
  /\ UNCHANGED <<first, gen, exit, dial, cursor, avoid, drainArmed, cause, level, state, forwarder,
                 metrics, fatal, epochEnd, inputs>>

\* end_epoch retires the addressing.  A drain then rotates past the exit and
\* announces the migration; anything else draws the redial delay: a healthy run
\* resets the schedule and redials at once, a flap climbs it.
CloseDrained ==
  /\ pc = "close" /\ cause = "Drained"
  /\ addressing' = 0
  /\ cursor' = cursor + 1
  /\ migrating' = TRUE
  /\ migration' = "Migrating"
  /\ pc' = "draining"
  /\ UNCHANGED <<first, gen, exit, dial, avoid, drainArmed, cause, level, state, forwarder,
                 metrics, fatal, epochEnd, inputs>>

CloseEpoch ==
  /\ pc = "close" /\ cause # "Drained"
  /\ addressing' = 0
  /\ level' \in {0, Lower(level)}
  /\ pc' = "backoff"
  /\ UNCHANGED <<first, gen, exit, dial, cursor, avoid, drainArmed, cause, migrating, state,
                 forwarder, metrics, migration, fatal, epochEnd, inputs>>

PublishDraining ==
  /\ pc = "draining"
  /\ state' = "Draining"
  /\ pc' = "spreading"
  /\ UNCHANGED <<task, forwarder, metrics, addressing, migration, fatal, epochEnd, inputs>>

\* The anti-stampede spread elapses; no wake cuts it short.
SpreadElapses ==
  /\ pc = "spreading"
  /\ pc' = "top"
  /\ UNCHANGED <<task, published, inputs>>

\* Mutant: the redial waits for a wake.
BackoffElapses_OnlyWoken ==
  /\ pc = "backoff" /\ wakePermit
  /\ pc' = "top"
  /\ UNCHANGED <<task, published, inputs>>

BackoffElapses ==
  /\ pc = "backoff"
  /\ pc' = "top"
  /\ UNCHANGED <<task, published, inputs>>

\* sleep_unless_woken: a wake ends the sleep and resets the schedule.
Woken ==
  /\ pc = "backoff" /\ wakePermit
  /\ wakePermit' = FALSE
  /\ level' = 0
  /\ pc' = "top"
  /\ UNCHANGED <<first, gen, exit, dial, cursor, avoid, drainArmed, cause, migrating,
                 published, ready, reconnectPermit, route>>
-----------------------------------------------------------------------------
(***************************************************************************)
(* The other tasks, the host and the network.                              *)
(***************************************************************************)

\* The session closes, the watchdog gives the path up, the probe convicts the
\* exit, or the exit publishes a drain.
EnderFires ==
  /\ pc \in Up
  /\ \E e \in Enders : ready' = ready \cup {e}
  /\ UNCHANGED <<pc, task, published, reconnectPermit, wakePermit, route>>

RequestReconnect ==
  /\ pc # "aborted"
  /\ reconnectPermit' = TRUE
  /\ UNCHANGED <<pc, task, published, ready, wakePermit, route>>

\* watch_host_route publishes or withdraws its verdict.
VerdictChanges ==
  /\ StandsAside /\ pc \notin Over
  /\ verdict' = ~verdict
  /\ UNCHANGED <<pc, task, published, ready, reconnectPermit, wakePermit, routed>>

\* serve_through_host_route takes the listeners over.
ServeRoute ==
  /\ verdict /\ ~routed /\ pc \notin Over
  /\ routed' = TRUE
  /\ UNCHANGED <<pc, task, published, ready, reconnectPermit, wakePermit, verdict>>

\* It hands them back: the verdict was withdrawn or names another route, and it
\* raises wake, or a listener failed to accept, and it does not.
LeaveRoute ==
  /\ routed /\ pc \notin Over
  /\ routed' = FALSE
  /\ wakePermit' \in {TRUE, wakePermit}
  /\ UNCHANGED <<pc, task, published, ready, reconnectPermit, verdict>>

\* The oldest avoid entry reaches its TTL.
AvoidExpires ==
  /\ avoid # <<>> /\ pc \notin Over
  /\ avoid' = Tail(avoid)
  /\ UNCHANGED <<pc, first, gen, exit, dial, cursor, drainArmed, cause, migrating, level,
                 published, inputs>>

\* The handle is dropped or shut down: the task is aborted where it stands.
Shutdown ==
  /\ pc \notin Over
  /\ pc' = "aborted"
  /\ UNCHANGED <<task, published, inputs>>

Terminated == pc \in Over /\ UNCHANGED vars
-----------------------------------------------------------------------------
DialStep == Announce \/ Dial \/ Hold \/ Resume \/ DialOk \/ DialErr
            \/ DialReselect \/ DialFatal \/ GiveUp
OpenStep == StartDatapath \/ PublishForwarder \/ PublishConnected \/ CompleteMigration
ServeStep == EndSession \/ EndMoved \/ EndEgress \/ EndHost
             \/ AskGate \/ GateAllows \/ GateRefuses
CloseStep == Retract \/ Retire \/ CloseDrained \/ CloseEpoch \/ PublishDraining
             \/ SpreadElapses \/ BackoffElapses \/ Woken
TaskStep == DialStep \/ OpenStep \/ ServeStep \/ CloseStep
Environment == EnderFires \/ RequestReconnect \/ VerdictChanges
               \/ ServeRoute \/ LeaveRoute \/ AvoidExpires \/ Shutdown

Next == TaskStep \/ Environment \/ Terminated

Spec == Init /\ [][Next]_vars

\* The task is never starved: its sends do not block, every dial, gate and
\* sleep it awaits is bounded by a timeout, and tokio polls a ready task.
FairSpec == Spec /\ WF_vars(TaskStep)
-----------------------------------------------------------------------------
(***************************************************************************)
(* What the supervisor promises.                                           *)
(***************************************************************************)

\* Types.  The cursor never runs further ahead than two places past the last
\* exit, however drains, convictions and refused dials pile up.
TypeOK ==
  /\ pc \in Pcs /\ first \in BOOLEAN /\ gen \in Nat
  /\ exit \in Exits \cup {NoExit} /\ dial \in Exits \cup {NoExit}
  /\ cursor \in 0 .. N + 1 /\ avoid \in Seq(Exits)
  /\ drainArmed \in BOOLEAN /\ cause \in Causes /\ migrating \in BOOLEAN
  /\ level \in 0 .. MaxLevel
  /\ state \in {"Connecting", "Connected", "Reconnecting", "Draining", "Failed"}
  /\ forwarder \in Nat /\ metrics \in Nat /\ addressing \in Nat
  /\ migration \in {"None", "Migrating", "Completed", "CancelledPortConflict"}
  /\ fatal \in BOOLEAN /\ epochEnd \in [gen : Nat, cause : Causes]
  /\ ready \subseteq Enders /\ reconnectPermit \in BOOLEAN
  /\ wakePermit \in BOOLEAN /\ verdict \in BOOLEAN /\ routed \in BOOLEAN

\* The task stands where no epoch of it is open.
Down == {"top", "aside", "held", "dialing", "failing", "failed", "draining",
         "spreading", "backoff"}

\* No reader finds anything of an epoch that is over: the forwarder, counter and
\* addressing channels hold the current epoch or nothing, and nothing once it
\* is torn down ("a host must see down, never a stale assignment").
NoStaleEpoch ==
  /\ {forwarder, metrics, addressing} \subseteq {0, gen}
  /\ pc \in Down => forwarder = 0 /\ metrics = 0 /\ addressing = 0

\* An epoch that reports Connected already offers its forwarder, its counters
\* and its addressing, so a host may use them as soon as it sees the state.
ConnectedIsUsable ==
  pc \in Up /\ state = "Connected" =>
    forwarder = gen /\ metrics = gen /\ addressing = gen

\* A host that reads Failed also reads why, and that cause is never latched
\* under a tunnel that is reported connected.
FatalIsExplained ==
  /\ state = "Failed" => fatal
  /\ fatal => state \in {"Connecting", "Reconnecting", "Failed"}

\* A drain the gate refused does not end the epoch it was raised against, later
\* or by another arm: the client stays on the draining exit and keeps its ports.
RefusedDrainStays ==
  epochEnd.cause = "Drained" /\ epochEnd.gen = gen => drainArmed

\* A migration that was announced is only ever closed by Completed, by the next
\* tunnel that comes up, however many dials fail in between.
MigrationCompletes ==
  [][migration = "Migrating" /\ migration' # migration =>
       migration' = "Completed" /\ forwarder = gen /\ state = "Connected"]_vars

\* The report of an ended epoch is public before the state that announces its
\* rebuild, so a host that journals both attributes the death to its own cause.
EndReportedFirst ==
  [][state' # state /\ state' \in {"Reconnecting", "Draining"} => epochEnd.gen = gen]_vars

\* The closure picks its exit in this step.
Picks == pc # "dialing" /\ pc' = "dialing"

\* The pick is the first one since the epoch was opened.
FirstPick == Picks /\ dial = NoExit /\ gen > 0

\* An exit that failed to establish is not dialled again within its TTL while
\* any other exit is outside its own.
DialsFreeExit ==
  [][Picks => dial' \notin Avoided(avoid) \/ Exits \subseteq Avoided(avoid)]_vars

\* A drain or a dead egress moves the client to another exit, unless every other
\* exit is avoided.
DrainMovesOn ==
  [][FirstPick /\ cause \in {"Drained", "EgressDead"} =>
       dial' # exit \/ Exits \ {exit} \subseteq Avoided(avoid)]_vars

\* An epoch that ended for a reason that says nothing about its exit is rebuilt
\* over the same exit, unless that exit is avoided.
RebuildKeepsExit ==
  [][FirstPick /\ cause \in {"SessionClosed", "PathMoved", "HostRequested"} =>
       dial' = exit \/ exit \in Avoided(avoid)]_vars

\* The forwarder channel implements the feed the port forwards are driven by.
\* An epoch counts as offered from the moment its forwarder is sent.
Feed == INSTANCE EpochFeed WITH
  offer <- forwarder,
  epoch <- IF forwarder = 0 /\ epochEnd.gen # gen THEN gen - 1 ELSE gen,
  closed <- pc \in Over

\* Readers of the forwarder channel see epochs offered one at a time, in order,
\* and never again once withdrawn.
FeedOK == Feed!FeedSpec

\* A drain the exit publishes is acted on: the epoch ends, or the gate refuses it.
DrainAnswered ==
  (pc \in Up /\ "drain" \in ready) ~> (pc \notin Up \/ ~drainArmed)

\* A reconnect the host requests ends the epoch that is up, and a request raised
\* between two epochs ends the next.
RequestHonoured == (reconnectPermit /\ pc \in Up) ~> (pc \notin Up)

\* A supervisor whose epoch ended always comes back to a dial, or stands aside,
\* unless it is shut down.
Redials ==
  (pc \in {"retract", "retire", "close", "draining", "spreading", "backoff"})
    ~> (pc \in {"dialing", "held", "aborted"})

\* A dial that was held goes out once the host route stops exiting through Warren.
HeldResumes == <>[](~verdict) => []<>(pc # "held")
=============================================================================
