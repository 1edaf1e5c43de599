---------------------------- MODULE PortForward -----------------------------
(***************************************************************************)
(* supervise_forward (warren-sdk/src/supervisor.rs): one forwarded port    *)
(* carried across tunnel rebuilds.  Its task reads the supervisor's        *)
(* forwarder channel (EpochFeed), asks the exit's NAT-PMP gateway for a    *)
(* mapping in every epoch, and publishes the granted port and what became  *)
(* of the previous one.  The channel is a tokio watch: a reader sees the   *)
(* latest value, not every value.  The mapping's refresh task              *)
(* (warren-net/src/portforward.rs) and the graceful stop (ReleaseGate) run *)
(* beside it.                                                              *)
(*                                                                         *)
(* Port 0 stands for None in every Option<u16>, as it does on the wire for *)
(* "no suggestion".                                                        *)
(***************************************************************************)
EXTENDS EpochFeed, Integers

CONSTANTS
  Ports,      \* the external ports a gateway may grant
  Policy,     \* PortFollowConfig::policy
  Pinned,     \* PortFollowConfig::pinned_external_port, or 0
  Raw,        \* a raw datapath (forward_port_raw), not the netstack
  MaxEpochs   \* bound: how many epochs the feed offers

ASSUME PortForwardAssumption ==
  /\ Ports \subseteq Nat \ {0}
  /\ Policy \in {"FollowBestEffort", "KeepPortOrStay", "Disabled"}
  /\ Pinned \in Ports \cup {0} /\ Raw \in BOOLEAN /\ MaxEpochs \in Nat

VARIABLES
  pc,          \* where the task stands
  dirty,       \* the channel holds a value the task has not looked at
  using,       \* the epoch whose forwarder the task asks through
  suggested,   \* the port it asks for
  reply,       \* the gateway's answer on its way back
  sticky,      \* the last granted port
  conflicted,  \* the epoch conflicted_epoch was set in, 0 for false
  current,     \* the established mapping: its epoch, its port, the port asked for
  renewing,    \* its refresh task runs
  external,    \* the published external port
  outcome,     \* the published PortFollowOutcome
  shown,       \* history: the last port that was published
  leases,      \* the mappings of this rule that stand at exits
  taken,       \* the ports other clients hold at the exit of this epoch
  requested,   \* the stored permit of ReleaseGate::requested
  answer,      \* what ReleaseGate::ack answered, "none" before
  release      \* the handle's side of the graceful stop

taskVars == <<using, suggested, reply, sticky, conflicted>>
portVars == <<current, renewing, external, outcome, shown>>
exitVars == <<leases, taken>>
gateVars == <<requested, answer, release>>
vars == <<feedVars, pc, dirty, taskVars, portVars, exitVars, gateVars>>

NoMap == [epoch |-> 0, port |-> 0, asked |-> 0]
NoReply == 0
Conflict == -1

Init ==
  /\ FeedInit
  /\ pc = "top" /\ dirty = FALSE
  /\ using = 0 /\ suggested = 0 /\ reply = NoReply /\ sticky = 0 /\ conflicted = 0
  /\ current = NoMap /\ renewing = FALSE /\ external = 0
  /\ outcome = [kind |-> "None", previous |-> 0, port |-> 0] /\ shown = 0
  /\ leases = {} /\ taken = {}
  /\ requested = FALSE /\ answer = "none" /\ release = "none"
-----------------------------------------------------------------------------
(***************************************************************************)
(* The task.                                                               *)
(***************************************************************************)

\* The port the policy asks the exit for.
Suggestion ==
  CASE Policy = "Disabled" -> 0
    [] Policy = "KeepPortOrStay" -> IF Pinned # 0 THEN Pinned ELSE sticky
    [] Policy = "FollowBestEffort" -> sticky

\* The task looks at the channel and asks this epoch's gateway for a mapping.
Ask ==
  /\ pc = "top" /\ offer # 0 /\ current = NoMap /\ conflicted = 0
  /\ dirty' = FALSE
  /\ using' = offer
  /\ suggested' = Suggestion
  /\ reply' = NoReply
  /\ pc' = "asking"
  /\ UNCHANGED <<feedVars, sticky, conflicted, portVars, exitVars, gateVars>>

\* It already holds a mapping, or sits a conflict out.
Rest ==
  /\ pc = "top" /\ offer # 0 /\ (current # NoMap \/ conflicted # 0)
  /\ dirty' = FALSE
  /\ pc' = "idle"
  /\ UNCHANGED <<feedVars, taskVars, portVars, exitVars, gateVars>>

\* Mutant: the port outlives the mapping that is dropped.
Clear_KeepsPort ==
  /\ pc = "top" /\ offer = 0
  /\ dirty' = FALSE
  /\ conflicted' = 0
  /\ current' = NoMap
  /\ renewing' = FALSE
  /\ UNCHANGED external
  /\ pc' = "idle"
  /\ UNCHANGED <<feedVars, using, suggested, reply, sticky, outcome, shown, exitVars, gateVars>>

\* Mutant: the conflict of a dead epoch is kept.
Clear_KeepsConflict ==
  /\ pc = "top" /\ offer = 0
  /\ dirty' = FALSE
  /\ UNCHANGED conflicted
  /\ current' = NoMap
  /\ renewing' = FALSE
  /\ external' = IF current # NoMap THEN 0 ELSE external
  /\ pc' = "idle"
  /\ UNCHANGED <<feedVars, using, suggested, reply, sticky, outcome, shown, exitVars, gateVars>>

\* The tunnel is down: the mapping is dropped, its lease left to lapse.
Clear ==
  /\ pc = "top" /\ offer = 0
  /\ dirty' = FALSE
  /\ conflicted' = 0
  /\ current' = NoMap
  /\ renewing' = FALSE
  /\ external' = IF current # NoMap THEN 0 ELSE external
  /\ pc' = "idle"
  /\ UNCHANGED <<feedVars, using, suggested, reply, sticky, outcome, shown, exitVars, gateVars>>

\* Mutant: any answer counts as a grant.
TakeGrant_AnyReply ==
  /\ pc \in {"asking", "fallback"} /\ reply # NoReply
  /\ outcome' =
       IF pc = "fallback"
       THEN [kind |-> "Changed", previous |-> suggested, port |-> reply]
       ELSE [kind |-> IF sticky = reply THEN "Kept" ELSE "Changed",
             previous |-> sticky, port |-> reply]
  /\ sticky' = reply
  /\ suggested' = IF pc = "fallback" THEN 0 ELSE suggested
  /\ pc' = "announce"
  /\ UNCHANGED <<feedVars, dirty, using, reply, conflicted, current, renewing, external,
                 shown, exitVars, gateVars>>

\* Mutant: a grant that needed no fallback is reported as kept.
TakeGrant_AlwaysKept ==
  /\ pc \in {"asking", "fallback"} /\ reply \in Ports
  /\ outcome' =
       IF pc = "fallback"
       THEN [kind |-> "Changed", previous |-> suggested, port |-> reply]
       ELSE [kind |-> "Kept",
             previous |-> sticky, port |-> reply]
  /\ sticky' = reply
  /\ suggested' = IF pc = "fallback" THEN 0 ELSE suggested
  /\ pc' = "announce"
  /\ UNCHANGED <<feedVars, dirty, using, reply, conflicted, current, renewing, external,
                 shown, exitVars, gateVars>>

\* A grant arrives.  The outcome is published, then the port.
TakeGrant ==
  /\ pc \in {"asking", "fallback"} /\ reply \in Ports
  /\ outcome' =
       IF pc = "fallback"
       THEN [kind |-> "Changed", previous |-> suggested, port |-> reply]
       ELSE [kind |-> IF sticky = reply THEN "Kept" ELSE "Changed",
             previous |-> sticky, port |-> reply]
  /\ sticky' = reply
  /\ suggested' = IF pc = "fallback" THEN 0 ELSE suggested
  /\ pc' = "announce"
  /\ UNCHANGED <<feedVars, dirty, using, reply, conflicted, current, renewing, external,
                 shown, exitVars, gateVars>>

\* Mutant: a raw renewal repeats the first request too.
RenewalPort_Repeats == suggested

\* The port the renewals of a grant ask for: the granted one on a raw datapath
\* (forward_port_raw), what the request asked for on the netstack.
RenewalPort == IF Raw THEN sticky ELSE suggested

\* Mutant: the channel is marked seen after the grant, not before the request.
Announce_MarksSeen ==
  /\ pc = "announce"
  /\ external' = sticky
  /\ shown' = sticky
  /\ current' = [epoch |-> using, port |-> sticky, asked |-> RenewalPort]
  /\ renewing' = TRUE
  /\ dirty' = FALSE
  /\ pc' = "idle"
  /\ UNCHANGED <<feedVars, taskVars, outcome, exitVars, gateVars>>

\* The port is published and the mapping held.
Announce ==
  /\ pc = "announce"
  /\ external' = sticky
  /\ shown' = sticky
  /\ current' = [epoch |-> using, port |-> sticky, asked |-> RenewalPort]
  /\ renewing' = TRUE
  /\ pc' = "idle"
  /\ UNCHANGED <<feedVars, dirty, taskVars, outcome, exitVars, gateVars>>

\* Mutant: a pinned rule falls back like any other.
TakeConflict_Degrades ==
  /\ pc = "asking" /\ reply = Conflict /\ suggested # 0
  /\ IF Policy = "KeepPortOrStay" /\ Pinned # 0
     THEN /\ outcome' = [kind |-> "ConflictStayed", previous |-> 0, port |-> suggested]
          /\ conflicted' = using
          /\ pc' = "idle"
          /\ UNCHANGED <<reply, sticky>>
     ELSE /\ sticky' = 0
          /\ reply' = NoReply
          /\ pc' = "fallback"
          /\ UNCHANGED <<outcome, conflicted>>
  /\ UNCHANGED <<feedVars, dirty, using, suggested, current, renewing, external, shown,
                 exitVars, gateVars>>

\* The suggested port is taken at this exit: a pinned rule holds with no
\* mapping, any other forgets the port and asks for whatever the exit gives.
TakeConflict ==
  /\ pc = "asking" /\ reply = Conflict /\ suggested # 0
  /\ IF Policy = "KeepPortOrStay"
     THEN /\ outcome' = [kind |-> "ConflictStayed", previous |-> 0, port |-> suggested]
          /\ conflicted' = using
          /\ pc' = "idle"
          /\ UNCHANGED <<reply, sticky>>
     ELSE /\ sticky' = 0
          /\ reply' = NoReply
          /\ pc' = "fallback"
          /\ UNCHANGED <<outcome, conflicted>>
  /\ UNCHANGED <<feedVars, dirty, using, suggested, current, renewing, external, shown,
                 exitVars, gateVars>>

\* No answer, a lost one, or another refusal.
TakeFailure ==
  /\ pc \in {"asking", "fallback"}
  /\ outcome' = [kind |-> "Failed", previous |-> 0, port |-> 0]
  /\ pc' = "retry"
  /\ UNCHANGED <<feedVars, dirty, taskVars, current, renewing, external, shown, exitVars,
                 gateVars>>

RetryElapses ==
  /\ pc = "retry"
  /\ pc' = "top"
  /\ UNCHANGED <<feedVars, dirty, taskVars, portVars, exitVars, gateVars>>

\* changed(): Ok while a value is unseen.
Wakes ==
  /\ pc \in {"idle", "retry"} /\ dirty
  /\ pc' = "top"
  /\ UNCHANGED <<feedVars, dirty, taskVars, portVars, exitVars, gateVars>>

\* The task ends: its mapping handle is dropped, and the refresh task with it.
\* The published port stays what it was.
End ==
  /\ pc' = "done"
  /\ current' = NoMap
  /\ renewing' = FALSE
  /\ UNCHANGED <<feedVars, dirty, taskVars, external, outcome, shown, taken>>

\* changed(): Err once the supervisor is gone.
Returns ==
  /\ pc \in {"idle", "retry"} /\ ~dirty /\ closed
  /\ End
  /\ UNCHANGED <<leases, gateVars>>

\* The release arm of either select.
StartRelease ==
  /\ pc \in {"idle", "retry"} /\ requested
  /\ requested' = FALSE
  /\ pc' = "releasing"
  /\ UNCHANGED <<feedVars, dirty, taskVars, portVars, exitVars, answer, release>>

\* The tunnel the mapping was made through is up.
Live == offer = current.epoch /\ ~closed

\* release_and_ack.  With no mapping there is nothing to delete.
AckNothing ==
  /\ pc = "releasing" /\ current = NoMap
  /\ answer' = "NoMapping"
  /\ End
  /\ UNCHANGED <<leases, requested, release>>

\* The refresh task deletes the mapping at the exit.
AckDelete ==
  /\ pc = "releasing" /\ current # NoMap /\ renewing /\ Live
  /\ leases' = leases \ {[epoch |-> current.epoch, port |-> p] : p \in Ports}
  /\ answer' = "Deleted"
  /\ End
  /\ UNCHANGED <<requested, release>>

\* The gateway refuses the delete, the exchange fails, or the refresh task ended
\* earlier: what became of the delete is not looked at.
AckAnyway ==
  /\ pc = "releasing" /\ current # NoMap
  /\ answer' = "Deleted"
  /\ End
  /\ UNCHANGED <<leases, requested, release>>

TaskStep == Ask \/ Rest \/ Clear \/ TakeGrant \/ Announce \/ TakeConflict \/ TakeFailure
            \/ RetryElapses \/ Wakes \/ Returns \/ StartRelease
            \/ AckNothing \/ AckDelete \/ AckAnyway
-----------------------------------------------------------------------------
(***************************************************************************)
(* The gateway, the mapping's refresh task and the clock.                  *)
(***************************************************************************)

\* The ports the exit of epoch e maps to the rule's internal port.
Mapped(e) == {l.port : l \in {l \in leases : l.epoch = e}}

\* The gateway maps the internal port: to the port it is mapped to already, when an
\* earlier grant was lost on its way back, else to the suggested one strictly, or
\* to any free one.
GatewayGrants ==
  /\ pc \in {"asking", "fallback"} /\ reply = NoReply /\ offer = using /\ ~closed
  /\ \E p \in Ports \ taken :
       /\ Mapped(using) # {} => p \in Mapped(using)
       /\ Mapped(using) = {} /\ pc = "asking" /\ suggested # 0 => p = suggested
       /\ reply' = p
       /\ leases' = leases \cup {[epoch |-> using, port |-> p]}
  /\ UNCHANGED <<feedVars, pc, dirty, using, suggested, sticky, conflicted, portVars, taken,
                 gateVars>>

\* SuggestedPortUnavailable.
GatewayConflicts ==
  /\ pc = "asking" /\ reply = NoReply /\ offer = using /\ ~closed
  /\ suggested \in taken
  /\ reply' = Conflict
  /\ UNCHANGED <<feedVars, pc, dirty, using, suggested, sticky, conflicted, portVars, exitVars,
                 gateVars>>

\* The ports others hold change as clients come and go.
TakenChanges ==
  /\ offer # 0
  /\ \E S \in SUBSET (Ports \ Mapped(offer)) : taken' = S
  /\ UNCHANGED <<feedVars, pc, dirty, taskVars, portVars, leases, gateVars>>

\* A renewal: a gateway that still holds the mapping answers with its port, one that
\* lost it grants afresh, and the refresh task reads the granted lifetime only.
Renew ==
  /\ renewing /\ Live
  /\ Mapped(current.epoch) = {}
  /\ \E p \in Ports \ taken :
       /\ current.asked # 0 => p = current.asked
       /\ leases' = leases \cup {[epoch |-> current.epoch, port |-> p]}
  /\ UNCHANGED <<feedVars, pc, dirty, taskVars, portVars, taken, gateVars>>

\* A renewal that fails ends the refresh task quietly.
RenewalFails ==
  /\ renewing
  /\ renewing' = FALSE
  /\ UNCHANGED <<feedVars, pc, dirty, taskVars, current, external, outcome, shown, exitVars,
                 gateVars>>

\* A lease that nobody renews runs out, or the gateway loses it.
Lapse ==
  /\ \E l \in leases : leases' = leases \ {l}
  /\ UNCHANGED <<feedVars, pc, dirty, taskVars, portVars, taken, gateVars>>
-----------------------------------------------------------------------------
(***************************************************************************)
(* The supervisor's channel, and the handle.                               *)
(***************************************************************************)

FeedPublishes ==
  /\ epoch < MaxEpochs
  /\ Publish
  /\ dirty' = TRUE
  /\ taken' = {}
  /\ UNCHANGED <<pc, taskVars, portVars, leases, gateVars>>

FeedWithdraws ==
  /\ Withdraw
  /\ dirty' = TRUE
  /\ UNCHANGED <<pc, taskVars, portVars, exitVars, gateVars>>

FeedCloses ==
  /\ Close
  /\ UNCHANGED <<pc, dirty, taskVars, portVars, exitVars, gateVars>>

\* release_and_shutdown raises its request and waits.
RequestRelease ==
  /\ release = "none"
  /\ requested' = TRUE
  /\ release' = "waiting"
  /\ UNCHANGED <<feedVars, pc, dirty, taskVars, portVars, exitVars, answer>>

Answered ==
  /\ release = "waiting" /\ answer # "none"
  /\ release' = answer
  /\ UNCHANGED <<feedVars, pc, dirty, taskVars, portVars, exitVars, requested, answer>>

\* PORT_RELEASE_BUDGET runs out, or the handle is dropped: the task is aborted.
Abandon ==
  /\ release \in {"none", "waiting"} /\ answer = "none"
  /\ release' = IF release = "none" THEN "Dropped" ELSE "TimedOut"
  /\ End
  /\ UNCHANGED <<leases, requested, answer>>

Terminated == pc = "done" /\ closed /\ UNCHANGED vars

Environment == GatewayGrants \/ GatewayConflicts \/ TakenChanges \/ Renew \/ RenewalFails
               \/ Lapse \/ FeedPublishes \/ FeedWithdraws \/ FeedCloses
               \/ RequestRelease \/ Answered \/ Abandon

Next == TaskStep \/ Environment \/ Terminated

Spec == Init /\ [][Next]_vars

\* The task's sends do not block and each exchange it awaits is bounded by the
\* retransmission schedule, so it never stays at one step.
FairSpec == Spec /\ WF_vars(TaskStep)
-----------------------------------------------------------------------------
(***************************************************************************)
(* What a supervised forward promises.                                     *)
(***************************************************************************)

OptPort == Ports \cup {0}

\* Types.
TypeOK ==
  /\ offer \in Nat /\ epoch \in Nat /\ closed \in BOOLEAN
  /\ pc \in {"top", "asking", "fallback", "announce", "retry", "idle", "releasing", "done"}
  /\ dirty \in BOOLEAN /\ using \in Nat /\ suggested \in OptPort
  /\ reply \in Ports \cup {NoReply, Conflict} /\ sticky \in OptPort /\ conflicted \in Nat
  /\ current \in [epoch : Nat, port : OptPort, asked : OptPort] /\ renewing \in BOOLEAN
  /\ external \in OptPort /\ shown \in OptPort
  /\ outcome \in [kind : {"None", "Kept", "Changed", "ConflictStayed", "Failed"},
                  previous : OptPort, port : OptPort]
  /\ leases \subseteq [epoch : Nat, port : Ports] /\ taken \subseteq Ports
  /\ requested \in BOOLEAN /\ answer \in {"none", "NoMapping", "Deleted"}
  /\ release \in {"none", "waiting", "NoMapping", "Deleted", "TimedOut", "Dropped"}

\* While the task runs, the published port is the port of the mapping it holds,
\* and none is published while it holds none, whatever grants, conflicts and
\* outages came before.
PublishedIsHeld == pc # "done" => external = current.port

\* On a raw datapath the exit maps no port to the rule but the one it published,
\* whatever grants were lost on their way back, leases lapsed and renewals came
\* between ("a refresh cannot move the public port under a client that has already
\* published it").  On the netstack it fails.
LeaseIsPublished == current # NoMap => Mapped(current.epoch) \subseteq {current.port}

\* A rule that pins its port publishes that port or none: the one the user pinned,
\* else the first one it was granted ("never degrades").
PinHolds ==
  [][Policy = "KeepPortOrStay" /\ external' \notin {0, external} =>
       /\ Pinned # 0 => external' = Pinned
       /\ Pinned = 0 /\ shown # 0 => external' = shown]_vars

\* Kept is reported only when the port published last was granted again.
KeptIsTrue ==
  [][outcome' # outcome /\ outcome'.kind = "Kept" => outcome'.port = shown]_vars

\* A task with nothing left to look at holds a mapping, or sits a conflict out, if and
\* only if a tunnel is up: no change of the channel is lost while it awaits an answer.
IdleIsSettled == pc = "idle" /\ ~dirty => (offer = 0 <=> current = NoMap /\ conflicted = 0)

\* A tunnel that stays down takes the published port with it, even when the outage
\* overtakes a grant.
PortClears ==
  <>[](offer = 0 /\ ~closed) => <>[](external = 0 \/ pc = "done")
-----------------------------------------------------------------------------
(***************************************************************************)
(* What a comment says, and the code does not do.                          *)
(***************************************************************************)

\* forward_port: "re-establishing the mapping on every tunnel rebuild".  A task with
\* nothing left to look at serves the epoch that is up: it holds a mapping made in it,
\* or was refused its pinned port in it.  A rebuild that is over before the task
\* looks is missed.
ServesEpoch ==
  pc = "idle" /\ ~dirty =>
    /\ current.epoch \in {0, offer}
    /\ offer # 0 => current.epoch = offer \/ conflicted = offer

\* PortRelease::Deleted: "The mapping was deleted at the exit: the public port is
\* free now."  The answer does not depend on what became of the delete.
DeletedIsFree ==
  [][answer' = "Deleted" /\ answer # "Deleted" =>
       [epoch |-> current.epoch, port |-> current.port] \notin leases']_vars
=============================================================================
