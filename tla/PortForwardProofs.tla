-------------------------- MODULE PortForwardProofs -------------------------
(***************************************************************************)
(* A supervised forward keeps its promises for any set of ports, policy,   *)
(* pin and number of epochs, however the channel and the gateway behave.   *)
(***************************************************************************)
EXTENDS PortForward, TLAPS

\* The task works for a grant.
Seeking == {"asking", "fallback", "announce", "retry"}

\* It holds no mapping and sits no conflict out meanwhile, and what it publishes is
\* what it holds.
MappingInv ==
  /\ pc \in Seeking => current = NoMap /\ conflicted = 0
  /\ pc \in {"asking", "fallback", "announce"} => using # 0
  /\ current = NoMap => ~renewing
  /\ PublishedIsHeld

\* The remembered port is the one published last, or was forgotten after a conflict,
\* which a pinned rule never does; a strict request is granted its port.
PortInv ==
  /\ pc \notin {"announce", "done"} => sticky \in {0, shown}
  /\ pc = "asking" => suggested = Suggestion
  /\ pc = "asking" /\ suggested # 0 => reply \in {NoReply, Conflict, suggested}
  /\ pc = "announce" => sticky # 0
  /\ pc = "fallback" => sticky = 0
  /\ Policy = "KeepPortOrStay" =>
       /\ pc # "fallback"
       /\ pc \notin {"announce", "done"} => sticky = shown
       /\ pc = "announce" => /\ Pinned # 0 => sticky = Pinned
                             /\ Pinned = 0 /\ shown # 0 => sticky = shown

\* What the exit maps to a rule that holds no mapping, because the grant was lost on
\* its way back, is the port the rule will ask for again.
LostInv ==
  /\ offer <= epoch /\ \A l \in leases : l.epoch <= epoch
  /\ pc \notin {"announce", "done"} /\ current = NoMap /\ offer # 0 /\ Suggestion # 0 =>
       Mapped(offer) \subseteq {Suggestion}

TaskInv == TypeOK /\ MappingInv /\ PortInv
IndInv == TaskInv /\ LostInv

\* The invariant holds as the task is spawned.
LEMMA InitInv == Init => IndInv
<1> SUFFICES ASSUME Init PROVE IndInv
  OBVIOUS
<1>1. closed \in BOOLEAN /\ dirty \in BOOLEAN /\ renewing \in BOOLEAN /\ requested \in BOOLEAN
  BY Zenon DEF Init, FeedInit
<1>2. TypeOK
  BY <1>1 DEF Init, FeedInit, TypeOK, OptPort, NoMap, NoReply, Conflict
<1>3. MappingInv /\ PortInv
  BY DEF Init, MappingInv, Seeking, PublishedIsHeld, PortInv, NoMap
<1>4. LostInv
  BY DEF Init, FeedInit, LostInv
<1> QED BY <1>2, <1>3, <1>4 DEF IndInv, TaskInv

\* Every step of the task, the gateway, the feed and the handle preserves it.
LEMMA TaskStepInv == IndInv /\ [Next]_vars => TaskInv'
<1> SUFFICES ASSUME IndInv, [Next]_vars PROVE TaskInv'
  OBVIOUS
<1> USE PortForwardAssumption
    DEF IndInv, TaskInv, TypeOK, OptPort, MappingInv, Seeking, PublishedIsHeld, PortInv,
        Suggestion, NoMap, NoReply, Conflict, feedVars, taskVars, portVars, exitVars, gateVars
<1>1. CASE Ask
  <2>1. dirty' \in BOOLEAN
    BY <1>1, Zenon DEF Ask
  <2> QED BY <1>1, <2>1 DEF Ask
<1>2. CASE Rest
  <2>1. dirty' \in BOOLEAN
    BY <1>2, Zenon DEF Rest
  <2> QED BY <1>2, <2>1 DEF Rest
<1>3. CASE Clear
  <2>1. dirty' \in BOOLEAN /\ renewing' \in BOOLEAN
    BY <1>3, Zenon DEF Clear
  <2> QED BY <1>3, <2>1 DEF Clear
<1>4. CASE TakeGrant
  BY <1>4 DEF TakeGrant
<1>5. CASE Announce
  BY <1>5 DEF Announce, RenewalPort
<1>6. CASE TakeConflict
  BY <1>6 DEF TakeConflict
<1>7. CASE TakeFailure
  BY <1>7 DEF TakeFailure
<1>8. CASE RetryElapses
  BY <1>8 DEF RetryElapses
<1>9. CASE Wakes
  BY <1>9 DEF Wakes
<1>10. CASE Returns
  <2>1. renewing' \in BOOLEAN
    BY <1>10, Zenon DEF Returns, End
  <2> QED BY <1>10, <2>1 DEF Returns, End
<1>11. CASE StartRelease
  <2>1. requested' \in BOOLEAN
    BY <1>11, Zenon DEF StartRelease
  <2> QED BY <1>11, <2>1 DEF StartRelease
<1>12. CASE AckNothing
  <2>1. renewing' \in BOOLEAN
    BY <1>12, Zenon DEF AckNothing, End
  <2> QED BY <1>12, <2>1 DEF AckNothing, End
<1>13. CASE AckDelete
  <2>1. renewing' \in BOOLEAN
    BY <1>13, Zenon DEF AckDelete, End
  <2> QED BY <1>13, <2>1 DEF AckDelete, End
<1>14. CASE AckAnyway
  <2>1. renewing' \in BOOLEAN
    BY <1>14, Zenon DEF AckAnyway, End
  <2> QED BY <1>14, <2>1 DEF AckAnyway, End
<1>15. CASE GatewayGrants
  <2>1. pc = "asking" /\ suggested # 0 => reply' = suggested
    BY <1>15 DEF GatewayGrants, LostInv, Mapped
  <2> QED BY <1>15, <2>1 DEF GatewayGrants
<1>16. CASE GatewayConflicts
  BY <1>16 DEF GatewayConflicts
<1>17. CASE TakenChanges
  <2>1. taken' \subseteq Ports
    BY <1>17, Zenon DEF TakenChanges
  <2>2. UNCHANGED <<feedVars, pc, dirty, taskVars, portVars, leases, gateVars>>
    BY <1>17, Zenon DEF TakenChanges
  <2> QED BY <2>1, <2>2
<1>18. CASE Renew
  BY <1>18 DEF Renew
<1>19. CASE RenewalFails
  <2>1. renewing' \in BOOLEAN
    BY <1>19, Zenon DEF RenewalFails
  <2> QED BY <1>19, <2>1 DEF RenewalFails
<1>20. CASE Lapse
  BY <1>20 DEF Lapse
<1>21. CASE FeedPublishes
  BY <1>21 DEF FeedPublishes, Publish
<1>22. CASE FeedWithdraws
  BY <1>22 DEF FeedWithdraws, Withdraw
<1>23. CASE FeedCloses
  BY <1>23 DEF FeedCloses, Close
<1>24. CASE RequestRelease
  BY <1>24 DEF RequestRelease
<1>25. CASE Answered
  BY <1>25 DEF Answered
<1>26. CASE Abandon
  <2>1. renewing' \in BOOLEAN
    BY <1>26, Zenon DEF Abandon, End
  <2> QED BY <1>26, <2>1 DEF Abandon, End
<1>27. CASE Terminated
  BY <1>27 DEF Terminated, vars
<1>28. CASE UNCHANGED vars
  BY <1>28 DEF vars
<1> QED
  BY <1>1, <1>2, <1>3, <1>4, <1>5, <1>6, <1>7, <1>8, <1>9, <1>10, <1>11, <1>12, <1>13, <1>14, <1>15, <1>16, <1>17, <1>18, <1>19, <1>20, <1>21, <1>22, <1>23, <1>24, <1>25, <1>26, <1>27, <1>28
  DEF Next, TaskStep, Environment

\* Every step preserves the rest of it.
LEMMA LostStepInv == IndInv /\ [Next]_vars => LostInv'
<1> SUFFICES ASSUME IndInv, [Next]_vars PROVE LostInv'
  OBVIOUS
<1>0. /\ offer \in Nat /\ epoch \in Nat /\ \A l \in leases : l.epoch \in Nat
      /\ pc \in Seeking => current = NoMap
      /\ pc \in {"asking", "fallback", "announce"} => using # 0
      /\ current = NoMap => ~renewing
      /\ pc = "asking" => suggested = Suggestion
      /\ Policy = "KeepPortOrStay" => pc # "fallback"
      /\ pc = "fallback" => sticky = 0
  BY DEF IndInv, TaskInv, TypeOK, MappingInv, PortInv
<1> USE DEF LostInv, Mapped, Suggestion, feedVars, taskVars, portVars, exitVars, gateVars
<1>1. LostInv
  BY DEF IndInv
<1>2. CASE Ask \/ Rest \/ Clear \/ TakeGrant
  BY <1>1, <1>2 DEF Ask, Rest, Clear, TakeGrant
<1>3. CASE Announce
  BY <1>0, <1>1, <1>3 DEF Announce, RenewalPort, NoMap
<1>4. CASE TakeConflict
  BY <1>1, <1>4, PortForwardAssumption DEF TakeConflict
<1>5. CASE TakeFailure \/ RetryElapses \/ Wakes \/ StartRelease
  BY <1>1, <1>5 DEF TakeFailure, RetryElapses, Wakes, StartRelease
<1>6. CASE Returns \/ AckNothing \/ AckDelete \/ AckAnyway \/ Abandon
  BY <1>1, <1>6 DEF Returns, AckNothing, AckDelete, AckAnyway, Abandon, End
<1>7. CASE GatewayGrants
  BY <1>0, <1>1, <1>7, PortForwardAssumption DEF GatewayGrants
<1>8. CASE Renew
  BY <1>0, <1>1, <1>8 DEF Renew, Live
<1>9. CASE GatewayConflicts \/ TakenChanges \/ RenewalFails \/ Lapse
  BY <1>1, <1>9 DEF GatewayConflicts, TakenChanges, RenewalFails, Lapse
<1>10. CASE FeedPublishes
  BY <1>0, <1>1, <1>10 DEF FeedPublishes, Publish
<1>11. CASE FeedWithdraws
  BY <1>0, <1>1, <1>11 DEF FeedWithdraws, Withdraw
<1>12. CASE FeedCloses
  BY <1>1, <1>12 DEF FeedCloses, Close
<1>13. CASE RequestRelease \/ Answered \/ Terminated \/ UNCHANGED vars
  BY <1>1, <1>13 DEF RequestRelease, Answered, Terminated, vars
<1> QED
  BY <1>2, <1>3, <1>4, <1>5, <1>6, <1>7, <1>8, <1>9, <1>10, <1>11, <1>12, <1>13
  DEF Next, TaskStep, Environment

\* The inductive invariant holds throughout.
LEMMA Invariance == Spec => []IndInv
<1>1. IndInv /\ [Next]_vars => IndInv'
  BY TaskStepInv, LostStepInv DEF IndInv
<1> QED BY <1>1, InitInv, PTL DEF Spec

\* Type correctness.
THEOREM TypeCorrect == Spec => []TypeOK
<1>1. IndInv => TypeOK
  BY DEF IndInv, TaskInv
<1> QED BY <1>1, Invariance, PTL

\* While the task runs it publishes the port of the mapping it holds, and nothing
\* else.
THEOREM HeldIsPublished == Spec => []PublishedIsHeld
<1>1. IndInv => PublishedIsHeld
  BY DEF IndInv, TaskInv, MappingInv
<1> QED BY <1>1, Invariance, PTL

\* Which actions publish a port or an outcome.
LEMMA Publishers ==
  ASSUME Next
  PROVE  /\ external' # external => Announce \/ Clear
         /\ outcome' # outcome => TakeGrant \/ TakeConflict \/ TakeFailure
<1>1. CASE TaskStep
  BY <1>1 DEF TaskStep, Ask, Rest, Clear, TakeGrant, Announce, TakeConflict, TakeFailure,
              RetryElapses, Wakes, Returns, StartRelease, AckNothing, AckDelete, AckAnyway,
              End, portVars
<1>2. CASE Environment \/ Terminated
  BY <1>2 DEF Environment, GatewayGrants, GatewayConflicts, TakenChanges, Renew,
              RenewalFails, Lapse, FeedPublishes, FeedWithdraws, FeedCloses,
              RequestRelease, Answered, Abandon, End, Terminated, portVars, vars
<1> QED BY <1>1, <1>2 DEF Next

\* A rule that pins its port publishes that port or none.
THEOREM PinnedStays == Spec => PinHolds
<1>1. IndInv /\ [Next]_vars =>
        [Policy = "KeepPortOrStay" /\ external' \notin {0, external} =>
           /\ Pinned # 0 => external' = Pinned
           /\ Pinned = 0 /\ shown # 0 => external' = shown]_vars
  <2> SUFFICES ASSUME IndInv, Next, Policy = "KeepPortOrStay", external' \notin {0, external}
               PROVE  /\ Pinned # 0 => external' = Pinned
                      /\ Pinned = 0 /\ shown # 0 => external' = shown
    BY Zenon
  <2>1. Announce
    BY Publishers DEF Clear
  <2> QED BY <2>1 DEF Announce, RenewalPort, IndInv, TaskInv, PortInv
<1> QED BY <1>1, Invariance, PTL DEF Spec, PinHolds

\* Kept is reported only for the port that was published last.
THEOREM KeptStays == Spec => KeptIsTrue
<1>1. IndInv /\ [Next]_vars =>
        [outcome' # outcome /\ outcome'.kind = "Kept" => outcome'.port = shown]_vars
  <2> SUFFICES ASSUME IndInv, Next, outcome' # outcome, outcome'.kind = "Kept"
               PROVE  outcome'.port = shown
    BY Zenon
  <2>1. TakeGrant
    BY Publishers DEF TakeConflict, TakeFailure
  <2> QED BY <2>1, PortForwardAssumption DEF TakeGrant, IndInv, TaskInv, PortInv
<1> QED BY <1>1, Invariance, PTL DEF Spec, KeptIsTrue

\* While the task awaits an answer it has seen every value of the channel, or will
\* look again.
WakeInv ==
  /\ pc \in {"asking", "fallback", "announce"} => using # 0 /\ (~dirty => offer = using)
  /\ IdleIsSettled

\* Every step preserves it.
LEMMA WakeStep == IndInv /\ WakeInv /\ [Next]_vars => WakeInv'
<1> SUFFICES ASSUME IndInv, WakeInv, [Next]_vars PROVE WakeInv'
  OBVIOUS
<1> USE DEF WakeInv, IdleIsSettled, feedVars, taskVars, portVars, exitVars, gateVars
<1>1. CASE Ask \/ Rest \/ Clear
  BY <1>1 DEF Ask, Rest, Clear
<1>2. CASE TakeGrant
  BY <1>2 DEF TakeGrant
<1>3. CASE Announce
  BY <1>3 DEF Announce, RenewalPort, NoMap
<1>4. CASE TakeConflict
  BY <1>4 DEF TakeConflict, IndInv, TaskInv, MappingInv, Seeking
<1>5. CASE TakeFailure \/ RetryElapses \/ Wakes \/ StartRelease
  BY <1>5 DEF TakeFailure, RetryElapses, Wakes, StartRelease
<1>6. CASE Returns \/ AckNothing \/ AckDelete \/ AckAnyway \/ Abandon
  BY <1>6 DEF Returns, AckNothing, AckDelete, AckAnyway, Abandon, End
<1>7. CASE GatewayGrants \/ GatewayConflicts \/ TakenChanges \/ Renew \/ RenewalFails \/ Lapse
  BY <1>7 DEF GatewayGrants, GatewayConflicts, TakenChanges, Renew, RenewalFails, Lapse
<1>8. CASE FeedPublishes \/ FeedWithdraws
  BY <1>8 DEF FeedPublishes, FeedWithdraws
<1>9. CASE FeedCloses \/ RequestRelease \/ Answered \/ Terminated \/ UNCHANGED vars
  BY <1>9 DEF FeedCloses, Close, RequestRelease, Answered, Terminated, vars
<1> QED
  BY <1>1, <1>2, <1>3, <1>4, <1>5, <1>6, <1>7, <1>8, <1>9 DEF Next, TaskStep, Environment

\* An outage or a rebuild that comes while the task awaits an answer is not lost: it
\* ends up with a mapping or a conflict exactly when a tunnel is up.
THEOREM NoWakeIsLost == Spec => []IdleIsSettled
<1>1. Init => WakeInv
  BY DEF Init, WakeInv, IdleIsSettled
<1>2. WakeInv => IdleIsSettled
  BY DEF WakeInv
<1> QED BY <1>1, <1>2, WakeStep, Invariance, PTL DEF Spec

\* An exit maps one port to the rule: the one it answered, the one the task is about
\* to publish, the one it published, which is the one its renewals ask for.
LeaseInv ==
  /\ \A k, l \in leases : k.epoch = l.epoch => k.port = l.port
  /\ pc \in {"asking", "fallback"} /\ reply \in Ports => Mapped(using) \subseteq {reply}
  /\ pc = "announce" => Mapped(using) \subseteq {sticky}
  /\ current # NoMap => current.port # 0 /\ current.asked = current.port
  /\ LeaseIsPublished

\* On a raw datapath every step preserves it.
LEMMA LeaseStep == ASSUME Raw PROVE IndInv /\ LeaseInv /\ [Next]_vars => LeaseInv'
<1> SUFFICES ASSUME IndInv, LeaseInv, [Next]_vars PROVE LeaseInv'
  OBVIOUS
<1> USE DEF LeaseInv, LeaseIsPublished, Mapped, feedVars, taskVars, portVars, exitVars, gateVars
<1>1. CASE Ask \/ Rest
  BY <1>1, PortForwardAssumption DEF Ask, Rest, NoReply
<1>2. CASE Clear
  BY <1>2 DEF Clear
<1>3. CASE TakeGrant
  BY <1>3, PortForwardAssumption DEF TakeGrant, NoReply
<1>4. CASE Announce
  BY <1>4 DEF Announce, RenewalPort, IndInv, TaskInv, PortInv
<1>5. CASE TakeConflict \/ TakeFailure
  BY <1>5, PortForwardAssumption DEF TakeConflict, TakeFailure, NoReply
<1>6. CASE RetryElapses \/ Wakes \/ StartRelease
  BY <1>6 DEF RetryElapses, Wakes, StartRelease
<1>7. CASE Returns \/ AckNothing \/ AckDelete \/ AckAnyway \/ Abandon
  BY <1>7 DEF Returns, AckNothing, AckDelete, AckAnyway, Abandon, End
<1>8. CASE GatewayGrants
  <2>1. current = NoMap
    BY <1>8 DEF GatewayGrants, IndInv, TaskInv, MappingInv, Seeking
  <2>2. PICK p \in Ports :
          /\ Mapped(using) # {} => p \in Mapped(using)
          /\ reply' = p
          /\ leases' = leases \cup {[epoch |-> using, port |-> p]}
    BY <1>8 DEF GatewayGrants
  <2>3. \A l \in leases : l.epoch = using => l.port = p
    BY <2>2
  <2> QED BY <1>8, <2>1, <2>2, <2>3 DEF GatewayGrants
<1>9. CASE Renew
  <2>1. current # NoMap /\ pc \notin Seeking
    BY <1>9 DEF Renew, IndInv, TaskInv, MappingInv
  <2>2. leases' = leases \cup {[epoch |-> current.epoch, port |-> current.port]}
    BY <1>9, <2>1 DEF Renew
  <2>3. \A l \in leases : l.epoch # current.epoch
    BY <1>9 DEF Renew
  <2> QED BY <1>9, <2>1, <2>2, <2>3 DEF Renew, Seeking
<1>10. CASE GatewayConflicts
  BY <1>10, PortForwardAssumption DEF GatewayConflicts, Conflict
<1>11. CASE TakenChanges \/ RenewalFails
  BY <1>11 DEF TakenChanges, RenewalFails
<1>12. CASE Lapse
  BY <1>12 DEF Lapse
<1>13. CASE FeedPublishes \/ FeedWithdraws \/ FeedCloses
  BY <1>13 DEF FeedPublishes, FeedWithdraws, FeedCloses
<1>14. CASE RequestRelease \/ Answered \/ Terminated \/ UNCHANGED vars
  BY <1>14 DEF RequestRelease, Answered, Terminated, vars
<1> QED
  BY <1>1, <1>2, <1>3, <1>4, <1>5, <1>6, <1>7, <1>8, <1>9, <1>10, <1>11, <1>12, <1>13, <1>14
  DEF Next, TaskStep, Environment

\* On a raw datapath no refresh moves the port under the client that published it.
THEOREM PublishedPortStays == ASSUME Raw PROVE Spec => []LeaseIsPublished
<1>1. Init => LeaseInv
  BY DEF Init, LeaseInv, LeaseIsPublished, Mapped
<1>2. LeaseInv => LeaseIsPublished
  BY DEF LeaseInv
<1> QED BY <1>1, <1>2, LeaseStep, Invariance, PTL DEF Spec
=============================================================================
