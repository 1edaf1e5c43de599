---------------------------- MODULE Entitlements ----------------------------
(***************************************************************************)
(* Port entitlements: the slot table forwarding rules claim from           *)
(* (warren-sdk/src/entitlements.rs) and the place of the wallet's batch    *)
(* each slot presents (PortEntitlementManager, warren-api/src/tokens.rs).  *)
(* The slot table, the places and the stock have a lock each, and rules    *)
(* run on several threads: asking for a credential reads the clock and the *)
(* stock before it takes the places' lock, and dropping a lease gives the  *)
(* slot back before the place.                                             *)
(*                                                                         *)
(* The one refresh task calls TokenManager::refresh, which prunes, then    *)
(* mints epoch after epoch, and may stop half way.  Which answer settles   *)
(* an epoch for good is module Tokens.  The issuer's quota is any, and     *)
(* stays what it is while the process runs.                                *)
(***************************************************************************)
EXTENDS Integers, FiniteSets

CONSTANTS
  Rules,      \* the forwarding rules
  LastSlot,   \* bound: the highest slot
  BatchSize,  \* bound: the largest quota of the issuer
  LastEpoch   \* bound: the last epoch

ASSUME EntitlementsAssumption ==
  LastSlot \in Nat /\ BatchSize \in Nat \ {0} /\ LastEpoch \in Nat \ {0}

Slots == 0 .. LastSlot
Places == 0 .. BatchSize - 1
Epochs == 1 .. LastEpoch
None == -1
Credentials == [epoch : Epochs, place : Places]
NoCredential == [epoch |-> 0, place |-> None]
Unread == [epoch |-> 0, stock |-> 0]

VARIABLES
  now,        \* the epoch the clock stands in
  quota,      \* quota_per_epoch of the issuer's directory
  stock,      \* how many entitlements the manager holds, by epoch
  revoked,    \* the device was revoked
  issuance,   \* the issuer's last answer
  task,       \* the refresh task
  called,     \* the epoch its call to refresh was made in
  due,        \* the epochs the call still has to mint
  slots,      \* the slots in the table
  places,     \* the place each slot holds
  entered,    \* the epoch the refusals were recorded in
  refused,    \* the places an exit refused in it
  phase,      \* where each rule stands
  lease,      \* the slot each rule holds
  seen,       \* the epoch and stock each rule read
  presented,  \* the credential each lease last asked for
  granted,    \* the credential the exit leases each rule's port on
  torn        \* history: the rules whose place was released under them, while in use

mint == <<stock, revoked, issuance, called, due>>
batch == <<now, quota, mint, task>>
assigned == <<places, entered, refused>>
rules == <<phase, lease, seen, presented, granted, torn>>
vars == <<batch, slots, assigned, rules>>

Init ==
  /\ now = 1 /\ quota \in 1 .. BatchSize /\ stock = [e \in Epochs |-> 0] /\ revoked = FALSE
  /\ issuance = "pending" /\ task = "none" /\ called = 1 /\ due = {}
  /\ slots = {}
  /\ places = [n \in Slots |-> None] /\ entered = 0 /\ refused = {}
  /\ phase = [r \in Rules |-> "none"] /\ lease = [r \in Rules |-> None]
  /\ seen = [r \in Rules |-> Unread]
  /\ presented = [r \in Rules |-> NoCredential]
  /\ granted = [r \in Rules |-> NoCredential]
  /\ torn = {}

\* A rule that dropped its lease no longer counts as one.
Live(r) == phase[r] \notin {"none", "dropping"}

\* The exit leases its port on a credential, or has a request of it.
InUse(r) == granted[r] # NoCredential \/ phase[r] \in {"sent", "mapped"}
-----------------------------------------------------------------------------
(***************************************************************************)
(* A rule and its lease.                                                   *)
(***************************************************************************)

\* Mutant: the slot is the number of slots, not the lowest free one.
Claim_Counts(r) ==
  /\ phase[r] = "none"
  /\ \E n \in Slots :
       /\ n = Cardinality(slots)
       /\ slots' = slots \cup {n}
       /\ lease' = [lease EXCEPT ![r] = n]
  /\ phase' = [phase EXCEPT ![r] = "claimed"]
  /\ UNCHANGED <<batch, assigned, seen, presented, granted, torn>>

\* PortEntitlements::claim: the lowest slot no live rule holds.
Claim(r) ==
  /\ phase[r] = "none"
  /\ \E n \in Slots \ slots :
       /\ \A m \in Slots \ slots : n <= m
       /\ slots' = slots \cup {n}
       /\ lease' = [lease EXCEPT ![r] = n]
  /\ phase' = [phase EXCEPT ![r] = "claimed"]
  /\ UNCHANGED <<batch, assigned, seen, presented, granted, torn>>

\* RuleSlot::provider on every mapping: the refresh task runs, or is started.
EnsureRefreshing(r) ==
  /\ phase[r] = "claimed"
  /\ task' = IF task = "none" THEN "starting" ELSE task
  /\ phase' = [phase EXCEPT ![r] = "ready"]
  /\ UNCHANGED <<now, quota, mint, slots, assigned, lease, seen, presented, granted, torn>>

\* credential_for_slot, outside the lock: the epoch and its stock are read, for a
\* first request or for a renewal.
ReadStock(r) ==
  /\ phase[r] \in {"ready", "mapped"}
  /\ seen' = [seen EXCEPT ![r] = [epoch |-> now, stock |-> stock[now]]]
  /\ phase' = [phase EXCEPT ![r] = "asking"]
  /\ UNCHANGED <<batch, slots, assigned, lease, presented, granted, torn>>

\* Assigned::enter.
Enter(e) == IF entered = e THEN refused ELSE {}

\* Mutant: the places of the other slots are not looked at.
Held_Unseen(n) == {None}

\* The places the other slots hold.
Held(n) == {places[m] : m \in Slots \ {n}}

\* Mutant: the batch is taken to be one larger.
Inside_OffByOne(k) == 0 .. k

\* The places of a batch of size k.
Inside(k) == {p \in Places : p < k}

Lowest(S) == CHOOSE p \in S : \A q \in S : p <= q

\* A place for slot n, which holds none, when bad are the refused ones: place n,
\* else the lowest that is neither held nor refused; when there is none, the
\* refusals are forgotten and the lowest that is not held is tried again.
FreshPlace(n, k, bad) ==
  LET free == Inside(k) \ Held(n)
      untried == free \ bad
  IN  CASE n \in untried -> [place |-> n, refused |-> bad]
        [] n \notin untried /\ untried # {} -> [place |-> Lowest(untried), refused |-> bad]
        [] untried = {} /\ free # {} -> [place |-> Lowest(free), refused |-> {}]
        [] OTHER -> [place |-> None, refused |-> bad]

\* Mutant: a fresh place is not recorded.
PlaceOf_Unkept(n, k, bad) ==
  LET fresh == FreshPlace(n, k, bad)
  IN  [place |-> fresh.place, kept |-> places[n], refused |-> fresh.refused]

\* Mutant: a slot starts over at every request.
PlaceOf_Restarts(n, k, bad) ==
  LET fresh == FreshPlace(n, k, bad)
  IN  [place |-> fresh.place, kept |-> fresh.place, refused |-> fresh.refused]

\* Assigned::place_of for slot n out of a stock of k: the place it presents, the one
\* it holds from now on, and the refusals that are left.
PlaceOf(n, k, bad) ==
  LET fresh == FreshPlace(n, k, bad)
      same == [place |-> places[n], kept |-> places[n], refused |-> bad]
  IN  IF k = 0 THEN [same EXCEPT !.place = None]
      ELSE IF places[n] \in Inside(k) THEN same
      ELSE [place |-> fresh.place, kept |-> fresh.place, refused |-> fresh.refused]

\* credential_for_slot, under the lock, and the envelope the batch still holds; the
\* lease remembers what it asked for, and the request goes out.
Present(r) ==
  LET e == seen[r].epoch
      n == lease[r]
      out == PlaceOf(n, seen[r].stock, Enter(e))
  IN
  /\ phase[r] = "asking"
  /\ entered' = e
  /\ places' = [places EXCEPT ![n] = out.kept]
  /\ refused' = out.refused
  /\ presented' = [presented EXCEPT ![r] =
       IF out.place # None /\ out.place < stock[e]
       THEN [epoch |-> e, place |-> out.place] ELSE NoCredential]
  /\ seen' = [seen EXCEPT ![r] = Unread]
  /\ phase' = [phase EXCEPT ![r] = "sent"]
  /\ UNCHANGED <<batch, slots, lease, granted, torn>>

\* The exit maps the port on the credential.
Granted(r) ==
  /\ phase[r] = "sent" /\ presented[r] # NoCredential
  /\ granted' = [granted EXCEPT ![r] = presented[r]]
  /\ phase' = [phase EXCEPT ![r] = "mapped"]
  /\ UNCHANGED <<batch, slots, assigned, lease, seen, presented, torn>>

\* mark_refused: the slot still presents the credential that was refused.
StillPresents(r) ==
  LET p == places[lease[r]]
  IN  p # None /\ p < stock[now] /\ presented[r] = [epoch |-> now, place |-> p]

\* forward_error: the exit refused a first request.  The slot moves when it still
\* presents what was refused; a banned wallet, or one that presented nothing,
\* returns early.
Refused(r) ==
  /\ phase[r] = "sent" /\ granted[r] = NoCredential
  /\ phase' = [phase EXCEPT ![r] = "claimed"]
  /\ IF issuance # "banned" /\ presented[r] # NoCredential
     THEN /\ entered' = now
          /\ IF StillPresents(r)
             THEN /\ refused' = Enter(now) \cup {places[lease[r]]}
                  /\ places' = [places EXCEPT ![lease[r]] = None]
             ELSE /\ refused' = Enter(now)
                  /\ UNCHANGED places
     ELSE UNCHANGED assigned
  /\ torn' = torn \ {r}
  /\ UNCHANGED <<batch, slots, lease, seen, presented, granted>>

\* A request that gets no verdict, a renewal that is refused (which ends it
\* quietly), or a tunnel that is rebuilt: the rule maps again, on the same slot.
Remap(r) ==
  /\ phase[r] \in {"sent", "mapped"}
  /\ phase' = [phase EXCEPT ![r] = "claimed"]
  /\ granted' = [granted EXCEPT ![r] = NoCredential]
  /\ torn' = torn \ {r}
  /\ UNCHANGED <<batch, slots, assigned, lease, seen, presented>>

\* SlotLease::drop, first half: the slot goes back to the table.  A provider that is
\* asking holds the lease.
DropSlot(r) ==
  /\ Live(r) /\ phase[r] # "asking"
  /\ slots' = slots \ {lease[r]}
  /\ granted' = [granted EXCEPT ![r] = NoCredential]
  /\ presented' = [presented EXCEPT ![r] = NoCredential]
  /\ seen' = [seen EXCEPT ![r] = Unread]
  /\ phase' = [phase EXCEPT ![r] = "dropping"]
  /\ torn' = torn \ {r}
  /\ UNCHANGED <<batch, assigned, lease>>

\* SlotLease::drop, second half: PortEntitlementManager::release, whoever holds the
\* slot by now.
ReleasePlace(r) ==
  /\ phase[r] = "dropping"
  /\ places' = [places EXCEPT ![lease[r]] = None]
  /\ lease' = [lease EXCEPT ![r] = None]
  /\ torn' = torn \cup {q \in Rules : Live(q) /\ InUse(q) /\ lease[q] = lease[r]}
  /\ phase' = [phase EXCEPT ![r] = "none"]
  /\ UNCHANGED <<batch, slots, entered, refused, seen, presented, granted>>
-----------------------------------------------------------------------------
(***************************************************************************)
(* The refresh task and the clock.                                         *)
(***************************************************************************)

\* The spawned task reads the clock and calls refresh.
CallRefresh ==
  /\ task = "starting"
  /\ task' = "refreshing" /\ called' = now
  /\ UNCHANGED <<now, quota, stock, revoked, issuance, due, slots, assigned, rules>>

\* The directory is in: what was past when the call was made is pruned, and the
\* epochs left to mint are snapshot.
FetchDirectory ==
  /\ task = "refreshing" /\ ~revoked
  /\ stock' = [e \in Epochs |-> IF e < called THEN 0 ELSE stock[e]]
  /\ due' = {e \in Epochs : e >= now /\ stock[e] = 0}
  /\ task' = "minting"
  /\ UNCHANGED <<now, quota, revoked, issuance, called, slots, assigned, rules>>

\* The batch of an epoch is stocked.
MintEpoch ==
  /\ task = "minting"
  /\ \E e \in due : /\ stock' = [stock EXCEPT ![e] = quota]
                    /\ due' = due \ {e}
  /\ UNCHANGED <<now, quota, revoked, issuance, called, task, slots, assigned, rules>>

\* An epoch is not published, was issued to another batch, or its mint failed in a
\* way that is swallowed.
SkipEpoch ==
  /\ task = "minting"
  /\ \E e \in due : due' = due \ {e}
  /\ UNCHANGED <<now, quota, stock, revoked, issuance, called, task, slots, assigned, rules>>

\* The call returns Ok, whatever it stocked, and the task sleeps.
RefreshEnds ==
  /\ task = "minting" /\ due = {}
  /\ issuance' = "answered" /\ task' = "asleep"
  /\ UNCHANGED <<now, quota, stock, revoked, called, due, slots, assigned, rules>>

\* The call returns an error, before or after it pruned and stocked.  next_issuance:
\* a ban is kept until a success; any answer ends the wait.
RefreshFails ==
  /\ task = "refreshing" \/ (task = "minting" /\ due # {})
  /\ \E i \in {"banned", IF issuance = "pending" THEN "answered" ELSE issuance} :
       issuance' = i
  /\ due' = {} /\ task' = "asleep"
  /\ UNCHANGED <<now, quota, stock, revoked, called, slots, assigned, rules>>

RefreshRevoked ==
  /\ task = "refreshing" \/ (task = "minting" /\ due # {})
  /\ revoked' = TRUE /\ stock' = [e \in Epochs |-> 0]
  /\ issuance' = IF issuance = "pending" THEN "answered" ELSE issuance
  /\ due' = {} /\ task' = "asleep"
  /\ UNCHANGED <<now, quota, called, slots, assigned, rules>>

\* The period elapses: the task looks for a rule, and calls again or leaves.
RefreshDue ==
  /\ task = "asleep"
  /\ \/ slots # {} /\ task' = "refreshing" /\ called' = now
     \/ slots = {} /\ task' = "leaving" /\ UNCHANGED called
  /\ UNCHANGED <<now, quota, stock, revoked, issuance, due, slots, assigned, rules>>

RefreshReturns ==
  /\ task = "leaving"
  /\ task' = "none"
  /\ UNCHANGED <<now, quota, mint, slots, assigned, rules>>

Tick ==
  /\ now < LastEpoch
  /\ now' = now + 1
  /\ UNCHANGED <<quota, mint, task, slots, assigned, rules>>

RuleStep(r) ==
  \/ Claim(r) \/ EnsureRefreshing(r) \/ ReadStock(r) \/ Present(r) \/ Granted(r)
  \/ Refused(r) \/ Remap(r) \/ DropSlot(r) \/ ReleasePlace(r)

Next == \/ \E r \in Rules : RuleStep(r)
        \/ CallRefresh \/ FetchDirectory \/ MintEpoch \/ SkipEpoch \/ RefreshEnds
        \/ RefreshFails \/ RefreshRevoked \/ RefreshDue \/ RefreshReturns \/ Tick

Spec == Init /\ [][Next]_vars
-----------------------------------------------------------------------------
(***************************************************************************)
(* What the entitlements promise.                                          *)
(***************************************************************************)

Phases == {"none", "claimed", "ready", "asking", "sent", "mapped", "dropping"}

\* Types.
TypeOK ==
  /\ now \in Epochs /\ quota \in 1 .. BatchSize
  /\ stock \in [Epochs -> {0, quota}] /\ revoked \in BOOLEAN
  /\ issuance \in {"pending", "answered", "banned"}
  /\ task \in {"none", "starting", "refreshing", "minting", "asleep", "leaving"}
  /\ called \in Epochs /\ due \subseteq Epochs
  /\ slots \subseteq Slots /\ places \in [Slots -> Places \cup {None}]
  /\ \A n \in Slots : places[n] < quota
  /\ entered \in Epochs \cup {0} /\ refused \subseteq Places
  /\ phase \in [Rules -> Phases] /\ lease \in [Rules -> Slots \cup {None}]
  /\ seen \in [Rules -> [epoch : Epochs, stock : {0, quota}] \cup {Unread}]
  /\ presented \in [Rules -> Credentials \cup {NoCredential}]
  /\ granted \in [Rules -> Credentials \cup {NoCredential}] /\ torn \subseteq Rules

\* Live rules hold different slots, and the table holds exactly theirs, so that
\* "the lowest free slot" stays inside the batch.
SlotsApart ==
  /\ slots = {lease[r] : r \in {q \in Rules : Live(q)}}
  /\ \A r, q \in Rules : Live(r) /\ Live(q) /\ lease[r] = lease[q] => r = q

\* No two slots hold one place of the batch, whatever was refused, released or
\* asked for on another thread ("Handing out a place another slot holds instead
\* would make two rules read as one port at the exit").
PlacesApart ==
  \A n, m \in Slots : places[n] = places[m] /\ places[n] # None => n = m

\* While an exit leases a rule's port on a credential, no other rule has a request out
\* on it, unless the place of one of them was released under it by the late half of
\* another lease's drop: no refusal, renewal, epoch change or failed refresh does it.
ApartUnlessTorn ==
  \A r, q \in Rules \ torn :
    granted[r] # NoCredential /\ phase[q] \in {"sent", "mapped"} /\ presented[q] = granted[r]
      => r = q

\* "A slot keeps its credential for the whole epoch": a renewal presents the
\* entitlement the exit already spent for the port, unless its place was released
\* under it.
RenewalRepeats ==
  [][\A r \in Rules \ torn :
       /\ phase[r] = "asking" /\ phase'[r] = "sent" /\ presented'[r] # NoCredential
       /\ granted[r].epoch = presented'[r].epoch
       => presented'[r] = granted[r]]_vars
-----------------------------------------------------------------------------
(***************************************************************************)
(* What a comment says, and the code does not do.                          *)
(***************************************************************************)

\* The slot table: "two rules never draw the same one".  While an exit leases
\* a rule's port on a credential, no other rule has a request out on it.
RulesApart ==
  \A r, q \in Rules :
    granted[r] # NoCredential /\ phase[q] \in {"sent", "mapped"} /\ presented[q] = granted[r]
      => r = q
=============================================================================
