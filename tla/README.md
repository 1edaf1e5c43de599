# Verification of the Warren SDK

TLA+ models of the Warren SDK (`src/`), TLC configurations that check them on
small instances, and TLAPS proofs of their main properties for every value of
the constants.  `PROJECT.json` lists, for every definition, the source lines it
translates, and for every run, what it checks.

## The system

The SDK keeps a client connected to the Warren network and carries its ports,
tokens and entitlements across reconnects.  Its parts, and what is hard in them:

| Part | State | Operations | What is hard |
|---|---|---|---|
| Supervised datapath (`warren-sdk/supervisor.rs`) | the task's place in its loop, the current epoch, eight watch channels, two stored `Notify` permits | dial, publish an epoch, serve, end by one of five causes, tear down, back off | readers see each channel on its own; enders race; a gate is awaited inside one arm of a `select!`; the task may be aborted anywhere |
| Exit failover (`portfollow.rs`, `client.rs`) | rotation cursor, TTL avoid set | pick, fail, drain, expire | the cursor is moved by three parties; the rotation fails open |
| Host-route stand-aside (`host_route.rs`) | verdict, who serves the listeners | hold, resume, hand over | the verdict changes while a dial is held |
| Supervised port forward (`supervisor.rs`, `warren-net/portforward.rs`) | mapping, sticky port, published port and outcome, release gate | ask, grant, conflict, fall back, retry, renew, release | a watch channel shows only the latest value; lost answers; three policies |
| Session tokens (`warren-api/tokens.rs`, `warren-transport/multihop.rs`) | stock per epoch, settled epochs, revocation, serials held | refresh, stock, revoke, claim, release, export, restore | overlapping refreshes, no lock across a request, restarts |
| Port entitlements (`warren-sdk/entitlements.rs`, `tokens.rs`) | slot table, places, refusals, refresh task | claim, present, refuse, drop, refresh | three locks; values read before one is taken |
| NAT-PMP client (`portforward.rs`) | one flow, retransmission schedule | exchange, map, delete | stray and duplicate replies |
| Bolthole (`warren-bolthole-core`, `warren-bolthole`) | NAT table, port blocks, peers, handshake sessions | allocate, translate, expire, provision | tables at their limit, reuse, restarts |
| Discovery (`warren-discovery`) | the signed relay list | verify, refuse a rollback, select | boundary conditions of freshness and weights |
| Account API (`warren-api/client.rs`, `clock.rs`) | preferred host, clock correction | request, fall back | which failures move on to another host |
| Headless runner, proxies, netstack, FFI, identity | see `PROJECT.json` | | |

The parts interact through the **forwarder channel**: the supervisor sends the
forwarder of each epoch and `None` at its end, and every supervised forward is
driven by what it reads there.  Tokens are drawn by the dials, entitlements by
the forwards' mapping requests.

## Modules

`EpochFeed` is the abstract specification of the forwarder channel: at most one
epoch is offered at a time, epochs are numbered in order, and none comes back.
`Supervisor` implements it (property `FeedOK`, theorem `Refinement`), and
`PortForward` extends it, so that the two components are composed through it
without a product of their states.

`Failover` holds the rotation as operators.  An avoid set is the sequence of its
live keys, oldest first.  All entries share one TTL, so an expiry drops the head.

`Supervisor` models `supervise_datapath` with the failover connect closure.  `pc`
names the stretch between two points where another task can look:

| `pc` | Code |
|---|---|
| `top`, `aside`, `held`, `dialing` | the head of the loop, `stand_aside_while_host_route_is_warren`, `connect()` |
| `start`, `publish`, `announce`, `complete` | `datapath.start`, then one `send` each |
| `serving`, `gating` | the `select!`, and the gate awaited inside the drain arm |
| `retract`, `retire`, `close`, `draining`, `spreading`, `backoff` | the teardown, one `send` each, and the wait |
| `failing`, `failed`, `aborted` | the fatal return, and `abort` by the handle |

A channel's value is the number of the epoch it belongs to, 0 for `None`.  A
single pinned circuit is `N = 1`.  Enders are a set that only grows during an
epoch; the permits of `reconnect_request` and `wake` survive it, as a stored
`Notify` permit does.

`PortForward` models `supervise_forward`, the refresh task of its mapping, the
`ReleaseGate` and the gateway.  `dirty` is the watch channel's unseen mark; the
gateway's answer travels back in a step of its own, so an outage or a timeout may
come first and a mapping may stand at an exit that the rule never heard of.  `Raw`
tells the two datapaths apart: the renewals of a raw forward ask for the port that
was granted, those of the netstack forward repeat its first request
(`RenewalPort`).  Of the gateway, which is outside this repository, the model
assumes what the code's comments say and its conflict handling relies on: it maps
an internal port once, answers a repeated request with the mapping it holds, and
honours a suggested port strictly.

`Tokens` models `TokenManager` and `connect_admitted`.  A refresh is several
steps, since the state lock is never held across a request.  The issuer signs
one batch per account and epoch and serves the same batch again to whoever
derives it, or answers `already_issued`.  A failed request may or may not have been
signed.  A bundle is restored by a process that has not used its manager yet, and
may be one that an older build or another account left.

`Entitlements` models the slot table, `Assigned` and the refresh task, whose call
prunes, mints epoch after epoch and may stop half way.  Reading
the stock and taking the lock on the places are two steps; so are the two halves
of a lease's drop.  The envelope `credential_for_slot` looks up after it has
released that lock is read in the same step as the place.

`MCEntitlements` adds the symmetry set of the rules, `MCTokens` those of the refresh
calls and the dials.  `*Proofs` and `LeastNumber`
hold the proofs.

## Runs that pass

| Run | Instance | Shows |
|---|---|---|
| `SupervisorSafety` | 2 exits, 2 epochs, gate, host route | channels of one epoch only (`NoStaleEpoch`), Connected is usable, Failed is explained, a refused drain does not end its epoch, ends are reported before the rebuild is, migrations are closed by Completed only, exits are picked as promised (`DialsFreeExit`, `DrainMovesOn`, `RebuildKeepsExit`), `FeedOK` |
| `SupervisorLive` | 1 exit, 2 epochs, gate, host route, fair | a drain is answered, a host request honoured, the task redials, a held dial resumes |
| `ForwardBestEffort` | 2 ports, 3 epochs, raw, fair | the published port is the one held and the only one the exit maps to the rule, Kept is true, a tunnel that stays down takes the port with it |
| `ForwardPinned` | 2 ports, 3 epochs, KeepPortOrStay, netstack | no change of the channel is lost while an answer is awaited, the pin holds |
| `TokensRefresh` | 2 refreshes, 2 epochs, crash and restore | a revocation sticks, only what the issuer recorded settles an epoch, no refresh costs a token that can still be spent |
| `TokensSessions` | 2 refreshes, 2 sessions, batches of 2 | each serial is stocked once and presented by one session |
| `EntitlementsSlots` | 2 rules, quota 1 or 2, 2 epochs | slots and places stay apart; credentials do, and a renewal repeats its own, unless a drop released the place under the rule |

### Bounds

`MaxGen = 2` gives an epoch, its end and its rebuild; properties relate at most
two consecutive epochs.  Beyond the bound dials fail, which is a behaviour of the
code.  A datapath without a gate is the gated one whose gate always allows, so
`HasGate = TRUE` covers both.  Two exits suffice for "this one" and "another one";
the theorems about the rotation hold for any number.
`MaxLevel = 1` tells a reset schedule from one that climbed.  Two ports tell
"the same" from "another"; three epochs let a port be lost and won back.  The
issuer's quota is chosen at the start, and a quota of one makes one of two rules go
without; it does not change while the process runs, so the lines of `place_of` that
move a slot out of a batch that shrank (`tokens.rs:1739`) are never reached.
A walk of `TokensSessions` sees the whole batch: one that `MaxTokens` cuts short is a
prefix of it, and gives up earlier.  Two epochs let a refresh, or a
value read before a lock, be overtaken by the clock.  A process that restored a bundle is the last
one.  `LastSlot` is the number of rules less one: the lowest free slot is never
higher.

### Fairness

Only the task itself is fair (`WF_vars(TaskStep)`): its sends never block, each
dial, gate and exchange it awaits has a timeout, and a ready task is polled.
Nothing is assumed of the network, the host, the exit or the order in which
`select!` takes ready arms.  The liveness properties are stated so that any arm
may win.

Deadlock is checked in every run.  A supervisor or forward that has
returned may stop; that is the explicit disjunct `Terminated`.

## Runs that find a disagreement

Each checks one sentence of a comment against what the code does; `findings` in
`PROJECT.json` quotes it.

| Run | The sentence, and what happens |
|---|---|
| `ForwardFalseDelete` | "the public port is free now": the answer is Deleted whatever became of the delete |
| `TokensRestoredTwice` | stocking twice "would hold every serial twice": a restored batch is stocked again by the next refresh |
| `EntitlementsDropRace` | "two rules never draw the same one": they may, when a claim falls inside a drop; `ApartUnlessTorn` says that nothing else makes them |
| `ForwardMissedRebuild` | "re-establishing the mapping on every tunnel rebuild": a watch channel shows the latest value, so a rebuild that is over before the task looked at the outage leaves it with the mapping of the dead epoch; `IdleIsSettled` is what holds |
| `ForwardMovedPort` | "The external port the exit allocated; remote peers reach the app here.": a netstack renewal repeats a request that suggested nothing, and a gateway that lost the mapping may grant another port; a raw renewal cannot move it |

## Where a comment says more than the code does

Behaviours of the models, read off the code, that differ from the letter of a
comment.  What holds instead is checked by the runs above.

* `reconnect.rs:49` says of Connected "A connection is established."  After an epoch
  that flapped, the redial delay (`supervisor.rs:2336`) is slept out before the head
  of the loop sends Reconnecting.
* `supervisor.rs:2031` says a drain "rotates PAST the draining exit instead of
  re-dialing it".  The draining exit is not put in the avoid set: when the others
  are in it, the rotation comes back to it.  `DrainMovesOn` holds.
* `supervisor.rs:2229` says a host request "retries the same circuit".  An exit that
  failed, was redialled because all were avoided, and came up, is still avoided at
  the next pick.  `RebuildKeepsExit` holds.
* `portfollow.rs:81` says `previous` is "`None` on the first grant".  It is also `None`
  after a fallback request that failed, since the port was forgotten before it
  (`supervisor.rs:811`).
* `supervisor.rs:239` says the handle "keeps it alive until dropped".  A failed renewal
  ends the refresh task (`portforward.rs:632`), and nothing asks again before the
  next epoch.
* `supervisor.rs:566` says the port is "`None` while the tunnel is down".  A forward
  whose supervisor is gone returns with its last port published (`supervisor.rs:863`).
* `entitlements.rs:187` says "The next claim starts the loop again."  A claim that finds
  the task past its check but not yet finished does not (`entitlements.rs:167`).

## Theorems

All hold for any number of exits, epochs, ports, refreshes, sessions, rules and
slots, from the `ASSUME`s of the modules (types of the constants).

**Failover.** `NextCandidate` is the least free step round the list.  Its
existence rests on `LeastNumber!Minimum`; `ModRound` says N steps return to the
start, so a search of one round sees every exit.  From it: the pick is free unless
all are avoided, keeps a free start, and started one past an exit does not return
to it while another is free.

**Supervisor.** `IndInv` adds to `TypeOK`: `RotationInv`, where the cursor stands (on
the exit while an epoch is up, one past it after a drain or a conviction; without
this the bound of the cursor in `TypeOK` is not inductive); `ChannelInv`, which channels hold the
epoch at each `pc`; `StateInv`, which states may be published there; `ReportInv`,
when the report is that of the current epoch; `DrainInv`, how the armed drain, the
cause and the migration go together.  The action properties follow from it with the
rotation lemmas, and the refinement from `ChannelInv` and `ReportInv`: an epoch
counts as offered from the send of its forwarder to the report of its end.

**PortForward.** `MappingInv` ties the mapping to `pc`, `PortInv` the published port
to the mapping and the last shown port to the sticky one, and `LostInv` says that a
mapping the rule never heard of is on the port it will ask for again: without it a
repeated request could be answered with another port.  On top of them, `WakeInv`
says that the channel's value is the one asked through, or unseen, while an
answer is awaited; and `LeaseInv`, for a raw datapath, that the exit's mapping, the
answer on its way, the held mapping and the port of its renewals agree.
`PublishedPortStays` assumes `Raw`; the netstack is the run `ForwardMovedPort`.

**Tokens.** `AnswerInv`: a verdict in flight stays true, since the ledger does not
change its mind; without it a batch that arrives late could settle an epoch of
another's.  `CallInv`: a call was made in this epoch or an earlier one, so
what it prunes is past; `StockStays` follows from it action by action.

**Entitlements.** `LeaseInv` ties leases, phases and the table; `HoldInv` says a
credential sent or granted is of the place its slot holds, unless that place was
released under the rule (`torn`).  `TypeOK` keeps places below the quota, so that a
slot's place never falls out of its batch.  Claims and releases come in any order
throughout: the race is part of the specification, `SlotsStayApart` and
`PlacesStayApart` hold with it, and `RulesStayApart` and `RenewalsRepeat` say that
it is the only way to lose a credential.

### Only model-checked

The liveness properties; `OneCopyEach`, `HoldsAreExclusive` and the type invariant of `Tokens`, whose proofs are planned.  Liveness under fairness is
out of the prover's reach.

## Not modelled yet, and the plan

In order:

1. the epoch's close to the listeners: `serve_epoch` draining, the host-route
   watcher and the hand-over, composed with `Supervisor`;
2. the NAT-PMP exchange: retransmission, stray and duplicate replies, the legs of
   a TCP and UDP mapping;
3. the refresh tasks of `warren-sdk/session_tokens.rs` and
   `warren-transport/lease_refresh.rs`, and bonded legs;
4. bolthole: NAT table and port blocks, responder sessions, rate limit, address
   plan; then the device, its epochs and peer provisioning;
5. discovery: freshness, rollback, weighted selection as pure operators; the API
   client's host fallback and clock;
6. `plan_migration`, the egress probe and the migration watchdog, now events;
7. the headless runner's forward watcher and hooks, and the netstack's tables;
8. proofs: types of `Tokens`, `HoldsAreExclusive`, `OneCopyEach` without restore.

Left out for good: cryptography and key derivation (identity, token blinding),
parsing of packets and configuration, device and socket I/O, FFI bindings, and
the tunnel engine, which is outside this repository.
