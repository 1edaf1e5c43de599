------------------------------- MODULE Tokens -------------------------------
(***************************************************************************)
(* A wallet's session tokens: TokenManager (warren-api/src/tokens.rs),     *)
(* which mints one batch per epoch and may be refreshed by several calls   *)
(* at once, and the token walk of the dials that draw from it              *)
(* (warren-transport/src/multihop.rs).  The manager's state is guarded by  *)
(* one mutex that no call holds across a request, so a refresh is several  *)
(* steps: register the device, fetch the directory and snapshot what is    *)
(* left to mint, then one request and one answer per epoch.                *)
(*                                                                         *)
(* The issuer records one batch per account and epoch.  Asked again for an *)
(* epoch it recorded, it serves the wallet's batch again or answers        *)
(* already_issued: the code is ready for both.  It is external.  A token   *)
(* is its serial.                                                          *)
(***************************************************************************)
EXTENDS Integers, Sequences

CONSTANTS
  Refreshes,   \* the refresh calls that may overlap
  Sessions,    \* the dials that may be open at once
  LastEpoch,   \* bound: the last epoch
  Window,      \* how many epochs past the current one the issuer publishes
  Horizon,     \* mint_horizon
  BatchSize,   \* tokens per batch
  MaxTokens,   \* MAX_SESSION_TOKENS
  Rotation,    \* where a session stack starts in the batch
  TokensOnly,  \* SessionAdmission::TokensOnly
  Persists     \* the host exports a bundle and restores it after a restart

ASSUME TokensAssumption ==
  /\ LastEpoch \in Nat \ {0} /\ Window \in Nat /\ Horizon \in Nat
  /\ BatchSize \in Nat /\ MaxTokens \in Nat /\ Rotation \in Nat
  /\ TokensOnly \in BOOLEAN /\ Persists \in BOOLEAN

Epochs == 1 .. LastEpoch

\* Who derived a token: this wallet on this build, or somebody else, which is an
\* older release of it that blinds otherwise, or another account.
Mints == {"own", "foreign"}

Serials == [mint : Mints, epoch : Epochs, index : 1 .. BatchSize]
NoSerial == [mint |-> "none", epoch |-> 0, index |-> 0]

\* The batch that mint m derives for epoch e.
Batch(m, e) == [i \in 1 .. BatchSize |-> [mint |-> m, epoch |-> e, index |-> i]]

VARIABLES
  now,        \* the epoch the clock stands in
  \* the manager
  store,      \* the tokens held, by epoch
  known,      \* epoch_secs is known
  minted,     \* the settled epochs
  elsewhere,  \* the settled epochs another batch of the account holds
  revoked,    \* device_revoked
  live,       \* the serials its sessions hold
  \* the refresh calls
  step,       \* where each stands
  at,         \* the epoch each was called in
  targets,    \* the epochs each still has to ask for
  answer,     \* the epoch and verdict on their way back to each
  \* the dials
  dial,       \* where each stands
  stack,      \* the tokens each has left to try, the one it leads with first
  held,       \* the serial each holds
  \* outside
  ledger,     \* the issuer's: whose batch it signed for each epoch
  gone,       \* the account revoked this device
  bundle,     \* the persisted bundle
  process     \* "fresh" until the manager is first used, "restored" from a bundle

manager == <<store, known, minted, elsewhere, revoked>>
refresh == <<step, at, targets, answer>>
dials == <<live, dial, stack, held>>
outside == <<now, ledger, gone, bundle, process>>
vars == <<manager, refresh, dials, outside>>

NoAnswer == [epoch |-> 0, verdict |-> "none"]
Verdicts == {"batch", "already_issued", "revoked", "alike", "failed"}
Empty == [e \in Epochs |-> <<>>]
NoBundle == <<>>
ForeignBundle == [e \in Epochs |-> Batch("foreign", e)]

\* A process may find a bundle that somebody else left.
Init ==
  /\ now = 1
  /\ store = Empty /\ known = FALSE /\ minted = {} /\ elsewhere = {} /\ revoked = FALSE
  /\ live = {}
  /\ step = [r \in Refreshes |-> "idle"] /\ at = [r \in Refreshes |-> 1]
  /\ targets = [r \in Refreshes |-> {}] /\ answer = [r \in Refreshes |-> NoAnswer]
  /\ dial = [s \in Sessions |-> "idle"] /\ stack = [s \in Sessions |-> <<>>]
  /\ held = [s \in Sessions |-> NoSerial]
  /\ ledger = [e \in Epochs |-> "free"] /\ gone = FALSE
  /\ bundle \in IF Persists THEN {NoBundle, ForeignBundle} ELSE {NoBundle}
  /\ process = "fresh"

\* The manager is used: it is too late to restore a bundle.
Used == process' = IF process = "fresh" THEN "running" ELSE process
-----------------------------------------------------------------------------
(***************************************************************************)
(* TokenManager::refresh.                                                  *)
(***************************************************************************)

\* The call starts, unless the device is known to be revoked.
StartRefresh(r) ==
  /\ step[r] = "idle" /\ ~revoked
  /\ step' = [step EXCEPT ![r] = "registering"]
  /\ at' = [at EXCEPT ![r] = now]
  /\ Used
  /\ UNCHANGED <<manager, targets, answer, dials, now, ledger, gone, bundle>>

\* register_device succeeds, or fails in a way left to the issue requests.
Registered(r) ==
  /\ step[r] = "registering"
  /\ step' = [step EXCEPT ![r] = "fetching"]
  /\ UNCHANGED <<manager, at, targets, answer, dials, outside>>

\* The call ends, whatever it returns.
Finish(r) ==
  /\ step' = [step EXCEPT ![r] = "idle"]
  /\ targets' = [targets EXCEPT ![r] = {}]
  /\ answer' = [answer EXCEPT ![r] = NoAnswer]
  /\ UNCHANGED at

\* revoke: sticky, and the stock goes with it.
Revoke ==
  /\ revoked' = TRUE
  /\ store' = Empty
  /\ UNCHANGED <<known, minted, elsewhere>>

\* The registry answers that the device was revoked.
RegistrationRevoked(r) ==
  /\ step[r] = "registering" /\ gone
  /\ Revoke
  /\ Finish(r)
  /\ UNCHANGED <<dials, outside>>

\* The device cap is reached, or the directory cannot be fetched.
RefreshFails(r) ==
  /\ step[r] \in {"registering", "fetching"}
  /\ Finish(r)
  /\ UNCHANGED <<manager, dials, outside>>

\* Mutant: the epoch the call was made in is pruned with the past ones.
Fetched_PrunesOneMore(r) ==
  /\ step[r] = "fetching"
  /\ store' = [e \in Epochs |-> IF e <= at[r] THEN <<>> ELSE store[e]]
  /\ minted' = {e \in minted : e >= at[r]}
  /\ elsewhere' = {e \in elsewhere : e >= at[r]}
  /\ known' = TRUE
  /\ targets' = [targets EXCEPT ![r] =
       {e \in Epochs : /\ now <= e /\ e <= now + Window
                       /\ at[r] <= e /\ e <= at[r] + Horizon /\ e \notin minted}]
  /\ step' = [step EXCEPT ![r] = "minting"]
  /\ UNCHANGED <<revoked, at, answer, dials, outside>>

\* The directory is in: past epochs are pruned and the epochs to mint are
\* snapshot.  "Past" is measured from when the call was made.
Fetched(r) ==
  /\ step[r] = "fetching"
  /\ store' = [e \in Epochs |-> IF e < at[r] THEN <<>> ELSE store[e]]
  /\ minted' = {e \in minted : e >= at[r]}
  /\ elsewhere' = {e \in elsewhere : e >= at[r]}
  /\ known' = TRUE
  /\ targets' = [targets EXCEPT ![r] =
       {e \in Epochs : /\ now <= e /\ e <= now + Window
                       /\ at[r] <= e /\ e <= at[r] + Horizon /\ e \notin minted}]
  /\ step' = [step EXCEPT ![r] = "minting"]
  /\ UNCHANGED <<revoked, at, answer, dials, outside>>

\* One issue request, and the verdict that travels back.  An epoch the issuer
\* recorded is served again, if the batch was this wallet's, or refused as
\* already_issued.  A failure may hide a batch the issuer signed: the answer was
\* lost, not the request.
Issue(r, e) ==
  /\ step[r] = "minting" /\ answer[r] = NoAnswer /\ e \in targets[r]
  /\ \E v \in Verdicts :
       /\ v = "batch" => ledger[e] # "other" /\ ~gone
       /\ v = "already_issued" => ledger[e] # "free"
       /\ v = "revoked" => gone
       /\ answer' = [answer EXCEPT ![r] = [epoch |-> e, verdict |-> v]]
       /\ \/ v # "batch" /\ UNCHANGED ledger
          \/ /\ v \in {"batch", "failed"} /\ ledger[e] # "other" /\ ~gone
             /\ ledger' = [ledger EXCEPT ![e] = "ours"]
  /\ UNCHANGED <<manager, step, at, targets, dials, now, gone, bundle, process>>

\* The call goes on to its next epoch.
NextTarget(r) ==
  /\ targets' = [targets EXCEPT ![r] = @ \ {answer[r].epoch}]
  /\ answer' = [answer EXCEPT ![r] = NoAnswer]
  /\ UNCHANGED <<step, at>>

\* Mutant: the epoch after the minted one is settled.
Stock_OffByOne(r) ==
  LET e == answer[r].epoch IN
  /\ answer[r].verdict = "batch"
  /\ IF ~revoked /\ e \notin minted
     THEN /\ minted' = minted \cup {e + 1}
          /\ store' = [store EXCEPT ![e] = @ \o Batch("own", e)]
     ELSE UNCHANGED <<minted, store>>
  /\ NextTarget(r)
  /\ UNCHANGED <<known, elsewhere, revoked, dials, outside>>

\* Mutant: a batch in flight outlives the revocation.
Stock_AfterRevoke(r) ==
  LET e == answer[r].epoch IN
  /\ answer[r].verdict = "batch"
  /\ IF e \notin minted
     THEN /\ minted' = minted \cup {e}
          /\ store' = [store EXCEPT ![e] = @ \o Batch("own", e)]
     ELSE UNCHANGED <<minted, store>>
  /\ NextTarget(r)
  /\ UNCHANGED <<known, elsewhere, revoked, dials, outside>>

\* Mutant: every overlapping refresh stocks the batch.
Stock_Twice(r) ==
  LET e == answer[r].epoch IN
  /\ answer[r].verdict = "batch"
  /\ IF ~revoked
     THEN /\ minted' = minted \cup {e}
          /\ store' = [store EXCEPT ![e] = @ \o Batch("own", e)]
     ELSE UNCHANGED <<minted, store>>
  /\ NextTarget(r)
  /\ UNCHANGED <<known, elsewhere, revoked, dials, outside>>

\* A batch is stocked unless the epoch was settled, or the device revoked, while
\* it was in flight.
Stock(r) ==
  LET e == answer[r].epoch IN
  /\ answer[r].verdict = "batch"
  /\ IF ~revoked /\ e \notin minted
     THEN /\ minted' = minted \cup {e}
          /\ store' = [store EXCEPT ![e] = @ \o Batch("own", e)]
     ELSE UNCHANGED <<minted, store>>
  /\ NextTarget(r)
  /\ UNCHANGED <<known, elsewhere, revoked, dials, outside>>

\* The account's epoch is recorded as another batch's: settled, never re-asked, and
\* what was restored of it stays.
SettleElsewhere(r) ==
  LET e == answer[r].epoch IN
  /\ answer[r].verdict = "already_issued"
  /\ minted' = minted \cup {e}
  /\ elsewhere' = elsewhere \cup {e}
  /\ NextTarget(r)
  /\ UNCHANGED <<store, known, revoked, dials, outside>>

\* Mutant: a transient failure settles the epoch.
SkipEpoch_Settles(r) ==
  /\ answer[r].verdict = "failed"
  /\ NextTarget(r)
  /\ minted' = minted \cup {answer[r].epoch}
  /\ UNCHANGED <<store, known, elsewhere, revoked, dials, outside>>

\* A failure that proves nothing leaves the epoch to the next call.
SkipEpoch(r) ==
  /\ answer[r].verdict = "failed"
  /\ NextTarget(r)
  /\ UNCHANGED <<manager, dials, outside>>

MintRevoked(r) ==
  /\ answer[r].verdict = "revoked"
  /\ Revoke
  /\ Finish(r)
  /\ UNCHANGED <<dials, outside>>

\* A verdict every later epoch would get too ends the call, as does the last epoch.
StopMinting(r) ==
  /\ \/ answer[r].verdict = "alike"
     \/ step[r] = "minting" /\ targets[r] = {}
  /\ Finish(r)
  /\ UNCHANGED <<manager, dials, outside>>
-----------------------------------------------------------------------------
(***************************************************************************)
(* The dials: MultihopClientTunnel::connect_admitted.                      *)
(***************************************************************************)

\* session_stack: the current epoch's tokens from the rotation on, without the
\* ones live sessions hold.
SessionStack ==
  LET all == store[now]
      n == Len(all)
      rotated == [i \in 1 .. n |-> all[1 + ((i - 1 + Rotation) % n)]]
      Free(t) == t \notin live
  IN  IF known THEN SelectSeq(rotated, Free) ELSE <<>>

\* The dial walks at most MaxTokens of them.
ReadStack(s) ==
  LET n == Len(SessionStack) IN
  /\ dial[s] = "idle"
  /\ stack' = [stack EXCEPT ![s] = SubSeq(SessionStack, 1, IF n < MaxTokens THEN n ELSE MaxTokens)]
  /\ dial' = [dial EXCEPT ![s] = "walking"]
  /\ Used
  /\ UNCHANGED <<manager, refresh, live, held, now, ledger, gone, bundle>>

\* Mutant: a serial another session took meanwhile is presented.
Claim_Unchecked(s) ==
  /\ dial[s] = "walking" /\ stack[s] # <<>>
  /\ live' = live \cup {Head(stack[s])}
  /\ held' = [held EXCEPT ![s] = Head(stack[s])]
  /\ dial' = [dial EXCEPT ![s] = "asking"]
  /\ UNCHANGED <<manager, refresh, stack, outside>>

\* claim: the token the dial leads with is held, and presented.
Claim(s) ==
  /\ dial[s] = "walking" /\ stack[s] # <<>> /\ Head(stack[s]) \notin live
  /\ live' = live \cup {Head(stack[s])}
  /\ held' = [held EXCEPT ![s] = Head(stack[s])]
  /\ dial' = [dial EXCEPT ![s] = "asking"]
  /\ UNCHANGED <<manager, refresh, stack, outside>>

\* Another session took it since the stack was read.
SkipToken(s) ==
  /\ dial[s] = "walking" /\ stack[s] # <<>> /\ Head(stack[s]) \in live
  /\ stack' = [stack EXCEPT ![s] = Tail(@)]
  /\ UNCHANGED <<manager, refresh, live, dial, held, outside>>

\* Held::drop.
Release(s) ==
  /\ live' = live \ {held[s]}
  /\ held' = [held EXCEPT ![s] = NoSerial]

\* The exit refuses the token, which spends nothing: the walk goes on.
TokenRefused(s) ==
  /\ dial[s] = "asking"
  /\ Release(s)
  /\ stack' = [stack EXCEPT ![s] = Tail(@)]
  /\ dial' = [dial EXCEPT ![s] = "walking"]
  /\ UNCHANGED <<manager, refresh, outside>>

\* The exit admits the session on the token.
Admitted(s) ==
  /\ dial[s] = "asking"
  /\ dial' = [dial EXCEPT ![s] = "anonymous"]
  /\ stack' = [stack EXCEPT ![s] = <<>>]
  /\ UNCHANGED <<manager, refresh, live, held, outside>>

\* The stack is exhausted: the wallet-signed request, where the policy allows it.
FallBack(s) ==
  /\ dial[s] = "walking" /\ stack[s] = <<>> /\ ~TokensOnly
  /\ dial' = [dial EXCEPT ![s] = "wallet"]
  /\ UNCHANGED <<manager, refresh, live, stack, held, outside>>

\* The dial fails otherwise, runs out of tokens, or the session ends.
Close(s) ==
  /\ dial[s] \in {"asking", "anonymous", "wallet"} \/ (dial[s] = "walking" /\ stack[s] = <<>>)
  /\ Release(s)
  /\ stack' = [stack EXCEPT ![s] = <<>>]
  /\ dial' = [dial EXCEPT ![s] = "idle"]
  /\ UNCHANGED <<manager, refresh, outside>>
-----------------------------------------------------------------------------
(***************************************************************************)
(* The host, the account and the clock.                                    *)
(***************************************************************************)

\* take_current_stack pops the newest token of the current epoch.
Take ==
  /\ known /\ store[now] # <<>>
  /\ store' = [store EXCEPT ![now] = SubSeq(@, 1, Len(@) - 1)]
  /\ UNCHANGED <<known, minted, elsewhere, revoked, refresh, dials, outside>>

Export ==
  /\ Persists /\ known
  /\ bundle' = store
  /\ UNCHANGED <<manager, refresh, dials, now, ledger, gone, process>>

\* restore_persisted, as a replacement process starts: the tokens go in, no epoch is
\* settled.
Restore ==
  /\ bundle # NoBundle /\ process = "fresh" /\ ~revoked
  /\ store' = [e \in Epochs |-> store[e] \o bundle[e]]
  /\ known' = TRUE
  /\ process' = "restored"
  /\ UNCHANGED <<minted, elsewhere, revoked, refresh, dials, now, ledger, gone, bundle>>

\* The process dies and starts again: only the bundle survives.  Bound: a process
\* that restored a bundle is the last one.
Crash ==
  /\ process # "restored"
  /\ store' = Empty /\ known' = FALSE /\ minted' = {} /\ elsewhere' = {} /\ revoked' = FALSE
  /\ live' = {}
  /\ step' = [r \in Refreshes |-> "idle"] /\ at' = [r \in Refreshes |-> 1]
  /\ targets' = [r \in Refreshes |-> {}] /\ answer' = [r \in Refreshes |-> NoAnswer]
  /\ dial' = [s \in Sessions |-> "idle"] /\ stack' = [s \in Sessions |-> <<>>]
  /\ held' = [s \in Sessions |-> NoSerial]
  /\ process' = "fresh"
  /\ UNCHANGED <<now, ledger, gone, bundle>>

\* Another client of the wallet, on a build that blinds otherwise, is served first.
IssuedElsewhere(e) ==
  /\ ledger[e] = "free"
  /\ ledger' = [ledger EXCEPT ![e] = "other"]
  /\ UNCHANGED <<manager, refresh, dials, now, gone, bundle, process>>

\* Another device of the account revokes this one.
DeviceRevoked ==
  /\ gone' = TRUE
  /\ UNCHANGED <<manager, refresh, dials, now, ledger, bundle, process>>

Tick ==
  /\ now < LastEpoch
  /\ now' = now + 1
  /\ UNCHANGED <<manager, refresh, dials, ledger, gone, bundle, process>>
-----------------------------------------------------------------------------
RefreshStep(r) ==
  \/ StartRefresh(r) \/ Registered(r) \/ RegistrationRevoked(r) \/ RefreshFails(r)
  \/ Fetched(r) \/ (\E e \in Epochs : Issue(r, e)) \/ Stock(r) \/ SettleElsewhere(r)
  \/ SkipEpoch(r) \/ MintRevoked(r) \/ StopMinting(r)

DialStep(s) ==
  \/ ReadStack(s) \/ Claim(s) \/ SkipToken(s) \/ TokenRefused(s) \/ Admitted(s)
  \/ FallBack(s) \/ Close(s)

HostStep == Take \/ Export \/ Restore \/ Crash \/ DeviceRevoked \/ Tick
            \/ (\E e \in Epochs : IssuedElsewhere(e))

Next == (\E r \in Refreshes : RefreshStep(r)) \/ (\E s \in Sessions : DialStep(s)) \/ HostStep

Spec == Init /\ [][Next]_vars
-----------------------------------------------------------------------------
(***************************************************************************)
(* What the tokens promise.                                                *)
(***************************************************************************)

\* Types.
TypeOK ==
  /\ now \in Epochs /\ store \in [Epochs -> Seq(Serials)] /\ known \in BOOLEAN
  /\ minted \subseteq Epochs /\ elsewhere \subseteq Epochs /\ revoked \in BOOLEAN
  /\ live \subseteq Serials
  /\ step \in [Refreshes -> {"idle", "registering", "fetching", "minting"}]
  /\ at \in [Refreshes -> Epochs] /\ targets \in [Refreshes -> SUBSET Epochs]
  /\ answer \in [Refreshes -> [epoch : Epochs, verdict : Verdicts] \cup {NoAnswer}]
  /\ dial \in [Sessions -> {"idle", "walking", "asking", "anonymous", "wallet"}]
  /\ stack \in [Sessions -> Seq(Serials)]
  /\ held \in [Sessions -> Serials \cup {NoSerial}]
  /\ ledger \in [Epochs -> {"free", "ours", "other"}] /\ gone \in BOOLEAN
  /\ bundle \in [Epochs -> Seq(Serials)] \cup {NoBundle}
  /\ process \in {"fresh", "running", "restored"}

\* A revoked device holds nothing: no batch that was in flight, and no bundle,
\* puts a token back.
RevokedHoldsNothing == revoked => store = Empty

\* An epoch is settled only by an answer that is definitive: the issuer recorded it
\* for the account, and, unless the epoch is marked as another batch's, for the batch
\* this wallet derives.  A transient failure never costs the wallet an epoch, and an
\* epoch that is asked for no more is never one the issuer would still sign.
SettledIsDefinitive ==
  /\ elsewhere \subseteq minted
  /\ \A e \in minted : ledger[e] # "free" /\ (e \notin elsewhere => ledger[e] = "ours")

\* No refresh costs the wallet a token it can still spend, however slow the call was
\* and whatever it is answered: of the current and the later epochs the stock only
\* grows, whether minted or restored ("must settle the epoch without clearing the
\* restored tokens"), until a token is taken, the device is revoked or the process
\* ends.
StockIsKept ==
  [][\A e \in Epochs :
       e >= now /\ ~revoked' /\ process' # "fresh" =>
         \/ Len(store'[e]) >= Len(store[e])
         \/ e = now /\ Len(store'[e]) = Len(store[e]) - 1]_vars

Injective(seq) == \A i, j \in DOMAIN seq : seq[i] = seq[j] => i = j

\* Overlapping refreshes are served the same batch; the store never holds a
\* serial twice, so neither does the stack a dial walks ("stocking it twice would
\* hold every serial twice").  It fails once a process restored the bundle of
\* its predecessor: the epoch is not settled, and when the issuer serves the batch
\* again it is stocked beside the restored copies.
OneCopyEach ==
  /\ \A e \in Epochs : Injective(store[e])
  /\ \A s \in Sessions : Injective(stack[s])

\* Two sessions of the process never present the same serial, and every serial kept
\* out of the stacks is held by a session that will release it.
HoldsAreExclusive ==
  /\ \A s, t \in Sessions : held[s] = held[t] /\ held[s] # NoSerial => s = t
  /\ live = {held[s] : s \in Sessions} \ {NoSerial}
=============================================================================
