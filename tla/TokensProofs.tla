---------------------------- MODULE TokensProofs ----------------------------
(***************************************************************************)
(* What a manager settles and holds, for any number of overlapping         *)
(* refreshes, epochs and tokens, with and without a persisted bundle.      *)
(***************************************************************************)
EXTENDS Tokens, SequenceTheorems, TLAPS

\* The types the argument needs.
StockType ==
  /\ now \in Epochs /\ store \in [Epochs -> Seq(Serials)]
  /\ minted \subseteq Epochs /\ elsewhere \subseteq Epochs /\ revoked \in BOOLEAN
  /\ at \in [Refreshes -> Epochs] /\ targets \in [Refreshes -> SUBSET Epochs]
  /\ answer \in [Refreshes -> [epoch : Epochs, verdict : Verdicts] \cup {NoAnswer}]
  /\ ledger \in [Epochs -> {"free", "ours", "other"}]
  /\ bundle \in [Epochs -> Seq(Serials)] \cup {NoBundle}

\* A verdict on its way back is still true when it arrives: the ledger does not
\* change its mind.
AnswerInv ==
  \A r \in Refreshes :
    /\ answer[r].verdict = "batch" => ledger[answer[r].epoch] = "ours"
    /\ answer[r].verdict = "already_issued" => ledger[answer[r].epoch] # "free"

\* A call was made in this epoch or an earlier one.
CallInv == \A r \in Refreshes : at[r] <= now

IndInv == StockType /\ AnswerInv /\ CallInv /\ RevokedHoldsNothing /\ SettledIsDefinitive

\* A batch is a sequence of serials.
LEMMA BatchType == \A m \in Mints, e \in Epochs : Batch(m, e) \in Seq(Serials)
BY TokensAssumption DEF Batch, Serials

\* An empty store.
LEMMA EmptyType == Empty \in [Epochs -> Seq(Serials)] /\ \A e \in Epochs : Empty[e] = <<>>
BY DEF Empty

\* The invariant holds for a fresh manager.
LEMMA InitInv == Init => IndInv
<1> SUFFICES ASSUME Init PROVE IndInv
  OBVIOUS
<1>1. revoked \in BOOLEAN
  BY Zenon DEF Init
<1>2. StockType
  <2>1. ForeignBundle \in [Epochs -> Seq(Serials)]
    BY BatchType DEF ForeignBundle, Mints
  <2>2. bundle \in [Epochs -> Seq(Serials)] \cup {NoBundle}
    BY <2>1 DEF Init
  <2> QED
    BY <1>1, <2>2, EmptyType, TokensAssumption DEF Init, StockType, Epochs, NoAnswer, Verdicts
<1>3. AnswerInv
  BY DEF Init, AnswerInv, NoAnswer
<1>4. CallInv /\ RevokedHoldsNothing /\ SettledIsDefinitive
  BY EmptyType DEF Init, CallInv, RevokedHoldsNothing, SettledIsDefinitive
<1> QED BY <1>2, <1>3, <1>4 DEF IndInv

\* A step of a refresh call preserves it.
LEMMA RefreshInv == ASSUME IndInv, NEW r \in Refreshes, RefreshStep(r) PROVE IndInv'
<1> USE TokensAssumption, EmptyType
    DEF IndInv, manager, refresh, dials, outside
<1>1. CASE StartRefresh(r)
  <2>1. StockType'
    BY <1>1 DEF StartRefresh, StockType
  <2>2. AnswerInv'
    BY <1>1 DEF StartRefresh, StockType, AnswerInv
  <2>3. CallInv'
    BY <1>1 DEF StartRefresh, StockType, CallInv, Epochs
  <2>4. RevokedHoldsNothing'
    BY <1>1 DEF StartRefresh, StockType, RevokedHoldsNothing, Empty
  <2>5. SettledIsDefinitive'
    BY <1>1 DEF StartRefresh, StockType, SettledIsDefinitive, AnswerInv
  <2> QED BY <2>1, <2>2, <2>3, <2>4, <2>5
<1>2. CASE Registered(r)
  <2>1. StockType'
    BY <1>2 DEF Registered, StockType
  <2>2. AnswerInv'
    BY <1>2 DEF Registered, StockType, AnswerInv
  <2>3. CallInv'
    BY <1>2 DEF Registered, StockType, CallInv
  <2>4. RevokedHoldsNothing'
    BY <1>2 DEF Registered, StockType, RevokedHoldsNothing, Empty
  <2>5. SettledIsDefinitive'
    BY <1>2 DEF Registered, StockType, SettledIsDefinitive, AnswerInv
  <2> QED BY <2>1, <2>2, <2>3, <2>4, <2>5
<1>3. CASE RegistrationRevoked(r)
  <2>1. StockType'
    BY <1>3 DEF RegistrationRevoked, Revoke, Finish, NoAnswer, StockType
  <2>2. AnswerInv'
    BY <1>3 DEF RegistrationRevoked, Revoke, Finish, NoAnswer, StockType, AnswerInv
  <2>3. CallInv'
    BY <1>3 DEF RegistrationRevoked, Revoke, Finish, NoAnswer, StockType, CallInv
  <2>4. RevokedHoldsNothing'
    BY <1>3 DEF RegistrationRevoked, Revoke, Finish, NoAnswer, StockType, RevokedHoldsNothing, Empty
  <2>5. SettledIsDefinitive'
    BY <1>3 DEF RegistrationRevoked, Revoke, Finish, NoAnswer, StockType, SettledIsDefinitive, AnswerInv
  <2> QED BY <2>1, <2>2, <2>3, <2>4, <2>5
<1>4. CASE RefreshFails(r)
  <2>1. StockType'
    BY <1>4 DEF RefreshFails, Finish, NoAnswer, StockType
  <2>2. AnswerInv'
    BY <1>4 DEF RefreshFails, Finish, NoAnswer, StockType, AnswerInv
  <2>3. CallInv'
    BY <1>4 DEF RefreshFails, Finish, NoAnswer, StockType, CallInv
  <2>4. RevokedHoldsNothing'
    BY <1>4 DEF RefreshFails, Finish, NoAnswer, StockType, RevokedHoldsNothing, Empty
  <2>5. SettledIsDefinitive'
    BY <1>4 DEF RefreshFails, Finish, NoAnswer, StockType, SettledIsDefinitive, AnswerInv
  <2> QED BY <2>1, <2>2, <2>3, <2>4, <2>5
<1>5. CASE Fetched(r)
  <2>1. StockType'
    BY <1>5 DEF Fetched, StockType
  <2>2. AnswerInv'
    BY <1>5 DEF Fetched, StockType, AnswerInv
  <2>3. CallInv'
    BY <1>5 DEF Fetched, StockType, CallInv
  <2>4. RevokedHoldsNothing'
    BY <1>5 DEF Fetched, StockType, RevokedHoldsNothing, Empty
  <2>5. SettledIsDefinitive'
    BY <1>5 DEF Fetched, StockType, SettledIsDefinitive, AnswerInv
  <2> QED BY <2>1, <2>2, <2>3, <2>4, <2>5
<1>6. CASE \E e \in Epochs : Issue(r, e)
  <2>1. StockType'
    <3>1. PICK e \in Epochs : Issue(r, e)
      BY <1>6
    <3>2. ledger' \in [Epochs -> {"free", "ours", "other"}]
      BY <3>1 DEF Issue, StockType
    <3>3. answer' \in [Refreshes -> [epoch : Epochs, verdict : Verdicts] \cup {NoAnswer}]
      BY <3>1 DEF Issue, StockType
    <3> QED BY <3>1, <3>2, <3>3 DEF Issue, StockType
  <2>2. AnswerInv'
    BY <1>6 DEF Issue, NoAnswer, StockType, AnswerInv
  <2>3. CallInv'
    BY <1>6 DEF Issue, NoAnswer, StockType, CallInv
  <2>4. RevokedHoldsNothing'
    BY <1>6 DEF Issue, NoAnswer, StockType, RevokedHoldsNothing, Empty
  <2>5. SettledIsDefinitive'
    BY <1>6 DEF Issue, NoAnswer, StockType, SettledIsDefinitive, AnswerInv
  <2> QED BY <2>1, <2>2, <2>3, <2>4, <2>5
<1>7. CASE Stock(r)
  <2>0. answer[r].epoch \in Epochs /\ ledger[answer[r].epoch] = "ours"
    BY <1>7 DEF Stock, NoAnswer, StockType, AnswerInv
  <2>1. StockType'
    <3>1. store[answer[r].epoch] \o Batch("own", answer[r].epoch) \in Seq(Serials)
      BY <2>0, BatchType, ConcatProperties DEF StockType, Mints
    <3>2. store' \in [Epochs -> Seq(Serials)] /\ minted' \subseteq Epochs
      <4>1. CASE ~revoked /\ answer[r].epoch \notin minted
        <5>1. /\ minted' = minted \cup {answer[r].epoch}
              /\ store' = [store EXCEPT ![answer[r].epoch] =
                              store[answer[r].epoch] \o Batch("own", answer[r].epoch)]
          BY <1>7, <4>1 DEF Stock
        <5> QED BY <2>0, <3>1, <5>1 DEF StockType
      <4>2. CASE ~(~revoked /\ answer[r].epoch \notin minted)
        BY <1>7, <4>2 DEF Stock, StockType
      <4> QED BY <4>1, <4>2
    <3>3. answer' \in [Refreshes -> [epoch : Epochs, verdict : Verdicts] \cup {NoAnswer}]
      BY <1>7 DEF Stock, NextTarget, StockType
    <3> QED BY <1>7, <3>2, <3>3 DEF Stock, NextTarget, StockType
  <2>2. AnswerInv'
    BY <1>7 DEF Stock, NextTarget, NoAnswer, StockType, AnswerInv
  <2>3. CallInv'
    BY <1>7 DEF Stock, NextTarget, NoAnswer, StockType, CallInv
  <2>4. RevokedHoldsNothing'
    BY <1>7 DEF Stock, NextTarget, NoAnswer, StockType, RevokedHoldsNothing, Empty
  <2>5. SettledIsDefinitive'
    <3>1. ledger' = ledger /\ elsewhere' = elsewhere
      BY <1>7 DEF Stock
    <3>2. CASE ~revoked /\ answer[r].epoch \notin minted
      <4>1. /\ minted' = minted \cup {answer[r].epoch}
            /\ store' = [store EXCEPT ![answer[r].epoch] = @ \o Batch("own", answer[r].epoch)]
        BY <1>7, <3>2 DEF Stock
      <4>2. answer[r].epoch \notin elsewhere
        BY <3>2 DEF SettledIsDefinitive
      <4> QED BY <2>0, <3>1, <4>1, <4>2 DEF SettledIsDefinitive
    <3>3. CASE ~(~revoked /\ answer[r].epoch \notin minted)
      <4>1. minted' = minted /\ store' = store
        BY <1>7, <3>3 DEF Stock
      <4> QED BY <3>1, <4>1 DEF SettledIsDefinitive
    <3> QED BY <3>2, <3>3
  <2> QED BY <2>1, <2>2, <2>3, <2>4, <2>5
<1>8. CASE SettleElsewhere(r)
  <2>1. StockType'
    BY <1>8 DEF SettleElsewhere, NextTarget, NoAnswer, StockType
  <2>2. AnswerInv'
    BY <1>8 DEF SettleElsewhere, NextTarget, NoAnswer, StockType, AnswerInv
  <2>3. CallInv'
    BY <1>8 DEF SettleElsewhere, NextTarget, NoAnswer, StockType, CallInv
  <2>4. RevokedHoldsNothing'
    BY <1>8 DEF SettleElsewhere, NextTarget, NoAnswer, StockType, RevokedHoldsNothing, Empty
  <2>5. SettledIsDefinitive'
    BY <1>8 DEF SettleElsewhere, NextTarget, NoAnswer, StockType, SettledIsDefinitive, AnswerInv
  <2> QED BY <2>1, <2>2, <2>3, <2>4, <2>5
<1>9. CASE SkipEpoch(r)
  <2>1. StockType'
    BY <1>9 DEF SkipEpoch, NextTarget, NoAnswer, StockType
  <2>2. AnswerInv'
    BY <1>9 DEF SkipEpoch, NextTarget, NoAnswer, StockType, AnswerInv
  <2>3. CallInv'
    BY <1>9 DEF SkipEpoch, NextTarget, NoAnswer, StockType, CallInv
  <2>4. RevokedHoldsNothing'
    BY <1>9 DEF SkipEpoch, NextTarget, NoAnswer, StockType, RevokedHoldsNothing, Empty
  <2>5. SettledIsDefinitive'
    BY <1>9 DEF SkipEpoch, NextTarget, NoAnswer, StockType, SettledIsDefinitive, AnswerInv
  <2> QED BY <2>1, <2>2, <2>3, <2>4, <2>5
<1>10. CASE MintRevoked(r)
  <2>1. StockType'
    BY <1>10 DEF MintRevoked, Revoke, Finish, NoAnswer, StockType
  <2>2. AnswerInv'
    BY <1>10 DEF MintRevoked, Revoke, Finish, NoAnswer, StockType, AnswerInv
  <2>3. CallInv'
    BY <1>10 DEF MintRevoked, Revoke, Finish, NoAnswer, StockType, CallInv
  <2>4. RevokedHoldsNothing'
    BY <1>10 DEF MintRevoked, Revoke, Finish, NoAnswer, StockType, RevokedHoldsNothing, Empty
  <2>5. SettledIsDefinitive'
    BY <1>10 DEF MintRevoked, Revoke, Finish, NoAnswer, StockType, SettledIsDefinitive, AnswerInv
  <2> QED BY <2>1, <2>2, <2>3, <2>4, <2>5
<1>11. CASE StopMinting(r)
  <2>1. StockType'
    BY <1>11 DEF StopMinting, Finish, NoAnswer, StockType
  <2>2. AnswerInv'
    BY <1>11 DEF StopMinting, Finish, NoAnswer, StockType, AnswerInv
  <2>3. CallInv'
    BY <1>11 DEF StopMinting, Finish, NoAnswer, StockType, CallInv
  <2>4. RevokedHoldsNothing'
    BY <1>11 DEF StopMinting, Finish, NoAnswer, StockType, RevokedHoldsNothing, Empty
  <2>5. SettledIsDefinitive'
    BY <1>11 DEF StopMinting, Finish, NoAnswer, StockType, SettledIsDefinitive, AnswerInv
  <2> QED BY <2>1, <2>2, <2>3, <2>4, <2>5
<1> QED BY <1>1, <1>2, <1>3, <1>4, <1>5, <1>6, <1>7, <1>8, <1>9, <1>10, <1>11 DEF RefreshStep

\* A step of a dial leaves the manager, the refresh calls and the issuer alone.
LEMMA DialKeeps ==
  ASSUME NEW s \in Sessions, DialStep(s)
  PROVE  UNCHANGED <<manager, refresh, now, ledger, gone, bundle>>
BY DEF DialStep, ReadStack, Claim, SkipToken, TokenRefused, Admitted, FallBack, Close, outside

\* Every step preserves the invariant.
LEMMA StepInv == IndInv /\ [Next]_vars => IndInv'
<1> SUFFICES ASSUME IndInv, [Next]_vars PROVE IndInv'
  OBVIOUS
<1> USE TokensAssumption, EmptyType
    DEF IndInv, StockType, AnswerInv, CallInv, RevokedHoldsNothing, SettledIsDefinitive,
        manager, refresh, dials, outside
<1>1. CASE \E r \in Refreshes : RefreshStep(r)
  BY <1>1, RefreshInv
<1>2. CASE \E s \in Sessions : DialStep(s)
  <2>1. UNCHANGED <<now, store, minted, elsewhere, revoked, at, targets, answer, ledger, bundle>>
    BY <1>2, DialKeeps
  <2> QED BY <2>1
<1>3. CASE Take
  <2>1. store[now] \in Seq(Serials) /\ \A i \in 1 .. Len(store[now]) - 1 : store[now][i] \in Serials
    OBVIOUS
  <2>2. SubSeq(store[now], 1, Len(store[now]) - 1) \in Seq(Serials)
    BY <2>1, SubSeqProperties
  <2> QED BY <1>3, <2>2 DEF Take
<1>4. CASE Export
  BY <1>4 DEF Export
<1>5. CASE Restore
  <2>1. \A e \in Epochs : store[e] \o bundle[e] \in Seq(Serials)
    BY <1>5, ConcatProperties DEF Restore
  <2> QED BY <1>5, <2>1 DEF Restore
<1>6. CASE Crash
  <2>1. revoked' \in BOOLEAN
    BY <1>6, Zenon DEF Crash
  <2>2. 1 \in Epochs /\ 1 <= now
    BY DEF Epochs
  <2> QED BY <1>6, <2>1, <2>2 DEF Crash, NoAnswer
<1>7. CASE DeviceRevoked
  BY <1>7 DEF DeviceRevoked
<1>8. CASE Tick
  <2>1. now' \in Epochs /\ \A r \in Refreshes : at[r] <= now'
    BY <1>8 DEF Tick, Epochs
  <2> QED BY <1>8, <2>1 DEF Tick
<1>9. CASE \E e \in Epochs : IssuedElsewhere(e)
  BY <1>9 DEF IssuedElsewhere
<1>10. CASE UNCHANGED vars
  BY <1>10 DEF vars
<1> QED BY <1>1, <1>2, <1>3, <1>4, <1>5, <1>6, <1>7, <1>8, <1>9, <1>10 DEF Next, HostStep

\* The inductive invariant holds throughout.
LEMMA Invariance == Spec => []IndInv
BY InitInv, StepInv, PTL DEF Spec

\* A revoked device never holds a token again, whatever was in flight.
THEOREM RevocationSticks == Spec => []RevokedHoldsNothing
<1>1. IndInv => RevokedHoldsNothing
  BY DEF IndInv
<1> QED BY <1>1, Invariance, PTL

\* Only a definitive answer settles an epoch: the issuer recorded it, and for this
\* wallet's batch unless it is marked as another's.
THEOREM SettlingIsDefinitive == Spec => []SettledIsDefinitive
<1>1. IndInv => SettledIsDefinitive
  BY DEF IndInv
<1> QED BY <1>1, Invariance, PTL

\* What a step leaves of the stock of an epoch that is not past.
Kept(e) ==
  e >= now /\ ~revoked' /\ process' # "fresh" =>
    \/ Len(store'[e]) >= Len(store[e])
    \/ e = now /\ Len(store'[e]) = Len(store[e]) - 1

\* A step of a refresh call leaves it all.
LEMMA RefreshKeeps ==
  ASSUME IndInv, NEW r \in Refreshes, RefreshStep(r), NEW e \in Epochs
  PROVE  Kept(e)
<1> USE DEF IndInv, manager, refresh, dials, outside
<1>0. store[e] \in Seq(Serials) /\ Len(store[e]) \in Nat
  BY DEF StockType
<1>1. CASE store'[e] = store[e]
  BY <1>0, <1>1 DEF Kept
<1>2. CASE revoked'
  BY <1>2 DEF Kept
<1>3. CASE Fetched(r)
  <2>1. e >= now => ~(e < at[r])
    BY DEF StockType, CallInv, Epochs
  <2>2. e >= now => store'[e] = store[e]
    BY <1>3, <2>1 DEF Fetched, StockType
  <2> QED BY <1>0, <2>2 DEF Kept
<1>4. CASE Stock(r) /\ store' # store
  <2> DEFINE a == answer[r].epoch
  <2>1. a \in Epochs /\ store' = [store EXCEPT ![a] = @ \o Batch("own", a)]
    <3>1. answer[r] \in [epoch : Epochs, verdict : Verdicts] \cup {NoAnswer}
      BY DEF StockType
    <3>2. answer[r].verdict = "batch" /\ NoAnswer.verdict # "batch"
      BY <1>4 DEF Stock, NoAnswer
    <3>3. answer[r].epoch \in Epochs
      BY <3>1, <3>2
    <3>4. ~revoked /\ answer[r].epoch \notin minted
      BY <1>4 DEF Stock
    <3>5. store' = [store EXCEPT ![a] = @ \o Batch("own", a)]
      BY <1>4, <3>4 DEF Stock
    <3> QED BY <3>3, <3>5
  <2>2. store[a] \in Seq(Serials) /\ Batch("own", a) \in Seq(Serials)
    BY <2>1, BatchType DEF StockType, Mints
  <2>3. Len(store[a] \o Batch("own", a)) = Len(store[a]) + Len(Batch("own", a))
    BY <2>2, ConcatProperties
  <2>4. Len(Batch("own", a)) \in Nat
    BY <2>2
  <2>5. CASE a = e
    <3>1. store'[e] = store[e] \o Batch("own", e)
      BY <2>1, <2>5 DEF StockType
    <3> QED BY <1>0, <2>3, <2>4, <2>5, <3>1 DEF Kept
  <2>6. CASE a # e
    BY <1>1, <2>1, <2>6 DEF StockType
  <2> QED BY <2>5, <2>6
<1>5. CASE store' = store
  BY <1>1, <1>5
<1> QED
  BY <1>2, <1>3, <1>4, <1>5
  DEF RefreshStep, StartRefresh, Registered, RegistrationRevoked, RefreshFails, Issue,
      SettleElsewhere, SkipEpoch, MintRevoked, StopMinting, Revoke

\* No step costs the wallet a token of this epoch or a later one, except the one
\* that is taken, a revocation and the end of the process: no slow refresh prunes
\* it, and no refusal clears what was restored.
THEOREM StockStays == Spec => StockIsKept
<1>1. ASSUME IndInv, [Next]_vars, NEW e \in Epochs PROVE Kept(e)
  <2>0. store[e] \in Seq(Serials) /\ Len(store[e]) \in Nat /\ now \in Epochs
    BY <1>1 DEF IndInv, StockType
  <2>1. CASE \E r \in Refreshes : RefreshStep(r)
    BY <1>1, <2>1, RefreshKeeps
  <2>2. CASE Take
    <3>1. CASE e = now
      <4>1. store[e] # <<>> /\ store' = [store EXCEPT ![now] = SubSeq(@, 1, Len(@) - 1)]
        BY <2>2, <3>1 DEF Take
      <4>2. store'[e] = SubSeq(store[e], 1, Len(store[e]) - 1)
        BY <1>1, <3>1, <4>1 DEF IndInv, StockType
      <4>3. Len(store[e]) >= 1
        BY <2>0, <4>1, EmptySeq
      <4>4. Len(store'[e]) = Len(store[e]) - 1
        BY <2>0, <4>2, <4>3, SubSeqProperties
      <4> QED BY <3>1, <4>4 DEF Kept
    <3>2. CASE e # now
      <4>1. store'[e] = store[e]
        BY <1>1, <2>2, <3>2 DEF Take, IndInv, StockType
      <4> QED BY <2>0, <4>1 DEF Kept
    <3> QED BY <3>1, <3>2
  <2>3. CASE Restore
    <3>1. bundle[e] \in Seq(Serials) /\ store'[e] = store[e] \o bundle[e]
      BY <1>1, <2>3 DEF Restore, IndInv, StockType
    <3>2. Len(store'[e]) = Len(store[e]) + Len(bundle[e]) /\ Len(bundle[e]) \in Nat
      BY <2>0, <3>1, ConcatProperties
    <3>3. \A m, n \in Nat : m + n >= m
      OBVIOUS
    <3>4. Len(store'[e]) >= Len(store[e])
      BY <2>0, <3>2, <3>3, Zenon
    <3> QED BY <3>4 DEF Kept
  <2>4. CASE Crash
    BY <2>4 DEF Crash, Kept
  <2>5. CASE store' = store
    BY <2>0, <2>5 DEF Kept
  <2> QED
    BY <1>1, <2>1, <2>2, <2>3, <2>4, <2>5
    DEF Next, HostStep, DialStep, ReadStack, Claim, SkipToken, TokenRefused, Admitted, FallBack,
        Close, Export, DeviceRevoked, Tick, IssuedElsewhere, vars, manager
<1>2. IndInv /\ [Next]_vars =>
        [\A e \in Epochs :
           e >= now /\ ~revoked' /\ process' # "fresh" =>
             \/ Len(store'[e]) >= Len(store[e])
             \/ e = now /\ Len(store'[e]) = Len(store[e]) - 1]_vars
  BY <1>1 DEF Kept
<1> QED BY <1>2, Invariance, PTL DEF Spec, StockIsKept
=============================================================================
