------------------------- MODULE EntitlementsProofs -------------------------
(***************************************************************************)
(* Slots and places stay apart for any number of rules, slots, entitlements*)
(* and epochs.  Two rules never draw the same credential, and a renewal    *)
(* repeats its own, unless the late half of another lease's drop released  *)
(* the place of a rule under it: that race is the one way to break it.     *)
(***************************************************************************)
EXTENDS Entitlements, LeastNumber

\* Leases: live rules hold the slots of the table, each its own; a rule that drops its
\* lease still knows its slot.
LeaseInv ==
  /\ SlotsApart
  /\ \A r \in Rules : phase[r] # "none" => lease[r] \in Slots

\* A credential in use is the one of the place its slot holds, unless that was
\* released under it.
HoldInv ==
  \A r \in Rules :
    /\ granted[r] # NoCredential => phase[r] \in {"asking", "sent", "mapped"}
    /\ r \notin torn =>
         /\ granted[r] # NoCredential => places[lease[r]] = granted[r].place
         /\ phase[r] \in {"sent", "mapped"} /\ presented[r] # NoCredential =>
              places[lease[r]] = presented[r].place

IndInv ==
  /\ TypeOK
  /\ LeaseInv
  /\ PlacesApart
  /\ HoldInv
  /\ \A r \in Rules : phase[r] = "asking" => seen[r] # Unread

\* The lowest of a nonempty set of places is one of them.
LEMMA LowestIn ==
  ASSUME NEW S, S \subseteq Nat, S # {}
  PROVE  Lowest(S) \in S
BY Minimum DEF Lowest

\* place_of gives a slot no place that another slot holds, keeps the one it holds
\* while it lies in the batch, and presents what it keeps.
LEMMA PlaceOfApart ==
  ASSUME TypeOK, NEW n \in Slots, NEW k \in {0, quota}, NEW bad \in SUBSET Places
  PROVE  LET out == PlaceOf(n, k, bad) IN
         /\ out.place \in Places \cup {None} /\ out.kept \in Places \cup {None}
         /\ out.refused \subseteq Places
         /\ out.kept \in Held(n) => out.kept \in {places[n], None}
         /\ out.place # None => out.kept = out.place
         /\ places[n] # None => out.kept = places[n]
         /\ out.kept < quota
<1> DEFINE free == Inside(k) \ Held(n)
           untried == free \ bad
           fresh == FreshPlace(n, k, bad)
<1>0. free \subseteq Places /\ Places \subseteq Nat /\ None \notin Places
  BY EntitlementsAssumption DEF Inside, Places, None
<1>1. fresh.place \in free \cup {None} /\ fresh.refused \subseteq Places
  <2>1. CASE n \in untried
    BY <2>1 DEF FreshPlace
  <2>2. CASE n \notin untried /\ untried # {}
    <3>1. Lowest(untried) \in untried
      BY <1>0, <2>2, LowestIn
    <3>2. fresh = [place |-> Lowest(untried), refused |-> bad]
      BY <2>2 DEF FreshPlace
    <3> QED BY <3>1, <3>2
  <2>3. CASE untried = {} /\ free # {}
    <3>1. Lowest(free) \in free
      BY <1>0, <2>3, LowestIn
    <3>2. fresh = [place |-> Lowest(free), refused |-> {}]
      BY <2>3 DEF FreshPlace
    <3> QED BY <3>1, <3>2
  <2>4. CASE free = {}
    <3>1. fresh = [place |-> None, refused |-> bad]
      BY <2>4 DEF FreshPlace
    <3> QED BY <3>1
  <2> QED BY <2>1, <2>2, <2>3, <2>4
<1>2. places[n] \in Places \cup {None} /\ places[n] < quota /\ quota \in Nat \ {0}
  BY EntitlementsAssumption DEF TypeOK
<1>3. k # 0 => (places[n] \in Inside(k) <=> places[n] # None)
  BY <1>0, <1>2, EntitlementsAssumption DEF Inside, Places, None
<1>a. k # 0 => fresh.place < quota
  BY <1>1, <1>2, EntitlementsAssumption DEF Inside, Places, None
<1> HIDE DEF fresh
<1>4. CASE k = 0
  BY <1>4, <1>2 DEF PlaceOf
<1>5. CASE k # 0 /\ places[n] # None
  BY <1>5, <1>3, <1>2 DEF PlaceOf
<1>6. CASE k # 0 /\ places[n] = None
  <2>1. PlaceOf(n, k, bad) = [place |-> fresh.place, kept |-> fresh.place, refused |-> fresh.refused]
    BY <1>6, <1>3 DEF PlaceOf, fresh
  <2> QED BY <2>1, <1>0, <1>1, <1>6, <1>a
<1> QED BY <1>4, <1>5, <1>6

\* The invariant holds before the first rule.
LEMMA InitInv == Init => IndInv
<1> SUFFICES ASSUME Init PROVE IndInv
  OBVIOUS
<1>1. revoked \in BOOLEAN
  BY Zenon DEF Init
<1>2. TypeOK
  BY <1>1, EntitlementsAssumption
  DEF Init, TypeOK, Epochs, Slots, Places, None, Phases, Unread, NoCredential
<1>3. LeaseInv
  BY DEF Init, LeaseInv, SlotsApart, Live
<1>4. PlacesApart /\ HoldInv /\ \A r \in Rules : phase[r] = "asking" => seen[r] # Unread
  BY DEF Init, PlacesApart, HoldInv
<1> QED BY <1>2, <1>3, <1>4 DEF IndInv

\* A step of a rule preserves the invariant.
LEMMA RuleInv == ASSUME IndInv, NEW r \in Rules, RuleStep(r) PROVE IndInv'
<1> USE EntitlementsAssumption DEF IndInv, batch, mint, assigned, rules
<1>1. CASE Claim(r)
  <2>1. TypeOK'
    BY <1>1 DEF Claim, TypeOK, Phases, Unread, NoCredential, Credentials, None
  <2>2. LeaseInv'
    BY <1>1 DEF Claim, TypeOK, LeaseInv, SlotsApart, Live
  <2>3. PlacesApart'
    BY <1>1 DEF Claim, TypeOK, PlacesApart
  <2>4. HoldInv'
    BY <1>1 DEF Claim, TypeOK, LeaseInv, SlotsApart, Live, HoldInv
  <2>5. (\A q \in Rules : phase[q] = "asking" => seen[q] # Unread)'
    BY <1>1 DEF Claim, TypeOK, Unread
  <2> QED BY <2>1, <2>2, <2>3, <2>4, <2>5
<1>2. CASE EnsureRefreshing(r)
  <2>1. TypeOK'
    BY <1>2 DEF EnsureRefreshing, TypeOK, Phases, Unread, NoCredential, Credentials, None
  <2>2. LeaseInv'
    BY <1>2 DEF EnsureRefreshing, TypeOK, LeaseInv, SlotsApart, Live
  <2>3. PlacesApart'
    BY <1>2 DEF EnsureRefreshing, TypeOK, PlacesApart
  <2>4. HoldInv'
    BY <1>2 DEF EnsureRefreshing, TypeOK, LeaseInv, SlotsApart, Live, HoldInv
  <2>5. (\A q \in Rules : phase[q] = "asking" => seen[q] # Unread)'
    BY <1>2 DEF EnsureRefreshing, TypeOK, Unread
  <2> QED BY <2>1, <2>2, <2>3, <2>4, <2>5
<1>3. CASE ReadStock(r)
  <2>1. TypeOK'
    BY <1>3 DEF ReadStock, TypeOK, Phases, Unread, NoCredential, Credentials, None
  <2>2. LeaseInv'
    BY <1>3 DEF ReadStock, TypeOK, LeaseInv, SlotsApart, Live
  <2>3. PlacesApart'
    BY <1>3 DEF ReadStock, TypeOK, PlacesApart
  <2>4. HoldInv'
    BY <1>3 DEF ReadStock, TypeOK, LeaseInv, SlotsApart, Live, HoldInv
  <2>5. (\A q \in Rules : phase[q] = "asking" => seen[q] # Unread)'
    BY <1>3 DEF ReadStock, TypeOK, Unread, Epochs
  <2> QED BY <2>1, <2>2, <2>3, <2>4, <2>5
<1>4. CASE Present(r)
  <2> DEFINE e == seen[r].epoch
             n == lease[r]
             out == PlaceOf(n, seen[r].stock, Enter(e))
  <2>0. n \in Slots /\ e \in Epochs /\ seen[r].stock \in {0, quota} /\ Enter(e) \subseteq Places
    BY <1>4 DEF Present, TypeOK, LeaseInv, Enter
  <2>a. /\ out.place \in Places \cup {None} /\ out.kept \in Places \cup {None}
        /\ out.refused \subseteq Places
        /\ out.kept \in Held(n) => out.kept \in {places[n], None}
        /\ out.place # None => out.kept = out.place
        /\ places[n] # None => out.kept = places[n]
        /\ out.kept < quota
    BY <2>0, PlaceOfApart
  <2>b. /\ entered' = e /\ refused' = out.refused
        /\ places' = [places EXCEPT ![n] = out.kept]
        /\ presented' = [presented EXCEPT ![r] =
             IF out.place # None /\ out.place < stock[e]
             THEN [epoch |-> e, place |-> out.place] ELSE NoCredential]
        /\ seen' = [seen EXCEPT ![r] = Unread]
        /\ phase' = [phase EXCEPT ![r] = "sent"]
        /\ phase[r] = "asking"
        /\ UNCHANGED <<batch, slots, lease, granted, torn>>
    BY <1>4 DEF Present
  <2> HIDE DEF out
  <2>1. TypeOK'
    BY <2>0, <2>a, <2>b DEF TypeOK, Phases, Credentials
  <2>2. LeaseInv'
    BY <2>b DEF TypeOK, LeaseInv, SlotsApart, Live
  <2>3. PlacesApart'
    BY <2>0, <2>a, <2>b DEF TypeOK, PlacesApart, Held
  <2>4. HoldInv'
    <3> SUFFICES ASSUME NEW q \in Rules
                 PROVE  /\ granted'[q] # NoCredential => phase'[q] \in {"asking", "sent", "mapped"}
                        /\ q \notin torn' =>
                             /\ granted'[q] # NoCredential => places'[lease'[q]] = granted'[q].place
                             /\ phase'[q] \in {"sent", "mapped"} /\ presented'[q] # NoCredential =>
                                  places'[lease'[q]] = presented'[q].place
      BY DEF HoldInv
    <3>1. CASE q = r
      <4>1. granted[r] # NoCredential => granted[r].place \in Places
        BY DEF TypeOK, Credentials
      <4>2. None \notin Places
        BY DEF None, Places
      <4> QED BY <2>0, <2>a, <2>b, <3>1, <4>1, <4>2 DEF TypeOK, HoldInv, NoCredential
    <3>2. CASE q # r
      <4>1. Live(q) => lease[q] # n /\ lease[q] \in Slots
        BY <2>b, <3>2 DEF LeaseInv, SlotsApart, Live
      <4> QED BY <2>0, <2>b, <3>2, <4>1 DEF TypeOK, HoldInv, Live
    <3> QED BY <3>1, <3>2
  <2>5. (\A q \in Rules : phase[q] = "asking" => seen[q] # Unread)'
    BY <2>b DEF TypeOK
  <2> QED BY <2>1, <2>2, <2>3, <2>4, <2>5
<1>5. CASE Granted(r)
  <2>1. TypeOK'
    BY <1>5 DEF Granted, TypeOK, Phases, Unread, NoCredential, Credentials, None
  <2>2. LeaseInv'
    BY <1>5 DEF Granted, TypeOK, LeaseInv, SlotsApart, Live
  <2>3. PlacesApart'
    BY <1>5 DEF Granted, TypeOK, PlacesApart
  <2>4. HoldInv'
    BY <1>5 DEF Granted, TypeOK, LeaseInv, SlotsApart, Live, HoldInv
  <2>5. (\A q \in Rules : phase[q] = "asking" => seen[q] # Unread)'
    BY <1>5 DEF Granted, TypeOK, Unread
  <2> QED BY <2>1, <2>2, <2>3, <2>4, <2>5
<1>6. CASE Refused(r)
  <2>1. TypeOK'
    <3>1. Enter(now) \subseteq Places
      BY DEF Enter, TypeOK
    <3>2. entered' \in Epochs \cup {0} /\ refused' \subseteq Places
      BY <1>6, <3>1 DEF Refused, StillPresents, TypeOK, LeaseInv
    <3>3. places' \in [Slots -> Places \cup {None}]
      BY <1>6 DEF Refused, StillPresents, TypeOK
    <3>4. quota' = quota /\ \A m \in Slots : places'[m] < quota
      BY <1>6 DEF Refused, TypeOK, None
    <3>5. UNCHANGED <<batch, slots, lease, seen, presented, granted>>
      BY <1>6 DEF Refused
    <3>6. phase' \in [Rules -> Phases] /\ torn' \subseteq Rules
      BY <1>6 DEF Refused, TypeOK, Phases
    <3> QED BY <3>2, <3>3, <3>4, <3>5, <3>6 DEF TypeOK
  <2>2. LeaseInv'
    BY <1>6 DEF Refused, StillPresents, TypeOK, LeaseInv, SlotsApart, Live
  <2>3. PlacesApart'
    BY <1>6 DEF Refused, StillPresents, TypeOK, PlacesApart
  <2>4. HoldInv'
    BY <1>6 DEF Refused, StillPresents, TypeOK, LeaseInv, SlotsApart, Live, HoldInv
  <2>5. (\A q \in Rules : phase[q] = "asking" => seen[q] # Unread)'
    BY <1>6 DEF Refused, StillPresents, TypeOK, Unread
  <2> QED BY <2>1, <2>2, <2>3, <2>4, <2>5
<1>7. CASE Remap(r)
  <2>1. TypeOK'
    BY <1>7 DEF Remap, TypeOK, Phases, Unread, NoCredential, Credentials, None
  <2>2. LeaseInv'
    BY <1>7 DEF Remap, TypeOK, LeaseInv, SlotsApart, Live
  <2>3. PlacesApart'
    BY <1>7 DEF Remap, TypeOK, PlacesApart
  <2>4. HoldInv'
    BY <1>7 DEF Remap, TypeOK, LeaseInv, SlotsApart, Live, HoldInv
  <2>5. (\A q \in Rules : phase[q] = "asking" => seen[q] # Unread)'
    BY <1>7 DEF Remap, TypeOK, Unread
  <2> QED BY <2>1, <2>2, <2>3, <2>4, <2>5
<1>8. CASE DropSlot(r)
  <2>1. TypeOK'
    BY <1>8 DEF DropSlot, TypeOK, Phases, Unread, NoCredential, Credentials, None
  <2>2. LeaseInv'
    BY <1>8 DEF DropSlot, TypeOK, LeaseInv, SlotsApart, Live
  <2>3. PlacesApart'
    BY <1>8 DEF DropSlot, TypeOK, PlacesApart
  <2>4. HoldInv'
    BY <1>8 DEF DropSlot, TypeOK, LeaseInv, SlotsApart, Live, HoldInv
  <2>5. (\A q \in Rules : phase[q] = "asking" => seen[q] # Unread)'
    BY <1>8 DEF DropSlot, TypeOK, Unread
  <2> QED BY <2>1, <2>2, <2>3, <2>4, <2>5
<1>9. CASE ReleasePlace(r)
  <2>1. TypeOK'
    <3>1. places' \in [Slots -> Places \cup {None}]
      BY <1>9 DEF ReleasePlace, TypeOK
    <3>2. quota' = quota /\ \A m \in Slots : places'[m] < quota
      BY <1>9 DEF ReleasePlace, TypeOK, None
    <3> QED BY <1>9, <3>1, <3>2 DEF ReleasePlace, TypeOK, Phases
  <2>2. LeaseInv'
    BY <1>9 DEF ReleasePlace, TypeOK, LeaseInv, SlotsApart, Live
  <2>3. PlacesApart'
    BY <1>9 DEF ReleasePlace, TypeOK, PlacesApart
  <2>4. HoldInv'
    BY <1>9 DEF ReleasePlace, TypeOK, LeaseInv, SlotsApart, Live, InUse, HoldInv
  <2>5. (\A q \in Rules : phase[q] = "asking" => seen[q] # Unread)'
    BY <1>9 DEF ReleasePlace, TypeOK, Unread
  <2> QED BY <2>1, <2>2, <2>3, <2>4, <2>5
<1> QED BY <1>1, <1>2, <1>3, <1>4, <1>5, <1>6, <1>7, <1>8, <1>9 DEF RuleStep

\* Every step preserves the invariant.
LEMMA StepInv == IndInv /\ [Next]_vars => IndInv'
<1> SUFFICES ASSUME IndInv, [Next]_vars PROVE IndInv'
  OBVIOUS
<1> USE EntitlementsAssumption
    DEF IndInv, TypeOK, LeaseInv, SlotsApart, Live, PlacesApart, HoldInv, mint, assigned, rules
<1>1. CASE \E r \in Rules : RuleStep(r)
  BY <1>1, RuleInv
<1>2. CASE CallRefresh
  BY <1>2 DEF CallRefresh
<1>3. CASE FetchDirectory
  BY <1>3 DEF FetchDirectory
<1>4. CASE MintEpoch
  BY <1>4 DEF MintEpoch
<1>5. CASE SkipEpoch
  BY <1>5 DEF SkipEpoch
<1>6. CASE RefreshEnds
  BY <1>6 DEF RefreshEnds
<1>7. CASE RefreshFails
  BY <1>7 DEF RefreshFails
<1>8. CASE RefreshRevoked
  BY <1>8 DEF RefreshRevoked
<1>9. CASE RefreshDue
  BY <1>9 DEF RefreshDue
<1>10. CASE RefreshReturns
  BY <1>10 DEF RefreshReturns
<1>11. CASE Tick
  BY <1>11 DEF Tick, Epochs
<1>12. CASE UNCHANGED vars
  <2>1. UNCHANGED <<now, quota, stock, revoked, issuance, task, called, due, slots, places,
                    entered, refused, phase, lease, seen, presented, granted, torn>>
    BY <1>12 DEF vars, batch
  <2>2. TypeOK'
    BY <2>1
  <2>3. LeaseInv' /\ PlacesApart'
    BY <2>1
  <2> QED BY <2>1, <2>2, <2>3
<1> QED
  BY <1>1, <1>2, <1>3, <1>4, <1>5, <1>6, <1>7, <1>8, <1>9, <1>10, <1>11, <1>12 DEF Next

\* The inductive invariant holds throughout.
LEMMA Invariance == Spec => []IndInv
BY InitInv, StepInv, PTL DEF Spec

\* Type correctness.
THEOREM TypeCorrect == Spec => []TypeOK
<1>1. IndInv => TypeOK
  BY DEF IndInv
<1> QED BY <1>1, Invariance, PTL

\* Live rules hold slots of their own, and the table holds exactly those, with or
\* without the race.
THEOREM SlotsStayApart == Spec => []SlotsApart
<1>1. IndInv => SlotsApart
  BY DEF IndInv, LeaseInv
<1> QED BY <1>1, Invariance, PTL

\* No two slots hold one place of the batch, with or without the race.
THEOREM PlacesStayApart == Spec => []PlacesApart
<1>1. IndInv => PlacesApart
  BY DEF IndInv
<1> QED BY <1>1, Invariance, PTL

\* Two rules draw the same credential only after the late half of a drop released the
\* place of one of them under it.
THEOREM RulesStayApart == Spec => []ApartUnlessTorn
<1>1. IndInv => ApartUnlessTorn
  <2> SUFFICES ASSUME IndInv, NEW r \in Rules \ torn, NEW q \in Rules \ torn,
                      granted[r] # NoCredential, phase[q] \in {"sent", "mapped"},
                      presented[q] = granted[r]
               PROVE  r = q
    BY DEF ApartUnlessTorn
  <2>1. /\ Live(r) /\ Live(q)
        /\ lease[r] \in Slots /\ lease[q] \in Slots
        /\ places[lease[r]] = granted[r].place /\ places[lease[q]] = granted[r].place
    BY DEF IndInv, HoldInv, LeaseInv, Live
  <2>2. granted[r].place # None
    BY EntitlementsAssumption DEF IndInv, TypeOK, Credentials, Places, None
  <2>3. lease[r] = lease[q]
    BY <2>1, <2>2 DEF IndInv, PlacesApart
  <2> QED BY <2>1, <2>3 DEF IndInv, LeaseInv, SlotsApart
<1> QED BY <1>1, Invariance, PTL

\* Nor does a renewal present another credential of the epoch than the one the exit
\* already spent, unless the place was released under it.
THEOREM RenewalsRepeat == Spec => RenewalRepeats
<1>1. IndInv /\ [Next]_vars =>
        [\A r \in Rules \ torn :
           /\ phase[r] = "asking" /\ phase'[r] = "sent" /\ presented'[r] # NoCredential
           /\ granted[r].epoch = presented'[r].epoch
           => presented'[r] = granted[r]]_vars
  <2> SUFFICES ASSUME IndInv, Next, NEW r \in Rules \ torn,
                      phase[r] = "asking", phase'[r] = "sent",
                      presented'[r] # NoCredential,
                      granted[r].epoch = presented'[r].epoch
               PROVE  presented'[r] = granted[r]
    BY Zenon
  <2>0. TypeOK /\ LeaseInv /\ HoldInv
    BY DEF IndInv
  <2>1. Present(r)
    <3>1. PICK q \in Rules : RuleStep(q)
      BY DEF Next, CallRefresh, FetchDirectory, MintEpoch, SkipEpoch, RefreshEnds,
             RefreshFails, RefreshRevoked, RefreshDue, RefreshReturns, Tick, rules
    <3> QED BY <3>1 DEF RuleStep, Claim, EnsureRefreshing, ReadStock, Present, Granted,
                        Refused, Remap, DropSlot, ReleasePlace, TypeOK, IndInv
  <2> DEFINE e == seen[r].epoch
             n == lease[r]
             out == PlaceOf(n, seen[r].stock, Enter(e))
  <2>2. n \in Slots /\ e \in Epochs /\ seen[r].stock \in {0, quota} /\ Enter(e) \subseteq Places
    BY <2>0, <2>1 DEF TypeOK, LeaseInv, Enter, IndInv
  <2>3. /\ out.place # None => out.kept = out.place
        /\ places[n] # None => out.kept = places[n]
    BY <2>0, <2>2, PlaceOfApart
  <2>4. out.place # None /\ presented'[r] = [epoch |-> e, place |-> out.place]
    <3>1. presented' = [presented EXCEPT ![r] =
            IF out.place # None /\ out.place < stock[e]
            THEN [epoch |-> e, place |-> out.place] ELSE NoCredential]
      BY <2>1 DEF Present
    <3>2. DOMAIN presented = Rules
      BY <2>0 DEF TypeOK
    <3> HIDE DEF out
    <3> QED BY <3>1, <3>2
  <2> HIDE DEF out
  <2>5. granted[r] \in Credentials
    <3>1. granted[r] \in Credentials \cup {NoCredential}
      BY <2>0 DEF TypeOK
    <3>2. granted[r].epoch = e /\ e # 0
      BY <2>2, <2>4 DEF Epochs
    <3>3. NoCredential.epoch = 0
      BY DEF NoCredential
    <3> QED BY <3>1, <3>2, <3>3
  <2>6. granted[r].place = places[n] /\ places[n] # None /\ granted[r] # NoCredential
    <3>1. granted[r].epoch \in Epochs /\ granted[r].place \in Places
      BY <2>5 DEF Credentials
    <3>2. granted[r] # NoCredential
      BY <3>1 DEF NoCredential, Epochs
    <3>3. granted[r].place = places[n]
      BY <2>0, <3>2 DEF HoldInv
    <3>4. None \notin Places
      BY EntitlementsAssumption DEF None, Places
    <3> QED BY <3>1, <3>2, <3>3, <3>4
  <2> QED BY <2>3, <2>4, <2>5, <2>6 DEF Credentials
<1> QED BY <1>1, Invariance, PTL DEF Spec, RenewalRepeats
=============================================================================
