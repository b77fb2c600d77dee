------------------------ MODULE ArrivalMonitorProofs ------------------------
(***************************************************************************)
(* What the arrival monitor reports is measured, for every policy, every   *)
(* rate of the two clocks and every trail of samples.                      *)
(***************************************************************************)
EXTENDS ArrivalMonitor, TLAPS

-----------------------------------------------------------------------------
(* The inductive invariant *)

\* The monitor remembers of the latest sample what it needs for the next.
LatestIsKnown ==
  IF trail = <<>> THEN lastStamp = None
  ELSE lastStamp = Latest.stamp /\ lastFresh = Latest.at

\* Since sample i the robot has rested, within the tolerances or not.
RestsSince(i, inside) ==
  \A j \in i..Len(trail) : trail[j].stopped /\ (Inside(trail[j].pose) <=> inside)

Measures(since, i) == since.from = trail[i] /\ since.count = Len(trail) - i + 1

SettlingIsMeasured ==
  settling # None =>
    \E i \in 1..Len(trail) : Measures(settling, i) /\ RestsSince(i, TRUE)

OutsideIsMeasured ==
  outsideSince # None =>
    \E i \in SinceCorrection(corrections)..Len(trail) :
      Measures(outsideSince, i) /\ RestsSince(i, FALSE)

CorrectedInTrail == \A k \in 1..Len(corrected) : corrected[k] \in 1..Len(trail)

MonitorInv ==
  /\ TypeOK
  /\ LatestIsKnown /\ SettlingIsMeasured /\ OutsideIsMeasured /\ CorrectedInTrail
  /\ ArrivalIsMeasured /\ CorrectionsJustified /\ NeverBlind

-----------------------------------------------------------------------------
(* Types *)

USE MonitorAssumption

LEMMA InitLemma == Init => MonitorInv
<1> SUFFICES ASSUME Init PROVE MonitorInv
  OBVIOUS
<1>1. Len(trail) = 0 /\ Len(corrected) = 0 /\ trail \in Seq(Sample) /\ corrected \in Seq(Nat)
  BY DEF Init
<1>2. TypeOK
  BY <1>1 DEF Init, TypeOK, Verdict
<1> QED
  BY <1>1, <1>2 DEF Init, MonitorInv, LatestIsKnown, SettlingIsMeasured, OutsideIsMeasured,
     CorrectedInTrail, ArrivalIsMeasured, CorrectionsJustified, NeverBlind

LEMMA AppendLemma ==
  ASSUME NEW S, NEW s \in Seq(S), NEW e \in S
  PROVE  /\ Append(s, e) \in Seq(S) /\ Len(s) \in Nat
         /\ Len(Append(s, e)) = Len(s) + 1
         /\ \A i \in 1..Len(s) : Append(s, e)[i] = s[i]
         /\ Append(s, e)[Len(s) + 1] = e
OBVIOUS

\* What a sample accepted by a call leaves behind.
LEMMA AcceptLemma ==
  ASSUME TypeOK, NEW e \in Sample, Accept(e)
  PROVE  /\ Len(trail) \in Nat /\ Len(trail') = Len(trail) + 1
         /\ \A i \in 1..Len(trail) : trail'[i] = trail[i]
         /\ trail'[Len(trail')] = e
         /\ trail' \in Seq(Sample)
BY AppendLemma DEF TypeOK, Accept

LEMMA StampLemma ==
  ASSUME TypeOK, NEW stamp \in Stamps, IsNew(stamp)
  PROVE  stamp \in Int
<1>1. lastStamp \in Int \cup {None} /\ stamp # None
  BY DEF TypeOK, IsNew
<1> QED BY <1>1 DEF Stamps

LEMMA TypeLemma == TypeOK /\ [Next]_vars => TypeOK'
<1> SUFFICES ASSUME TypeOK, [Next]_vars PROVE TypeOK'
  OBVIOUS
<1>1. ASSUME NEW d \in Step, Stale(now + d) PROVE TypeOK'
  <2>1. now + d \in Nat
    BY DEF TypeOK
  <2>2. now' \in Nat /\ verdict' \in Verdict
    BY <1>1, <2>1 DEF Stale, Verdict, Failed
  <2> QED BY <1>1, <2>2 DEF Stale, TypeOK
<1>2. ASSUME NEW d \in Step, NEW stamp, NEW pose, Ignore(now + d, stamp, pose) PROVE TypeOK'
  <2>1. now + d \in Nat
    BY DEF TypeOK
  <2>2. now' \in Nat /\ verdict' \in Verdict
    BY <1>2, <2>1 DEF Ignore, Verdict
  <2> QED BY <1>2, <2>2 DEF Ignore, TypeOK
<1>3. ASSUME NEW d \in Step, NEW stamp \in Stamps, NEW pose \in Pose, NEW stopped \in BOOLEAN,
             Accept([at |-> now + d, stamp |-> stamp, pose |-> pose, stopped |-> stopped])
      PROVE  TypeOK'
  <2> DEFINE e == [at |-> now + d, stamp |-> stamp, pose |-> pose, stopped |-> stopped]
  <2>1. stamp \in Int
    <3>1. IsNew(stamp)
      BY <1>3 DEF Accept
    <3> QED BY <3>1, StampLemma
  <2>2. e \in Sample /\ e.at = now + d /\ e.stamp = stamp /\ now + d \in Nat
    BY <2>1 DEF Sample, TypeOK
  <2> HIDE DEF e
  <2>3. now' \in Nat /\ lastFresh' \in Nat /\ lastStamp' \in Int /\ trail' \in Seq(Sample)
    BY <1>3, <2>1, <2>2, AcceptLemma DEF Accept, e
  <2>4. Len(trail') \in Nat
    BY <2>3
  <2>5. Beginning(e) \in Since
    BY <2>2 DEF Beginning, Since
  <2>6. \A s \in Since : Counted(s) \in Since
    BY DEF Since, Counted
  <2>7. CASE Settle(e)
    BY <2>3, <2>5, <2>6, <2>7 DEF Settle, TypeOK, Verdict
  <2>8. CASE StandOutside(e)
    <3>1. corrected' \in Seq(Nat) /\ corrections' \in Nat
      <4>1. Append(corrected, Len(trail')) \in Seq(Nat)
        BY <2>4 DEF TypeOK
      <4>2. \/ corrected' = corrected /\ corrections' = corrections
            \/ corrected' = Append(corrected, Len(trail')) /\ corrections' = corrections + 1
        BY <2>8 DEF StandOutside
      <4>3. CASE corrected' = corrected /\ corrections' = corrections
        BY <4>3 DEF TypeOK
      <4>4. CASE corrected' = Append(corrected, Len(trail')) /\ corrections' = corrections + 1
        <5>1. corrections + 1 \in Nat
          BY DEF TypeOK
        <5> QED BY <4>1, <4>4, <5>1
      <4> QED BY <4>2, <4>3, <4>4
    <3> QED BY <2>3, <2>5, <2>6, <2>8, <3>1 DEF StandOutside, TypeOK, Verdict, Failed
  <2>9. CASE Move(e)
    BY <2>2, <2>3, <2>9 DEF Move, TypeOK, Verdict, Failed
  <2> QED BY <1>3, <2>7, <2>8, <2>9 DEF Accept, e
<1>4. CASE UNCHANGED vars
  BY <1>4 DEF vars, TypeOK
<1> QED BY <1>1, <1>2, <1>3, <1>4 DEF Next

-----------------------------------------------------------------------------
(* What is remembered *)

\* Nothing that was measured of earlier samples changes with a new one.
LEMMA RestKept ==
  ASSUME NEW m \in Nat, m <= Len(trail), NEW i \in 1..m, NEW b \in BOOLEAN, RestFrom(i, m, b),
         \A j \in 1..Len(trail) : trail'[j] = trail[j], Len(trail) \in Nat
  PROVE  RestFrom(i, m, b)'
<1>1. /\ \A j \in i..m : trail[j].stopped /\ (Inside(trail[j].pose) <=> b)
      /\ m - i + 1 >= SettleSamples
      /\ Elapsed(trail[i], trail[m], SettleTime)
  BY DEF RestFrom
<1>2. \A j \in i..m : trail'[j] = trail[j]
  OBVIOUS
<1>3. Elapsed(trail'[i], trail'[m], SettleTime)
  <2>1. trail'[i] = trail[i] /\ trail'[m] = trail[m]
    OBVIOUS
  <2> QED BY <1>1, <2>1
<1>4. \A j \in i..m : trail'[j].stopped /\ (Inside(trail'[j].pose) <=> b)
  BY <1>1, <1>2
<1> QED BY <1>1, <1>3, <1>4 DEF RestFrom

\* A rest that began with sample i and goes on with a new one, e.
LEMMA RestGoesOn ==
  ASSUME TypeOK, NEW e \in Sample, Accept(e), NEW i \in 1..Len(trail), NEW b \in BOOLEAN,
         RestsSince(i, b), e.stopped, Inside(e.pose) <=> b,
         NEW since \in Since, Measures(since, i)
  PROVE  /\ RestsSince(i, b)'
         /\ Counted(since).from = trail'[i] /\ Counted(since).count = Len(trail') - i + 1
         /\ LongEnough(since, e) => RestFrom(i, Len(trail), b)'
<1>1. /\ Len(trail) \in Nat /\ Len(trail') = Len(trail) + 1
      /\ \A j \in 1..Len(trail) : trail'[j] = trail[j]
      /\ trail'[Len(trail) + 1] = e /\ trail'[i] = trail[i]
  BY AcceptLemma
<1>2. \A j \in i..(Len(trail) + 1) : trail'[j].stopped /\ (Inside(trail'[j].pose) <=> b)
  <2> SUFFICES ASSUME NEW j \in i..(Len(trail) + 1)
               PROVE  trail'[j].stopped /\ (Inside(trail'[j].pose) <=> b)
    OBVIOUS
  <2>1. CASE j = Len(trail) + 1
    BY <1>1, <2>1
  <2>2. CASE j # Len(trail) + 1
    <3>1. j \in i..Len(trail) /\ j \in 1..Len(trail)
      BY Len(trail) \in Nat, <1>1, <2>2
    <3>2. trail'[j] = trail[j]
      BY <1>1, <3>1
    <3>3. trail[j].stopped /\ (Inside(trail[j].pose) <=> b)
      BY <3>1 DEF RestsSince
    <3> QED BY <3>2, <3>3
  <2> QED BY <2>1, <2>2
<1>3. RestsSince(i, b)'
  BY <1>1, <1>2 DEF RestsSince
<1>4. Counted(since).from = trail'[i] /\ Counted(since).count = Len(trail') - i + 1
  BY <1>1 DEF Measures, Counted, Since
<1>5. ASSUME LongEnough(since, e) PROVE RestFrom(i, Len(trail), b)'
  <2>1. Elapsed(trail'[i], trail'[Len(trail')], SettleTime)
    BY <1>1, <1>5 DEF LongEnough, Measures
  <2>2. Len(trail') - i + 1 >= SettleSamples
    BY <1>1, <1>5 DEF LongEnough, Measures
  <2>3. \A j \in i..Len(trail') : trail'[j].stopped /\ (Inside(trail'[j].pose) <=> b)
    BY <1>1, <1>2
  <2> QED BY <2>1, <2>2, <2>3 DEF RestFrom
<1> QED BY <1>3, <1>4, <1>5

-----------------------------------------------------------------------------
(* Corrections *)

LEMMA SinceLemma ==
  ASSUME TypeOK, CorrectedInTrail, NEW k \in 0..Len(corrected)
  PROVE  SinceCorrection(k) \in 1..(Len(trail) + 1)
<1>1. Len(trail) \in Nat /\ Len(corrected) \in Nat
  BY DEF TypeOK
<1>2. CASE k = 0
  BY <1>1, <1>2 DEF SinceCorrection
<1>3. CASE k # 0
  <2>1. k \in 1..Len(corrected)
    BY <1>1, <1>3
  <2>2. corrected[k] \in 1..Len(trail)
    BY <2>1 DEF CorrectedInTrail
  <2> QED BY <1>1, <1>3, <2>2 DEF SinceCorrection
<1> QED BY <1>2, <1>3

\* Correction k had a stop of its own.
Justified(k) ==
  \E i \in SinceCorrection(k - 1)..corrected[k] : RestFrom(i, corrected[k], FALSE)

\* A new sample takes from no correction what justified it.
LEMMA JustifiedKept ==
  ASSUME TypeOK, CorrectedInTrail, NEW e \in Sample, Accept(e), Len(corrected') \in Nat,
         \A j \in 1..Len(corrected) : corrected'[j] = corrected[j],
         NEW k \in 1..Len(corrected), Justified(k)
  PROVE  Justified(k)'
<1>1. /\ Len(trail) \in Nat /\ Len(corrected) \in Nat
      /\ \A j \in 1..Len(trail) : trail'[j] = trail[j]
  <2>1. Len(corrected) \in Nat
    BY DEF TypeOK
  <2> QED BY <2>1, AcceptLemma
<1>2. PICK m \in Nat : m = corrected[k] /\ m \in 1..Len(trail)
  BY <1>1 DEF CorrectedInTrail
<1>3. PICK i \in SinceCorrection(k - 1)..m : RestFrom(i, m, FALSE)
  BY <1>2 DEF Justified
<1>4. k - 1 \in 0..Len(corrected)
  BY <1>1
<1>5. SinceCorrection(k - 1) \in 1..(Len(trail) + 1)
  BY <1>4, SinceLemma
<1>6. i \in 1..m /\ m <= Len(trail)
  BY <1>1, <1>2, <1>3, <1>5
<1>7. RestFrom(i, m, FALSE)'
  BY <1>1, <1>3, <1>6, RestKept
<1>8. corrected'[k] = m
  BY <1>2
<1>9. SinceCorrection(k - 1)' = SinceCorrection(k - 1)
  <2>1. CASE k = 1
    BY <2>1 DEF SinceCorrection
  <2>2. CASE k # 1
    <3>1. k - 1 \in 1..Len(corrected)
      BY <1>1, <2>2
    <3> QED BY <3>1 DEF SinceCorrection
  <2> QED BY <2>1, <2>2
<1>10. i \in SinceCorrection(k - 1)'..corrected'[k]
  BY <1>3, <1>8, <1>9
<1>11. \E n \in SinceCorrection(k - 1)'..corrected'[k] :
         /\ \A j \in n..corrected'[k] : trail'[j].stopped /\ (Inside(trail'[j].pose) <=> FALSE)
         /\ corrected'[k] - n + 1 >= SettleSamples
         /\ Elapsed(trail'[n], trail'[corrected'[k]], SettleTime)
  BY <1>7, <1>8, <1>10 DEF RestFrom
<1> QED BY <1>11 DEF Justified, RestFrom

-----------------------------------------------------------------------------
(* Steps *)

LEMMA BlindLemma ==
  ASSUME TypeOK, LatestIsKnown, NeverBlind, NEW e \in Sample, Accept(e)
  PROVE  LatestIsKnown' /\ NeverBlind'
<1>1. /\ Len(trail) \in Nat /\ Len(trail') = Len(trail) + 1
      /\ \A j \in 1..Len(trail) : trail'[j] = trail[j]
      /\ trail'[Len(trail')] = e /\ trail' \in Seq(Sample)
  BY AcceptLemma
<1>2. /\ e.at \in Nat /\ e.stamp \in Int /\ StaleTime \in Nat
      /\ lastStamp' = e.stamp /\ lastFresh' = e.at /\ now' = e.at
  BY DEF Accept, Sample
<1>3. trail' # <<>>
  BY <1>1
<1>4. LatestIsKnown'
  BY <1>1, <1>2, <1>3 DEF LatestIsKnown, Latest
<1>5. ASSUME NEW j \in 2..Len(trail')
      PROVE  /\ trail'[j].stamp > trail'[j - 1].stamp
             /\ trail'[j].at - trail'[j - 1].at <= StaleTime
  <2>1. CASE j = Len(trail')
    <3>1. trail'[j] = e /\ trail'[j - 1] = Latest /\ trail # <<>>
      BY <1>1, <2>1 DEF Latest
    <3>2. lastStamp = Latest.stamp /\ lastFresh = Latest.at
      BY <3>1 DEF LatestIsKnown
    <3>3. Latest \in Sample
      <4>1. Len(trail) \in 1..Len(trail)
        BY <1>1, <2>1
      <4> QED BY <4>1 DEF Latest, TypeOK
    <3>4. Latest.stamp \in Int
      BY <3>3 DEF Sample
    <3>5. e.stamp > Latest.stamp
      BY <3>2, <3>4 DEF Accept, IsNew
    <3>6. e.at - Latest.at <= StaleTime
      BY <3>2 DEF Accept, IsFresh
    <3> QED BY <3>1, <3>5, <3>6
  <2>2. CASE j # Len(trail')
    <3>1. j \in 2..Len(trail) /\ j \in 1..Len(trail) /\ j - 1 \in 1..Len(trail)
      BY <1>1, <2>2
    <3>2. trail'[j] = trail[j] /\ trail'[j - 1] = trail[j - 1]
      BY <1>1, <3>1
    <3> QED BY <3>1, <3>2 DEF NeverBlind
  <2> QED BY <2>1, <2>2
<1>6. now' - trail'[Len(trail')].at <= StaleTime
  BY <1>1, <1>2
<1> QED BY <1>4, <1>5, <1>6 DEF NeverBlind, Latest

\* A rest begins with a new sample, e.
LEMMA RestBegins ==
  ASSUME TypeOK, NEW e \in Sample, Accept(e), NEW b \in BOOLEAN,
         e.stopped, Inside(e.pose) <=> b
  PROVE  /\ Len(trail) + 1 \in 1..Len(trail')
         /\ Beginning(e).from = trail'[Len(trail) + 1]
         /\ Beginning(e).count = Len(trail') - (Len(trail) + 1) + 1
         /\ \A j \in (Len(trail) + 1)..Len(trail') :
              trail'[j].stopped /\ (Inside(trail'[j].pose) <=> b)
<1>1. /\ Len(trail) \in Nat /\ Len(trail') = Len(trail) + 1 /\ trail'[Len(trail')] = e
  BY AcceptLemma
<1>2. \A j \in (Len(trail) + 1)..Len(trail') : j = Len(trail')
  BY <1>1
<1> QED BY <1>1, <1>2 DEF Beginning

\* Corrections, when a sample adds none.
LEMMA NoCorrection ==
  ASSUME TypeOK, CorrectedInTrail, CorrectionsJustified, NEW e \in Sample, Accept(e),
         UNCHANGED <<corrections, corrected>>, verdict' # "exhausted"
  PROVE  CorrectedInTrail' /\ CorrectionsJustified'
<1>1. Len(corrected) \in Nat /\ Len(trail) \in Nat /\ Len(trail') = Len(trail) + 1
  <2>1. Len(corrected) \in Nat
    BY DEF TypeOK
  <2> QED BY <2>1, AcceptLemma
<1>2. \A k \in 1..Len(corrected) : Justified(k)'
  BY <1>1, JustifiedKept DEF CorrectionsJustified, Justified
<1>3. CorrectedInTrail'
  BY <1>1 DEF CorrectedInTrail
<1>4. \A k \in 1..Len(corrected') : Justified(k)'
  BY <1>2
<1> QED BY <1>3, <1>4 DEF CorrectionsJustified, Justified

LEMMA SettleLemma ==
  ASSUME MonitorInv, NEW e \in Sample, Accept(e), Settle(e)
  PROVE  /\ SettlingIsMeasured' /\ OutsideIsMeasured' /\ CorrectedInTrail'
         /\ ArrivalIsMeasured' /\ CorrectionsJustified'
<1> USE DEF MonitorInv
<1>1. /\ Len(trail) \in Nat /\ Len(trail') = Len(trail) + 1
      /\ \A j \in 1..Len(trail) : trail'[j] = trail[j]
      /\ trail'[Len(trail')] = e
  BY AcceptLemma
<1>2. OutsideIsMeasured'
  BY DEF Settle, OutsideIsMeasured
<1>3. CorrectedInTrail' /\ CorrectionsJustified'
  <2>1. verdict' # "exhausted"
    BY DEF Settle
  <2>2. UNCHANGED <<corrections, corrected>>
    BY DEF Settle
  <2> QED BY <2>1, <2>2, NoCorrection
<1>4. e.stopped /\ (Inside(e.pose) <=> TRUE)
  BY DEF Settle
<1>5. CASE settling = None
  <2>1. settling' = Beginning(e) /\ verdict' = "none"
    BY <1>5 DEF Settle
  <2>2. SettlingIsMeasured'
    BY <1>1, <1>4, <2>1, RestBegins DEF SettlingIsMeasured, Measures, RestsSince
  <2> QED BY <1>2, <1>3, <2>1, <2>2 DEF ArrivalIsMeasured
<1>6. CASE settling # None
  <2>1. settling \in Since
    BY <1>6 DEF TypeOK
  <2>2. PICK i \in 1..Len(trail) : Measures(settling, i) /\ RestsSince(i, TRUE)
    BY <1>6 DEF SettlingIsMeasured
  <2>3. /\ RestsSince(i, TRUE)'
        /\ Counted(settling).from = trail'[i]
        /\ Counted(settling).count = Len(trail') - i + 1
        /\ LongEnough(settling, e) => RestFrom(i, Len(trail), TRUE)'
    BY <1>4, <2>1, <2>2, RestGoesOn
  <2>4. i \in 1..Len(trail') /\ trail'[i] = trail[i]
    BY <1>1
  <2>5. SettlingIsMeasured'
    <3>1. settling' = None \/ settling' = Counted(settling)
      BY <1>6 DEF Settle
    <3> QED BY <2>3, <2>4, <3>1 DEF SettlingIsMeasured, Measures
  <2>6. ArrivalIsMeasured'
    <3> SUFFICES ASSUME verdict' = "succeeded" PROVE ArrivalIsMeasured'
      BY DEF ArrivalIsMeasured
    <3>1. LongEnough(settling, e) /\ Steady(settling.from, e)
      BY <1>6 DEF Settle
    <3>2. settling.from = trail'[i]
      BY <2>2, <2>4 DEF Measures
    <3>3. RestFrom(i, Len(trail), TRUE)' /\ Steady(trail'[i], trail'[Len(trail')])
      BY <1>1, <2>3, <3>1, <3>2
    <3> QED BY <2>4, <3>3 DEF ArrivalIsMeasured, Latest
  <2> QED BY <1>2, <1>3, <2>5, <2>6
<1> QED BY <1>5, <1>6

LEMMA MoveLemma ==
  ASSUME MonitorInv, NEW e \in Sample, Accept(e), Move(e)
  PROVE  /\ SettlingIsMeasured' /\ OutsideIsMeasured' /\ CorrectedInTrail'
         /\ ArrivalIsMeasured' /\ CorrectionsJustified'
<1> USE DEF MonitorInv
<1>1. verdict' \in {"none", "stalled"} /\ settling' = None /\ outsideSince' = None
  BY DEF Move
<1>2. UNCHANGED <<corrections, corrected>>
  BY DEF Move
<1>3. CorrectedInTrail' /\ CorrectionsJustified'
  BY <1>1, <1>2, NoCorrection
<1> QED BY <1>1, <1>3 DEF SettlingIsMeasured, OutsideIsMeasured, ArrivalIsMeasured

LEMMA StandLemma ==
  ASSUME MonitorInv, NEW e \in Sample, Accept(e), StandOutside(e)
  PROVE  /\ SettlingIsMeasured' /\ OutsideIsMeasured' /\ CorrectedInTrail'
         /\ ArrivalIsMeasured' /\ CorrectionsJustified'
<1> USE DEF MonitorInv
<1>1. /\ Len(trail) \in Nat /\ Len(trail') = Len(trail) + 1
      /\ \A j \in 1..Len(trail) : trail'[j] = trail[j]
      /\ trail'[Len(trail')] = e
  BY AcceptLemma
<1>2. settling' = None /\ verdict' # "succeeded"
  BY DEF StandOutside
<1>3. SettlingIsMeasured' /\ ArrivalIsMeasured'
  BY <1>2 DEF SettlingIsMeasured, ArrivalIsMeasured
<1>4. e.stopped /\ (Inside(e.pose) <=> FALSE)
  BY DEF StandOutside
<1>5. Len(corrected) = corrections /\ corrections \in Nat
  BY DEF TypeOK, CorrectionsJustified
<1>6. SinceCorrection(corrections) \in 1..(Len(trail) + 1)
  BY <1>5, SinceLemma
<1>7. ASSUME UNCHANGED <<corrections, corrected>>
      PROVE  SinceCorrection(corrections)' = SinceCorrection(corrections)
  BY <1>7 DEF SinceCorrection
<1>8. CASE outsideSince = None
  <2>1. outsideSince' = Beginning(e) /\ verdict' = "none" /\ UNCHANGED <<corrections, corrected>>
    BY <1>8 DEF StandOutside
  <2>2. Len(trail') \in SinceCorrection(corrections)'..Len(trail')
    BY <1>1, <1>6, <1>7, <2>1
  <2>3. OutsideIsMeasured'
    BY <1>1, <1>4, <2>1, <2>2, RestBegins DEF OutsideIsMeasured, Measures, RestsSince
  <2> QED BY <1>3, <2>1, <2>3, NoCorrection
<1>9. CASE outsideSince # None
  <2>1. outsideSince \in Since
    BY <1>9 DEF TypeOK
  <2>2. PICK i \in SinceCorrection(corrections)..Len(trail) :
          Measures(outsideSince, i) /\ RestsSince(i, FALSE)
    BY <1>9 DEF OutsideIsMeasured
  <2>3. i \in 1..Len(trail) /\ i \in 1..Len(trail') /\ trail'[i] = trail[i]
    BY <1>1, <1>6
  <2>4. /\ RestsSince(i, FALSE)'
        /\ Counted(outsideSince).from = trail'[i]
        /\ Counted(outsideSince).count = Len(trail') - i + 1
        /\ LongEnough(outsideSince, e) => RestFrom(i, Len(trail), FALSE)'
    BY <1>4, <2>1, <2>2, <2>3, RestGoesOn
  <2>5. i \in SinceCorrection(corrections)..Len(trail')
    BY <1>1, <1>6
  <2>6. CASE ~LongEnough(outsideSince, e)
    <3>1. outsideSince' = Counted(outsideSince) /\ verdict' = "none"
      BY <1>9, <2>6 DEF StandOutside
    <3>2. UNCHANGED <<corrections, corrected>>
      BY <1>9, <2>6 DEF StandOutside
    <3>3. i \in SinceCorrection(corrections)'..Len(trail')
      BY <1>7, <2>5, <3>2
    <3>4. OutsideIsMeasured'
      BY <2>4, <3>1, <3>3 DEF OutsideIsMeasured, Measures
    <3> QED BY <1>3, <3>1, <3>2, <3>4, NoCorrection
  <2>7. CASE LongEnough(outsideSince, e) /\ Exhausted
    <3>1. outsideSince' = None /\ UNCHANGED <<corrections, corrected>>
      BY <1>9, <2>7 DEF StandOutside
    <3>2. OutsideIsMeasured'
      BY <3>1 DEF OutsideIsMeasured
    <3>3. \A k \in 1..Len(corrected) : Justified(k)'
      BY <1>5, <3>1, JustifiedKept DEF CorrectionsJustified, Justified
    <3>4. CorrectedInTrail'
      BY <1>1, <1>5, <3>1 DEF CorrectedInTrail
    <3>5. corrections' = MaxCorrections /\ MaxCorrections \in Nat
      BY <1>5, <2>7, <3>1 DEF Exhausted, CorrectionsJustified
    <3>6. i \in SinceCorrection(corrections)'..Len(trail') /\ RestFrom(i, Len(trail), FALSE)'
      BY <1>7, <2>4, <2>5, <2>7, <3>1
    <3>7. \A k \in 1..Len(corrected') : Justified(k)'
      BY <3>1, <3>3
    <3> QED BY <1>3, <1>5, <3>1, <3>2, <3>4, <3>5, <3>6, <3>7 DEF CorrectionsJustified, Justified
  <2>8. CASE LongEnough(outsideSince, e) /\ ~Exhausted
    <3>1. /\ outsideSince' = None /\ corrections' = corrections + 1 /\ verdict' = "correct"
          /\ corrected' = Append(corrected, Len(trail'))
      BY <1>9, <2>8 DEF StandOutside
    <3>2. /\ Len(corrected') = corrections + 1
          /\ \A j \in 1..corrections : corrected'[j] = corrected[j]
          /\ corrected'[corrections + 1] = Len(trail')
      <4>1. corrected \in Seq(Nat) /\ Len(trail') \in Nat
        BY <1>1 DEF TypeOK
      <4>2. /\ Len(corrected') = Len(corrected) + 1
            /\ \A j \in 1..Len(corrected) : corrected'[j] = corrected[j]
            /\ corrected'[Len(corrected) + 1] = Len(trail')
        BY <3>1, <4>1, AppendLemma
      <4> QED BY <1>5, <4>2
    <3>3. OutsideIsMeasured'
      BY <3>1 DEF OutsideIsMeasured
    <3>4. ASSUME NEW k \in 1..Len(corrected') PROVE corrected'[k] \in 1..Len(trail')
      <4>1. CASE k = corrections + 1
        BY <1>1, <3>2, <4>1
      <4>2. CASE k # corrections + 1
        <5>1. k \in 1..Len(corrected) /\ k \in 1..corrections
          BY <1>5, <3>2, <4>2
        <5>2. corrected[k] \in 1..Len(trail)
          BY <5>1 DEF CorrectedInTrail
        <5>3. corrected'[k] = corrected[k]
          BY <3>2, <5>1
        <5> QED BY <1>1, <5>2, <5>3
      <4> QED BY <4>1, <4>2
    <3>5. corrections' <= MaxCorrections
      BY <1>5, <2>8, <3>1 DEF Exhausted, CorrectionsJustified
    <3>6. ASSUME NEW k \in 1..Len(corrected') PROVE Justified(k)'
      <4>1. CASE k = corrections + 1
        <5>1. SinceCorrection(k - 1)' = SinceCorrection(corrections)
          BY <1>5, <3>2, <4>1 DEF SinceCorrection
        <5>2. i \in SinceCorrection(k - 1)'..corrected'[k] /\ corrected'[k] = Len(trail')
          BY <2>5, <3>2, <4>1, <5>1
        <5>3. /\ \A j \in i..corrected'[k] : trail'[j].stopped /\ (Inside(trail'[j].pose) <=> FALSE)
              /\ corrected'[k] - i + 1 >= SettleSamples
              /\ Elapsed(trail'[i], trail'[corrected'[k]], SettleTime)
          BY <2>4, <2>8, <5>2 DEF RestFrom
        <5> QED BY <5>2, <5>3 DEF Justified, RestFrom
      <4>2. CASE k # corrections + 1
        <5>1. k \in 1..Len(corrected)
          BY <1>5, <3>2, <4>2
        <5>2. Justified(k)
          BY <5>1 DEF CorrectionsJustified, Justified
        <5>3. Len(corrected') \in Nat /\ \A j \in 1..Len(corrected) : corrected'[j] = corrected[j]
          BY <1>5, <3>2
        <5> QED BY <5>1, <5>2, <5>3, JustifiedKept
      <4> QED BY <4>1, <4>2
    <3> QED BY <1>3, <3>1, <3>2, <3>3, <3>4, <3>5, <3>6
            DEF CorrectionsJustified, Justified, CorrectedInTrail
  <2> QED BY <2>6, <2>7, <2>8
<1> QED BY <1>8, <1>9

-----------------------------------------------------------------------------
(* The invariant holds *)

\* A call that accepts no sample changes nothing that was measured.
LEMMA IgnoredLemma ==
  ASSUME MonitorInv, NEW at, verdict' \in {"none", "stale"},
         verdict' = "none" => IsFresh(at),
         now' = at,
         UNCHANGED <<lastStamp, lastFresh, settling, outsideSince, progress,
                     corrections, trail, corrected>>
  PROVE  /\ LatestIsKnown' /\ SettlingIsMeasured' /\ OutsideIsMeasured' /\ CorrectedInTrail'
         /\ ArrivalIsMeasured' /\ CorrectionsJustified' /\ NeverBlind'
<1> USE DEF MonitorInv
<1>1. LatestIsKnown'
  BY DEF LatestIsKnown, Latest
<1>2. SettlingIsMeasured'
  BY DEF SettlingIsMeasured, Measures, RestsSince
<1>3. OutsideIsMeasured'
  BY DEF OutsideIsMeasured, Measures, RestsSince, SinceCorrection
<1>4. CorrectedInTrail'
  BY DEF CorrectedInTrail
<1>5. ArrivalIsMeasured'
  BY DEF ArrivalIsMeasured
<1>6. CorrectionsJustified'
  BY DEF CorrectionsJustified, SinceCorrection, RestFrom
<1>7. NeverBlind'
  BY DEF NeverBlind, Latest, IsFresh, LatestIsKnown
<1> QED BY <1>1, <1>2, <1>3, <1>4, <1>5, <1>6, <1>7

LEMMA InvLemma == MonitorInv /\ [Next]_vars => MonitorInv'
<1> SUFFICES ASSUME MonitorInv, [Next]_vars PROVE MonitorInv'
  OBVIOUS
<1>1. TypeOK'
  BY TypeLemma DEF MonitorInv
<1>2. ASSUME NEW d \in Step, Stale(now + d) PROVE MonitorInv'
  BY <1>1, <1>2, IgnoredLemma DEF Stale, MonitorInv
<1>3. ASSUME NEW d \in Step, NEW stamp, NEW pose, Ignore(now + d, stamp, pose) PROVE MonitorInv'
  BY <1>1, <1>3, IgnoredLemma DEF Ignore, MonitorInv
<1>4. ASSUME NEW d \in Step, NEW stamp \in Stamps, NEW pose \in Pose, NEW stopped \in BOOLEAN,
             Accept([at |-> now + d, stamp |-> stamp, pose |-> pose, stopped |-> stopped])
      PROVE  MonitorInv'
  <2> DEFINE e == [at |-> now + d, stamp |-> stamp, pose |-> pose, stopped |-> stopped]
  <2>1. e \in Sample
    <3>1. stamp \in Int
      <4>1. IsNew(stamp) /\ TypeOK
        BY <1>4 DEF Accept, MonitorInv
      <4> QED BY <4>1, StampLemma
    <3>2. now \in Nat
      BY DEF TypeOK, MonitorInv
    <3>3. now + d \in Nat
      BY <3>2
    <3> QED BY <3>1, <3>3 DEF Sample
  <2>2. Accept(e)
    BY <1>4
  <2> HIDE DEF e
  <2>3. LatestIsKnown' /\ NeverBlind'
    BY <2>1, <2>2, BlindLemma DEF MonitorInv
  <2>4. CASE Settle(e)
    BY <1>1, <2>1, <2>2, <2>3, <2>4, SettleLemma DEF MonitorInv
  <2>5. CASE StandOutside(e)
    BY <1>1, <2>1, <2>2, <2>3, <2>5, StandLemma DEF MonitorInv
  <2>6. CASE Move(e)
    BY <1>1, <2>1, <2>2, <2>3, <2>6, MoveLemma DEF MonitorInv
  <2> QED BY <2>2, <2>4, <2>5, <2>6 DEF Accept
<1>5. CASE UNCHANGED vars
  <2>1. UNCHANGED <<now, lastStamp, lastFresh, settling, outsideSince, progress,
                    corrections, verdict, trail, corrected>>
    BY <1>5 DEF vars
  <2>2. LatestIsKnown' /\ SettlingIsMeasured' /\ OutsideIsMeasured' /\ CorrectedInTrail'
    BY <2>1 DEF MonitorInv, LatestIsKnown, Latest, SettlingIsMeasured, OutsideIsMeasured,
       Measures, RestsSince, SinceCorrection, CorrectedInTrail
  <2>3. ArrivalIsMeasured'
    BY <2>1 DEF MonitorInv, ArrivalIsMeasured, RestFrom, Latest
  <2>4. CorrectionsJustified'
    BY <2>1 DEF MonitorInv, CorrectionsJustified, SinceCorrection, RestFrom
  <2>5. NeverBlind'
    BY <2>1 DEF MonitorInv, NeverBlind, Latest
  <2> QED BY <1>1, <2>2, <2>3, <2>4, <2>5 DEF MonitorInv
<1> QED BY <1>2, <1>3, <1>4, <1>5 DEF Next

LEMMA MonitorInvariant == Spec => []MonitorInv
<1> QED BY InitLemma, InvLemma, PTL DEF Spec

-----------------------------------------------------------------------------
(* Progress *)

\* Progress is measured from a sample taken since the latest correction.
ProgressIsMeasured ==
  progress # None =>
    \E i \in SinceCorrection(corrections)..Len(trail) : trail[i] = progress

\* No new sample makes a stall of what was none before, except one that moves
\* on without improving.
LEMMA StallAccept ==
  ASSUME MonitorInv, ProgressIsMeasured, NEW e \in Sample, Accept(e)
  PROVE  ProgressIsMeasured' /\ StallIsReal'
<1>1. /\ Len(trail) \in Nat /\ Len(trail') = Len(trail) + 1
      /\ \A j \in 1..Len(trail) : trail'[j] = trail[j]
      /\ trail'[Len(trail')] = e
  BY AcceptLemma DEF MonitorInv
<1>2. SinceCorrection(corrections) \in 1..(Len(trail) + 1)
  <2>1. corrections = Len(corrected) /\ corrections \in Nat
    BY DEF MonitorInv, TypeOK, CorrectionsJustified
  <2> QED BY <2>1, SinceLemma DEF MonitorInv
<1>3. ASSUME UNCHANGED <<corrections, corrected>>
      PROVE  SinceCorrection(corrections)' = SinceCorrection(corrections)
  BY <1>3 DEF SinceCorrection
<1>4. ASSUME progress # None
      PROVE  \E i \in SinceCorrection(corrections)..Len(trail') :
               trail'[i] = progress /\ i \in 1..Len(trail)
  BY <1>1, <1>2, <1>4 DEF ProgressIsMeasured
<1>5. CASE UNCHANGED <<progress, corrections, corrected>> /\ verdict' # "stalled"
  <2>1. ProgressIsMeasured'
    BY <1>3, <1>4, <1>5 DEF ProgressIsMeasured
  <2> QED BY <1>5, <2>1 DEF StallIsReal
<1>6. CASE progress' = None /\ verdict' = "correct"
  BY <1>6 DEF ProgressIsMeasured, StallIsReal
<1>7. CASE Move(e)
  <2>1. UNCHANGED <<corrections, corrected>> /\ progress' \in {e, progress}
    BY <1>7 DEF Move
  <2>2. ProgressIsMeasured'
    <3>1. CASE progress' = e
      <4>1. Len(trail') \in SinceCorrection(corrections)'..Len(trail')
        BY <1>1, <1>2, <1>3, <2>1
      <4> QED BY <1>1, <3>1, <4>1 DEF ProgressIsMeasured
    <3>2. CASE progress' = progress
      BY <1>3, <1>4, <2>1, <3>2 DEF ProgressIsMeasured
    <3> QED BY <2>1, <3>1, <3>2
  <2>3. ASSUME verdict' = "stalled" PROVE StallIsReal'
    <3>1. progress # None /\ WindowOver(e) /\ ~Hopeful(e) /\ ~e.stopped
      BY <1>7, <2>3 DEF Move
    <3>2. PICK i \in SinceCorrection(corrections)..Len(trail') : trail'[i] = progress
      BY <1>4, <3>1
    <3>3. Elapsed(trail'[i], e, ProgressTime) /\ ~Improved(trail'[i], e) /\ ~Inside(e.pose)
      BY <3>1, <3>2 DEF WindowOver, Hopeful
    <3>4. i \in SinceCorrection(corrections)'..Len(trail')
      BY <1>3, <2>1, <3>2
    <3> QED BY <1>1, <3>1, <3>3, <3>4 DEF StallIsReal, Latest
  <2> QED BY <2>2, <2>3 DEF StallIsReal
<1>8. \/ UNCHANGED <<progress, corrections, corrected>> /\ verdict' # "stalled"
      \/ progress' = None /\ verdict' = "correct"
      \/ Move(e)
  BY DEF Accept, Settle, StandOutside
<1> QED BY <1>5, <1>6, <1>7, <1>8

LEMMA StallNext ==
  MonitorInv /\ ProgressIsMeasured /\ StallIsReal /\ [Next]_vars
    => ProgressIsMeasured' /\ StallIsReal'
<1> SUFFICES ASSUME MonitorInv, ProgressIsMeasured, StallIsReal, [Next]_vars
             PROVE  ProgressIsMeasured' /\ StallIsReal'
  OBVIOUS
<1>1. CASE UNCHANGED <<progress, corrections, corrected, trail>>
           /\ (verdict' = "stalled" => verdict = "stalled")
  BY <1>1 DEF ProgressIsMeasured, StallIsReal, SinceCorrection, Latest
<1>2. ASSUME NEW d \in Step, NEW stamp \in Stamps, NEW pose \in Pose, NEW stopped \in BOOLEAN,
             Accept([at |-> now + d, stamp |-> stamp, pose |-> pose, stopped |-> stopped])
      PROVE  ProgressIsMeasured' /\ StallIsReal'
  <2> DEFINE e == [at |-> now + d, stamp |-> stamp, pose |-> pose, stopped |-> stopped]
  <2>1. e \in Sample
    <3>1. stamp \in Int
      <4>1. IsNew(stamp) /\ TypeOK
        BY <1>2 DEF Accept, MonitorInv
      <4> QED BY <4>1, StampLemma
    <3>2. now \in Nat
      BY DEF TypeOK, MonitorInv
    <3>3. now + d \in Nat
      BY <3>2
    <3> QED BY <3>1, <3>3 DEF Sample
  <2> HIDE DEF e
  <2> QED BY <1>2, <2>1, StallAccept DEF e
<1> QED BY <1>1, <1>2 DEF Next, Stale, Ignore, vars

-----------------------------------------------------------------------------
(* Want of progress *)

\* Samples are in the order of both clocks.
Ordered ==
  /\ \A i, j \in 1..Len(trail) :
       i <= j => trail[i].at <= trail[j].at /\ trail[i].stamp <= trail[j].stamp
  /\ \A i \in 1..Len(trail) : trail[i].at <= now

\* Since sample i the robot has moved away from the goal and improved on nothing.
Wanders(i) ==
  /\ \A k \in i..Len(trail) : ~trail[k].stopped /\ ~Inside(trail[k].pose)
  /\ \A k, l \in i..Len(trail) : k < l => ~Improved(trail[k], trail[l])

\* The window that is open, of sample p, began before the first one since i was
\* over, and is not over.
WindowOpen(i, p) ==
  /\ trail[p] = progress
  /\ \A k \in i..Len(trail) : k > p => ~Elapsed(trail[p], trail[k], ProgressTime)
  /\ \A k \in i..(p - 1) : ~Elapsed(trail[i], trail[k], ProgressTime)

WanderingIsWatched ==
  verdict # "stalled" =>
    \A i \in 1..Len(trail) : Wanders(i) => \E p \in 1..Len(trail) : WindowOpen(i, p)

LEMMA Longer ==
  \A a, b, c, d, t \in Int : a <= b /\ c <= d /\ c - b >= t => d - a >= t
OBVIOUS

LEMMA NothingElapsed ==
  ASSUME NEW s, s.at \in Int, s.stamp \in Int, 0 >= ProgressTime
  PROVE  Elapsed(s, s, ProgressTime)
<1>1. s.at - s.at = 0
  OBVIOUS
<1>2. s.stamp - s.stamp = 0
  OBVIOUS
<1> QED BY <1>1, <1>2 DEF Elapsed

LEMMA BeforeLast ==
  ASSUME NEW n \in Nat, NEW i \in 1..(n + 1), NEW k \in i..(n + 1), k # n + 1
  PROVE  k \in i..n /\ k \in 1..n /\ i # n + 1
OBVIOUS

LEMMA Between == \A a, b, c \in Nat : a <= b /\ b <= c => a <= c
OBVIOUS

LEMMA Later == \A a, b, c \in Int : a <= b /\ c > b => a <= c
OBVIOUS

LEMMA TrailTypes ==
  ASSUME TypeOK
  PROVE  /\ Len(trail) \in Nat
         /\ \A i \in 1..Len(trail) :
              trail[i].at \in Nat /\ trail[i].at \in Int /\ trail[i].stamp \in Int
<1>1. trail \in Seq(Sample)
  BY DEF TypeOK
<1>2. Len(trail) \in Nat /\ \A i \in 1..Len(trail) : trail[i] \in Sample
  BY <1>1
<1> QED BY <1>2 DEF Sample

LEMMA OrderedAccept ==
  ASSUME MonitorInv, Ordered, NEW e \in Sample, Accept(e), now <= e.at
  PROVE  Ordered'
<1>1. /\ Len(trail) \in Nat /\ Len(trail') = Len(trail) + 1
      /\ \A j \in 1..Len(trail) : trail'[j] = trail[j]
      /\ trail'[Len(trail')] = e
  BY AcceptLemma DEF MonitorInv
<1>2. /\ e.at \in Nat /\ e.stamp \in Int /\ now' = e.at /\ now \in Nat
      /\ \A i \in 1..Len(trail) : trail[i].at \in Nat /\ trail[i].stamp \in Int
  <2>1. TypeOK
    BY DEF MonitorInv
  <2>2. now \in Nat
    BY <2>1 DEF TypeOK
  <2>3. e.at \in Nat /\ e.stamp \in Int /\ now' = e.at
    BY DEF Accept, Sample
  <2> QED BY <2>1, <2>2, <2>3, TrailTypes
<1>3. ASSUME NEW i \in 1..Len(trail) PROVE trail[i].at <= e.at /\ trail[i].stamp <= e.stamp
  <2>1. /\ Len(trail) \in 1..Len(trail) /\ i <= Len(trail)
        /\ trail # <<>> /\ trail \in Seq(Sample)
    <3>1. Len(trail) \in Nat /\ trail \in Seq(Sample)
      BY DEF MonitorInv, TypeOK
    <3>2. Len(trail) \in 1..Len(trail) /\ i <= Len(trail) /\ Len(trail) # 0
      BY <3>1
    <3> QED BY <3>1, <3>2
  <2>2. lastStamp = trail[Len(trail)].stamp /\ lastStamp # None
    BY <1>2, <2>1 DEF MonitorInv, LatestIsKnown, Latest
  <2>3. e.stamp > trail[Len(trail)].stamp
    BY <2>2 DEF Accept, IsNew
  <2>4. trail[i].stamp <= trail[Len(trail)].stamp
    BY <2>1 DEF Ordered
  <2>5. trail[i].at <= now
    BY DEF Ordered
  <2>6. trail[i].at \in Nat /\ trail[i].stamp \in Int /\ trail[Len(trail)].stamp \in Int
    BY <1>2, <2>1
  <2>7. trail[i].at <= e.at
    <3>1. now <= e.at
      OBVIOUS
    <3>2. trail[i].at \in Nat /\ now \in Nat /\ e.at \in Nat
      BY <1>2, <2>6
    <3> QED BY <2>5, <3>1, <3>2, Between
  <2>8. trail[i].stamp <= e.stamp
    BY <1>2, <2>3, <2>4, <2>6, Later
  <2> QED BY <2>7, <2>8
<1>4. ASSUME NEW i \in 1..Len(trail'), NEW j \in 1..Len(trail'), i <= j
      PROVE  trail'[i].at <= trail'[j].at /\ trail'[i].stamp <= trail'[j].stamp
  <2>1. CASE j = Len(trail') /\ i = Len(trail')
    BY <1>1, <1>2, <2>1
  <2>2. CASE j = Len(trail') /\ i # Len(trail')
    <3>1. i \in 1..Len(trail)
      BY <1>1, <2>2
    <3> QED BY <1>1, <1>3, <2>2, <3>1
  <2>3. CASE j # Len(trail')
    <3>1. i \in 1..Len(trail) /\ j \in 1..Len(trail)
      BY <1>1, <1>4, <2>3
    <3> QED BY <1>1, <1>4, <3>1 DEF Ordered
  <2> QED BY <2>1, <2>2, <2>3
<1>5. ASSUME NEW i \in 1..Len(trail') PROVE trail'[i].at <= now'
  <2>1. CASE i = Len(trail')
    BY <1>1, <1>2, <2>1
  <2>2. CASE i # Len(trail')
    <3>1. i \in 1..Len(trail)
      BY <1>1, <2>2
    <3> QED BY <1>1, <1>2, <1>3, <3>1
  <2> QED BY <2>1, <2>2
<1> QED BY <1>4, <1>5 DEF Ordered

\* What has elapsed since a sample has elapsed since every earlier one, and is
\* still so at every later one.
LEMMA ElapsedGrows ==
  ASSUME MonitorInv, Ordered, NEW t \in Nat,
         NEW i \in 1..Len(trail), NEW j \in 1..Len(trail),
         NEW k \in 1..Len(trail), NEW l \in 1..Len(trail),
         i <= j, k <= l, Elapsed(trail[j], trail[k], t)
  PROVE  Elapsed(trail[i], trail[l], t)
<1>1. \A m \in 1..Len(trail) : trail[m].at \in Int /\ trail[m].stamp \in Int
  BY TrailTypes DEF MonitorInv
<1>2. /\ trail[i].at <= trail[j].at /\ trail[i].stamp <= trail[j].stamp
      /\ trail[k].at <= trail[l].at /\ trail[k].stamp <= trail[l].stamp
  BY DEF Ordered
<1>3. /\ trail[k].at - trail[j].at >= t /\ trail[k].stamp - trail[j].stamp >= t
      /\ t \in Int
  <2> t \in Int
    BY DEF Elapsed
  <2> QED BY DEF Elapsed
<1>4. trail[l].at - trail[i].at >= t /\ trail[l].stamp - trail[i].stamp >= t
  BY <1>1, <1>2, <1>3, Longer
<1> QED BY <1>4 DEF Elapsed

\* Two windows without an improvement are not both left open.
LEMMA WatchedIsNoticed ==
  ASSUME MonitorInv, Ordered, WanderingIsWatched
  PROVE  StallIsNoticed
<1>1. Len(trail) \in Nat /\ ProgressTime \in Nat
  BY DEF MonitorInv, TypeOK
<1> SUFFICES ASSUME NEW i \in 1..Len(trail), NEW j \in 1..Len(trail), i < j,
                    Elapsed(trail[i], trail[j], ProgressTime),
                    Elapsed(trail[j], Latest, ProgressTime),
                    Wanders(i), verdict # "stalled"
             PROVE  FALSE
  BY DEF StallIsNoticed, Wanders
<1>2. PICK p \in 1..Len(trail) : WindowOpen(i, p)
  BY DEF WanderingIsWatched
<1>3. /\ j <= Len(trail) /\ Len(trail) \in 1..Len(trail) /\ j \in i..Len(trail)
      /\ i \in 1..Len(trail) /\ p \in 1..Len(trail)
      /\ Len(trail) \in i..Len(trail) /\ i <= Len(trail)
  BY <1>1
<1>4. CASE p <= i
  <2>1. Elapsed(trail[p], trail[j], ProgressTime)
    <3>1. j <= j /\ p <= i
      BY <1>4
    <3> QED BY <1>1, <1>3, <3>1, ElapsedGrows
  <2>2. j > p
    BY <1>3, <1>4
  <2> QED BY <1>2, <1>3, <2>1, <2>2 DEF WindowOpen
<1>5. CASE p > i /\ j <= p - 1
  <2>1. j \in i..(p - 1)
    BY <1>3, <1>5
  <2> QED BY <1>2, <2>1 DEF WindowOpen
<1>6. CASE p > i /\ p <= j
  <2>1. Elapsed(trail[p], trail[Len(trail)], ProgressTime)
    <3>1. Elapsed(trail[j], trail[Len(trail)], ProgressTime)
      BY DEF Latest
    <3>2. Len(trail) <= Len(trail)
      BY <1>1
    <3> QED BY <1>1, <1>3, <1>6, <3>1, <3>2, ElapsedGrows
  <2>2. CASE p < Len(trail)
    <3>1. Len(trail) > p
      BY <1>1, <2>2
    <3> QED BY <1>2, <1>3, <2>1, <3>1 DEF WindowOpen
  <2>3. CASE p = Len(trail)
    <3>1. /\ trail[i].at \in Nat /\ trail[i].stamp \in Int
          /\ trail[p].at \in Nat /\ trail[p].stamp \in Int
      BY <1>3, TrailTypes DEF MonitorInv
    <3>2. Elapsed(trail[p], trail[p], ProgressTime)
      BY <2>1, <2>3
    <3>3. Elapsed(trail[i], trail[i], ProgressTime)
      <4>1. trail[p].at - trail[p].at >= ProgressTime
        BY <3>2 DEF Elapsed
      <4>2. 0 >= ProgressTime
        BY <1>1, <3>1, <4>1
      <4>3. trail[i].at \in Int /\ trail[i].stamp \in Int
        BY <3>1
      <4> QED BY <4>2, <4>3, NothingElapsed
    <3>4. i \in i..(p - 1)
      BY <1>3, <1>6
    <3> QED BY <1>2, <3>3, <3>4 DEF WindowOpen
  <2> QED BY <1>1, <2>2, <2>3
<1> QED BY <1>1, <1>4, <1>5, <1>6

LEMMA NoneIsNoSample == None \notin Sample
BY NoneAssumption

\* A sample that moves on is watched from the window that is open, or opens one.
LEMMA WatchedMove ==
  ASSUME MonitorInv, Ordered, Ordered', ProgressIsMeasured, WanderingIsWatched,
         verdict # "stalled", NEW e \in Sample, Accept(e), Move(e), now <= e.at
  PROVE  WanderingIsWatched'
<1>1. /\ Len(trail) \in Nat /\ Len(trail') = Len(trail) + 1
      /\ \A j \in 1..Len(trail) : trail'[j] = trail[j]
      /\ trail'[Len(trail) + 1] = e /\ trail'[Len(trail')] = e
  BY AcceptLemma DEF MonitorInv
<1> SUFFICES ASSUME verdict' # "stalled", NEW i \in 1..Len(trail'), Wanders(i)'
             PROVE  \E p \in 1..Len(trail') : WindowOpen(i, p)'
  BY DEF WanderingIsWatched
<1>2. /\ \A k \in i..Len(trail') : ~trail'[k].stopped /\ ~Inside(trail'[k].pose)
      /\ \A k, l \in i..Len(trail') : k < l => ~Improved(trail'[k], trail'[l])
  BY DEF Wanders
<1>3. ~Inside(e.pose)
  BY <1>1, <1>2
<1>4. ASSUME i \in 1..Len(trail) PROVE \E p \in 1..Len(trail) : WindowOpen(i, p)
  <2>1. \A k \in i..Len(trail) : k \in i..Len(trail') /\ trail'[k] = trail[k]
    BY <1>1, <1>4
  <2>2. Wanders(i)
    BY <1>2, <2>1 DEF Wanders
  <2> QED BY <1>4, <2>2 DEF WanderingIsWatched
<1>5. ASSUME NEW p \in 1..Len(trail), trail[p] = progress, progress' = progress,
             ~WindowOver(e), i = Len(trail') \/ WindowOpen(i, p)
      PROVE  WindowOpen(i, p)'
  <2>1. trail'[p] = progress' /\ p < Len(trail')
    BY <1>1, <1>5
  <2>2. ASSUME NEW k \in i..Len(trail'), k > p
        PROVE  ~Elapsed(trail'[p], trail'[k], ProgressTime)
    <3>1. CASE k = Len(trail')
      BY <1>1, <1>5, <3>1 DEF WindowOver
    <3>2. CASE k # Len(trail')
      <4>1. k \in i..Len(trail) /\ k \in 1..Len(trail) /\ i # Len(trail')
        BY <1>1, <3>2, BeforeLast
      <4> QED BY <1>1, <1>5, <2>2, <4>1 DEF WindowOpen
    <3> QED BY <3>1, <3>2
  <2>3. ASSUME NEW k \in i..(p - 1) PROVE ~Elapsed(trail'[i], trail'[k], ProgressTime)
    <3>1. /\ i # Len(trail') /\ k \in 1..Len(trail) /\ i \in 1..Len(trail)
      BY <1>1
    <3> QED BY <1>1, <1>5, <3>1 DEF WindowOpen
  <2> QED BY <2>1, <2>2, <2>3 DEF WindowOpen
<1>6. ASSUME progress' = e, \A k \in i..Len(trail) : ~Elapsed(trail[i], trail[k], ProgressTime)
      PROVE  \E p \in 1..Len(trail') : WindowOpen(i, p)'
  <2> SUFFICES ASSUME NEW n, n = Len(trail') PROVE WindowOpen(i, n)' /\ n \in 1..Len(trail')
    OBVIOUS
  <2>0. n \in 1..Len(trail')
    BY <1>1
  <2>1. trail'[n] = progress'
    BY <1>1, <1>6
  <2>2. \A k \in i..Len(trail') : ~(k > n)
    BY <1>1
  <2>3. ASSUME NEW k \in i..(n - 1)
        PROVE  ~Elapsed(trail'[i], trail'[k], ProgressTime)
    <3>1. k \in i..Len(trail) /\ k \in 1..Len(trail) /\ i \in 1..Len(trail)
      BY <1>1
    <3> QED BY <1>1, <1>6, <3>1
  <2> QED BY <2>0, <2>1, <2>2, <2>3 DEF WindowOpen
<1>7. Len(trail') \in 1..Len(trail') /\ \A p \in 1..Len(trail) : p \in 1..Len(trail')
  BY <1>1
<1>8. CASE i = Len(trail')
  <2>1. CASE progress' = e
    <3>1. \A k \in i..Len(trail) : FALSE
      BY <1>1, <1>8
    <3> QED BY <1>6, <2>1, <3>1
  <2>2. CASE progress' = progress /\ progress # None /\ ~WindowOver(e)
    <3>1. SinceCorrection(corrections) \in 1..(Len(trail) + 1)
      <4>1. corrections = Len(corrected) /\ corrections \in Nat
        BY DEF MonitorInv, TypeOK, CorrectionsJustified
      <4> QED BY <4>1, SinceLemma DEF MonitorInv
    <3>2. PICK p \in SinceCorrection(corrections)..Len(trail) : trail[p] = progress
      BY <2>2 DEF ProgressIsMeasured
    <3>3. p \in 1..Len(trail)
      BY <1>1, <3>1, <3>2
    <3> QED BY <1>5, <1>7, <1>8, <2>2, <3>2, <3>3
  <2> QED BY <1>3, <2>1, <2>2 DEF Move
<1>9. CASE i # Len(trail')
  <2>1. i \in 1..Len(trail)
    BY <1>1, <1>9
  <2>2. PICK p \in 1..Len(trail) : WindowOpen(i, p)
    BY <1>4, <2>1
  <2>3. trail[p] = progress
    BY <2>2 DEF WindowOpen
  <2>4. progress # None
    <3>1. trail[p] \in Sample
      BY DEF MonitorInv, TypeOK
    <3> QED BY <2>3, <3>1, NoneIsNoSample
  <2>5. CASE progress' = progress /\ ~WindowOver(e)
    BY <1>5, <1>7, <2>2, <2>3, <2>5
  <2>6. CASE progress' = e /\ Improved(progress, e)
    <3>1. p < i
      <4> SUFFICES ASSUME p >= i PROVE FALSE
        BY <1>1
      <4>1. p \in i..Len(trail') /\ Len(trail') \in i..Len(trail') /\ p < Len(trail')
        BY <1>1, <2>1
      <4>2. ~Improved(trail'[p], trail'[Len(trail')])
        BY <1>2, <4>1
      <4> QED BY <1>1, <2>3, <2>6, <4>2
    <3>2. ASSUME NEW k \in i..Len(trail), Elapsed(trail[i], trail[k], ProgressTime)
          PROVE  FALSE
      <4>1. k \in 1..Len(trail) /\ k <= k /\ p <= i /\ k > p /\ ProgressTime \in Nat
        BY <1>1, <2>1, <3>1
      <4>2. Elapsed(trail[p], trail[k], ProgressTime)
        BY <2>1, <3>2, <4>1, ElapsedGrows
      <4> QED BY <2>2, <4>1, <4>2 DEF WindowOpen
    <3> QED BY <1>6, <2>6, <3>2
  <2> QED BY <1>3, <2>4, <2>5, <2>6 DEF Move, Hopeful
<1> QED BY <1>8, <1>9

LEMMA WatchedNext ==
  MonitorInv /\ Ordered /\ ProgressIsMeasured /\ WanderingIsWatched /\ [Next]_vars
    => Ordered' /\ WanderingIsWatched'
<1> SUFFICES ASSUME MonitorInv, Ordered, ProgressIsMeasured, WanderingIsWatched, [Next]_vars
             PROVE  Ordered' /\ WanderingIsWatched'
  OBVIOUS
<1>1. CASE /\ UNCHANGED <<progress, trail>> /\ now <= now' /\ now' \in Nat
           /\ verdict' # "stalled" => verdict # "stalled"
  <2>1. /\ now \in Nat /\ now' \in Int /\ trail' = trail
        /\ \A i \in 1..Len(trail) : trail[i].at \in Nat
    BY <1>1, TrailTypes DEF MonitorInv, TypeOK
  <2>2. Ordered'
    <3>1. ASSUME NEW i \in 1..Len(trail) PROVE trail[i].at <= now'
      <4>1. trail[i].at <= now
        BY DEF Ordered
      <4> QED BY <1>1, <2>1, <4>1
    <3> QED BY <2>1, <3>1 DEF Ordered
  <2>3. WanderingIsWatched'
    BY <1>1 DEF WanderingIsWatched, Wanders, WindowOpen
  <2> QED BY <2>2, <2>3
<1>2. ASSUME NEW d \in Step, NEW stamp \in Stamps, NEW pose \in Pose, NEW stopped \in BOOLEAN,
             Accept([at |-> now + d, stamp |-> stamp, pose |-> pose, stopped |-> stopped]),
             verdict # "stalled"
      PROVE  Ordered' /\ WanderingIsWatched'
  <2> DEFINE e == [at |-> now + d, stamp |-> stamp, pose |-> pose, stopped |-> stopped]
  <2>1. e \in Sample /\ now <= e.at
    <3>1. stamp \in Int
      <4>1. IsNew(stamp) /\ TypeOK
        BY <1>2 DEF Accept, MonitorInv
      <4> QED BY <4>1, StampLemma
    <3>2. now \in Nat
      BY DEF TypeOK, MonitorInv
    <3>3. now + d \in Nat /\ now <= now + d
      BY <3>2
    <3> QED BY <3>1, <3>3 DEF Sample
  <2>2. Accept(e)
    BY <1>2
  <2> HIDE DEF e
  <2>3. Ordered'
    BY <2>1, <2>2, OrderedAccept
  <2>4. CASE Move(e)
    BY <1>2, <2>1, <2>2, <2>3, <2>4, WatchedMove
  <2>5. CASE e.stopped
    <3>1. /\ Len(trail') \in Nat /\ trail'[Len(trail')] = e
          /\ \A i \in 1..Len(trail') : Len(trail') \in i..Len(trail')
      BY <2>1, <2>2, AcceptLemma DEF MonitorInv
    <3>2. \A i \in 1..Len(trail') : ~Wanders(i)'
      BY <2>5, <3>1 DEF Wanders
    <3> QED BY <2>3, <3>2 DEF WanderingIsWatched
  <2> QED BY <2>2, <2>4, <2>5 DEF Accept, Settle, StandOutside
<1>3. ASSUME NEW d \in Step PROVE now <= now + d /\ now + d \in Nat
  <2>1. now \in Nat
    BY DEF MonitorInv, TypeOK
  <2> QED BY <2>1
<1>4. now <= now /\ now \in Nat
  BY DEF MonitorInv, TypeOK
<1> QED BY <1>1, <1>2, <1>3, <1>4 DEF Next, Stale, Ignore, vars

\* Every reachable state of the monitor is well-typed: what is returned by
\* update is always one of its results.
THEOREM MonitorTypes == Spec => []TypeOK
<1>1. MonitorInv => TypeOK
  BY DEF MonitorInv
<1> QED BY <1>1, MonitorInvariant, PTL

\* The latest samples before a reported arrival were all taken at rest within
\* the tolerances, long enough by both clocks, whatever their rates.
THEOREM ArrivalsAreMeasured == Spec => []ArrivalIsMeasured
<1>1. MonitorInv => ArrivalIsMeasured
  BY DEF MonitorInv
<1> QED BY <1>1, MonitorInvariant, PTL

\* The budget of corrections is kept, and each of them, like the failure for
\* want of another, follows a stop of its own away from the goal.
THEOREM CorrectionsAreJustified == Spec => []CorrectionsJustified
<1>1. MonitorInv => CorrectionsJustified
  BY DEF MonitorInv
<1> QED BY <1>1, MonitorInvariant, PTL

\* A command that is not reported stale has been watched without a gap longer
\* than the policy allows.
THEOREM SeesAllAlong == Spec => []NeverBlind
<1>1. MonitorInv => NeverBlind
  BY DEF MonitorInv
<1> QED BY <1>1, MonitorInvariant, PTL

\* A command fails as stalled only for want of progress over a whole window, by
\* both clocks, that lies since its latest correction.
THEOREM StallsAreReal == Spec => []StallIsReal
<1>1. Init => ProgressIsMeasured /\ StallIsReal
  BY DEF Init, ProgressIsMeasured, StallIsReal
<1> QED BY <1>1, StallNext, MonitorInvariant, PTL DEF Spec

\* Whatever the rates of the clocks, a robot that wanders without an
\* improvement is failed at the latest when two windows have passed: the window
\* of one of its samples stays open, and is found over.
THEOREM StallsAreNoticed == Spec => []StallIsNoticed
<1>1. Init => ProgressIsMeasured /\ StallIsReal /\ Ordered /\ WanderingIsWatched
  <2>1. Init => trail = <<>> /\ ProgressIsMeasured /\ StallIsReal
    BY DEF Init, ProgressIsMeasured, StallIsReal
  <2>2. trail = <<>> => \A i \in 1..Len(trail) : FALSE
    OBVIOUS
  <2> QED BY <2>1, <2>2 DEF Ordered, WanderingIsWatched
<1>2. MonitorInv /\ Ordered /\ WanderingIsWatched => StallIsNoticed
  BY WatchedIsNoticed
<1> QED BY <1>1, <1>2, StallNext, WatchedNext, MonitorInvariant, PTL DEF Spec

=============================================================================
