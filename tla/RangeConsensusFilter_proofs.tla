--------------------- MODULE RangeConsensusFilter_proofs ---------------------
(***************************************************************************)
(* The filter's streaks mean what their names say, for every configuration *)
(* and every history: FilterInv is inductive, and TrustIsConsensus and     *)
(* StsStreakCounts follow from it.                                         *)
(***************************************************************************)
EXTENDS RangeConsensusFilter, TLAPS

(***************************************************************************)
(* The streak is the length, capped at K, of the longest suffix of the     *)
(* history whose readings agree; the last distance is that of the last     *)
(* reading if it was plausible.                                            *)
(***************************************************************************)
LastDistanceKnown ==
    IF readings # <<>> /\ PlausibleAt(readings, Len(readings))
    THEN m_lastDistance = Clamped(readings[Len(readings)].distance) /\ m_agreeingStreak >= 1
    ELSE m_lastDistance = NoDistance /\ m_agreeingStreak = 0

AgreementIsLongest ==
    /\ LastAgree(readings, m_agreeingStreak)
    /\ m_agreeingStreak < RequiredConsensusCount => ~ LastAgree(readings, m_agreeingStreak + 1)

FilterInv ==
    /\ FilterTypeOK
    /\ LastDistanceKnown
    /\ AgreementIsLongest
    /\ StsStreakCounts
    /\ m_trusted <=> m_agreeingStreak = RequiredConsensusCount

-----------------------------------------------------------------------------
(***************************************************************************)
(* Histories.  rs is a history and more the same with one more reading.    *)
(***************************************************************************)
Prolongs(more, rs) ==
    /\ rs \in Seq(Reading)
    /\ more \in Seq(Reading)
    /\ Len(more) = Len(rs) + 1
    /\ \A i \in 1 .. Len(rs) : more[i] = rs[i]

LEMMA AppendProlongs ==
    ASSUME NEW rs \in Seq(Reading), NEW r \in Reading
    PROVE  Prolongs(Append(rs, r), rs) /\ Append(rs, r)[Len(rs) + 1] = r
BY DEF Prolongs

\* A suffix of an agreeing suffix agrees.
LEMMA LastAgreeShorter ==
    ASSUME NEW rs \in Seq(Reading), NEW m \in Nat, NEW n \in Nat, m <= n, LastAgree(rs, n)
    PROVE  LastAgree(rs, m)
BY DEF LastAgree

\* A plausible reading that agrees with the last one prolongs every suffix.
LEMMA AgreementGrows ==
    ASSUME NEW rs, NEW more, Prolongs(more, rs), NEW n \in Nat, n >= 1,
           PlausibleAt(more, Len(more)), AgreesAt(more, Len(more))
    PROVE  LastAgree(more, n + 1) <=> LastAgree(rs, n)
<1> DEFINE last == Len(rs)
<1>1. last \in Nat /\ Len(more) = last + 1
  BY DEF Prolongs
<1>2. \A i \in 1 .. last : PlausibleAt(more, i) <=> PlausibleAt(rs, i)
  BY DEF Prolongs, PlausibleAt
<1>3. \A i \in 2 .. last : AgreesAt(more, i) <=> AgreesAt(rs, i)
  <2> SUFFICES ASSUME NEW i \in 2 .. last PROVE AgreesAt(more, i) <=> AgreesAt(rs, i)
    OBVIOUS
  <2>1. more[i] = rs[i] /\ more[i - 1] = rs[i - 1]
    BY <1>1 DEF Prolongs
  <2> QED BY <2>1 DEF AgreesAt
<1>4. ASSUME LastAgree(rs, n) PROVE LastAgree(more, n + 1)
  <2>1. n <= last
    BY <1>4 DEF LastAgree
  <2>2. ASSUME NEW i \in last + 1 - (n + 1) + 1 .. last + 1 PROVE PlausibleAt(more, i)
    <3>1. CASE i = last + 1
      BY <3>1, <1>1
    <3>2. CASE i # last + 1
      BY <3>2, <1>1, <1>2, <1>4, <2>1 DEF LastAgree
    <3> QED BY <3>1, <3>2
  <2>3. ASSUME NEW i \in last + 1 - (n + 1) + 2 .. last + 1 PROVE AgreesAt(more, i)
    <3>1. CASE i = last + 1
      BY <3>1, <1>1
    <3>2. CASE i # last + 1
      <4>1. i \in 2 .. last /\ i \in last - n + 2 .. last
        BY <3>2, <1>1, <2>1
      <4> QED BY <4>1, <1>3, <1>4 DEF LastAgree
    <3> QED BY <3>1, <3>2
  <2> QED BY <1>1, <2>1, <2>2, <2>3 DEF LastAgree
<1>5. ASSUME LastAgree(more, n + 1) PROVE LastAgree(rs, n)
  <2>1. n <= last
    BY <1>1, <1>5 DEF LastAgree
  <2>2. ASSUME NEW i \in last - n + 1 .. last PROVE PlausibleAt(rs, i)
    BY <1>1, <1>2, <1>5, <2>1 DEF LastAgree
  <2>3. ASSUME NEW i \in last - n + 2 .. last PROVE AgreesAt(rs, i)
    <3>1. i \in 2 .. last /\ i \in last + 1 - (n + 1) + 2 .. last + 1
      BY <1>1, <2>1
    <3>2. AgreesAt(more, i)
      BY <3>1, <1>1, <1>5 DEF LastAgree
    <3> QED BY <3>1, <3>2, <1>3
  <2> QED BY <2>1, <2>2, <2>3 DEF LastAgree
<1> QED BY <1>4, <1>5

\* A plausible reading that agrees with none before is a suffix of its own.
LEMMA AgreementRestarts ==
    ASSUME NEW rs \in Seq(Reading), Len(rs) >= 1, PlausibleAt(rs, Len(rs)),
           Len(rs) >= 2 => ~ PlausibleAt(rs, Len(rs) - 1) \/ ~ AgreesAt(rs, Len(rs))
    PROVE  LastAgree(rs, 1) /\ ~ LastAgree(rs, 2)
<1> DEFINE last == Len(rs)
<1>1. last \in Nat /\ last >= 1
  OBVIOUS
<1>2. LastAgree(rs, 1)
  <2>1. \A i \in last - 1 + 1 .. last : PlausibleAt(rs, i)
    <3> SUFFICES ASSUME NEW i \in last - 1 + 1 .. last PROVE PlausibleAt(rs, i)
      OBVIOUS
    <3>1. i = last
      BY <1>1
    <3> QED BY <3>1
  <2>2. \A i \in last - 1 + 2 .. last : AgreesAt(rs, i)
    BY <1>1
  <2> QED BY <1>1, <2>1, <2>2 DEF LastAgree
<1>3. ASSUME LastAgree(rs, 2) PROVE FALSE
  <2>1. last >= 2
    BY <1>3, <1>1 DEF LastAgree
  <2>2. last - 1 \in last - 2 + 1 .. last /\ last \in last - 2 + 2 .. last
    BY <1>1
  <2>3. PlausibleAt(rs, last - 1) /\ AgreesAt(rs, last)
    BY <1>3, <2>2 DEF LastAgree
  <2> QED BY <2>1, <2>3
<1> QED BY <1>2, <1>3

\* An implausible reading leaves no suffix but the empty one.
LEMMA NothingAgrees ==
    ASSUME NEW rs \in Seq(Reading), Len(rs) >= 1, ~ PlausibleAt(rs, Len(rs))
    PROVE  LastAgree(rs, 0) /\ ~ LastAgree(rs, 1)
<1>1. LastAgree(rs, 0)
  BY DEF LastAgree
<1>2. ASSUME LastAgree(rs, 1) PROVE FALSE
  <2>1. Len(rs) \in Len(rs) - 1 + 1 .. Len(rs)
    OBVIOUS
  <2> QED BY <1>2, <2>1 DEF LastAgree
<1> QED BY <1>1, <1>2

\* The same three facts about the readings that passed their STS.
LEMMA LastPassedShorter ==
    ASSUME NEW rs \in Seq(Reading), NEW m \in Nat, NEW n \in Nat, m <= n, LastPassed(rs, n)
    PROVE  LastPassed(rs, m)
BY DEF LastPassed

LEMMA PassedGrows ==
    ASSUME NEW rs, NEW more, Prolongs(more, rs), NEW n \in Nat, PassedAt(more, Len(more))
    PROVE  LastPassed(more, n + 1) <=> LastPassed(rs, n)
<1> DEFINE last == Len(rs)
<1>1. last \in Nat /\ Len(more) = last + 1
  BY DEF Prolongs
<1>2. \A i \in 1 .. last : PassedAt(more, i) <=> PassedAt(rs, i)
  BY DEF Prolongs, PassedAt, PlausibleAt
<1>3. ASSUME LastPassed(rs, n) PROVE LastPassed(more, n + 1)
  <2>1. n <= last
    BY <1>3 DEF LastPassed
  <2>2. ASSUME NEW i \in last + 1 - (n + 1) + 1 .. last + 1 PROVE PassedAt(more, i)
    <3>1. CASE i = last + 1
      BY <3>1, <1>1
    <3>2. CASE i # last + 1
      BY <3>2, <1>1, <1>2, <1>3, <2>1 DEF LastPassed
    <3> QED BY <3>1, <3>2
  <2> QED BY <1>1, <2>1, <2>2 DEF LastPassed
<1>4. ASSUME LastPassed(more, n + 1) PROVE LastPassed(rs, n)
  <2>1. n <= last
    BY <1>1, <1>4 DEF LastPassed
  <2>2. ASSUME NEW i \in last - n + 1 .. last PROVE PassedAt(rs, i)
    BY <1>1, <1>2, <1>4, <2>1 DEF LastPassed
  <2> QED BY <2>1, <2>2 DEF LastPassed
<1> QED BY <1>3, <1>4

LEMMA NonePassed ==
    ASSUME NEW rs \in Seq(Reading), Len(rs) >= 1, ~ PassedAt(rs, Len(rs))
    PROVE  LastPassed(rs, 0) /\ ~ LastPassed(rs, 1)
<1>1. LastPassed(rs, 0)
  BY DEF LastPassed
<1>2. ASSUME LastPassed(rs, 1) PROVE FALSE
  <2>1. Len(rs) \in Len(rs) - 1 + 1 .. Len(rs)
    OBVIOUS
  <2> QED BY <1>2, <2>1 DEF LastPassed
<1> QED BY <1>1, <1>2

\* A reading that passed joins the run; where none is the last, the run is empty.
LEMMA RunGrows ==
    ASSUME NEW rs, NEW more, Prolongs(more, rs), PassedAt(more, Len(more))
    PROVE  PassedRun(more) = PassedRun(rs) \cup {Len(more)}
<1>1. rs \in Seq(Reading) /\ Len(rs) \in Nat /\ Len(more) = Len(rs) + 1
  BY DEF Prolongs
<1>2. ASSUME NEW i \in 1 .. Len(rs)
      PROVE  LastPassed(more, Len(more) - i + 1) <=> LastPassed(rs, Len(rs) - i + 1)
  <2>1. Len(rs) - i + 1 \in Nat /\ Len(more) - i + 1 = (Len(rs) - i + 1) + 1
    BY <1>1
  <2> QED BY <2>1, PassedGrows
<1>3. LastPassed(more, Len(more) - Len(more) + 1)
  <2>1. LastPassed(rs, 0)
    BY <1>1 DEF LastPassed
  <2>2. LastPassed(more, 0 + 1)
    BY <2>1, PassedGrows
  <2> QED BY <1>1, <2>2
<1>4. 1 .. Len(more) = (1 .. Len(rs)) \cup {Len(more)} /\ Len(more) \notin 1 .. Len(rs)
  BY <1>1
<1> QED BY <1>2, <1>3, <1>4 DEF PassedRun

LEMMA RunEmpty ==
    ASSUME NEW rs \in Seq(Reading), ~ LastPassed(rs, 1)
    PROVE  PassedRun(rs) = {}
<1> SUFFICES ASSUME NEW i \in 1 .. Len(rs), LastPassed(rs, Len(rs) - i + 1) PROVE FALSE
  BY DEF PassedRun
<1>1. Len(rs) - i + 1 \in Nat /\ 1 <= Len(rs) - i + 1
  OBVIOUS
<1> QED BY <1>1, LastPassedShorter

-----------------------------------------------------------------------------
\* The cleared filter and the report of an implausible reading have their types.
LEMMA ClearedTypes ==
    /\ 0 \in 0 .. RequiredConsensusCount
    /\ [isPlausible |-> FALSE, stsQualityPassed |-> FALSE, consecutiveAgreeingCount |-> 0,
        stsValidStreak |-> 0, isTrusted |-> FALSE] \in Report
    /\ FALSE \in BOOLEAN
    /\ 0 \in Int
    /\ <<>> \in Seq(Reading)
<1>1. 0 \in 0 .. RequiredConsensusCount
  BY FilterAssumption
<1>2. <<>> \in Seq(Reading) /\ 0 \in Int
  OBVIOUS
<1> QED BY <1>1, <1>2, Zenon DEF Report

LEMMA FilterInvInit == FilterInit => FilterInv
<1> SUFFICES ASSUME FilterInit PROVE FilterInv
  OBVIOUS
<1> USE FilterAssumption DEF FilterInit
<1>1. FilterTypeOK
  BY ClearedTypes, Zenon DEF FilterTypeOK
<1>2. LastDistanceKnown
  BY DEF LastDistanceKnown
<1>3. AgreementIsLongest
  BY DEF AgreementIsLongest, LastAgree
<1>4. StsStreakCounts
  BY DEF StsStreakCounts, LastPassed
<1> QED BY <1>1, <1>2, <1>3, <1>4 DEF FilterInv

LEMMA ResetPreserves == FilterInv /\ Reset => FilterInv'
<1> SUFFICES ASSUME FilterInv, Reset PROVE FilterInv'
  OBVIOUS
<1> USE FilterAssumption DEF Reset, Cleared
<1>1. FilterTypeOK'
  BY ClearedTypes, Zenon DEF FilterInv, FilterTypeOK
<1>2. LastDistanceKnown'
  BY DEF LastDistanceKnown
<1>3. AgreementIsLongest'
  BY DEF AgreementIsLongest, LastAgree
<1>4. StsStreakCounts'
  BY DEF StsStreakCounts, LastPassed
<1> QED BY <1>1, <1>2, <1>3, <1>4 DEF FilterInv

\* What every ingestion does to the history.
LEMMA RememberProlongs ==
    ASSUME FilterTypeOK, NEW distance \in Int, NEW driverVerdict \in {-1, 0},
           NEW quality \in Int, Remember(distance, driverVerdict, quality)
    PROVE  /\ Prolongs(readings', readings)
           /\ readings'[Len(readings')] =
                  [distance |-> distance, driverVerdict |-> driverVerdict, quality |-> quality]
BY AppendProlongs DEF Remember, FilterTypeOK, Reading, Prolongs

LEMMA ImplausiblePreserves ==
    ASSUME FilterInv, NEW distance \in Int, NEW driverVerdict \in {-1, 0},
           NEW quality \in Int, IngestImplausible(distance, driverVerdict, quality)
    PROVE  FilterInv'
<1> USE FilterAssumption
<1>1. /\ Prolongs(readings', readings)
      /\ readings'[Len(readings')].distance = distance
  <2>1. Remember(distance, driverVerdict, quality)
    BY Zenon DEF IngestImplausible
  <2>2. FilterTypeOK
    BY DEF FilterInv
  <2>3. /\ Prolongs(readings', readings)
        /\ readings'[Len(readings')] =
               [distance |-> distance, driverVerdict |-> driverVerdict, quality |-> quality]
    BY <2>1, <2>2, RememberProlongs
  <2> QED BY <2>3
<1>2. readings' \in Seq(Reading) /\ Len(readings') >= 1
  BY <1>1 DEF Prolongs
<1>3. ~ PlausibleAt(readings', Len(readings'))
  BY <1>1 DEF PlausibleAt, IngestImplausible
<1>4. ~ PassedAt(readings', Len(readings'))
  BY <1>3 DEF PassedAt
<1>5. /\ m_lastDistance' = NoDistance /\ m_agreeingStreak' = 0 /\ m_stsPassedStreak' = 0
      /\ m_lowestQualityInStreak' = 0 /\ m_trusted' = FALSE
  BY DEF IngestImplausible, Cleared
<1>6. FilterTypeOK'
  BY <1>2, <1>5, ClearedTypes, Zenon DEF IngestImplausible, FilterTypeOK
<1>7. LastDistanceKnown'
  BY <1>3, <1>5 DEF LastDistanceKnown
<1>8. AgreementIsLongest'
  BY <1>2, <1>3, <1>5, NothingAgrees DEF AgreementIsLongest
<1>9. StsStreakCounts'
  BY <1>2, <1>4, <1>5, NonePassed DEF StsStreakCounts
<1> QED BY <1>5, <1>6, <1>7, <1>8, <1>9 DEF FilterInv

LEMMA PlausiblePreserves ==
    ASSUME FilterInv, NEW distance \in Int, NEW driverVerdict \in {-1, 0},
           NEW quality \in Int, IngestPlausible(distance, driverVerdict, quality)
    PROVE  FilterInv'
<1> USE FilterAssumption
<1> DEFINE K == RequiredConsensusCount
           more == readings'
<1>t. FilterTypeOK
  BY DEF FilterInv
<1>1. /\ Prolongs(more, readings)
      /\ more[Len(more)] =
             [distance |-> distance, driverVerdict |-> driverVerdict, quality |-> quality]
  BY <1>t, RememberProlongs DEF IngestPlausible
<1>2. readings \in Seq(Reading) /\ more \in Seq(Reading) /\ Len(more) = Len(readings) + 1
  BY <1>1 DEF Prolongs
<1>3. PlausibleAt(more, Len(more))
  BY <1>1 DEF PlausibleAt, IngestPlausible
<1>4. m_lastDistance' = Clamped(distance) /\ Clamped(distance) \in Nat
  BY DEF IngestPlausible, Clamped
<1>5. m_agreeingStreak' \in 1 .. K
  BY <1>t DEF IngestPlausible, CountAgreement, Longer, FilterTypeOK
<1>6. FilterTypeOK'
  <2>1. m_stsPassedStreak' \in 0 .. K /\ m_lowestQualityInStreak' \in Int
    BY <1>t DEF IngestPlausible, CountSts, Longer, FilterTypeOK
  <2>2. m_trusted' \in BOOLEAN /\ EvaluateStsQuality(driverVerdict, quality) \in BOOLEAN
    BY DEF IngestPlausible, EvaluateStsQuality
  <2>3. report' \in Report
    BY <1>5, <2>1, <2>2 DEF IngestPlausible, Report
  <2> QED BY <1>2, <1>4, <1>5, <2>1, <2>2, <2>3 DEF FilterTypeOK
<1>7. LastDistanceKnown'
  BY <1>1, <1>2, <1>3, <1>4, <1>5 DEF LastDistanceKnown
<1>8. m_trusted' <=> m_agreeingStreak' = K
  <2>1. m_trusted' = (m_agreeingStreak' >= K)
    BY Zenon DEF IngestPlausible
  <2>2. (m_agreeingStreak' >= K) <=> m_agreeingStreak' = K
    BY <1>5
  <2> QED BY <2>1, <2>2, Zenon
<1>9. AgreementIsLongest'
  <2>1. CASE m_lastDistance # NoDistance /\ Agrees(Clamped(distance), m_lastDistance)
    <3>1. /\ Len(readings) >= 1
          /\ m_lastDistance = Clamped(readings[Len(readings)].distance)
          /\ m_agreeingStreak \in 1 .. K
      BY <2>1, <1>t DEF FilterInv, LastDistanceKnown, FilterTypeOK
    <3>2. AgreesAt(more, Len(more))
      <4>1. more[Len(more) - 1] = readings[Len(readings)]
        BY <1>1, <1>2, <3>1 DEF Prolongs
      <4> QED BY <4>1, <1>1, <2>1, <3>1 DEF AgreesAt
    <3>3. \A n \in Nat : n >= 1 => (LastAgree(more, n + 1) <=> LastAgree(readings, n))
      BY <3>2, <1>1, <1>3, AgreementGrows
    <3>4. m_agreeingStreak' = Longer(m_agreeingStreak)
      BY <2>1 DEF IngestPlausible, CountAgreement
    <3>5. LastAgree(readings, m_agreeingStreak)
      BY DEF FilterInv, AgreementIsLongest
    <3>6. CASE m_agreeingStreak < K
      <4>1. m_agreeingStreak' = m_agreeingStreak + 1
        BY <3>4, <3>6 DEF Longer
      <4>2. ~ LastAgree(readings, m_agreeingStreak + 1)
        BY <3>6 DEF FilterInv, AgreementIsLongest
      <4>3. LastAgree(more, m_agreeingStreak + 1)
        BY <3>1, <3>3, <3>5
      <4>4. ~ LastAgree(more, (m_agreeingStreak + 1) + 1)
        BY <3>1, <3>3, <4>2
      <4> QED BY <4>1, <4>3, <4>4 DEF AgreementIsLongest
    <3>7. CASE m_agreeingStreak = K
      <4>1. m_agreeingStreak' = m_agreeingStreak
        BY <3>4, <3>7 DEF Longer
      <4>2. LastAgree(more, m_agreeingStreak + 1)
        BY <3>1, <3>3, <3>5
      <4>3. LastAgree(more, m_agreeingStreak)
        BY <4>2, <3>1, <1>2, LastAgreeShorter
      <4> QED BY <4>1, <4>3, <3>7 DEF AgreementIsLongest
    <3> QED BY <3>1, <3>6, <3>7
  <2>2. CASE ~ (m_lastDistance # NoDistance /\ Agrees(Clamped(distance), m_lastDistance))
    <3>1. m_agreeingStreak' = 1
      BY <2>2 DEF IngestPlausible, CountAgreement
    <3>2. ASSUME Len(more) >= 2
          PROVE  ~ PlausibleAt(more, Len(more) - 1) \/ ~ AgreesAt(more, Len(more))
      <4>1. /\ more[Len(more) - 1] = readings[Len(readings)]
            /\ readings # <<>> /\ readings[Len(readings)] \in Reading
        BY <3>2, <1>1, <1>2 DEF Prolongs
      <4>2. CASE m_lastDistance = NoDistance
        <5>1. Clamped(readings[Len(readings)].distance) # NoDistance
          BY <4>1 DEF Clamped, NoDistance, Reading
        <5>2. ~ PlausibleAt(readings, Len(readings))
          BY <4>1, <4>2, <5>1 DEF FilterInv, LastDistanceKnown
        <5> QED BY <4>1, <5>2 DEF PlausibleAt
      <4>3. CASE m_lastDistance # NoDistance
        <5>1. m_lastDistance = Clamped(readings[Len(readings)].distance)
          BY <4>3 DEF FilterInv, LastDistanceKnown
        <5> QED BY <4>1, <4>3, <5>1, <2>2, <1>1 DEF AgreesAt
      <4> QED BY <4>2, <4>3
    <3>3. LastAgree(more, 1) /\ ~ LastAgree(more, 2)
      BY <3>2, <1>2, <1>3, AgreementRestarts
    <3> QED BY <3>1, <3>3 DEF AgreementIsLongest
  <2> QED BY <2>1, <2>2
<1>10. StsStreakCounts'
  <2>1. CASE EvaluateStsQuality(driverVerdict, quality)
    <3>1. PassedAt(more, Len(more))
      BY <1>1, <1>3, <2>1 DEF PassedAt
    <3>2. \A n \in Nat : LastPassed(more, n + 1) <=> LastPassed(readings, n)
      BY <3>1, <1>1, PassedGrows
    <3>3. m_stsPassedStreak' = Longer(m_stsPassedStreak) /\ m_stsPassedStreak \in 0 .. K
      BY <2>1, <1>t DEF IngestPlausible, CountSts, FilterTypeOK
    <3>4. LastPassed(readings, m_stsPassedStreak)
      BY DEF FilterInv, StsStreakCounts
    <3>5. /\ \E i \in PassedRun(more) : m_lowestQualityInStreak' = more[i].quality
          /\ \A i \in PassedRun(more) : m_lowestQualityInStreak' <= more[i].quality
      <4>1. PassedRun(more) = PassedRun(readings) \cup {Len(more)}
        BY <3>1, <1>1, RunGrows
      <4>2. \A i \in PassedRun(readings) : more[i] = readings[i] /\ readings[i].quality \in Int
        <5> SUFFICES ASSUME NEW i \in 1 .. Len(readings)
                     PROVE  more[i] = readings[i] /\ readings[i].quality \in Int
          BY DEF PassedRun
        <5>1. readings[i] \in Reading
          BY <1>t DEF FilterTypeOK
        <5> QED BY <1>1, <5>1 DEF Prolongs, Reading
      <4>3. more[Len(more)].quality = quality
        BY <1>1
      <4>4. m_lowestQualityInStreak' = IF m_stsPassedStreak = 0 \/ quality < m_lowestQualityInStreak
                                       THEN quality ELSE m_lowestQualityInStreak
        BY <2>1 DEF IngestPlausible, CountSts
      <4>5. m_lowestQualityInStreak \in Int
        BY <1>t DEF FilterTypeOK
      <4>6. CASE m_stsPassedStreak = 0
        <5>1. ~ LastPassed(readings, 1)
          BY <4>6 DEF FilterInv, StsStreakCounts
        <5>2. PassedRun(readings) = {}
          BY <5>1, <1>t, RunEmpty DEF FilterTypeOK
        <5> QED BY <4>1, <4>3, <4>4, <4>6, <5>2
      <4>7. CASE m_stsPassedStreak # 0
        <5>1. /\ \E i \in PassedRun(readings) : m_lowestQualityInStreak = readings[i].quality
              /\ \A i \in PassedRun(readings) : m_lowestQualityInStreak <= readings[i].quality
          BY <3>3, <4>7 DEF FilterInv, StsStreakCounts
        <5> HIDE DEF more
        <5> QED BY <4>1, <4>2, <4>3, <4>4, <4>5, <4>7, <5>1
      <4> QED BY <4>6, <4>7
    <3>6. CASE m_stsPassedStreak < K
      <4>1. m_stsPassedStreak' = m_stsPassedStreak + 1
        BY <3>3, <3>6 DEF Longer
      <4>2. ~ LastPassed(readings, m_stsPassedStreak + 1)
        BY <3>6 DEF FilterInv, StsStreakCounts
      <4>3. LastPassed(more, m_stsPassedStreak + 1)
        BY <3>2, <3>3, <3>4
      <4>4. ~ LastPassed(more, (m_stsPassedStreak + 1) + 1)
        BY <3>2, <3>3, <4>2
      <4> QED BY <4>1, <4>3, <4>4, <3>5 DEF StsStreakCounts
    <3>7. CASE m_stsPassedStreak = K
      <4>1. m_stsPassedStreak' = m_stsPassedStreak
        BY <3>3, <3>7 DEF Longer
      <4>2. LastPassed(more, m_stsPassedStreak + 1)
        BY <3>2, <3>3, <3>4
      <4>3. LastPassed(more, m_stsPassedStreak)
        BY <4>2, <3>3, <1>2, LastPassedShorter
      <4> QED BY <4>1, <4>3, <3>5, <3>7 DEF StsStreakCounts
    <3> QED BY <3>3, <3>6, <3>7
  <2>2. CASE ~ EvaluateStsQuality(driverVerdict, quality)
    <3>1. m_stsPassedStreak' = 0
      BY <2>2 DEF IngestPlausible, CountSts
    <3>2. ~ PassedAt(more, Len(more))
      BY <1>1, <2>2 DEF PassedAt
    <3> QED BY <3>1, <3>2, <1>2, NonePassed DEF StsStreakCounts
  <2> QED BY <2>1, <2>2
<1> QED BY <1>6, <1>7, <1>8, <1>9, <1>10 DEF FilterInv

LEMMA FilterInvStep == FilterInv /\ [FilterNext]_filterVars => FilterInv'
<1> SUFFICES ASSUME FilterInv, [FilterNext]_filterVars PROVE FilterInv'
  OBVIOUS
<1>1. CASE Reset
  BY <1>1, ResetPreserves
<1>2. ASSUME NEW distance \in Distances, NEW driverVerdict \in {-1, 0},
             NEW quality \in Qualities, Ingest(distance, driverVerdict, quality)
      PROVE  FilterInv'
  <2>1. distance \in Int /\ quality \in Int
    BY FilterAssumption
  <2> QED BY <2>1, <1>2, ImplausiblePreserves, PlausiblePreserves DEF Ingest
<1>3. CASE UNCHANGED filterVars
  BY <1>3 DEF filterVars, FilterInv, FilterTypeOK, LastDistanceKnown, AgreementIsLongest,
              StsStreakCounts, PassedRun
<1> QED BY <1>1, <1>2, <1>3 DEF FilterNext

\* Between K and the longest agreeing suffix there is nothing to choose.
LEMMA FilterInvImplies == FilterInv => FilterTypeOK /\ TrustIsConsensus /\ StsStreakCounts
<1> SUFFICES ASSUME FilterInv PROVE TrustIsConsensus
  BY DEF FilterInv
<1> USE FilterAssumption
<1>1. CASE m_agreeingStreak = RequiredConsensusCount
  BY <1>1 DEF FilterInv, AgreementIsLongest, TrustIsConsensus
<1>2. CASE m_agreeingStreak # RequiredConsensusCount
  <2>1. m_agreeingStreak \in Nat /\ m_agreeingStreak < RequiredConsensusCount
    BY <1>2 DEF FilterInv, FilterTypeOK
  <2>2. ~ LastAgree(readings, m_agreeingStreak + 1)
    BY <2>1 DEF FilterInv, AgreementIsLongest
  <2>3. ~ LastAgree(readings, RequiredConsensusCount)
    BY <2>1, <2>2, LastAgreeShorter DEF FilterInv, FilterTypeOK
  <2> QED BY <1>2, <2>3 DEF FilterInv, TrustIsConsensus
<1> QED BY <1>1, <1>2

-----------------------------------------------------------------------------
\* The type invariant, whatever the configuration.
THEOREM FilterTypeCorrect == FilterSpec => []FilterTypeOK
<1>1. FilterInv => FilterTypeOK
  BY FilterInvImplies
<1> QED BY <1>1, FilterInvInit, FilterInvStep, PTL DEF FilterSpec

\* The filter trusts exactly when the last K readings since the reset are
\* plausible and agree, whatever the configuration and the history.
THEOREM TrustCorrect == FilterSpec => []TrustIsConsensus
<1>1. FilterInv => TrustIsConsensus
  BY FilterInvImplies
<1> QED BY <1>1, FilterInvInit, FilterInvStep, PTL DEF FilterSpec

\* The STS streak counts the readings that passed, up to K, whatever the
\* configuration and the history.
THEOREM StsStreakCorrect == FilterSpec => []StsStreakCounts
<1>1. FilterInv => StsStreakCounts
  BY FilterInvImplies
<1> QED BY <1>1, FilterInvInit, FilterInvStep, PTL DEF FilterSpec

=============================================================================
