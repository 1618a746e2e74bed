------------------------ MODULE RangeConsensusFilter ------------------------
(***************************************************************************)
(* ranging::RangeConsensusFilter: the streaks of agreeing distances and of *)
(* passed STS verdicts it keeps, and the trust it derives from them.  The  *)
(* history variable readings holds everything ingested since the last      *)
(* reset by the session, so that what the filter says can be compared with *)
(* what it was told.  MaxReadings bounds the history.                      *)
(***************************************************************************)
EXTENDS Integers, Sequences

CONSTANTS
    MinPlausibleDistance, MaxPlausibleDistance,  \* mm, both included
    MaxConsecutiveSpread,                        \* mm
    RequiredConsensusCount,                      \* K
    MinimumStsQuality,                           \* minimumStsQualityThreshold
    Distances, Qualities,                        \* what may be ingested
    MaxReadings

ASSUME FilterAssumption ==
    /\ MinPlausibleDistance \in Int
    /\ MaxPlausibleDistance \in Nat
    /\ MaxConsecutiveSpread \in Nat
    /\ RequiredConsensusCount \in 1 .. 255
    /\ MinimumStsQuality \in Int
    /\ Distances \subseteq Int
    /\ Qualities \subseteq Int
    /\ MaxReadings \in Nat

VARIABLES
    m_lastDistance,           \* NoDistance or the last plausible distance
    m_agreeingStreak,
    m_stsPassedStreak,
    m_lowestQualityInStreak,
    m_trusted,
    report,                   \* the last RangeIntegrityReport
    readings                  \* history: [distance, driverVerdict, quality] ingested

filterVars == <<m_lastDistance, m_agreeingStreak, m_stsPassedStreak,
                m_lowestQualityInStreak, m_trusted, report, readings>>

\* A distance is never negative once it is stored.
NoDistance == -1

-----------------------------------------------------------------------------
EvaluatePlausibility(distance) ==
    MinPlausibleDistance <= distance /\ distance <= MaxPlausibleDistance

EvaluateStsQuality(driverVerdict, quality) ==
    driverVerdict >= 0 /\ quality >= MinimumStsQuality

\* Readings below zero are within the near-field tolerance: they count as 0.
Clamped(distance) == IF distance < 0 THEN 0 ELSE distance

Apart(a, b) == IF a < b THEN b - a ELSE a - b

Agrees(a, b) == Apart(a, b) <= MaxConsecutiveSpread

\* Slip (not used by the specification): a streak that is not capped.
LongerForever(streak) == streak + 1

\* A streak that counts up to K.
Longer(streak) == IF streak < RequiredConsensusCount THEN streak + 1 ELSE streak

-----------------------------------------------------------------------------
FilterInit ==
    /\ m_lastDistance = NoDistance
    /\ m_agreeingStreak = 0
    /\ m_stsPassedStreak = 0
    /\ m_lowestQualityInStreak = 0
    /\ m_trusted = FALSE
    /\ report = [isPlausible |-> FALSE, stsQualityPassed |-> FALSE,
                 consecutiveAgreeingCount |-> 0, stsValidStreak |-> 0, isTrusted |-> FALSE]
    /\ readings = <<>>

\* What reset does to the filter.
Cleared ==
    /\ m_lastDistance' = NoDistance
    /\ m_agreeingStreak' = 0
    /\ m_stsPassedStreak' = 0
    /\ m_lowestQualityInStreak' = 0
    /\ m_trusted' = FALSE

\* The session resets the filter (start, resumeWithAnchor).
Reset ==
    /\ Cleared
    /\ readings' = <<>>
    /\ UNCHANGED report

Remember(distance, driverVerdict, quality) ==
    /\ Len(readings) < MaxReadings
    /\ readings' = Append(readings, [distance |-> distance, driverVerdict |-> driverVerdict,
                                     quality |-> quality])

IngestImplausible(distance, driverVerdict, quality) ==
    /\ ~ EvaluatePlausibility(distance)
    /\ Remember(distance, driverVerdict, quality)
    /\ Cleared
    /\ report' = [isPlausible |-> FALSE, stsQualityPassed |-> FALSE,
                  consecutiveAgreeingCount |-> 0, stsValidStreak |-> 0, isTrusted |-> FALSE]

\* Slip: a failed STS does not end the streak.
CountStsPasses(driverVerdict, quality) ==
    IF EvaluateStsQuality(driverVerdict, quality)
    THEN /\ m_stsPassedStreak' = Longer(m_stsPassedStreak)
         /\ m_lowestQualityInStreak' =
                IF m_stsPassedStreak = 0 \/ quality < m_lowestQualityInStreak
                THEN quality ELSE m_lowestQualityInStreak
    ELSE UNCHANGED <<m_stsPassedStreak, m_lowestQualityInStreak>>

CountSts(driverVerdict, quality) ==
    IF EvaluateStsQuality(driverVerdict, quality)
    THEN /\ m_stsPassedStreak' = Longer(m_stsPassedStreak)
         /\ m_lowestQualityInStreak' =
                IF m_stsPassedStreak = 0 \/ quality < m_lowestQualityInStreak
                THEN quality ELSE m_lowestQualityInStreak
    ELSE /\ m_stsPassedStreak' = 0
         /\ m_lowestQualityInStreak' = quality

\* Slip: a jump does not count itself as the first of a new streak.
CountAgreementFromZero(distance) ==
    m_agreeingStreak' =
        IF m_lastDistance # NoDistance /\ Agrees(distance, m_lastDistance)
        THEN Longer(m_agreeingStreak) ELSE 0

CountAgreement(distance) ==
    m_agreeingStreak' =
        IF m_lastDistance # NoDistance /\ Agrees(distance, m_lastDistance)
        THEN Longer(m_agreeingStreak) ELSE 1

IngestPlausible(distance, driverVerdict, quality) ==
    /\ EvaluatePlausibility(distance)
    /\ Remember(distance, driverVerdict, quality)
    /\ CountSts(driverVerdict, quality)
    /\ CountAgreement(Clamped(distance))
    /\ m_lastDistance' = Clamped(distance)
    /\ m_trusted' = (m_agreeingStreak' >= RequiredConsensusCount)
    /\ report' = [isPlausible |-> TRUE,
                  stsQualityPassed |-> EvaluateStsQuality(driverVerdict, quality),
                  consecutiveAgreeingCount |-> m_agreeingStreak',
                  stsValidStreak |-> m_stsPassedStreak',
                  isTrusted |-> m_trusted']

Ingest(distance, driverVerdict, quality) ==
    \/ IngestImplausible(distance, driverVerdict, quality)
    \/ IngestPlausible(distance, driverVerdict, quality)

\* The session passes -1 as the verdict of a Final whose STS failed.
FilterNext ==
    \/ Reset
    \/ \E distance \in Distances, driverVerdict \in {-1, 0}, quality \in Qualities :
          Ingest(distance, driverVerdict, quality)

FilterSpec == FilterInit /\ [][FilterNext]_filterVars

-----------------------------------------------------------------------------
(***************************************************************************)
(* What the filter promises, in terms of what it was told.                 *)
(***************************************************************************)

\* The i-th reading of rs is plausible; it agrees with the one before it; it
\* passed its STS as well.
PlausibleAt(rs, i) == EvaluatePlausibility(rs[i].distance)

AgreesAt(rs, i) == Agrees(Clamped(rs[i].distance), Clamped(rs[i - 1].distance))

PassedAt(rs, i) ==
    PlausibleAt(rs, i) /\ EvaluateStsQuality(rs[i].driverVerdict, rs[i].quality)

\* The last n readings of rs are plausible and each agrees with its predecessor.
LastAgree(rs, n) ==
    /\ n <= Len(rs)
    /\ \A i \in Len(rs) - n + 1 .. Len(rs) : PlausibleAt(rs, i)
    /\ \A i \in Len(rs) - n + 2 .. Len(rs) : AgreesAt(rs, i)

\* The last n readings of rs are plausible and passed their STS.
LastPassed(rs, n) ==
    /\ n <= Len(rs)
    /\ \A i \in Len(rs) - n + 1 .. Len(rs) : PassedAt(rs, i)

\* The readings since the last that did not: all of them did.
PassedRun(rs) == {i \in 1 .. Len(rs) : LastPassed(rs, Len(rs) - i + 1)}

Reading == [distance : Int, driverVerdict : {-1, 0}, quality : Int]

Report == [isPlausible : BOOLEAN, stsQualityPassed : BOOLEAN,
           consecutiveAgreeingCount : 0 .. RequiredConsensusCount,
           stsValidStreak : 0 .. RequiredConsensusCount, isTrusted : BOOLEAN]

\* The type invariant.
FilterTypeOK ==
    /\ m_lastDistance \in Nat \cup {NoDistance}
    /\ m_agreeingStreak \in 0 .. RequiredConsensusCount
    /\ m_stsPassedStreak \in 0 .. RequiredConsensusCount
    /\ m_lowestQualityInStreak \in Int
    /\ m_trusted \in BOOLEAN
    /\ report \in Report
    /\ readings \in Seq(Reading)

\* isTrusted says exactly that the last K readings since the reset are
\* plausible and each agrees with the one before: no fewer are ever enough,
\* one implausible or one jump among them is seen, and a filter that
\* recovered trusts again after K.
TrustIsConsensus == m_trusted <=> LastAgree(readings, RequiredConsensusCount)

\* stsValidStreak counts the readings since the last that failed its STS or
\* was implausible, up to K.  The quality kept beside it is the lowest of these
\* readings, of all of them also when the count stays at K: that of the reading
\* that failed, or of an earlier streak, is not among them.
StsStreakCounts ==
    /\ LastPassed(readings, m_stsPassedStreak)
    /\ m_stsPassedStreak < RequiredConsensusCount => ~ LastPassed(readings, m_stsPassedStreak + 1)
    /\ m_stsPassedStreak > 0 =>
          /\ \E i \in PassedRun(readings) : m_lowestQualityInStreak = readings[i].quality
          /\ \A i \in PassedRun(readings) : m_lowestQualityInStreak <= readings[i].quality

=============================================================================
