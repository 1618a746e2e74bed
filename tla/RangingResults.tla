--------------------------- MODULE RangingResults ---------------------------
(***************************************************************************)
(* What the session makes of an exchange it has completed: the end of      *)
(* RangingSession::handleFinalDataReception, from the decoded Final_Data   *)
(* on, with the components it composes: the distance (DoubleSidedTwr), the *)
(* consensus filter, the angle's stability, and the first-path power.      *)
(*                                                                         *)
(* A sample is everything an exchange leaves to be judged: the exchange as *)
(* it happened and the rates of the two clocks; the responders Final_Data  *)
(* has a record of, in its order; whether the Final's STS was read and     *)
(* passed and its quality; the angle its PDoA stands for; and the powers   *)
(* the driver computed for it.                                             *)
(***************************************************************************)
EXTENDS RangeConsensusFilter, AoaStabilityDetector, DoubleSidedTwr

CONSTANTS
    Samples,
    AntennaDelayBias,
    ResponderIndex,          \* this node's
    MaxRespondersSupported,
    NlosMargin,              \* nlosMarginDbQ8
    Swings,                  \* how far from the reference an angle can be before its
                             \* first reading and after each one that may still jump
    NoResult

\* What the driver says of a power it could not compute.
NoPower == -32768

VARIABLES
    aoaEnabled,  \* m_nodeConfig.enableAoA, with a spacing that is not zero
    result       \* the last RangingResult, and the sample it is the result of

resultsVars == <<filterVars, aoaVars, aoaEnabled, result>>

-----------------------------------------------------------------------------
(***************************************************************************)
(* The distance.                                                           *)
(***************************************************************************)

\* The initiator's record of a responder; others have replied at other times.
RecordOf(s, responder) ==
    IF responder = ResponderIndex THEN PeerReport(s.exchange, s.a).pollToResponse
    ELSE (PeerReport(s.exchange, s.a).pollToResponse + 1000 * (responder + 1)) % D32

\* decodeFinalData takes so many records and no more.
Decodes(s) == Len(s.responders) <= MaxRespondersSupported

\* The first record with our index.
OwnRecord(s) ==
    CHOOSE i \in 1 .. Len(s.responders) :
        /\ s.responders[i] = ResponderIndex
        /\ \A j \in 1 .. i - 1 : s.responders[j] # ResponderIndex

HasOwnRecord(s) == \E i \in 1 .. Len(s.responders) : s.responders[i] = ResponderIndex

MeasuredIntervals(s) ==
    Intervals(OwnStamps(s.exchange, s.b),
              [ pollToResponse |-> RecordOf(s, s.responders[OwnRecord(s)]),
                pollToFinal    |-> PeerReport(s.exchange, s.a).pollToFinal ])

MeasuredDistance(s) == CalculateDistance(MeasuredIntervals(s), AntennaDelayBias)

\* calculateDistance refuses intervals that are all zero.
Measurable(s) ==
    Decodes(s) /\ HasOwnRecord(s) /\ TotalInterval(MeasuredIntervals(s)) # 0

ASSUME ResultsAssumption ==
    /\ AntennaDelayBias \in Int
    /\ \A s \in Samples :
         /\ s.quality \in Qualities
         /\ s.angle \in Int
         /\ s.stsRead \in BOOLEAN
         /\ s.stsPassed \in BOOLEAN
         /\ s.stsPassed => s.stsRead
         /\ s.responders \in Seq(Nat)
         /\ Fits(s.exchange, s.a, s.b)
         /\ Measurable(s) => MeasuredDistance(s) \in Distances

\* The readings a swing of the angle may go on jumping.
Settling == Len(Swings) - 1

\* Every reading halves the distance, and the last of Swings jumps no more.
ASSUME SwingAssumption ==
    /\ Swings \in Seq(Nat) /\ Len(Swings) >= 1
    /\ \A s, t \in Samples : s.angle - t.angle <= Swings[1]
    /\ \A i \in 1 .. Settling : (Swings[i] + 1) \div 2 <= Swings[i + 1]
    /\ Swings[Len(Swings)] <= JumpThreshold

-----------------------------------------------------------------------------
(***************************************************************************)
(* The first-path power (DW3000Controller, NlosDetector).                  *)
(***************************************************************************)
FirstPathDiagnostics(s) ==
    IF s.powersRead /\ s.firstPath # NoPower /\ s.rssi # NoPower
    THEN [firstPath |-> s.firstPath, rssi |-> s.rssi, valid |-> TRUE]
    ELSE [firstPath |-> NoPower, rssi |-> NoPower, valid |-> FALSE]

\* Slip (not used by the specification): a power of zero is taken for a power.
DegenerateUnlessZero(d) == d.firstPath = NoPower \/ d.rssi = NoPower

Degenerate(d) == {d.firstPath, d.rssi} \cap {NoPower, 0} # {}

EvaluateNlos(d) ==
    [valid |-> ~ Degenerate(d), nlos |-> ~ Degenerate(d) /\ d.rssi - d.firstPath > NlosMargin]

-----------------------------------------------------------------------------
ResultsInit ==
    /\ FilterInit
    /\ AoaInit
    /\ aoaEnabled \in BOOLEAN
    /\ result = NoResult

\* start and resumeWithAnchor forget the readings; start may change the node.
Restart ==
    /\ Reset
    /\ AoaReset
    /\ aoaEnabled' \in BOOLEAN
    /\ UNCHANGED result

ResumeAnchored ==
    /\ Reset
    /\ AoaReset
    /\ UNCHANGED <<aoaEnabled, result>>

\* A start whose derivation fails has taken over the node and no more; a
\* session that was running before runs on.
StartFails ==
    /\ aoaEnabled' \in BOOLEAN
    /\ UNCHANGED <<filterVars, aoaVars, result>>

\* The angle is judged whenever it is enabled.
IngestAngle(s) == IF aoaEnabled THEN AoaIngest(s.angle) ELSE UNCHANGED aoaVars

HandleFinalData(s) ==
    /\ Measurable(s)
    /\ Ingest(MeasuredDistance(s), IF s.stsPassed THEN 0 ELSE -1, s.quality)
    /\ IngestAngle(s)
    /\ LET powers  == FirstPathDiagnostics(s)
           nlos    == EvaluateNlos(powers)
           verdict == IF aoaEnabled THEN aoaVerdict' ELSE NoVerdict
       IN  result' = [ sample       |-> s,
                       distance     |-> MeasuredDistance(s),
                       isTrusted    |-> report'.isTrusted,
                       nlosValid    |-> nlos.valid /\ powers.valid,
                       nlosDetected |-> nlos.nlos \/ verdict.gated,
                       aoaUnstable  |-> verdict.jump,
                       aoaValid     |-> aoaEnabled ]
    /\ UNCHANGED aoaEnabled

ResultsNext ==
    \/ Restart
    \/ ResumeAnchored
    \/ StartFails
    \/ \E s \in Samples : HandleFinalData(s)

ResultsSpec == ResultsInit /\ [][ResultsNext]_resultsVars

-----------------------------------------------------------------------------
(***************************************************************************)
(* Properties.                                                             *)
(***************************************************************************)

\* Ticks of flight in millimetres, as the estimator rounds them.
Millimetres(ticks) == Truncated(ticks * 4692, 1000) + AntennaDelayBias

\* "mixing initiator- and responder-side quantities is what cancels the clock
\* offset": the distance lies between those a flight of that time has on the
\* one clock and on the other, however long the replies are and whichever
\* counter wraps.
DistanceIsTrue ==
    result # NoResult =>
        LET x       == result.sample
            initial == Millimetres(x.a * x.exchange.tof)
            own     == Millimetres(x.b * x.exchange.tof)
        IN  \/ initial <= result.distance /\ result.distance <= own
            \/ own <= result.distance /\ result.distance <= initial

\* "those must never be treated as evidence either way": powers that could not
\* be read or are degenerate detect nothing, and what is detected without them
\* is the angle's gate; two checks, of the driver and of the detector, make it.
UnreadableIsNoEvidence ==
    result # NoResult =>
        LET s == result.sample
            unreadable == ~ s.powersRead \/ {s.firstPath, s.rssi} \cap {NoPower, 0} # {}
        IN  /\ unreadable => ~ result.nlosValid
            /\ unreadable /\ ~ result.aoaValid => ~ result.nlosDetected

\* An angle that does not change any more opens the gate, whatever it was
\* before: the reference reaches it, and the jumps and the hold end.
SteadyAngleOpens ==
    Len(angles) > WarmupBlocks /\ SteadyFor(Settling + HoldBlocks) => ~ aoaVerdict.gated

\* DW3000Controller.cpp:258: "garbage unless the STS CIR locked".  A result
\* does not call an angle valid that was computed from garbage.
AoaIsMeasured ==
    result # NoResult /\ result.aoaValid => result.sample.stsRead

=============================================================================
