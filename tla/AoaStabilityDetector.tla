------------------------ MODULE AoaStabilityDetector ------------------------
(***************************************************************************)
(* ranging::AoaStabilityDetector: a reference angle that follows the       *)
(* angles measured, the jumps away from it, and the gate that stays closed *)
(* for the first readings and for some readings after a jump.  The history *)
(* variable angles holds what was ingested since the last reset.           *)
(***************************************************************************)
EXTENDS Integers, Sequences

CONSTANTS
    JumpThreshold,  \* jumpThresholdCentiDeg
    HoldBlocks,
    WarmupBlocks

ASSUME StabilityAssumption ==
    /\ JumpThreshold \in Nat
    /\ HoldBlocks \in 0 .. 255
    /\ WarmupBlocks \in 0 .. 255

VARIABLES
    m_refCentiDeg,
    m_refValid,
    m_hold,
    m_warmup,
    aoaVerdict,  \* the last AoaStabilityVerdict
    angles       \* history: [angle, jump] ingested

aoaVars == <<m_refCentiDeg, m_refValid, m_hold, m_warmup, aoaVerdict, angles>>

NoVerdict == [jump |-> FALSE, gated |-> FALSE]

-----------------------------------------------------------------------------
AoaInit ==
    /\ m_refCentiDeg = 0
    /\ m_refValid = FALSE
    /\ m_hold = 0
    /\ m_warmup = WarmupBlocks
    /\ aoaVerdict = NoVerdict
    /\ angles = <<>>

\* A new detector, or reset.
AoaReset ==
    /\ m_refCentiDeg' = 0
    /\ m_refValid' = FALSE
    /\ m_hold' = 0
    /\ m_warmup' = WarmupBlocks
    /\ aoaVerdict' = NoVerdict
    /\ angles' = <<>>

\* Half of a difference, truncated toward zero.
Half(n) == IF n >= 0 THEN n \div 2 ELSE -((-n) \div 2)

Jumps(angle) ==
    /\ m_refValid
    /\ \/ angle - m_refCentiDeg > JumpThreshold
       \/ m_refCentiDeg - angle > JumpThreshold

\* Slip (not used by the specification): a jump leaves the reference.
FollowUnlessJump(angle) ==
    m_refCentiDeg' = IF ~ m_refValid THEN angle
                     ELSE IF Jumps(angle) THEN m_refCentiDeg
                     ELSE m_refCentiDeg + Half(angle - m_refCentiDeg)

\* The first angle is the reference; later ones pull it halfway.
Follow(angle) ==
    m_refCentiDeg' = IF m_refValid THEN m_refCentiDeg + Half(angle - m_refCentiDeg) ELSE angle

\* The hold after the angle, before this reading is counted.
Held(angle) == IF Jumps(angle) THEN HoldBlocks ELSE m_hold

\* Slip: the hold is counted down only once the warm-up is over.
CountAfterWarmup(angle) ==
    /\ m_warmup' = IF m_warmup > 0 THEN m_warmup - 1 ELSE 0
    /\ m_hold' = IF Held(angle) > 0 /\ m_warmup = 0 THEN Held(angle) - 1 ELSE Held(angle)

Count(angle) ==
    /\ m_warmup' = IF m_warmup > 0 THEN m_warmup - 1 ELSE 0
    /\ m_hold' = IF Held(angle) > 0 THEN Held(angle) - 1 ELSE 0

AoaIngest(angle) ==
    /\ m_refValid' = TRUE
    /\ Follow(angle)
    /\ Count(angle)
    /\ aoaVerdict' = [jump |-> Jumps(angle), gated |-> m_warmup > 0 \/ Held(angle) > 0]
    /\ angles' = Append(angles, [angle |-> angle, jump |-> Jumps(angle)])

-----------------------------------------------------------------------------
\* The type invariant.
AoaTypeOK ==
    /\ m_refCentiDeg \in Int
    /\ m_refValid \in BOOLEAN
    /\ m_hold \in 0 .. 255
    /\ m_warmup \in 0 .. 255
    /\ aoaVerdict \in [jump : BOOLEAN, gated : BOOLEAN]
    /\ angles \in Seq([angle : Int, jump : BOOLEAN])

\* The last n angles hold a jump.
JumpedWithin(n) ==
    \E i \in 1 .. Len(angles) : i > Len(angles) - n /\ angles[i].jump

\* The gate is closed exactly for the first WarmupBlocks readings and for
\* HoldBlocks readings from each jump on, the reading that jumped included,
\* although both counters run at once and a jump restarts the hold.
GateIsHistory ==
    angles # <<>> =>
        (aoaVerdict.gated <=> Len(angles) <= WarmupBlocks \/ JumpedWithin(HoldBlocks))

\* An angle that stays the same for n readings.
SteadyFor(n) ==
    /\ n \in 1 .. Len(angles)
    /\ \A i \in Len(angles) - n + 1 .. Len(angles) : angles[i].angle = angles[Len(angles)].angle

=============================================================================
