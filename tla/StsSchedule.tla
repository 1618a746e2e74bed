---------------------------- MODULE StsSchedule ----------------------------
(***************************************************************************)
(* The STS schedule of a ranging session: how many rounds a ranging block  *)
(* holds, which round of a block is active, which STS index the Poll of an *)
(* exchange has, which exchange comes after another, and which STS index   *)
(* the slot keys of a leg are anchored at.  Everything here is a function  *)
(* of the session parameters (protocol::setup::RangingSessionParameters);  *)
(* the module has no state.                                                *)
(*                                                                         *)
(* The widths of the integers are parameters, so that a wrap-around can be *)
(* reached by small instances: the code has U16 = 2^16, U32 = 2^32 and     *)
(* HoppingModulus = 65521.                                                 *)
(***************************************************************************)
EXTENDS Integers

CONSTANTS
    U16,            \* modulus of BlockIndex and SlotIndex
    U32,            \* modulus of StsIndex
    HoppingModulus  \* the prime of the default hopping sequence

ASSUME WidthAssumption ==
    /\ U16 \in Nat \ {0}
    /\ U32 \in Nat \ {0}
    /\ HoppingModulus \in 1 .. U16

BlockIndex == 0 .. U16 - 1
SlotIndex  == 0 .. U16 - 1
StsIndex   == 0 .. U32 - 1

HoppingMode == {"Disabled", "Enabled", "ContinuousAes", "ContinuousDefault",
                "AdaptiveAes", "AdaptiveDefault"}

(***************************************************************************)
(* The session parameters the schedule and the keys depend on.  hopModeKey *)
(* stands for the 32-bit big-endian value of the four key bytes.           *)
(***************************************************************************)
RangingSessionParameters ==
    [ sessionId        : Nat,
      durationMs       : Nat,
      slotDurationRstu : Nat,
      slotsPerRound    : Nat,
      hoppingMode      : HoppingMode,
      hopModeKey       : Nat,
      stsIndex0        : StsIndex,
      macMode          : 0 .. 255,
      responderCount   : Nat ]

-----------------------------------------------------------------------------
(***************************************************************************)
(* Rounds and blocks.                                                      *)
(***************************************************************************)

\* One RSTU is 5/6 of a microsecond.
RoundDurationUs(p) == (p.slotsPerRound * p.slotDurationRstu * 5) \div 6

\* 0 stands for "no schedule": some parameter is zero.
RoundsPerBlock(p) ==
    IF RoundDurationUs(p) = 0 THEN 0
    ELSE (p.durationMs * 1000) \div RoundDurationUs(p)

BlockStsStride(p) == RoundsPerBlock(p) * p.slotsPerRound

\* HoppingCalculator::calculateRoundIndex for a nonzero number of rounds.
CalculateRoundIndex(block, hopKey, rounds) ==
    LET t == (block + hopKey) % U16
    IN  (((t * t) % HoppingModulus) * rounds) \div U16

\* The round of a block the responder expects.  Only the continuous default
\* sequence hops; a schedule with no rounds, or with more than 16 bits can
\* count, falls back to round 0.
ScheduledRoundFor(p, block) ==
    IF p.hoppingMode = "ContinuousDefault" /\ RoundsPerBlock(p) \in 1 .. U16 - 1
    THEN CalculateRoundIndex(block, p.hopModeKey, RoundsPerBlock(p))
    ELSE 0

-----------------------------------------------------------------------------
(***************************************************************************)
(* STS indices.                                                            *)
(***************************************************************************)

\* The Poll is slot 1 of its round; slot 0 is the Pre-Poll's.
PollStsIndexFor(p, block, round) ==
    (p.stsIndex0 + block * BlockStsStride(p) + round * p.slotsPerRound + 1) % U32

\* The legs of an exchange that are secured by an STS, and the STS index of
\* each one counted from the Poll's.
Legs == {"poll", "response", "final"}

LegOffset(p, responderIndex, leg) ==
    CASE leg = "poll"     -> 0
      [] leg = "response" -> 1 + responderIndex
      [] leg = "final"    -> 1 + p.responderCount

LegStsIndex(p, responderIndex, pollStsIndex, leg) ==
    (pollStsIndex + LegOffset(p, responderIndex, leg)) % U32

\* Slip (not used by the specifications): the round's first slot without the
\* wrap-around of unsigned arithmetic.
BaseStsIndexUnwrapped(p, stsIndex) ==
    stsIndex - (((stsIndex - p.stsIndex0) % U32) % p.slotsPerRound)

\* The index the slot keys are anchored at: the first slot of the round,
\* counted from stsIndex0 (deriveSlotKeys).
BaseStsIndex(p, stsIndex) ==
    (stsIndex - (((stsIndex - p.stsIndex0) % U32) % p.slotsPerRound)) % U32

\* "Later" for 32-bit indices that wrap: the signed difference is positive.
SerialAfter(a, b) ==
    LET d == (a - b) % U32 IN d > 0 /\ 2 * d < U32

-----------------------------------------------------------------------------
(***************************************************************************)
(* The exchange that follows the one at (block, round).                    *)
(***************************************************************************)

\* MAC mode: bits 7..6 = 01 announce two rounds per block, bits 5..0 how
\* many rounds the second one comes after the first.
TwoRounds(p) == (p.macMode \div 64) % 4 = 1
RoundOffset(p) == p.macMode % 64

\* The second round of the block is still to come.
SecondRoundPending(p, block, round) ==
    TwoRounds(p) /\ round = ScheduledRoundFor(p, block)

SecondRound(p, round) == (round + RoundOffset(p)) % U16

\* Slip: the adaptive modes are predicted as if they did not hop.
SchedulableInAnyMode(p, block, round) ==
    /\ RoundsPerBlock(p) # 0
    /\ SecondRoundPending(p, block, round) =>
         /\ RoundOffset(p) # 0
         /\ SecondRound(p, round) < RoundsPerBlock(p)

\* nextScheduledExchange returns TRUE.
Schedulable(p, block, round) ==
    /\ p.hoppingMode \in {"Disabled", "ContinuousDefault"}
    /\ RoundsPerBlock(p) # 0
    /\ SecondRoundPending(p, block, round) =>
         /\ RoundOffset(p) # 0
         /\ SecondRound(p, round) < RoundsPerBlock(p)

\* ... and the exchange it then names.
NextScheduledExchange(p, block, round) ==
    IF SecondRoundPending(p, block, round)
    THEN [block |-> block, round |-> SecondRound(p, round)]
    ELSE LET b == (block + 1) % U16
         IN  [block |-> b, round |-> ScheduledRoundFor(p, b)]

=============================================================================
