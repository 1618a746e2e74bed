------------------------- MODULE StsSchedule_proofs -------------------------
(***************************************************************************)
(* What the operators of StsSchedule return, for every session the         *)
(* parameters describe: indices stay within their width, and a scheduled   *)
(* round is a round of its block.                                          *)
(***************************************************************************)
EXTENDS StsSchedule, TLAPS

\* Division and remainder of naturals.
LEMMA RemainderRange ==
    ASSUME NEW a \in Int, NEW n \in Nat \ {0}
    PROVE  a % n \in 0 .. n - 1
OBVIOUS

LEMMA QuotientNat ==
    ASSUME NEW a \in Nat, NEW n \in Nat \ {0}
    PROVE  a \div n \in Nat
OBVIOUS

LEMMA ProductNat == ASSUME NEW a \in Nat, NEW b \in Nat PROVE a * b \in Nat
OBVIOUS

\* A quotient is below q when the dividend is below n * q.
LEMMA QuotientBound ==
    ASSUME NEW a \in Nat, NEW n \in Nat \ {0}, NEW q \in Nat, a < n * q
    PROVE  a \div n < q
<1> DEFINE d == a \div n
<1>1. d \in Nat /\ n * d <= a
  BY QuotientNat
<1>2. ASSUME d >= q PROVE FALSE
  <2>1. n * d >= n * q
    BY <1>1, <1>2
  <2> QED BY <1>1, <2>1
<1> QED BY <1>1, <1>2

-----------------------------------------------------------------------------
LEMMA RoundsPerBlockNat ==
    ASSUME NEW p \in RangingSessionParameters
    PROVE  RoundsPerBlock(p) \in Nat /\ BlockStsStride(p) \in Nat
<1>1. p.slotsPerRound \in Nat /\ p.slotDurationRstu \in Nat /\ p.durationMs \in Nat
  BY DEF RangingSessionParameters
<1>2. RoundDurationUs(p) \in Nat
  <2>1. p.slotsPerRound * p.slotDurationRstu * 5 \in Nat
    BY <1>1, ProductNat
  <2> QED BY <2>1, QuotientNat DEF RoundDurationUs
<1>3. RoundsPerBlock(p) \in Nat
  <2>1. p.durationMs * 1000 \in Nat
    BY <1>1, ProductNat
  <2> QED BY <1>2, <2>1, QuotientNat DEF RoundsPerBlock
<1> QED BY <1>1, <1>3, ProductNat DEF BlockStsStride

\* The hopping sequence names a round of the block: 16 bits of hash scaled
\* to the number of rounds never reach it.
THEOREM HopIsARound ==
    ASSUME NEW block \in BlockIndex, NEW hopKey \in Nat, NEW rounds \in Nat \ {0}
    PROVE  CalculateRoundIndex(block, hopKey, rounds) \in 0 .. rounds - 1
<1> DEFINE t == (block + hopKey) % U16
           h == (t * t) % HoppingModulus
<1> USE WidthAssumption
<1>1. t \in Nat
  BY RemainderRange DEF BlockIndex
<1>2. h \in 0 .. HoppingModulus - 1
  <2>1. t * t \in Nat
    BY <1>1, ProductNat
  <2>2. HoppingModulus \in Nat \ {0}
    OBVIOUS
  <2>3. \A a \in Nat : a % HoppingModulus \in 0 .. HoppingModulus - 1
    BY <2>2, RemainderRange
  <2> HIDE DEF t
  <2> QED BY <2>1, <2>3
<1> HIDE DEF h
<1>3. h \in Nat /\ h + 1 <= U16
  BY <1>2
<1>4. h * rounds \in Nat /\ h * rounds < U16 * rounds
  <2>1. h * rounds \in Nat
    BY <1>3, ProductNat
  <2>2. (U16 - h) * rounds >= 1
    BY <1>3
  <2>3. (U16 - h) * rounds = U16 * rounds - h * rounds
    BY <1>3
  <2> QED BY <1>3, <2>1, <2>2, <2>3
<1>5. (h * rounds) \div U16 \in Nat /\ (h * rounds) \div U16 < rounds
  BY <1>4, QuotientNat, QuotientBound
<1> QED BY <1>5 DEF CalculateRoundIndex, h, t

LEMMA ScheduledRoundIsARound ==
    ASSUME NEW p \in RangingSessionParameters, NEW block \in BlockIndex
    PROVE  /\ ScheduledRoundFor(p, block) \in SlotIndex
           /\ RoundsPerBlock(p) # 0 => ScheduledRoundFor(p, block) < RoundsPerBlock(p)
<1>1. p.hopModeKey \in Nat /\ RoundsPerBlock(p) \in Nat
  BY RoundsPerBlockNat DEF RangingSessionParameters
<1>2. CASE p.hoppingMode = "ContinuousDefault" /\ RoundsPerBlock(p) \in 1 .. U16 - 1
  <2>1. ScheduledRoundFor(p, block) = CalculateRoundIndex(block, p.hopModeKey, RoundsPerBlock(p))
    BY <1>2 DEF ScheduledRoundFor
  <2>2. ScheduledRoundFor(p, block) \in 0 .. RoundsPerBlock(p) - 1
    BY <1>1, <1>2, <2>1, HopIsARound
  <2> QED BY <1>2, <2>2, WidthAssumption DEF SlotIndex
<1>3. CASE ~ (p.hoppingMode = "ContinuousDefault" /\ RoundsPerBlock(p) \in 1 .. U16 - 1)
  <2>1. ScheduledRoundFor(p, block) = 0
    BY <1>3 DEF ScheduledRoundFor
  <2> QED BY <1>1, <2>1, WidthAssumption DEF SlotIndex
<1> QED BY <1>2, <1>3

\* The exchange that follows is a round of its block as well.
THEOREM NextIsScheduled ==
    ASSUME NEW p \in RangingSessionParameters, NEW block \in BlockIndex,
           NEW round \in SlotIndex
    PROVE  LET next == NextScheduledExchange(p, block, round)
           IN  /\ next.block \in BlockIndex
               /\ next.round \in SlotIndex
               /\ Schedulable(p, block, round) => next.round < RoundsPerBlock(p)
<1> USE WidthAssumption
<1>1. CASE SecondRoundPending(p, block, round)
  <2>1. NextScheduledExchange(p, block, round) =
            [block |-> block, round |-> SecondRound(p, round)]
    BY <1>1 DEF NextScheduledExchange
  <2>2. round + RoundOffset(p) \in Int
    <3>1. p.macMode \in Int /\ round \in Int
      BY DEF RangingSessionParameters, SlotIndex
    <3>2. RoundOffset(p) \in Int
      BY <3>1 DEF RoundOffset
    <3> QED BY <3>1, <3>2
  <2>3. SecondRound(p, round) \in SlotIndex
    BY <2>2, RemainderRange DEF SecondRound, SlotIndex
  <2> QED BY <1>1, <2>1, <2>3 DEF Schedulable
<1>2. CASE ~ SecondRoundPending(p, block, round)
  <2> DEFINE b == (block + 1) % U16
  <2>1. NextScheduledExchange(p, block, round) = [block |-> b, round |-> ScheduledRoundFor(p, b)]
    BY <1>2 DEF NextScheduledExchange
  <2>2. b \in BlockIndex
    BY RemainderRange DEF BlockIndex
  <2> HIDE DEF b
  <2> QED BY <2>1, <2>2, ScheduledRoundIsARound DEF Schedulable
<1> QED BY <1>1, <1>2

-----------------------------------------------------------------------------
\* STS indices stay within their width.
LEMMA PollStsIndexInRange ==
    ASSUME NEW p \in RangingSessionParameters, NEW block \in BlockIndex,
           NEW round \in SlotIndex
    PROVE  PollStsIndexFor(p, block, round) \in StsIndex
<1>1. /\ p.stsIndex0 \in Nat /\ p.slotsPerRound \in Nat /\ block \in Nat /\ round \in Nat
      /\ BlockStsStride(p) \in Nat
  BY RoundsPerBlockNat, WidthAssumption DEF RangingSessionParameters, StsIndex, BlockIndex, SlotIndex
<1>2. block * BlockStsStride(p) \in Nat /\ round * p.slotsPerRound \in Nat
  BY <1>1, ProductNat
<1>3. p.stsIndex0 + block * BlockStsStride(p) + round * p.slotsPerRound + 1 \in Int
  BY <1>1, <1>2
<1> QED BY <1>3, RemainderRange, WidthAssumption DEF PollStsIndexFor, StsIndex

LEMMA LegStsIndexInRange ==
    ASSUME NEW p \in RangingSessionParameters, NEW responderIndex \in Nat,
           NEW pollStsIndex \in StsIndex, NEW leg \in Legs
    PROVE  LegStsIndex(p, responderIndex, pollStsIndex, leg) \in StsIndex
<1>1. LegOffset(p, responderIndex, leg) \in Int
  BY DEF LegOffset, Legs, RangingSessionParameters
<1>2. pollStsIndex + LegOffset(p, responderIndex, leg) \in Int
  BY <1>1 DEF StsIndex
<1> QED BY <1>2, RemainderRange, WidthAssumption DEF LegStsIndex, StsIndex

LEMMA BaseStsIndexInRange ==
    ASSUME NEW p \in RangingSessionParameters, NEW stsIndex \in StsIndex, p.slotsPerRound # 0
    PROVE  BaseStsIndex(p, stsIndex) \in StsIndex
<1> USE WidthAssumption
<1> DEFINE slots == (stsIndex - p.stsIndex0) % U32
<1>1. stsIndex \in Int /\ p.stsIndex0 \in Int /\ p.slotsPerRound \in Nat \ {0}
  BY DEF RangingSessionParameters, StsIndex
<1>2. slots \in Int
  <2> DEFINE d == stsIndex - p.stsIndex0
  <2>1. d \in Int
    BY <1>1
  <2> HIDE DEF d
  <2>2. d % U32 \in 0 .. U32 - 1
    BY <2>1, RemainderRange
  <2>3. d % U32 \in Int
    BY <2>2
  <2> QED BY <2>3 DEF d
<1> HIDE DEF slots
<1>3. slots % p.slotsPerRound \in Int
  BY <1>1, <1>2, RemainderRange
<1>4. stsIndex - (slots % p.slotsPerRound) \in Int
  BY <1>1, <1>3
<1>5. (stsIndex - (slots % p.slotsPerRound)) % U32 \in StsIndex
  BY <1>4, RemainderRange DEF StsIndex
<1> QED BY <1>5 DEF BaseStsIndex, slots

=============================================================================
