------------------------ MODULE RangingSession_proofs ------------------------
(***************************************************************************)
(* Theorems about the responder session, for every set of parameters, node *)
(* configurations, frames and faults.                                      *)
(***************************************************************************)
EXTENDS RangingSession, StsSchedule_proofs

-----------------------------------------------------------------------------
(***************************************************************************)
(* Types of the radio's calls.                                             *)
(***************************************************************************)
LEMMA RadioCallTypes ==
    ASSUME NEW r \in Radio
    PROVE  /\ ForceReceiverOff(r) \in Radio
           /\ Reported(r) \in Radio
           /\ \A listening \in BOOLEAN : SetListener(r, listening) \in Radio
           /\ \A stsMode \in {"Off", "NoDataSp3"} : ConfigureStsMode(r, stsMode) \in Radio
           /\ \A k \in SlotCryptoMaterial : LoadStsKeyIv(r, k) \in Radio
           /\ \A ok \in BOOLEAN :
                /\ ConfigurePhy(r, ok) \in Radio
                /\ StartImmediateRx(r, "Listen", ok) \in Radio
                /\ StartDelayedRx(r, ok) \in Radio
                /\ StartDelayedTx(r, ok) \in Radio
BY DEF Radio, ForceReceiverOff, Reported, SetListener, ConfigureStsMode, LoadStsKeyIv,
       ConfigurePhy, StartImmediateRx, StartDelayedRx, StartDelayedTx

LEMMA OutcomesBoolean == ASSUME NEW fault PROVE Outcomes(fault) \subseteq BOOLEAN
BY DEF Outcomes

-----------------------------------------------------------------------------
(***************************************************************************)
(* Types of the keys.                                                      *)
(***************************************************************************)
LEMMA SaltedHashType ==
    ASSUME NEW ursk \in Ursk, NEW p \in RangingSessionParameters
    PROVE  DeriveSaltedHash(ursk, p) \in SaltedHash
<1>1. p.sessionId \in Nat /\ p.stsIndex0 \in StsIndex
  BY DEF RangingSessionParameters
<1>2. /\ p.responderCount % 256 \in 0 .. 255 /\ p.slotsPerRound % 256 \in 0 .. 255
  BY DEF RangingSessionParameters
<1>3. (p.durationMs \div 96) % 256 \in 0 .. 255
  BY DEF RangingSessionParameters
<1>4. (p.slotDurationRstu \div 400) % 256 \in 0 .. 255
  BY DEF RangingSessionParameters
<1>5. RangingConfig(p) \in RangingConfigs
  BY <1>1, <1>2, <1>3, <1>4 DEF RangingConfig, RangingConfigs
<1> QED BY <1>5 DEF DeriveSaltedHash, SaltedHash

LEMMA MaterialType ==
    ASSUME NEW s \in Setup, NEW steps \in MaterialSteps
    PROVE  /\ DeriveSessionMaterial(s, steps) \in Setup
           /\ DeriveSessionMaterial(s, steps).params = s.params
           /\ DeriveSessionMaterial(s, steps).nodeConfig = s.nodeConfig
           /\ DeriveSessionMaterial(s, steps).ursk = s.ursk
<1> DEFINE d == DeriveSessionMaterial(s, steps)
<1>1. s.ursk \in Ursk /\ s.params \in RangingSessionParameters /\ s.params.stsIndex0 \in StsIndex
  BY DEF Setup, RangingSessionParameters
<1>2. /\ DeriveMupsk1(s.ursk) \in Mupsk1Key /\ DeriveMupsk2(s.ursk) \in Mupsk2Key
      /\ DeriveMursk(s.ursk) \in MurskKey
  BY <1>1 DEF DeriveMupsk1, DeriveMupsk2, DeriveMursk, Mupsk1Key, Mupsk2Key, MurskKey
<1>3. DeriveAddresses(DeriveMupsk2(s.ursk), s.params.stsIndex0) \in MacAddresses
  BY <1>1, <1>2 DEF DeriveAddresses, MacAddresses
<1>4. DeriveSaltedHash(s.ursk, s.params) \in SaltedHash
  BY <1>1, SaltedHashType
<1>5. (s.materialValid \/ steps = 5) \in BOOLEAN
  BY Zenon
<1>6. d \in Setup
  BY <1>2, <1>3, <1>4, <1>5 DEF DeriveSessionMaterial, Setup
<1>7. d.params = s.params /\ d.nodeConfig = s.nodeConfig /\ d.ursk = s.ursk
  BY DEF DeriveSessionMaterial, Setup
<1> QED BY <1>6, <1>7

LEMMA SlotKeysType ==
    ASSUME NEW s \in Setup, NEW stsIndex \in StsIndex, s.params.slotsPerRound # 0
    PROVE  DeriveSlotKeys(s.mursk, s.saltedHash, stsIndex, s.params) \in SlotCryptoMaterial
BY BaseStsIndexInRange DEF DeriveSlotKeys, SlotCryptoMaterial, Setup

LEMMA LegKeysType ==
    ASSUME NEW s \in Setup, NEW pollStsIndex \in StsIndex, NEW leg \in Legs,
           s.params.slotsPerRound # 0
    PROVE  LegKeys(s, pollStsIndex, leg) \in SlotCryptoMaterial
<1>1. s.params \in RangingSessionParameters /\ s.nodeConfig.responderIndex \in Nat
  BY DEF Setup, SessionNodeConfig
<1>2. LegStsIndex(s.params, s.nodeConfig.responderIndex, pollStsIndex, leg) \in StsIndex
  BY <1>1, LegStsIndexInRange
<1> QED BY <1>2, SlotKeysType DEF LegKeys

LEMMA CycleKeysType ==
    ASSUME NEW s \in Setup, NEW pollStsIndex \in StsIndex, NEW out \in CycleKeys,
           NEW derived \in LegsDerived(s)
    PROVE  DeriveCycleKeys(s, pollStsIndex, out, derived) \in CycleKeys
<1>1. \A leg \in Legs : LegNumber(leg) \in {1, 2, 3}
  BY DEF LegNumber, Legs
<1>2. s.params.slotsPerRound = 0 => derived = 0
  BY DEF LegsDerived
<1>3. derived \in 0 .. 3
  BY DEF LegsDerived
<1>4. ASSUME NEW leg \in Legs
      PROVE  (IF LegNumber(leg) <= derived THEN LegKeys(s, pollStsIndex, leg)
              ELSE out.leg[leg]) \in SlotCryptoMaterial
  <2>1. CASE LegNumber(leg) <= derived
    <3>1. s.params.slotsPerRound # 0
      BY <2>1, <1>1, <1>2
    <3> QED BY <2>1, <3>1, LegKeysType
  <2>2. CASE ~ (LegNumber(leg) <= derived)
    BY <2>2 DEF CycleKeys
  <2> QED BY <2>1, <2>2
<1> QED BY <1>4 DEF DeriveCycleKeys, CycleKeys

-----------------------------------------------------------------------------
(***************************************************************************)
(* Types of the book.                                                      *)
(***************************************************************************)
LEMMA FrameTypes ==
    ASSUME NEW f \in Frames
    PROVE  /\ f.counter \in Nat /\ f.sts \in StsIndex /\ f.block \in BlockIndex
           /\ f.round \in SlotIndex /\ f.stamp \in Stamps /\ f # NoFrame
BY SessionAssumption

LEMMA NotePrePollType ==
    ASSUME NEW b \in Book, NEW f \in Frames
    PROVE  /\ NotePrePoll(b, f) \in Book
           /\ NotePrePoll(b, f).stashFrame = b.stashFrame
           /\ NotePrePoll(b, f).warmValid = b.warmValid
           /\ NotePrePoll(b, f).warm = b.warm
BY FrameTypes DEF NotePrePoll, Book

LEMMA ForgetPrePollsType ==
    ASSUME NEW b \in Book
    PROVE  /\ ForgetPrePolls(b) \in Book
           /\ ForgetPrePolls(b).warmValid = FALSE
           /\ ForgetPrePolls(b).stashFrame = b.stashFrame
BY DEF ForgetPrePolls, Book

LEMMA NextPollStsIndexType ==
    ASSUME NEW s \in Setup, NEW b \in Book
    PROVE  NextPollStsIndex(s, b) \in StsIndex
<1> DEFINE next == NextScheduledExchange(s.params, b.currentBlock, b.currentRound)
<1>1. /\ s.params \in RangingSessionParameters /\ b.currentBlock \in BlockIndex
      /\ b.currentRound \in SlotIndex
  BY DEF Setup, Book
<1>2. next.block \in BlockIndex /\ next.round \in SlotIndex
  BY <1>1, NextIsScheduled
<1> HIDE DEF next
<1>3. PollStsIndexFor(s.params, next.block, next.round) \in StsIndex
  BY <1>1, <1>2, PollStsIndexInRange
<1> QED BY <1>3 DEF NextPollStsIndex, next

LEMMA RefreshWarmKeysType ==
    ASSUME NEW s \in Setup, NEW b \in Book, NEW derived \in LegsDerived(s)
    PROVE  /\ RefreshWarmKeys(s, b, derived) \in Book
           /\ RefreshWarmKeys(s, b, derived).stashFrame = b.stashFrame
<1>1. b.warm \in CycleKeys
  BY DEF Book
<1>2. DeriveCycleKeys(s, NextPollStsIndex(s, b), b.warm, derived) \in CycleKeys
  BY <1>1, NextPollStsIndexType, CycleKeysType
<1>3. (derived = 3) \in BOOLEAN
  BY Zenon
<1>4. CASE Schedulable(s.params, b.currentBlock, b.currentRound)
  BY <1>2, <1>3, <1>4 DEF RefreshWarmKeys, Book
<1>5. CASE ~ Schedulable(s.params, b.currentBlock, b.currentRound)
  BY <1>5 DEF RefreshWarmKeys, Book
<1> QED BY <1>4, <1>5

LEMMA ProcessStashedPrePollType ==
    ASSUME NEW s \in Setup, NEW b \in Book, NEW derived \in LegsDerived(s)
    PROVE  /\ ProcessStashedPrePoll(s, b, derived) \in Book
           /\ ProcessStashedPrePoll(s, b, derived).stashFrame = NoFrame
<1> DEFINE f == b.stashFrame
           drained == [b EXCEPT !.stashFrame = NoFrame]
           noted == NotePrePoll(drained, f)
<1>1. f \in Frames \cup {NoFrame}
  BY DEF Book
<1>2. drained \in Book /\ drained.stashFrame = NoFrame
  BY DEF Book
<1>3. CASE f = NoFrame
  BY <1>3 DEF ProcessStashedPrePoll
<1>4. CASE f # NoFrame /\ ~ AcceptsPrePoll(s, drained, f)
  <2>1. ProcessStashedPrePoll(s, b, derived) = [drained EXCEPT !.warmValid = FALSE]
    BY <1>4 DEF ProcessStashedPrePoll
  <2> HIDE DEF drained
  <2> QED BY <2>1, <1>2 DEF Book
<1>5. CASE f # NoFrame /\ AcceptsPrePoll(s, drained, f)
  <2>1. ProcessStashedPrePoll(s, b, derived) =
            IF IsBlockParityEligible(s, f.block) THEN RefreshWarmKeys(s, noted, derived) ELSE noted
    BY <1>5 DEF ProcessStashedPrePoll
  <2>2. noted \in Book /\ noted.stashFrame = NoFrame
    BY <1>1, <1>2, <1>5, NotePrePollType
  <2> HIDE DEF noted
  <2> QED BY <2>1, <2>2, RefreshWarmKeysType
<1> QED BY <1>3, <1>4, <1>5

(***************************************************************************)
(* What every path back to listening does.                                 *)
(***************************************************************************)
LEMMA ArmPrePollListeningType ==
    ASSUME NEW r \in Radio, NEW s \in Setup, NEW b \in Book, ArmPrePollListening(r, s, b)
    PROVE  /\ radio' \in Radio
           /\ radio'.stsMode = "Off" /\ radio'.listener = r.listener /\ radio'.event = r.event
           /\ m_state' = "PrePollListening"
           /\ book' \in Book
           /\ book'.stashFrame = NoFrame
           /\ \E derived \in LegsDerived(s) : book' = ProcessStashedPrePoll(s, b, derived)
           /\ "rx" \notin Faults => radio'.mode = "Rx"
<1>1. PICK ok \in Outcomes("rx") :
          radio' = StartImmediateRx(ConfigureStsMode(ForceReceiverOff(r), "Off"), "Listen", ok)
  BY DEF ArmPrePollListening
<1>2. ok \in BOOLEAN /\ ("rx" \notin Faults => ok = TRUE)
  BY DEF Outcomes
<1>3. ConfigureStsMode(ForceReceiverOff(r), "Off") \in Radio
  BY RadioCallTypes
<1>4. radio' \in Radio
  BY <1>1, <1>2, <1>3, RadioCallTypes
<1>5. /\ radio'.stsMode = "Off" /\ radio'.listener = r.listener /\ radio'.event = r.event
      /\ "rx" \notin Faults => radio'.mode = "Rx"
  BY <1>1, <1>2 DEF Radio, StartImmediateRx, ConfigureStsMode, ForceReceiverOff
<1>6. PICK derived \in LegsDerived(s) : book' = ProcessStashedPrePoll(s, b, derived)
  BY DEF ArmPrePollListening
<1>7. book' \in Book /\ book'.stashFrame = NoFrame
  BY <1>6, ProcessStashedPrePollType
<1> QED BY <1>4, <1>5, <1>6, <1>7 DEF ArmPrePollListening

LEMMA ReceiveLegType ==
    ASSUME NEW r \in Radio, ReceiveLeg(r)
    PROVE  /\ radio' \in Radio
           /\ radio'.stsMode = r.stsMode /\ radio'.sts = r.sts
           /\ radio'.listener = r.listener /\ radio'.event = r.event
           /\ "rx" \notin Faults => radio'.mode = "Rx"
<1>1. PICK ok \in Outcomes("rx") : radio' = StartDelayedRx(r, ok)
  BY DEF ReceiveLeg
<1>2. ok \in BOOLEAN /\ ("rx" \notin Faults => ok = TRUE)
  BY DEF Outcomes
<1>3. radio' \in Radio
  BY <1>1, <1>2, RadioCallTypes
<1>4. /\ radio'.stsMode = r.stsMode /\ radio'.sts = r.sts
      /\ radio'.listener = r.listener /\ radio'.event = r.event
      /\ "rx" \notin Faults => radio'.mode = "Rx"
  BY <1>1, <1>2 DEF Radio, StartDelayedRx
<1> QED BY <1>3, <1>4

LEMMA WithLegKeysType ==
    ASSUME NEW r \in Radio, NEW keys \in CycleKeys, NEW leg \in Legs
    PROVE  /\ WithLegKeys(r, keys, leg) \in Radio
           /\ WithLegKeys(r, keys, leg).stsMode = "NoDataSp3"
           /\ WithLegKeys(r, keys, leg).sts = keys.leg[leg]
           /\ WithLegKeys(r, keys, leg).listener = r.listener
           /\ WithLegKeys(r, keys, leg).event = r.event
<1>1. ConfigureStsMode(r, "NoDataSp3") \in Radio /\ keys.leg[leg] \in SlotCryptoMaterial
  BY RadioCallTypes DEF CycleKeys
<1>2. WithLegKeys(r, keys, leg) \in Radio
  BY <1>1, RadioCallTypes DEF WithLegKeys
<1> QED BY <1>2 DEF WithLegKeys, LoadStsKeyIv, ConfigureStsMode, Radio

\* The event a handler works on.
LEMMA HandledEvent ==
    ASSUME TypeOK, NEW state, NEW kind, HandledIn(state, kind)
    PROVE  /\ m_state = state /\ radio.listener = TRUE
           /\ radio.event \in Event /\ radio.event.kind = kind
           /\ radio.event.stamp \in Stamps /\ radio.event.stsPassed \in BOOLEAN
           /\ kind = "RxSuccess" => Heard \in Frames
           /\ Reported(radio) \in Radio
           /\ Reported(radio).listener = TRUE
           /\ Reported(radio).event = NoEvent
           /\ Reported(radio).stsMode = radio.stsMode
           /\ Reported(radio).mode = radio.mode
<1>1. radio \in Radio
  BY DEF TypeOK
<1>2. m_state = state /\ radio.listener = TRUE /\ radio.event # NoEvent /\ radio.event.kind = kind
  BY <1>1 DEF HandledIn, Reports, Radio
<1>3. radio.event \in Event
  BY <1>1, <1>2 DEF Radio
<1>4. /\ radio.event.stamp \in Stamps /\ radio.event.stsPassed \in BOOLEAN
      /\ kind = "RxSuccess" => radio.event.frame \in Frames
  BY <1>2, <1>3 DEF Event
<1>5. /\ Reported(radio) \in Radio /\ Reported(radio).listener = radio.listener
      /\ Reported(radio).event = NoEvent /\ Reported(radio).stsMode = radio.stsMode
      /\ Reported(radio).mode = radio.mode
  BY <1>1, RadioCallTypes DEF Reported, Radio
<1> QED BY <1>2, <1>3, <1>4, <1>5 DEF Heard

LEMMA ListenAgainType ==
    ASSUME TypeOK, NEW state, NEW kind, HandledIn(state, kind), ListenAgain
    PROVE  /\ radio' \in Radio /\ radio'.stsMode = "Off" /\ radio'.listener = TRUE
           /\ m_state' = "PrePollListening"
           /\ book' \in Book /\ book'.stashFrame = NoFrame
           /\ \E derived \in LegsDerived(setup) : book' = ProcessStashedPrePoll(setup, book, derived)
           /\ radio'.event = NoEvent
           /\ "rx" \notin Faults => radio'.mode = "Rx"
<1>1. /\ Reported(radio) \in Radio /\ Reported(radio).listener = TRUE
      /\ Reported(radio).event = NoEvent
  BY HandledEvent
<1>2. setup \in Setup /\ book \in Book
  BY DEF TypeOK
<1>3. ArmPrePollListening(Reported(radio), setup, book)
  BY DEF ListenAgain
<1> QED BY <1>1, <1>2, <1>3, ArmPrePollListeningType

-----------------------------------------------------------------------------
(***************************************************************************)
(* The type invariant, action by action.                                   *)
(***************************************************************************)
LEMMA TypeInit == Init => TypeOK
<1> SUFFICES ASSUME Init PROVE TypeOK
  OBVIOUS
<1> USE SessionAssumption, WidthAssumption
<1>1. 0 \in StsIndex /\ 0 \in BlockIndex /\ 0 \in SlotIndex
  BY DEF StsIndex, BlockIndex, SlotIndex
<1>2. NoUrsk \in Ursk /\ DefaultParams \in RangingSessionParameters
  BY DEF Ursk
<1>3. /\ DeriveMupsk1(NoUrsk) \in Mupsk1Key /\ DeriveMupsk2(NoUrsk) \in Mupsk2Key
      /\ DeriveMursk(NoUrsk) \in MurskKey
  BY <1>2 DEF DeriveMupsk1, DeriveMupsk2, DeriveMursk, Mupsk1Key, Mupsk2Key, MurskKey
<1>4. DeriveSaltedHash(NoUrsk, DefaultParams) \in SaltedHash
  BY <1>2, SaltedHashType
<1>5. DeriveAddresses(DeriveMupsk2(NoUrsk), 0) \in MacAddresses
  BY <1>1, <1>3 DEF DeriveAddresses, MacAddresses
<1>6. ZeroSlotKeys \in SlotCryptoMaterial
  BY <1>1, <1>3, <1>4 DEF ZeroSlotKeys, SlotCryptoMaterial
<1>7. ZeroCycleKeys \in CycleKeys
  BY <1>1, <1>6 DEF ZeroCycleKeys, CycleKeys
<1>8. radio \in Radio
  BY <1>6 DEF Init, Radio
<1>9. setup \in Setup
  <2>1. [responderIndex |-> 0, blockParityFilter |-> -1] \in SessionNodeConfig
    BY DEF SessionNodeConfig
  <2> QED BY <1>2, <1>3, <1>4, <1>5, <2>1 DEF Init, Setup
<1>10. book \in Book
  BY <1>1, <1>7 DEF Init, Book
<1>11. cycle \in Cycle
  BY <1>1, <1>7 DEF Init, Cycle, Stamp
<1> QED BY <1>8, <1>9, <1>10, <1>11 DEF Init, TypeOK, SessionState

LEMMA TypeLatch ==
    ASSUME TypeOK, NEW event \in Event, LatchEvent(event)
    PROVE  TypeOK'
<1>1. radio \in Radio
  BY DEF TypeOK
<1>2. radio' \in Radio
  BY <1>1 DEF LatchEvent, Latch, Radio
<1> QED BY <1>2 DEF LatchEvent, TypeOK

LEMMA RadioEventLatches ==
    ASSUME RadioEvent
    PROVE  \E event \in Event : LatchEvent(event)
<1>1. PICK stamp \in Stamps :
        \/ \E f \in Frames, stsPassed \in BOOLEAN : Receives(f, stamp, stsPassed)
        \/ \E kind \in EventKind \ {"RxSuccess"} : Ends(kind, stamp)
  BY DEF RadioEvent
<1>2. CASE \E f \in Frames, stsPassed \in BOOLEAN : Receives(f, stamp, stsPassed)
  <2>1. PICK f \in Frames, stsPassed \in BOOLEAN : Receives(f, stamp, stsPassed)
    BY <1>2
  <2>2. [kind |-> "RxSuccess", frame |-> f, stamp |-> stamp, stsPassed |-> stsPassed] \in Event
    BY DEF Event
  <2> QED BY <2>1, <2>2 DEF Receives
<1>3. CASE \E kind \in EventKind \ {"RxSuccess"} : Ends(kind, stamp)
  <2>1. PICK kind \in EventKind \ {"RxSuccess"} : Ends(kind, stamp)
    BY <1>3
  <2>2. [kind |-> kind, frame |-> NoFrame, stamp |-> stamp, stsPassed |-> FALSE] \in Event
    BY DEF Event
  <2> QED BY <2>1, <2>2 DEF Ends
<1> QED BY <1>1, <1>2, <1>3

LEMMA SetUpType ==
    ASSUME TypeOK, NEW ursk \in Ursks, NEW p \in ParamsSet, NEW node \in NodeConfigs,
           NEW steps \in MaterialSteps
    PROVE  SetUp(ursk, p, node, steps) \in Setup
<1>1. /\ ursk \in Ursk /\ p \in RangingSessionParameters /\ node \in SessionNodeConfig
  BY SessionAssumption DEF Ursk
<1>2. [setup EXCEPT !.ursk = ursk, !.params = p, !.nodeConfig = node] \in Setup
  BY <1>1 DEF TypeOK, Setup
<1> QED BY <1>2, MaterialType DEF SetUp

LEMMA TypeStart ==
    ASSUME TypeOK, NEW ursk \in Ursks, NEW p \in ParamsSet, NEW node \in NodeConfigs,
           Start(ursk, p, node)
    PROVE  TypeOK'
<1>t. radio \in Radio /\ book \in Book /\ cycle \in Cycle
  BY DEF TypeOK
<1>1. ASSUME StartWithoutMaterial(ursk, p, node) PROVE TypeOK'
  <2>1. PICK steps \in MaterialSteps : setup' = SetUp(ursk, p, node, steps)
    BY <1>1 DEF StartWithoutMaterial
  <2>2. /\ radio' = ForceReceiverOff(radio)
        /\ UNCHANGED <<m_state, book, cycle, m_lastFinalDataCounter, result, lastCall>>
    BY <1>1 DEF StartWithoutMaterial
  <2>3. setup' \in Setup
    BY <2>1, SetUpType
  <2>4. radio' \in Radio
    BY <1>t, <2>2, RadioCallTypes
  <2> QED BY <2>2, <2>3, <2>4 DEF TypeOK
<1>2. ASSUME StartWithMaterial(ursk, p, node) PROVE TypeOK'
  <2>1. PICK steps \in MaterialSteps, configured \in Outcomes("phy") :
          /\ setup' = SetUp(ursk, p, node, steps)
          /\ cycle' = [cycle EXCEPT !.keysValid = FALSE]
          /\ m_lastFinalDataCounter' = None
          /\ \/ /\ ArmPrePollListening(
                      SetListener(ConfigurePhy(ForceReceiverOff(radio), configured), TRUE),
                      SetUp(ursk, p, node, steps), ForgetPrePolls(book))
                /\ lastCall' = "start"
             \/ /\ radio' = ConfigurePhy(ForceReceiverOff(radio), configured)
                /\ book' = ForgetPrePolls(book)
                /\ UNCHANGED <<m_state, lastCall>>
          /\ UNCHANGED result
    BY <1>2 DEF StartWithMaterial
  <2>2. SetUp(ursk, p, node, steps) \in Setup /\ setup' \in Setup
    BY <2>1, SetUpType
  <2>3. cycle' \in Cycle
    BY <1>t, <2>1 DEF Cycle
  <2>4. ConfigurePhy(ForceReceiverOff(radio), configured) \in Radio
    BY <1>t, OutcomesBoolean, RadioCallTypes
  <2>5. ForgetPrePolls(book) \in Book
    BY <1>t, ForgetPrePollsType
  <2>6. CASE /\ ArmPrePollListening(
                      SetListener(ConfigurePhy(ForceReceiverOff(radio), configured), TRUE),
                      SetUp(ursk, p, node, steps), ForgetPrePolls(book))
             /\ lastCall' = "start"
    <3>1. SetListener(ConfigurePhy(ForceReceiverOff(radio), configured), TRUE) \in Radio
      BY <2>4, RadioCallTypes
    <3>2. radio' \in Radio /\ m_state' = "PrePollListening" /\ book' \in Book
      BY <2>2, <2>5, <2>6, <3>1, ArmPrePollListeningType
    <3> QED BY <2>1, <2>2, <2>3, <2>6, <3>2 DEF TypeOK, SessionState
  <2>7. CASE /\ radio' = ConfigurePhy(ForceReceiverOff(radio), configured)
             /\ book' = ForgetPrePolls(book)
             /\ UNCHANGED <<m_state, lastCall>>
    BY <2>1, <2>2, <2>3, <2>4, <2>5, <2>7 DEF TypeOK
  <2> QED BY <2>1, <2>6, <2>7
<1> QED BY <1>1, <1>2 DEF Start

LEMMA TypeStopSuspendResume ==
    ASSUME TypeOK, Stop \/ Suspend \/ Resume
    PROVE  TypeOK'
<1>t. radio \in Radio /\ setup \in Setup /\ book \in Book
  BY DEF TypeOK
<1>1. CASE Stop
  <2>1. radio' \in Radio
    BY <1>1, <1>t, RadioCallTypes DEF Stop
  <2> QED BY <1>1, <2>1 DEF Stop, TypeOK, SessionState
<1>2. CASE Suspend
  <2>1. radio' \in Radio
    BY <1>2, <1>t, RadioCallTypes DEF Suspend
  <2> QED BY <1>2, <2>1 DEF Suspend, TypeOK, SessionState
<1>3. CASE Resume
  <2>1. radio' \in Radio /\ m_state' = "PrePollListening" /\ book' \in Book
    BY <1>3, <1>t, ArmPrePollListeningType DEF Resume
  <2> QED BY <1>3, <2>1 DEF Resume, TypeOK, SessionState
<1> QED BY <1>1, <1>2, <1>3

LEMMA AnchoredType ==
    ASSUME NEW s \in Setup, NEW stsIndex0 \in Anchors
    PROVE  [s EXCEPT !.params.stsIndex0 = stsIndex0, !.materialValid = FALSE] \in Setup
<1>1. s.params \in RangingSessionParameters /\ stsIndex0 \in StsIndex
  BY SessionAssumption DEF Setup
<1>2. [s.params EXCEPT !.stsIndex0 = stsIndex0] \in RangingSessionParameters
  BY <1>1 DEF RangingSessionParameters
<1> QED BY <1>2 DEF Setup

LEMMA TypeResumeWithAnchor ==
    ASSUME TypeOK, NEW stsIndex0 \in Anchors, ResumeWithAnchor(stsIndex0)
    PROVE  TypeOK'
<1>t. radio \in Radio /\ setup \in Setup /\ book \in Book /\ cycle \in Cycle
  BY DEF TypeOK
<1> DEFINE anchored == [setup EXCEPT !.params.stsIndex0 = stsIndex0, !.materialValid = FALSE]
<1>1. PICK steps \in MaterialSteps :
        /\ setup' = DeriveSessionMaterial(anchored, steps)
        /\ \/ UNCHANGED <<m_state, radio, book, cycle, m_lastFinalDataCounter, lastCall>>
           \/ /\ cycle' = [cycle EXCEPT !.keysValid = FALSE]
              /\ m_lastFinalDataCounter' = None
              /\ ArmPrePollListening(radio, DeriveSessionMaterial(anchored, steps),
                                     ForgetPrePolls(book))
              /\ lastCall' = "resume"
        /\ UNCHANGED result
  BY DEF ResumeWithAnchor
<1>2. anchored \in Setup
  BY <1>t, AnchoredType
<1> HIDE DEF anchored
<1>3. DeriveSessionMaterial(anchored, steps) \in Setup /\ setup' \in Setup
  BY <1>1, <1>2, MaterialType
<1>4. CASE UNCHANGED <<m_state, radio, book, cycle, m_lastFinalDataCounter, lastCall>>
  BY <1>1, <1>3, <1>4 DEF TypeOK
<1>5. CASE /\ cycle' = [cycle EXCEPT !.keysValid = FALSE]
           /\ m_lastFinalDataCounter' = None
           /\ ArmPrePollListening(radio, DeriveSessionMaterial(anchored, steps),
                                  ForgetPrePolls(book))
           /\ lastCall' = "resume"
  <2>1. cycle' \in Cycle
    BY <1>t, <1>5 DEF Cycle
  <2>2. radio' \in Radio /\ m_state' = "PrePollListening" /\ book' \in Book
    BY <1>t, <1>3, <1>5, ForgetPrePollsType, ArmPrePollListeningType
  <2> QED BY <1>1, <1>3, <1>5, <2>1, <2>2 DEF TypeOK, SessionState
<1> QED BY <1>1, <1>4, <1>5

LEMMA TypeOnPrePoll == ASSUME TypeOK, OnPrePoll PROVE TypeOK'
<1>t. radio \in Radio /\ setup \in Setup /\ book \in Book /\ cycle \in Cycle
  BY DEF TypeOK
<1>k. book.warm \in CycleKeys /\ cycle.keys \in CycleKeys /\ "poll" \in Legs
  BY <1>t DEF Book, Cycle, Legs
<1>1. CASE UnreadablePrePoll
  <2>1. radio' \in Radio /\ m_state' = "PrePollListening" /\ book' \in Book
    BY <1>1, ListenAgainType DEF UnreadablePrePoll
  <2> QED BY <1>1, <2>1 DEF UnreadablePrePoll, TypeOK, SessionState
<1>2. CASE WarmPrePoll
  <2>1. Heard \in Frames /\ Reported(radio) \in Radio
    BY <1>2, HandledEvent DEF WarmPrePoll
  <2>2. WithLegKeys(Reported(radio), book.warm, "poll") \in Radio
    BY <2>1, <1>k, WithLegKeysType
  <2>3. radio' \in Radio
    BY <1>2, <2>2, ReceiveLegType DEF WarmPrePoll
  <2>4. cycle' \in Cycle
    <3>1. book.warm.pollStsIndex \in StsIndex
      BY <1>k DEF CycleKeys
    <3> QED BY <1>2, <1>t, <1>k, <3>1 DEF WarmPrePoll, Cycle
  <2>5. book' \in Book
    <3>1. HeaderOk(setup, book, Heard) \in BOOLEAN
      BY Zenon DEF HeaderOk
    <3> QED BY <1>2, <1>t, <2>1, <3>1 DEF WarmPrePoll, Book
  <2> QED BY <1>2, <2>3, <2>4, <2>5 DEF WarmPrePoll, TypeOK, SessionState
<1>3. CASE BootstrapRejected
  <2>1. radio' \in Radio /\ m_state' = "PrePollListening" /\ book' \in Book
    BY <1>3, ListenAgainType DEF BootstrapRejected, BootstrapFrame
  <2> QED BY <1>3, <2>1 DEF BootstrapRejected, TypeOK, SessionState
<1>4. CASE BootstrapOtherParity
  <2>1. Heard \in Frames /\ Reported(radio) \in Radio
    BY <1>4, HandledEvent DEF BootstrapOtherParity, BootstrapFrame
  <2>2. NotePrePoll(book, Heard) \in Book
    BY <1>t, <2>1, NotePrePollType
  <2>3. radio' \in Radio /\ m_state' = "PrePollListening" /\ book' \in Book
    BY <1>4, <1>t, <2>1, <2>2, ArmPrePollListeningType DEF BootstrapOtherParity
  <2> QED BY <1>4, <2>3 DEF BootstrapOtherParity, TypeOK, SessionState
<1>5. CASE BootstrapPrePoll
  <2> DEFINE noted == NotePrePoll(book, Heard)
             off == ForceReceiverOff(Reported(radio))
             keys(derived) == DeriveCycleKeys(setup, Heard.sts, cycle.keys, derived)
  <2>1. Heard \in Frames /\ Reported(radio) \in Radio
    BY <1>5, HandledEvent DEF BootstrapPrePoll, BootstrapFrame
  <2>2. noted \in Book /\ off \in Radio /\ Heard.sts \in StsIndex
    BY <1>t, <2>1, NotePrePollType, RadioCallTypes, FrameTypes
  <2>3. \A derived \in LegsDerived(setup) : keys(derived) \in CycleKeys
    BY <1>t, <1>k, <2>2, CycleKeysType
  <2>4. PICK derived \in LegsDerived(setup) :
          \/ /\ cycle' = [cycle EXCEPT !.keys = keys(derived)]
             /\ ArmPrePollListening(off, setup, noted)
          \/ /\ cycle' = [cycle EXCEPT !.keysValid = TRUE, !.keys = keys(derived),
                                       !.pollStsIndex = Heard.sts]
             /\ ReceiveLeg(WithLegKeys(off, keys(derived), "poll"))
             /\ m_state' = "AwaitingPoll"
             /\ \E warmDerived \in LegsDerived(setup) :
                  book' = RefreshWarmKeys(setup, noted, warmDerived)
    BY <1>5, Zenon DEF BootstrapPrePoll
  <2>5. UNCHANGED <<setup, m_lastFinalDataCounter, result, lastCall>>
    BY <1>5 DEF BootstrapPrePoll
  <2> HIDE DEF noted, off, keys
  <2>6. CASE /\ cycle' = [cycle EXCEPT !.keys = keys(derived)]
             /\ ArmPrePollListening(off, setup, noted)
    <3>1. radio' \in Radio /\ m_state' = "PrePollListening" /\ book' \in Book
      BY <2>6, <1>t, <2>2, ArmPrePollListeningType
    <3>2. cycle' \in Cycle
      BY <2>6, <2>3, <1>t DEF Cycle
    <3> QED BY <2>5, <3>1, <3>2 DEF TypeOK, SessionState
  <2>7. CASE /\ cycle' = [cycle EXCEPT !.keysValid = TRUE, !.keys = keys(derived),
                                       !.pollStsIndex = Heard.sts]
             /\ ReceiveLeg(WithLegKeys(off, keys(derived), "poll"))
             /\ m_state' = "AwaitingPoll"
             /\ \E warmDerived \in LegsDerived(setup) :
                  book' = RefreshWarmKeys(setup, noted, warmDerived)
    <3>1. WithLegKeys(off, keys(derived), "poll") \in Radio
      BY <2>2, <2>3, <1>k, WithLegKeysType
    <3>2. radio' \in Radio
      BY <2>7, <3>1, ReceiveLegType
    <3>3. cycle' \in Cycle
      BY <2>7, <2>2, <2>3, <1>t DEF Cycle
    <3>4. book' \in Book
      BY <2>7, <2>2, <1>t, RefreshWarmKeysType
    <3> QED BY <2>5, <2>7, <3>2, <3>3, <3>4 DEF TypeOK, SessionState
  <2> QED BY <2>4, <2>6, <2>7
<1> QED BY <1>1, <1>2, <1>3, <1>4, <1>5 DEF OnPrePoll

LEMMA TypeOnPoll == ASSUME TypeOK, OnPoll PROVE TypeOK'
<1>t. radio \in Radio /\ setup \in Setup /\ book \in Book /\ cycle \in Cycle
  BY DEF TypeOK
<1>1. CASE PollRejected
  <2>1. radio' \in Radio /\ m_state' = "PrePollListening" /\ book' \in Book
    BY <1>1, ListenAgainType DEF PollRejected
  <2> QED BY <1>1, <2>1 DEF PollRejected, TypeOK, SessionState
<1>2. CASE PollWithoutKeys
  <2>1. radio' \in Radio /\ m_state' = "PrePollListening" /\ book' \in Book
    BY <1>2, ListenAgainType DEF PollWithoutKeys
  <2>2. radio.event.stamp \in Stamps
    BY <1>2, HandledEvent DEF PollWithoutKeys
  <2>3. cycle' \in Cycle
    BY <1>2, <1>t, <2>2 DEF PollWithoutKeys, Cycle, Stamp
  <2> QED BY <1>2, <2>1, <2>3 DEF PollWithoutKeys, TypeOK, SessionState
<1>3. CASE PollReceived
  <2> DEFINE loaded == WithLegKeys(Reported(radio), cycle.keys, "response")
  <2>1. radio.event.stamp \in Stamps /\ Reported(radio) \in Radio
    BY <1>3, HandledEvent DEF PollReceived
  <2>2. cycle' \in Cycle
    BY <1>3, <1>t, <2>1 DEF PollReceived, Cycle, Stamp
  <2>3. loaded \in Radio
    BY <1>t, <2>1, WithLegKeysType DEF Cycle, Legs
  <2>4. \/ radio' = StartDelayedTx(loaded, TRUE) /\ m_state' = "TransmittingResponse"
           /\ UNCHANGED book
        \/ ArmPrePollListening(StartDelayedTx(loaded, FALSE), setup, book)
    BY <1>3 DEF PollReceived
  <2>5. StartDelayedTx(loaded, TRUE) \in Radio /\ StartDelayedTx(loaded, FALSE) \in Radio
    BY <2>3, RadioCallTypes
  <2> HIDE DEF loaded
  <2>6. radio' \in Radio /\ m_state' \in SessionState /\ book' \in Book
    BY <1>t, <2>4, <2>5, ArmPrePollListeningType DEF SessionState
  <2> QED BY <1>3, <2>2, <2>6 DEF PollReceived, TypeOK
<1> QED BY <1>1, <1>2, <1>3 DEF OnPoll

LEMMA TypeOnTxComplete == ASSUME TypeOK, OnTxComplete PROVE TypeOK'
<1>t. radio \in Radio /\ setup \in Setup /\ book \in Book /\ cycle \in Cycle
  BY DEF TypeOK
<1>1. radio.event.stamp \in Stamps /\ Reported(radio) \in Radio
  BY HandledEvent DEF OnTxComplete
<1>2. cycle' \in Cycle
  BY <1>t, <1>1 DEF OnTxComplete, Cycle, Stamp
<1>3. CASE ListenAgain
  <2>1. radio' \in Radio /\ m_state' = "PrePollListening" /\ book' \in Book
    BY <1>3, ListenAgainType DEF OnTxComplete
  <2> QED BY <1>2, <2>1 DEF OnTxComplete, TypeOK, SessionState
<1>4. CASE /\ ReceiveLeg(WithLegKeys(Reported(radio), cycle.keys, "final"))
           /\ m_state' = "AwaitingFinal"
           /\ UNCHANGED book
  <2>1. WithLegKeys(Reported(radio), cycle.keys, "final") \in Radio
    BY <1>t, <1>1, WithLegKeysType DEF Cycle, Legs
  <2>2. radio' \in Radio
    BY <1>4, <2>1, ReceiveLegType
  <2> QED BY <1>2, <1>4, <2>2 DEF OnTxComplete, TypeOK, SessionState
<1> QED BY <1>3, <1>4 DEF OnTxComplete

LEMMA TypeOnFinal == ASSUME TypeOK, OnFinal PROVE TypeOK'
<1>t. radio \in Radio /\ setup \in Setup /\ book \in Book /\ cycle \in Cycle
  BY DEF TypeOK
<1>1. /\ radio.event.stamp \in Stamps /\ radio.event.stsPassed \in BOOLEAN
      /\ Reported(radio) \in Radio
  BY HandledEvent DEF OnFinal
<1>2. cycle' \in Cycle
  BY <1>t, <1>1 DEF OnFinal, Cycle, Stamp
<1>3. ConfigureStsMode(ForceReceiverOff(Reported(radio)), "Off") \in Radio
  BY <1>1, RadioCallTypes
<1>4. radio' \in Radio
  BY <1>3, ReceiveLegType DEF OnFinal
<1>5. book' \in Book
  BY <1>t, ProcessStashedPrePollType DEF OnFinal
<1> QED BY <1>2, <1>4, <1>5 DEF OnFinal, TypeOK, SessionState

LEMMA ResultType ==
    ASSUME TypeOK, NEW f \in Frames
    PROVE  RangingResultOf(f) \in RangingResult
<1>1. setup.params.sessionId \in Nat
  BY DEF TypeOK, Setup, RangingSessionParameters
<1>2. book.currentBlock \in BlockIndex
  BY DEF TypeOK, Book
<1>3. /\ cycle.pollRx \in Stamp /\ cycle.respTx \in Stamp /\ cycle.finalRx \in Stamp
      /\ cycle.finalStsPassed \in BOOLEAN
  BY DEF TypeOK, Cycle
<1>4. f.stamp \in Stamp
  BY FrameTypes DEF Stamp
<1> QED BY <1>1, <1>2, <1>3, <1>4 DEF RangingResultOf, RangingResult

LEMMA TypeOnFinalData == ASSUME TypeOK, OnFinalData PROVE TypeOK'
<1>t. radio \in Radio /\ setup \in Setup /\ book \in Book
  BY DEF TypeOK
<1>1. CASE FinalDataRejected
  <2>1. radio' \in Radio /\ m_state' = "PrePollListening" /\ book' \in Book
    BY <1>1, ListenAgainType DEF FinalDataRejected
  <2> QED BY <1>1, <2>1 DEF FinalDataRejected, TypeOK, SessionState
<1>2. CASE FinalDataWithoutResult
  <2>1. radio' \in Radio /\ m_state' = "PrePollListening" /\ book' \in Book
    BY <1>2, ListenAgainType DEF FinalDataWithoutResult
  <2>2. Heard.counter \in Nat
    BY <1>2, HandledEvent, FrameTypes DEF FinalDataWithoutResult
  <2> QED BY <1>2, <2>1, <2>2 DEF FinalDataWithoutResult, TypeOK, SessionState
<1>3. CASE FinalDataResult
  <2>1. Heard \in Frames /\ Reported(radio) \in Radio /\ radio.listener = TRUE
    BY <1>3, HandledEvent DEF FinalDataResult
  <2>2. PICK call \in CallbackCalls :
          /\ ArmPrePollListening(
                 SetListener(Reported(radio), radio.listener /\ call # "stop"), setup, book)
          /\ lastCall' = IF call = "none" THEN lastCall ELSE call
    BY <1>3 DEF FinalDataResult
  <2>3. SetListener(Reported(radio), radio.listener /\ call # "stop") \in Radio
    <3>1. (radio.listener /\ call # "stop") \in BOOLEAN
      BY Zenon
    <3> QED BY <2>1, <3>1, RadioCallTypes
  <2>4. radio' \in Radio /\ m_state' = "PrePollListening" /\ book' \in Book
    BY <1>t, <2>2, <2>3, ArmPrePollListeningType
  <2>5. lastCall' \in {"none", "start", "stop", "suspend", "resume"}
    BY <2>2, SessionAssumption DEF TypeOK
  <2>6. Heard.counter \in Nat /\ result' \in RangingResult
    BY <1>3, <2>1, FrameTypes, ResultType DEF FinalDataResult
  <2> QED BY <1>3, <2>4, <2>5, <2>6 DEF FinalDataResult, TypeOK, SessionState
<1> QED BY <1>1, <1>2, <1>3 DEF OnFinalData

LEMMA TypeOtherEvents ==
    ASSUME TypeOK, OnRxTimeout \/ OnRxError \/ IgnoreEvent \/ DropEvent
    PROVE  TypeOK'
<1>t. radio \in Radio
  BY DEF TypeOK
<1>r. Reported(radio) \in Radio
  BY <1>t, RadioCallTypes
<1>1. CASE ListenTimeout
  <2>1. radio' \in Radio
    BY <1>1, <1>r, OutcomesBoolean, RadioCallTypes DEF ListenTimeout
  <2> QED BY <1>1, <2>1 DEF ListenTimeout, TypeOK
<1>2. CASE LegTimeout
  <2>1. radio' \in Radio /\ m_state' = "PrePollListening" /\ book' \in Book
    BY <1>2, ListenAgainType DEF LegTimeout
  <2> QED BY <1>2, <2>1 DEF LegTimeout, TypeOK, SessionState
<1>3. CASE OnRxError
  <2>1. radio' \in Radio /\ m_state' = "PrePollListening" /\ book' \in Book
    BY <1>3, ListenAgainType DEF OnRxError
  <2> QED BY <1>3, <2>1 DEF OnRxError, TypeOK, SessionState
<1>4. CASE IgnoreEvent \/ DropEvent
  BY <1>4, <1>r DEF IgnoreEvent, DropEvent, TypeOK
<1> QED BY <1>1, <1>2, <1>3, <1>4 DEF OnRxTimeout

LEMMA TypeStep == TypeOK /\ [Next]_vars => TypeOK'
<1> SUFFICES ASSUME TypeOK, [Next]_vars PROVE TypeOK'
  OBVIOUS
<1>1. CASE ControlCall
  BY <1>1, TypeStart, TypeStopSuspendResume, TypeResumeWithAnchor DEF ControlCall
<1>2. CASE RadioEvent
  BY <1>2, RadioEventLatches, TypeLatch
<1>3. CASE HandleEvent
  BY <1>3, TypeOnPrePoll, TypeOnPoll, TypeOnTxComplete, TypeOnFinal, TypeOnFinalData,
     TypeOtherEvents DEF HandleEvent
<1>4. CASE UNCHANGED vars
  BY <1>4 DEF vars, TypeOK
<1> QED BY <1>1, <1>2, <1>3, <1>4 DEF Next

\* The type invariant of the session, whatever it is started with, whatever
\* it hears and whatever fails.
THEOREM TypeCorrect == Spec => []TypeOK
BY TypeInit, TypeStep, PTL DEF Spec

-----------------------------------------------------------------------------
(***************************************************************************)
(* What the handlers do, as the proofs below need it: most of them either  *)
(* leave the book alone or go back to listening with it.                   *)
(***************************************************************************)
Decoded(b) == \E derived \in LegsDerived(setup) : b = ProcessStashedPrePoll(setup, book, derived)

\* A handler that goes back to listening with what it has.
BackToListening ==
    /\ \/ UnreadablePrePoll \/ BootstrapRejected \/ PollRejected \/ PollWithoutKeys
       \/ FinalDataRejected \/ FinalDataWithoutResult \/ LegTimeout \/ OnRxError
       \/ OnTxComplete /\ ~ cycle.keysValid
       \/ PollReceived /\ m_state' = "PrePollListening"
       \/ FinalDataResult

LEMMA BackToListeningDoes ==
    ASSUME TypeOK, BackToListening
    PROVE  /\ m_state' = "PrePollListening" /\ radio'.stsMode = "Off"
           /\ Decoded(book') /\ book'.stashFrame = NoFrame
           /\ UNCHANGED setup
           /\ radio.listener = TRUE /\ m_state \in Active
           /\ radio'.event = NoEvent
           /\ "rx" \notin Faults => radio'.mode = "Rx"
<1>t. radio \in Radio /\ setup \in Setup /\ book \in Book /\ cycle \in Cycle
  BY DEF TypeOK
<1>1. ASSUME NEW state \in Active, NEW kind \in EventKind, HandledIn(state, kind),
             ListenAgain, UNCHANGED setup
      PROVE  /\ m_state' = "PrePollListening" /\ radio'.stsMode = "Off"
             /\ Decoded(book') /\ book'.stashFrame = NoFrame
             /\ UNCHANGED setup
             /\ radio.listener = TRUE /\ m_state \in Active
             /\ radio'.event = NoEvent
             /\ "rx" \notin Faults => radio'.mode = "Rx"
  BY <1>1, HandledEvent, ListenAgainType DEF Decoded
<1>2. CASE UnreadablePrePoll \/ BootstrapRejected
  <2>1. HandledIn("PrePollListening", "RxSuccess") /\ ListenAgain /\ UNCHANGED setup
    BY <1>2 DEF UnreadablePrePoll, BootstrapRejected, BootstrapFrame
  <2>2. "PrePollListening" \in Active /\ "RxSuccess" \in EventKind
    BY DEF Active, EventKind
  <2> QED BY <1>1, <2>1, <2>2
<1>3. CASE PollRejected \/ PollWithoutKeys
  <2>1. HandledIn("AwaitingPoll", "RxSuccess") /\ ListenAgain /\ UNCHANGED setup
    BY <1>3 DEF PollRejected, PollWithoutKeys
  <2>2. "AwaitingPoll" \in Active /\ "RxSuccess" \in EventKind
    BY DEF Active, EventKind
  <2> QED BY <1>1, <2>1, <2>2
<1>4. CASE FinalDataRejected \/ FinalDataWithoutResult
  <2>1. HandledIn("AwaitingFinalData", "RxSuccess") /\ ListenAgain /\ UNCHANGED setup
    BY <1>4 DEF FinalDataRejected, FinalDataWithoutResult
  <2>2. "AwaitingFinalData" \in Active /\ "RxSuccess" \in EventKind
    BY DEF Active, EventKind
  <2> QED BY <1>1, <2>1, <2>2
<1>5. CASE LegTimeout
  <2>1. PICK state \in Active : HandledIn(state, "RxTimeout")
    BY <1>5 DEF LegTimeout
  <2>2. ListenAgain /\ UNCHANGED setup /\ "RxTimeout" \in EventKind
    BY <1>5 DEF LegTimeout, EventKind
  <2> QED BY <1>1, <2>1, <2>2
<1>6. CASE OnRxError
  <2>1. PICK state \in Active : HandledIn(state, "RxError")
    BY <1>6 DEF OnRxError
  <2>2. ListenAgain /\ UNCHANGED setup /\ "RxError" \in EventKind
    BY <1>6 DEF OnRxError, EventKind
  <2> QED BY <1>1, <2>1, <2>2
<1>7. CASE OnTxComplete /\ ~ cycle.keysValid
  <2>1. HandledIn("TransmittingResponse", "TxDone") /\ ListenAgain /\ UNCHANGED setup
    BY <1>7 DEF OnTxComplete
  <2>2. "TransmittingResponse" \in Active /\ "TxDone" \in EventKind
    BY DEF Active, EventKind
  <2> QED BY <1>1, <2>1, <2>2
<1>8. CASE PollReceived /\ m_state' = "PrePollListening"
  <2> DEFINE loaded == WithLegKeys(Reported(radio), cycle.keys, "response")
  <2>1. HandledIn("AwaitingPoll", "RxSuccess") /\ UNCHANGED setup
    BY <1>8 DEF PollReceived
  <2>2. ArmPrePollListening(StartDelayedTx(loaded, FALSE), setup, book)
    BY <1>8 DEF PollReceived
  <2>3. StartDelayedTx(loaded, FALSE) \in Radio /\ StartDelayedTx(loaded, FALSE).event = NoEvent
    <3>1. Reported(radio) \in Radio /\ Reported(radio).event = NoEvent
      BY <2>1, HandledEvent
    <3>2. loaded \in Radio /\ loaded.event = NoEvent
      BY <1>t, <3>1, WithLegKeysType DEF Cycle, Legs
    <3> HIDE DEF loaded
    <3>3. StartDelayedTx(loaded, FALSE).event = loaded.event
      BY <3>2 DEF StartDelayedTx, Radio
    <3> QED BY <3>2, <3>3, RadioCallTypes
  <2> HIDE DEF loaded
  <2> QED BY <1>t, <2>1, <2>2, <2>3, HandledEvent, ArmPrePollListeningType DEF Decoded, Active
<1>9. CASE FinalDataResult
  <2>1. HandledIn("AwaitingFinalData", "RxSuccess") /\ UNCHANGED setup
    BY <1>9 DEF FinalDataResult
  <2>2. PICK call \in CallbackCalls :
          ArmPrePollListening(
              SetListener(Reported(radio), radio.listener /\ call # "stop"), setup, book)
    BY <1>9 DEF FinalDataResult
  <2>3. /\ SetListener(Reported(radio), radio.listener /\ call # "stop") \in Radio
        /\ SetListener(Reported(radio), radio.listener /\ call # "stop").event = NoEvent
    <3>1. (radio.listener /\ call # "stop") \in BOOLEAN
      BY Zenon
    <3>2. Reported(radio) \in Radio /\ Reported(radio).event = NoEvent
      BY <2>1, HandledEvent
    <3>3. SetListener(Reported(radio), radio.listener /\ call # "stop").event = NoEvent
      BY <3>2 DEF SetListener, Radio
    <3> QED BY <3>1, <3>2, <3>3, RadioCallTypes
  <2> QED BY <1>t, <2>1, <2>2, <2>3, HandledEvent, ArmPrePollListeningType DEF Decoded, Active
<1> QED BY <1>2, <1>3, <1>4, <1>5, <1>6, <1>7, <1>8, <1>9 DEF BackToListening

\* Every handler, by what it does to the state machine.
HandlerStep ==
    \/ BackToListening
    \/ WarmPrePoll \/ BootstrapOtherParity \/ BootstrapPrePoll
    \/ PollReceived /\ m_state' = "TransmittingResponse" /\ UNCHANGED book
    \/ OnTxComplete /\ cycle.keysValid
    \/ OnFinal
    \/ ListenTimeout \/ IgnoreEvent \/ DropEvent

LEMMA HandlerCases == HandleEvent => HandlerStep
<1>1. ASSUME OnPoll PROVE HandlerStep
  <2>1. PollReceived => \/ m_state' = "TransmittingResponse" /\ UNCHANGED book
                        \/ m_state' = "PrePollListening"
    BY DEF PollReceived, ArmPrePollListening
  <2> QED BY <1>1, <2>1 DEF OnPoll, BackToListening, HandlerStep
<1>2. ASSUME OnPrePoll \/ OnTxComplete \/ OnFinal \/ OnFinalData \/ OnRxTimeout \/ OnRxError
             \/ IgnoreEvent \/ DropEvent
      PROVE  HandlerStep
  BY <1>2 DEF OnPrePoll, OnFinalData, OnRxTimeout, BackToListening, HandlerStep
<1> QED BY <1>1, <1>2 DEF HandleEvent

\* Every step, likewise.
LEMMA StepCases ==
    ASSUME TypeOK, [Next]_vars
    PROVE  \/ \E ursk \in Ursks, p \in ParamsSet, node \in NodeConfigs : Start(ursk, p, node)
           \/ Stop \/ Suspend \/ Resume
           \/ \E stsIndex0 \in Anchors : ResumeWithAnchor(stsIndex0)
           \/ \E event \in Event : LatchEvent(event)
           \/ BackToListening
           \/ WarmPrePoll \/ BootstrapOtherParity \/ BootstrapPrePoll
           \/ PollReceived /\ m_state' = "TransmittingResponse" /\ UNCHANGED book
           \/ OnTxComplete /\ cycle.keysValid
           \/ OnFinal
           \/ ListenTimeout \/ IgnoreEvent \/ DropEvent
           \/ UNCHANGED vars
<1>1. CASE HandleEvent
  BY <1>1, HandlerCases DEF HandlerStep
<1>2. CASE RadioEvent
  BY <1>2, RadioEventLatches
<1>3. CASE ControlCall
  BY <1>3 DEF ControlCall
<1> QED BY <1>1, <1>2, <1>3 DEF Next

\* start, as the proofs below need it.
LEMMA StartDoes ==
    ASSUME TypeOK, NEW ursk \in Ursks, NEW p \in ParamsSet, NEW node \in NodeConfigs,
           Start(ursk, p, node)
    PROVE  /\ setup' \in Setup
           /\ \/ /\ setup'.materialValid = FALSE
                 /\ radio' = ForceReceiverOff(radio)
                 /\ UNCHANGED <<m_state, book, cycle, lastCall>>
              \/ /\ cycle'.keysValid = FALSE
                 /\ book' = ForgetPrePolls(book)
                 /\ \E configured \in Outcomes("phy") :
                      configured = FALSE /\ radio' = ConfigurePhy(ForceReceiverOff(radio), configured)
                 /\ UNCHANGED <<m_state, lastCall>>
              \/ /\ cycle'.keysValid = FALSE
                 /\ \E derived \in LegsDerived(setup') :
                      book' = ProcessStashedPrePoll(setup', ForgetPrePolls(book), derived)
                 /\ book'.stashFrame = NoFrame
                 /\ radio'.stsMode = "Off" /\ radio'.listener = TRUE
                 /\ "rx" \notin Faults => radio'.mode = "Rx"
                 /\ m_state' = "PrePollListening"
                 /\ lastCall' = "start"
<1>t. radio \in Radio /\ book \in Book /\ cycle \in Cycle /\ setup \in Setup
  BY DEF TypeOK
<1>1. ASSUME StartWithoutMaterial(ursk, p, node)
      PROVE  /\ setup' \in Setup /\ setup'.materialValid = FALSE
             /\ radio' = ForceReceiverOff(radio)
             /\ UNCHANGED <<m_state, book, cycle, lastCall>>
  <2>1. PICK steps \in MaterialSteps :
          setup' = SetUp(ursk, p, node, steps) /\ ~ setup'.materialValid
    BY <1>1 DEF StartWithoutMaterial
  <2>2. setup' \in Setup /\ setup'.materialValid = FALSE
    <3>1. setup' \in Setup
      BY <2>1, SetUpType
    <3>2. setup'.materialValid \in BOOLEAN
      BY <3>1 DEF Setup
    <3> QED BY <2>1, <3>1, <3>2
  <2> QED BY <1>1, <2>2 DEF StartWithoutMaterial
<1>2. ASSUME StartWithMaterial(ursk, p, node)
      PROVE  /\ setup' \in Setup /\ cycle'.keysValid = FALSE
             /\ \/ /\ book' = ForgetPrePolls(book)
                   /\ \E configured \in Outcomes("phy") :
                        configured = FALSE /\ radio' = ConfigurePhy(ForceReceiverOff(radio), configured)
                   /\ UNCHANGED <<m_state, lastCall>>
                \/ /\ \E derived \in LegsDerived(setup') :
                        book' = ProcessStashedPrePoll(setup', ForgetPrePolls(book), derived)
                   /\ book'.stashFrame = NoFrame
                   /\ radio'.stsMode = "Off" /\ radio'.listener = TRUE
                   /\ "rx" \notin Faults => radio'.mode = "Rx"
                   /\ m_state' = "PrePollListening"
                   /\ lastCall' = "start"
  <2>1. PICK steps \in MaterialSteps, configured \in Outcomes("phy") :
          /\ setup' = SetUp(ursk, p, node, steps)
          /\ cycle' = [cycle EXCEPT !.keysValid = FALSE]
          /\ \/ /\ ArmPrePollListening(
                      SetListener(ConfigurePhy(ForceReceiverOff(radio), configured), TRUE),
                      SetUp(ursk, p, node, steps), ForgetPrePolls(book))
                /\ lastCall' = "start"
             \/ /\ ~ configured
                /\ radio' = ConfigurePhy(ForceReceiverOff(radio), configured)
                /\ book' = ForgetPrePolls(book)
                /\ UNCHANGED <<m_state, lastCall>>
    BY <1>2 DEF StartWithMaterial
  <2>2. setup' \in Setup /\ configured \in BOOLEAN
    BY <2>1, SetUpType, OutcomesBoolean
  <2>3. cycle'.keysValid = FALSE
    BY <1>t, <2>1 DEF Cycle
  <2>4. ConfigurePhy(ForceReceiverOff(radio), configured) \in Radio
    BY <1>t, <2>2, RadioCallTypes
  <2>5. CASE ArmPrePollListening(
                 SetListener(ConfigurePhy(ForceReceiverOff(radio), configured), TRUE),
                 SetUp(ursk, p, node, steps), ForgetPrePolls(book)) /\ lastCall' = "start"
    <3> DEFINE r == SetListener(ConfigurePhy(ForceReceiverOff(radio), configured), TRUE)
    <3>1. r \in Radio
      BY <2>4, RadioCallTypes
    <3>2. r.listener = TRUE
      BY <2>4 DEF SetListener, Radio
    <3>3. ForgetPrePolls(book) \in Book
      BY <1>t, ForgetPrePollsType
    <3>4. ArmPrePollListening(r, setup', ForgetPrePolls(book))
      BY <2>1, <2>5
    <3> HIDE DEF r
    <3>5. /\ radio'.stsMode = "Off" /\ radio'.listener = TRUE
          /\ m_state' = "PrePollListening" /\ book'.stashFrame = NoFrame
          /\ \E derived \in LegsDerived(setup') :
               book' = ProcessStashedPrePoll(setup', ForgetPrePolls(book), derived)
          /\ "rx" \notin Faults => radio'.mode = "Rx"
      BY <2>2, <3>1, <3>2, <3>3, <3>4, ArmPrePollListeningType
    <3> QED BY <2>2, <2>3, <2>5, <3>5
  <2>6. CASE /\ ~ configured
             /\ radio' = ConfigurePhy(ForceReceiverOff(radio), configured)
             /\ book' = ForgetPrePolls(book)
             /\ UNCHANGED <<m_state, lastCall>>
    <3>1. configured = FALSE
      BY <2>2, <2>6
    <3> QED BY <2>2, <2>3, <2>6, <3>1
  <2> QED BY <2>1, <2>5, <2>6
<1> QED BY <1>1, <1>2, Zenon DEF Start

\* resumeWithAnchor, likewise.
LEMMA ResumeWithAnchorDoes ==
    ASSUME TypeOK, NEW stsIndex0 \in Anchors, ResumeWithAnchor(stsIndex0)
    PROVE  /\ m_state = "Suspended" /\ setup' \in Setup
           /\ \/ /\ setup'.materialValid = FALSE
                 /\ UNCHANGED <<m_state, radio, book, cycle, lastCall>>
              \/ /\ cycle'.keysValid = FALSE
                 /\ \E derived \in LegsDerived(setup') :
                      book' = ProcessStashedPrePoll(setup', ForgetPrePolls(book), derived)
                 /\ book'.stashFrame = NoFrame
                 /\ radio'.stsMode = "Off"
                 /\ "rx" \notin Faults => radio'.mode = "Rx"
                 /\ m_state' = "PrePollListening"
                 /\ lastCall' = "resume"
<1>t. radio \in Radio /\ setup \in Setup /\ book \in Book /\ cycle \in Cycle
  BY DEF TypeOK
<1>s. setup' \in Setup
  BY TypeResumeWithAnchor DEF TypeOK
<1>1. \/ /\ ~ setup'.materialValid
         /\ UNCHANGED <<m_state, radio, book, cycle, lastCall>>
      \/ /\ cycle' = [cycle EXCEPT !.keysValid = FALSE]
         /\ ArmPrePollListening(radio, setup', ForgetPrePolls(book))
         /\ lastCall' = "resume"
  BY DEF ResumeWithAnchor
<1>2. CASE ~ setup'.materialValid /\ UNCHANGED <<m_state, radio, book, cycle, lastCall>>
  <2>1. setup'.materialValid \in BOOLEAN
    BY <1>s DEF Setup
  <2> QED BY <1>2, <1>s, <2>1 DEF ResumeWithAnchor
<1>3. CASE /\ cycle' = [cycle EXCEPT !.keysValid = FALSE]
           /\ ArmPrePollListening(radio, setup', ForgetPrePolls(book))
           /\ lastCall' = "resume"
  <2>1. cycle'.keysValid = FALSE
    BY <1>3, <1>t DEF Cycle
  <2>2. ForgetPrePolls(book) \in Book
    BY <1>t, ForgetPrePollsType
  <2>3. /\ radio'.stsMode = "Off"
        /\ m_state' = "PrePollListening" /\ book'.stashFrame = NoFrame
        /\ \E derived \in LegsDerived(setup') :
             book' = ProcessStashedPrePoll(setup', ForgetPrePolls(book), derived)
        /\ "rx" \notin Faults => radio'.mode = "Rx"
    BY <1>3, <1>t, <1>s, <2>2, ArmPrePollListeningType
  <2> QED BY <1>3, <1>s, <2>1, <2>3 DEF ResumeWithAnchor
<1> QED BY <1>1, <1>2, <1>3

LEMMA ResumeDoes ==
    ASSUME TypeOK, Resume
    PROVE  /\ m_state = "Suspended" /\ m_state' = "PrePollListening" /\ UNCHANGED setup
           /\ radio'.stsMode = "Off" /\ Decoded(book') /\ book'.stashFrame = NoFrame
           /\ "rx" \notin Faults => radio'.mode = "Rx"
           /\ lastCall' = "resume"
<1>1. radio \in Radio /\ setup \in Setup /\ book \in Book
  BY DEF TypeOK
<1>2. ArmPrePollListening(radio, setup, book)
  BY DEF Resume
<1> QED BY <1>1, <1>2, ArmPrePollListeningType DEF Resume, Decoded

\* All three legs derived.
LEMMA AllLegs ==
    ASSUME NEW s, NEW pollStsIndex, NEW out
    PROVE  DeriveCycleKeys(s, pollStsIndex, out, 3) =
               [ pollStsIndex |-> pollStsIndex,
                 leg |-> [leg \in Legs |-> LegKeys(s, pollStsIndex, leg)] ]
<1>1. \A leg \in Legs : LegNumber(leg) <= 3
  BY DEF LegNumber, Legs
<1> QED BY <1>1 DEF DeriveCycleKeys

\* The bootstrap's two ends.
LEMMA BootstrapArms ==
    ASSUME TypeOK, BootstrapPrePoll
    PROVE  /\ UNCHANGED <<setup, lastCall>>
           /\ m_state = "PrePollListening" /\ radio.listener = TRUE
           /\ NotePrePoll(book, Heard) \in Book /\ NotePrePoll(book, Heard).warmValid = FALSE
           /\ "rx" \notin Faults => radio'.mode = "Rx"
           /\ \E derived \in LegsDerived(setup) :
                \/ /\ m_state' = "PrePollListening" /\ radio'.stsMode = "Off"
                   /\ book'.stashFrame = NoFrame
                   /\ book' = ProcessStashedPrePoll(setup, NotePrePoll(book, Heard), derived)
                \/ /\ m_state' = "AwaitingPoll" /\ radio'.stsMode = "NoDataSp3"
                   /\ cycle'.pollStsIndex = Heard.sts
                   /\ radio'.sts = LegKeys(setup, cycle'.pollStsIndex, "poll")
                   /\ \A leg \in Legs :
                        cycle'.keys.leg[leg] = LegKeys(setup, cycle'.pollStsIndex, leg)
                   /\ book' = RefreshWarmKeys(setup, NotePrePoll(book, Heard), derived)
<1>t. radio \in Radio /\ setup \in Setup /\ book \in Book /\ cycle \in Cycle
  BY DEF TypeOK
<1>k. cycle.keys \in CycleKeys /\ "poll" \in Legs
  BY <1>t DEF Cycle, Legs
<1> DEFINE noted == NotePrePoll(book, Heard)
           off == ForceReceiverOff(Reported(radio))
           keys(derived) == DeriveCycleKeys(setup, Heard.sts, cycle.keys, derived)
<1>1. /\ Heard \in Frames /\ Reported(radio) \in Radio
      /\ m_state = "PrePollListening" /\ radio.listener = TRUE
  BY HandledEvent DEF BootstrapPrePoll, BootstrapFrame
<1>2. off \in Radio /\ Heard.sts \in StsIndex
  BY <1>1, RadioCallTypes, FrameTypes
<1>3. noted \in Book /\ noted.warmValid = FALSE
  <2>1. book.warmValid = FALSE
    BY <1>t DEF BootstrapPrePoll, BootstrapFrame, Book
  <2> QED BY <1>t, <1>1, <2>1, NotePrePollType
<1>4. PICK derived \in LegsDerived(setup) :
        \/ ArmPrePollListening(off, setup, noted)
        \/ /\ derived = 3
           /\ cycle' = [cycle EXCEPT !.keysValid = TRUE, !.keys = keys(derived),
                                     !.pollStsIndex = Heard.sts]
           /\ ReceiveLeg(WithLegKeys(off, keys(derived), "poll"))
           /\ m_state' = "AwaitingPoll"
           /\ \E warmDerived \in LegsDerived(setup) :
                book' = RefreshWarmKeys(setup, noted, warmDerived)
  BY Zenon DEF BootstrapPrePoll
<1>5. UNCHANGED <<setup, lastCall>>
  BY DEF BootstrapPrePoll
<1> HIDE DEF noted, off, keys
<1>6. CASE ArmPrePollListening(off, setup, noted)
  <2>1. /\ m_state' = "PrePollListening" /\ radio'.stsMode = "Off" /\ book'.stashFrame = NoFrame
        /\ \E d \in LegsDerived(setup) : book' = ProcessStashedPrePoll(setup, noted, d)
        /\ "rx" \notin Faults => radio'.mode = "Rx"
    BY <1>6, <1>t, <1>2, <1>3, ArmPrePollListeningType
  <2> QED BY <1>1, <1>3, <1>5, <2>1 DEF noted
<1>7. CASE /\ derived = 3
           /\ cycle' = [cycle EXCEPT !.keysValid = TRUE, !.keys = keys(derived),
                                     !.pollStsIndex = Heard.sts]
           /\ ReceiveLeg(WithLegKeys(off, keys(derived), "poll"))
           /\ m_state' = "AwaitingPoll"
           /\ \E warmDerived \in LegsDerived(setup) :
                book' = RefreshWarmKeys(setup, noted, warmDerived)
  <2>1. keys(derived) \in CycleKeys
    BY <1>t, <1>k, <1>2, CycleKeysType DEF keys
  <2>2. /\ WithLegKeys(off, keys(derived), "poll") \in Radio
        /\ WithLegKeys(off, keys(derived), "poll").stsMode = "NoDataSp3"
        /\ WithLegKeys(off, keys(derived), "poll").sts = keys(derived).leg["poll"]
    BY <1>2, <1>k, <2>1, WithLegKeysType
  <2>3. /\ radio'.stsMode = "NoDataSp3" /\ radio'.sts = keys(derived).leg["poll"]
        /\ "rx" \notin Faults => radio'.mode = "Rx"
    BY <1>7, <2>2, ReceiveLegType
  <2>4. \A leg \in Legs : keys(derived).leg[leg] = LegKeys(setup, Heard.sts, leg)
    BY <1>7, AllLegs DEF keys
  <2>5. cycle'.pollStsIndex = Heard.sts /\ cycle'.keys = keys(derived)
    BY <1>7, <1>t DEF Cycle
  <2>6. /\ radio'.sts = LegKeys(setup, cycle'.pollStsIndex, "poll")
        /\ \A leg \in Legs : cycle'.keys.leg[leg] = LegKeys(setup, cycle'.pollStsIndex, leg)
    BY <1>k, <2>3, <2>4, <2>5
  <2> QED BY <1>1, <1>3, <1>5, <1>7, <2>3, <2>5, <2>6 DEF noted
<1> QED BY <1>4, <1>6, <1>7

-----------------------------------------------------------------------------
(***************************************************************************)
(* The stash.                                                              *)
(***************************************************************************)
LEMMA StashStep == TypeOK /\ StashDrained /\ [Next]_vars => StashDrained'
<1> SUFFICES ASSUME TypeOK, StashDrained, [Next]_vars PROVE StashDrained'
  OBVIOUS
<1>t. radio \in Radio /\ setup \in Setup /\ book \in Book /\ cycle \in Cycle
  BY DEF TypeOK
<1>1. ASSUME NEW ursk \in Ursks, NEW p \in ParamsSet, NEW node \in NodeConfigs,
             Start(ursk, p, node)
      PROVE  StashDrained'
  <2>1. ForgetPrePolls(book).stashFrame = book.stashFrame
    BY <1>t, ForgetPrePollsType
  <2>2. (m_state' = m_state /\ book'.stashFrame = book.stashFrame) \/ book'.stashFrame = NoFrame
    BY <1>1, <2>1, StartDoes
  <2> QED BY <2>2 DEF StashDrained
<1>2. CASE Stop \/ Suspend
  BY <1>2 DEF Stop, Suspend, StashDrained
<1>3. CASE Resume
  BY <1>3, ResumeDoes DEF StashDrained
<1>4. ASSUME NEW stsIndex0 \in Anchors, ResumeWithAnchor(stsIndex0) PROVE StashDrained'
  <2>1. UNCHANGED <<m_state, book>> \/ book'.stashFrame = NoFrame
    BY <1>4, ResumeWithAnchorDoes
  <2> QED BY <2>1 DEF StashDrained
<1>5. CASE BackToListening
  BY <1>5, BackToListeningDoes DEF StashDrained
<1>6. CASE WarmPrePoll
  BY <1>6 DEF WarmPrePoll, StashDrained
<1>7. CASE BootstrapOtherParity
  <2>1. Heard \in Frames /\ Reported(radio) \in Radio
    BY <1>7, HandledEvent DEF BootstrapOtherParity, BootstrapFrame
  <2>2. NotePrePoll(book, Heard) \in Book
    BY <1>t, <2>1, NotePrePollType
  <2>3. book'.stashFrame = NoFrame
    BY <1>7, <1>t, <2>1, <2>2, ArmPrePollListeningType DEF BootstrapOtherParity
  <2> QED BY <2>3 DEF StashDrained
<1>8. CASE BootstrapPrePoll
  <2>1. m_state' = "PrePollListening" => book'.stashFrame = NoFrame
    BY <1>8, BootstrapArms
  <2>2. m_state' \in {"PrePollListening", "AwaitingPoll"}
    BY <1>8, BootstrapArms
  <2> QED BY <2>1, <2>2 DEF StashDrained
<1>9. CASE PollReceived /\ m_state' = "TransmittingResponse" /\ UNCHANGED book
  BY <1>9 DEF StashDrained
<1>10. CASE OnTxComplete /\ cycle.keysValid
  BY <1>10 DEF OnTxComplete, StashDrained
<1>11. CASE OnFinal
  BY <1>11, <1>t, ProcessStashedPrePollType DEF OnFinal, StashDrained
<1>12. ASSUME NEW event \in Event, LatchEvent(event) PROVE StashDrained'
  BY <1>12 DEF LatchEvent, StashDrained
<1>13. CASE ListenTimeout \/ IgnoreEvent \/ DropEvent \/ UNCHANGED vars
  BY <1>13 DEF ListenTimeout, IgnoreEvent, DropEvent, vars, StashDrained
<1> QED BY <1>1, <1>2, <1>3, <1>4, <1>5, <1>6, <1>7, <1>8, <1>9, <1>10, <1>11, <1>12, <1>13,
           StepCases

\* A stashed Pre-Poll never outlives the exchange it came in, whatever is
\* heard, fails or is called in between.
THEOREM StashAlwaysDrained == Spec => []StashDrained
<1>1. Init => StashDrained
  BY DEF Init, StashDrained
<1> QED BY <1>1, StashStep, TypeInit, TypeStep, PTL DEF Spec

-----------------------------------------------------------------------------
(***************************************************************************)
(* Warm keys.  WarmInv is what the book promises for the setup: warm keys  *)
(* are the keys of the exchange they name, and a node that takes part in   *)
(* every block has them for the next exchange.                             *)
(***************************************************************************)
WarmForThemselves(s, b) ==
    b.warmValid => \A leg \in Legs : b.warm.leg[leg] = LegKeys(s, b.warm.pollStsIndex, leg)

WarmForNext(s, b) ==
    b.warmValid /\ s.nodeConfig.blockParityFilter < 0 =>
        /\ Schedulable(s.params, b.currentBlock, b.currentRound)
        /\ b.warm = [ pollStsIndex |-> NextPollStsIndex(s, b),
                      leg |-> [leg \in Legs |-> LegKeys(s, NextPollStsIndex(s, b), leg)] ]

WarmOk(s, b) == WarmForThemselves(s, b) /\ WarmForNext(s, b)

WarmInv == setup.materialValid => WarmOk(setup, book)

LEMMA ColdIsOk == ASSUME NEW s, NEW b, b.warmValid = FALSE PROVE WarmOk(s, b)
BY DEF WarmOk, WarmForThemselves, WarmForNext

LEMMA RefreshIsOk ==
    ASSUME NEW s \in Setup, NEW b \in Book, NEW derived \in LegsDerived(s)
    PROVE  WarmOk(s, RefreshWarmKeys(s, b, derived))
<1> DEFINE after == RefreshWarmKeys(s, b, derived)
           sts == NextPollStsIndex(s, b)
<1>1. CASE ~ (Schedulable(s.params, b.currentBlock, b.currentRound) /\ derived = 3)
  <2>1. after.warmValid = FALSE
    BY <1>1 DEF RefreshWarmKeys, Book
  <2> QED BY <2>1, ColdIsOk
<1>2. CASE Schedulable(s.params, b.currentBlock, b.currentRound) /\ derived = 3
  <2>1. after = [b EXCEPT !.warm = DeriveCycleKeys(s, sts, b.warm, 3), !.warmValid = TRUE]
    BY <1>2 DEF RefreshWarmKeys
  <2>2. /\ after.warm = [ pollStsIndex |-> sts, leg |-> [leg \in Legs |-> LegKeys(s, sts, leg)] ]
        /\ after.currentBlock = b.currentBlock /\ after.currentRound = b.currentRound
    BY <2>1, AllLegs DEF Book
  <2>3. NextPollStsIndex(s, after) = sts
    BY <2>2 DEF NextPollStsIndex
  <2> HIDE DEF after, sts
  <2>4. WarmForNext(s, after)
    BY <1>2, <2>2, <2>3 DEF WarmForNext
  <2>5. \A leg \in Legs : after.warm.leg[leg] = LegKeys(s, after.warm.pollStsIndex, leg)
    BY <2>2
  <2>6. WarmForThemselves(s, after)
    BY <2>5 DEF WarmForThemselves
  <2>7. WarmOk(s, after)
    BY <2>4, <2>6 DEF WarmOk
  <2> QED BY <2>7 DEF after
<1> QED BY <1>1, <1>2

LEMMA ProcessKeepsOk ==
    ASSUME NEW s \in Setup, NEW b \in Book, NEW derived \in LegsDerived(s), WarmOk(s, b)
    PROVE  WarmOk(s, ProcessStashedPrePoll(s, b, derived))
<1> DEFINE f == b.stashFrame
           drained == [b EXCEPT !.stashFrame = NoFrame]
           noted == NotePrePoll(drained, f)
<1>1. f \in Frames \cup {NoFrame} /\ drained \in Book
  BY DEF Book
<1>2. CASE f = NoFrame
  BY <1>2 DEF ProcessStashedPrePoll
<1>3. CASE f # NoFrame /\ ~ AcceptsPrePoll(s, drained, f)
  <2>1. ProcessStashedPrePoll(s, b, derived) = [drained EXCEPT !.warmValid = FALSE]
    BY <1>3 DEF ProcessStashedPrePoll
  <2> HIDE DEF drained
  <2>2. ProcessStashedPrePoll(s, b, derived).warmValid = FALSE
    BY <2>1, <1>1 DEF Book
  <2> QED BY <2>2, ColdIsOk
<1>4. CASE f # NoFrame /\ AcceptsPrePoll(s, drained, f)
  <2>1. ProcessStashedPrePoll(s, b, derived) =
            IF IsBlockParityEligible(s, f.block) THEN RefreshWarmKeys(s, noted, derived) ELSE noted
    BY <1>4 DEF ProcessStashedPrePoll
  <2>2. noted \in Book /\ noted.warmValid = b.warmValid /\ noted.warm = b.warm
    <3>1. drained.warmValid = b.warmValid /\ drained.warm = b.warm
      BY DEF Book
    <3> QED BY <1>1, <1>4, <3>1, NotePrePollType
  <2> HIDE DEF noted
  <2>3. CASE IsBlockParityEligible(s, f.block)
    BY <2>1, <2>2, <2>3, RefreshIsOk
  <2>4. CASE ~ IsBlockParityEligible(s, f.block)
    <3>1. ~ (s.nodeConfig.blockParityFilter < 0)
      BY <2>4 DEF IsBlockParityEligible
    <3>2. WarmForNext(s, noted)
      BY <3>1 DEF WarmForNext
    <3>3. WarmForThemselves(s, noted)
      BY <2>2 DEF WarmOk, WarmForThemselves
    <3> QED BY <2>1, <2>4, <3>2, <3>3 DEF WarmOk
  <2> QED BY <2>3, <2>4
<1> QED BY <1>1, <1>2, <1>3, <1>4

LEMMA WarmStep == TypeOK /\ WarmInv /\ [Next]_vars => WarmInv'
<1> SUFFICES ASSUME TypeOK, WarmInv, [Next]_vars, setup'.materialValid
             PROVE  WarmOk(setup', book')
  BY DEF WarmInv
<1>t. radio \in Radio /\ setup \in Setup /\ book \in Book /\ cycle \in Cycle
  BY DEF TypeOK
<1>d. ASSUME UNCHANGED setup, Decoded(book') PROVE WarmOk(setup', book')
  BY <1>d, <1>t, ProcessKeepsOk DEF Decoded, WarmInv
<1>u. ASSUME UNCHANGED <<setup, book>> PROVE WarmOk(setup', book')
  BY <1>u DEF WarmInv
<1>f. ForgetPrePolls(book) \in Book /\ ForgetPrePolls(book).warmValid = FALSE
  BY <1>t, ForgetPrePollsType
<1>1. ASSUME NEW ursk \in Ursks, NEW p \in ParamsSet, NEW node \in NodeConfigs,
             Start(ursk, p, node)
      PROVE  WarmOk(setup', book')
  <2>1. /\ setup' \in Setup
        /\ \/ book' = ForgetPrePolls(book)
           \/ \E derived \in LegsDerived(setup') :
                book' = ProcessStashedPrePoll(setup', ForgetPrePolls(book), derived)
    BY <1>1, StartDoes
  <2> QED BY <2>1, <1>f, ColdIsOk, ProcessKeepsOk
<1>2. CASE Stop \/ Suspend
  BY <1>2, <1>u DEF Stop, Suspend
<1>3. CASE Resume
  BY <1>3, <1>d, ResumeDoes
<1>4. ASSUME NEW stsIndex0 \in Anchors, ResumeWithAnchor(stsIndex0)
      PROVE  WarmOk(setup', book')
  <2>1. /\ setup' \in Setup
        /\ \E derived \in LegsDerived(setup') :
             book' = ProcessStashedPrePoll(setup', ForgetPrePolls(book), derived)
    BY <1>4, ResumeWithAnchorDoes
  <2> QED BY <2>1, <1>f, ColdIsOk, ProcessKeepsOk
<1>5. CASE BackToListening
  BY <1>5, <1>d, BackToListeningDoes
<1>6. CASE WarmPrePoll
  <2>1. /\ UNCHANGED setup /\ book.warmValid
        /\ book' = [book EXCEPT !.stashFrame = Heard, !.warmValid = HeaderOk(setup, book, Heard)]
    BY <1>6 DEF WarmPrePoll
  <2>2. /\ book'.warm = book.warm /\ book'.currentBlock = book.currentBlock
        /\ book'.currentRound = book.currentRound
    BY <2>1, <1>t DEF Book
  <2>3. NextPollStsIndex(setup, book') = NextPollStsIndex(setup, book)
    BY <2>2 DEF NextPollStsIndex
  <2> QED BY <2>1, <2>2, <2>3 DEF WarmInv, WarmOk, WarmForThemselves, WarmForNext
<1>7. CASE BootstrapOtherParity
  <2>1. Heard \in Frames /\ Reported(radio) \in Radio
    BY <1>7, HandledEvent DEF BootstrapOtherParity, BootstrapFrame
  <2>2. NotePrePoll(book, Heard) \in Book /\ NotePrePoll(book, Heard).warmValid = FALSE
    <3>1. book.warmValid = FALSE
      BY <1>7, <1>t DEF BootstrapOtherParity, BootstrapFrame, Book
    <3> QED BY <1>t, <2>1, <3>1, NotePrePollType
  <2>3. \E derived \in LegsDerived(setup) :
          book' = ProcessStashedPrePoll(setup, NotePrePoll(book, Heard), derived)
    BY <1>7, <1>t, <2>1, <2>2, ArmPrePollListeningType DEF BootstrapOtherParity
  <2>4. UNCHANGED setup
    BY <1>7 DEF BootstrapOtherParity
  <2> QED BY <1>t, <2>2, <2>3, <2>4, ColdIsOk, ProcessKeepsOk
<1>8. CASE BootstrapPrePoll
  <2>1. /\ UNCHANGED setup
        /\ NotePrePoll(book, Heard) \in Book /\ NotePrePoll(book, Heard).warmValid = FALSE
        /\ \E derived \in LegsDerived(setup) :
             \/ book' = ProcessStashedPrePoll(setup, NotePrePoll(book, Heard), derived)
             \/ book' = RefreshWarmKeys(setup, NotePrePoll(book, Heard), derived)
    BY <1>8, BootstrapArms
  <2> QED BY <1>t, <2>1, ColdIsOk, ProcessKeepsOk, RefreshIsOk
<1>9. CASE PollReceived /\ m_state' = "TransmittingResponse" /\ UNCHANGED book
  BY <1>9, <1>u DEF PollReceived
<1>10. CASE OnTxComplete /\ cycle.keysValid
  BY <1>10, <1>u DEF OnTxComplete
<1>11. CASE OnFinal
  BY <1>11, <1>d DEF OnFinal, Decoded
<1>12. ASSUME NEW event \in Event, LatchEvent(event) PROVE WarmOk(setup', book')
  BY <1>12, <1>u DEF LatchEvent
<1>13. CASE ListenTimeout \/ IgnoreEvent \/ DropEvent \/ UNCHANGED vars
  BY <1>13, <1>u DEF ListenTimeout, IgnoreEvent, DropEvent, vars
<1> QED BY <1>1, <1>2, <1>3, <1>4, <1>5, <1>6, <1>7, <1>8, <1>9, <1>10, <1>11, <1>12, <1>13,
           StepCases

LEMMA WarmInit == Init => WarmInv
BY DEF Init, WarmInv

\* Warm keys are always the keys of the exchange that follows the last
\* Pre-Poll the session decoded, whatever is heard, fails or is called.
THEOREM WarmKeysAreNext == Spec => []WarmIsNext
<1>1. WarmInv => WarmIsNext
  BY DEF WarmInv, WarmOk, WarmForNext, WarmIsNext
<1> QED BY <1>1, WarmInit, WarmStep, TypeInit, TypeStep, PTL DEF Spec

-----------------------------------------------------------------------------
(***************************************************************************)
(* The STS of the legs.  LegSecured alone is not inductive: the keys of    *)
(* the later legs must be right before they are loaded, and the warm keys  *)
(* before they are armed.                                                  *)
(***************************************************************************)
Secured == {"AwaitingPoll", "TransmittingResponse", "AwaitingFinal"}

KeysArmed ==
    setup.materialValid /\ cycle.keysValid /\ m_state \in Secured =>
        \A leg \in Legs : cycle.keys.leg[leg] = LegKeys(setup, cycle.pollStsIndex, leg)

SecuredInv == LegSecured /\ KeysArmed

\* A step that ends in none of the secured legs, with the STS off if it must be.
LEMMA UnsecuredOk ==
    ASSUME m_state' \notin Secured,
           m_state' \in {"PrePollListening", "AwaitingFinalData"} => radio'.stsMode = "Off"
    PROVE  SecuredInv'
BY DEF SecuredInv, LegSecured, KeysArmed, Secured

\* A step that leaves the secured legs as they are.
LEMMA SecuredUnchanged ==
    ASSUME SecuredInv, UNCHANGED <<m_state, setup>>,
           cycle'.keysValid = cycle.keysValid, cycle'.keys = cycle.keys,
           cycle'.pollStsIndex = cycle.pollStsIndex,
           radio'.stsMode = radio.stsMode, radio'.sts = radio.sts
    PROVE  SecuredInv'
BY DEF SecuredInv, LegSecured, SecuredBy, KeysArmed

\* A step that leaves nothing to secure: no valid material or no keys.
LEMMA NothingToSecure ==
    ASSUME SecuredInv, m_state' = m_state,
           setup'.materialValid = FALSE \/ cycle'.keysValid = FALSE,
           radio'.stsMode = "Off" \/ radio'.stsMode = radio.stsMode
    PROVE  SecuredInv'
BY DEF SecuredInv, LegSecured, KeysArmed

LEMMA SecuredStep == TypeOK /\ WarmInv /\ SecuredInv /\ [Next]_vars => SecuredInv'
<1> SUFFICES ASSUME TypeOK, WarmInv, SecuredInv, [Next]_vars PROVE SecuredInv'
  OBVIOUS
<1>t. radio \in Radio /\ setup \in Setup /\ book \in Book /\ cycle \in Cycle
  BY DEF TypeOK
<1>k. /\ cycle.keys \in CycleKeys /\ book.warm \in CycleKeys
      /\ "poll" \in Legs /\ "response" \in Legs /\ "final" \in Legs
  BY <1>t DEF Cycle, Book, Legs
<1>1. ASSUME NEW ursk \in Ursks, NEW p \in ParamsSet, NEW node \in NodeConfigs,
             Start(ursk, p, node)
      PROVE  SecuredInv'
  <2>1. CASE m_state' = "PrePollListening" /\ radio'.stsMode = "Off"
    BY <2>1, UnsecuredOk DEF Secured
  <2>2. CASE setup'.materialValid = FALSE /\ radio' = ForceReceiverOff(radio) /\ UNCHANGED m_state
    <3>1. radio'.stsMode = radio.stsMode
      BY <2>2, <1>t DEF ForceReceiverOff, Radio
    <3> QED BY <2>2, <3>1, NothingToSecure
  <2>3. CASE /\ cycle'.keysValid = FALSE /\ UNCHANGED m_state
             /\ radio' = ConfigurePhy(ForceReceiverOff(radio), FALSE)
    <3>1. radio'.stsMode = radio.stsMode
      BY <2>3, <1>t DEF ForceReceiverOff, ConfigurePhy, Radio
    <3> QED BY <2>3, <3>1, NothingToSecure
  <2> QED BY <1>1, <2>1, <2>2, <2>3, StartDoes
<1>2. CASE Stop \/ Suspend
  <2>1. m_state' \in {"Idle", "Suspended"}
    BY <1>2 DEF Stop, Suspend
  <2> QED BY <2>1, UnsecuredOk DEF Secured
<1>3. CASE Resume
  BY <1>3, ResumeDoes, UnsecuredOk DEF Secured
<1>4. ASSUME NEW stsIndex0 \in Anchors, ResumeWithAnchor(stsIndex0) PROVE SecuredInv'
  <2>1. \/ m_state' = "Suspended"
        \/ m_state' = "PrePollListening" /\ radio'.stsMode = "Off"
    BY <1>4, ResumeWithAnchorDoes
  <2> QED BY <2>1, UnsecuredOk DEF Secured
<1>5. CASE BackToListening
  BY <1>5, BackToListeningDoes, UnsecuredOk DEF Secured
<1>6. CASE WarmPrePoll
  <2>1. Reported(radio) \in Radio
    BY <1>6, HandledEvent DEF WarmPrePoll
  <2>2. radio'.stsMode = "NoDataSp3" /\ radio'.sts = book.warm.leg["poll"]
    <3>1. /\ WithLegKeys(Reported(radio), book.warm, "poll") \in Radio
          /\ WithLegKeys(Reported(radio), book.warm, "poll").stsMode = "NoDataSp3"
          /\ WithLegKeys(Reported(radio), book.warm, "poll").sts = book.warm.leg["poll"]
      BY <1>k, <2>1, WithLegKeysType
    <3> QED BY <1>6, <3>1, ReceiveLegType DEF WarmPrePoll
  <2>3. /\ cycle'.keys = book.warm /\ cycle'.pollStsIndex = book.warm.pollStsIndex
        /\ m_state' = "AwaitingPoll" /\ UNCHANGED setup /\ book.warmValid
    BY <1>6, <1>t DEF WarmPrePoll, Cycle
  <2>4. setup.materialValid =>
            \A leg \in Legs : book.warm.leg[leg] = LegKeys(setup, book.warm.pollStsIndex, leg)
    BY <2>3 DEF WarmInv, WarmOk, WarmForThemselves
  <2>5. LegSecured'
    BY <1>k, <2>2, <2>3, <2>4 DEF LegSecured, SecuredBy
  <2>6. KeysArmed'
    BY <2>3, <2>4 DEF KeysArmed
  <2> QED BY <2>5, <2>6 DEF SecuredInv
<1>7. CASE BootstrapOtherParity
  <2>1. Heard \in Frames /\ Reported(radio) \in Radio
    BY <1>7, HandledEvent DEF BootstrapOtherParity, BootstrapFrame
  <2>2. NotePrePoll(book, Heard) \in Book
    BY <1>t, <2>1, NotePrePollType
  <2>3. m_state' = "PrePollListening" /\ radio'.stsMode = "Off"
    BY <1>7, <1>t, <2>1, <2>2, ArmPrePollListeningType DEF BootstrapOtherParity
  <2> QED BY <2>3, UnsecuredOk DEF Secured
<1>8. CASE BootstrapPrePoll
  <2>1. CASE m_state' = "PrePollListening" /\ radio'.stsMode = "Off"
    BY <2>1, UnsecuredOk DEF Secured
  <2>2. CASE /\ m_state' = "AwaitingPoll" /\ radio'.stsMode = "NoDataSp3"
             /\ radio'.sts = LegKeys(setup, cycle'.pollStsIndex, "poll")
             /\ \A leg \in Legs :
                  cycle'.keys.leg[leg] = LegKeys(setup, cycle'.pollStsIndex, leg)
    <3>1. UNCHANGED setup
      BY <1>8, BootstrapArms
    <3>2. LegSecured'
      BY <2>2, <3>1 DEF LegSecured, SecuredBy
    <3>3. KeysArmed'
      BY <2>2, <3>1 DEF KeysArmed
    <3> QED BY <3>2, <3>3 DEF SecuredInv
  <2> QED BY <1>8, <2>1, <2>2, BootstrapArms
<1>9. CASE PollReceived /\ m_state' = "TransmittingResponse" /\ UNCHANGED book
  <2> DEFINE loaded == WithLegKeys(Reported(radio), cycle.keys, "response")
  <2>1. Reported(radio) \in Radio /\ m_state = "AwaitingPoll"
    BY <1>9, HandledEvent DEF PollReceived
  <2>2. /\ loaded \in Radio /\ loaded.stsMode = "NoDataSp3"
        /\ loaded.sts = cycle.keys.leg["response"]
    BY <1>k, <2>1, WithLegKeysType
  <2>3. radio' = StartDelayedTx(loaded, TRUE)
    BY <1>9 DEF PollReceived, ArmPrePollListening
  <2> HIDE DEF loaded
  <2>4. radio'.stsMode = "NoDataSp3" /\ radio'.sts = cycle.keys.leg["response"]
    BY <2>2, <2>3 DEF StartDelayedTx, Radio
  <2>5. /\ cycle.keysValid /\ cycle'.keys = cycle.keys
        /\ cycle'.pollStsIndex = cycle.pollStsIndex /\ UNCHANGED setup
    BY <1>9, <1>t DEF PollReceived, Cycle
  <2>6. setup.materialValid =>
            \A leg \in Legs : cycle.keys.leg[leg] = LegKeys(setup, cycle.pollStsIndex, leg)
    BY <2>1, <2>5 DEF SecuredInv, KeysArmed, Secured
  <2>7. LegSecured'
    BY <1>9, <1>k, <2>4, <2>5, <2>6 DEF LegSecured, SecuredBy
  <2>8. KeysArmed'
    BY <2>5, <2>6 DEF KeysArmed
  <2> QED BY <2>7, <2>8 DEF SecuredInv
<1>10. CASE OnTxComplete /\ cycle.keysValid
  <2>1. Reported(radio) \in Radio /\ m_state = "TransmittingResponse"
    BY <1>10, HandledEvent DEF OnTxComplete
  <2>2. /\ ReceiveLeg(WithLegKeys(Reported(radio), cycle.keys, "final"))
        /\ m_state' = "AwaitingFinal" /\ UNCHANGED setup
    BY <1>10 DEF OnTxComplete
  <2>3. radio'.stsMode = "NoDataSp3" /\ radio'.sts = cycle.keys.leg["final"]
    <3>1. /\ WithLegKeys(Reported(radio), cycle.keys, "final") \in Radio
          /\ WithLegKeys(Reported(radio), cycle.keys, "final").stsMode = "NoDataSp3"
          /\ WithLegKeys(Reported(radio), cycle.keys, "final").sts = cycle.keys.leg["final"]
      BY <1>k, <2>1, WithLegKeysType
    <3> QED BY <2>2, <3>1, ReceiveLegType
  <2>4. cycle'.keys = cycle.keys /\ cycle'.pollStsIndex = cycle.pollStsIndex
    BY <1>10, <1>t DEF OnTxComplete, Cycle
  <2>5. setup.materialValid =>
            \A leg \in Legs : cycle.keys.leg[leg] = LegKeys(setup, cycle.pollStsIndex, leg)
    BY <1>10, <2>1 DEF SecuredInv, KeysArmed, Secured
  <2>6. LegSecured'
    BY <1>k, <2>2, <2>3, <2>4, <2>5 DEF LegSecured, SecuredBy
  <2>7. KeysArmed'
    BY <2>2, <2>4, <2>5 DEF KeysArmed
  <2> QED BY <2>6, <2>7 DEF SecuredInv
<1>11. CASE OnFinal
  <2>1. Reported(radio) \in Radio
    BY <1>11, HandledEvent DEF OnFinal
  <2>2. /\ ConfigureStsMode(ForceReceiverOff(Reported(radio)), "Off") \in Radio
        /\ ConfigureStsMode(ForceReceiverOff(Reported(radio)), "Off").stsMode = "Off"
    <3>1. ForceReceiverOff(Reported(radio)) \in Radio
      BY <2>1, RadioCallTypes
    <3>2. ConfigureStsMode(ForceReceiverOff(Reported(radio)), "Off").stsMode = "Off"
      BY <3>1 DEF ConfigureStsMode, Radio
    <3> QED BY <3>1, <3>2, RadioCallTypes
  <2>3. radio'.stsMode = "Off" /\ m_state' = "AwaitingFinalData"
    BY <1>11, <2>2, ReceiveLegType DEF OnFinal
  <2> QED BY <2>3, UnsecuredOk DEF Secured
<1>12. ASSUME NEW event \in Event, LatchEvent(event) PROVE SecuredInv'
  <2>1. radio'.stsMode = radio.stsMode /\ radio'.sts = radio.sts
    BY <1>12, <1>t DEF LatchEvent, Latch, Radio
  <2> QED BY <1>12, <2>1, SecuredUnchanged DEF LatchEvent
<1>13. CASE ListenTimeout
  <2>1. radio'.stsMode = radio.stsMode /\ radio'.sts = radio.sts
    BY <1>13, <1>t DEF ListenTimeout, StartImmediateRx, Reported, Radio
  <2> QED BY <1>13, <2>1, SecuredUnchanged DEF ListenTimeout
<1>14. CASE IgnoreEvent \/ DropEvent
  <2>1. radio'.stsMode = radio.stsMode /\ radio'.sts = radio.sts
    BY <1>14, <1>t DEF IgnoreEvent, DropEvent, Reported, Radio
  <2> QED BY <1>14, <2>1, SecuredUnchanged DEF IgnoreEvent, DropEvent
<1>15. CASE UNCHANGED vars
  BY <1>15, SecuredUnchanged DEF vars
<1> QED BY <1>1, <1>2, <1>3, <1>4, <1>5, <1>6, <1>7, <1>8, <1>9, <1>10, <1>11, <1>12, <1>13,
           <1>14, <1>15, StepCases

LEMMA SecuredInit == Init => SecuredInv
BY DEF Init, SecuredInv, LegSecured, KeysArmed, Secured

\* Every secured leg is received or sent under its own keys of the armed
\* exchange and the current material; the unsecured ones with the STS off.
THEOREM LegsAlwaysSecured == Spec => []LegSecured
<1>1. SecuredInv => LegSecured
  BY DEF SecuredInv
<1> QED BY <1>1, SecuredInit, SecuredStep, WarmInit, WarmStep, TypeInit, TypeStep, PTL DEF Spec

-----------------------------------------------------------------------------
(***************************************************************************)
(* The control calls.                                                      *)
(***************************************************************************)
LEMMA HandlersNeedAListener ==
    ASSUME TypeOK,
           BackToListening \/ WarmPrePoll \/ BootstrapOtherParity \/ BootstrapPrePoll
           \/ PollReceived \/ OnTxComplete \/ OnFinal \/ ListenTimeout
    PROVE  radio.listener = TRUE /\ m_state \in Active
<1>1. CASE BackToListening
  BY <1>1, BackToListeningDoes
<1>2. CASE WarmPrePoll \/ BootstrapOtherParity \/ BootstrapPrePoll \/ PollReceived
           \/ OnTxComplete \/ OnFinal \/ ListenTimeout
  <2>1. \E state \in Active, kind \in EventKind : HandledIn(state, kind)
    BY <1>2 DEF WarmPrePoll, BootstrapOtherParity, BootstrapPrePoll, BootstrapFrame,
                PollReceived, OnTxComplete, OnFinal, ListenTimeout, Active, EventKind
  <2> QED BY <2>1, HandledEvent
<1> QED BY <1>1, <1>2

LEMMA LastCallUnchanged ==
    ASSUME CallbackCalls = {"none"},
           BackToListening \/ WarmPrePoll \/ BootstrapOtherParity \/ BootstrapPrePoll
           \/ PollReceived \/ OnTxComplete \/ OnFinal \/ ListenTimeout
    PROVE  lastCall' = lastCall
BY DEF BackToListening, UnreadablePrePoll, WarmPrePoll, BootstrapRejected, BootstrapOtherParity,
       BootstrapPrePoll, PollRejected, PollWithoutKeys, PollReceived, OnTxComplete, OnFinal,
       FinalDataRejected, FinalDataWithoutResult, FinalDataResult, ListenTimeout, LegTimeout,
       OnRxError

LEMMA ControlStep ==
    ASSUME CallbackCalls = {"none"}
    PROVE  TypeOK /\ ControlHolds /\ [Next]_vars => ControlHolds'
<1> SUFFICES ASSUME TypeOK, ControlHolds, [Next]_vars PROVE ControlHolds'
  OBVIOUS
<1>t. radio \in Radio
  BY DEF TypeOK
<1>1. ASSUME NEW ursk \in Ursks, NEW p \in ParamsSet, NEW node \in NodeConfigs,
             Start(ursk, p, node)
      PROVE  ControlHolds'
  <2>1. /\ ForceReceiverOff(radio).mode = "Off"
        /\ ForceReceiverOff(radio).listener = radio.listener
        /\ ConfigurePhy(ForceReceiverOff(radio), FALSE).mode = "Off"
        /\ ConfigurePhy(ForceReceiverOff(radio), FALSE).listener = radio.listener
    BY <1>t DEF ForceReceiverOff, ConfigurePhy, Radio
  <2>2. \/ lastCall' = "start"
        \/ /\ UNCHANGED <<m_state, lastCall>>
           /\ radio'.mode = "Off" /\ radio'.listener = radio.listener
    BY <1>1, <2>1, StartDoes
  <2> QED BY <2>2 DEF ControlHolds
<1>2. CASE Stop
  <2>1. radio'.mode = "Off" /\ ~ radio'.listener
    BY <1>2, <1>t DEF Stop, ForceReceiverOff, SetListener, Radio
  <2> QED BY <1>2, <2>1 DEF Stop, ControlHolds
<1>3. CASE Suspend
  <2>1. radio'.mode = "Off"
    BY <1>3, <1>t DEF Suspend, ForceReceiverOff, Radio
  <2> QED BY <1>3, <2>1 DEF Suspend, ControlHolds
<1>4. CASE Resume
  BY <1>4, ResumeDoes DEF ControlHolds
<1>5. ASSUME NEW stsIndex0 \in Anchors, ResumeWithAnchor(stsIndex0) PROVE ControlHolds'
  <2>1. lastCall' = "resume" \/ UNCHANGED <<m_state, radio, lastCall>>
    BY <1>5, ResumeWithAnchorDoes
  <2> QED BY <2>1 DEF ControlHolds
<1>6. ASSUME NEW event \in Event, LatchEvent(event) PROVE ControlHolds'
  <2>1. radio.mode # "Off"
    BY <1>6 DEF LatchEvent, CanLatch
  <2> QED BY <1>6, <2>1 DEF LatchEvent, ControlHolds
<1>7. CASE BackToListening \/ WarmPrePoll \/ BootstrapOtherParity \/ BootstrapPrePoll
           \/ PollReceived \/ OnTxComplete \/ OnFinal \/ ListenTimeout
  <2>1. lastCall # "stop" /\ lastCall # "suspend"
    BY <1>7, HandlersNeedAListener DEF ControlHolds, Active
  <2> QED BY <1>7, <2>1, LastCallUnchanged DEF ControlHolds
<1>8. CASE IgnoreEvent \/ DropEvent
  <2>1. radio'.mode = radio.mode /\ radio'.listener = radio.listener
    BY <1>8, <1>t DEF IgnoreEvent, DropEvent, Reported, Radio
  <2> QED BY <1>8, <2>1 DEF IgnoreEvent, DropEvent, ControlHolds
<1>9. CASE UNCHANGED vars
  BY <1>9 DEF vars, ControlHolds
<1> QED BY <1>1, <1>2, <1>3, <1>4, <1>5, <1>6, <1>7, <1>8, <1>9, StepCases

\* stop and suspend hold as long as the range callback calls neither, also
\* against an event that was latched before and whatever fails.
THEOREM ControlCallsHold ==
    ASSUME CallbackCalls = {"none"}
    PROVE  Spec => []ControlHolds
<1>1. Init => ControlHolds
  BY DEF Init, ControlHolds
<1>2. TypeOK /\ ControlHolds /\ [Next]_vars => ControlHolds'
  BY ControlStep
<1> QED BY <1>1, <1>2, TypeInit, TypeStep, PTL DEF Spec

-----------------------------------------------------------------------------
(***************************************************************************)
(* The receiver.  The transceiver does what the state says, and an event   *)
(* that waits while it is off is one the state has a handler for.          *)
(***************************************************************************)
DeafInv ==
    m_state \in Active =>
        /\ radio.mode = "Tx" => m_state = "TransmittingResponse"
        /\ radio.mode = "Rx" => m_state # "TransmittingResponse"
        /\ radio.listener /\ radio.mode = "Off" =>
             radio.event # NoEvent /\ m_state \notin IgnoredIn(radio.event.kind)

LEMMA DeafStep ==
    ASSUME Faults \cap {"material", "phy", "rx"} = {}
    PROVE  TypeOK /\ DeafInv /\ [Next]_vars => DeafInv'
<1> SUFFICES ASSUME TypeOK, DeafInv, [Next]_vars PROVE DeafInv'
  OBVIOUS
<1>t. radio \in Radio /\ setup \in Setup /\ book \in Book /\ cycle \in Cycle
  BY DEF TypeOK
<1>k. /\ cycle.keys \in CycleKeys /\ book.warm \in CycleKeys
      /\ "poll" \in Legs /\ "response" \in Legs /\ "final" \in Legs
  BY <1>t DEF Cycle, Book, Legs
<1>f. "rx" \notin Faults /\ "phy" \notin Faults /\ "material" \notin Faults
  OBVIOUS
<1>r. ASSUME radio'.mode = "Rx", m_state' # "TransmittingResponse" PROVE DeafInv'
  BY <1>r DEF DeafInv
<1>1. ASSUME NEW ursk \in Ursks, NEW p \in ParamsSet, NEW node \in NodeConfigs,
             Start(ursk, p, node)
      PROVE  DeafInv'
  <2>1. setup'.materialValid = TRUE
    <3>1. PICK steps \in MaterialSteps : setup' = SetUp(ursk, p, node, steps)
      BY <1>1 DEF Start, StartWithoutMaterial, StartWithMaterial
    <3>2. steps = 5
      BY <1>f DEF MaterialSteps
    <3>3. setup' \in Setup /\ (setup'.materialValid <=> TRUE)
      <4>1. setup' = SetUp(ursk, p, node, 5)
        BY <3>1, <3>2
      <4>2. SetUp(ursk, p, node, 5) \in Setup
        BY <3>1, <3>2, SetUpType
      <4> QED BY <4>1, <4>2, <1>t DEF SetUp, DeriveSessionMaterial, Setup
    <3> QED BY <3>3 DEF Setup
  <2>2. \A configured \in Outcomes("phy") : configured = TRUE
    BY <1>f DEF Outcomes
  <2>3. radio'.mode = "Rx" /\ m_state' = "PrePollListening"
    BY <1>1, <1>f, <2>1, <2>2, StartDoes
  <2> QED BY <2>3, <1>r
<1>2. CASE Stop \/ Suspend
  BY <1>2 DEF Stop, Suspend, DeafInv, Active
<1>3. CASE Resume
  BY <1>3, <1>f, <1>r, ResumeDoes
<1>4. ASSUME NEW stsIndex0 \in Anchors, ResumeWithAnchor(stsIndex0) PROVE DeafInv'
  <2>1. \/ m_state' = "Suspended"
        \/ radio'.mode = "Rx" /\ m_state' = "PrePollListening"
    BY <1>4, <1>f, ResumeWithAnchorDoes
  <2> QED BY <2>1, <1>r DEF DeafInv, Active
<1>5. CASE BackToListening
  BY <1>5, <1>f, <1>r, BackToListeningDoes
<1>6. CASE WarmPrePoll
  <2>1. Reported(radio) \in Radio
    BY <1>6, HandledEvent DEF WarmPrePoll
  <2>2. WithLegKeys(Reported(radio), book.warm, "poll") \in Radio
    BY <1>k, <2>1, WithLegKeysType
  <2> QED BY <1>6, <1>f, <1>r, <2>2, ReceiveLegType DEF WarmPrePoll
<1>7. CASE BootstrapOtherParity
  <2>1. Heard \in Frames /\ Reported(radio) \in Radio
    BY <1>7, HandledEvent DEF BootstrapOtherParity, BootstrapFrame
  <2>2. NotePrePoll(book, Heard) \in Book
    BY <1>t, <2>1, NotePrePollType
  <2> QED BY <1>7, <1>t, <1>f, <1>r, <2>1, <2>2, ArmPrePollListeningType DEF BootstrapOtherParity
<1>8. CASE BootstrapPrePoll
  BY <1>8, <1>f, <1>r, BootstrapArms
<1>9. CASE PollReceived /\ m_state' = "TransmittingResponse" /\ UNCHANGED book
  <2> DEFINE loaded == WithLegKeys(Reported(radio), cycle.keys, "response")
  <2>1. Reported(radio) \in Radio
    BY <1>9, HandledEvent DEF PollReceived
  <2>2. loaded \in Radio
    BY <1>k, <2>1, WithLegKeysType
  <2>3. radio' = StartDelayedTx(loaded, TRUE)
    BY <1>9 DEF PollReceived, ArmPrePollListening
  <2> HIDE DEF loaded
  <2>4. radio'.mode = "Tx"
    BY <2>2, <2>3 DEF StartDelayedTx, Radio
  <2> QED BY <1>9, <2>4 DEF DeafInv
<1>10. CASE OnTxComplete /\ cycle.keysValid
  <2>1. Reported(radio) \in Radio
    BY <1>10, HandledEvent DEF OnTxComplete
  <2>2. WithLegKeys(Reported(radio), cycle.keys, "final") \in Radio
    BY <1>k, <2>1, WithLegKeysType
  <2> QED BY <1>10, <1>f, <1>r, <2>2, ReceiveLegType DEF OnTxComplete
<1>11. CASE OnFinal
  <2>1. Reported(radio) \in Radio
    BY <1>11, HandledEvent DEF OnFinal
  <2>2. ConfigureStsMode(ForceReceiverOff(Reported(radio)), "Off") \in Radio
    BY <2>1, RadioCallTypes
  <2> QED BY <1>11, <1>f, <1>r, <2>2, ReceiveLegType DEF OnFinal
<1>12. ASSUME NEW event \in Event, LatchEvent(event) PROVE DeafInv'
  <2>1. event # NoEvent /\ event.kind \in EventKind
    <3>1. event \in [kind : EventKind, frame : Frames \cup {NoFrame}, stamp : Stamps,
                     stsPassed : BOOLEAN]
      BY DEF Event, EventKind
    <3> QED BY <3>1, SessionAssumption
  <2>2. radio'.event = event /\ radio'.mode = "Off" /\ UNCHANGED m_state
    BY <1>12, <1>t DEF LatchEvent, Latch, Radio
  <2>3. radio.mode = IF event.kind = "TxDone" THEN "Tx" ELSE "Rx"
    BY <1>12 DEF LatchEvent, CanLatch
  <2>4. m_state \in Active => m_state \notin IgnoredIn(event.kind)
    BY <2>1, <2>3 DEF DeafInv, IgnoredIn, Active, Receiving, EventKind
  <2> QED BY <2>1, <2>2, <2>4 DEF DeafInv
<1>13. CASE ListenTimeout
  <2>1. radio' = StartImmediateRx(Reported(radio), "Listen", TRUE)
    BY <1>13, <1>f DEF ListenTimeout, Outcomes
  <2>2. Reported(radio) \in Radio
    BY <1>t, RadioCallTypes
  <2>3. radio'.mode = "Rx"
    BY <2>1, <2>2 DEF StartImmediateRx, Radio
  <2>4. m_state' = "PrePollListening"
    BY <1>13 DEF ListenTimeout, HandledIn
  <2> QED BY <2>3, <2>4, <1>r
<1>14. CASE IgnoreEvent
  <2>1. PICK kind \in EventKind : \E state \in IgnoredIn(kind) : HandledIn(state, kind)
    BY <1>14 DEF IgnoreEvent
  <2>2. m_state \in IgnoredIn(radio.event.kind) /\ radio.listener = TRUE
    BY <2>1, HandledEvent
  <2>3. UNCHANGED m_state /\ radio'.mode = radio.mode
    BY <1>14, <1>t DEF IgnoreEvent, Reported, Radio
  <2> QED BY <2>2, <2>3 DEF DeafInv
<1>15. CASE DropEvent
  <2>1. /\ UNCHANGED m_state /\ radio'.mode = radio.mode /\ radio'.listener = radio.listener
        /\ radio.listener = FALSE
    BY <1>15, <1>t DEF DropEvent, Drops, Reported, Radio
  <2> QED BY <2>1 DEF DeafInv
<1>16. CASE UNCHANGED vars
  BY <1>16 DEF vars, DeafInv
<1> QED BY <1>1, <1>2, <1>3, <1>4, <1>5, <1>6, <1>7, <1>8, <1>9, <1>10, <1>11, <1>12, <1>13,
           <1>14, <1>15, <1>16, StepCases

LEMMA DeafInit == Init => DeafInv
BY DEF Init, DeafInv, Active

\* A session that is active and the radio's listener is never left with
\* nothing under way, if the transceiver and the key derivation do not refuse.
THEOREM SessionNeverDeaf ==
    ASSUME Faults \cap {"material", "phy", "rx"} = {}
    PROVE  Spec => []NeverDeaf
<1>1. TypeOK /\ DeafInv => NeverDeaf
  BY DEF DeafInv, NeverDeaf
<1>2. TypeOK /\ DeafInv /\ [Next]_vars => DeafInv'
  BY DeafStep
<1> QED BY <1>1, <1>2, DeafInit, TypeInit, TypeStep, PTL DEF Spec

-----------------------------------------------------------------------------
(***************************************************************************)
(* The session material.                                                   *)
(***************************************************************************)
\* What MaterialCurrent says of a setup.
Current(s) ==
    /\ s.mupsk1 = DeriveMupsk1(s.ursk)
    /\ s.mupsk2 = DeriveMupsk2(s.ursk)
    /\ s.mursk = DeriveMursk(s.ursk)
    /\ s.saltedHash = DeriveSaltedHash(s.ursk, s.params)
    /\ s.addresses = DeriveAddresses(s.mupsk2, s.params.stsIndex0)

LEMMA AllDerivedIsCurrent ==
    ASSUME NEW s \in Setup
    PROVE  Current(DeriveSessionMaterial(s, 5))
BY DEF Current, DeriveSessionMaterial, Setup

LEMMA MaterialStep ==
    ASSUME "material" \notin Faults
    PROVE  TypeOK /\ MaterialCurrent /\ [Next]_vars => MaterialCurrent'
<1> SUFFICES ASSUME TypeOK, MaterialCurrent, [Next]_vars PROVE MaterialCurrent'
  OBVIOUS
<1>t. setup \in Setup
  BY DEF TypeOK
<1>m. MaterialSteps = {5}
  BY DEF MaterialSteps
<1>c. ASSUME Current(setup') PROVE MaterialCurrent'
  BY <1>c DEF Current, MaterialCurrent
<1>u. ASSUME UNCHANGED setup PROVE MaterialCurrent'
  BY <1>u DEF MaterialCurrent
<1>1. ASSUME NEW ursk \in Ursks, NEW p \in ParamsSet, NEW node \in NodeConfigs,
             Start(ursk, p, node)
      PROVE  MaterialCurrent'
  <2>1. setup' = SetUp(ursk, p, node, 5)
    BY <1>1, <1>m DEF Start, StartWithoutMaterial, StartWithMaterial
  <2>2. [setup EXCEPT !.ursk = ursk, !.params = p, !.nodeConfig = node] \in Setup
    <3>1. ursk \in Ursk /\ p \in RangingSessionParameters /\ node \in SessionNodeConfig
      BY SessionAssumption DEF Ursk
    <3> QED BY <1>t, <3>1 DEF Setup
  <2> QED BY <2>1, <2>2, <1>c, AllDerivedIsCurrent DEF SetUp
<1>2. ASSUME NEW stsIndex0 \in Anchors, ResumeWithAnchor(stsIndex0) PROVE MaterialCurrent'
  <2> DEFINE anchored == [setup EXCEPT !.params.stsIndex0 = stsIndex0, !.materialValid = FALSE]
  <2>1. setup' = DeriveSessionMaterial(anchored, 5)
    BY <1>2, <1>m DEF ResumeWithAnchor
  <2>2. anchored \in Setup
    BY <1>t, AnchoredType
  <2> HIDE DEF anchored
  <2> QED BY <2>1, <2>2, <1>c, AllDerivedIsCurrent
<1>3. CASE Stop \/ Suspend \/ Resume
  BY <1>3, <1>u DEF Stop, Suspend, Resume
<1>4. CASE BackToListening
  BY <1>4, <1>u, BackToListeningDoes
<1>5. CASE WarmPrePoll \/ BootstrapOtherParity \/ BootstrapPrePoll \/ PollReceived
           \/ OnTxComplete \/ OnFinal
  BY <1>5, <1>u DEF WarmPrePoll, BootstrapOtherParity, BootstrapPrePoll, PollReceived,
                    OnTxComplete, OnFinal
<1>6. ASSUME NEW event \in Event, LatchEvent(event) PROVE MaterialCurrent'
  BY <1>6, <1>u DEF LatchEvent
<1>7. CASE ListenTimeout \/ IgnoreEvent \/ DropEvent \/ UNCHANGED vars
  BY <1>7, <1>u DEF ListenTimeout, IgnoreEvent, DropEvent, vars
<1> QED BY <1>1, <1>2, <1>3, <1>4, <1>5, <1>6, <1>7, StepCases

\* As long as no derivation fails, the material that counts as valid is the
\* current URSK's and the current parameters', also after a new anchor.
THEOREM MaterialAlwaysCurrent ==
    ASSUME "material" \notin Faults
    PROVE  Spec => []MaterialCurrent
<1>1. Init => MaterialCurrent
  BY DEF Init, MaterialCurrent
<1>2. TypeOK /\ MaterialCurrent /\ [Next]_vars => MaterialCurrent'
  BY MaterialStep
<1> QED BY <1>1, <1>2, TypeInit, TypeStep, PTL DEF Spec

=============================================================================
