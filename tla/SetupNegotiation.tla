-------------------------- MODULE SetupNegotiation --------------------------
(***************************************************************************)
(* protocol::setup::SetupMessageCodec and the parameters it negotiates:    *)
(* the device offers (M1), the peer answers with what it can do (M2), the  *)
(* device announces what it chose (M3), the peer anchors the session (M4); *)
(* later the session is suspended, and resumed with a new anchor.          *)
(*                                                                         *)
(* A message is a sequence of elements.  An element has a tag, whether its *)
(* size is the tag's, and a value: a number, or for a mask the set of its  *)
(* bits.  The peer may send anything, in any order and number.             *)
(*                                                                         *)
(* The caller is external: it goes through the stages in order, goes on    *)
(* only when a message was accepted, and may at any time start again or    *)
(* parse another message over the parameters it has.  M3 announces the MAC *)
(* mode and the number of responders of the capabilities, the session goes *)
(* by those of the parameters, and no message brings them: the caller may  *)
(* have given them to its parameters (preset) or left them at the default. *)
(***************************************************************************)
EXTENDS StsSchedule, Sequences, FiniteSetsExt

CONSTANTS
    ExpectedSessionId,
    DeviceCapabilities,  \* the capabilities the device may have
    M2Messages, M4Messages, ResumeResponses  \* what the peer may send

\* Only the first seven slot bits have a meaning; RAN is at least one block.
ASSUME CapabilitiesAssumption ==
    \A caps \in DeviceCapabilities :
        /\ caps.channelBitmask \subseteq 0 .. 7
        /\ caps.slotBitmask \subseteq 0 .. 6
        /\ caps.hoppingConfigBitmask \subseteq 0 .. 7
        /\ caps.minRanMultiplier \in 1 .. 255
        /\ caps.macMode \in 0 .. 255
        /\ caps.responderCount \in 0 .. 255

ASSUME MessagesAssumption ==
    \A es \in M2Messages \cup M4Messages \cup ResumeResponses :
      /\ Len(es) \in Nat
      /\ DOMAIN es = 1 .. Len(es)
      /\ \A i \in DOMAIN es :
            /\ es[i].tag \in STRING /\ es[i].sized \in BOOLEAN
            /\ es[i].tag \in {"ChannelBitmask", "SlotBitmask", "HoppingConfigBitmask"} =>
                  es[i].value \subseteq 0 .. 7
            /\ es[i].tag = "RanMultiplier" => es[i].value \in 0 .. 255

VARIABLES
    localCaps,
    params,   \* the RangingSessionParameters of the caller
    anchor,   \* what parseResumeResponse wrote for the caller
    m3,       \* the last M3 that was built
    stage,    \* how far the caller is
    result,   \* what the last call returned
    told,     \* history: the last elements taken from the peer, by tag
    preset    \* history: the MAC mode and responders the caller gave params

setupVars == <<localCaps, params, anchor, m3, stage, result, told, preset>>

\* Running is one of the last two: on its first anchor, or on a later one.
Running == {"Established", "Anchored"}
Stage == {"Idle", "Offered", "Negotiated", "Announced", "Suspended", "Resuming"} \cup Running

-----------------------------------------------------------------------------
(***************************************************************************)
(* What one element does.                                                  *)
(***************************************************************************)
M2Tags == {"ConfigId", "PulseShapeCombo", "SessionId", "ChannelBitmask",
           "RanMultiplier", "SlotBitmask", "HoppingConfigBitmask"}
M4Tags == {"StsIndex0", "UwbTime0", "HopModeKey", "SyncCodeIndex"}
ResumeTags == {"StsIndex0", "UwbTime0", "Status"}

\* Chaps per slot by bit, shortest first.
Chaps == <<3, 4, 6, 8, 9, 12, 24>>
ChapsOfBit(bit) == Chaps[bit + 1]

\* RSTU per chap, and milliseconds per unit of the ranging-block multiplier.
RstuPerChap == 400
MsPerRan    == 96

\* The combinations of bits a hopping mode needs, in the order of preference.
HopComboNoHopping         == {4}
HopComboContinuousDefault == {3, 1}
HopComboAdaptiveDefault   == {2, 1}

\* The masks on the air have the same bits three places higher.
HopCccToFira(mask) == {bit - 3 : bit \in {b \in mask : b >= 3}}
HopFiraToCcc(mask) == {bit + 3 : bit \in mask}

Common(e) ==
    CASE e.tag = "ChannelBitmask"       -> e.value \cap localCaps.channelBitmask
      [] e.tag = "SlotBitmask"          -> e.value \cap localCaps.slotBitmask
      [] e.tag = "HoppingConfigBitmask" ->
            HopCccToFira(e.value) \cap localCaps.hoppingConfigBitmask

Channel(e) == IF 1 \in Common(e) THEN "Channel9" ELSE "Channel5"

\* Slip (not used by the specification): the duration in chaps.
SlotDurationChaps(e) == ChapsOfBit(Min(Common(e)))

\* The lowest bit both sides have.
SlotDurationRstu(e) == RstuPerChap * ChapsOfBit(Min(Common(e)))

\* Slip: the peer's multiplier, though the device cannot go below its own.
DurationMsOfPeer(e) == MsPerRan * e.value

DurationMs(e) == MsPerRan * Max({e.value, localCaps.minRanMultiplier})

\* Slip: what the peer prefers, whether the device can do it or not.
ComboOfPeer(e) ==
    IF HopComboNoHopping \subseteq HopCccToFira(e.value) THEN HopComboNoHopping
    ELSE IF HopComboContinuousDefault \subseteq HopCccToFira(e.value)
         THEN HopComboContinuousDefault ELSE HopComboAdaptiveDefault

Combo(e) ==
    IF HopComboNoHopping \subseteq Common(e) THEN HopComboNoHopping
    ELSE IF HopComboContinuousDefault \subseteq Common(e) THEN HopComboContinuousDefault
    ELSE HopComboAdaptiveDefault

ModeOf(combo) ==
    CASE combo = HopComboNoHopping         -> "Disabled"
      [] combo = HopComboContinuousDefault -> "ContinuousDefault"
      [] combo = HopComboAdaptiveDefault   -> "AdaptiveDefault"

\* An element with a tag the parser does not know is skipped.
WellSized(e, tags) == e.tag \in tags => e.sized

Agreeable(e) ==
    CASE e.tag = "SessionId"            -> e.value = ExpectedSessionId
      [] e.tag = "ChannelBitmask"       -> Common(e) \cap {0, 1} # {}
      [] e.tag = "SlotBitmask"          -> Common(e) # {}
      [] e.tag = "HoppingConfigBitmask" ->
            \E combo \in {HopComboNoHopping, HopComboContinuousDefault, HopComboAdaptiveDefault} :
               combo \subseteq Common(e)
      [] e.tag = "Status"               -> e.value = 0
      [] OTHER                          -> TRUE

-----------------------------------------------------------------------------
(***************************************************************************)
(* What a message does.  Elements are taken one after another and the      *)
(* first that is refused ends the call: what came before stays written.    *)
(***************************************************************************)
Refused(es, tags) ==
    {i \in DOMAIN es : ~ (WellSized(es[i], tags) /\ (es[i].tag \in tags => Agreeable(es[i])))}

Taken(es, tags) == {i \in DOMAIN es : \A j \in Refused(es, tags) : i < j}

Outcome(es, tags) ==
    IF Refused(es, tags) = {} THEN "Ok"
    ELSE LET first == es[Min(Refused(es, tags))]
         IN  IF WellSized(first, tags) THEN "InvalidParameter" ELSE "MalformedFrame"

\* The elements taken with a tag; the last of them is the one that counts.
With(es, tags, tag) == {i \in Taken(es, tags) : es[i].tag = tag}
Given(es, tags, tag) == With(es, tags, tag) # {}
Counts(es, tags, tag) == es[Max(With(es, tags, tag))]

\* What the message says for a tag, else what it was before.
Value(es, tags, tag, old) == IF Given(es, tags, tag) THEN Counts(es, tags, tag).value ELSE old

-----------------------------------------------------------------------------
(***************************************************************************)
(* Setup.                                                                  *)
(***************************************************************************)
DefaultParameters ==
    [ sessionId |-> 0, uwbConfigId |-> 0, pulseShapeCombo |-> 0, channel |-> "Channel9",
      syncCodeIndex |-> 0, durationMs |-> 0, slotDurationRstu |-> 0, slotsPerRound |-> 12,
      hoppingMode |-> "Disabled", hoppingConfigBitmask |-> {}, hopModeKey |-> 0,
      stsIndex0 |-> 0, initiationTimeUs |-> 0, macMode |-> 0, responderCount |-> 1 ]

\* Of parameters or of capabilities.
PresetOf(x) == [macMode |-> x.macMode, responderCount |-> x.responderCount]

FreshParameters(counts) ==
    [DefaultParameters EXCEPT !.macMode = counts.macMode, !.responderCount = counts.responderCount]

NoAnchor == [stsIndex0 |-> 0, time0Us |-> 0]

NothingTold == [tag \in M2Tags |-> {}]

NoM3 == [ranMultiplier |-> 0, chapsPerSlot |-> 0, numResponders |-> 0, slotsPerRound |-> 0,
         hoppingConfigBitmask |-> {}, macMode |-> 0]

SetupInit ==
    /\ localCaps \in DeviceCapabilities
    /\ params = DefaultParameters
    /\ anchor = NoAnchor
    /\ m3 = NoM3
    /\ stage = "Idle"
    /\ result = "Ok"
    /\ told = NothingTold
    /\ preset = PresetOf(DefaultParameters)

\* The caller starts, on fresh parameters or on those of an earlier setup.
BuildM1 ==
    /\ stage' = "Offered"
    /\ m3' = NoM3
    /\ anchor' = NoAnchor
    /\ \/ /\ preset' \in {PresetOf(DefaultParameters), PresetOf(localCaps)}
          /\ params' = FreshParameters(preset')
          /\ told' = NothingTold
       \/ UNCHANGED <<params, told, preset>>
    /\ UNCHANGED <<localCaps, result>>

M2Parameters(es) ==
    LET Says(tag, old) == Value(es, M2Tags, tag, old)
        Has(tag)       == Given(es, M2Tags, tag)
        E(tag)         == Counts(es, M2Tags, tag)
    IN  [params EXCEPT
            !.slotsPerRound    = 12,
            !.uwbConfigId      = Says("ConfigId", @),
            !.pulseShapeCombo  = Says("PulseShapeCombo", @),
            !.sessionId        = Says("SessionId", @),
            !.channel          = IF Has("ChannelBitmask") THEN Channel(E("ChannelBitmask")) ELSE @,
            !.durationMs       = IF Has("RanMultiplier") THEN DurationMs(E("RanMultiplier")) ELSE @,
            !.slotDurationRstu = IF Has("SlotBitmask") THEN SlotDurationRstu(E("SlotBitmask")) ELSE @,
            !.hoppingMode      = IF Has("HoppingConfigBitmask")
                                 THEN ModeOf(Combo(E("HoppingConfigBitmask"))) ELSE @,
            !.hoppingConfigBitmask = IF Has("HoppingConfigBitmask")
                                     THEN HopFiraToCcc(Combo(E("HoppingConfigBitmask"))) ELSE @]

\* A message whose framing is broken writes nothing.
ParseMalformed ==
    /\ stage \in {"Offered", "Announced", "Resuming"}
    /\ result' = "MalformedFrame"
    /\ UNCHANGED <<localCaps, params, anchor, m3, stage, told, preset>>

ParseM2(es) ==
    /\ stage = "Offered"
    /\ params' = M2Parameters(es)
    /\ result' = Outcome(es, M2Tags)
    /\ stage' = IF result' = "Ok" THEN "Negotiated" ELSE stage
    /\ told' = [tag \in M2Tags |->
                   IF Given(es, M2Tags, tag) THEN {Counts(es, M2Tags, tag).value} ELSE told[tag]]
    /\ UNCHANGED <<localCaps, anchor, m3, preset>>

\* A byte of a message.
Byte(n) == n % 256

\* Slip: the slot's duration is announced in units of 1200 RSTU.
SetupM3OfSlots(p) ==
    [ ranMultiplier |-> Byte(p.durationMs \div MsPerRan),
      chapsPerSlot |-> Byte(p.slotDurationRstu \div 1200),
      numResponders |-> localCaps.responderCount,
      slotsPerRound |-> p.slotsPerRound,
      hoppingConfigBitmask |-> p.hoppingConfigBitmask,
      macMode |-> localCaps.macMode ]

SetupM3(p) ==
    [ ranMultiplier |-> Byte(p.durationMs \div MsPerRan),
      chapsPerSlot |-> Byte(p.slotDurationRstu \div RstuPerChap),
      numResponders |-> localCaps.responderCount,
      slotsPerRound |-> p.slotsPerRound,
      hoppingConfigBitmask |-> p.hoppingConfigBitmask,
      macMode |-> localCaps.macMode ]

BuildM3 ==
    /\ stage = "Negotiated"
    /\ m3' = SetupM3(params)
    /\ stage' = "Announced"
    /\ UNCHANGED <<localCaps, params, anchor, result, told, preset>>

\* The index of the synchronisation code is not checked.
ParseM4(es) ==
    /\ stage = "Announced"
    /\ params' = [params EXCEPT
                     !.stsIndex0        = Value(es, M4Tags, "StsIndex0", @),
                     !.initiationTimeUs = Value(es, M4Tags, "UwbTime0", @),
                     !.hopModeKey       = Value(es, M4Tags, "HopModeKey", @),
                     !.syncCodeIndex    = Value(es, M4Tags, "SyncCodeIndex", @)]
    /\ result' = Outcome(es, M4Tags)
    /\ stage' = IF result' = "Ok" THEN "Established" ELSE stage
    /\ UNCHANGED <<localCaps, anchor, m3, told, preset>>

-----------------------------------------------------------------------------
(***************************************************************************)
(* Suspending and resuming.                                                *)
(***************************************************************************)
BuildSuspendRequest ==
    /\ stage \in Running
    /\ stage' = "Suspended"
    /\ UNCHANGED <<localCaps, params, anchor, m3, result, told, preset>>

BuildSuspendResponse(accept) ==
    /\ stage \in Running
    /\ stage' = IF accept THEN "Suspended" ELSE stage
    /\ UNCHANGED <<localCaps, params, anchor, m3, result, told, preset>>

BuildResumeRequest ==
    /\ stage = "Suspended"
    /\ stage' = "Resuming"
    /\ UNCHANGED <<localCaps, params, anchor, m3, result, told, preset>>

\* Slip: one of the two is enough.
HasSomeAnchor(es) == Given(es, ResumeTags, "StsIndex0") \/ Given(es, ResumeTags, "UwbTime0")

HasAnchor(es) == Given(es, ResumeTags, "StsIndex0") /\ Given(es, ResumeTags, "UwbTime0")

\* What came before a refused element has been written to the caller.
ParseResumeResponse(es) ==
    /\ stage = "Resuming"
    /\ anchor' = [stsIndex0 |-> Value(es, ResumeTags, "StsIndex0", anchor.stsIndex0),
                  time0Us   |-> Value(es, ResumeTags, "UwbTime0", anchor.time0Us)]
    /\ result' = IF Outcome(es, ResumeTags) = "Ok" /\ ~ HasAnchor(es)
                 THEN "MalformedFrame" ELSE Outcome(es, ResumeTags)
    /\ stage' = IF result' = "Ok" THEN "Anchored" ELSE stage
    /\ UNCHANGED <<localCaps, params, m3, told, preset>>

SetupNext ==
    \/ BuildM1
    \/ ParseMalformed
    \/ \E es \in M2Messages : ParseM2(es)
    \/ BuildM3
    \/ \E es \in M4Messages : ParseM4(es)
    \/ BuildSuspendRequest
    \/ \E accept \in BOOLEAN : BuildSuspendResponse(accept)
    \/ BuildResumeRequest
    \/ \E es \in ResumeResponses : ParseResumeResponse(es)

SetupSpec == SetupInit /\ [][SetupNext]_setupVars

-----------------------------------------------------------------------------
(***************************************************************************)
(* Properties.                                                             *)
(***************************************************************************)
SetupM3Type ==
    [ranMultiplier : 0 .. 255, chapsPerSlot : 0 .. 255, numResponders : 0 .. 255,
     slotsPerRound : {0, 12}, hoppingConfigBitmask : SUBSET (0 .. 10), macMode : 0 .. 255]

\* The type invariant.
SetupTypeOK ==
    /\ localCaps \in DeviceCapabilities
    /\ DOMAIN params = DOMAIN DefaultParameters
    /\ params.channel \in {"Channel5", "Channel9"}
    /\ params.durationMs \in {MsPerRan * ran : ran \in 0 .. 255}
    /\ params.slotDurationRstu \in {RstuPerChap * n : n \in {0, 3, 4, 6, 8, 9, 12, 24}}
    /\ params.slotsPerRound = 12
    /\ params.hoppingMode \in {"Disabled", "ContinuousDefault", "AdaptiveDefault"}
    /\ m3 \in SetupM3Type
    /\ stage \in Stage
    /\ result \in {"Ok", "MalformedFrame", "InvalidParameter"}
    /\ \A tag \in M2Tags : \A v, w \in told[tag] : v = w
    /\ preset \in {PresetOf(DefaultParameters), PresetOf(localCaps)}

ChannelBit == [Channel5 |-> 0, Channel9 |-> 1]

\* Every parameter that is written is one both sides can do, also when the
\* message that wrote it was refused in the end, or parts of it come from an
\* earlier setup: the channel and the slots are in both masks, the block is
\* not shorter than either side asks, the session is the expected one.
NegotiatedIsShared ==
    /\ \A mask \in told["ChannelBitmask"] :
          ChannelBit[params.channel] \in mask \cap localCaps.channelBitmask
    /\ \A mask \in told["SlotBitmask"] :
          \E bit \in mask \cap localCaps.slotBitmask :
             /\ params.slotDurationRstu = RstuPerChap * ChapsOfBit(bit)
             /\ \A other \in mask \cap localCaps.slotBitmask : ChapsOfBit(bit) <= ChapsOfBit(other)
    /\ \A ran \in told["RanMultiplier"] :
          /\ params.durationMs >= MsPerRan * ran
          /\ params.durationMs >= MsPerRan * localCaps.minRanMultiplier
    /\ \A id \in told["SessionId"] : id = ExpectedSessionId /\ params.sessionId = id

\* The hopping mode the session will use, the bits M3 announces and what both
\* sides can do are one and the same, although the two sides number the bits
\* differently.
HoppingIsShared ==
    \A mask \in told["HoppingConfigBitmask"] :
        /\ params.hoppingConfigBitmask \subseteq mask
        /\ HopCccToFira(params.hoppingConfigBitmask) \subseteq localCaps.hoppingConfigBitmask
        /\ params.hoppingConfigBitmask =
              CASE params.hoppingMode = "Disabled"          -> {7}
                [] params.hoppingMode = "ContinuousDefault" -> {6, 4}
                [] params.hoppingMode = "AdaptiveDefault"   -> {5, 4}

\* RangingSession::deriveSessionMaterial: the bytes of the hashed configuration
\* that stand for what M3 announces.
HashedSchedule(p) ==
    << Byte(p.responderCount), Byte(p.durationMs \div MsPerRan), p.slotsPerRound,
       Byte(p.slotDurationRstu \div RstuPerChap) >>

\* What a session makes of the parameters M3 announces: its rounds, their STS
\* indices, which of them are active, the slot of each leg, and those bytes.
ScheduleOf(p) ==
    [ rounds |-> RoundsPerBlock(p), stride |-> BlockStsStride(p), hopping |-> p.hoppingMode,
      twoRounds |-> TwoRounds(p), roundOffset |-> RoundOffset(p),
      legs |-> [leg \in Legs |-> LegOffset(p, 0, leg)], hashed |-> HashedSchedule(p) ]

\* A peer reads the mode from the bits; none means that it does not hop.
AnnouncedMode(bits) == IF bits = {} THEN "Disabled" ELSE ModeOf(HopCccToFira(bits))

\* The parameters an initiator reads from M3.
Announced(m) ==
    [ durationMs |-> MsPerRan * m.ranMultiplier, slotDurationRstu |-> RstuPerChap * m.chapsPerSlot,
      slotsPerRound |-> m.slotsPerRound, hoppingMode |-> AnnouncedMode(m.hoppingConfigBitmask),
      macMode |-> m.macMode, responderCount |-> m.numResponders ]

\* From M3 on, what it announces of durations, slots and hopping is what the
\* device uses and hashes: the divisions and the casts to a byte lose nothing,
\* and nothing that comes later changes them.  The whole schedule is, with the
\* second round of a block and the slot of the Final, if the caller gave its
\* parameters the MAC mode and the number of responders of the capabilities.
\* Nothing is claimed of these two otherwise: buildM3 announces them, and no
\* parser writes them.
ScheduleAsAnnounced ==
    m3 # NoM3 =>
        /\ ScheduleOf([Announced(m3) EXCEPT !.macMode = params.macMode,
                                            !.responderCount = params.responderCount])
              = ScheduleOf(params)
        /\ preset = PresetOf(localCaps) => ScheduleOf(Announced(m3)) = ScheduleOf(params)

\* A block that was negotiated holds at least one round, down to the shortest
\* block with the longest slot, and no more than 16 bits can count: neither
\* fallback of the session's schedule is reached.
BlockHoldsARound ==
    told["RanMultiplier"] # {} /\ told["SlotBitmask"] # {} =>
        RoundsPerBlock(params) \in 1 .. U16 - 1

\* The session is resumed on an STS index and a time of one response, which
\* was accepted as a whole, although refused responses have written one of
\* them or both.
AnchorIsWhole ==
    stage = "Anchored" =>
        \E es \in ResumeResponses :
            /\ \A e \in Range(es) : e.tag \in ResumeTags => e.sized
            /\ \A e \in Range(es) : e.tag = "Status" => e.value = 0
            /\ \E e, f \in Range(es) :
                  /\ e.tag = "StsIndex0" /\ e.value = anchor.stsIndex0
                  /\ f.tag = "UwbTime0" /\ f.value = anchor.time0Us

=============================================================================
