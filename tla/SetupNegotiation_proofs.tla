---------------------- MODULE SetupNegotiation_proofs ----------------------
(***************************************************************************)
(* Whatever the device can do and whatever the peer sends, in any order    *)
(* and number: the parameters negotiated are ones both sides can do, the   *)
(* hopping mode is the one that is announced, and a negotiated block holds *)
(* a round.                                                                *)
(***************************************************************************)
EXTENDS SetupNegotiation, TLAPS, WellFoundedInduction

-----------------------------------------------------------------------------
(***************************************************************************)
(* The least and the greatest member of a set of naturals.                 *)
(***************************************************************************)
LEMMA LeastIsMember ==
    ASSUME NEW S \in SUBSET Nat, S # {}
    PROVE  Min(S) \in S /\ \A n \in S : Min(S) <= n
<1>0. S \subseteq Nat /\ S # {}
  OBVIOUS
<1>1. PICK m \in S : \A n \in S : <<n, m>> \notin OpToRel(<, Nat)
  BY <1>0, WFMin, NatLessThanWellFounded, Zenon
<1>2. \A n \in S : m <= n
  <2> SUFFICES ASSUME NEW n \in S PROVE m <= n
    OBVIOUS
  <2>1. n \in Nat /\ m \in Nat
    BY <1>0
  <2>2. <<n, m>> \notin {pair \in Nat \X Nat : pair[1] < pair[2]}
    BY <1>1, Zenon DEF OpToRel
  <2>3. ~ (n < m)
    BY <2>1, <2>2
  <2> QED BY <2>1, <2>3
<1> QED BY <1>2 DEF Min

LEMMA GreatestIsMember ==
    ASSUME NEW last \in Nat, NEW S \in SUBSET (1 .. last), S # {}
    PROVE  Max(S) \in S /\ \A n \in S : n <= Max(S)
<1> DEFINE D == {last - n : n \in S}
<1>1. D \in SUBSET Nat /\ D # {}
  <2>1. \A n \in S : n \in 1 .. last /\ last - n \in Nat
    OBVIOUS
  <2>2. PICK n \in S : TRUE
    OBVIOUS
  <2>3. last - n \in D
    BY <2>2
  <2> QED BY <2>1, <2>3
<1>2. PICK d \in D : \A e \in D : d <= e
  BY <1>1, LeastIsMember
<1>3. PICK m \in S : d = last - m
  BY <1>2
<1>4. \A n \in S : m >= n
  BY <1>2, <1>3
<1>5. \E x \in S : \A y \in S : x >= y
  BY <1>4
<1>6. Max(S) \in S /\ \A y \in S : Max(S) >= y
  BY <1>5, Zenon DEF Max
<1> QED BY <1>6

-----------------------------------------------------------------------------
(***************************************************************************)
(* What is taken from a message was agreed to.                             *)
(***************************************************************************)
LEMMA CountsIsTaken ==
    ASSUME NEW es \in M2Messages \cup M4Messages \cup ResumeResponses, NEW tags, NEW tag \in tags,
           Given(es, tags, tag)
    PROVE  \E i \in DOMAIN es : /\ Counts(es, tags, tag) = es[i]
                               /\ es[i].tag = tag
                               /\ Agreeable(es[i])
<1> DEFINE W == With(es, tags, tag)
<1>1. Len(es) \in Nat /\ DOMAIN es = 1 .. Len(es)
  BY MessagesAssumption
<1>2. W \in SUBSET (1 .. Len(es)) /\ W # {}
  BY <1>1 DEF Given, With, Taken
<1>3. Max(W) \in W
  BY <1>1, <1>2, GreatestIsMember
<1>4. PICK i \in W : i = Max(W)
  BY <1>3
<1>5. Counts(es, tags, tag) = es[i]
  BY <1>4 DEF Counts
<1>6. i \in DOMAIN es /\ es[i].tag = tag /\ \A j \in Refused(es, tags) : i < j
  BY DEF With, Taken
<1>7. i \notin Refused(es, tags)
  BY <1>1, <1>2, <1>6
<1>8. Agreeable(es[i])
  BY <1>6, <1>7 DEF Refused
<1> QED BY <1>5, <1>6, <1>8

LEMMA CountsIsAgreed ==
    ASSUME NEW es \in M2Messages, NEW tag \in M2Tags, Given(es, M2Tags, tag)
    PROVE  LET e == Counts(es, M2Tags, tag)
           IN  /\ e.tag = tag
               /\ Agreeable(e)
               /\ tag \in {"ChannelBitmask", "SlotBitmask", "HoppingConfigBitmask"} =>
                     e.value \in SUBSET (0 .. 7)
               /\ tag = "RanMultiplier" => e.value \in 0 .. 255
<1>1. PICK i \in DOMAIN es : /\ Counts(es, M2Tags, tag) = es[i]
                             /\ es[i].tag = tag
                             /\ Agreeable(es[i])
  BY CountsIsTaken
<1>2. /\ es[i].tag \in {"ChannelBitmask", "SlotBitmask", "HoppingConfigBitmask"} =>
            es[i].value \subseteq 0 .. 7
      /\ es[i].tag = "RanMultiplier" => es[i].value \in 0 .. 255
  BY MessagesAssumption
<1> QED BY <1>1, <1>2

-----------------------------------------------------------------------------
(***************************************************************************)
(* What each element of an M2 makes of a parameter.                        *)
(***************************************************************************)
LEMMA ChannelAgreed ==
    ASSUME NEW e, e.tag = "ChannelBitmask", Agreeable(e)
    PROVE  /\ Channel(e) \in {"Channel5", "Channel9"}
           /\ ChannelBit[Channel(e)] \in e.value \cap localCaps.channelBitmask
<1>1. Common(e) = e.value \cap localCaps.channelBitmask
  BY DEF Common
<1>2. Common(e) \cap {0, 1} # {}
  BY DEF Agreeable
<1>3. 0 \in Common(e) \/ 1 \in Common(e)
  BY <1>2
<1>4. ChannelBit["Channel5"] = 0 /\ ChannelBit["Channel9"] = 1
  BY DEF ChannelBit
<1> HIDE DEF Common
<1>5. /\ Channel(e) \in {"Channel5", "Channel9"}
      /\ ChannelBit[Channel(e)] \in Common(e)
  BY <1>3, <1>4 DEF Channel
<1> QED BY <1>1, <1>5

\* A lower bit is a shorter slot.
LEMMA ChapsAscend ==
    ASSUME NEW i \in 0 .. 6, NEW j \in 0 .. 6, i <= j
    PROVE  /\ ChapsOfBit(i) \in {3, 4, 6, 8, 9, 12, 24}
           /\ ChapsOfBit(i) <= ChapsOfBit(j)
<1>1. /\ ChapsOfBit(0) = 3 /\ ChapsOfBit(1) = 4 /\ ChapsOfBit(2) = 6 /\ ChapsOfBit(3) = 8
      /\ ChapsOfBit(4) = 9 /\ ChapsOfBit(5) = 12 /\ ChapsOfBit(6) = 24
  BY DEF ChapsOfBit, Chaps
<1>2. /\ i = 0 \/ i = 1 \/ i = 2 \/ i = 3 \/ i = 4 \/ i = 5 \/ i = 6
      /\ j = 0 \/ j = 1 \/ j = 2 \/ j = 3 \/ j = 4 \/ j = 5 \/ j = 6
  OBVIOUS
<1> HIDE DEF ChapsOfBit
<1> QED BY <1>1, <1>2

\* The slot is the shortest both sides have.
SlotIsShared(rstu, mask, device) ==
    \E bit \in mask \cap device :
        /\ rstu = RstuPerChap * ChapsOfBit(bit)
        /\ \A other \in mask \cap device : ChapsOfBit(bit) <= ChapsOfBit(other)

LEMMA SlotAgreed ==
    ASSUME localCaps \in DeviceCapabilities,
           NEW e, e.tag = "SlotBitmask", Agreeable(e), e.value \in SUBSET (0 .. 7)
    PROVE  /\ SlotDurationRstu(e) \in {RstuPerChap * n : n \in {3, 4, 6, 8, 9, 12, 24}}
           /\ SlotIsShared(SlotDurationRstu(e), e.value, localCaps.slotBitmask)
<1> DEFINE C == e.value \cap localCaps.slotBitmask
           bit == Min(C)
<1>1. Common(e) = C /\ C # {}
  BY DEF Common, Agreeable
<1>2. C \in SUBSET (0 .. 6)
  BY CapabilitiesAssumption
<1>3. C \in SUBSET Nat
  BY <1>2
<1>4. bit \in C /\ \A n \in C : bit <= n
  BY <1>1, <1>3, LeastIsMember
<1>5. SlotDurationRstu(e) = RstuPerChap * ChapsOfBit(bit)
  BY <1>1 DEF SlotDurationRstu
<1> HIDE DEF C, bit
<1>6. ChapsOfBit(bit) \in {3, 4, 6, 8, 9, 12, 24} /\ \A n \in C : ChapsOfBit(bit) <= ChapsOfBit(n)
  BY <1>2, <1>4, ChapsAscend
<1> QED BY <1>4, <1>5, <1>6 DEF SlotIsShared, C

\* The block is as long as the side that wants the longer one asks.
LEMMA DurationAgreed ==
    ASSUME localCaps \in DeviceCapabilities, NEW e, e.value \in 0 .. 255
    PROVE  /\ DurationMs(e) \in {MsPerRan * ran : ran \in 1 .. 255}
           /\ DurationMs(e) >= MsPerRan * e.value
           /\ DurationMs(e) >= MsPerRan * localCaps.minRanMultiplier
<1> DEFINE a == e.value
           b == localCaps.minRanMultiplier
           m == Max({a, b})
<1>1. a \in 0 .. 255 /\ b \in 1 .. 255
  BY CapabilitiesAssumption
<1>2. DurationMs(e) = MsPerRan * m
  BY DEF DurationMs
<1> HIDE DEF a, b
<1>3. \E x \in {a, b} : \A y \in {a, b} : x >= y
  BY <1>1
<1>4. m \in {a, b} /\ \A y \in {a, b} : m >= y
  BY <1>3, Zenon DEF Max
<1> HIDE DEF m
<1>5. m \in 1 .. 255 /\ m >= a /\ m >= b
  BY <1>1, <1>4
<1>6. MsPerRan * m >= MsPerRan * a /\ MsPerRan * m >= MsPerRan * b
  BY <1>1, <1>5 DEF MsPerRan
<1> QED BY <1>2, <1>5, <1>6 DEF a, b

\* The mode, its bits, and what both sides can do.
HoppingAgrees(mode, bits, mask, device) ==
    /\ bits \subseteq mask
    /\ HopCccToFira(bits) \subseteq device
    /\ bits = CASE mode = "Disabled"          -> {7}
                [] mode = "ContinuousDefault" -> {6, 4}
                [] mode = "AdaptiveDefault"   -> {5, 4}

LEMMA HopBits ==
    /\ HopFiraToCcc({4}) = {7} /\ HopCccToFira({7}) = {4}
    /\ HopFiraToCcc({3, 1}) = {6, 4} /\ HopCccToFira({6, 4}) = {3, 1}
    /\ HopFiraToCcc({2, 1}) = {5, 4} /\ HopCccToFira({5, 4}) = {2, 1}
<1>1. HopFiraToCcc({4}) = {7} /\ HopFiraToCcc({3, 1}) = {6, 4} /\ HopFiraToCcc({2, 1}) = {5, 4}
  BY DEF HopFiraToCcc
<1>2. /\ HopCccToFira({7}) = {4} /\ HopCccToFira({6, 4}) = {3, 1}
      /\ HopCccToFira({5, 4}) = {2, 1}
  BY DEF HopCccToFira
<1> QED BY <1>1, <1>2

LEMMA HoppingAgreed ==
    ASSUME NEW e, e.tag = "HoppingConfigBitmask", Agreeable(e), e.value \in SUBSET (0 .. 7)
    PROVE  /\ ModeOf(Combo(e)) \in {"Disabled", "ContinuousDefault", "AdaptiveDefault"}
           /\ HopFiraToCcc(Combo(e)) \in {{7}, {6, 4}, {5, 4}}
           /\ AnnouncedMode(HopFiraToCcc(Combo(e))) = ModeOf(Combo(e))
           /\ HoppingAgrees(ModeOf(Combo(e)), HopFiraToCcc(Combo(e)), e.value,
                            localCaps.hoppingConfigBitmask)
<1> DEFINE C == HopCccToFira(e.value) \cap localCaps.hoppingConfigBitmask
<1>1. Common(e) = C
  BY DEF Common
<1>2. {4} \subseteq C \/ {3, 1} \subseteq C \/ {2, 1} \subseteq C
  BY <1>1 DEF Agreeable, HopComboNoHopping, HopComboContinuousDefault, HopComboAdaptiveDefault
<1>3. Combo(e) \in {{4}, {3, 1}, {2, 1}} /\ Combo(e) \subseteq C
  BY <1>1, <1>2 DEF Combo, HopComboNoHopping, HopComboContinuousDefault, HopComboAdaptiveDefault
<1>4. {4} # {3, 1} /\ {4} # {2, 1} /\ {3, 1} # {2, 1}
  OBVIOUS
<1>5. /\ ModeOf({4}) = "Disabled" /\ ModeOf({3, 1}) = "ContinuousDefault"
      /\ ModeOf({2, 1}) = "AdaptiveDefault"
  BY <1>4 DEF ModeOf, HopComboNoHopping, HopComboContinuousDefault, HopComboAdaptiveDefault
<1>6. \A bit \in C : bit \in localCaps.hoppingConfigBitmask /\ bit + 3 \in e.value
  BY DEF HopCccToFira
<1>7. AnnouncedMode(HopFiraToCcc(Combo(e))) = ModeOf(Combo(e))
  BY <1>3, HopBits DEF AnnouncedMode
<1> HIDE DEF C
<1>8. CASE Combo(e) = {4}
  <2>1. {7} \subseteq e.value /\ {4} \subseteq localCaps.hoppingConfigBitmask
    BY <1>3, <1>6, <1>8
  <2> QED BY <1>5, <1>7, <1>8, <2>1, HopBits DEF HoppingAgrees
<1>9. CASE Combo(e) = {3, 1}
  <2>1. {6, 4} \subseteq e.value /\ {3, 1} \subseteq localCaps.hoppingConfigBitmask
    BY <1>3, <1>6, <1>9
  <2> QED BY <1>5, <1>7, <1>9, <2>1, HopBits DEF HoppingAgrees
<1>10. CASE Combo(e) = {2, 1}
  <2>1. {5, 4} \subseteq e.value /\ {2, 1} \subseteq localCaps.hoppingConfigBitmask
    BY <1>3, <1>6, <1>10
  <2> QED BY <1>5, <1>7, <1>10, <2>1, HopBits DEF HoppingAgrees
<1> QED BY <1>3, <1>8, <1>9, <1>10

-----------------------------------------------------------------------------
(***************************************************************************)
(* The invariant.  Each parameter is tied to what was last told of it.     *)
(***************************************************************************)
ParameterNames ==
    {"sessionId", "uwbConfigId", "pulseShapeCombo", "channel", "syncCodeIndex", "durationMs",
     "slotDurationRstu", "slotsPerRound", "hoppingMode", "hoppingConfigBitmask", "hopModeKey",
     "stsIndex0", "initiationTimeUs", "macMode", "responderCount"}

ChannelInv(channel, masks) ==
    /\ channel \in {"Channel5", "Channel9"}
    /\ \A mask \in masks : ChannelBit[channel] \in mask \cap localCaps.channelBitmask

DurationInv(ms, rans) ==
    /\ ms \in {MsPerRan * ran : ran \in 0 .. 255}
    /\ \A ran \in rans : /\ ms >= MsPerRan * ran
                         /\ ms >= MsPerRan * localCaps.minRanMultiplier
                         /\ ms \in {MsPerRan * n : n \in 1 .. 255}

SlotInv(rstu, masks) ==
    /\ rstu \in {RstuPerChap * n : n \in {0, 3, 4, 6, 8, 9, 12, 24}}
    /\ \A mask \in masks : /\ SlotIsShared(rstu, mask, localCaps.slotBitmask)
                           /\ rstu \in {RstuPerChap * n : n \in {3, 4, 6, 8, 9, 12, 24}}

SessionInv(sessionId, ids) == \A id \in ids : id = ExpectedSessionId /\ sessionId = id

HoppingInv(mode, bits, masks) ==
    /\ mode \in {"Disabled", "ContinuousDefault", "AdaptiveDefault"}
    /\ bits \in {{}, {7}, {6, 4}, {5, 4}}
    /\ AnnouncedMode(bits) = mode
    /\ \A mask \in masks : HoppingAgrees(mode, bits, mask, localCaps.hoppingConfigBitmask)

SetupInv ==
    /\ localCaps \in DeviceCapabilities
    /\ DOMAIN params = ParameterNames
    /\ params.slotsPerRound = 12
    /\ ChannelInv(params.channel, told["ChannelBitmask"])
    /\ DurationInv(params.durationMs, told["RanMultiplier"])
    /\ SlotInv(params.slotDurationRstu, told["SlotBitmask"])
    /\ SessionInv(params.sessionId, told["SessionId"])
    /\ HoppingInv(params.hoppingMode, params.hoppingConfigBitmask, told["HoppingConfigBitmask"])
    /\ PresetOf(params) = preset

LEMMA NothingToldYet ==
    ASSUME NEW counts
    PROVE  LET fresh == FreshParameters(PresetOf(counts))
           IN  /\ DOMAIN fresh = ParameterNames
               /\ fresh.slotsPerRound = 12
               /\ ChannelInv(fresh.channel, NothingTold["ChannelBitmask"])
               /\ DurationInv(fresh.durationMs, NothingTold["RanMultiplier"])
               /\ SlotInv(fresh.slotDurationRstu, NothingTold["SlotBitmask"])
               /\ SessionInv(fresh.sessionId, NothingTold["SessionId"])
               /\ HoppingInv(fresh.hoppingMode, fresh.hoppingConfigBitmask,
                             NothingTold["HoppingConfigBitmask"])
               /\ PresetOf(fresh) = PresetOf(counts)
<1> DEFINE fresh == FreshParameters(PresetOf(counts))
<1>1. \A tag \in M2Tags : NothingTold[tag] = {}
  BY DEF NothingTold
<1>2. /\ NothingTold["ChannelBitmask"] = {} /\ NothingTold["RanMultiplier"] = {}
      /\ NothingTold["SlotBitmask"] = {} /\ NothingTold["SessionId"] = {}
      /\ NothingTold["HoppingConfigBitmask"] = {}
  BY <1>1 DEF M2Tags
<1>3. /\ DOMAIN fresh = ParameterNames
      /\ fresh.slotsPerRound = 12 /\ fresh.channel = "Channel9"
      /\ fresh.durationMs = 0 /\ fresh.slotDurationRstu = 0
      /\ fresh.hoppingMode = "Disabled"
      /\ fresh.hoppingConfigBitmask = {}
      /\ fresh.macMode = counts.macMode /\ fresh.responderCount = counts.responderCount
  BY DEF FreshParameters, PresetOf, DefaultParameters, ParameterNames
<1>4. /\ 0 \in {MsPerRan * ran : ran \in 0 .. 255}
      /\ 0 \in {RstuPerChap * n : n \in {0, 3, 4, 6, 8, 9, 12, 24}}
  BY DEF MsPerRan, RstuPerChap
<1>5. AnnouncedMode({}) = "Disabled"
  BY DEF AnnouncedMode
<1>6. PresetOf(fresh) = PresetOf(counts)
  BY <1>3 DEF PresetOf
<1> HIDE DEF fresh
<1>7. /\ DOMAIN fresh = ParameterNames
      /\ fresh.slotsPerRound = 12
      /\ ChannelInv(fresh.channel, NothingTold["ChannelBitmask"])
      /\ DurationInv(fresh.durationMs, NothingTold["RanMultiplier"])
      /\ SlotInv(fresh.slotDurationRstu, NothingTold["SlotBitmask"])
      /\ SessionInv(fresh.sessionId, NothingTold["SessionId"])
      /\ HoppingInv(fresh.hoppingMode, fresh.hoppingConfigBitmask, NothingTold["HoppingConfigBitmask"])
  BY <1>2, <1>3, <1>4, <1>5 DEF ChannelInv, DurationInv, SlotInv, SessionInv, HoppingInv
<1> QED BY <1>6, <1>7 DEF fresh

\* The parameters the program starts with are fresh ones.
LEMMA DefaultIsFresh == DefaultParameters = FreshParameters(PresetOf(DefaultParameters))
BY DEF DefaultParameters, FreshParameters, PresetOf

LEMMA SetupInvInit == SetupInit => SetupInv
<1> SUFFICES ASSUME SetupInit PROVE SetupInv
  OBVIOUS
<1>1. /\ localCaps \in DeviceCapabilities /\ told = NothingTold
      /\ params = FreshParameters(PresetOf(DefaultParameters))
      /\ preset = PresetOf(DefaultParameters)
  BY DefaultIsFresh DEF SetupInit
<1> QED BY <1>1, NothingToldYet, Zenon DEF SetupInv

\* The parameters an M2 leaves, one by one.
LEMMA M2Fields ==
    ASSUME NEW es, DOMAIN params = ParameterNames
    PROVE  LET q == M2Parameters(es)
           IN  /\ DOMAIN q = ParameterNames
               /\ q.slotsPerRound = 12
               /\ q.channel = IF Given(es, M2Tags, "ChannelBitmask")
                              THEN Channel(Counts(es, M2Tags, "ChannelBitmask")) ELSE params.channel
               /\ q.durationMs = IF Given(es, M2Tags, "RanMultiplier")
                                 THEN DurationMs(Counts(es, M2Tags, "RanMultiplier"))
                                 ELSE params.durationMs
               /\ q.slotDurationRstu = IF Given(es, M2Tags, "SlotBitmask")
                                       THEN SlotDurationRstu(Counts(es, M2Tags, "SlotBitmask"))
                                       ELSE params.slotDurationRstu
               /\ q.sessionId = IF Given(es, M2Tags, "SessionId")
                                THEN Counts(es, M2Tags, "SessionId").value ELSE params.sessionId
               /\ q.hoppingMode = IF Given(es, M2Tags, "HoppingConfigBitmask")
                                  THEN ModeOf(Combo(Counts(es, M2Tags, "HoppingConfigBitmask")))
                                  ELSE params.hoppingMode
               /\ q.hoppingConfigBitmask =
                     IF Given(es, M2Tags, "HoppingConfigBitmask")
                     THEN HopFiraToCcc(Combo(Counts(es, M2Tags, "HoppingConfigBitmask")))
                     ELSE params.hoppingConfigBitmask
               /\ q.macMode = params.macMode /\ q.responderCount = params.responderCount
BY DEF M2Parameters, Value, ParameterNames

\* What an M2 was told last, by tag.
LEMMA M2Told ==
    ASSUME NEW es, ParseM2(es), NEW tag \in M2Tags
    PROVE  told'[tag] = IF Given(es, M2Tags, tag) THEN {Counts(es, M2Tags, tag).value} ELSE told[tag]
BY DEF ParseM2

LEMMA ParseM2Preserves ==
    ASSUME SetupInv, NEW es \in M2Messages, ParseM2(es)
    PROVE  SetupInv'
<1> DEFINE Has(tag) == Given(es, M2Tags, tag)
           E(tag) == Counts(es, M2Tags, tag)
<1>1. /\ "ChannelBitmask" \in M2Tags /\ "RanMultiplier" \in M2Tags /\ "SlotBitmask" \in M2Tags
      /\ "SessionId" \in M2Tags /\ "HoppingConfigBitmask" \in M2Tags
  BY DEF M2Tags
<1>2. params' = M2Parameters(es) /\ localCaps' = localCaps
  BY DEF ParseM2
<1>3. localCaps \in DeviceCapabilities /\ DOMAIN params = ParameterNames
  BY DEF SetupInv
<1>4. DOMAIN params' = ParameterNames /\ params'.slotsPerRound = 12
  BY <1>2, <1>3, M2Fields
<1>5. ChannelInv(params.channel, told["ChannelBitmask"])'
  <2>1. params'.channel = IF Has("ChannelBitmask") THEN Channel(E("ChannelBitmask")) ELSE params.channel
    BY <1>2, <1>3, M2Fields
  <2>2. told'["ChannelBitmask"] =
            IF Has("ChannelBitmask") THEN {E("ChannelBitmask").value} ELSE told["ChannelBitmask"]
    BY <1>1, M2Told
  <2>3. CASE Has("ChannelBitmask")
    <3>1. /\ Channel(E("ChannelBitmask")) \in {"Channel5", "Channel9"}
          /\ ChannelBit[Channel(E("ChannelBitmask"))]
                \in E("ChannelBitmask").value \cap localCaps.channelBitmask
      BY <1>1, <2>3, CountsIsAgreed, ChannelAgreed
    <3> HIDE DEF E
    <3> QED BY <1>2, <2>1, <2>2, <2>3, <3>1 DEF ChannelInv
  <2>4. CASE ~ Has("ChannelBitmask")
    BY <1>2, <2>1, <2>2, <2>4 DEF SetupInv, ChannelInv
  <2> QED BY <2>3, <2>4
<1>6. DurationInv(params.durationMs, told["RanMultiplier"])'
  <2>1. params'.durationMs = IF Has("RanMultiplier") THEN DurationMs(E("RanMultiplier")) ELSE params.durationMs
    BY <1>2, <1>3, M2Fields
  <2>2. told'["RanMultiplier"] =
            IF Has("RanMultiplier") THEN {E("RanMultiplier").value} ELSE told["RanMultiplier"]
    BY <1>1, M2Told
  <2>3. CASE Has("RanMultiplier")
    <3>1. /\ DurationMs(E("RanMultiplier")) \in {MsPerRan * ran : ran \in 1 .. 255}
          /\ DurationMs(E("RanMultiplier")) >= MsPerRan * E("RanMultiplier").value
          /\ DurationMs(E("RanMultiplier")) >= MsPerRan * localCaps.minRanMultiplier
      BY <1>1, <1>3, <2>3, CountsIsAgreed, DurationAgreed
    <3> HIDE DEF E
    <3> QED BY <1>2, <2>1, <2>2, <2>3, <3>1 DEF DurationInv
  <2>4. CASE ~ Has("RanMultiplier")
    BY <1>2, <2>1, <2>2, <2>4 DEF SetupInv, DurationInv
  <2> QED BY <2>3, <2>4
<1>7. SlotInv(params.slotDurationRstu, told["SlotBitmask"])'
  <2>1. params'.slotDurationRstu =
            IF Has("SlotBitmask") THEN SlotDurationRstu(E("SlotBitmask")) ELSE params.slotDurationRstu
    BY <1>2, <1>3, M2Fields
  <2>2. told'["SlotBitmask"] =
            IF Has("SlotBitmask") THEN {E("SlotBitmask").value} ELSE told["SlotBitmask"]
    BY <1>1, M2Told
  <2>3. CASE Has("SlotBitmask")
    <3>1. /\ SlotDurationRstu(E("SlotBitmask")) \in {RstuPerChap * n : n \in {3, 4, 6, 8, 9, 12, 24}}
          /\ SlotIsShared(SlotDurationRstu(E("SlotBitmask")), E("SlotBitmask").value, localCaps.slotBitmask)
      BY <1>1, <1>3, <2>3, CountsIsAgreed, SlotAgreed
    <3> HIDE DEF E
    <3> QED BY <1>2, <2>1, <2>2, <2>3, <3>1 DEF SlotInv, SlotIsShared
  <2>4. CASE ~ Has("SlotBitmask")
    BY <1>2, <2>1, <2>2, <2>4 DEF SetupInv, SlotInv, SlotIsShared
  <2> QED BY <2>3, <2>4
<1>8. SessionInv(params.sessionId, told["SessionId"])'
  <2>1. params'.sessionId = IF Has("SessionId") THEN E("SessionId").value ELSE params.sessionId
    BY <1>2, <1>3, M2Fields
  <2>2. told'["SessionId"] = IF Has("SessionId") THEN {E("SessionId").value} ELSE told["SessionId"]
    BY <1>1, M2Told
  <2>3. CASE Has("SessionId")
    <3>1. E("SessionId").value = ExpectedSessionId
      BY <1>1, <2>3, CountsIsAgreed DEF Agreeable
    <3> HIDE DEF E
    <3> QED BY <2>1, <2>2, <2>3, <3>1 DEF SessionInv
  <2>4. CASE ~ Has("SessionId")
    BY <2>1, <2>2, <2>4 DEF SetupInv, SessionInv
  <2> QED BY <2>3, <2>4
<1>9. HoppingInv(params.hoppingMode, params.hoppingConfigBitmask, told["HoppingConfigBitmask"])'
  <2>1. /\ params'.hoppingMode = IF Has("HoppingConfigBitmask")
                                 THEN ModeOf(Combo(E("HoppingConfigBitmask"))) ELSE params.hoppingMode
        /\ params'.hoppingConfigBitmask =
              IF Has("HoppingConfigBitmask")
              THEN HopFiraToCcc(Combo(E("HoppingConfigBitmask"))) ELSE params.hoppingConfigBitmask
    BY <1>2, <1>3, M2Fields
  <2>2. told'["HoppingConfigBitmask"] =
            IF Has("HoppingConfigBitmask") THEN {E("HoppingConfigBitmask").value}
            ELSE told["HoppingConfigBitmask"]
    BY <1>1, M2Told
  <2>3. CASE Has("HoppingConfigBitmask")
    <3> DEFINE mode == ModeOf(Combo(E("HoppingConfigBitmask")))
               bits == HopFiraToCcc(Combo(E("HoppingConfigBitmask")))
    <3>1. /\ mode \in {"Disabled", "ContinuousDefault", "AdaptiveDefault"}
          /\ bits \in {{7}, {6, 4}, {5, 4}}
          /\ AnnouncedMode(bits) = mode
          /\ HoppingAgrees(mode, bits, E("HoppingConfigBitmask").value, localCaps.hoppingConfigBitmask)
      BY <1>1, <2>3, CountsIsAgreed, HoppingAgreed
    <3>2. params'.hoppingMode = mode /\ params'.hoppingConfigBitmask = bits
      BY <2>1, <2>3
    <3> HIDE DEF E, mode, bits
    <3> QED BY <1>2, <2>2, <2>3, <3>1, <3>2 DEF HoppingInv, HoppingAgrees
  <2>4. CASE ~ Has("HoppingConfigBitmask")
    BY <1>2, <2>1, <2>2, <2>4 DEF SetupInv, HoppingInv, HoppingAgrees
  <2> QED BY <2>3, <2>4
<1>10. (PresetOf(params) = preset)'
  <2>1. params'.macMode = params.macMode /\ params'.responderCount = params.responderCount
    BY <1>2, <1>3, M2Fields
  <2>2. PresetOf(params) = preset /\ preset' = preset
    BY DEF SetupInv, ParseM2
  <2> QED BY <2>1, <2>2 DEF PresetOf
<1> QED BY <1>2, <1>3, <1>4, <1>5, <1>6, <1>7, <1>8, <1>9, <1>10 DEF SetupInv

\* Only an M2 and a new setup touch what is negotiated.
LEMMA OthersPreserve ==
    ASSUME SetupInv, localCaps' = localCaps, told' = told, preset' = preset, DOMAIN params' = ParameterNames,
           \A name \in {"slotsPerRound", "channel", "durationMs", "slotDurationRstu", "sessionId",
                        "hoppingMode", "hoppingConfigBitmask", "macMode", "responderCount"} :
              params'[name] = params[name]
    PROVE  SetupInv'
<1>1. /\ params'.slotsPerRound = params.slotsPerRound /\ params'.channel = params.channel
      /\ params'.durationMs = params.durationMs
      /\ params'.slotDurationRstu = params.slotDurationRstu
      /\ params'.sessionId = params.sessionId /\ params'.hoppingMode = params.hoppingMode
      /\ params'.hoppingConfigBitmask = params.hoppingConfigBitmask
      /\ params'.macMode = params.macMode /\ params'.responderCount = params.responderCount
  OBVIOUS
<1>2. PresetOf(params)' = preset'
  BY <1>1 DEF SetupInv, PresetOf
<1> QED BY <1>1, <1>2 DEF SetupInv, ChannelInv, DurationInv, SlotInv, SlotIsShared, SessionInv,
                    HoppingInv, HoppingAgrees

LEMMA M4Fields ==
    ASSUME SetupInv, NEW es, ParseM4(es)
    PROVE  /\ DOMAIN params' = ParameterNames
           /\ \A name \in {"slotsPerRound", "channel", "durationMs", "slotDurationRstu", "sessionId",
                           "hoppingMode", "hoppingConfigBitmask", "macMode", "responderCount"} :
                 params'[name] = params[name]
BY DEF SetupInv, ParseM4, ParameterNames

LEMMA SetupInvStep == SetupInv /\ [SetupNext]_setupVars => SetupInv'
<1> SUFFICES ASSUME SetupInv, [SetupNext]_setupVars PROVE SetupInv'
  OBVIOUS
<1>1. ASSUME UNCHANGED <<localCaps, params, told, preset>> PROVE SetupInv'
  <2>1. DOMAIN params' = ParameterNames
    BY <1>1 DEF SetupInv
  <2> QED BY <1>1, <2>1, OthersPreserve
<1>2. CASE BuildM1
  <2>1. CASE /\ preset' \in {PresetOf(DefaultParameters), PresetOf(localCaps)}
             /\ params' = FreshParameters(preset')
             /\ told' = NothingTold
    <3>1. localCaps' = localCaps /\ localCaps \in DeviceCapabilities
      BY <1>2 DEF BuildM1, SetupInv
    <3>2. PICK counts \in {DefaultParameters, localCaps} : preset' = PresetOf(counts)
      BY <2>1
    <3> DEFINE fresh == FreshParameters(PresetOf(counts))
    <3>3. params' = fresh /\ told' = NothingTold
      BY <2>1, <3>2
    <3>4. /\ DOMAIN fresh = ParameterNames
          /\ fresh.slotsPerRound = 12
          /\ fresh.channel \in {"Channel5", "Channel9"}
          /\ fresh.durationMs \in {MsPerRan * ran : ran \in 0 .. 255}
          /\ fresh.slotDurationRstu \in {RstuPerChap * n : n \in {0, 3, 4, 6, 8, 9, 12, 24}}
          /\ fresh.hoppingMode \in {"Disabled", "ContinuousDefault", "AdaptiveDefault"}
          /\ fresh.hoppingConfigBitmask \in {{}, {7}, {6, 4}, {5, 4}}
          /\ AnnouncedMode(fresh.hoppingConfigBitmask) = fresh.hoppingMode
          /\ PresetOf(fresh) = PresetOf(counts)
      BY NothingToldYet, Zenon DEF ChannelInv, DurationInv, SlotInv, HoppingInv
    <3>5. /\ NothingTold["ChannelBitmask"] = {} /\ NothingTold["RanMultiplier"] = {}
          /\ NothingTold["SlotBitmask"] = {} /\ NothingTold["SessionId"] = {}
          /\ NothingTold["HoppingConfigBitmask"] = {}
      BY DEF NothingTold, M2Tags
    <3>6. (PresetOf(params) = preset)'
      <4>1. PresetOf(params)' = PresetOf(params')
        BY DEF PresetOf
      <4> QED BY <4>1, <3>2, <3>3, <3>4
    <3> HIDE DEF fresh, NothingTold
    <3> QED BY <3>1, <3>3, <3>4, <3>5, <3>6
            DEF SetupInv, ChannelInv, DurationInv, SlotInv, SessionInv, HoppingInv
  <2>2. CASE UNCHANGED <<params, told, preset>>
    BY <1>1, <1>2, <2>2 DEF BuildM1
  <2> QED BY <1>2, <2>1, <2>2 DEF BuildM1
<1>3. ASSUME NEW es \in M2Messages, ParseM2(es) PROVE SetupInv'
  BY <1>3, ParseM2Preserves
<1>4. ASSUME NEW es \in M4Messages, ParseM4(es) PROVE SetupInv'
  BY <1>4, M4Fields, OthersPreserve DEF ParseM4
<1>5. CASE ParseMalformed \/ BuildM3 \/ BuildSuspendRequest \/ BuildResumeRequest
  BY <1>5, <1>1 DEF ParseMalformed, BuildM3, BuildSuspendRequest, BuildResumeRequest
<1>6. ASSUME NEW accept \in BOOLEAN, BuildSuspendResponse(accept) PROVE SetupInv'
  BY <1>6, <1>1 DEF BuildSuspendResponse
<1>7. ASSUME NEW es \in ResumeResponses, ParseResumeResponse(es) PROVE SetupInv'
  BY <1>7, <1>1 DEF ParseResumeResponse
<1>8. CASE UNCHANGED setupVars
  BY <1>8, <1>1 DEF setupVars
<1> QED BY <1>2, <1>3, <1>4, <1>5, <1>6, <1>7, <1>8 DEF SetupNext

-----------------------------------------------------------------------------
\* Whatever was sent, in whatever order, by messages that were accepted or not:
\* the parameters are ones both sides can do.
THEOREM NegotiatedAlwaysShared == SetupSpec => []NegotiatedIsShared
<1>1. SetupInv => NegotiatedIsShared
  BY DEF SetupInv, ChannelInv, DurationInv, SlotInv, SlotIsShared, SessionInv, NegotiatedIsShared
<1> QED BY <1>1, SetupInvInit, SetupInvStep, PTL DEF SetupSpec

\* The hopping mode, the bits announced and what both sides can do agree.
THEOREM HoppingAlwaysShared == SetupSpec => []HoppingIsShared
<1>1. SetupInv => HoppingIsShared
  BY DEF SetupInv, HoppingInv, HoppingAgrees, HoppingIsShared
<1> QED BY <1>1, SetupInvInit, SetupInvStep, PTL DEF SetupSpec

-----------------------------------------------------------------------------
(***************************************************************************)
(* The stages: what was announced is what was negotiated, and an anchor    *)
(* comes of one response.                                                  *)
(***************************************************************************)
StageInv ==
    /\ stage \in Stage
    /\ result \in {"Ok", "MalformedFrame", "InvalidParameter"}
    /\ \A tag \in M2Tags : \A v, w \in told[tag] : v = w
    /\ stage \in {"Idle", "Offered", "Negotiated"} => m3 = NoM3
    /\ m3 # NoM3 => m3 = SetupM3(params)
    /\ preset \in {PresetOf(DefaultParameters), PresetOf(localCaps)}
    /\ AnchorIsWhole

LEMMA StageInvInit == SetupInit => StageInv
<1> SUFFICES ASSUME SetupInit PROVE StageInv
  OBVIOUS
<1>1. \A tag \in M2Tags : told[tag] = {}
  BY DEF SetupInit, NothingTold
<1> QED BY <1>1 DEF SetupInit, StageInv, Stage, Running, AnchorIsWhole

LEMMA OutcomeCases ==
    ASSUME NEW es, NEW tags
    PROVE  /\ Outcome(es, tags) \in {"Ok", "MalformedFrame", "InvalidParameter"}
           /\ Outcome(es, tags) = "Ok" <=> Refused(es, tags) = {}
BY DEF Outcome

\* An accepted response is whole, and says what was written.
LEMMA AcceptedIsWhole ==
    ASSUME NEW es \in ResumeResponses, ParseResumeResponse(es), result' = "Ok"
    PROVE  AnchorIsWhole'
<1>1. Outcome(es, ResumeTags) = "Ok" /\ HasAnchor(es)
  BY DEF ParseResumeResponse
<1>2. Refused(es, ResumeTags) = {}
  BY <1>1, OutcomeCases
<1>3. \A i \in DOMAIN es : /\ es[i].tag \in ResumeTags => es[i].sized
                           /\ es[i].tag \in ResumeTags => Agreeable(es[i])
  BY <1>2 DEF Refused, WellSized
<1>4. Given(es, ResumeTags, "StsIndex0") /\ Given(es, ResumeTags, "UwbTime0")
  BY <1>1 DEF HasAnchor
<1>5. PICK i \in DOMAIN es : Counts(es, ResumeTags, "StsIndex0") = es[i] /\ es[i].tag = "StsIndex0"
  BY <1>4, CountsIsTaken DEF ResumeTags
<1>6. PICK j \in DOMAIN es : Counts(es, ResumeTags, "UwbTime0") = es[j] /\ es[j].tag = "UwbTime0"
  BY <1>4, CountsIsTaken DEF ResumeTags
<1>7. anchor'.stsIndex0 = es[i].value /\ anchor'.time0Us = es[j].value
  BY <1>4, <1>5, <1>6 DEF ParseResumeResponse, Value
<1>8. \A e \in Range(es) : \E n \in DOMAIN es : e = es[n]
  BY DEF Range
<1>9. es[i] \in Range(es) /\ es[j] \in Range(es)
  BY DEF Range
<1>10. \A e \in Range(es) : e.tag \in ResumeTags => e.sized
  BY <1>3, <1>8
<1>11. \A e \in Range(es) : e.tag = "Status" => e.value = 0
  BY <1>3, <1>8 DEF Agreeable, ResumeTags
<1> QED BY <1>5, <1>6, <1>7, <1>9, <1>10, <1>11 DEF AnchorIsWhole

LEMMA StageInvStep == SetupInv /\ StageInv /\ [SetupNext]_setupVars => StageInv'
<1> SUFFICES ASSUME SetupInv, StageInv, [SetupNext]_setupVars PROVE StageInv'
  OBVIOUS
<1>1. (preset \in {PresetOf(DefaultParameters), PresetOf(localCaps)})'
  <2>1. localCaps' = localCaps
    BY DEF SetupNext, BuildM1, ParseMalformed, ParseM2, BuildM3, ParseM4, BuildSuspendRequest,
           BuildSuspendResponse, BuildResumeRequest, ParseResumeResponse, setupVars
  <2>2. preset' = preset \/ preset' \in {PresetOf(DefaultParameters), PresetOf(localCaps)}
    BY DEF SetupNext, BuildM1, ParseMalformed, ParseM2, BuildM3, ParseM4, BuildSuspendRequest,
           BuildSuspendResponse, BuildResumeRequest, ParseResumeResponse, setupVars
  <2> QED BY <2>1, <2>2 DEF StageInv, PresetOf
<1> USE DEF Stage, Running
<1>2. CASE BuildM1
  <2>1. \A tag \in M2Tags : \A v, w \in told'[tag] : v = w
    BY <1>2 DEF BuildM1, NothingTold, StageInv
  <2> QED BY <1>2, <1>1, <2>1 DEF BuildM1, StageInv, AnchorIsWhole
<1>3. ASSUME NEW es \in M2Messages, ParseM2(es) PROVE StageInv'
  <2>1. \A tag \in M2Tags : \A v, w \in told'[tag] : v = w
    BY <1>3, M2Told DEF StageInv
  <2>2. /\ stage = "Offered" /\ stage' \in {"Offered", "Negotiated"} /\ m3' = m3
        /\ result' \in {"Ok", "MalformedFrame", "InvalidParameter"}
    BY <1>3, OutcomeCases DEF ParseM2
  <2> QED BY <1>1, <2>1, <2>2 DEF StageInv, AnchorIsWhole
<1>4. CASE BuildM3
  <2>1. m3' = SetupM3(params)'
    BY <1>4 DEF BuildM3, SetupM3
  <2> QED BY <1>4, <1>1, <2>1 DEF BuildM3, StageInv, AnchorIsWhole
<1>5. ASSUME NEW es \in M4Messages, ParseM4(es) PROVE StageInv'
  <2>1. /\ params'.slotsPerRound = params.slotsPerRound /\ params'.durationMs = params.durationMs
        /\ params'.slotDurationRstu = params.slotDurationRstu
        /\ params'.hoppingConfigBitmask = params.hoppingConfigBitmask
    BY <1>5, M4Fields
  <2>2. localCaps' = localCaps /\ m3' = m3 /\ told' = told
    BY <1>5 DEF ParseM4
  <2>3. SetupM3(params)' = SetupM3(params)
    BY <2>1, <2>2 DEF SetupM3
  <2>4. /\ stage = "Announced" /\ stage' \in {"Announced", "Established"}
        /\ result' \in {"Ok", "MalformedFrame", "InvalidParameter"}
    BY <1>5, OutcomeCases DEF ParseM4
  <2> QED BY <1>1, <2>2, <2>3, <2>4 DEF StageInv, AnchorIsWhole
<1>6. ASSUME UNCHANGED <<localCaps, params, m3, told>>,
             stage' \in Stage,
             stage' \in {"Idle", "Offered", "Negotiated"} => stage' = stage,
             result' \in {"Ok", "MalformedFrame", "InvalidParameter"},
             AnchorIsWhole'
      PROVE  StageInv'
  <2>1. SetupM3(params)' = SetupM3(params)
    BY <1>6 DEF SetupM3
  <2> QED BY <1>6, <1>1, <2>1 DEF StageInv
<1>7. ASSUME UNCHANGED anchor, stage' = "Anchored" => stage = "Anchored"
      PROVE  AnchorIsWhole'
  BY <1>7 DEF StageInv, AnchorIsWhole
<1>8. CASE ParseMalformed
  BY <1>6, <1>7, <1>8 DEF ParseMalformed, StageInv
<1>9. CASE BuildSuspendRequest
  BY <1>6, <1>7, <1>9 DEF BuildSuspendRequest, StageInv
<1>10. ASSUME NEW accept \in BOOLEAN, BuildSuspendResponse(accept) PROVE StageInv'
  BY <1>6, <1>7, <1>10 DEF BuildSuspendResponse, StageInv
<1>11. CASE BuildResumeRequest
  BY <1>6, <1>7, <1>11 DEF BuildResumeRequest, StageInv
<1>12. ASSUME NEW es \in ResumeResponses, ParseResumeResponse(es) PROVE StageInv'
  <2>1. /\ UNCHANGED <<localCaps, params, m3, told>> /\ stage = "Resuming"
        /\ stage' = IF result' = "Ok" THEN "Anchored" ELSE stage
        /\ result' \in {"Ok", "MalformedFrame", "InvalidParameter"}
    BY <1>12, OutcomeCases DEF ParseResumeResponse
  <2>2. AnchorIsWhole'
    <3>1. CASE result' = "Ok"
      BY <1>12, <3>1, AcceptedIsWhole
    <3>2. CASE result' # "Ok"
      BY <2>1, <3>2 DEF AnchorIsWhole
    <3> QED BY <3>1, <3>2
  <2> QED BY <1>6, <2>1, <2>2
<1>13. CASE UNCHANGED setupVars
  BY <1>6, <1>7, <1>13 DEF setupVars, StageInv
<1> QED BY <1>2, <1>3, <1>4, <1>5, <1>8, <1>9, <1>10, <1>11, <1>12, <1>13 DEF SetupNext

\* The session is resumed on the anchor of one response that was accepted.
THEOREM AnchorAlwaysWhole == SetupSpec => []AnchorIsWhole
<1>1. StageInv => AnchorIsWhole
  BY DEF StageInv
<1>2. SetupSpec => []SetupInv
  BY SetupInvInit, SetupInvStep, PTL DEF SetupSpec
<1> QED BY <1>1, <1>2, StageInvInit, StageInvStep, PTL DEF SetupSpec

-----------------------------------------------------------------------------
(***************************************************************************)
(* The numbers.                                                            *)
(***************************************************************************)
LEMMA Announceable ==
    ASSUME SetupInv
    PROVE  /\ SetupM3(params) \in SetupM3Type
           /\ MsPerRan * Byte(params.durationMs \div MsPerRan) = params.durationMs
           /\ RstuPerChap * Byte(params.slotDurationRstu \div RstuPerChap) = params.slotDurationRstu
<1>1. PICK ran \in 0 .. 255 : params.durationMs = MsPerRan * ran
  BY DEF SetupInv, DurationInv
<1>2. PICK n \in {0, 3, 4, 6, 8, 9, 12, 24} : params.slotDurationRstu = RstuPerChap * n
  BY DEF SetupInv, SlotInv
<1>3. (96 * ran) \div 96 = ran /\ ran % 256 = ran
  OBVIOUS
<1>4. (400 * n) \div 400 = n /\ n % 256 = n /\ n \in 0 .. 255
  OBVIOUS
<1>5. /\ Byte(params.durationMs \div MsPerRan) = ran
      /\ Byte(params.slotDurationRstu \div RstuPerChap) = n
  BY <1>1, <1>2, <1>3, <1>4 DEF Byte, MsPerRan, RstuPerChap
<1>6. /\ localCaps.responderCount \in 0 .. 255 /\ localCaps.macMode \in 0 .. 255
      /\ params.slotsPerRound = 12
      /\ params.hoppingConfigBitmask \in {{}, {7}, {6, 4}, {5, 4}}
  BY CapabilitiesAssumption DEF SetupInv, HoppingInv
<1>7. params.hoppingConfigBitmask \in SUBSET (0 .. 10)
  BY <1>6
<1>8. SetupM3(params) \in SetupM3Type
  BY <1>4, <1>5, <1>6, <1>7 DEF SetupM3, SetupM3Type
<1> QED BY <1>1, <1>2, <1>5, <1>8

\* The schedule is a function of what M3 announces.
LEMMA SameSchedule ==
    ASSUME NEW p, NEW q,
           p.durationMs = q.durationMs, p.slotDurationRstu = q.slotDurationRstu,
           p.slotsPerRound = q.slotsPerRound, p.hoppingMode = q.hoppingMode,
           p.macMode = q.macMode, p.responderCount = q.responderCount
    PROVE  ScheduleOf(p) = ScheduleOf(q)
<1>1. RoundsPerBlock(p) = RoundsPerBlock(q)
  BY DEF RoundsPerBlock, RoundDurationUs
<1>2. BlockStsStride(p) = BlockStsStride(q)
  BY <1>1 DEF BlockStsStride
<1>3. TwoRounds(p) = TwoRounds(q) /\ RoundOffset(p) = RoundOffset(q)
  BY DEF TwoRounds, RoundOffset
<1>4. \A leg \in Legs : LegOffset(p, 0, leg) = LegOffset(q, 0, leg)
  BY DEF LegOffset
<1>5. HashedSchedule(p) = HashedSchedule(q)
  BY DEF HashedSchedule
<1> QED BY <1>1, <1>2, <1>3, <1>4, <1>5, Zenon DEF ScheduleOf

\* What is announced is the schedule that is used and hashed, byte for byte,
\* but for the counts, which are those of the capabilities.
LEMMA AnnouncedIsUsed ==
    ASSUME SetupInv, StageInv
    PROVE  ScheduleAsAnnounced
<1> DEFINE peer == Announced(SetupM3(params))
           filled == [peer EXCEPT !.macMode = params.macMode,
                                 !.responderCount = params.responderCount]
<1>1. /\ peer.durationMs = params.durationMs
      /\ peer.slotDurationRstu = params.slotDurationRstu
      /\ peer.slotsPerRound = params.slotsPerRound
      /\ peer.hoppingMode = AnnouncedMode(params.hoppingConfigBitmask)
      /\ peer.macMode = localCaps.macMode /\ peer.responderCount = localCaps.responderCount
  BY Announceable DEF Announced, SetupM3
<1>2. AnnouncedMode(params.hoppingConfigBitmask) = params.hoppingMode
  BY DEF SetupInv, HoppingInv
<1>3. ScheduleOf(filled) = ScheduleOf(params)
  <2>1. /\ filled.durationMs = peer.durationMs /\ filled.slotDurationRstu = peer.slotDurationRstu
        /\ filled.slotsPerRound = peer.slotsPerRound /\ filled.hoppingMode = peer.hoppingMode
        /\ filled.macMode = params.macMode /\ filled.responderCount = params.responderCount
    BY DEF Announced
  <2> HIDE DEF peer, filled
  <2> QED BY <1>1, <1>2, <2>1, SameSchedule
<1>4. ASSUME preset = PresetOf(localCaps) PROVE ScheduleOf(peer) = ScheduleOf(params)
  <2>1. PresetOf(params) = PresetOf(localCaps)
    BY <1>4 DEF SetupInv
  <2>2. params.macMode = localCaps.macMode /\ params.responderCount = localCaps.responderCount
    BY <2>1 DEF PresetOf
  <2> HIDE DEF peer
  <2> QED BY <1>1, <1>2, <2>2, SameSchedule
<1>5. m3 # NoM3 => Announced(m3) = peer
  BY DEF StageInv
<1> HIDE DEF peer
<1> QED BY <1>3, <1>4, <1>5 DEF ScheduleAsAnnounced

\* The types of everything that is negotiated and announced.
THEOREM SetupTypeCorrect == SetupSpec => []SetupTypeOK
<1>1. SetupInv /\ StageInv => SetupTypeOK
  <2> SUFFICES ASSUME SetupInv, StageInv PROVE SetupTypeOK
    OBVIOUS
  <2>1. DOMAIN params = DOMAIN DefaultParameters
    BY DEF SetupInv, DefaultParameters, ParameterNames
  <2>2. NoM3 \in SetupM3Type
    BY DEF NoM3, SetupM3Type
  <2>3. m3 \in SetupM3Type
    BY <2>2, Announceable DEF StageInv
  <2>4. /\ localCaps \in DeviceCapabilities
        /\ params.channel \in {"Channel5", "Channel9"}
        /\ params.durationMs \in {MsPerRan * ran : ran \in 0 .. 255}
        /\ params.slotDurationRstu \in {RstuPerChap * n : n \in {0, 3, 4, 6, 8, 9, 12, 24}}
        /\ params.slotsPerRound = 12
        /\ params.hoppingMode \in {"Disabled", "ContinuousDefault", "AdaptiveDefault"}
    BY Zenon DEF SetupInv, ChannelInv, DurationInv, SlotInv, HoppingInv
  <2>5. /\ stage \in Stage
        /\ result \in {"Ok", "MalformedFrame", "InvalidParameter"}
        /\ \A tag \in M2Tags : \A v, w \in told[tag] : v = w
        /\ preset \in {PresetOf(DefaultParameters), PresetOf(localCaps)}
    BY Zenon DEF StageInv
  <2> QED BY <2>1, <2>3, <2>4, <2>5, Zenon DEF SetupTypeOK
<1>2. SetupSpec => []SetupInv
  BY SetupInvInit, SetupInvStep, PTL DEF SetupSpec
<1> QED BY <1>1, <1>2, StageInvInit, StageInvStep, PTL DEF SetupSpec

\* What M3 announces of durations, slots and hopping is what the device uses and
\* hashes; with the counts of the capabilities in the caller's parameters, all
\* that M3 announces is.
THEOREM ScheduleAlwaysAnnounced == SetupSpec => []ScheduleAsAnnounced
<1>1. SetupInv /\ StageInv => ScheduleAsAnnounced
  BY AnnouncedIsUsed
<1>2. SetupSpec => []SetupInv
  BY SetupInvInit, SetupInvStep, PTL DEF SetupSpec
<1> QED BY <1>1, <1>2, StageInvInit, StageInvStep, PTL DEF SetupSpec

\* A round is 4 ms per three chaps of its slots; the shortest block has 96 ms and
\* the longest round 96 ms, the longest block 24480 ms and the shortest round 12.
Durations == {MsPerRan * ran : ran \in 1 .. 255}
SlotDurations == {RstuPerChap * n : n \in {3, 4, 6, 8, 9, 12, 24}}

LEMMA RoundsFit ==
    ASSUME U16 > 2040, NEW p, p.slotsPerRound = 12,
           p.durationMs \in Durations, p.slotDurationRstu \in SlotDurations
    PROVE  RoundsPerBlock(p) \in 1 .. U16 - 1
<1> PICK ran \in 1 .. 255 : p.durationMs = 96 * ran
  BY DEF Durations, MsPerRan
<1> PICK n \in {3, 4, 6, 8, 9, 12, 24} : p.slotDurationRstu = 400 * n
  BY DEF SlotDurations, RstuPerChap
<1>1. RoundDurationUs(p) = (12 * (400 * n) * 5) \div 6
  BY DEF RoundDurationUs
<1>2. (12 * (400 * n) * 5) \div 6 = 4000 * n
  OBVIOUS
<1>3. RoundsPerBlock(p) = (96 * ran * 1000) \div (4000 * n)
  BY <1>1, <1>2 DEF RoundsPerBlock
<1>4. (96 * ran * 1000) \div (4000 * n) \in 1 .. 2040
  <2> DEFINE block == 96 * ran * 1000
             round == 4000 * n
             HasRounds(us) == block \div us \in 1 .. 2040
  <2>1. block \in Int /\ 96000 <= block /\ block <= 24480000
    OBVIOUS
  <2>2. round \in {12000, 16000, 24000, 32000, 36000, 48000, 96000}
    OBVIOUS
  <2> HIDE DEF block, round
  <2>3. /\ HasRounds(12000) /\ HasRounds(16000) /\ HasRounds(24000) /\ HasRounds(32000)
        /\ HasRounds(36000) /\ HasRounds(48000) /\ HasRounds(96000)
    BY <2>1
  <2> HIDE DEF HasRounds
  <2>4. HasRounds(round)
    BY <2>2, <2>3
  <2> QED BY <2>4 DEF round, block, HasRounds
<1> QED BY <1>3, <1>4, WidthAssumption

\* With 16 bits for a round, a negotiated block holds one and can count all.
THEOREM BlockAlwaysHoldsARound ==
    ASSUME U16 > 2040
    PROVE  SetupSpec => []BlockHoldsARound
<1>1. SetupInv => BlockHoldsARound
  <2> SUFFICES ASSUME SetupInv, NEW r \in told["RanMultiplier"], NEW mask \in told["SlotBitmask"]
               PROVE  RoundsPerBlock(params) \in 1 .. U16 - 1
    BY DEF BlockHoldsARound
  <2>1. params.durationMs \in Durations
    BY DEF SetupInv, DurationInv, Durations
  <2>2. params.slotDurationRstu \in SlotDurations
    BY DEF SetupInv, SlotInv, SlotDurations
  <2>3. params.slotsPerRound = 12
    BY DEF SetupInv
  <2> QED BY <2>1, <2>2, <2>3, RoundsFit
<1> QED BY <1>1, SetupInvInit, SetupInvStep, PTL DEF SetupSpec

=============================================================================
