-------------------------- MODULE MCRangingSession --------------------------
(***************************************************************************)
(* Small instances of RangingSession: sessions with one or two sets of     *)
(* parameters, and as frames the Pre-Polls and the Final_Data of a few     *)
(* successive exchanges of each, one Pre-Poll of somebody else's session   *)
(* and one reception that cannot be read.                                  *)
(***************************************************************************)
EXTENDS RangingSession

CONSTANTS
    Exchanges,      \* how many exchanges of each session there are frames of
    FirstBlock,     \* the block of the first of them
    MCParams,       \* names of the parameter sets in use
    MCFilters,      \* the parity filters in use: "every", "even", "odd"
    MCUrskOrder     \* the URSKs the frames belong to

\* 96 ms blocks, 2 ms slots, 6 slots: 8 rounds and 48 slots per block.
MCParamsOf(name) ==
    [ sessionId        |-> IF name = "other" THEN 2 ELSE 1,
      durationMs       |-> 96,
      slotDurationRstu |-> 2400,
      slotsPerRound    |-> IF name = "zero" THEN 0 ELSE 6,
      hoppingMode      |-> CASE name = "hopping" -> "ContinuousDefault"
                             [] name = "adaptive" -> "AdaptiveDefault"
                             [] OTHER -> "Disabled",
      hopModeKey       |-> 3,
      stsIndex0        |-> IF name = "other" THEN 1000 ELSE 10,
      macMode          |-> IF name = "tworounds" THEN 64 + 4 ELSE 0,
      responderCount   |-> 1 ]

MCParamsSet == {MCParamsOf(name) : name \in MCParams}

MCDefaultParams == [MCParamsOf("zero") EXCEPT !.sessionId = 0, !.stsIndex0 = 0]

MCFilterOf(name) == CASE name = "every" -> -1 [] name = "even" -> 0 [] name = "odd" -> 1

MCNodeConfigs ==
    {[responderIndex |-> 0, blockParityFilter |-> MCFilterOf(name)] : name \in MCFilters}

\* The i-th exchange of a session, counted from the first block.
RECURSIVE MCExchange(_, _)
MCExchange(p, i) ==
    IF i = 0 THEN [block |-> FirstBlock, round |-> ScheduledRoundFor(p, FirstBlock)]
    ELSE LET before == MCExchange(p, i - 1)
         IN  NextScheduledExchange(p, before.block, before.round)

MCPollSts(p, i) == PollStsIndexFor(p, MCExchange(p, i).block, MCExchange(p, i).round)

MCAddresses(ursk, p) == DeriveAddresses(DeriveMupsk2(ursk), p.stsIndex0)

MCPrePoll(ursk, p, i) ==
    [ msg |-> "PrePoll", addr |-> MCAddresses(ursk, p), key |-> DeriveMupsk1(ursk),
      intact |-> TRUE, sessionId |-> p.sessionId, counter |-> i + 1,
      sts |-> MCPollSts(p, i), block |-> MCExchange(p, i).block,
      round |-> MCExchange(p, i).round, reports |-> {}, stamp |-> 0 ]

MCFinalData(ursk, p, i) ==
    [ msg |-> "FinalData", addr |-> MCAddresses(ursk, p),
      key |-> DudskKey(DeriveSlotKeys(DeriveMursk(ursk), DeriveSaltedHash(ursk, p),
                                      MCPollSts(p, i), p)),
      intact |-> TRUE, sessionId |-> p.sessionId, counter |-> i + 1,
      sts |-> LegStsIndex(p, 0, MCPollSts(p, i), "final"),
      block |-> MCExchange(p, i).block, round |-> 0, reports |-> {0}, stamp |-> 0 ]

MCOtherFrames ==
    { [MCPrePoll(NoUrsk, MCParamsOf("plain"), 0) EXCEPT !.sessionId = 9],
      [MCPrePoll(NoUrsk, MCParamsOf("plain"), 0) EXCEPT !.msg = "Unreadable"] }

MCFrames ==
    MCOtherFrames \cup
    UNION { {MCPrePoll(u, p, i)} \cup
              (IF p.slotsPerRound = 0 THEN {} ELSE {MCFinalData(u, p, i)}) :
            u \in MCUrskOrder, p \in MCParamsSet, i \in 0 .. Exchanges - 1 }

=============================================================================
