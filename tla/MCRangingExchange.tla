-------------------------- MODULE MCRangingExchange --------------------------
(***************************************************************************)
(* Small instances of RangingExchange: a few schedules, a few exchanges.   *)
(***************************************************************************)
EXTENDS RangingExchange

CONSTANTS
    MCSchedules,  \* of "plain", "hopping" and "adaptive"
    MCFilter      \* -1, 0 or 1, by the names "every", "even", "odd"

\* 96 ms blocks, 2 ms slots, 6 slots: 8 rounds and 48 slots per block.  The
\* hopping schedule has two rounds per block, the second right after the
\* first; the adaptive one has 24 slots and 2 rounds.
MCPeerParams(schedule) ==
    [ sessionId        |-> 1,
      durationMs       |-> 96,
      slotDurationRstu |-> 2400,
      slotsPerRound    |-> IF schedule = "adaptive" THEN 24 ELSE 6,
      hoppingMode      |-> CASE schedule = "hopping" -> "ContinuousDefault"
                             [] schedule = "adaptive" -> "AdaptiveDefault"
                             [] OTHER -> "Disabled",
      hopModeKey       |-> 3,
      stsIndex0        |-> 10,
      macMode          |-> IF schedule = "hopping" THEN 64 + 1 ELSE 0,
      responderCount   |-> 1 ]

MCNode ==
    [ responderIndex |-> 0,
      blockParityFilter |-> CASE MCFilter = "every" -> -1
                              [] MCFilter = "even" -> 0
                              [] MCFilter = "odd" -> 1 ]

MCForeignPrePoll ==
    [ msg |-> "PrePoll", addr |-> <<>>, key |-> <<>>, intact |-> TRUE,
      sessionId |-> 9, counter |-> 1, sts |-> 1, block |-> 0, round |-> 0,
      reports |-> {}, stamp |-> 0 ]

MCForeignFrames == {MCForeignPrePoll, [MCForeignPrePoll EXCEPT !.msg = "Unreadable"]}

MCParamsSet == {MCPeerParams(schedule) : schedule \in MCSchedules}

\* Every Pre-Poll and Final_Data the initiator can send.
MCFrames ==
    MCForeignFrames
        \cup {PrePollFrame(x) : x \in PeerIn({"PrePoll"})}
        \cup {FinalDataFrame(x) : x \in PeerIn({"Final"})}

MCNodes == {MCNode}

ASSUME MCOrderly == MCFilter = "every" => Orderly

MCDefaultParams == [MCPeerParams("plain") EXCEPT !.slotsPerRound = 0]
MCStamps == 0 .. MaxExchanges

=============================================================================
