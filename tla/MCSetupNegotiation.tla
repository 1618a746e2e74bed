------------------------- MODULE MCSetupNegotiation -------------------------
(***************************************************************************)
(* A small instance of SetupNegotiation: two devices, and messages of few  *)
(* elements, among them elements of the wrong size, with an unknown tag,   *)
(* with nothing in common, repeated ones, and the extreme values.  Longer  *)
(* messages do what several short ones do: an M2 that is refused, or a new *)
(* setup, is followed by another M2 on the parameters it leaves.           *)
(***************************************************************************)
EXTENDS SetupNegotiation

MCDeviceCapabilities ==
    { [channelBitmask |-> {0, 1}, slotBitmask |-> {1, 6}, hoppingConfigBitmask |-> {1, 2, 3, 4},
       minRanMultiplier |-> 1, macMode |-> 0, responderCount |-> 1],
      [channelBitmask |-> {1}, slotBitmask |-> {0, 6}, hoppingConfigBitmask |-> {1, 2, 3},
       minRanMultiplier |-> 2, macMode |-> 65, responderCount |-> 2] }

Sized(tag, value) == [tag |-> tag, sized |-> TRUE, value |-> value]
Unsized(tag, value) == [tag |-> tag, sized |-> FALSE, value |-> value]

M2Elements ==
    { Sized("SessionId", 1) }
    \cup { Sized("ChannelBitmask", m) : m \in {{0}, {0, 1}} }
    \cup { Sized("RanMultiplier", ran) : ran \in {0, 255} }
    \cup { Sized("SlotBitmask", m) : m \in {{6}, {0, 1, 6}} }
    \cup { Sized("HoppingConfigBitmask", m) : m \in {{4, 5, 6, 7}, {4, 5, 6}, {4, 5}} }

\* The wrong size, the wrong session, and nothing in common.
M2Refused ==
    { Unsized("ConfigId", 0), Sized("SessionId", 2), Sized("ChannelBitmask", {2}),
      Sized("SlotBitmask", {7}), Sized("HoppingConfigBitmask", {5}) }

MCM2Messages ==
    { <<e>> : e \in M2Elements }
    \cup { <<e, f>> : e \in {Sized("RanMultiplier", 1), Sized("SlotBitmask", {1})}, f \in M2Refused }
    \cup { <<Sized("ConfigId", 1), Sized("PulseShapeCombo", 1), Sized("Vendor", 0),
             Sized("RanMultiplier", ran), Sized("SlotBitmask", {6}), Sized("RanMultiplier", 1)>>
           : ran \in {0, 255} }

MCM4Messages ==
    { <<Sized("StsIndex0", 7), Sized("UwbTime0", 3), Sized("HopModeKey", 5), Sized("SyncCodeIndex", 9)>>,
      <<Sized("StsIndex0", 8), Unsized("SyncCodeIndex", 10)>> }

\* The first time belongs to the first index, the second to the second.
MCResumeResponses ==
    { <<Sized("StsIndex0", n), Sized("UwbTime0", n)>> : n \in {1, 2} }
    \cup { <<Sized("StsIndex0", n)>> : n \in {1, 2} }
    \cup { <<Sized("UwbTime0", n)>> : n \in {1, 2} }
    \cup { <<Sized("StsIndex0", n), Unsized("UwbTime0", n)>> : n \in {1, 2} }
    \cup { <<Sized("UwbTime0", n), Sized("Status", 1), Sized("StsIndex0", n)>> : n \in {1, 2} }
    \cup { <<Sized("Status", 0), Sized("UwbTime0", n), Sized("StsIndex0", n)>> : n \in {1, 2} }

=============================================================================
