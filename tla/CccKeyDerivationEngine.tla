----------------------- MODULE CccKeyDerivationEngine -----------------------
(***************************************************************************)
(* The keys of a session (crypto::CccKeyDerivationEngine) as terms: a key  *)
(* is the tuple or record of what it is derived from, so two keys are      *)
(* equal exactly when every input of their derivation is.  The KDF, the    *)
(* CMAC and the byte layouts are abstracted by this; which inputs enter    *)
(* which key, and the order in which a failing derivation leaves its       *)
(* outputs, are not.                                                       *)
(***************************************************************************)
EXTENDS StsSchedule

CONSTANTS
    Ursks,   \* the 32-byte shared keys sessions are started with
    NoUrsk   \* stands for the zero bytes of a session never started

ASSUME NoUrskAssumption == NoUrsk \notin Ursks

Ursk == Ursks \cup {NoUrsk}

(***************************************************************************)
(* The keys derived once per session.                                      *)
(***************************************************************************)
DeriveMupsk1(ursk) == <<"MUPSK1", ursk>>
DeriveMupsk2(ursk) == <<"MUPSK2", ursk>>
DeriveMursk(ursk)  == <<"MURSK", ursk>>

\* The session parameters that enter the salted hash, with the precision of
\* the byte each of them gets.
RangingConfig(p) ==
    << p.sessionId, p.stsIndex0, p.responderCount % 256,
       (p.durationMs \div 96) % 256, p.slotsPerRound % 256,
       (p.slotDurationRstu \div 400) % 256 >>

DeriveSaltedHash(ursk, p) == <<"SALTED_HASH", ursk, RangingConfig(p)>>

\* The addresses: destination, key source and source long together.
DeriveAddresses(mupsk2, stsIndex0) == <<"UAD", mupsk2, stsIndex0>>

Mupsk1Key    == {"MUPSK1"} \X Ursk
Mupsk2Key    == {"MUPSK2"} \X Ursk
MurskKey     == {"MURSK"} \X Ursk
RangingConfigs ==
    Nat \X StsIndex \X (0 .. 255) \X (0 .. 255) \X (0 .. 255) \X (0 .. 255)
SaltedHash   == {"SALTED_HASH"} \X Ursk \X RangingConfigs
MacAddresses == {"UAD"} \X Mupsk2Key \X StsIndex

-----------------------------------------------------------------------------
(***************************************************************************)
(* The keys of a slot.  dURSK (the STS key) and dUDSK (the payload key)    *)
(* are functions of mursk, the salted hash and the index of the first slot *)
(* of the round; the STS IV adds the index of the slot itself.             *)
(***************************************************************************)
SlotCryptoMaterial ==
    [ mursk        : MurskKey,
      saltedHash   : SaltedHash,
      baseStsIndex : StsIndex,
      stsIndex     : StsIndex ]

\* Fails when slotsPerRound = 0: its callers check that first.
DeriveSlotKeys(mursk, saltedHash, stsIndex, p) ==
    [ mursk        |-> mursk,
      saltedHash   |-> saltedHash,
      baseStsIndex |-> BaseStsIndex(p, stsIndex),
      stsIndex     |-> stsIndex ]

\* The key of the Final_Data payload: it is the same for every slot of a round.
DudskKey(k) == <<"dUDSK", k.mursk, k.saltedHash, k.baseStsIndex>>

=============================================================================
