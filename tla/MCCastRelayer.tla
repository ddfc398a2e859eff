--------------------------- MODULE MCCastRelayer ---------------------------
(***************************************************************************)
(* Instances of CastRelayer for TLC.                                       *)
(***************************************************************************)
EXTENDS CastRelayer

\* Every fault, but for the two that together lose a message.
UpToRevertsOrPauses ==
  {CastFaultKinds \ {"revertHash"}, CastFaultKinds \ {"pause"}}
=============================================================================
