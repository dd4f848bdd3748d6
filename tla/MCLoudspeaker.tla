---------------------------- MODULE MCLoudspeaker ----------------------------
(* Loudspeaker with its properties, for TLC.                                *)
EXTENDS LoudspeakerProperties
=============================================================================
