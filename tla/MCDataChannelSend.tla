-------------------------- MODULE MCDataChannelSend --------------------------
(* DataChannelSend, with the inductive invariant of its proofs, for TLC. *)
EXTENDS DataChannelSendProofs
=============================================================================
