-------------------------- MODULE MCDataChannelRecv --------------------------
(* DataChannelRecv, with the inductive invariant of its proofs, for TLC. *)
EXTENDS DataChannelRecvProofs
=============================================================================
