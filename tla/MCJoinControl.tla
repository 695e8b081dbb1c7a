--------------------------- MODULE MCJoinControl ---------------------------
(* JoinControl on a small radio, for TLC. *)
EXTENDS JoinControl

MCChannelMask == {1}
=============================================================================
