------------------------- MODULE MCChannelLifecycle -------------------------
(* ChannelLifecycle on small sets of openings.                             *)
EXTENDS ChannelLifecycle

Opening(send, anchor, dust) == [send |-> send, anchor |-> anchor, dust |-> dust]

\* The three ways to fund a channel, and nothing to sweep for the shortest.
MCOpenings ==
  {Opening(TRUE, TRUE, FALSE), Opening(FALSE, TRUE, FALSE), Opening(FALSE, FALSE, TRUE)}
=============================================================================
