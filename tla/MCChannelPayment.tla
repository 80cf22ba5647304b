-------------------------- MODULE MCChannelPayment --------------------------
(* Instances of ChannelPayment for TLC.                                    *)
EXTENDS ChannelPayment
=============================================================================
