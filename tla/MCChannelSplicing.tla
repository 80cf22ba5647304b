------------------------- MODULE MCChannelSplicing --------------------------
(* ChannelSplicing on short courses: each kind of splice, and the pairs in *)
(* which a second call waits for the mutex of the first, or of ExpandAsset.*)
EXTENDS ChannelSplicing

Splicing(kind) == [kind |-> kind, all |-> FALSE]
ExpandAll(kind) == [kind |-> kind, all |-> TRUE]

MCCourses ==
  {<<Splicing("out")>>, <<Splicing("expand")>>, <<ExpandAll("expand")>>,
   <<Splicing("in"), Splicing("in")>>, <<ExpandAll("recover"), Splicing("in")>>}
=============================================================================
