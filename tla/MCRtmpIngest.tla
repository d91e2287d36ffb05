---------------------------- MODULE MCRtmpIngest ----------------------------
(* RtmpIngest on a small instance: a client whose first, third and fourth      *)
(* units (C0C1, connect, createStream) are answered before it goes on.         *)
EXTENDS RtmpIngest

MCAwaited == {1, 3, 4}
=============================================================================
