----------------------------- MODULE MCRtmpProxy -----------------------------
(* RtmpProxy with two connections; the configuration names the first one's     *)
(* stream, or both.                                                            *)
EXTENDS RtmpProxy

CONSTANTS c1, c2

TwoConns == {c1, c2}
OneNamed == {c1}
=============================================================================
