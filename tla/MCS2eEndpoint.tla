---------------------------- MODULE MCS2eEndpoint ----------------------------
(* S2eEndpoint with two clients, four scans of one to four samples and     *)
(* capsules of three.                                                      *)
EXTENDS S2eEndpoint

CONSTANTS c1, c2
MCPeer == {c1, c2}
MCFirstSample == <<1, 3, 4, 8, 10>>
=============================================================================
