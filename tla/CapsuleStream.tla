---------------------------- MODULE CapsuleStream ----------------------------
(***************************************************************************)
(* What a sensor's endpoint promises the client it streams to              *)
(* (docs/sdk-compatibility.md): one client at a time; within one stream    *)
(* every capsule is full of real, consecutive samples, no sample comes     *)
(* twice or out of order, and samples are skipped only up to the beginning *)
(* of a rotation.  A new stream owes nothing to the one before it.         *)
(***************************************************************************)
EXTENDS Naturals, Sequences

CONSTANTS
  Peer, NoPeer,
  CapsuleSize,   (* samples in a capsule                                  *)
  ScanStart      (* the numbers of the samples a rotation begins with     *)

VARIABLES
  client,        (* whom the stream goes to, NoPeer between streams       *)
  capsule        (* the last capsule of this stream, empty before any     *)

vars == <<client, capsule>>

Init == client = NoPeer /\ capsule = <<>>

(* A capsule whose first sample is the one numbered start. *)
CapsuleFrom(start) == [i \in 1..CapsuleSize |-> start + i - 1]

(* Where the next capsule may begin: a stream begins with a rotation; it   *)
(* goes on with the sample after the last one or with a later rotation.    *)
NextStart ==
  IF capsule = <<>> THEN ScanStart
  ELSE LET last == capsule[CapsuleSize]
       IN  {last + 1} \cup {start \in ScanStart : start > last}

Begin == client' \in Peer \ {client} /\ capsule' = <<>>

End == client' = NoPeer /\ capsule' = <<>>

Deliver ==
  /\ client # NoPeer
  /\ \E start \in NextStart : capsule' = CapsuleFrom(start)
  /\ UNCHANGED client

Next == Begin \/ End \/ Deliver

Spec == Init /\ [][Next]_vars
=============================================================================
