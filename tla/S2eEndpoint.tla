----------------------------- MODULE S2eEndpoint -----------------------------
(***************************************************************************)
(* One sensor's UDP endpoint (simulation-server, src/s2e.rs).  The         *)
(* application publishes the scans the sensor completes into a watch       *)
(* channel, which keeps the latest.  A Tokio task answers the commands of  *)
(* the clients and sends the active one the scans in capsules of           *)
(* NodesPerCapsule samples; a capsule may span two rotations, so the       *)
(* samples left over wait for the next scan.  The runtime owns two such    *)
(* endpoints that share nothing but the shutdown flag.                     *)
(*                                                                         *)
(* A sample is its number among all samples of the sensor.  One action is  *)
(* one pass of the task from an await to the next, or one step of the      *)
(* application or of a client.                                             *)
(***************************************************************************)
EXTENDS Integers, Sequences

CONSTANTS
  Peer, NoPeer,
  NodesPerCapsule,   (* HQ_NODES_PER_CAPSULE                              *)
  MaxScan,           (* MAX_SCAN_ID, the last scan of the sensor          *)
  FirstSample,       (* the number of the first sample of each scan       *)
  MaxDatagrams,      (* bound: how many commands the clients send         *)
  InboxSize          (* how many datagrams the socket buffers             *)

Scan == 1..MaxScan

ASSUME ConstantsAssumption ==
  /\ NoPeer \notin Peer
  /\ NodesPerCapsule \in Nat \ {0}
  /\ MaxScan \in Nat
  /\ FirstSample \in [1..(MaxScan + 1) -> Nat \ {0}]
  /\ \A s, t \in 1..(MaxScan + 1) : s < t => FirstSample[s] < FirstSample[t]
  /\ MaxDatagrams \in Nat /\ InboxSize \in Nat

VARIABLES
  \* the application, and the watch channels it shares with the task
  owner,              (* "open", then "closing" inside close, then "closed"   *)
  latest,             (* the scan in the channel, 0 for None                  *)
  shutdown,
  \* the network
  inbox,              (* the datagrams that wait in the socket                *)
  sent,               (* how many commands the clients have sent              *)
  \* the task
  task,               (* where run_endpoint is                                *)
  seen,               (* the scan whose change its receiver has marked seen   *)
  active_peer, streaming, last_transmitted_scan_id,
  \* HqEncoder
  nodes,              (* samples encoded and not sent: while a scan is sent,  *)
                      (* its capsules and the tail, otherwise the tail        *)
  last_scan_id,
  \* history
  capsule             (* the last capsule sent in this stream                 *)

application == <<owner, latest, shutdown>>
network == <<inbox, sent>>
session == <<active_peer, streaming, last_transmitted_scan_id>>
encoder == <<nodes, last_scan_id>>
vars == <<application, network, task, seen, session, encoder, capsule>>

(* What parse_command and the match make of a datagram: "query" stands for *)
(* the device information, the health and a configuration the endpoint     *)
(* knows, "bad_query" for one it does not know, "stop" for reset as well.  *)
Command == {"malformed", "stop", "query", "bad_query", "motor_speed",
            "express_scan", "unsupported"}
Datagram == [peer : Peer, command : Command]

TaskPoints == {"select", "answer", "accept", "send", "ended", "failed"}
Finished == task \in {"ended", "failed"}

(* The samples of a scan, in the order of their measurement. *)
SampleCount(scan) == FirstSample[scan + 1] - FirstSample[scan]
Samples(scan) == [i \in 1..SampleCount(scan) |-> FirstSample[scan] + i - 1]

Init ==
  /\ owner = "open" /\ latest = 0 /\ shutdown = FALSE
  /\ inbox = <<>> /\ sent = 0
  /\ task = "select"
  /\ seen = 0
  /\ active_peer = NoPeer /\ streaming = FALSE /\ last_transmitted_scan_id = 0
  /\ nodes = <<>> /\ last_scan_id = 0
  /\ capsule = <<>>

-----------------------------------------------------------------------------
(* The application and the clients. *)

(* Broken variants named in PROJECT.json stand before the definition they  *)
(* vary; no specification uses them.                                       *)

(* publish: the next scan of the sensor replaces the one in the channel.   *)
Publish ==
  /\ owner = "open"
  /\ latest < MaxScan
  /\ latest' = latest + 1
  /\ UNCHANGED <<owner, shutdown, network, task, seen, session, encoder, capsule>>

(* close up to its await: the flag is set, then the task is joined. *)
Close ==
  /\ owner = "open"
  /\ owner' = "closing" /\ shutdown' = TRUE
  /\ UNCHANGED <<latest, network, task, seen, session, encoder, capsule>>

Joined ==
  /\ owner = "closing" /\ Finished
  /\ owner' = "closed"
  /\ UNCHANGED <<latest, shutdown, network, task, seen, session, encoder, capsule>>

(* A datagram reaches the socket.  What UDP loses never arrives, and a     *)
(* client may send anything at any time, so late, repeated and reordered   *)
(* commands are covered.                                                   *)
Arrive(datagram) ==
  /\ sent < MaxDatagrams /\ Len(inbox) < InboxSize
  /\ inbox' = Append(inbox, datagram)
  /\ sent' = sent + 1
  /\ UNCHANGED <<application, task, seen, session, encoder, capsule>>

-----------------------------------------------------------------------------
(* The task.  Its select is biased: shutdown, then commands, then scans.   *)

AtSelect == task = "select" /\ ~shutdown

Stop ==
  /\ task = "select" /\ shutdown
  /\ task' = "ended"
  /\ UNCHANGED <<application, network, seen, session, encoder, capsule>>

(* recv_from fails: the task ends and nobody learns it before close. *)
ReceiveFails ==
  /\ AtSelect
  /\ task' = "failed"
  /\ UNCHANGED <<application, network, seen, session, encoder, capsule>>

(* streaming, last_transmitted_scan_id and the encoder are reset together. *)
KeepTail ==
  /\ streaming' = FALSE
  /\ last_transmitted_scan_id' = 0
  /\ last_scan_id' = 0
  /\ capsule' = <<>>
  /\ UNCHANGED nodes
EndStream ==
  /\ streaming' = FALSE
  /\ last_transmitted_scan_id' = 0
  /\ nodes' = <<>> /\ last_scan_id' = 0
  /\ capsule' = <<>>

(* Another peer's command ends the stream before the command is looked at. *)
PeerChange(peer) ==
  IF active_peer # peer THEN EndStream
  ELSE UNCHANGED <<streaming, last_transmitted_scan_id, encoder, capsule>>

(* The head of the inbox is one of the commands, and is taken off. *)
Take(commands) ==
  /\ AtSelect /\ inbox # <<>>
  /\ Head(inbox).command \in commands
  /\ inbox' = Tail(inbox)
  /\ UNCHANGED <<application, sent, seen>>

(* Not a command: only counted as rejected, whoever sent it. *)
RejectMalformed ==
  /\ Take({"malformed"})
  /\ UNCHANGED <<task, session, encoder, capsule>>

(* The commands that end the stream; all but stop and a rejected query are *)
(* answered next.                                                          *)
EndingCommand ==
  /\ Take({"stop", "query", "bad_query"})
  /\ active_peer' = Head(inbox).peer
  /\ EndStream
  /\ task' = IF Head(inbox).command = "query" THEN "answer" ELSE "select"

(* The motor speed, and commands that are rejected after they were parsed. *)
NeutralCommand ==
  /\ Take({"motor_speed", "unsupported"})
  /\ active_peer' = Head(inbox).peer
  /\ PeerChange(Head(inbox).peer)
  /\ UNCHANGED task

(* COMMAND_EXPRESS_SCAN: begins a stream unless this peer has one. *)
StartScan ==
  /\ Take({"express_scan"})
  /\ LET peer == Head(inbox).peer IN
     /\ active_peer' = peer
     /\ streaming' = TRUE
     /\ IF active_peer # peer \/ ~streaming
        THEN /\ last_transmitted_scan_id' = 0
             /\ nodes' = <<>> /\ last_scan_id' = 0
             /\ capsule' = <<>>
        ELSE UNCHANGED <<last_transmitted_scan_id, encoder, capsule>>
  /\ task' = "accept"

(* A send_to fails: `?` ends the task. *)
SendFails ==
  /\ task \in {"answer", "accept", "send"}
  /\ task' = "failed"
  /\ UNCHANGED <<application, network, seen, session, encoder, capsule>>

Answered ==
  /\ task = "answer"
  /\ task' = "select"
  /\ UNCHANGED <<application, network, seen, session, encoder, capsule>>

(* HqEncoder.encode: the samples of the scan come after the tail, unless a *)
(* scan was skipped, which empties the tail.                               *)
JoinAcrossGap(scan) == nodes' = nodes \o Samples(scan) /\ last_scan_id' = scan
Encode(scan) ==
  /\ nodes' = IF last_scan_id # 0 /\ scan # last_scan_id + 1
              THEN Samples(scan) ELSE nodes \o Samples(scan)
  /\ last_scan_id' = scan

(* The stream response is sent; then the task looks at the channel, which  *)
(* marks its scan as seen, and sends that scan if it has not sent it yet.  *)
AcceptUnread ==
  /\ task = "accept"
  /\ seen' = latest
  /\ task' = "select"
  /\ UNCHANGED <<application, network, session, encoder, capsule>>
Accepted ==
  /\ task = "accept"
  /\ seen' = latest
  /\ IF latest # 0 /\ last_transmitted_scan_id # latest
     THEN Encode(latest) /\ task' = "send"
     ELSE task' = "select" /\ UNCHANGED encoder
  /\ UNCHANGED <<application, network, session, capsule>>

(* The branch of scans.changed(). *)
ScanChanged ==
  /\ AtSelect /\ inbox = <<>>
  /\ seen # latest
  /\ seen' = latest
  /\ IF streaming /\ last_transmitted_scan_id # latest
     THEN Encode(latest) /\ task' = "send"
     ELSE UNCHANGED <<task, encoder>>
  /\ UNCHANGED <<application, network, session, capsule>>

(* transmit_scan sends the capsules one by one; the samples that do not    *)
(* fill one stay as the tail.                                              *)
SendCapsule ==
  /\ task = "send"
  /\ Len(nodes) >= NodesPerCapsule
  /\ capsule' = SubSeq(nodes, 1, NodesPerCapsule)
  /\ nodes' = SubSeq(nodes, NodesPerCapsule + 1, Len(nodes))
  /\ UNCHANGED <<application, network, task, seen, session, last_scan_id>>

TransmitUnrecorded ==
  /\ task = "send"
  /\ Len(nodes) < NodesPerCapsule
  /\ task' = "select"
  /\ UNCHANGED <<application, network, seen, session, encoder, capsule>>
Transmitted ==
  /\ task = "send"
  /\ Len(nodes) < NodesPerCapsule
  /\ last_transmitted_scan_id' = last_scan_id
  /\ task' = "select"
  /\ UNCHANGED <<application, network, seen, active_peer, streaming, encoder, capsule>>

CommandStep == RejectMalformed \/ EndingCommand \/ NeutralCommand \/ StartScan
TaskStep ==
  \/ Stop \/ ReceiveFails \/ CommandStep \/ SendFails \/ Answered
  \/ Accepted \/ ScanChanged \/ SendCapsule \/ Transmitted

Next ==
  \/ Publish \/ Close \/ Joined
  \/ \E datagram \in Datagram : Arrive(datagram)
  \/ TaskStep

(* Tokio runs a task that is ready and a UDP send does not wait forever;   *)
(* nothing makes the socket fail, a client send or the application publish *)
(* or close.                                                               *)
TaskProgress ==
  Stop \/ CommandStep \/ Answered \/ Accepted \/ ScanChanged \/ SendCapsule \/ Transmitted
Fairness == WF_vars(TaskProgress) /\ WF_vars(Joined)

Spec == Init /\ [][Next]_vars /\ Fairness

-----------------------------------------------------------------------------
(* The variables have their types, and outside a transmission less than a  *)
(* capsule of samples is kept ("at most 95 nodes").                        *)
TypeOK ==
  /\ owner \in {"open", "closing", "closed"}
  /\ latest \in 0..MaxScan /\ seen \in 0..latest
  /\ shutdown \in BOOLEAN
  /\ inbox \in Seq(Datagram) /\ sent \in 0..MaxDatagrams
  /\ task \in TaskPoints
  /\ active_peer \in Peer \cup {NoPeer}
  /\ streaming \in BOOLEAN
  /\ last_transmitted_scan_id \in 0..latest /\ last_scan_id \in 0..latest
  /\ nodes \in Seq(Nat) /\ capsule \in Seq(Nat)
  /\ task \notin {"send", "failed"} => Len(nodes) < NodesPerCapsule

(* The four variables that make up a stream agree whatever commands came   *)
(* in whatever order: no stream leaves samples or a scan to the next one,  *)
(* a stream has a peer, and between transmissions the endpoint and its     *)
(* encoder agree on the scan they are at.  Every branch of the match sets  *)
(* them by itself.                                                         *)
StreamsAreSeparate ==
  /\ streaming => active_peer # NoPeer
  /\ ~streaming => /\ last_transmitted_scan_id = 0 /\ last_scan_id = 0
                   /\ nodes = <<>> /\ capsule = <<>>
  /\ task \in {"select", "answer", "accept"} => last_scan_id = last_transmitted_scan_id
  /\ task \in {"accept", "send"} => streaming

(* A scan's wakeup is not lost: when the task waits with every change seen *)
(* and a client streams, the latest scan was sent to that client, although *)
(* changes are marked seen in two branches and also without a client.      *)
NothingForgotten ==
  task = "select" /\ streaming /\ seen = latest => last_transmitted_scan_id = latest

(* The client's side: consecutive samples, none twice, gaps only up to the *)
(* beginning of a rotation, streams that never mix.                        *)
Stream == INSTANCE CapsuleStream WITH
  client <- IF streaming THEN active_peer ELSE NoPeer,
  CapsuleSize <- NodesPerCapsule,
  ScanStart <- {FirstSample[scan] : scan \in Scan}
StreamSpec == Stream!Spec

(* A client that streams gets the latest scan or a later one, unless its   *)
(* stream or the endpoint ends first, however commands and scans interleave.*)
LatestDelivered ==
  \A scan \in Scan :
    (streaming /\ latest = scan) ~>
      (last_transmitted_scan_id >= scan \/ ~streaming \/ Finished)
=============================================================================
