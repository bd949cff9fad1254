------------------------------ MODULE SceneLink ------------------------------
(***************************************************************************)
(* The scene stream from the simulator to the Visualizer.  The simulator's *)
(* end is the latest-only hand-over that ScenePublisher implements         *)
(* (simulation-server, src/scene_stream.rs), here with its TCP connections *)
(* and with restarts of the simulator, each a new run.  The Visualizer's   *)
(* end is SceneReceiver with its ExecutionState (visualizer,               *)
(* receiver/server.py, receiver/framing.py, state/machine.py).  A network  *)
(* connection delivers lines in order; what ends it may lose the lines the *)
(* server has not read, may leave a partial line, or may go unnoticed.     *)
(* The receiver's callback is the camera's (synthetic_camera/pipeline.py), *)
(* of which only whether it raises matters here.                           *)
(* Segment i carries keyframe i, so its number also stands for its time.   *)
(***************************************************************************)
EXTENDS LatestMailbox, Sequences

CONSTANTS
  MaxSequence,     (* bound: segments in a run                             *)
  MaxRuns,         (* bound: starts of the simulator                       *)
  MaxConnections,  (* bound: TCP connections opened                        *)
  MaxVisualizers,  (* bound: starts of the Visualizer                      *)
  Gapped           (* the segments longer than the camera's interpolation  *)
                   (* limit, max_interpolation_gap_s                       *)

ASSUME LinkAssumption ==
  /\ {MaxSequence, MaxRuns, MaxConnections, MaxVisualizers} \subseteq Nat \ {0}
  /\ Gapped \subseteq [run : 1..MaxRuns, sequence : 1..MaxSequence]

VARIABLES
  run,            (* the simulator's current run_id                        *)
  next_sequence,  (* PublisherState.next_sequence                          *)
  client,         (* the connection the publisher's task uses, 0 for none  *)
  header_written, (* the task has written the header on it                 *)
  opened,         (* how many connections were opened                      *)
  conns,          (* the connections                                       *)
  visualizers,    (* how many times the Visualizer has started             *)
  active,         (* SceneReceiver._active                                 *)
  exec,           (* ExecutionState: header run, segment, connected, gaps  *)
  records_rejected,
  received,       (* history: segments accepted since the run's header     *)
  last_frame      (* the camera has _last_frame, a segment of the run      *)

simulator == <<run, next_sequence, client, header_written>>
visualizer == <<visualizers, active, exec, records_rejected, received, last_frame>>
link == <<simulator, opened, conns, visualizer>>
allVars == <<vars, link>>

Connection == 1..MaxConnections

(* A line on the wire: sequence 0 is the stream header of its run. *)
Line == [run : 1..MaxRuns, sequence : 0..MaxSequence]

(* server is where handle_client is: the connection is not opened, waits   *)
(* to be accepted, is read for its header, is read for segments, is done.  *)
(* end tells the reader whether the other side has ended: "silent" is an   *)
(* end no packet announces.  partial is the segment of an unfinished line. *)
NoConnection == [server |-> "none", end |-> "open", inbox |-> << >>, partial |-> 0]
NewConnection == [NoConnection EXCEPT !.server = "backlog"]
NoExecution == [run |-> 0, segment |-> 0, connected |-> FALSE, missing |-> 0]

LinkInit ==
  /\ Init
  /\ run = 1 /\ next_sequence = 1
  /\ client = 0 /\ header_written = FALSE
  /\ opened = 0
  /\ conns = [c \in Connection |-> NoConnection]
  /\ visualizers = 1
  /\ active = FALSE
  /\ exec = NoExecution
  /\ records_rejected = 0
  /\ received = 0
  /\ last_frame = FALSE

-----------------------------------------------------------------------------
(* The simulator. *)

Publish ==
  /\ next_sequence <= MaxSequence
  /\ waiting' = next_sequence
  /\ next_sequence' = next_sequence + 1
  /\ Offer
  /\ UNCHANGED <<run, client, header_written, opened, conns, visualizer>>

(* The task connects when a segment waits. *)
Connect ==
  /\ waiting # 0 /\ client = 0
  /\ opened < MaxConnections
  /\ opened' = opened + 1
  /\ client' = opened + 1
  /\ conns' = [conns EXCEPT ![opened + 1] = NewConnection]
  /\ UNCHANGED <<vars, run, next_sequence, header_written, visualizer>>

(* A write puts its line where the server reads it, unless the server has  *)
(* closed its end: then the kernel takes the bytes and nobody reads them.  *)
Write(line) ==
  conns' = [conns EXCEPT ![client].inbox =
              IF conns[client].server = "closed" THEN @ ELSE Append(@, line)]

WriteHeader ==
  /\ client # 0 /\ ~header_written
  /\ header_written' = TRUE
  /\ Write([run |-> run, sequence |-> 0])
  /\ UNCHANGED <<vars, run, next_sequence, client, opened, visualizer>>

TakeSegment ==
  /\ client # 0 /\ header_written
  /\ Take
  /\ UNCHANGED link

WriteSegment ==
  /\ client # 0 /\ header_written
  /\ Write([run |-> run, sequence |-> taken])
  /\ Deliver
  /\ UNCHANGED <<simulator, opened, visualizer>>

(* The frame is over the line limit: dropped, the connection stays. *)
EncodeFails ==
  /\ Lose
  /\ UNCHANGED link

(* What the server sees of an end of the client's side of connection c: it *)
(* reads on to the end, it loses the lines it has not read (a reset), or   *)
(* it sees nothing at all.  The line being written may be there in part.   *)
Ended(c, line) ==
  IF conns[c].server = "closed" THEN {conns[c]}
  ELSE LET unread == conns[c].inbox
       IN  [server : {conns[c].server}, end : {"fin"}, inbox : {unread}, partial : {0, line}]
           \cup [server : {conns[c].server}, end : {"fin"}, inbox : {<< >>}, partial : {0}]
           \cup [server : {conns[c].server}, end : {"silent"}, inbox : {unread}, partial : {0}]

(* A header or segment write fails or times out, and the task drops the    *)
(* connection and the segment it holds.                                    *)
ConnectionFails ==
  /\ client # 0
  /\ header_written => taken # 0
  /\ \E ended \in Ended(client, taken) : conns' = [conns EXCEPT ![client] = ended]
  /\ client' = 0 /\ header_written' = FALSE
  /\ IF taken # 0 THEN Lose ELSE UNCHANGED vars
  /\ UNCHANGED <<run, next_sequence, opened, visualizer>>

(* The simulator stops or crashes and starts again under a new run_id. *)
RestartSimulator ==
  /\ run < MaxRuns
  /\ run' = run + 1
  /\ next_sequence' = 1
  /\ offered' = 0 /\ delivered' = 0 /\ dropped' = 0
  /\ waiting' = 0 /\ taken' = 0 /\ last' = 0 /\ shut' = FALSE
  /\ IF client = 0 THEN UNCHANGED conns
     ELSE \E ended \in Ended(client, taken) : conns' = [conns EXCEPT ![client] = ended]
  /\ client' = 0 /\ header_written' = FALSE
  /\ UNCHANGED <<opened, visualizer>>

-----------------------------------------------------------------------------
(* The Visualizer. *)

NeverBusy == FALSE
Busy == active

(* handle_client's end: what the connection still holds is never read. *)
Close(c) == conns' = [conns EXCEPT ![c].server = "closed", ![c].inbox = << >>, ![c].partial = 0]

(* The event loop starts handle_client for the connections in the order in *)
(* which they were opened.  A second producer is turned away at once.      *)
HandleClient(c) ==
  /\ conns[c].server = "backlog"
  /\ \A d \in Connection : conns[d].server = "backlog" => c <= d
  /\ IF Busy
     THEN Close(c) /\ UNCHANGED active
     ELSE /\ conns' = [conns EXCEPT ![c].server = "header"]
          /\ active' = TRUE
  /\ UNCHANGED <<vars, simulator, opened, visualizers, exec, records_rejected, received, last_frame>>

(* Broken variant: the receiver stays taken. *)
KeepActive == UNCHANGED active
Release == active' = FALSE

(* on_state raises: the camera interpolates at the start of the first      *)
(* segment of a run that it is given, before it looks whether it may, and  *)
(* handle_client does not catch the error.                                 *)
Raises(state, framed) ==
  /\ state.connected /\ ~framed
  /\ [run |-> state.run, sequence |-> state.segment] \in Gapped

(* accept_header: a known run goes on where it was, another starts anew. *)
AcceptHeader(r) ==
  IF exec.run = r THEN [exec EXCEPT !.connected = TRUE]
  ELSE [run |-> r, segment |-> 0, connected |-> TRUE, missing |-> 0]

(* _read_header.  When on_state raises, with the segment the run had when  *)
(* an earlier connection ended, the header does not count as accepted:     *)
(* handle_client ends without disconnect, and the state stays connected.   *)
ReadHeader(c) ==
  /\ conns[c].server = "header" /\ conns[c].inbox # << >>
  /\ LET line == Head(conns[c].inbox)
         framed == last_frame /\ exec.run = line.run
     IN  /\ exec' = AcceptHeader(line.run)
         /\ received' = IF exec.run = line.run THEN received ELSE 0
         /\ last_frame' = framed
         /\ IF Raises(AcceptHeader(line.run), framed)
            THEN Close(c) /\ Release
            ELSE /\ conns' = [conns EXCEPT ![c].server = "stream", ![c].inbox = Tail(@)]
                 /\ UNCHANGED active
  /\ UNCHANGED <<vars, simulator, opened, visualizers, records_rejected>>

Gap(sequence) == sequence - exec.segment - 1

(* accept_segment's guards: an active connection, the header's run, and a  *)
(* sequence (and with it a time) past the last one's.                      *)
Acceptable(line) ==
  exec.connected /\ line.run = exec.run /\ line.sequence > exec.segment

AcceptSegment(line) ==
  [exec EXCEPT !.segment = line.sequence, !.missing = @ + Gap(line.sequence)]

(* _process_segment: a line that is refused leaves the state alone and the *)
(* connection open.  When on_state raises, the segment is accepted and the *)
(* connection ends in the same stretch of the loop, with disconnect.       *)
ProcessSegment(c, line) ==
  LET state == AcceptSegment(line)
      raises == Acceptable(line) /\ Raises(state, last_frame)
  IN  /\ IF Acceptable(line)
         THEN /\ exec' = [state EXCEPT !.connected = ~raises]
              /\ last_frame' = ~raises
              /\ received' = received + 1
              /\ UNCHANGED records_rejected
         ELSE /\ records_rejected' = records_rejected + 1
              /\ UNCHANGED <<exec, last_frame, received>>
      /\ IF raises THEN Close(c) /\ Release
         ELSE conns' = [conns EXCEPT ![c].inbox = Tail(@)] /\ UNCHANGED active

ReadSegment(c) ==
  /\ conns[c].server = "stream" /\ conns[c].inbox # << >>
  /\ ProcessSegment(c, Head(conns[c].inbox))
  /\ UNCHANGED <<vars, simulator, opened, visualizers>>

(* Broken variant: what is left of a line is taken for a line. *)
FlushPartial(c) ==
  IF conns[c].server = "stream" /\ conns[c].partial # 0
  THEN exec' = [exec EXCEPT !.connected = FALSE, !.segment = conns[c].partial,
                            !.missing = @ + Gap(conns[c].partial)]
       /\ received' = received + 1
  ELSE UNCHANGED <<exec, received>>

(* discard_partial and disconnect, which only a connection that has had    *)
(* its header accepted reaches.                                            *)
Disconnect(c) ==
  /\ exec' = [exec EXCEPT !.connected = (@ /\ conns[c].server # "stream")]
  /\ UNCHANGED received

(* handle_client's finally: at the end of the input, or when no header has *)
(* come within header_timeout_s.                                           *)
EndClient(c) ==
  /\ \/ conns[c].server \in {"header", "stream"} /\ conns[c].inbox = << >> /\ conns[c].end = "fin"
     \/ conns[c].server = "header" /\ conns[c].inbox = << >>
  /\ Disconnect(c)
  /\ Release
  /\ Close(c)
  /\ UNCHANGED <<vars, simulator, opened, visualizers, records_rejected, last_frame>>

(* The Visualizer stops or crashes and starts again with nothing. *)
RestartVisualizer ==
  /\ visualizers < MaxVisualizers
  /\ visualizers' = visualizers + 1
  /\ active' = FALSE
  /\ exec' = NoExecution
  /\ received' = 0
  /\ last_frame' = FALSE
  /\ conns' = [c \in Connection |->
                 IF conns[c].server = "none" THEN conns[c]
                 ELSE [NoConnection EXCEPT !.server = "closed", !.end = conns[c].end]]
  /\ UNCHANGED <<vars, simulator, opened, records_rejected>>

Handler(c) == HandleClient(c) \/ ReadHeader(c) \/ ReadSegment(c) \/ EndClient(c)

LinkNext ==
  \/ Publish \/ Connect \/ WriteHeader \/ TakeSegment \/ WriteSegment \/ EncodeFails
  \/ ConnectionFails \/ RestartSimulator
  \/ \E c \in Connection : Handler(c)
  \/ RestartVisualizer

(* The event loop runs every handler that can run. *)
LinkFairness == \A c \in Connection : WF_allVars(Handler(c))

LinkSpec == LinkInit /\ [][LinkNext]_allVars /\ LinkFairness

-----------------------------------------------------------------------------
(* Properties. *)

LinkTypeOK ==
  /\ run \in 1..MaxRuns /\ next_sequence \in 1..(MaxSequence + 1)
  /\ client \in 0..opened /\ header_written \in BOOLEAN /\ opened \in 0..MaxConnections
  /\ conns \in [Connection -> [server : {"none", "backlog", "header", "stream", "closed"},
                               end : {"open", "fin", "silent"}, inbox : Seq(Line),
                               partial : 0..MaxSequence]]
  /\ visualizers \in 1..MaxVisualizers /\ active \in BOOLEAN
  /\ exec \in [run : 0..MaxRuns, segment : 0..MaxSequence, connected : BOOLEAN,
               missing : 0..(MaxSequence - 1)]
  /\ records_rejected \in Nat /\ received \in 0..MaxSequence
  /\ last_frame \in BOOLEAN

(* accept_segment's guards never meet a segment they refuse: one producer  *)
(* at a time and connections taken in order keep reconnections, restarts   *)
(* of either side and unread input of an older connection from mixing.     *)
NothingRejected == records_rejected = 0

(* The scene that is shown belongs to one run and accounts for all of its  *)
(* sequence numbers, also across reconnections: those that came and those  *)
(* reported as missing_sequences; and it is never ahead of what the        *)
(* publisher counts as sent, whatever was left of an interrupted write.    *)
(* It is connected only while a producer is, or for a run whose first      *)
(* segment the camera could not take: then the header of a reconnection    *)
(* leaves it connected with nobody to send (server.py:134-137).            *)
SceneAccounting ==
  /\ exec.segment = received + exec.missing
  /\ exec.run = run => exec.segment <= last
  /\ exec.connected => active \/ Raises(exec, last_frame)

(* The receiver does not stay taken by a producer that has visibly ended   *)
(* or never sends its header: it comes free, or a live one streams.        *)
ProducerReleased ==
  active ~> (~active \/ \E c \in Connection : conns[c].server = "stream" /\ conns[c].end # "fin")
=============================================================================
