----------------------------- MODULE EdgeBridge -----------------------------
(***************************************************************************)
(* The camera edge bridge (camera-edge-bridge/src): it reads the camera    *)
(* stream of the visualizer over a WebSocket, checks the descriptor and    *)
(* every JPEG, and writes the latest JPEG to a V4L2 device once per frame  *)
(* interval.  A session that ends is followed by a delay that doubles up   *)
(* to a maximum and starts over once a frame was written.                  *)
(*                                                                         *)
(* The bridge is one thread and the signal handlers that set its shutdown  *)
(* flag.  Time is counted in ticks; all clocks are kept relative to now:   *)
(* next_write is the time left until the deadline, negative when it has    *)
(* passed.  Time may pass between any two steps of the thread, so a poll   *)
(* may come late by any amount.                                            *)
(***************************************************************************)
EXTENDS Integers, Sequences, SequencesExt, FiniteSetsExt

CONSTANTS
  Configs,       (* environments the bridge may be started with, in ticks   *)
  MaxTimeout, MaxInitial, MaxDelay,
                 (* the limits of from_lookup                               *)
  FrameTicks,    (* the frame interval                                      *)
  PollTicks,     (* PACED_READ_POLL                                         *)
  ShutdownPollTicks, (* SHUTDOWN_POLL                                       *)
  Texts,         (* text messages a server may send: parsed descriptors     *)
  Jpegs,         (* binary messages a server may send                       *)
  Devices,       (* what the device path may lead to                        *)
  MaxPieces      (* bound: pieces in which a message may arrive             *)

None == [none |-> TRUE]

ASSUME EdgeBridgeAssumption ==
  /\ \A c \in Configs : {c.connect, c.io, c.initial, c.max} \subseteq Nat
  /\ {MaxTimeout, MaxInitial, MaxDelay, FrameTicks, PollTicks, ShutdownPollTicks}
       \subseteq Nat \ {0}
  /\ MaxPieces \in Nat
  /\ None \notin Jpegs

VARIABLES
  pc,          (* where the thread is                                       *)
  config,      (* Config                                                    *)
  shutdown,    (* the flag of the signal handlers                           *)
  next_delay,  (* ExponentialBackoff.next                                   *)
  processor,   (* SessionProcessor                                          *)
  silence,     (* time since last_message_at                                *)
  waited,      (* time since the socket last gave a byte to this read       *)
  pieces,      (* pieces of an unfinished message that were read            *)
  remaining,   (* time left of the delay before the next attempt            *)
  nap,         (* time left of the thread::sleep inside that delay          *)
  \* history
  failures,    (* attempts that ended since a frame was last written        *)
  offered,     (* the last JPEG this session accepted                       *)
  shown,       (* the last write: the device it went to and the JPEG        *)
  device,      (* the device that is open                                   *)
  slot_age,    (* time since the slot began, slots starting at the first frame *)
  slot_writes  (* frames written in this slot, counted up to two            *)

session == <<processor, silence, waited, pieces, offered, slot_age, slot_writes>>
delays == <<remaining, nap>>
vars == <<pc, config, shutdown, next_delay, session, delays, failures, shown, device>>

NoDeadline == FrameTicks + 1   (* a deadline is at most one interval ahead  *)
NoMarker == 256

-----------------------------------------------------------------------------
(* What is checked at the start and on every message. *)

(* parse_server_url: a URL's scheme and path, and which parts it has. *)
ValidUrl(url) ==
  /\ url.scheme = "ws" /\ url.path = "/camera/v1/stream"
  /\ {"host", "port"} \subseteq url.parts
  /\ {"credentials", "query"} \cap url.parts = {}

(* from_lookup: the address, the device, and the durations' limits. *)
ValidConfig(c) ==
  /\ c.url # None /\ ValidUrl(c.url) /\ c.absolute_device
  /\ c.connect \in 1..MaxTimeout /\ c.io \in 1..MaxTimeout
  /\ c.initial \in 1..MaxInitial /\ c.max \in 1..MaxDelay
  /\ c.initial <= c.max

FrameSize == <<1920, 1080>>
MaxFrameBytes == 4 * 1024 * 1024
MaxDescriptorBytes == 4096

(* parse_descriptor and StreamDescriptor::validate; "object" is what serde *)
(* makes of the text, None when it is no descriptor or has another field.  *)
Descriptor ==
  [type |-> "camera_stream_descriptor", version |-> 1, format |-> "MJPEG", size |-> FrameSize,
   fps |-> 30, max_frame_bytes |-> MaxFrameBytes]
ValidDescriptor(text) == text.bytes <= MaxDescriptorBytes /\ text.object = Descriptor

(* is_start_of_frame: C0 to CF without C4, C8 and CC. *)
StartOfFrame(marker) == marker \in 192..207 \ {196, 200, 204}
Standalone(marker) == marker \in {216, 1} \cup 208..215

(* dimensions: the markers between SOI and EOI up to the first start of    *)
(* frame.  A JPEG is the sequence of its markers, each with the length its *)
(* segment claims, the bytes that are left for it and its dimensions; what *)
(* is no marker at all has the marker NoMarker.                            *)
NoSize == <<0, 0>>
SizeWithoutMarkers(jpeg) ==
  LET sizes == {jpeg.markers[i].size : i \in DOMAIN jpeg.markers} \ {NoSize}
  IN IF sizes = {} THEN NoSize ELSE CHOOSE size \in sizes : TRUE
Dimensions(jpeg) ==
  LET scan[i \in 1..(Len(jpeg.markers) + 1)] ==
        IF i > Len(jpeg.markers) THEN NoSize
        ELSE LET m == jpeg.markers[i] IN
             CASE m.marker \in {NoMarker, 0, 217} -> NoSize
               [] Standalone(m.marker) -> scan[i + 1]
               [] m.length \notin 2..m.left -> NoSize
               [] StartOfFrame(m.marker) ->
                    IF m.length >= 8 /\ 0 \notin Range(m.size) THEN m.size ELSE NoSize
               [] m.marker = 218 -> NoSize
               [] OTHER -> scan[i + 1]
  IN scan[1]

ValidJpeg(jpeg) ==
  /\ jpeg.bytes \in 4..MaxFrameBytes
  /\ jpeg.soi /\ jpeg.eoi
  /\ Dimensions(jpeg) = FrameSize

(* V4l2Sink::open and validate_device. *)
Capabilities(d) == IF "device_caps" \in d.capabilities THEN d.device_caps ELSE d.capabilities
Usable(d) ==
  /\ d.char_device
  /\ {"video_output", "readwrite"} \subseteq Capabilities(d)
  /\ d.format = "MJPG" /\ d.size = FrameSize

-----------------------------------------------------------------------------
(* SessionProcessor and ExponentialBackoff. *)

NewProcessor == [descriptor |-> FALSE, latest |-> None, next_write |-> NoDeadline, wrote |-> FALSE]

(* next_periodic_deadline: the first deadline of the grid after now.  The  *)
(* broken variants named in PROJECT.json stand before the definitions they *)
(* vary; no specification uses them.                                       *)
NextDeadlineFromNow(deadline) == FrameTicks
NextDeadline(deadline) == deadline + FrameTicks * ((-deadline) \div FrameTicks + 1)

Due(p) == p.next_write # NoDeadline /\ p.next_write <= 0 /\ p.latest # None
Written(p) == [p EXCEPT !.wrote = TRUE, !.next_write = NextDeadline(@)]

SameDelay == next_delay
InitialDelay == config.initial
NextDelay(delay) == Min({2 * delay, config.max})

(* The thread returns from run: "ok", or an error's name. *)
Return(result) == pc' = result
Ended == pc \in {"ok", "config_error", "device_error"}
InSession == pc \in {"top", "read", "after"}

Init ==
  /\ pc = "start" /\ config \in Configs /\ shutdown = FALSE
  /\ next_delay = config.initial
  /\ processor = NewProcessor /\ silence = 0 /\ waited = 0 /\ pieces = 0
  /\ remaining = 0 /\ nap = 0
  /\ failures = 0 /\ offered = None /\ shown = None /\ device = None
  /\ slot_age = 0 /\ slot_writes = 0

(* SessionProcessor::new and the locals of run_session; the broken variant *)
(* keeps the processor of the last session.                                *)
KeepProcessor == processor' = [processor EXCEPT !.descriptor = FALSE]
FreshProcessor == processor' = NewProcessor
NewSession ==
  /\ FreshProcessor
  /\ silence' = 0 /\ waited' = 0 /\ pieces' = 0
  /\ offered' = None /\ slot_age' = 0 /\ slot_writes' = 0

-----------------------------------------------------------------------------
(* run: from the environment to the sessions. *)

(* The device is tried once before the first connection. *)
Start ==
  /\ pc = "start"
  /\ IF ~ValidConfig(config) THEN Return("config_error")
     ELSE \E d \in Devices : IF Usable(d) THEN pc' = "connect" ELSE Return("device_error")
  /\ UNCHANGED <<config, shutdown, next_delay, session, delays, failures, shown, device>>

(* An attempt is over: sleep for next_delay. *)
Failed == failures' = Min({failures + 1, config.max})
RetryAfter(delay) ==
  /\ pc' = "sleep"
  /\ remaining' = delay /\ nap' = 0
  /\ next_delay' = NextDelay(delay)
  /\ Failed
  /\ NewSession
Retry == RetryAfter(next_delay)

(* SessionOutcome::Disconnected starts the delays over when a frame was    *)
(* written.                                                                *)
Disconnected == RetryAfter(IF processor.wrote THEN InitialDelay ELSE next_delay)

(* connect: some address of the host takes the connection, and the first   *)
(* that does also the handshake.  The device is opened for each session.   *)
Connect ==
  /\ pc = "connect"
  /\ \/ /\ shutdown /\ Return("ok")
        /\ UNCHANGED <<next_delay, session, delays, failures, device>>
     \/ /\ ~shutdown /\ Retry /\ UNCHANGED device
     \/ /\ ~shutdown
        /\ \E d \in Devices :
             IF Usable(d) THEN pc' = "top" /\ device' = d
             ELSE Return("device_error") /\ UNCHANGED device
        /\ NewSession
        /\ UNCHANGED <<next_delay, delays, failures>>
  /\ UNCHANGED <<config, shutdown, shown>>

(* sleep_until_shutdown: the flag is looked at before each nap. *)
Sleep ==
  /\ pc = "sleep" /\ nap = 0
  /\ IF shutdown THEN Return("ok") /\ UNCHANGED nap
     ELSE IF remaining = 0 THEN pc' = "connect" /\ UNCHANGED nap
     ELSE nap' = Min({remaining, ShutdownPollTicks}) /\ UNCHANGED pc
  /\ UNCHANGED <<config, shutdown, next_delay, session, remaining, failures, shown, device>>

-----------------------------------------------------------------------------
(* run_session: poll, read one message or time out, poll again. *)

(* poll: the latest frame is written when its deadline has come; a write   *)
(* that fails or is short ends the program.                                *)
Wrote(p) == Due(p) /\ processor' = Written(p)
Poll(p, writes, next) ==
  /\ \/ ~Due(p) /\ processor' = p /\ pc' = next
     \/ Due(p) /\ processor' = Written(p) /\ pc' = next
     \/ Due(p) /\ processor' = p /\ Return("device_error")
  /\ IF Wrote(p)
     THEN /\ shown' = [device |-> device, jpeg |-> p.latest]
          /\ failures' = 0 /\ slot_writes' = Min({writes + 1, 2})
     ELSE UNCHANGED <<shown, failures>> /\ slot_writes' = writes

Top ==
  /\ pc = "top"
  /\ IF shutdown
     THEN Return("ok") /\ UNCHANGED <<processor, slot_writes, shown, failures>>
     ELSE Poll(processor, slot_writes, "read")
  /\ waited' = 0
  /\ UNCHANGED <<config, shutdown, next_delay, silence, pieces, offered, slot_age, delays, device>>

After ==
  /\ pc = "after"
  /\ Poll(processor, slot_writes, "top")
  /\ UNCHANGED <<config, shutdown, next_delay, silence, waited, pieces, offered, slot_age, delays,
                 device>>

(* A piece of a message keeps the socket's read going. *)
Piece ==
  /\ pc = "read" /\ pieces < MaxPieces
  /\ pieces' = pieces + 1 /\ waited' = 0
  /\ UNCHANGED <<pc, config, shutdown, next_delay, processor, silence, offered, slot_age,
                 slot_writes, delays, failures, shown, device>>

(* handle_text: the descriptor, and nothing else, comes as text. *)
HandleText(text) ==
  /\ pc = "read"
  /\ IF ~processor.descriptor /\ ValidDescriptor(text)
     THEN /\ processor' = [processor EXCEPT !.descriptor = TRUE]
          /\ silence' = 0 /\ pieces' = 0 /\ pc' = "after"
          /\ UNCHANGED <<next_delay, waited, offered, slot_age, slot_writes, delays, failures>>
     ELSE Retry
  /\ UNCHANGED <<config, shutdown, shown, device>>

(* handle_binary: a frame that is accepted replaces the latest; the first  *)
(* one starts the grid.  The delays start over once a frame was written.   *)
HandleBinary(jpeg) ==
  /\ pc = "read"
  /\ IF processor.descriptor /\ ValidJpeg(jpeg)
     THEN LET first == processor.next_write = NoDeadline
              p == [processor EXCEPT !.latest = jpeg,
                                     !.next_write = IF first THEN 0 ELSE @] IN
          /\ Poll(p, slot_writes, "after")
          /\ next_delay' = IF processor'.wrote THEN InitialDelay ELSE next_delay
          /\ slot_age' = IF first THEN 0 ELSE slot_age
          /\ offered' = jpeg /\ silence' = 0 /\ pieces' = 0
          /\ UNCHANGED <<waited, delays>>
     ELSE Retry /\ UNCHANGED shown
  /\ UNCHANGED <<config, shutdown, device>>

(* A ping, a pong or a bare frame; the answer may fail to be flushed. *)
HandlePing ==
  /\ pc = "read"
  /\ \/ /\ silence' = 0 /\ pc' = "after"
        /\ UNCHANGED <<next_delay, processor, waited, pieces, offered, slot_age, slot_writes,
                       delays, failures>>
     \/ Retry
  /\ UNCHANGED <<config, shutdown, shown, device>>

(* The server closes, the connection is lost, or a message is too long. *)
ConnectionEnds ==
  /\ pc = "read"
  /\ Disconnected \/ Retry
  /\ UNCHANGED <<config, shutdown, shown, device>>

(* The read timeout of the socket, and stream_timed_out. *)
ReadBlocks == FALSE
ReadGivesUp == waited >= Min({config.io, PollTicks})
TimedOutBeforeFrames == silence >= config.io /\ ~processor.wrote
TimedOut == silence >= config.io
ReadTimeout ==
  /\ pc = "read" /\ ReadGivesUp
  /\ IF TimedOut THEN Disconnected
     ELSE pc' = "after" /\ UNCHANGED <<next_delay, session, delays, failures>>
  /\ UNCHANGED <<config, shutdown, shown, device>>

-----------------------------------------------------------------------------
Signal ==
  /\ ~shutdown /\ pc # "start" /\ ~Ended
  /\ shutdown' = TRUE
  /\ UNCHANGED <<pc, config, next_delay, session, delays, failures, shown, device>>

(* Time passes.  A deadline two intervals back is as late as one interval  *)
(* back: next_periodic_deadline gives the same next slot for both.         *)
Later(deadline) ==
  CASE deadline = NoDeadline -> NoDeadline
    [] deadline <= -2 * FrameTicks -> deadline - 1 + FrameTicks
    [] OTHER -> deadline - 1
Tick ==
  /\ InSession \/ pc = "sleep"
  /\ processor' = [processor EXCEPT !.next_write = Later(@)]
  /\ silence' = IF InSession THEN Min({silence + 1, config.io}) ELSE silence
  /\ waited' = IF pc = "read" THEN Min({waited + 1, PollTicks}) ELSE waited
  /\ LET started == processor.next_write # NoDeadline IN
     /\ slot_age' = IF started THEN (slot_age + 1) % FrameTicks ELSE slot_age
     /\ slot_writes' = IF started /\ slot_age' = 0 THEN 0 ELSE slot_writes
  /\ remaining' = Max({remaining - 1, 0}) /\ nap' = Max({nap - 1, 0})
  /\ UNCHANGED <<pc, config, shutdown, next_delay, pieces, offered, failures, shown, device>>

Message ==
  \/ \E text \in Texts : HandleText(text)
  \/ \E jpeg \in Jpegs : HandleBinary(jpeg)
  \/ HandlePing
BridgeStep == Start \/ Connect \/ Sleep \/ Top \/ After \/ ReadTimeout

Next == BridgeStep \/ Message \/ Piece \/ ConnectionEnds \/ Signal \/ Tick

(* The thread runs and time passes; nothing makes the server send. *)
Spec == Init /\ [][Next]_vars /\ WF_vars(BridgeStep) /\ WF_vars(Tick)

-----------------------------------------------------------------------------
(* The variables have their types. *)
TypeOK ==
  /\ pc \in {"start", "connect", "sleep", "top", "read", "after", "ok", "config_error",
            "device_error"}
  /\ config \in Configs /\ shutdown \in BOOLEAN
  /\ processor \in [descriptor : BOOLEAN, latest : Jpegs \cup {None}, next_write : Int,
                    wrote : BOOLEAN]
  /\ {silence, waited, pieces, remaining, nap, next_delay, failures, slot_age, slot_writes}
       \subseteq Nat

(* "bridge_cadence_does_not_accumulate_poll_delay", "..._skips_missed_     *)
(* slots_without_a_burst" (tests of bridge.rs): however late the polls     *)
(* come, deadlines stay on the grid of the first frame, a slot gets at     *)
(* most one frame, and the bridge waits for the next slot only once it     *)
(* has filled the present one.                                             *)
SlotAccounting ==
  processor.next_write # NoDeadline =>
    /\ (slot_age + processor.next_write) % FrameTicks = 0
    /\ processor.next_write <= FrameTicks - slot_age
    /\ slot_writes = IF processor.next_write > 0 THEN 1 ELSE 0

(* What a slot shows is the last JPEG this session accepted, of the size   *)
(* and on a device of the format the descriptor promises: never a frame of *)
(* an earlier session, an older one or one that was rejected.              *)
ShowsTheLatestFrame ==
  [][slot_writes' = 1 /\ slot_writes # 1 =>
       /\ shown'.jpeg = offered' /\ Dimensions(shown'.jpeg) = FrameSize
       /\ shown'.device.size = FrameSize /\ processor'.descriptor]_vars

(* Two to the power of n. *)
Doubled[n \in Nat] == IF n = 0 THEN 1 ELSE 2 * Doubled[n - 1]

(* The next delay doubles with each attempt since a frame was last written *)
(* up to the maximum, and only a written frame starts it over: not a       *)
(* connection, a descriptor or a message that is rejected.                 *)
BackoffFollowsFailures ==
  InSession \/ pc \in {"connect", "sleep"} =>
    next_delay = Min({config.initial * Doubled[failures], config.max})

(* A signal ends the program wherever it meets it: in a delay, a session,  *)
(* or a read in which the server falls silent or sends without a pause.    *)
ShutdownEnds == shutdown ~> Ended

(* A server that falls silent in the middle of a session, or of a message, *)
(* loses the session.                                                      *)
SilenceEndsTheSession == []<>(~InSession) \/ []<><<Message>>_vars
=============================================================================
