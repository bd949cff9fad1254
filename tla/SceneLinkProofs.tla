--------------------------- MODULE SceneLinkProofs ---------------------------
(***************************************************************************)
(* Proofs about SceneLink, for any number of runs, segments, connections   *)
(* and starts of the Visualizer: no segment is refused and the scene       *)
(* accounts for every sequence number of its run.  Both follow from one    *)
(* inductive invariant, which orders what all connections still hold.      *)
(***************************************************************************)
EXTENDS SceneLink, SequenceTheorems, TLAPS

Lines(c) == 1..Len(conns[c].inbox)
Open(c) == conns[c].server \in {"header", "stream"}

(* The line of a later write may follow the one of an earlier. *)
Before(l, m) == l.run < m.run \/ (l.run = m.run /\ (m.sequence = 0 \/ l.sequence < m.sequence))
Shown == [run |-> exec.run, sequence |-> exec.segment]

(* The numbers of the segments the simulator holds, and its connection. *)
Simulator ==
  /\ {waiting, taken, last} \subseteq 0..MaxSequence /\ last < next_sequence
  /\ taken # 0 => last < taken /\ taken < next_sequence /\ header_written
  /\ waiting # 0 => taken < waiting /\ last < waiting /\ waiting < next_sequence
  /\ header_written => client # 0
  /\ client # 0 =>
       /\ client = opened
       /\ \A i \in Lines(client) : conns[client].inbox[i].run = run
       /\ conns[client].server \in {"backlog", "header"}
            => (header_written <=> conns[client].inbox # << >>)
       /\ conns[client].server = "stream" => header_written /\ exec.run = run

(* What a connection holds: a header first, increasing sequences, nothing  *)
(* the publisher has not counted as sent.                                  *)
Inboxes ==
  \A c \in Connection :
    /\ conns[c].server = "none" <=> c > opened
    /\ conns[c].server \in {"none", "closed"} => conns[c].inbox = << >>
    /\ conns[c].server \in {"backlog", "header"} /\ conns[c].inbox # << >>
         => conns[c].inbox[1].sequence = 0
    /\ \A i, j \in Lines(c) : i < j =>
         /\ conns[c].inbox[i].run = conns[c].inbox[j].run
         /\ conns[c].inbox[i].sequence < conns[c].inbox[j].sequence
    /\ \A i \in Lines(c) :
         \/ conns[c].inbox[i].run < run
         \/ conns[c].inbox[i].run = run /\ conns[c].inbox[i].sequence <= last

(* Lines of an older connection come before those of a newer one. *)
InOrder ==
  \A c, d \in Connection : c < d =>
    \A i \in Lines(c), j \in Lines(d) : Before(conns[c].inbox[i], conns[d].inbox[j])

(* One connection is read at a time, and older ones before newer ones. *)
Handlers ==
  /\ \A c, d \in Connection : Open(c) /\ Open(d) => c = d
  /\ \A c, d \in Connection : Open(c) /\ conns[d].server = "backlog" => c < d
  /\ active <=> \E c \in Connection : Open(c)
  /\ (\E c \in Connection : conns[c].server = "stream") => exec.connected
  /\ exec.connected =>
       (\E c \in Connection : conns[c].server = "stream") \/ Raises(exec, last_frame)

(* What is shown comes before everything that can still be read. *)
Scene ==
  /\ exec.segment = received + exec.missing
  /\ received = 0 => exec.segment = 0
  /\ exec.run <= run
  /\ exec.run = run => exec.segment <= last
  /\ \A c \in Connection : \A i \in Lines(c) :
       /\ conns[c].server = "stream" => /\ conns[c].inbox[i].run = exec.run
                                        /\ conns[c].inbox[i].sequence > exec.segment
       /\ conns[c].server # "stream" => Before(Shown, conns[c].inbox[i])
  /\ records_rejected = 0

IInv == LinkTypeOK /\ Simulator /\ Inboxes /\ InOrder /\ Handlers /\ Scene

-----------------------------------------------------------------------------
(* Conn is what conns holds for a connection. *)
Conn == [server : {"none", "backlog", "header", "stream", "closed"},
         end : {"open", "fin", "silent"}, inbox : Seq(Line), partial : 0..MaxSequence]

(* A line is appended, or the first one read. *)
LEMMA AppendFacts ==
  ASSUME NEW s \in Seq(Line), NEW line \in Line
  PROVE  /\ Append(s, line) \in Seq(Line) /\ Append(s, line) # << >>
         /\ Len(Append(s, line)) = Len(s) + 1
         /\ \A i \in 1..Len(s) : Append(s, line)[i] = s[i]
         /\ Append(s, line)[Len(s) + 1] = line
  OBVIOUS

LEMMA TailFacts ==
  ASSUME NEW s \in Seq(Line), s # << >>
  PROVE  /\ Head(s) = s[1] /\ Head(s) \in Line
         /\ Tail(s) \in Seq(Line) /\ Len(Tail(s)) = Len(s) - 1
         /\ \A i \in 1..Len(Tail(s)) : Tail(s)[i] = s[i + 1]
         /\ Len(s) \in Nat \ {0} /\ 1 \in 1..Len(s)
  OBVIOUS

(* What the types say of a connection and of its lines. *)
LEMMA ConnFacts ==
  ASSUME LinkTypeOK, NEW c \in Connection
  PROVE  /\ conns[c] \in Conn /\ conns[c].inbox \in Seq(Line) /\ Len(conns[c].inbox) \in Nat
         /\ \A i \in Lines(c) : /\ conns[c].inbox[i] \in Line
                                /\ conns[c].inbox[i].run \in 1..MaxRuns
                                /\ conns[c].inbox[i].sequence \in 0..MaxSequence
<1>1. conns[c] \in Conn
  BY DEF LinkTypeOK, Conn
<1>2. conns[c].inbox \in Seq(Line) /\ Len(conns[c].inbox) \in Nat
  BY <1>1 DEF Conn
<1>3. \A i \in Lines(c) : conns[c].inbox[i] \in Line
  BY <1>2 DEF Lines
<1>4. QED
  BY <1>1, <1>2, <1>3 DEF Line

LEMMA InitInvariant == LinkInit => IInv
<1> SUFFICES ASSUME LinkInit PROVE IInv
  OBVIOUS
<1>1. \A c \in Connection : /\ conns[c] = NoConnection /\ conns[c].server = "none"
                            /\ conns[c].inbox = << >> /\ Len(conns[c].inbox) = 0
  BY DEF LinkInit, NoConnection
<1>2. NoConnection \in Conn
  BY LinkAssumption DEF NoConnection, Conn, Line
<1>3. LinkTypeOK
  <2>1. conns \in [Connection -> Conn]
    BY <1>2 DEF LinkInit
  <2>2. exec \in [run : 0..MaxRuns, segment : 0..MaxSequence, connected : BOOLEAN,
                  missing : 0..(MaxSequence - 1)]
    BY LinkAssumption DEF LinkInit, NoExecution
  <2>0. MaxRuns \in Nat \ {0} /\ MaxVisualizers \in Nat \ {0} /\ MaxConnections \in Nat
        /\ MaxSequence \in Nat
    BY LinkAssumption
  <2>3. /\ run \in 1..MaxRuns /\ next_sequence \in 1..(MaxSequence + 1)
        /\ client \in 0..opened /\ opened \in 0..MaxConnections
        /\ visualizers \in 1..MaxVisualizers
        /\ records_rejected \in Nat /\ received \in 0..MaxSequence
    BY <2>0 DEF LinkInit
  <2>4. header_written \in BOOLEAN /\ active \in BOOLEAN /\ last_frame \in BOOLEAN
    BY DEF LinkInit
  <2>5. QED
    BY <2>1, <2>2, <2>3, <2>4 DEF LinkTypeOK, Conn
<1>4. Simulator
  BY LinkAssumption DEF LinkInit, Init, Simulator
<1>5. Inboxes /\ InOrder
  BY <1>1 DEF LinkInit, Inboxes, InOrder, Lines, Connection
<1>6. Handlers
  BY <1>1 DEF LinkInit, Handlers, Open, NoExecution
<1>7. Scene
  BY <1>1 DEF LinkInit, Scene, Lines, NoExecution, Init
<1>8. QED
  BY <1>3, <1>4, <1>5, <1>6, <1>7 DEF IInv

-----------------------------------------------------------------------------
(* Steps of the simulator that leave the connections alone. *)

LEMMA QuietStep ==
  ASSUME IInv,
         UNCHANGED <<run, last, opened, conns, active, exec, records_rejected, received, last_frame>>
  PROVE  Inboxes' /\ InOrder' /\ Handlers' /\ Scene'
<1>1. Inboxes'
  BY DEF IInv, Inboxes, Lines
<1>2. InOrder'
  BY DEF IInv, InOrder, Lines, Before
<1>3. Handlers'
  BY DEF IInv, Handlers, Open
<1>4. Scene'
  BY DEF IInv, Scene, Lines, Before, Shown
<1>5. QED
  BY <1>1, <1>2, <1>3, <1>4

LEMMA PublishInvariant == IInv /\ Publish => IInv'
<1> SUFFICES ASSUME IInv, Publish PROVE IInv'
  OBVIOUS
<1>1. UNCHANGED <<run, last, opened, conns, active, exec, records_rejected, received, last_frame>>
  BY DEF Publish, Offer, visualizer
<1>2. LinkTypeOK'
  <2>1. next_sequence' \in 1..(MaxSequence + 1)
    BY LinkAssumption DEF IInv, LinkTypeOK, Publish
  <2>2. QED
    BY <2>1 DEF IInv, LinkTypeOK, Publish, visualizer, Connection, Line
<1>3. /\ next_sequence \in 1..(MaxSequence + 1) /\ MaxSequence \in Nat
      /\ next_sequence <= MaxSequence /\ next_sequence' = next_sequence + 1
      /\ waiting' = next_sequence
      /\ UNCHANGED <<taken, last, header_written, client, run, conns, exec, opened>>
  BY LinkAssumption DEF IInv, LinkTypeOK, Publish, Offer, visualizer
<1>4. Simulator'
  <2>1. /\ {waiting', taken', last'} \subseteq 0..MaxSequence /\ last' < next_sequence'
        /\ taken' # 0 => last' < taken' /\ taken' < next_sequence'
        /\ waiting' # 0 => taken' < waiting' /\ last' < waiting' /\ waiting' < next_sequence'
    BY <1>3 DEF IInv, Simulator
  <2>2. QED
    BY <1>3, <2>1 DEF IInv, Simulator, Lines
<1>5. QED
  BY <1>1, <1>2, <1>4, QuietStep DEF IInv

LEMMA TakeInvariant == IInv /\ TakeSegment => IInv'
<1> SUFFICES ASSUME IInv, TakeSegment PROVE IInv'
  OBVIOUS
<1>1. UNCHANGED <<run, last, opened, conns, active, exec, records_rejected, received, last_frame>>
  BY DEF TakeSegment, Take, link, simulator, visualizer
<1>2. LinkTypeOK'
  BY DEF IInv, LinkTypeOK, TakeSegment, link, simulator, visualizer, Connection, Line
<1>3. Simulator'
  BY DEF IInv, Simulator, TakeSegment, Take, link, simulator, visualizer, Lines
<1>4. QED
  BY <1>1, <1>2, <1>3, QuietStep DEF IInv

LEMMA EncodeInvariant == IInv /\ EncodeFails => IInv'
<1> SUFFICES ASSUME IInv, EncodeFails PROVE IInv'
  OBVIOUS
<1>1. UNCHANGED <<run, last, opened, conns, active, exec, records_rejected, received, last_frame>>
  BY DEF EncodeFails, Lose, link, simulator, visualizer
<1>2. LinkTypeOK'
  BY DEF IInv, LinkTypeOK, EncodeFails, link, simulator, visualizer, Connection, Line
<1>3. Simulator'
  <2>1. taken' = 0 /\ UNCHANGED <<waiting, last, client, header_written, run, conns, exec, opened,
                                  next_sequence>>
    BY DEF EncodeFails, Lose, link, simulator, visualizer
  <2>2. {waiting, taken, last, next_sequence} \subseteq Nat /\ taken' \in 0..MaxSequence
    BY <2>1, LinkAssumption DEF IInv, Simulator, LinkTypeOK
  <2>3. waiting' # 0 => taken' < waiting' /\ last' < waiting' /\ waiting' < next_sequence'
    BY <2>1, <2>2 DEF IInv, Simulator
  <2>4. QED
    BY <2>1, <2>2, <2>3 DEF IInv, Simulator, Lines
<1>4. QED
  BY <1>1, <1>2, <1>3, QuietStep DEF IInv

-----------------------------------------------------------------------------
(* Steps that change one connection. *)

LEMMA UpdateFacts ==
  ASSUME LinkTypeOK, NEW c \in Connection, NEW k \in Conn, conns' = [conns EXCEPT ![c] = k]
  PROVE  /\ conns' \in [Connection -> Conn] /\ conns'[c] = k
         /\ \A d \in Connection \ {c} : conns'[d] = conns[d]
  BY DEF LinkTypeOK, Conn

LEMMA ConnectInvariant == IInv /\ Connect => IInv'
<1> SUFFICES ASSUME IInv, Connect PROVE IInv'
  OBVIOUS
<1> DEFINE c == opened + 1
<1>1. /\ c \in Connection /\ conns' = [conns EXCEPT ![c] = NewConnection]
      /\ opened \in 0..MaxConnections /\ opened' = c /\ client = 0 /\ client' = c
      /\ UNCHANGED <<run, next_sequence, header_written, waiting, taken, last,
                     active, exec, records_rejected, received, last_frame, visualizers>>
  <2>1. opened \in 0..MaxConnections /\ c \in Connection
    BY LinkAssumption DEF IInv, LinkTypeOK, Connect, Connection
  <2>2. QED
    BY <2>1 DEF Connect, vars, visualizer
<1>2. NewConnection \in Conn /\ NewConnection.server = "backlog" /\ NewConnection.inbox = << >>
  <2>1. << >> \in Seq(Line) /\ 0 \in 0..MaxSequence
    BY LinkAssumption
  <2>2. QED
    BY <2>1 DEF NewConnection, NoConnection, Conn
<1>3. conns[c].server = "none" /\ conns[c].inbox = << >>
  BY <1>1 DEF IInv, Inboxes
<1>4. /\ conns' \in [Connection -> Conn] /\ conns'[c] = NewConnection
      /\ \A d \in Connection \ {c} : conns'[d] = conns[d]
  BY <1>1, <1>2, UpdateFacts DEF IInv
<1>5. /\ \A d \in Connection : Lines(d)' = Lines(d) /\ conns'[d].inbox = conns[d].inbox
      /\ Lines(c) = {}
  BY <1>2, <1>3, <1>4 DEF Lines
<1>6. LinkTypeOK'
  <2>1. client' \in 0..opened' /\ opened' \in 0..MaxConnections
    BY <1>1 DEF Connection
  <2>2. QED
    BY <1>1, <1>4, <2>1 DEF IInv, LinkTypeOK, Conn, Line, Connection
<1>7. Simulator'
  BY <1>1, <1>2, <1>4, <1>5 DEF IInv, Simulator, Lines
<1>8. Inboxes'
  <2>1. \A d \in Connection : conns'[d].server = "none" <=> d > opened'
    BY <1>1, <1>2, <1>4 DEF IInv, Inboxes, Connection
  <2>2. QED
    BY <1>1, <1>2, <1>4, <1>5, <2>1 DEF IInv, Inboxes
<1>9. InOrder'
  BY <1>1, <1>5 DEF IInv, InOrder, Before
<1>10. Handlers'
  <2>1. \A d \in Connection : /\ Open(d)' <=> Open(d)
                              /\ conns'[d].server = "stream" <=> conns[d].server = "stream"
                              /\ Open(d) => d < c
    BY <1>1, <1>2, <1>3, <1>4 DEF Open, IInv, Inboxes, Connection
  <2>2. \A d \in Connection : conns'[d].server = "backlog" => conns[d].server = "backlog" \/ d = c
    BY <1>4
  <2>3. QED
    BY <1>1, <2>1, <2>2 DEF IInv, Handlers
<1>11. Scene'
  BY <1>1, <1>4, <1>5 DEF IInv, Scene, Before, Shown
<1>12. QED
  BY <1>6, <1>7, <1>8, <1>9, <1>10, <1>11 DEF IInv

(* A line of this run is written where the server still reads it. *)
LEMMA AppendStep ==
  ASSUME IInv, NEW line \in Line, client # 0, conns[client].server # "closed",
         line.run = run, line.sequence = 0 \/ last < line.sequence,
         last' \in 0..MaxSequence, last <= last', line.sequence <= last',
         conns' = [conns EXCEPT ![client].inbox = Append(@, line)],
         conns[client].inbox # << >> \/ conns[client].server = "stream" => last < line.sequence,
         conns[client].inbox = << >> /\ conns[client].server # "stream" => line.sequence = 0,
         UNCHANGED <<run, client, opened, active, exec, records_rejected, received, last_frame>>
  PROVE  /\ conns' \in [Connection -> Conn] /\ Inboxes' /\ InOrder' /\ Handlers' /\ Scene'
         /\ conns'[client].server = conns[client].server /\ conns'[client].inbox # << >>
         /\ \A i \in Lines(client)' : conns'[client].inbox[i].run = run
<1> DEFINE s == conns[client].inbox
<1> DEFINE k == [conns[client] EXCEPT !.inbox = Append(s, line)]
<1>1. /\ client \in Connection /\ client = opened /\ s \in Seq(Line) /\ Len(s) \in Nat
      /\ run \in Nat /\ last \in 0..MaxSequence /\ MaxSequence \in Nat
      /\ \A i \in Lines(client) : s[i].run = run
      /\ line.run \in Nat /\ line.sequence \in Nat
  <2>1. client \in Connection /\ client = opened
    <3>1. client = opened
      BY DEF IInv, Simulator
    <3>2. opened \in 0..MaxConnections
      BY DEF IInv, LinkTypeOK
    <3>3. QED
      BY <3>1, <3>2, LinkAssumption DEF Connection
  <2>2. s \in Seq(Line) /\ Len(s) \in Nat
    BY <2>1, ConnFacts DEF IInv
  <2>3. run \in Nat /\ last \in 0..MaxSequence /\ MaxSequence \in Nat /\ MaxRuns \in Nat
    <3>1. run \in 1..MaxRuns
      BY DEF IInv, LinkTypeOK
    <3>2. last \in 0..MaxSequence
      BY DEF IInv, Simulator
    <3>3. QED
      BY <3>1, <3>2, LinkAssumption
  <2>4. line.run \in Nat /\ line.sequence \in Nat
    BY <2>3 DEF Line
  <2>5. QED
    BY <2>1, <2>2, <2>3, <2>4 DEF IInv, Simulator
<1>2. /\ Append(s, line) \in Seq(Line) /\ Append(s, line) # << >>
      /\ Len(Append(s, line)) = Len(s) + 1
      /\ \A i \in 1..Len(s) : Append(s, line)[i] = s[i]
      /\ Append(s, line)[Len(s) + 1] = line
  BY <1>1, AppendFacts
<1>3. k \in Conn /\ k.server = conns[client].server /\ k.inbox = Append(s, line)
  BY <1>1, <1>2, ConnFacts DEF IInv, Conn
<1>4. /\ conns' \in [Connection -> Conn] /\ conns'[client] = k
      /\ \A d \in Connection \ {client} : conns'[d] = conns[d]
  BY <1>1, <1>3, UpdateFacts DEF IInv
<1>5. /\ \A d \in Connection : conns'[d].server = conns[d].server
      /\ \A d \in Connection \ {client} : conns'[d].inbox = conns[d].inbox /\ Lines(d)' = Lines(d)
      /\ Lines(client) = 1..Len(s) /\ Lines(client)' = 1..(Len(s) + 1)
      /\ Lines(client)' = Lines(client) \cup {Len(s) + 1}
      /\ \A i \in Lines(client) : conns'[client].inbox[i] = s[i] /\ i < Len(s) + 1
      /\ conns'[client].inbox[Len(s) + 1] = line
  <2>1. conns'[client].inbox = Append(s, line) /\ conns'[client].server = conns[client].server
    BY <1>3, <1>4
  <2>2. \A d \in Connection \ {client} : conns'[d].inbox = conns[d].inbox /\ Lines(d)' = Lines(d)
    BY <1>4 DEF Lines
  <2>3. Lines(client) = 1..Len(s) /\ Lines(client)' = 1..(Len(s) + 1)
    BY <1>2, <2>1 DEF Lines
  <2>4. \A i \in 1..Len(s) : i < Len(s) + 1
    BY <1>1
  <2>5. 1..(Len(s) + 1) = 1..Len(s) \cup {Len(s) + 1}
    BY <1>1
  <2>6. \A d \in Connection : conns'[d].server = conns[d].server
    BY <1>4, <2>1
  <2>7. QED
    BY <1>2, <2>1, <2>2, <2>3, <2>4, <2>5, <2>6
<1>6. \A d \in Connection : \A i \in Lines(d) :
        /\ conns[d].inbox[i].run \in Nat /\ conns[d].inbox[i].sequence \in Nat
        /\ conns[d].inbox[i].run < run
             \/ (conns[d].inbox[i].run = run /\ conns[d].inbox[i].sequence <= last)
  BY LinkAssumption, ConnFacts DEF IInv, Inboxes
<1>7. \A i \in Lines(client) : s[i].sequence < line.sequence
  <2>1. CASE s = << >>
    BY <2>1 DEF Lines
  <2>2. CASE s # << >>
    <3>1. TAKE i \in Lines(client)
    <3>2. s[i].run = run
      BY Zenon, <1>1
    <3>3. s[i].sequence \in Nat /\ (s[i].run < run \/ s[i].sequence <= last)
      BY Zenon, <1>1, <1>6
    <3>4. run \in Nat /\ last \in Nat /\ line.sequence \in Nat
      BY <1>1
    <3>5. last < line.sequence
      BY Zenon, <2>2
    <3> HIDE DEF s
    <3>6. ~(s[i].run < run)
      BY <3>2, <3>4
    <3>7. QED
      BY <3>3, <3>4, <3>5, <3>6
  <2>3. QED
    BY <2>1, <2>2
<1>8. Inboxes'
  <2>1. \A c \in Connection \ {client} :
          /\ conns'[c].server = "none" <=> c > opened'
          /\ conns'[c].server \in {"none", "closed"} => conns'[c].inbox = << >>
          /\ conns'[c].server \in {"backlog", "header"} /\ conns'[c].inbox # << >>
               => conns'[c].inbox[1].sequence = 0
          /\ \A i, j \in Lines(c)' : i < j =>
               /\ conns'[c].inbox[i].run = conns'[c].inbox[j].run
               /\ conns'[c].inbox[i].sequence < conns'[c].inbox[j].sequence
          /\ \A i \in Lines(c)' :
               \/ conns'[c].inbox[i].run < run'
               \/ conns'[c].inbox[i].run = run' /\ conns'[c].inbox[i].sequence <= last'
    <3> TAKE c \in Connection \ {client}
    <3>1. \A i \in Lines(c) : \/ conns[c].inbox[i].run < run
                              \/ conns[c].inbox[i].run = run /\ conns[c].inbox[i].sequence <= last'
      BY <1>1, <1>6
    <3>2. /\ conns'[c].server = conns[c].server /\ conns'[c].inbox = conns[c].inbox
          /\ Lines(c)' = Lines(c) /\ opened' = opened /\ run' = run
      BY Zenon, <1>5
    <3>3. /\ conns[c].server = "none" <=> c > opened
          /\ conns[c].server \in {"none", "closed"} => conns[c].inbox = << >>
          /\ conns[c].server \in {"backlog", "header"} /\ conns[c].inbox # << >>
               => conns[c].inbox[1].sequence = 0
          /\ \A i, j \in Lines(c) : i < j =>
               /\ conns[c].inbox[i].run = conns[c].inbox[j].run
               /\ conns[c].inbox[i].sequence < conns[c].inbox[j].sequence
      BY DEF IInv, Inboxes
    <3>4. QED
      BY <3>1, <3>2, <3>3
  <2>2. conns'[client].server = "none" <=> client > opened'
    BY <1>1, <1>5 DEF IInv, Inboxes
  <2>3. conns'[client].server \notin {"none", "closed"}
    <3>1. ~(client > opened) /\ opened' = opened
      BY <1>1, LinkAssumption DEF IInv, LinkTypeOK
    <3>2. QED
      BY <1>1, <1>5, <2>2, <3>1
  <2>4. conns'[client].server \in {"backlog", "header"} => conns'[client].inbox[1].sequence = 0
    <3>1. CASE s = << >>
      BY <1>1, <1>5, <3>1
    <3>2. CASE s # << >>
      <4>1. 1 \in Lines(client)
        BY <1>1, <3>2, TailFacts DEF Lines
      <4>2. QED
        BY <1>1, <1>5, <3>2, <4>1 DEF IInv, Inboxes
    <3>3. QED
      BY <3>1, <3>2
  <2>5. \A i, j \in Lines(client)' : i < j =>
               /\ conns'[client].inbox[i].run = conns'[client].inbox[j].run
               /\ conns'[client].inbox[i].sequence < conns'[client].inbox[j].sequence
    <3>1. \A i, j \in Lines(client) : i < j => s[i].run = s[j].run /\ s[i].sequence < s[j].sequence
      BY <1>1 DEF IInv, Inboxes
    <3>2. \A j \in Lines(client) : ~(Len(s) + 1 < j)
      BY <1>1, <1>5
    <3>3. \A i, j \in Lines(client) : i < j =>
            /\ conns'[client].inbox[i].run = conns'[client].inbox[j].run
            /\ conns'[client].inbox[i].sequence < conns'[client].inbox[j].sequence
      BY <1>5, <3>1
    <3>4. \A i \in Lines(client) : 
            /\ conns'[client].inbox[i].run = line.run
            /\ conns'[client].inbox[i].sequence < line.sequence
      BY <1>1, <1>5, <1>7
    <3>5. ~(Len(s) + 1 < Len(s) + 1)
      BY <1>1
    <3> DEFINE box == conns'[client].inbox
               new == Len(s) + 1
    <3>6. box[new] = line /\ Lines(client)' = Lines(client) \cup {new}
      BY Zenon, <1>5
    <3> HIDE DEF box, new
    <3>7. ASSUME NEW i \in Lines(client)', NEW j \in Lines(client)', i < j
          PROVE  box[i].run = box[j].run /\ box[i].sequence < box[j].sequence
      <4>1. i # new \/ j # new
        BY <3>5, <3>7 DEF new
      <4>2. CASE i = new
        BY <3>2, <3>6, <3>7, <4>1, <4>2 DEF new
      <4>3. CASE i # new /\ j = new
        <5>1. i \in Lines(client)
          BY <3>6, <4>3
        <5>2. box[i].run = line.run /\ box[i].sequence < line.sequence
          BY <3>4, <5>1 DEF box
        <5>3. QED
          BY <3>6, <4>3, <5>2
      <4>4. CASE i # new /\ j # new
        <5>1. i \in Lines(client) /\ j \in Lines(client)
          BY <3>6, <4>4
        <5>2. QED
          BY <3>3, <3>7, <5>1 DEF box
      <4>5. QED
        BY <4>2, <4>3, <4>4
    <3>8. QED
      BY <3>7 DEF box
  <2>6. \A i \in Lines(client)' : conns'[client].inbox[i].run = run
                                  /\ conns'[client].inbox[i].sequence <= last'
    <3>1. \A i \in Lines(client) : s[i].run = run /\ s[i].sequence <= last'
      <4>1. TAKE i \in Lines(client)
      <4>2. s[i].run = run
        BY Zenon, <1>1
      <4>3. s[i].sequence \in Nat /\ (s[i].run < run \/ s[i].sequence <= last)
        BY Zenon, <1>1, <1>6
      <4>4. run \in Nat /\ last \in Nat /\ last' \in Nat /\ last <= last'
        BY <1>1
      <4> HIDE DEF s
      <4>5. ~(s[i].run < run)
        BY <4>2, <4>4
      <4>6. QED
        BY <4>2, <4>3, <4>4, <4>5
    <3>2. line.run = run /\ line.sequence <= last'
      OBVIOUS
    <3>3. QED
      BY <1>5, <3>1, <3>2
  <2>7. /\ client' = client /\ run' = run
        /\ \A i \in Lines(client)' : conns'[client].inbox[i].run = run'
                                   /\ conns'[client].inbox[i].sequence <= last'
    BY <2>6
  <2>8. ASSUME NEW c \in Connection, c = client
        PROVE  /\ conns'[c].server = "none" <=> c > opened'
               /\ conns'[c].server \notin {"none", "closed"}
               /\ conns'[c].server \in {"backlog", "header"} => conns'[c].inbox[1].sequence = 0
               /\ Lines(c)' = Lines(client)'
    BY <2>2, <2>3, <2>4, <2>7, <2>8 DEF Lines
  <2>9. ASSUME NEW c \in Connection, c = client
        PROVE  /\ \A i, j \in Lines(c)' : i < j =>
                    /\ conns'[c].inbox[i].run = conns'[c].inbox[j].run
                    /\ conns'[c].inbox[i].sequence < conns'[c].inbox[j].sequence
               /\ \A i \in Lines(c)' :
                    \/ conns'[c].inbox[i].run < run'
                    \/ conns'[c].inbox[i].run = run' /\ conns'[c].inbox[i].sequence <= last'
    <3>1. \A i, j \in Lines(c)' : i < j =>
            /\ conns'[c].inbox[i].run = conns'[c].inbox[j].run
            /\ conns'[c].inbox[i].sequence < conns'[c].inbox[j].sequence
      <4> DEFINE q == conns'[client].inbox
      <4>1. \A i, j \in Lines(client)' : i < j => q[i].run = q[j].run /\ q[i].sequence < q[j].sequence
        BY <2>5
      <4>2. q = conns'[c].inbox /\ Lines(c)' = Lines(client)'
        BY <2>7, <2>8, <2>9
      <4>3. ASSUME NEW i \in Lines(c)', NEW j \in Lines(c)', i < j
            PROVE  /\ conns'[c].inbox[i].run = conns'[c].inbox[j].run
                   /\ conns'[c].inbox[i].sequence < conns'[c].inbox[j].sequence
        <5>1. i \in Lines(client)' /\ j \in Lines(client)'
          BY <4>2, <4>3
        <5>2. q[i].run = q[j].run /\ q[i].sequence < q[j].sequence
          BY <4>1, <4>3, <5>1
        <5>3. QED
          BY <4>2, <5>2
      <4>4. QED
        BY <4>3
    <3>2. \A i \in Lines(c)' : conns'[c].inbox[i].run = run' /\ conns'[c].inbox[i].sequence <= last'
      BY <2>7, <2>8, <2>9
    <3>3. QED
      BY <3>1, <3>2
  <2>10. QED
    BY <2>1, <2>8, <2>9 DEF Inboxes
<1>9. InOrder'
  <2>1. \A d \in Connection : client < d => Lines(d)' = {}
    <3>1. \A d \in Connection : client < d => d \in Connection \ {client} /\ d > opened
      BY <1>1 DEF Connection
    <3>2. \A d \in Connection : client < d => conns[d].inbox = << >>
      BY <3>1 DEF IInv, Inboxes
    <3>3. QED
      BY <1>5, <3>1, <3>2 DEF Lines
  <2>2. \A d \in Connection : \A i \in Lines(d) : Before(conns[d].inbox[i], line)
    BY <1>1, <1>6 DEF Before
  <2>3. \A d \in Connection : d < client => d \in Connection \ {client}
    BY <1>1 DEF Connection
  <2>4. ASSUME NEW c \in Connection, NEW d \in Connection, c < d,
               NEW i \in Lines(c)', NEW j \in Lines(d)'
        PROVE  Before(conns'[c].inbox[i], conns'[d].inbox[j])
    <3>1. c # client
      BY <2>1, <2>4
    <3>2. i \in Lines(c) /\ conns'[c].inbox[i] = conns[c].inbox[i]
      BY <1>5, <2>4, <3>1
    <3>3. CASE d # client
      BY <1>5, <2>4, <3>2, <3>3 DEF IInv, InOrder
    <3>4. CASE d = client
      <4>1. CASE j \in Lines(client)
        BY <1>5, <2>4, <3>2, <3>4, <4>1 DEF IInv, InOrder
      <4>2. CASE j = Len(s) + 1
        BY <1>5, <2>2, <3>2, <3>4, <4>2
      <4>3. j \in Lines(client) \/ j = Len(s) + 1
        BY <1>5, <2>4, <3>4
      <4>4. QED
        BY <4>1, <4>2, <4>3
    <3>5. QED
      BY <3>3, <3>4
  <2>5. QED
    BY <2>4 DEF InOrder, Before
<1>10. Handlers'
  BY <1>5 DEF IInv, Handlers, Open
<1>11. Scene'
  <2>1. /\ exec'.segment = received' + exec'.missing /\ (received' = 0 => exec'.segment = 0)
        /\ exec'.run <= run' /\ records_rejected' = 0
    BY DEF IInv, Scene
  <2>2. exec'.run = run' => exec'.segment <= last'
    <3>1. exec.segment \in Nat
      BY <1>1 DEF IInv, LinkTypeOK
    <3>2. QED
      BY <1>1, <3>1 DEF IInv, Scene
  <2>3. \A c \in Connection \ {client} : \A i \in Lines(c)' :
          /\ conns'[c].server = "stream" => /\ conns'[c].inbox[i].run = exec'.run
                                            /\ conns'[c].inbox[i].sequence > exec'.segment
          /\ conns'[c].server # "stream" => Before(Shown, conns'[c].inbox[i])
    BY <1>5 DEF IInv, Scene
  <2>4. \A i \in Lines(client) :
          /\ conns'[client].server = "stream" => s[i].run = exec.run /\ s[i].sequence > exec.segment
          /\ conns'[client].server # "stream" => Before(Shown, s[i])
    BY <1>1, <1>5 DEF IInv, Scene
  <2>5. exec.run \in Nat /\ exec.segment \in Nat /\ exec.run <= run
        /\ (exec.run = run => exec.segment <= last)
    BY <1>1, LinkAssumption DEF IInv, LinkTypeOK, Scene
  <2>6. conns'[client].server = "stream" => line.run = exec.run /\ line.sequence > exec.segment
    <3>1. conns'[client].server = "stream" => exec.run = run /\ last < line.sequence
      BY <1>1, <1>5 DEF IInv, Simulator
    <3>2. QED
      BY <1>1, <2>5, <3>1
  <2>7. Before(Shown, line)
    BY <1>1, <2>5 DEF Before, Shown
  <2>8. Shown' = Shown
    BY DEF Shown
  <2>9. \A i \in Lines(client)' :
          /\ conns'[client].server = "stream" => /\ conns'[client].inbox[i].run = exec'.run
                                                 /\ conns'[client].inbox[i].sequence > exec'.segment
          /\ conns'[client].server # "stream" => Before(Shown, conns'[client].inbox[i])
    BY <1>5, <2>4, <2>6, <2>7
  <2>10. \A c \in Connection : \A i \in Lines(c)' :
          /\ conns'[c].server = "stream" => /\ conns'[c].inbox[i].run = exec'.run
                                            /\ conns'[c].inbox[i].sequence > exec'.segment
          /\ conns'[c].server # "stream" => Before(Shown, conns'[c].inbox[i])
    BY <2>3, <2>9
  <2>11. QED
    BY <2>1, <2>2, <2>8, <2>10 DEF Scene, Before
<1>12. \A i \in Lines(client)' : conns'[client].inbox[i].run = run
  BY <1>1, <1>5
<1>13. conns'[client].server = conns[client].server /\ conns'[client].inbox # << >>
  BY <1>1, <1>2, <1>3, <1>4
<1>14. QED
  BY <1>4, <1>8, <1>9, <1>10, <1>11, <1>12, <1>13

LEMMA WriteHeaderInvariant == IInv /\ WriteHeader => IInv'
<1> SUFFICES ASSUME IInv, WriteHeader PROVE IInv'
  OBVIOUS
<1> DEFINE line == [run |-> run, sequence |-> 0]
<1>1. /\ client # 0 /\ ~header_written /\ header_written' = TRUE
      /\ conns' = [conns EXCEPT ![client].inbox =
                     IF conns[client].server = "closed" THEN @ ELSE Append(@, line)]
      /\ UNCHANGED <<run, next_sequence, client, opened, waiting, taken, last,
                     visualizers, active, exec, records_rejected, received, last_frame>>
  BY DEF WriteHeader, Write, vars, visualizer
<1>2. /\ client \in Connection /\ line \in Line /\ line.run = run /\ line.sequence = 0
      /\ last \in 0..MaxSequence /\ last <= last
  <2>1. client = opened /\ opened \in 0..MaxConnections
    BY <1>1 DEF IInv, Simulator, LinkTypeOK
  <2>2. run \in 1..MaxRuns /\ 0 \in 0..MaxSequence
    BY LinkAssumption DEF IInv, LinkTypeOK
  <2>3. last \in 0..MaxSequence
    BY DEF IInv, Simulator
  <2>4. QED
    BY <1>1, <2>1, <2>2, <2>3, LinkAssumption DEF Connection, Line
<1>3. CASE conns[client].server = "closed"
  <2>1. conns' = conns
    BY <1>1, <1>2, <1>3 DEF IInv, LinkTypeOK
  <2>2. LinkTypeOK'
    BY <1>1, <2>1 DEF IInv, LinkTypeOK, Connection, Line
  <2>3. Simulator'
    BY <1>1, <1>3, <2>1 DEF IInv, Simulator, Lines
  <2>4. QED
    BY <1>1, <2>1, <2>2, <2>3, QuietStep DEF IInv
<1>4. CASE conns[client].server # "closed"
  <2>1. conns' = [conns EXCEPT ![client].inbox = Append(@, line)]
    BY <1>1, <1>4
  <2>2. /\ conns[client].server \in {"backlog", "header"}
        /\ conns[client].inbox = << >>
    <3>1. conns[client].server # "none"
      <4>1. client = opened /\ opened \in 0..MaxConnections
        BY <1>1 DEF IInv, Simulator, LinkTypeOK
      <4>2. ~(client > opened)
        BY <4>1
      <4>3. QED
        BY <1>2, <4>2 DEF IInv, Inboxes
    <3>2. conns[client].server # "stream"
      BY <1>1 DEF IInv, Simulator
    <3>3. conns[client].server \in {"backlog", "header"}
      BY <1>2, <1>4, <3>1, <3>2, ConnFacts DEF IInv, Conn
    <3>4. QED
      BY <1>1, <3>3 DEF IInv, Simulator
  <2>3. line.sequence <= last' /\ last' = last /\ last <= last' /\ last' \in 0..MaxSequence
    BY <1>1, <1>2
  <2>4. /\ conns' \in [Connection -> Conn] /\ Inboxes' /\ InOrder' /\ Handlers' /\ Scene'
        /\ conns'[client].server = conns[client].server /\ conns'[client].inbox # << >>
        /\ \A i \in Lines(client)' : conns'[client].inbox[i].run = run
    BY <1>1, <1>2, <1>4, <2>1, <2>2, <2>3, AppendStep
  <2>5. LinkTypeOK'
    BY <1>1, <2>4 DEF IInv, LinkTypeOK, Conn, Connection, Line
  <2>6. Simulator'
    BY <1>1, <2>2, <2>4 DEF IInv, Simulator, Lines
  <2>7. QED
    BY <2>4, <2>5, <2>6 DEF IInv
<1>5. QED
  BY <1>3, <1>4

LEMMA WriteSegmentInvariant == IInv /\ WriteSegment => IInv'
<1> SUFFICES ASSUME IInv, WriteSegment PROVE IInv'
  OBVIOUS
<1> DEFINE line == [run |-> run, sequence |-> taken]
<1>1. /\ client # 0 /\ header_written /\ taken # 0 /\ taken' = 0 /\ last' = taken
      /\ conns' = [conns EXCEPT ![client].inbox =
                     IF conns[client].server = "closed" THEN @ ELSE Append(@, line)]
      /\ UNCHANGED <<run, next_sequence, client, header_written, opened, waiting,
                     visualizers, active, exec, records_rejected, received, last_frame>>
  <2>1. taken # 0
    BY LinkAssumption DEF IInv, Simulator, WriteSegment, Deliver
  <2>2. QED
    BY <2>1 DEF WriteSegment, Deliver, Write, simulator, visualizer
<1>2. /\ client \in Connection /\ line \in Line /\ line.run = run /\ line.sequence = taken
      /\ last \in 0..MaxSequence /\ taken \in 0..MaxSequence /\ last < taken
  <2>1. client = opened /\ opened \in 0..MaxConnections
    BY <1>1 DEF IInv, Simulator, LinkTypeOK
  <2>2. run \in 1..MaxRuns
    BY DEF IInv, LinkTypeOK
  <2>3. last \in 0..MaxSequence /\ taken \in 0..MaxSequence /\ last < taken
    BY <1>1 DEF IInv, Simulator
  <2>4. QED
    BY <1>1, <2>1, <2>2, <2>3, LinkAssumption DEF Connection, Line
<1>3. /\ {waiting', taken', last'} \subseteq 0..MaxSequence /\ last' < next_sequence'
      /\ (waiting' # 0 => taken' < waiting' /\ last' < waiting' /\ waiting' < next_sequence')
  <2>1. 0 \in 0..MaxSequence
    BY LinkAssumption
  <2>2. taken \in Nat /\ taken # 0
    BY <1>1, <1>2
  <2>3. waiting # 0 => taken < waiting /\ waiting < next_sequence
    BY DEF IInv, Simulator
  <2>4. taken < next_sequence /\ waiting \in 0..MaxSequence
    BY <1>1 DEF IInv, Simulator
  <2>5. waiting # 0 => 0 < waiting
    BY <2>4, LinkAssumption
  <2>6. QED
    BY <1>1, <1>2, <2>1, <2>3, <2>4, <2>5
<1>4. CASE conns[client].server = "closed"
  <2>1. conns' = conns
    BY <1>1, <1>2, <1>4 DEF IInv, LinkTypeOK
  <2>2. LinkTypeOK'
    BY <1>1, <2>1 DEF IInv, LinkTypeOK, Connection, Line
  <2>3. Simulator'
    BY <1>1, <1>3, <2>1 DEF IInv, Simulator, Lines
  <2>4. Handlers' /\ InOrder'
    <3>1. Handlers'
      BY <1>1, <2>1 DEF IInv, Handlers, Open
    <3>2. InOrder'
      <4>1. InOrder
        BY Zenon DEF IInv
      <4>2. \A c \in Connection : Lines(c)' = Lines(c)
        BY <2>1 DEF Lines
      <4>3. QED
        BY <2>1, <4>1, <4>2 DEF InOrder, Before
    <3>3. QED
      BY <3>1, <3>2
  <2>5. Inboxes'
    <3>1. ASSUME NEW c \in Connection, NEW i \in Lines(c)
          PROVE  \/ conns[c].inbox[i].run < run
                 \/ conns[c].inbox[i].run = run /\ conns[c].inbox[i].sequence <= taken
      <4> DEFINE number == conns[c].inbox[i].sequence
      <4>1. \/ conns[c].inbox[i].run < run
            \/ conns[c].inbox[i].run = run /\ number <= last
        BY DEF IInv, Inboxes
      <4>2. number \in 0..MaxSequence
        BY ConnFacts DEF IInv
      <4> HIDE DEF number
      <4>3. number <= last => number <= taken
        BY <1>2, <4>2, LinkAssumption
      <4>4. QED
        BY Zenon, <4>1, <4>3 DEF number
    <3>2. \A c \in Connection :
            /\ conns[c].server = "none" <=> c > opened
            /\ conns[c].server \in {"none", "closed"} => conns[c].inbox = << >>
            /\ conns[c].server \in {"backlog", "header"} /\ conns[c].inbox # << >>
                 => conns[c].inbox[1].sequence = 0
            /\ \A i, j \in Lines(c) : i < j =>
                 /\ conns[c].inbox[i].run = conns[c].inbox[j].run
                 /\ conns[c].inbox[i].sequence < conns[c].inbox[j].sequence
      BY DEF IInv, Inboxes
    <3>3. UNCHANGED <<run, opened, conns>> /\ last' = taken
      BY <1>1, <2>1
    <3>4. \A c \in Connection : \A i \in Lines(c)' :
             \/ conns'[c].inbox[i].run < run'
             \/ conns'[c].inbox[i].run = run' /\ conns'[c].inbox[i].sequence <= last'
      BY <3>1, <3>3 DEF Lines
    <3>5. \A c \in Connection :
            /\ conns'[c].server = "none" <=> c > opened'
            /\ conns'[c].server \in {"none", "closed"} => conns'[c].inbox = << >>
            /\ conns'[c].server \in {"backlog", "header"} /\ conns'[c].inbox # << >>
                 => conns'[c].inbox[1].sequence = 0
            /\ \A i, j \in Lines(c)' : i < j =>
                 /\ conns'[c].inbox[i].run = conns'[c].inbox[j].run
                 /\ conns'[c].inbox[i].sequence < conns'[c].inbox[j].sequence
      BY <3>2, <3>3 DEF Lines
    <3>6. QED
      BY <3>4, <3>5 DEF Inboxes
  <2>6. Scene'
    <3>1. exec.run = run => exec.segment <= taken
      <4>1. exec.segment \in Nat
        BY LinkAssumption DEF IInv, LinkTypeOK
      <4>2. exec.run = run => exec.segment <= last
        BY DEF IInv, Scene
      <4>3. QED
        BY <1>2, <4>1, <4>2, LinkAssumption
    <3>2. /\ exec' = exec /\ received' = received /\ records_rejected' = records_rejected
          /\ run' = run /\ last' = taken /\ conns' = conns
      BY <1>1, <2>1
    <3>3. /\ exec'.segment = received' + exec'.missing
          /\ received' = 0 => exec'.segment = 0
          /\ exec'.run <= run'
          /\ exec'.run = run' => exec'.segment <= last'
          /\ records_rejected' = 0
      <4>1. /\ exec.segment = received + exec.missing /\ (received = 0 => exec.segment = 0)
            /\ exec.run <= run /\ records_rejected = 0
        BY DEF IInv, Scene
      <4>2. QED
        BY <3>1, <3>2, <4>1
    <3>4. \A c \in Connection : \A i \in Lines(c) :
            /\ conns[c].server = "stream" => /\ conns[c].inbox[i].run = exec.run
                                             /\ conns[c].inbox[i].sequence > exec.segment
            /\ conns[c].server # "stream" => Before(Shown, conns[c].inbox[i])
      BY Zenon DEF IInv, Scene
    <3>5. \A c \in Connection : \A i \in Lines(c)' :
            /\ conns'[c].server = "stream" => /\ conns'[c].inbox[i].run = exec'.run
                                              /\ conns'[c].inbox[i].sequence > exec'.segment
            /\ conns'[c].server # "stream" => Before(Shown', conns'[c].inbox[i])
      BY <3>2, <3>4 DEF Lines, Before, Shown
    <3>6. QED
      BY Zenon, <3>3, <3>5 DEF Scene
  <2>7. QED
    BY <2>2, <2>3, <2>4, <2>5, <2>6 DEF IInv
<1>5. CASE conns[client].server # "closed"
  <2>1. conns' = [conns EXCEPT ![client].inbox = Append(@, line)]
    BY <1>1, <1>5
  <2>2. conns[client].inbox # << >> \/ conns[client].server = "stream"
    <3>1. conns[client].server # "none"
      <4>1. client = opened /\ opened \in 0..MaxConnections
        BY <1>1 DEF IInv, Simulator, LinkTypeOK
      <4>2. ~(client > opened)
        BY <4>1
      <4>3. QED
        BY <1>2, <4>2 DEF IInv, Inboxes
    <3>2. conns[client].server \in {"backlog", "header", "stream"}
      BY <1>2, <1>5, <3>1, ConnFacts DEF IInv, Conn
    <3>3. QED
      BY <1>1, <3>2 DEF IInv, Simulator
  <2>3. line.sequence <= last' /\ last <= last' /\ last' \in 0..MaxSequence /\ last < line.sequence
    BY <1>1, <1>2, LinkAssumption
  <2>4. /\ conns' \in [Connection -> Conn] /\ Inboxes' /\ InOrder' /\ Handlers' /\ Scene'
        /\ conns'[client].server = conns[client].server /\ conns'[client].inbox # << >>
        /\ \A i \in Lines(client)' : conns'[client].inbox[i].run = run
    BY <1>1, <1>2, <1>5, <2>1, <2>2, <2>3, AppendStep
  <2>5. LinkTypeOK'
    BY <1>1, <2>4 DEF IInv, LinkTypeOK, Conn, Connection, Line
  <2>6. Simulator'
    BY <1>1, <1>3, <2>4 DEF IInv, Simulator, Lines
  <2>7. QED
    BY <2>4, <2>5, <2>6 DEF IInv
<1>6. QED
  BY <1>4, <1>5

(* The client's side of connections ends: lines are lost or stay, and the  *)
(* run may be over.                                                        *)
LEMMA PruneStep ==
  ASSUME IInv, conns' \in [Connection -> Conn],
         \A c \in Connection : /\ conns'[c].server = conns[c].server
                               /\ conns'[c].inbox \in {conns[c].inbox, << >>},
         (run' = run /\ last' = last) \/ (run' \in Nat /\ run < run' /\ last' = 0),
         UNCHANGED <<opened, active, exec, records_rejected, received, last_frame>>
  PROVE  Inboxes' /\ InOrder' /\ Handlers' /\ Scene'
<1>1. \A c \in Connection : \A i \in Lines(c)' :
        i \in Lines(c) /\ conns'[c].inbox = conns[c].inbox /\ Lines(c)' = Lines(c)
  <2>1. ASSUME NEW c \in Connection, conns'[c].inbox = << >>
        PROVE  Lines(c)' = {}
    BY <2>1 DEF Lines
  <2>2. ASSUME NEW c \in Connection, conns'[c].inbox = conns[c].inbox
        PROVE  Lines(c)' = Lines(c)
    BY <2>2 DEF Lines
  <2>3. QED
    BY <2>1, <2>2
<1>2. /\ run \in Nat /\ last \in 0..MaxSequence /\ MaxSequence \in Nat
      /\ exec.run \in Nat /\ exec.segment \in Nat
      /\ \A c \in Connection : \A i \in Lines(c) :
           conns[c].inbox[i].run \in Nat /\ conns[c].inbox[i].sequence \in Nat
  <2>1. run \in 1..MaxRuns /\ exec.run \in 0..MaxRuns /\ exec.segment \in 0..MaxSequence
    BY DEF IInv, LinkTypeOK
  <2>2. last \in 0..MaxSequence
    BY DEF IInv, Simulator
  <2>3. ASSUME NEW c \in Connection, NEW i \in Lines(c)
        PROVE  conns[c].inbox[i].run \in Nat /\ conns[c].inbox[i].sequence \in Nat
    <3>1. conns[c].inbox[i].run \in 1..MaxRuns /\ conns[c].inbox[i].sequence \in 0..MaxSequence
      BY ConnFacts DEF IInv
    <3>2. QED
      BY <3>1, LinkAssumption
  <2>4. run \in Nat /\ MaxSequence \in Nat /\ exec.run \in Nat /\ exec.segment \in Nat
    BY <2>1, LinkAssumption
  <2>5. QED
    BY <2>2, <2>3, <2>4
<1>3. Inboxes'
  <2>1. \A c \in Connection : \A i \in Lines(c) :
          \/ conns[c].inbox[i].run < run'
          \/ conns[c].inbox[i].run = run' /\ conns[c].inbox[i].sequence <= last'
    <3>1. \A c \in Connection : \A i \in Lines(c) :
            \/ conns[c].inbox[i].run < run
            \/ conns[c].inbox[i].run = run /\ conns[c].inbox[i].sequence <= last
      BY DEF IInv, Inboxes
    <3>2. QED
      BY <1>2, <3>1
  <2>2. ASSUME NEW c \in Connection
        PROVE  /\ conns'[c].server = "none" <=> c > opened'
               /\ conns'[c].server \in {"none", "closed"} => conns'[c].inbox = << >>
               /\ conns'[c].server \in {"backlog", "header"} /\ conns'[c].inbox # << >>
                    => conns'[c].inbox[1].sequence = 0
    BY DEF IInv, Inboxes
  <2>3. ASSUME NEW c \in Connection
        PROVE  /\ \A i, j \in Lines(c)' : i < j =>
                    /\ conns'[c].inbox[i].run = conns'[c].inbox[j].run
                    /\ conns'[c].inbox[i].sequence < conns'[c].inbox[j].sequence
               /\ \A i \in Lines(c)' :
                    \/ conns'[c].inbox[i].run < run'
                    \/ conns'[c].inbox[i].run = run' /\ conns'[c].inbox[i].sequence <= last'
    BY <1>1, <2>1 DEF IInv, Inboxes
  <2>4. QED
    BY <2>2, <2>3 DEF Inboxes
<1>4. InOrder'
  <2>1. ASSUME NEW c \in Connection, NEW d \in Connection, c < d,
               NEW i \in Lines(c)', NEW j \in Lines(d)'
        PROVE  Before(conns'[c].inbox[i], conns'[d].inbox[j])
    BY <1>1, <2>1 DEF IInv, InOrder
  <2>2. QED
    BY <2>1 DEF InOrder, Before
<1>5. Handlers'
  BY DEF IInv, Handlers, Open
<1>6. Scene'
  <2>1. /\ exec'.segment = received' + exec'.missing /\ (received' = 0 => exec'.segment = 0)
        /\ records_rejected' = 0
    BY DEF IInv, Scene
  <2>2. exec'.run <= run' /\ (exec'.run = run' => exec'.segment <= last')
    <3>1. exec' = exec /\ exec.run <= run /\ (exec.run = run => exec.segment <= last)
      BY DEF IInv, Scene
    <3>2. QED
      BY <1>2, <3>1
  <2>3. ASSUME NEW c \in Connection, NEW i \in Lines(c)'
        PROVE  /\ conns'[c].server = "stream" => /\ conns'[c].inbox[i].run = exec'.run
                                                 /\ conns'[c].inbox[i].sequence > exec'.segment
               /\ conns'[c].server # "stream" => Before(Shown', conns'[c].inbox[i])
    <3>1. Shown' = Shown
      BY DEF Shown
    <3>2. QED
      BY <1>1, <3>1 DEF IInv, Scene
  <2>4. QED
    BY <2>1, <2>2, <2>3 DEF Scene, Before
<1>7. QED
  BY <1>3, <1>4, <1>5, <1>6

(* What the server sees of an end is a connection in the same place. *)
LEMMA EndedFacts ==
  ASSUME IInv, client # 0, NEW ended \in Ended(client, taken),
         conns' = [conns EXCEPT ![client] = ended]
  PROVE  /\ conns' \in [Connection -> Conn]
         /\ \A c \in Connection : /\ conns'[c].server = conns[c].server
                                  /\ conns'[c].inbox \in {conns[c].inbox, << >>}
<1>1. client \in Connection
  <2>1. client = opened /\ opened \in 0..MaxConnections
    BY DEF IInv, Simulator, LinkTypeOK
  <2>2. QED
    BY <2>1, LinkAssumption DEF Connection
<1>2. conns[client] \in Conn /\ taken \in 0..MaxSequence /\ 0 \in 0..MaxSequence
  <2>1. taken \in 0..MaxSequence
    BY DEF IInv, Simulator
  <2>2. QED
    BY <1>1, <2>1, ConnFacts, LinkAssumption DEF IInv
<1>3. /\ ended \in Conn /\ ended.server = conns[client].server
      /\ ended.inbox \in {conns[client].inbox, << >>}
  <2>1. << >> \in Seq(Line)
    OBVIOUS
  <2>2. CASE conns[client].server = "closed"
    BY <1>2, <2>2 DEF Ended
  <2>3. CASE conns[client].server # "closed"
    BY <1>2, <2>1, <2>3 DEF Ended, Conn
  <2>4. QED
    BY <2>2, <2>3
<1>4. conns' \in [Connection -> Conn] /\ conns'[client] = ended
      /\ \A d \in Connection \ {client} : conns'[d] = conns[d]
  BY <1>1, <1>3, UpdateFacts DEF IInv
<1>5. QED
  BY <1>3, <1>4

LEMMA FailsInvariant == IInv /\ ConnectionFails => IInv'
<1> SUFFICES ASSUME IInv, ConnectionFails PROVE IInv'
  OBVIOUS
<1>1. /\ client # 0 /\ client' = 0 /\ header_written' = FALSE /\ taken' = 0
      /\ UNCHANGED <<run, next_sequence, opened, waiting, last,
                     visualizers, active, exec, records_rejected, received, last_frame>>
  BY DEF ConnectionFails, Lose, vars, visualizer
<1>2. PICK ended \in Ended(client, taken) : conns' = [conns EXCEPT ![client] = ended]
  BY DEF ConnectionFails
<1>3. /\ conns' \in [Connection -> Conn]
      /\ \A c \in Connection : /\ conns'[c].server = conns[c].server
                               /\ conns'[c].inbox \in {conns[c].inbox, << >>}
  BY <1>1, <1>2, EndedFacts
<1>4. Inboxes' /\ InOrder' /\ Handlers' /\ Scene'
  BY <1>1, <1>3, PruneStep
<1>5. LinkTypeOK'
  <2>1. client' \in 0..opened'
    BY <1>1, LinkAssumption DEF IInv, LinkTypeOK
  <2>2. QED
    BY <1>1, <1>3, <2>1 DEF IInv, LinkTypeOK, Conn, Connection, Line
<1>6. Simulator'
  <2>1. waiting' # 0 => taken' < waiting' /\ last' < waiting' /\ waiting' < next_sequence'
    BY <1>1, LinkAssumption DEF IInv, Simulator
  <2>2. taken' \in 0..MaxSequence
    BY <1>1, LinkAssumption
  <2>3. QED
    BY <1>1, <2>1, <2>2 DEF IInv, Simulator
<1>7. QED
  BY <1>4, <1>5, <1>6 DEF IInv

LEMMA RestartInvariant == IInv /\ RestartSimulator => IInv'
<1> SUFFICES ASSUME IInv, RestartSimulator PROVE IInv'
  OBVIOUS
<1>1. /\ client' = 0 /\ header_written' = FALSE /\ taken' = 0 /\ waiting' = 0 /\ last' = 0
      /\ run < MaxRuns /\ run' = run + 1 /\ next_sequence' = 1
      /\ UNCHANGED <<opened, visualizers, active, exec, records_rejected, received, last_frame>>
  BY DEF RestartSimulator, visualizer
<1>2. /\ conns' \in [Connection -> Conn]
      /\ \A c \in Connection : /\ conns'[c].server = conns[c].server
                               /\ conns'[c].inbox \in {conns[c].inbox, << >>}
  <2>1. CASE client = 0
    BY <2>1 DEF IInv, LinkTypeOK, Conn, RestartSimulator
  <2>2. CASE client # 0
    <3>1. PICK ended \in Ended(client, taken) : conns' = [conns EXCEPT ![client] = ended]
      BY <2>2 DEF RestartSimulator
    <3>2. QED
      BY <2>2, <3>1, EndedFacts
  <2>3. QED
    BY <2>1, <2>2
<1>3. run \in 1..MaxRuns /\ run' \in 1..MaxRuns /\ run' \in Nat /\ run < run'
  BY <1>1, LinkAssumption DEF IInv, LinkTypeOK
<1>4. Inboxes' /\ InOrder' /\ Handlers' /\ Scene'
  BY <1>1, <1>2, <1>3, PruneStep
<1>5. LinkTypeOK'
  <2>1. client' \in 0..opened' /\ next_sequence' \in 1..(MaxSequence + 1)
    <3>1. opened \in 0..MaxConnections
      BY DEF IInv, LinkTypeOK
    <3>2. QED
      BY <1>1, <3>1, LinkAssumption
  <2>2. QED
    BY <1>1, <1>2, <1>3, <2>1 DEF IInv, LinkTypeOK, Conn, Connection, Line
<1>6. Simulator'
  BY <1>1, LinkAssumption DEF Simulator
<1>7. QED
  BY <1>4, <1>5, <1>6 DEF IInv

-----------------------------------------------------------------------------
(* Steps of the Visualizer. *)

(* A handler's step leaves its connection's lines, reads the first or drops *)
(* them all: the others keep their order.                                   *)
LEMMA ReadStep ==
  ASSUME IInv, NEW c \in Connection, NEW k \in Conn, conns' = [conns EXCEPT ![c] = k],
         conns[c].server # "none", k.server \in {"header", "stream", "closed"},
         \/ k.inbox = conns[c].inbox /\ conns[c].server = "backlog" /\ k.server = "header"
         \/ conns[c].inbox # << >> /\ k.inbox = Tail(conns[c].inbox) /\ k.server = "stream"
         \/ k.inbox = << >>,
         UNCHANGED <<run, last, opened>>
  PROVE  /\ conns' \in [Connection -> Conn] /\ conns'[c] = k
         /\ \A d \in Connection \ {c} : conns'[d] = conns[d] /\ Lines(d)' = Lines(d)
         /\ \A i \in Lines(c)' : \E j \in Lines(c) : conns'[c].inbox[i] = conns[c].inbox[j]
         /\ Inboxes' /\ InOrder'
<1>1. /\ conns' \in [Connection -> Conn] /\ conns'[c] = k
      /\ \A d \in Connection \ {c} : conns'[d] = conns[d] /\ Lines(d)' = Lines(d)
  BY UpdateFacts DEF IInv, Lines
<1>2. conns[c].inbox \in Seq(Line) /\ Len(conns[c].inbox) \in Nat
  BY ConnFacts DEF IInv
<1>3. \E n \in {0, 1} : \A i \in Lines(c)' :
        i \in Nat /\ i + n \in Lines(c) /\ conns'[c].inbox[i] = conns[c].inbox[i + n]
  <2>1. CASE k.inbox = conns[c].inbox
    <3>1. Lines(c)' = Lines(c) /\ \A i \in Lines(c) : i \in Nat /\ i + 0 = i
      BY <1>1, <1>2, <2>1 DEF Lines
    <3>2. QED
      BY <1>1, <2>1, <3>1
  <2>2. CASE conns[c].inbox # << >> /\ k.inbox = Tail(conns[c].inbox)
    <3>1. /\ Len(k.inbox) = Len(conns[c].inbox) - 1
          /\ \A i \in 1..Len(k.inbox) : k.inbox[i] = conns[c].inbox[i + 1]
      BY <1>2, <2>2, TailFacts
    <3>2. \A i \in 1..Len(k.inbox) : i \in Nat /\ i + 1 \in 1..Len(conns[c].inbox)
      BY <1>2, <3>1
    <3>3. QED
      BY <1>1, <3>1, <3>2 DEF Lines
  <2>3. CASE k.inbox = << >>
    BY <1>1, <2>3 DEF Lines
  <2>4. QED
    BY <2>1, <2>2, <2>3
<1>4. PICK n \in {0, 1} : \A i \in Lines(c)' :
        i \in Nat /\ i + n \in Lines(c) /\ conns'[c].inbox[i] = conns[c].inbox[i + n]
  BY <1>3
<1>5. \A i \in Lines(c)' : \E j \in Lines(c) : conns'[c].inbox[i] = conns[c].inbox[j]
  BY <1>4
<1>6. Inboxes'
  <2>1. ASSUME NEW d \in Connection
        PROVE  /\ conns'[d].server = "none" <=> d > opened'
               /\ conns'[d].server \in {"none", "closed"} => conns'[d].inbox = << >>
    <3>1. k.server = "closed" => k.inbox = << >>
      OBVIOUS
    <3>2. QED
      BY <1>1, <3>1 DEF IInv, Inboxes
  <2>2. ASSUME NEW d \in Connection,
               conns'[d].server \in {"backlog", "header"}, conns'[d].inbox # << >>
        PROVE  conns'[d].inbox[1].sequence = 0
    BY <1>1, <2>2 DEF IInv, Inboxes
  <2>3. ASSUME NEW d \in Connection, NEW i \in Lines(d)', NEW j \in Lines(d)', i < j
        PROVE  /\ conns'[d].inbox[i].run = conns'[d].inbox[j].run
               /\ conns'[d].inbox[i].sequence < conns'[d].inbox[j].sequence
    <3>1. CASE d = c
      <4>1. i + n < j + n
        BY <1>4, <2>3, <3>1
      <4>2. QED
        BY <1>4, <2>3, <3>1, <4>1 DEF IInv, Inboxes
    <3>2. CASE d # c
      BY <1>1, <2>3, <3>2 DEF IInv, Inboxes
    <3>3. QED
      BY <3>1, <3>2
  <2>4. ASSUME NEW d \in Connection, NEW i \in Lines(d)'
        PROVE  \/ conns'[d].inbox[i].run < run'
               \/ conns'[d].inbox[i].run = run' /\ conns'[d].inbox[i].sequence <= last'
    BY <1>1, <1>5 DEF IInv, Inboxes
  <2>5. QED
    BY <2>1, <2>2, <2>3, <2>4 DEF Inboxes
<1>7. InOrder'
  <2>1. \A d \in Connection : \A i \in Lines(d)' :
          \E j \in Lines(d) : conns'[d].inbox[i] = conns[d].inbox[j]
    BY <1>1, <1>5
  <2>2. ASSUME NEW d \in Connection, NEW e \in Connection, d < e,
               NEW i \in Lines(d)', NEW j \in Lines(e)'
        PROVE  Before(conns'[d].inbox[i], conns'[e].inbox[j])
    <3>1. PICK p \in Lines(d), q \in Lines(e) :
            conns'[d].inbox[i] = conns[d].inbox[p] /\ conns'[e].inbox[j] = conns[e].inbox[q]
      BY <2>1
    <3>2. QED
      BY <2>2, <3>1 DEF IInv, InOrder
  <2>3. QED
    BY <2>2 DEF InOrder, Before
<1>8. QED
  BY <1>1, <1>5, <1>6, <1>7

LEMMA HandleInvariant ==
  ASSUME IInv, NEW c \in Connection, HandleClient(c)
  PROVE  IInv'
<1> DEFINE k == IF active THEN [conns[c] EXCEPT !.server = "closed", !.inbox = << >>, !.partial = 0]
                ELSE [conns[c] EXCEPT !.server = "header"]
<1>1. /\ conns[c].server = "backlog" /\ conns[c] \in Conn
      /\ UNCHANGED <<waiting, taken, last, run, next_sequence, client, header_written,
                     opened, visualizers, exec, records_rejected, received, last_frame>>
  BY ConnFacts DEF IInv, HandleClient, vars, simulator
<1>2. k \in Conn /\ k.server = (IF active THEN "closed" ELSE "header")
      /\ k.inbox = (IF active THEN << >> ELSE conns[c].inbox)
  <2>1. << >> \in Seq(Line) /\ 0 \in 0..MaxSequence
    BY LinkAssumption
  <2>2. QED
    BY <1>1, <2>1 DEF Conn
<1>3. conns' = [conns EXCEPT ![c] = k] /\ active'
  BY DEF HandleClient, Busy, Close, IInv, LinkTypeOK
<1> HIDE DEF k
<1>4. /\ conns' \in [Connection -> Conn] /\ conns'[c] = k
      /\ \A d \in Connection \ {c} : conns'[d] = conns[d] /\ Lines(d)' = Lines(d)
      /\ \A i \in Lines(c)' : \E j \in Lines(c) : conns'[c].inbox[i] = conns[c].inbox[j]
      /\ Inboxes' /\ InOrder'
  BY <1>1, <1>2, <1>3, ReadStep
<1>5. LinkTypeOK'
  <2>1. active' \in BOOLEAN
    BY DEF HandleClient, IInv, LinkTypeOK
  <2>2. QED
    BY <1>1, <1>4, <2>1 DEF IInv, LinkTypeOK, Conn, Connection, Line
<1>6. Simulator'
  <2>1. ASSUME client # 0
        PROVE  /\ \A i \in Lines(client)' : conns'[client].inbox[i].run = run
               /\ conns'[client].server \in {"backlog", "header"}
                    => (header_written <=> conns'[client].inbox # << >>)
               /\ conns'[client].server = "stream" => header_written /\ exec.run = run
    <3>1. client \in Connection
      <4>1. client = opened /\ opened \in 0..MaxConnections
        BY <2>1 DEF IInv, Simulator, LinkTypeOK
      <4>2. QED
        BY <2>1, <4>1, LinkAssumption DEF Connection
    <3>2. CASE client # c
      BY <1>1, <1>4, <2>1, <3>1, <3>2 DEF IInv, Simulator, Lines
    <3>3. CASE client = c
      <4>1. \A i \in Lines(client)' : conns'[client].inbox[i].run = run
        BY <1>1, <1>4, <2>1, <3>3 DEF IInv, Simulator, Lines
      <4>2. header_written <=> conns[c].inbox # << >>
        BY <1>1, <2>1, <3>3 DEF IInv, Simulator
      <4>3. CASE active
        BY <1>2, <1>4, <3>3, <4>1, <4>3
      <4>4. CASE ~active
        BY <1>2, <1>4, <3>3, <4>1, <4>2, <4>4
      <4>5. QED
        BY <4>3, <4>4
    <3>4. QED
      BY <3>2, <3>3
  <2>2. QED
    BY <1>1, <2>1 DEF IInv, Simulator, Lines
<1>7. Handlers'
  <2>1. CASE active
    <3>0. conns'[c].server = "closed"
      BY <1>2, <1>4, <2>1
    <3>1. \A d \in Connection : /\ Open(d)' <=> Open(d)
                                /\ conns'[d].server = "stream" <=> conns[d].server = "stream"
                                /\ conns'[d].server = "backlog" => conns[d].server = "backlog"
      BY <1>1, <1>4, <3>0 DEF Open
    <3>2. active' <=> active
      BY <1>3, <2>1
    <3>3. QED
      BY <1>1, <3>1, <3>2 DEF IInv, Handlers
  <2>2. CASE ~active
    <3>1. \A d \in Connection : ~Open(d)
      BY <2>2 DEF IInv, Handlers
    <3>0. conns'[c].server = "header"
      BY <1>2, <1>4, <2>2
    <3>2. \A d \in Connection : /\ Open(d)' <=> d = c
                                /\ conns'[d].server = "stream" <=> conns[d].server = "stream"
                                /\ conns'[d].server = "backlog" => conns[d].server = "backlog" /\ d # c
      BY <1>1, <1>4, <3>0, <3>1 DEF Open
    <3>3. \A d \in Connection : conns'[d].server = "backlog" => c < d
      <4>1. \A d \in Connection : conns[d].server = "backlog" => c <= d
        BY DEF HandleClient
      <4>2. QED
        BY <3>2, <4>1 DEF Connection
    <3>4. QED
      BY <1>1, <1>3, <3>2, <3>3 DEF IInv, Handlers
  <2>3. QED
    BY <2>1, <2>2
<1>8. Scene'
  <2>1. ASSUME NEW d \in Connection, NEW i \in Lines(d)'
        PROVE  /\ conns'[d].server = "stream" => /\ conns'[d].inbox[i].run = exec'.run
                                                 /\ conns'[d].inbox[i].sequence > exec'.segment
               /\ conns'[d].server # "stream" => Before(Shown, conns'[d].inbox[i])
    <3>1. CASE d # c
      BY <1>1, <1>4, <2>1, <3>1 DEF IInv, Scene
    <3>2. CASE d = c
      <4>1. conns'[c].server # "stream"
        BY <1>2, <1>4
      <4>2. PICK j \in Lines(c) : conns'[c].inbox[i] = conns[c].inbox[j]
        BY <1>4, <2>1, <3>2
      <4>3. QED
        BY <1>1, <3>2, <4>1, <4>2 DEF IInv, Scene
    <3>3. QED
      BY <3>1, <3>2
  <2>2. Shown' = Shown
    BY <1>1 DEF Shown
  <2>3. QED
    BY <1>1, <2>1, <2>2 DEF IInv, Scene, Before
<1>9. QED
  BY <1>4, <1>5, <1>6, <1>7, <1>8 DEF IInv

(* What the line that is read says of all the others. *)
LEMMA HeadFacts ==
  ASSUME IInv, NEW c \in Connection, Open(c), conns[c].inbox # << >>
  PROVE  LET s == conns[c].inbox
         IN  /\ Head(s) = s[1] /\ s[1] \in Line /\ s[1].run \in 1..MaxRuns
             /\ s[1].sequence \in 0..MaxSequence /\ Tail(s) \in Seq(Line) /\ 1 \in Lines(c)
             /\ \A i \in 1..Len(Tail(s)) :
                  /\ i + 1 \in Lines(c) /\ Tail(s)[i] = s[i + 1]
                  /\ Tail(s)[i].run = s[1].run /\ s[1].sequence < Tail(s)[i].sequence
             /\ \A d \in Connection \ {c} : \A i \in Lines(d) :
                  conns[d].server = "backlog" /\ Before(s[1], conns[d].inbox[i])
<1> DEFINE s == conns[c].inbox
<1>1. s \in Seq(Line) /\ Len(s) \in Nat
  BY ConnFacts DEF IInv
<1>2. /\ Head(s) = s[1] /\ Head(s) \in Line
      /\ Tail(s) \in Seq(Line) /\ Len(Tail(s)) = Len(s) - 1
      /\ \A i \in 1..Len(Tail(s)) : Tail(s)[i] = s[i + 1]
      /\ Len(s) \in Nat \ {0} /\ 1 \in 1..Len(s)
  BY <1>1, TailFacts
<1>3. /\ s[1] \in Line /\ s[1].run \in 1..MaxRuns
      /\ s[1].sequence \in 0..MaxSequence /\ 1 \in Lines(c)
  BY <1>2 DEF Lines, Line
<1>4. ASSUME NEW i \in 1..Len(Tail(s))
      PROVE  /\ i + 1 \in Lines(c) /\ Tail(s)[i] = s[i + 1]
             /\ Tail(s)[i].run = s[1].run /\ s[1].sequence < Tail(s)[i].sequence
  <2>1. i + 1 \in Lines(c) /\ 1 < i + 1 /\ Tail(s)[i] = s[i + 1]
    BY <1>2 DEF Lines
  <2>2. QED
    BY <1>3, <2>1 DEF IInv, Inboxes
<1>5. ASSUME NEW d \in Connection \ {c}, NEW i \in Lines(d)
      PROVE  conns[d].server = "backlog" /\ Before(s[1], conns[d].inbox[i])
  <2>1. conns[d].inbox # << >>
    BY <1>5 DEF Lines
  <2>2. conns[d].server \notin {"none", "closed"} /\ ~Open(d)
    BY <2>1 DEF IInv, Inboxes, Handlers
  <2>3. conns[d].server = "backlog"
    BY <2>2, ConnFacts DEF IInv, Conn, Open
  <2>4. c < d
    BY <2>3 DEF IInv, Handlers
  <2>5. QED
    BY <1>3, <2>3, <2>4 DEF IInv, InOrder
<1>6. QED
  BY <1>2, <1>3, <1>4, <1>5

(* A line is read: what is left of the others' state, and the simulator's. *)
LEMMA ReadFacts ==
  ASSUME IInv, NEW c \in Connection, Open(c), conns[c].inbox # << >>,
         NEW k \in Conn, k.server = "stream", k.inbox = Tail(conns[c].inbox),
         conns' = [conns EXCEPT ![c] = k],
         exec'.run = conns[c].inbox[1].run,
         UNCHANGED <<waiting, taken, last, run, next_sequence, client, header_written, opened>>
  PROVE  Simulator' /\ \A d \in Connection : Open(d)' <=> Open(d)
<1>1. /\ conns'[c] = k /\ \A d \in Connection \ {c} : conns'[d] = conns[d]
  BY UpdateFacts DEF IInv
<1>2. ASSUME client # 0
      PROVE  /\ \A i \in Lines(client)' : conns'[client].inbox[i].run = run
             /\ conns'[client].server \in {"backlog", "header"}
                  => (header_written <=> conns'[client].inbox # << >>)
             /\ conns'[client].server = "stream" => header_written /\ exec'.run = run
  <2>1. client \in Connection
    <3>1. client = opened /\ opened \in 0..MaxConnections
      BY <1>2 DEF IInv, Simulator, LinkTypeOK
    <3>2. QED
      BY <1>2, <3>1, LinkAssumption DEF Connection
  <2>2. CASE client # c
    <3>1. conns'[client] = conns[client] /\ client' = client
      BY <1>1, <2>1, <2>2
    <3>2. conns[client].server # "stream"
      BY <2>1, <2>2 DEF IInv, Handlers, Open
    <3>3. QED
      BY <1>2, <3>1, <3>2 DEF IInv, Simulator, Lines
  <2>3. CASE client = c
    <3>1. /\ \A i \in Lines(client) : conns[client].inbox[i].run = run
          /\ header_written
      BY <1>2, <2>1, <2>3 DEF IInv, Simulator, Open
    <3>2. exec'.run = run
      BY <2>3, <3>1, HeadFacts
    <3>3. \A i \in 1..Len(k.inbox) : k.inbox[i].run = run
      BY <2>3, <3>1, HeadFacts
    <3>4. QED
      BY <1>1, <2>3, <3>1, <3>2, <3>3 DEF Lines
  <2>4. QED
    BY <2>2, <2>3
<1>3. Simulator'
  BY <1>2 DEF IInv, Simulator, Lines
<1>4. \A d \in Connection : Open(d)' <=> Open(d)
  BY <1>1 DEF Open
<1>5. QED
  BY <1>3, <1>4

(* A connection ends, by what it holds or because on_state raises: nobody  *)
(* is read then, and what the simulator knows of it is as it was.          *)
LEMMA CloseFacts ==
  ASSUME IInv, NEW c \in Connection, Open(c), Close(c),
         UNCHANGED <<waiting, taken, last, run, next_sequence, client, header_written, opened>>
  PROVE  /\ conns' \in [Connection -> Conn] /\ Inboxes' /\ InOrder' /\ Simulator'
         /\ conns'[c].server = "closed" /\ Lines(c)' = {}
         /\ \A d \in Connection \ {c} : conns'[d] = conns[d] /\ Lines(d)' = Lines(d)
         /\ \A d \in Connection : ~Open(d)' /\ conns'[d].server # "stream"
<1> DEFINE k == [conns[c] EXCEPT !.server = "closed", !.inbox = << >>, !.partial = 0]
<1>1. conns[c] \in Conn /\ conns' = [conns EXCEPT ![c] = k]
  BY ConnFacts DEF IInv, Close
<1>2. k \in Conn /\ k.server = "closed" /\ k.inbox = << >>
  <2>1. << >> \in Seq(Line) /\ 0 \in 0..MaxSequence
    BY LinkAssumption
  <2>2. QED
    BY <1>1, <2>1 DEF Conn
<1> HIDE DEF k
<1>3. /\ conns' \in [Connection -> Conn] /\ conns'[c] = k
      /\ \A d \in Connection \ {c} : conns'[d] = conns[d] /\ Lines(d)' = Lines(d)
      /\ Inboxes' /\ InOrder'
  BY <1>1, <1>2, ReadStep DEF Open
<1>4. conns'[c].server = "closed" /\ Lines(c)' = {}
  BY <1>2, <1>3 DEF Lines
<1>5. \A d \in Connection : ~Open(d)' /\ conns'[d].server # "stream"
  BY <1>3, <1>4 DEF IInv, Handlers, Open
<1>6. Simulator'
  <2>1. ASSUME client # 0
        PROVE  /\ \A i \in Lines(client)' : conns'[client].inbox[i].run = run
               /\ conns'[client].server \in {"backlog", "header"}
                    => (header_written <=> conns'[client].inbox # << >>)
               /\ conns'[client].server # "stream"
    <3>1. client \in Connection
      <4>1. client = opened /\ opened \in 0..MaxConnections
        BY <2>1 DEF IInv, Simulator, LinkTypeOK
      <4>2. QED
        BY <2>1, <4>1, LinkAssumption DEF Connection
    <3>2. CASE client # c
      <4>1. conns'[client] = conns[client] /\ Lines(client)' = Lines(client) /\ client' = client
        BY <1>3, <3>1, <3>2
      <4>2. QED
        BY <1>5, <2>1, <3>1, <4>1 DEF IInv, Simulator, Lines
    <3>3. CASE client = c
      BY <1>4, <3>3 DEF Lines
    <3>4. QED
      BY <3>2, <3>3
  <2>2. QED
    BY <2>1 DEF IInv, Simulator, Lines
<1>7. QED
  BY <1>3, <1>4, <1>5, <1>6

(* The steps that end a connection: what is shown only comes nearer to     *)
(* what the other connections hold.                                        *)
LEMMA CloseInvariant ==
  ASSUME IInv, NEW c \in Connection, Open(c), Close(c), Release,
         exec' \in [run : 0..MaxRuns, segment : 0..MaxSequence, connected : BOOLEAN,
                    missing : 0..(MaxSequence - 1)],
         received' \in 0..MaxSequence, last_frame' \in BOOLEAN,
         exec'.connected => Raises(exec', last_frame'),
         exec'.segment = received' + exec'.missing, received' = 0 => exec'.segment = 0,
         exec'.run <= run, exec'.run = run => exec'.segment <= last,
         \A d \in Connection \ {c} : \A i \in Lines(d) :
           Before(Shown, conns[d].inbox[i]) => Before(Shown', conns[d].inbox[i]),
         UNCHANGED <<waiting, taken, last, run, next_sequence, client, header_written, opened,
                     visualizers, records_rejected>>
  PROVE  IInv'
<1>1. /\ conns' \in [Connection -> Conn] /\ Inboxes' /\ InOrder' /\ Simulator'
      /\ conns'[c].server = "closed" /\ Lines(c)' = {}
      /\ \A d \in Connection \ {c} : conns'[d] = conns[d] /\ Lines(d)' = Lines(d)
      /\ \A d \in Connection : ~Open(d)' /\ conns'[d].server # "stream"
  BY CloseFacts
<1>2. LinkTypeOK'
  BY <1>1 DEF IInv, LinkTypeOK, Conn, Connection, Line, Release
<1>3. Handlers'
  BY <1>1 DEF Handlers, Release
<1>4. Scene'
  <2>1. ASSUME NEW d \in Connection, NEW i \in Lines(d)'
        PROVE  conns'[d].server # "stream" /\ Before(Shown', conns'[d].inbox[i])
    <3>1. d \in Connection \ {c} /\ i \in Lines(d) /\ conns'[d] = conns[d]
      BY <1>1, <2>1
    <3>2. conns[d].server # "stream"
      BY <1>1, <3>1
    <3>3. Before(Shown, conns[d].inbox[i])
      BY <3>1, <3>2 DEF IInv, Scene
    <3>4. QED
      BY <3>1, <3>2, <3>3
  <2>2. records_rejected' = 0
    BY DEF IInv, Scene
  <2>3. QED
    BY <2>1, <2>2 DEF Scene, Before
<1>5. QED
  BY <1>1, <1>2, <1>3, <1>4 DEF IInv

LEMMA ReadHeaderInvariant ==
  ASSUME IInv, NEW c \in Connection, ReadHeader(c)
  PROVE  IInv'
<1> DEFINE s == conns[c].inbox
<1> DEFINE k == [conns[c] EXCEPT !.server = "stream", !.inbox = Tail(@)]
<1> DEFINE raises == Raises(exec', last_frame')
<1>1. /\ conns[c].server = "header" /\ s # << >> /\ conns[c] \in Conn /\ Open(c)
      /\ raises => Close(c) /\ Release
      /\ ~raises => conns' = [conns EXCEPT ![c] = k] /\ active' = active
      /\ UNCHANGED <<waiting, taken, last, run, next_sequence, client, header_written,
                     opened, visualizers, records_rejected>>
  <2>1. /\ conns[c].server = "header" /\ s # << >>
        /\ UNCHANGED <<waiting, taken, last, run, next_sequence, client, header_written,
                       opened, visualizers, records_rejected>>
    BY DEF ReadHeader, vars, simulator
  <2>2. /\ raises => Close(c) /\ Release
        /\ ~raises => conns' = [conns EXCEPT ![c].server = "stream", ![c].inbox = Tail(@)]
                      /\ active' = active
    BY DEF ReadHeader
  <2>3. conns[c] \in Conn /\ Open(c)
    BY <2>1, ConnFacts DEF IInv, Open
  <2>4. [conns EXCEPT ![c].server = "stream", ![c].inbox = Tail(@)] = [conns EXCEPT ![c] = k]
    BY DEF IInv, LinkTypeOK
  <2>5. QED
    BY <2>1, <2>2, <2>3, <2>4
<1>2. /\ Head(s) = s[1] /\ s[1] \in Line /\ s[1].run \in 1..MaxRuns
      /\ s[1].sequence \in 0..MaxSequence /\ Tail(s) \in Seq(Line) /\ 1 \in Lines(c)
      /\ \A i \in 1..Len(Tail(s)) :
           /\ i + 1 \in Lines(c) /\ Tail(s)[i] = s[i + 1]
           /\ Tail(s)[i].run = s[1].run /\ s[1].sequence < Tail(s)[i].sequence
      /\ \A d \in Connection \ {c} : \A i \in Lines(d) :
           conns[d].server = "backlog" /\ Before(s[1], conns[d].inbox[i])
  BY <1>1, HeadFacts
<1>3. k \in Conn /\ k.server = "stream" /\ k.inbox = Tail(s)
  BY <1>1, <1>2 DEF Conn
<1> HIDE DEF k
<1>4. s[1].sequence = 0
  BY <1>1 DEF IInv, Inboxes
<1>5. /\ exec' = (IF exec.run = s[1].run THEN [exec EXCEPT !.connected = TRUE]
                  ELSE [run |-> s[1].run, segment |-> 0, connected |-> TRUE, missing |-> 0])
      /\ received' = IF exec.run = s[1].run THEN received ELSE 0
      /\ last_frame' = (last_frame /\ exec.run = s[1].run)
  BY <1>2 DEF ReadHeader, AcceptHeader
<1>6. exec \in [run : 0..MaxRuns, segment : 0..MaxSequence, connected : BOOLEAN,
                missing : 0..(MaxSequence - 1)] /\ received \in 0..MaxSequence
      /\ last_frame \in BOOLEAN
  BY DEF IInv, LinkTypeOK
<1>7. /\ exec' \in [run : 0..MaxRuns, segment : 0..MaxSequence, connected : BOOLEAN,
                    missing : 0..(MaxSequence - 1)]
      /\ received' \in 0..MaxSequence
      /\ exec'.run = s[1].run /\ exec'.connected = TRUE /\ last_frame' \in BOOLEAN
  <2>1. CASE exec.run = s[1].run
    BY <1>5, <1>6, <2>1
  <2>2. CASE exec.run # s[1].run
    <3>1. 0 \in 0..MaxSequence /\ 0 \in 0..(MaxSequence - 1) /\ s[1].run \in 0..MaxRuns
      BY <1>2, LinkAssumption
    <3>2. QED
      BY <1>5, <2>2, <3>1
  <2>3. QED
    BY <2>1, <2>2
<1>8. \/ exec.run = s[1].run /\ UNCHANGED <<received, exec.run, exec.segment, exec.missing>>
      \/ exec.run # s[1].run /\ received' = 0 /\ exec'.segment = 0 /\ exec'.missing = 0
  BY <1>5, <1>6
<1>9. exec'.segment = received' + exec'.missing /\ (received' = 0 => exec'.segment = 0)
  BY <1>8 DEF IInv, Scene
<1>10. exec'.run <= run /\ (exec'.run = run => exec'.segment <= last)
  <2>1. run \in 1..MaxRuns /\ last \in 0..MaxSequence
    BY DEF IInv, LinkTypeOK, Simulator
  <2>2. s[1].run < run \/ s[1].run = run
    BY <1>2 DEF IInv, Inboxes
  <2>3. s[1].run <= run /\ run \in Nat /\ last \in Nat
    BY <1>2, <2>1, <2>2, LinkAssumption
  <2>4. exec.run = run => exec.segment <= last
    BY DEF IInv, Scene
  <2>5. QED
    BY <1>7, <1>8, <2>3, <2>4
<1>11. ASSUME NEW d \in Connection \ {c}, NEW i \in Lines(d)
       PROVE  conns[d].server # "stream" /\ Before(Shown', conns[d].inbox[i])
  <2>1. conns[d].server = "backlog" /\ Before(s[1], conns[d].inbox[i])
    BY <1>2
  <2>2. Before(Shown, conns[d].inbox[i])
    BY <2>1 DEF IInv, Scene
  <2>3. CASE exec.run = s[1].run
    <3>1. Shown' = Shown
      BY <1>8, <2>3 DEF Shown
    <3>2. QED
      BY <2>1, <2>2, <3>1
  <2>4. CASE exec.run # s[1].run
    <3>1. Shown'.run = s[1].run /\ Shown'.sequence = s[1].sequence
      BY <1>4, <1>7, <1>8, <2>4 DEF Shown
    <3>2. QED
      BY <2>1, <3>1 DEF Before
  <2>5. QED
    BY <2>3, <2>4
<1>12. CASE raises
  <2>1. Close(c) /\ Release
    BY <1>1, <1>12
  <2>2. QED
    BY <1>1, <1>7, <1>9, <1>10, <1>11, <1>12, <2>1, CloseInvariant
<1>13. CASE ~raises
  <2>1. conns' = [conns EXCEPT ![c] = k] /\ active' = active
    BY <1>1, <1>13
  <2>2. /\ conns' \in [Connection -> Conn] /\ conns'[c] = k
        /\ \A d \in Connection \ {c} : conns'[d] = conns[d] /\ Lines(d)' = Lines(d)
        /\ \A i \in Lines(c)' : \E j \in Lines(c) : conns'[c].inbox[i] = conns[c].inbox[j]
        /\ Inboxes' /\ InOrder'
    BY <1>1, <1>3, <2>1, ReadStep
  <2>3. LinkTypeOK'
    BY <1>1, <1>7, <2>1, <2>2 DEF IInv, LinkTypeOK, Conn, Connection, Line
  <2>4. Simulator' /\ \A d \in Connection : Open(d)' <=> Open(d)
    BY <1>1, <1>3, <1>7, <2>1, ReadFacts
  <2>5. Handlers'
    <3>1. \A d \in Connection : conns'[d].server = "backlog" => conns[d].server = "backlog"
      BY <1>1, <1>3, <2>2
    <3>2. \E d \in Connection : conns'[d].server = "stream"
      BY <1>3, <2>2
    <3>3. QED
      BY <1>1, <1>7, <2>1, <2>4, <3>1, <3>2 DEF IInv, Handlers
  <2>6. Scene'
    <3>1. \A i \in Lines(c) : Before(Shown, s[i])
      BY <1>1 DEF IInv, Scene
    <3>2. ASSUME NEW i \in Lines(c)'
          PROVE  conns'[c].inbox[i].run = exec'.run /\ conns'[c].inbox[i].sequence > exec'.segment
      <4>1. i \in 1..Len(Tail(s)) /\ conns'[c].inbox[i] = Tail(s)[i]
        BY <1>3, <2>2, <3>2 DEF Lines
      <4>2. /\ i + 1 \in Lines(c) /\ conns'[c].inbox[i] = s[i + 1]
            /\ s[i + 1].run = s[1].run /\ s[1].sequence < s[i + 1].sequence
        BY <1>2, <4>1
      <4>3. s[i + 1].sequence \in Nat /\ exec.run \in Nat /\ s[1].run \in Nat /\ exec.segment \in Nat
        <5>1. s[i + 1].sequence \in 0..MaxSequence
          BY <4>2, ConnFacts DEF IInv
        <5>2. exec.run \in 0..MaxRuns /\ s[1].run \in 1..MaxRuns /\ exec.segment \in 0..MaxSequence
          BY <1>2, <1>6
        <5>3. QED
          BY <5>1, <5>2, LinkAssumption
      <4>4. exec.run = s[1].run => exec.segment < s[i + 1].sequence
        BY <1>4, <3>1, <4>2, <4>3 DEF Before, Shown
      <4>5. s[i + 1].sequence > exec'.segment
        BY <1>4, <1>8, <4>2, <4>3, <4>4
      <4>6. QED
        BY <1>7, <4>2, <4>5
    <3>3. ASSUME NEW d \in Connection, NEW i \in Lines(d)'
          PROVE  /\ conns'[d].server = "stream" => /\ conns'[d].inbox[i].run = exec'.run
                                                   /\ conns'[d].inbox[i].sequence > exec'.segment
                 /\ conns'[d].server # "stream" => Before(Shown', conns'[d].inbox[i])
      <4>1. CASE d = c
        BY <1>3, <2>2, <3>2, <3>3, <4>1
      <4>2. CASE d # c
        BY <1>11, <2>2, <3>3, <4>2
      <4>3. QED
        BY <4>1, <4>2
    <3>4. records_rejected' = 0
      BY <1>1 DEF IInv, Scene
    <3>5. QED
      BY <1>1, <1>9, <1>10, <3>3, <3>4 DEF Scene, Before
  <2>7. QED
    BY <2>2, <2>3, <2>4, <2>5, <2>6 DEF IInv
<1>14. QED
  BY <1>12, <1>13

LEMMA ReadSegmentInvariant ==
  ASSUME IInv, NEW c \in Connection, ReadSegment(c)
  PROVE  IInv'
<1> DEFINE s == conns[c].inbox
<1> DEFINE k == [conns[c] EXCEPT !.inbox = Tail(@)]
<1> DEFINE raises == Raises(AcceptSegment(s[1]), last_frame)
<1>1. /\ conns[c].server = "stream" /\ s # << >> /\ conns[c] \in Conn /\ Open(c)
      /\ ProcessSegment(c, Head(s))
      /\ UNCHANGED <<waiting, taken, last, run, next_sequence, client, header_written,
                     opened, visualizers>>
  BY ConnFacts DEF IInv, ReadSegment, vars, simulator, Open
<1>2. /\ Head(s) = s[1] /\ s[1] \in Line /\ s[1].run \in 1..MaxRuns
      /\ s[1].sequence \in 0..MaxSequence /\ Tail(s) \in Seq(Line) /\ 1 \in Lines(c)
      /\ \A i \in 1..Len(Tail(s)) :
           /\ i + 1 \in Lines(c) /\ Tail(s)[i] = s[i + 1]
           /\ Tail(s)[i].run = s[1].run /\ s[1].sequence < Tail(s)[i].sequence
      /\ \A d \in Connection \ {c} : \A i \in Lines(d) :
           conns[d].server = "backlog" /\ Before(s[1], conns[d].inbox[i])
  BY <1>1, HeadFacts
<1>3. k \in Conn /\ k.server = "stream" /\ k.inbox = Tail(s)
  BY <1>1, <1>2 DEF Conn
<1> HIDE DEF k
<1>4. s[1].run = exec.run /\ s[1].sequence > exec.segment
  BY <1>1, <1>2 DEF IInv, Scene
<1>5. exec.connected
  BY <1>1 DEF IInv, Handlers
<1>6. /\ exec' = [AcceptSegment(s[1]) EXCEPT !.connected = ~raises]
      /\ last_frame' = ~raises
      /\ received' = received + 1 /\ records_rejected' = records_rejected
      /\ raises => Close(c) /\ Release
      /\ ~raises => conns' = [conns EXCEPT ![c].inbox = Tail(@)] /\ active' = active
  <2>1. Acceptable(s[1])
    BY <1>4, <1>5 DEF Acceptable
  <2>2. ProcessSegment(c, s[1])
    BY <1>1, <1>2
  <2>3. QED
    BY <2>1, <2>2 DEF ProcessSegment
<1>7. exec \in [run : 0..MaxRuns, segment : 0..MaxSequence, connected : BOOLEAN,
                missing : 0..(MaxSequence - 1)] /\ received \in 0..MaxSequence
  BY DEF IInv, LinkTypeOK
<1>8. /\ exec'.run = exec.run /\ exec'.segment = s[1].sequence /\ exec'.connected = ~raises
      /\ exec'.missing = exec.missing + (s[1].sequence - exec.segment - 1)
      /\ exec' = [run |-> exec.run, segment |-> exec'.segment,
                  connected |-> ~raises, missing |-> exec'.missing]
      /\ raises \in BOOLEAN
  BY <1>6, <1>7 DEF AcceptSegment, Gap, Raises
<1>9. /\ exec'.segment = received' + exec'.missing /\ received' # 0
      /\ exec'.segment \in 0..MaxSequence /\ received' \in 0..MaxSequence
      /\ exec'.missing \in 0..(MaxSequence - 1)
  <2>1. exec.segment = received + exec.missing
    BY DEF IInv, Scene
  <2>2. /\ exec.segment \in 0..MaxSequence /\ exec.missing \in 0..(MaxSequence - 1)
        /\ received \in 0..MaxSequence /\ MaxSequence \in Nat
    BY <1>7, LinkAssumption
  <2>3. s[1].sequence \in Nat /\ s[1].sequence <= MaxSequence /\ exec.segment < s[1].sequence
    BY <1>2, <1>4, <2>2
  <2> DEFINE q == s[1].sequence
  <2>4. received' = received + 1 /\ exec'.segment = q
        /\ exec'.missing = exec.missing + (q - exec.segment - 1)
    BY <1>6, <1>8
  <2> HIDE DEF q
  <2>5. q \in Nat /\ q <= MaxSequence /\ exec.segment < q
    BY <2>3 DEF q
  <2>6. q = (received + 1) + (exec.missing + (q - exec.segment - 1))
    BY <2>1, <2>2, <2>5
  <2>7. exec.missing + (q - exec.segment - 1) \in 0..(MaxSequence - 1)
        /\ received + 1 \in 1..MaxSequence
    BY <2>1, <2>2, <2>5, <2>6
  <2>8. QED
    BY <2>2, <2>4, <2>5, <2>6, <2>7
<1>10. exec' \in [run : 0..MaxRuns, segment : 0..MaxSequence, connected : BOOLEAN,
                  missing : 0..(MaxSequence - 1)]
  BY <1>7, <1>8, <1>9
<1>11. records_rejected' = 0 /\ UNCHANGED records_rejected
  BY <1>6 DEF IInv, Scene
<1>12. exec'.run <= run /\ (exec'.run = run => exec'.segment <= last)
  <2>1. exec.run <= run
    BY DEF IInv, Scene
  <2>2. s[1].run < run \/ (s[1].run = run /\ s[1].sequence <= last)
    <3>1. \A i \in Lines(c) : s[i].run < run \/ (s[i].run = run /\ s[i].sequence <= last)
      BY DEF IInv, Inboxes
    <3>2. QED
      BY <1>2, <3>1
  <2>3. run \in 1..MaxRuns
    BY DEF IInv, LinkTypeOK
  <2>4. ~(run < run)
    BY <2>3, LinkAssumption
  <2>5. QED
    BY <1>4, <1>8, <2>1, <2>2, <2>4
<1>13. ASSUME NEW d \in Connection \ {c}, NEW i \in Lines(d)
       PROVE  conns[d].server # "stream" /\ Before(Shown', conns[d].inbox[i])
  <2>1. conns[d].server = "backlog" /\ Before(s[1], conns[d].inbox[i])
    BY <1>2
  <2>2. Shown'.run = s[1].run /\ Shown'.sequence = s[1].sequence
    BY <1>4, <1>8 DEF Shown
  <2>3. QED
    BY <2>1, <2>2 DEF Before
<1>14. last_frame' \in BOOLEAN
  BY <1>6, <1>8
<1> HIDE DEF raises
<1>15. CASE raises
  <2>1. Close(c) /\ Release
    BY <1>6, <1>15
  <2>2. ~exec'.connected
    BY <1>8, <1>15
  <2>3. exec'.segment = received' + exec'.missing /\ (received' = 0 => exec'.segment = 0)
    BY <1>9
  <2>4. QED
    BY <1>1, <1>9, <1>10, <1>11, <1>12, <1>13, <1>14, <2>1, <2>2, <2>3, CloseInvariant
<1>16. CASE ~raises
  <2>1. conns' = [conns EXCEPT ![c] = k] /\ active' = active
    <3>1. conns' = [conns EXCEPT ![c].inbox = Tail(@)] /\ active' = active
      BY <1>6, <1>16
    <3>2. [conns EXCEPT ![c].inbox = Tail(@)] = [conns EXCEPT ![c] = k]
      BY DEF IInv, LinkTypeOK, k
    <3>3. QED
      BY <3>1, <3>2
  <2>2. /\ conns' \in [Connection -> Conn] /\ conns'[c] = k
        /\ \A d \in Connection \ {c} : conns'[d] = conns[d] /\ Lines(d)' = Lines(d)
        /\ \A i \in Lines(c)' : \E j \in Lines(c) : conns'[c].inbox[i] = conns[c].inbox[j]
        /\ Inboxes' /\ InOrder'
    BY <1>1, <1>3, <2>1, ReadStep
  <2>3. LinkTypeOK'
    BY <1>1, <1>9, <1>10, <1>11, <1>14, <2>1, <2>2 DEF IInv, LinkTypeOK, Conn, Connection, Line
  <2>4. Simulator' /\ \A d \in Connection : Open(d)' <=> Open(d)
    BY <1>1, <1>3, <1>4, <1>8, <2>1, ReadFacts
  <2>5. Handlers'
    <3>1. \A d \in Connection : conns'[d].server = "backlog" => conns[d].server = "backlog"
      BY <1>1, <1>3, <2>2
    <3>2. (\E d \in Connection : conns'[d].server = "stream") /\ exec'.connected
      BY <1>3, <1>8, <1>16, <2>2
    <3>3. QED
      BY <1>1, <2>1, <2>4, <3>1, <3>2 DEF IInv, Handlers
  <2>6. Scene'
    <3>1. ASSUME NEW i \in Lines(c)'
          PROVE  conns'[c].inbox[i].run = exec'.run /\ conns'[c].inbox[i].sequence > exec'.segment
      <4>1. i \in 1..Len(Tail(s)) /\ conns'[c].inbox[i] = Tail(s)[i]
        BY <1>3, <2>2, <3>1 DEF Lines
      <4>2. QED
        BY <1>2, <1>4, <1>8, <4>1
    <3>2. ASSUME NEW d \in Connection, NEW i \in Lines(d)'
          PROVE  /\ conns'[d].server = "stream" => /\ conns'[d].inbox[i].run = exec'.run
                                                   /\ conns'[d].inbox[i].sequence > exec'.segment
                 /\ conns'[d].server # "stream" => Before(Shown', conns'[d].inbox[i])
      <4>1. CASE d = c
        BY <1>3, <2>2, <3>1, <3>2, <4>1
      <4>2. CASE d # c
        BY <1>13, <2>2, <3>2, <4>2
      <4>3. QED
        BY <4>1, <4>2
    <3>3. QED
      BY <1>1, <1>9, <1>11, <1>12, <3>2 DEF Scene, Before
  <2>7. QED
    BY <2>2, <2>3, <2>4, <2>5, <2>6 DEF IInv
<1>17. QED
  BY <1>15, <1>16

LEMMA EndInvariant ==
  ASSUME IInv, NEW c \in Connection, EndClient(c)
  PROVE  IInv'
<1>1. /\ Open(c) /\ Close(c) /\ Release
      /\ exec' = [exec EXCEPT !.connected = (@ /\ conns[c].server # "stream")]
      /\ UNCHANGED <<waiting, taken, last, run, next_sequence, client, header_written,
                     opened, visualizers, records_rejected, received, last_frame>>
  BY DEF EndClient, Open, Disconnect, vars, simulator
<1>2. /\ exec \in [run : 0..MaxRuns, segment : 0..MaxSequence, connected : BOOLEAN,
                    missing : 0..(MaxSequence - 1)]
      /\ received \in 0..MaxSequence /\ last_frame \in BOOLEAN
  BY DEF IInv, LinkTypeOK
<1>3. /\ exec'.run = exec.run /\ exec'.segment = exec.segment /\ exec'.missing = exec.missing
      /\ exec'.connected = (exec.connected /\ conns[c].server # "stream")
      /\ exec' \in [run : 0..MaxRuns, segment : 0..MaxSequence, connected : BOOLEAN,
                    missing : 0..(MaxSequence - 1)]
  BY <1>1, <1>2
<1>4. exec'.connected => Raises(exec', last_frame')
  <2>1. SUFFICES ASSUME exec'.connected PROVE Raises(exec', last_frame')
    OBVIOUS
  <2>2. exec.connected /\ conns[c].server # "stream"
    BY <1>3, <2>1
  <2>3. \A d \in Connection : conns[d].server # "stream"
    BY <1>1, <2>2 DEF IInv, Handlers, Open
  <2>4. Raises(exec, last_frame)
    BY <2>2, <2>3 DEF IInv, Handlers
  <2>5. QED
    BY <1>1, <1>3, <2>1, <2>4 DEF Raises
<1>5. Shown' = Shown
  BY <1>3 DEF Shown
<1>6. /\ exec'.segment = received' + exec'.missing /\ (received' = 0 => exec'.segment = 0)
      /\ exec'.run <= run /\ (exec'.run = run => exec'.segment <= last)
  BY <1>1, <1>3 DEF IInv, Scene
<1>7. QED
  BY <1>1, <1>2, <1>3, <1>4, <1>5, <1>6, CloseInvariant

LEMMA RestartVisualizerInvariant == IInv /\ RestartVisualizer => IInv'
<1> SUFFICES ASSUME IInv, RestartVisualizer PROVE IInv'
  OBVIOUS
<1>1. /\ visualizers < MaxVisualizers /\ visualizers' = visualizers + 1
      /\ active' = FALSE /\ exec' = NoExecution /\ received' = 0 /\ last_frame' = FALSE
      /\ UNCHANGED <<waiting, taken, last, run, next_sequence, client, header_written,
                     opened, records_rejected>>
  BY DEF RestartVisualizer, vars, simulator
<1>2. ASSUME NEW c \in Connection
      PROVE  /\ conns'[c] \in Conn /\ conns'[c].inbox = << >> /\ Lines(c)' = {}
             /\ conns'[c].server \in {"none", "closed"}
             /\ conns'[c].server = "none" <=> conns[c].server = "none"
  <2>1. conns'[c] = IF conns[c].server = "none" THEN conns[c]
                    ELSE [NoConnection EXCEPT !.server = "closed", !.end = conns[c].end]
    BY DEF RestartVisualizer
  <2>2. conns[c] \in Conn /\ (conns[c].server = "none" => conns[c].inbox = << >>)
    BY ConnFacts DEF IInv, Inboxes
  <2>3. << >> \in Seq(Line) /\ 0 \in 0..MaxSequence
    BY LinkAssumption
  <2>4. CASE conns[c].server = "none"
    BY <2>1, <2>2, <2>4 DEF Lines
  <2>5. CASE conns[c].server # "none"
    <3>1. conns'[c] = [server |-> "closed", end |-> conns[c].end, inbox |-> << >>, partial |-> 0]
      BY <2>1, <2>5 DEF NoConnection
    <3>2. QED
      BY <2>2, <2>3, <2>5, <3>1 DEF Conn, Lines
  <2>6. QED
    BY <2>4, <2>5
<1>3. conns' \in [Connection -> Conn]
  BY <1>2 DEF RestartVisualizer
<1>4. LinkTypeOK'
  <2>1. exec' \in [run : 0..MaxRuns, segment : 0..MaxSequence, connected : BOOLEAN,
                   missing : 0..(MaxSequence - 1)]
    <3>1. 0 \in 0..MaxSequence /\ 0 \in 0..(MaxSequence - 1) /\ 0 \in 0..MaxRuns
      BY LinkAssumption
    <3>2. QED
      BY <1>1, <3>1 DEF NoExecution
  <2>2. visualizers' \in 1..MaxVisualizers /\ received' \in 0..MaxSequence
    BY <1>1, LinkAssumption DEF IInv, LinkTypeOK
  <2>3. active' \in BOOLEAN /\ last_frame' \in BOOLEAN
    BY <1>1
  <2>4. QED
    BY <1>1, <1>3, <2>1, <2>2, <2>3 DEF IInv, LinkTypeOK, Conn, Connection, Line
<1>5. Simulator'
  <2>1. ASSUME client # 0
        PROVE  /\ client' \in Connection /\ client' = client /\ Lines(client)' = {}
               /\ conns'[client].server \in {"none", "closed"}
    <3>1. client = opened /\ opened \in 0..MaxConnections
      BY <2>1 DEF IInv, Simulator, LinkTypeOK
    <3>2. client \in Connection /\ client' = client
      BY <1>1, <2>1, <3>1, LinkAssumption DEF Connection
    <3>3. QED
      BY <1>2, <3>2 DEF Lines
  <2>2. QED
    BY <1>1, <2>1 DEF IInv, Simulator
<1>6. Inboxes' /\ InOrder'
  <2>1. Inboxes'
    BY <1>1, <1>2 DEF IInv, Inboxes
  <2>2. InOrder'
    BY <1>2 DEF InOrder
  <2>3. QED
    BY <2>1, <2>2
<1>7. Handlers'
  BY <1>1, <1>2 DEF Handlers, Open, NoExecution
<1>8. Scene'
  <2>1. /\ exec'.run = 0 /\ exec'.segment = 0 /\ exec'.missing = 0
    BY <1>1 DEF NoExecution
  <2>2. run \in 1..MaxRuns /\ last \in 0..MaxSequence
    BY DEF IInv, LinkTypeOK, Simulator
  <2>3. 0 <= run /\ 0 <= last
    BY <2>2, LinkAssumption
  <2>4. QED
    BY <1>1, <1>2, <2>1, <2>3 DEF IInv, Scene
<1>9. QED
  BY <1>4, <1>5, <1>6, <1>7, <1>8 DEF IInv

LEMMA StutterInvariant == IInv /\ UNCHANGED allVars => IInv'
<1> SUFFICES ASSUME IInv, UNCHANGED allVars PROVE IInv'
  OBVIOUS
<1>1. UNCHANGED <<waiting, taken, last, run, next_sequence, client, header_written, opened,
                  conns, visualizers, active, exec, records_rejected, received, last_frame>>
  BY DEF allVars, vars, link, simulator, visualizer
<1>2. LinkTypeOK'
  BY <1>1 DEF IInv, LinkTypeOK, Connection, Line
<1>3. Simulator'
  BY <1>1 DEF IInv, Simulator, Lines
<1>4. QED
  BY <1>1, <1>2, <1>3, QuietStep DEF IInv

-----------------------------------------------------------------------------
(* Every reachable state satisfies the inductive invariant. *)
THEOREM Inductive == LinkSpec => []IInv
<1>1. LinkInit => IInv
  BY InitInvariant
<1>2. IInv /\ [LinkNext]_allVars => IInv'
  <2> SUFFICES ASSUME IInv, [LinkNext]_allVars PROVE IInv'
    OBVIOUS
  <2>1. CASE Publish
    BY <2>1, PublishInvariant
  <2>2. CASE Connect
    BY <2>2, ConnectInvariant
  <2>3. CASE WriteHeader
    BY <2>3, WriteHeaderInvariant
  <2>4. CASE TakeSegment
    BY <2>4, TakeInvariant
  <2>5. CASE WriteSegment
    BY <2>5, WriteSegmentInvariant
  <2>6. CASE EncodeFails
    BY <2>6, EncodeInvariant
  <2>7. CASE ConnectionFails
    BY <2>7, FailsInvariant
  <2>8. CASE RestartSimulator
    BY <2>8, RestartInvariant
  <2>9. ASSUME NEW c \in Connection, Handler(c) PROVE IInv'
    <3>1. CASE HandleClient(c)
      BY <3>1, HandleInvariant
    <3>2. CASE ReadHeader(c)
      BY <3>2, ReadHeaderInvariant
    <3>3. CASE ReadSegment(c)
      BY <3>3, ReadSegmentInvariant
    <3>4. CASE EndClient(c)
      BY <3>4, EndInvariant
    <3>5. QED
      BY <2>9, <3>1, <3>2, <3>3, <3>4 DEF Handler
  <2>10. CASE RestartVisualizer
    BY <2>10, RestartVisualizerInvariant
  <2>11. CASE UNCHANGED allVars
    BY <2>11, StutterInvariant
  <2>12. QED
    BY <2>1, <2>2, <2>3, <2>4, <2>5, <2>6, <2>7, <2>8, <2>9, <2>10, <2>11 DEF LinkNext
<1>3. QED
  BY <1>1, <1>2, PTL DEF LinkSpec

(* The variables keep their types, lines and connections included. *)
THEOREM TypeCorrect == LinkSpec => []LinkTypeOK
<1>1. IInv => LinkTypeOK
  BY DEF IInv
<1>2. QED
  BY <1>1, Inductive, PTL

(* accept_segment's guards meet no segment they refuse, however often      *)
(* either side restarts or a connection ends.                              *)
THEOREM NothingRejectedCorrect == LinkSpec => []NothingRejected
<1>1. IInv => NothingRejected
  BY DEF IInv, Scene, NothingRejected
<1>2. QED
  BY <1>1, Inductive, PTL

(* The scene accounts for every sequence number of its run and is never    *)
(* ahead of what the publisher counts as sent; it is connected only while  *)
(* a producer is, or for a run whose first segment the camera could not    *)
(* take.                                                                   *)
THEOREM AccountingCorrect == LinkSpec => []SceneAccounting
<1>1. ASSUME IInv PROVE SceneAccounting
  <2>1. exec.connected => active \/ Raises(exec, last_frame)
    BY <1>1 DEF IInv, Handlers, Open
  <2>2. QED
    BY <1>1, <2>1 DEF IInv, Scene, SceneAccounting
<1>2. QED
  BY <1>1, Inductive, PTL
=============================================================================
