---------------------------- MODULE SimulatorProofs ---------------------------
(***************************************************************************)
(* Proofs about how the simulator's scans get out.  S2eEndpoint, for any   *)
(* peers, capsule size and rotations of any lengths: the type invariant    *)
(* with the bound on the tail, the separation of streams, the absence of   *)
(* lost scans and the refinement of CapsuleStream, all from one inductive  *)
(* invariant.  SimulatorRun, for every window and number of signals: the   *)
(* type invariant, the order in which batches reach the endpoints and the  *)
(* scene publisher, and that a summary implies a generation and endpoints  *)
(* without failure.                                                        *)
(***************************************************************************)
EXTENDS S2eEndpoint, SimulatorRun, SequenceTheorems, TLAPS

(* A sequence of consecutive samples. *)
Consecutive(s) == \A i \in 1..Len(s) : s[i] = s[1] + i - 1

(* What the encoder holds: consecutive samples that end where its last     *)
(* scan ends, and the beginning of the next capsule of the stream.         *)
Encoded ==
  /\ last_scan_id = 0 => nodes = <<>> /\ capsule = <<>>
  /\ Consecutive(nodes)
  /\ nodes # <<>> => /\ nodes[Len(nodes)] = FirstSample[last_scan_id + 1] - 1
                     /\ nodes[1] \in Stream!NextStart
  /\ capsule # <<>> => /\ Len(capsule) = NodesPerCapsule
                       /\ capsule[NodesPerCapsule] < FirstSample[last_scan_id + 1]

(* Where the task is determines which scan it is at. *)
Positions ==
  /\ task = "send" => last_scan_id = seen /\ last_scan_id # 0
  /\ task = "answer" => ~streaming

IInv == TypeOK /\ StreamsAreSeparate /\ NothingForgotten /\ Encoded /\ Positions

-----------------------------------------------------------------------------
(* Lemmas about sequences of consecutive samples. *)

(* A scan's samples are consecutive, from its first to the next scan's. *)
LEMMA SamplesFacts ==
  ASSUME NEW scan \in Scan
  PROVE  /\ Samples(scan) \in Seq(Nat)
         /\ Len(Samples(scan)) = SampleCount(scan)
         /\ SampleCount(scan) \in Nat \ {0}
         /\ Consecutive(Samples(scan))
         /\ Samples(scan)[1] = FirstSample[scan]
         /\ Samples(scan)[Len(Samples(scan))] = FirstSample[scan + 1] - 1
         /\ Samples(scan) # <<>>
<1>1. /\ scan \in 1..(MaxScan + 1) /\ scan + 1 \in 1..(MaxScan + 1)
      /\ FirstSample[scan] \in Nat \ {0} /\ FirstSample[scan + 1] \in Nat \ {0}
      /\ FirstSample[scan] < FirstSample[scan + 1]
  BY ConstantsAssumption DEF Scan
<1>2. SampleCount(scan) \in Nat \ {0}
  BY <1>1 DEF SampleCount
<1>3. \A i \in 1..SampleCount(scan) : FirstSample[scan] + i - 1 \in Nat
  BY <1>1, <1>2
<1>4. Samples(scan) \in Seq(Nat) /\ Len(Samples(scan)) = SampleCount(scan)
  BY <1>2, <1>3 DEF Samples
<1>5. \A i \in 1..SampleCount(scan) : Samples(scan)[i] = FirstSample[scan] + i - 1
  BY DEF Samples
<1>6. 1 \in 1..SampleCount(scan) /\ SampleCount(scan) \in 1..SampleCount(scan)
  BY <1>2
<1>7. Samples(scan)[1] = FirstSample[scan]
  BY <1>1, <1>5, <1>6
<1>8. Samples(scan)[SampleCount(scan)] = FirstSample[scan + 1] - 1
  BY <1>1, <1>5, <1>6 DEF SampleCount
<1>9. Consecutive(Samples(scan))
  BY <1>1, <1>4, <1>5, <1>7 DEF Consecutive
<1>10. Samples(scan) # <<>>
  BY <1>2, <1>4
<1>11. QED
  BY <1>2, <1>4, <1>7, <1>8, <1>9, <1>10

(* Two adjoining runs of samples make one. *)
LEMMA JoinFacts ==
  ASSUME NEW s \in Seq(Nat), NEW t \in Seq(Nat), s # <<>>, t # <<>>,
         Consecutive(s), Consecutive(t), t[1] = s[Len(s)] + 1
  PROVE  /\ s \o t \in Seq(Nat) /\ s \o t # <<>>
         /\ Consecutive(s \o t)
         /\ (s \o t)[1] = s[1]
         /\ (s \o t)[Len(s \o t)] = t[Len(t)]
<1>1. /\ s \o t \in Seq(Nat) /\ Len(s \o t) = Len(s) + Len(t)
      /\ \A i \in 1..(Len(s) + Len(t)) : (s \o t)[i] = IF i <= Len(s) THEN s[i] ELSE t[i - Len(s)]
  BY ConcatProperties
<1>2. Len(s) \in Nat \ {0} /\ Len(t) \in Nat \ {0}
  OBVIOUS
<1>3. (s \o t)[1] = s[1] /\ (s \o t)[Len(s) + Len(t)] = t[Len(t)]
  BY <1>1, <1>2
<1>4. s[Len(s)] = s[1] + Len(s) - 1 /\ s[1] \in Nat
  BY <1>2 DEF Consecutive
<1>5. ASSUME NEW i \in 1..(Len(s) + Len(t)) PROVE (s \o t)[i] = s[1] + i - 1
  <2>1. CASE i <= Len(s)
    BY <1>1, <1>2, <2>1 DEF Consecutive
  <2>2. CASE i > Len(s)
    <3>1. i - Len(s) \in 1..Len(t)
      BY <1>2, <2>2
    <3>2. t[i - Len(s)] = t[1] + (i - Len(s)) - 1
      BY <3>1 DEF Consecutive
    <3>3. (s \o t)[i] = t[i - Len(s)]
      BY <1>1, <1>2, <2>2
    <3>4. t[1] = s[1] + Len(s)
      BY <1>2, <1>4
    <3>5. i \in Int /\ Len(s) \in Int /\ s[1] \in Int
      BY <1>2, <1>4
    <3>6. t[1] + (i - Len(s)) - 1 = s[1] + i - 1
      BY <3>4, <3>5
    <3>7. QED
      BY <3>2, <3>3, <3>6
  <2>3. QED
    BY <1>2, <2>1, <2>2
<1>6. Consecutive(s \o t)
  BY <1>1, <1>3, <1>5 DEF Consecutive
<1>7. QED
  BY <1>1, <1>2, <1>3, <1>6

(* The first n of some consecutive samples, and the others. *)
LEMMA CutFacts ==
  ASSUME NEW s \in Seq(Nat), Consecutive(s), NEW n \in Nat \ {0}, Len(s) >= n
  PROVE  /\ SubSeq(s, 1, n) = [i \in 1..n |-> s[1] + i - 1]
         /\ SubSeq(s, 1, n) \in Seq(Nat) /\ Len(SubSeq(s, 1, n)) = n
         /\ SubSeq(s, 1, n)[n] = s[1] + n - 1
         /\ SubSeq(s, n + 1, Len(s)) \in Seq(Nat)
         /\ Len(SubSeq(s, n + 1, Len(s))) = Len(s) - n
         /\ Consecutive(SubSeq(s, n + 1, Len(s)))
         /\ s[1] + n - 1 <= s[Len(s)]
         /\ SubSeq(s, n + 1, Len(s)) # <<>> =>
              /\ SubSeq(s, n + 1, Len(s))[1] = s[1] + n
              /\ SubSeq(s, n + 1, Len(s))[Len(SubSeq(s, n + 1, Len(s)))] = s[Len(s)]
<1> DEFINE rest == SubSeq(s, n + 1, Len(s))
<1>1. Len(s) \in Nat \ {0} /\ \A i \in 1..Len(s) : s[i] \in Nat /\ s[i] = s[1] + i - 1
  BY DEF Consecutive
<1>0. s[1] \in Nat /\ s[Len(s)] = s[1] + Len(s) - 1
  <2>1. 1 \in 1..Len(s) /\ Len(s) \in 1..Len(s)
    BY <1>1
  <2>2. QED
    BY <1>1, <2>1
<1>2. /\ SubSeq(s, 1, n) \in Seq(Nat) /\ Len(SubSeq(s, 1, n)) = n
      /\ \A i \in 1..n : SubSeq(s, 1, n)[i] = s[1] + i - 1
  <2>1. \A i \in 1..n : s[i] \in Nat
    BY <1>1
  <2>2. /\ SubSeq(s, 1, n) \in Seq(Nat)
        /\ Len(SubSeq(s, 1, n)) = IF 1 <= n THEN n - 1 + 1 ELSE 0
        /\ \A i \in 1..(n - 1 + 1) : SubSeq(s, 1, n)[i] = s[1 + i - 1]
    BY <2>1, SubSeqProperties
  <2>3. QED
    BY <1>1, <2>2
<1>3. SubSeq(s, 1, n) = [i \in 1..n |-> s[1] + i - 1]
  BY <1>2
<1>4. SubSeq(s, 1, n)[n] = s[1] + n - 1
  BY <1>2
<1>5. /\ rest \in Seq(Nat) /\ Len(rest) = Len(s) - n
      /\ \A i \in 1..(Len(s) - n) : rest[i] = s[n + i]
  <2>1. \A i \in (n + 1)..Len(s) : s[i] \in Nat
    BY <1>1
  <2>2. /\ rest \in Seq(Nat)
        /\ Len(rest) = IF n + 1 <= Len(s) THEN Len(s) - (n + 1) + 1 ELSE 0
        /\ \A i \in 1..(Len(s) - (n + 1) + 1) : rest[i] = s[(n + 1) + i - 1]
    BY <1>1, <2>1, SubSeqProperties
  <2>3. QED
    BY <1>1, <2>2
<1> HIDE DEF rest
<1>6. \A i \in 1..Len(rest) : rest[i] = s[1] + n + i - 1
  <2> SUFFICES ASSUME NEW i \in 1..(Len(s) - n) PROVE rest[i] = s[1] + n + i - 1
    BY <1>5
  <2>1. n + i \in 1..Len(s) /\ i \in Int
    BY <1>1
  <2>2. rest[i] = s[n + i] /\ s[n + i] = s[1] + (n + i) - 1
    BY <1>1, <1>5, <2>1
  <2>3. QED
    BY <1>0, <2>1, <2>2
<1>7. rest # <<>> => rest[1] = s[1] + n /\ rest[Len(rest)] = s[Len(s)]
  <2> SUFFICES ASSUME rest # <<>> PROVE rest[1] = s[1] + n /\ rest[Len(rest)] = s[Len(s)]
    OBVIOUS
  <2>1. Len(rest) \in 1..Len(rest) /\ 1 \in 1..Len(rest)
    BY <1>5
  <2>2. QED
    <3>1. rest[1] = s[1] + n + 1 - 1 /\ rest[Len(rest)] = s[1] + n + Len(rest) - 1
      BY <1>6, <2>1
    <3>2. Len(s) \in Int /\ s[1] \in Int /\ Len(rest) = Len(s) - n
      BY <1>0, <1>1, <1>5
    <3>3. s[1] + n + 1 - 1 = s[1] + n /\ s[1] + n + Len(rest) - 1 = s[1] + Len(s) - 1
      BY <3>2
    <3>4. QED
      BY <1>0, <3>1, <3>3
<1>8. Consecutive(rest)
  <2>1. CASE rest = <<>>
    BY <2>1 DEF Consecutive
  <2>2. CASE rest # <<>>
    <3> SUFFICES ASSUME NEW i \in 1..Len(rest) PROVE rest[i] = rest[1] + i - 1
      BY DEF Consecutive
    <3>1. i \in Int
      BY <1>5
    <3>2. rest[i] = s[1] + n + i - 1 /\ rest[1] = s[1] + n
      BY <1>6, <1>7, <2>2
    <3>3. QED
      BY <1>0, <3>1, <3>2
  <2>3. QED
    BY <2>1, <2>2
<1>9. s[1] + n - 1 <= s[Len(s)]
  BY <1>0, <1>1
<1>10. QED
  BY <1>2, <1>3, <1>4, <1>5, <1>7, <1>8, <1>9 DEF rest

-----------------------------------------------------------------------------
(* The initial state satisfies the inductive invariant. *)
LEMMA InitIInv == Init => IInv
<1> SUFFICES ASSUME Init PROVE IInv
  OBVIOUS
<1>1. TypeOK
  <2>1. /\ 0 \in 0..MaxScan /\ 0 \in 0..0 /\ 0 \in 0..MaxDatagrams
        /\ 0 < NodesPerCapsule
    BY ConstantsAssumption
  <2>2. <<>> \in Seq(Datagram) /\ <<>> \in Seq(Nat) /\ Len(<<>>) = 0
    OBVIOUS
  <2>3. QED
    BY <2>1, <2>2 DEF Init, TypeOK, TaskPoints
<1>2. StreamsAreSeparate /\ NothingForgotten /\ Positions
  BY DEF Init, StreamsAreSeparate, NothingForgotten, Positions
<1>3. Encoded
  BY DEF Init, Encoded, Consecutive
<1>4. QED
  BY <1>1, <1>2, <1>3 DEF IInv

-----------------------------------------------------------------------------
(* The steps that leave the stream and the encoder alone. *)
QuietStep ==
  \/ Publish \/ Close \/ Joined
  \/ \E datagram \in Datagram : Arrive(datagram)
  \/ Stop \/ ReceiveFails \/ RejectMalformed \/ SendFails \/ Answered

LEMMA QuietStepIInv ==
  ASSUME IInv, QuietStep
  PROVE  IInv'
<1> USE DEF IInv, application, network, session, encoder
<1>0. UNCHANGED <<session, encoder, capsule, seen>>
  BY DEF QuietStep, Publish, Close, Joined, Arrive, Stop, ReceiveFails, RejectMalformed,
         SendFails, Answered, Take
<1>1. Encoded'
  BY <1>0 DEF Encoded, Consecutive, Stream!NextStart
<1>2. CASE Publish
  <2>1. TypeOK'
    BY <1>2, ConstantsAssumption DEF Publish, TypeOK
  <2>2. StreamsAreSeparate' /\ Positions'
    BY <1>2 DEF Publish, StreamsAreSeparate, Positions
  <2>3. NothingForgotten'
    BY <1>2 DEF Publish, NothingForgotten, TypeOK
  <2>4. QED
    BY <1>1, <2>1, <2>2, <2>3
<1>3. CASE Close \/ Joined
  <2>1. TypeOK'
    BY <1>3 DEF Close, Joined, TypeOK
  <2>2. StreamsAreSeparate' /\ Positions' /\ NothingForgotten'
    BY <1>3 DEF Close, Joined, StreamsAreSeparate, Positions, NothingForgotten
  <2>3. QED
    BY <1>1, <2>1, <2>2
<1>4. CASE \E datagram \in Datagram : Arrive(datagram)
  <2> PICK datagram \in Datagram : Arrive(datagram)
    BY <1>4
  <2>1. inbox' \in Seq(Datagram) /\ sent' \in 0..MaxDatagrams
    BY ConstantsAssumption DEF Arrive, TypeOK
  <2>2. TypeOK'
    BY <2>1 DEF Arrive, TypeOK
  <2>3. StreamsAreSeparate' /\ Positions' /\ NothingForgotten'
    BY DEF Arrive, StreamsAreSeparate, Positions, NothingForgotten
  <2>4. QED
    BY <1>1, <2>2, <2>3
<1>5. CASE Stop \/ ReceiveFails \/ SendFails
  <2>1. TypeOK'
    BY <1>5 DEF Stop, ReceiveFails, SendFails, AtSelect, TypeOK, TaskPoints
  <2>2. StreamsAreSeparate' /\ Positions' /\ NothingForgotten'
    BY <1>5 DEF Stop, ReceiveFails, SendFails, StreamsAreSeparate, Positions, NothingForgotten
  <2>3. QED
    BY <1>1, <2>1, <2>2
<1>6. CASE RejectMalformed
  <2>1. inbox' \in Seq(Datagram)
    BY <1>6, HeadTailProperties DEF RejectMalformed, Take, TypeOK
  <2>2. TypeOK'
    BY <1>6, <2>1 DEF RejectMalformed, Take, TypeOK
  <2>3. StreamsAreSeparate' /\ Positions' /\ NothingForgotten'
    BY <1>6 DEF RejectMalformed, Take, StreamsAreSeparate, Positions, NothingForgotten
  <2>4. QED
    BY <1>1, <2>2, <2>3
<1>7. CASE Answered
  <2>1. TypeOK'
    BY <1>7 DEF Answered, TypeOK, TaskPoints
  <2>2. StreamsAreSeparate' /\ Positions' /\ NothingForgotten'
    BY <1>7 DEF Answered, StreamsAreSeparate, Positions, NothingForgotten
  <2>3. QED
    BY <1>1, <2>1, <2>2
<1>8. QED
  BY <1>2, <1>3, <1>4, <1>5, <1>6, <1>7 DEF QuietStep

-----------------------------------------------------------------------------
(* A parsed command keeps the stream and the encoder or empties both. *)
LEMMA CommandFacts ==
  ASSUME IInv, EndingCommand \/ NeutralCommand \/ StartScan
  PROVE  /\ inbox' \in Seq(Datagram) /\ active_peer' \in Peer
         /\ task = "select"
         /\ UNCHANGED <<owner, latest, shutdown, sent, seen>>
         /\ \/ UNCHANGED <<last_transmitted_scan_id, nodes, last_scan_id, capsule>>
               /\ active_peer' = active_peer
            \/ /\ last_transmitted_scan_id' = 0 /\ last_scan_id' = 0
               /\ nodes' = <<>> /\ capsule' = <<>>
<1> USE DEF IInv
<1>1. inbox # <<>> /\ inbox' = Tail(inbox) /\ active_peer' = Head(inbox).peer /\ task = "select"
      /\ UNCHANGED <<owner, latest, shutdown, sent, seen>>
  BY DEF EndingCommand, NeutralCommand, StartScan, Take, AtSelect, application
<1>2. inbox' \in Seq(Datagram) /\ Head(inbox) \in Datagram
  BY <1>1, HeadTailProperties DEF TypeOK
<1>3. active_peer' \in Peer
  BY <1>1, <1>2 DEF Datagram
<1>4. \/ UNCHANGED <<last_transmitted_scan_id, nodes, last_scan_id, capsule>>
         /\ active_peer' = active_peer
      \/ /\ last_transmitted_scan_id' = 0 /\ last_scan_id' = 0
         /\ nodes' = <<>> /\ capsule' = <<>>
  <2>1. CASE EndingCommand
    BY <2>1 DEF EndingCommand, EndStream
  <2>2. CASE NeutralCommand
    BY <1>1, <2>2 DEF NeutralCommand, PeerChange, EndStream, encoder
  <2>3. CASE StartScan
    BY <1>1, <2>3 DEF StartScan, encoder
  <2>4. QED
    BY <2>1, <2>2, <2>3
<1>5. QED
  BY <1>1, <1>2, <1>3, <1>4

LEMMA CommandIInv ==
  ASSUME IInv, EndingCommand \/ NeutralCommand \/ StartScan
  PROVE  IInv'
<1> USE DEF IInv
<1>1. streaming' \in BOOLEAN /\ task' \in {"select", "answer", "accept"}
  BY DEF EndingCommand, NeutralCommand, StartScan, EndStream, PeerChange, Take, AtSelect, TypeOK
<1>2. TypeOK'
  <2>1. nodes' \in Seq(Nat) /\ capsule' \in Seq(Nat) /\ Len(nodes') < NodesPerCapsule
        /\ last_transmitted_scan_id' \in 0..latest' /\ last_scan_id' \in 0..latest'
    <3>1. /\ nodes \in Seq(Nat) /\ capsule \in Seq(Nat) /\ Len(nodes) < NodesPerCapsule
          /\ latest' = latest /\ latest \in Nat
      <4>1. latest' = latest
        BY CommandFacts
      <4>2. TypeOK /\ task = "select"
        BY CommandFacts
      <4>3. nodes \in Seq(Nat) /\ capsule \in Seq(Nat) /\ Len(nodes) < NodesPerCapsule
        BY <4>2 DEF TypeOK
      <4>4. latest \in 0..MaxScan /\ MaxScan \in Nat
        BY <4>2, ConstantsAssumption DEF TypeOK
      <4>5. QED
        BY <4>1, <4>3, <4>4
    <3>2. CASE UNCHANGED <<last_transmitted_scan_id, nodes, last_scan_id, capsule>>
      BY <3>1, <3>2 DEF TypeOK
    <3>3. CASE /\ last_transmitted_scan_id' = 0 /\ last_scan_id' = 0
               /\ nodes' = <<>> /\ capsule' = <<>>
      <4>1. <<>> \in Seq(Nat) /\ Len(<<>>) = 0 /\ 0 < NodesPerCapsule /\ 0 \in 0..latest
        BY <3>1, ConstantsAssumption
      <4>2. QED
        BY <3>1, <3>3, <4>1
    <3>4. QED
      BY <3>2, <3>3, CommandFacts
  <2>2. QED
    BY <1>1, <2>1, CommandFacts DEF TypeOK, TaskPoints
<1>3. Encoded'
  <2>1. CASE UNCHANGED <<last_transmitted_scan_id, nodes, last_scan_id, capsule>>
    BY <2>1 DEF Encoded, Consecutive, Stream!NextStart
  <2>2. CASE last_scan_id' = 0 /\ nodes' = <<>> /\ capsule' = <<>>
    BY <2>2 DEF Encoded, Consecutive
  <2>3. QED
    BY <2>1, <2>2, CommandFacts
<1>4. CASE EndingCommand
  <2>1. StreamsAreSeparate' /\ NothingForgotten' /\ Positions'
    BY <1>4, CommandFacts DEF EndingCommand, EndStream, StreamsAreSeparate, NothingForgotten, Positions
  <2>2. QED
    BY <1>2, <1>3, <2>1
<1>5. CASE NeutralCommand
  <2>1. streaming' => UNCHANGED <<streaming, last_transmitted_scan_id, encoder, capsule, active_peer>>
    BY <1>5, CommandFacts DEF NeutralCommand, PeerChange, EndStream
  <2>2. StreamsAreSeparate' /\ NothingForgotten' /\ Positions'
    <3>1. task' = "select"
      BY <1>5, CommandFacts DEF NeutralCommand
    <3>2. CASE streaming'
      BY <2>1, <3>1, <3>2, CommandFacts DEF encoder, StreamsAreSeparate, NothingForgotten, Positions
    <3>3. CASE ~streaming'
      <4>1. last_transmitted_scan_id' = 0 /\ last_scan_id' = 0 /\ nodes' = <<>> /\ capsule' = <<>>
        BY <1>5, <3>3 DEF NeutralCommand, PeerChange, EndStream, encoder, StreamsAreSeparate
      <4>2. QED
        BY <3>1, <3>3, <4>1 DEF StreamsAreSeparate, NothingForgotten, Positions
    <3>4. QED
      BY <3>2, <3>3
  <2>3. QED
    BY <1>2, <1>3, <2>2
<1>6. CASE StartScan
  <2>1. streaming' = TRUE /\ task' = "accept" /\ active_peer' # NoPeer
    BY <1>6, CommandFacts, ConstantsAssumption DEF StartScan
  <2>2. last_scan_id' = last_transmitted_scan_id'
    BY CommandFacts DEF StreamsAreSeparate
  <2>3. StreamsAreSeparate' /\ NothingForgotten' /\ Positions'
    BY <2>1, <2>2 DEF StreamsAreSeparate, NothingForgotten, Positions
  <2>4. QED
    BY <1>2, <1>3, <2>3
<1>7. QED
  BY <1>4, <1>5, <1>6

-----------------------------------------------------------------------------
(* A scan that is encoded continues the tail or begins after the last      *)
(* capsule with a rotation.                                                *)
LEMMA EncodeFacts ==
  ASSUME IInv, NEW scan \in Scan, last_scan_id < scan, Encode(scan)
  PROVE  /\ nodes' \in Seq(Nat) /\ nodes' # <<>> /\ last_scan_id' = scan
         /\ Consecutive(nodes')
         /\ nodes'[Len(nodes')] = FirstSample[scan + 1] - 1
         /\ nodes'[1] \in Stream!NextStart
         /\ capsule # <<>> => /\ Len(capsule) = NodesPerCapsule
                            /\ capsule[NodesPerCapsule] < FirstSample[scan + 1]
<1> USE DEF IInv
<1>1. /\ Samples(scan) \in Seq(Nat) /\ Samples(scan) # <<>>
      /\ Consecutive(Samples(scan))
      /\ Samples(scan)[1] = FirstSample[scan]
      /\ Samples(scan)[Len(Samples(scan))] = FirstSample[scan + 1] - 1
  BY SamplesFacts
<1>2. /\ nodes \in Seq(Nat) /\ last_scan_id \in Nat /\ scan \in Nat \ {0}
      /\ scan \in 1..(MaxScan + 1) /\ scan + 1 \in 1..(MaxScan + 1)
      /\ last_scan_id + 1 \in 1..(MaxScan + 1) /\ last_scan_id + 1 <= scan
  BY ConstantsAssumption DEF TypeOK, Scan
<1>3. /\ FirstSample[scan] \in Nat /\ FirstSample[scan + 1] \in Nat
      /\ FirstSample[last_scan_id + 1] \in Nat
      /\ FirstSample[last_scan_id + 1] <= FirstSample[scan]
      /\ FirstSample[scan] < FirstSample[scan + 1]
  <2>1. FirstSample[scan] < FirstSample[scan + 1]
    BY <1>2, ConstantsAssumption
  <2>2. CASE last_scan_id + 1 = scan
    BY <1>2, <2>1, <2>2, ConstantsAssumption
  <2>3. CASE last_scan_id + 1 < scan
    BY <1>2, <2>1, <2>3, ConstantsAssumption
  <2>4. QED
    BY <1>2, <2>2, <2>3
<1>4. capsule # <<>> => /\ Len(capsule) = NodesPerCapsule
                        /\ capsule[NodesPerCapsule] < FirstSample[scan]
                        /\ capsule[NodesPerCapsule] < FirstSample[scan + 1]
  <2> SUFFICES ASSUME capsule # <<>>
               PROVE  /\ Len(capsule) = NodesPerCapsule
                      /\ capsule[NodesPerCapsule] < FirstSample[scan]
                      /\ capsule[NodesPerCapsule] < FirstSample[scan + 1]
    OBVIOUS
  <2>1. Len(capsule) = NodesPerCapsule /\ capsule[NodesPerCapsule] < FirstSample[last_scan_id + 1]
    BY DEF Encoded
  <2>2. capsule[NodesPerCapsule] \in Nat
    BY <2>1, ConstantsAssumption DEF TypeOK
  <2>3. QED
    BY <1>3, <2>1, <2>2
<1>5. FirstSample[scan] \in Stream!NextStart
  BY <1>4 DEF Stream!NextStart
<1>6. CASE nodes' = Samples(scan)
  BY <1>1, <1>4, <1>5, <1>6 DEF Encode
<1>7. CASE nodes' = nodes \o Samples(scan) /\ nodes = <<>>
  <2>1. nodes' = Samples(scan)
    BY <1>1, <1>7, ConcatEmptySeq
  <2>2. QED
    BY <1>6, <2>1
<1>8. CASE nodes' = nodes \o Samples(scan) /\ nodes # <<>> /\ ~(last_scan_id # 0 /\ scan # last_scan_id + 1)
  <2>1. scan = last_scan_id + 1
    BY <1>8 DEF Encoded
  <2>2. Consecutive(nodes) /\ nodes[Len(nodes)] = FirstSample[scan] - 1 /\ nodes[1] \in Stream!NextStart
    BY <1>8, <2>1 DEF Encoded
  <2>3. Samples(scan)[1] = nodes[Len(nodes)] + 1
    BY <1>1, <1>3, <2>2
  <2>4. /\ nodes' \in Seq(Nat) /\ nodes' # <<>> /\ Consecutive(nodes')
        /\ nodes'[1] = nodes[1]
        /\ nodes'[Len(nodes')] = Samples(scan)[Len(Samples(scan))]
    BY <1>1, <1>2, <1>8, <2>2, <2>3, JoinFacts
  <2>5. QED
    BY <1>1, <1>4, <2>2, <2>4 DEF Encode
<1>9. QED
  BY <1>6, <1>7, <1>8 DEF Encode

(* The two branches that begin to send a scan. *)
LEMMA ScanIInv ==
  ASSUME IInv, Accepted \/ ScanChanged
  PROVE  IInv'
<1> USE DEF IInv
<1>1. /\ UNCHANGED <<owner, latest, shutdown, inbox, sent, active_peer, streaming,
                     last_transmitted_scan_id, capsule>>
      /\ seen' = latest
      /\ last_scan_id = last_transmitted_scan_id
  BY DEF Accepted, ScanChanged, AtSelect, application, network, session, StreamsAreSeparate
<1>2. latest \in Nat /\ latest' = latest /\ last_scan_id \in 0..latest
  BY <1>1, ConstantsAssumption DEF TypeOK
<1>3. CASE Encode(latest) /\ task' = "send" /\ streaming /\ latest # 0 /\ last_transmitted_scan_id # latest
  <2>1. latest \in Scan /\ last_scan_id < latest
    BY <1>1, <1>2, <1>3, ConstantsAssumption DEF TypeOK, Scan
  <2>2. /\ nodes' \in Seq(Nat) /\ nodes' # <<>> /\ last_scan_id' = latest
        /\ Consecutive(nodes')
        /\ nodes'[Len(nodes')] = FirstSample[latest + 1] - 1
        /\ nodes'[1] \in Stream!NextStart
        /\ capsule # <<>> => /\ Len(capsule) = NodesPerCapsule
                           /\ capsule[NodesPerCapsule] < FirstSample[latest + 1]
    BY <1>3, <2>1, EncodeFacts
  <2>3. TypeOK'
    BY <1>1, <1>2, <1>3, <2>2 DEF TypeOK, TaskPoints
  <2>4. Encoded'
    BY <1>1, <1>3, <2>2 DEF Encoded, Stream!NextStart
  <2>5. StreamsAreSeparate' /\ NothingForgotten' /\ Positions'
    BY <1>1, <1>3, <2>2 DEF StreamsAreSeparate, NothingForgotten, Positions
  <2>6. QED
    BY <2>3, <2>4, <2>5
<1>4. CASE /\ UNCHANGED encoder /\ task' = "select"
           /\ streaming => latest = last_transmitted_scan_id
  <2>1. Len(nodes) < NodesPerCapsule
    BY DEF Accepted, ScanChanged, AtSelect, TypeOK
  <2>2. TypeOK'
    BY <1>1, <1>2, <1>4, <2>1 DEF TypeOK, TaskPoints, encoder
  <2>3. Encoded'
    BY <1>1, <1>4 DEF Encoded, Consecutive, Stream!NextStart, encoder
  <2>4. StreamsAreSeparate' /\ NothingForgotten' /\ Positions'
    BY <1>1, <1>4 DEF StreamsAreSeparate, NothingForgotten, Positions, encoder
  <2>5. QED
    BY <2>2, <2>3, <2>4
<1>5. CASE Accepted
  <2>1. streaming /\ (latest = 0 => last_transmitted_scan_id = 0)
    BY <1>1, <1>2, <1>5 DEF Accepted, StreamsAreSeparate
  <2>2. QED
    BY <1>3, <1>4, <1>5, <2>1 DEF Accepted
<1>6. CASE ScanChanged
  <2>1. latest # 0 /\ task = "select"
    BY <1>2, <1>6 DEF ScanChanged, AtSelect, TypeOK
  <2>2. QED
    BY <1>3, <1>4, <1>6, <2>1 DEF ScanChanged
<1>7. QED
  BY <1>5, <1>6

-----------------------------------------------------------------------------
(* A capsule that is sent continues the stream. *)
LEMMA SendFacts ==
  ASSUME IInv, SendCapsule
  PROVE  /\ capsule' = Stream!CapsuleFrom(nodes[1]) /\ nodes[1] \in Stream!NextStart
         /\ capsule' \in Seq(Nat) /\ capsule' # <<>> /\ nodes' \in Seq(Nat)
         /\ Encoded'
<1> USE DEF IInv
<1> DEFINE n == NodesPerCapsule
<1>1. /\ nodes \in Seq(Nat) /\ Consecutive(nodes) /\ n \in Nat \ {0} /\ Len(nodes) >= n
      /\ capsule' = SubSeq(nodes, 1, n) /\ nodes' = SubSeq(nodes, n + 1, Len(nodes))
      /\ last_scan_id' = last_scan_id /\ last_scan_id # 0
  BY ConstantsAssumption DEF SendCapsule, TypeOK, Encoded, Positions
<1>2. nodes # <<>> /\ nodes[1] \in Nat
  BY <1>1
<1>3. nodes[1] \in Stream!NextStart /\ nodes[Len(nodes)] = FirstSample[last_scan_id + 1] - 1
  BY <1>2 DEF Encoded
<1> HIDE DEF n
<1>4. /\ capsule' = [i \in 1..n |-> nodes[1] + i - 1]
      /\ capsule' \in Seq(Nat) /\ Len(capsule') = n
      /\ capsule'[n] = nodes[1] + n - 1
      /\ nodes' \in Seq(Nat) /\ Consecutive(nodes')
      /\ nodes[1] + n - 1 <= nodes[Len(nodes)]
      /\ nodes' # <<>> => /\ nodes'[1] = nodes[1] + n
                         /\ nodes'[Len(nodes')] = nodes[Len(nodes)]
  BY <1>1, CutFacts
<1>5. capsule' = Stream!CapsuleFrom(nodes[1])
  BY <1>4 DEF Stream!CapsuleFrom, n
<1>6. capsule' # <<>>
  BY <1>1, <1>4
<1>7. FirstSample[last_scan_id + 1] \in Nat
  BY <1>1, ConstantsAssumption DEF TypeOK
<1>8. capsule'[n] < FirstSample[last_scan_id' + 1]
  BY <1>1, <1>2, <1>3, <1>4, <1>7
<1>9. nodes' # <<>> => nodes'[1] \in (Stream!NextStart)'
  <2> SUFFICES ASSUME nodes' # <<>> PROVE nodes'[1] \in (Stream!NextStart)'
    OBVIOUS
  <2>1. nodes'[1] = capsule'[n] + 1
    <3>1. nodes'[1] = nodes[1] + n /\ capsule'[n] = nodes[1] + n - 1
      BY <1>4
    <3>2. n \in Int /\ nodes[1] \in Int
      BY <1>1, <1>2
    <3>3. QED
      BY <3>1, <3>2
  <2>2. QED
    BY <1>6, <2>1 DEF Stream!NextStart, n
<1>10. Encoded'
  BY <1>1, <1>3, <1>4, <1>6, <1>8, <1>9 DEF Encoded, n
<1>11. QED
  BY <1>3, <1>4, <1>5, <1>6, <1>10

LEMMA SendIInv ==
  ASSUME IInv, SendCapsule
  PROVE  IInv'
<1>1. TypeOK'
  BY SendFacts DEF IInv, SendCapsule, application, network, session, TypeOK
<1>2. StreamsAreSeparate' /\ NothingForgotten' /\ Positions'
  BY DEF IInv, SendCapsule, session, StreamsAreSeparate, NothingForgotten, Positions
<1>3. QED
  BY <1>1, <1>2, SendFacts DEF IInv

LEMMA TransmittedIInv ==
  ASSUME IInv, Transmitted
  PROVE  IInv'
<1> USE DEF IInv, Transmitted, application, network, encoder
<1>1. TypeOK'
  BY DEF TypeOK, TaskPoints
<1>2. Encoded'
  BY DEF Encoded, Consecutive, Stream!NextStart
<1>3. StreamsAreSeparate' /\ NothingForgotten' /\ Positions'
  BY DEF StreamsAreSeparate, NothingForgotten, Positions
<1>4. QED
  BY <1>1, <1>2, <1>3

(* Every step preserves the inductive invariant. *)
LEMMA StepIInv == IInv /\ [Next]_vars => IInv'
<1> SUFFICES ASSUME IInv, [Next]_vars PROVE IInv'
  OBVIOUS
<1>1. CASE UNCHANGED vars
  <2>1. TypeOK'
    BY <1>1 DEF IInv, vars, application, network, session, encoder, TypeOK
  <2>2. StreamsAreSeparate' /\ NothingForgotten' /\ Positions'
    BY <1>1 DEF IInv, vars, application, network, session, encoder, StreamsAreSeparate,
                NothingForgotten, Positions
  <2>3. Encoded'
    BY <1>1 DEF IInv, vars, encoder, Encoded, Consecutive, Stream!NextStart
  <2>4. QED
    BY <2>1, <2>2, <2>3 DEF IInv
<1>2. CASE QuietStep
  BY <1>2, QuietStepIInv
<1>3. CASE EndingCommand \/ NeutralCommand \/ StartScan
  BY <1>3, CommandIInv
<1>4. CASE Accepted \/ ScanChanged
  BY <1>4, ScanIInv
<1>5. CASE SendCapsule \/ Transmitted
  BY <1>5, SendIInv, TransmittedIInv
<1>6. QED
  BY <1>1, <1>2, <1>3, <1>4, <1>5 DEF Next, TaskStep, CommandStep, QuietStep

THEOREM Inductive == Spec => []IInv
  BY InitIInv, StepIInv, PTL DEF Spec

(* The variables keep their types, and between transmissions the encoder   *)
(* keeps less than a capsule of samples ("at most 95 nodes").              *)
THEOREM TypeCorrect == Spec => []TypeOK
<1>1. IInv => TypeOK
  BY DEF IInv
<1>2. QED
  BY <1>1, Inductive, PTL

(* No stream leaves anything to the next one. *)
THEOREM SeparationCorrect == Spec => []StreamsAreSeparate
<1>1. IInv => StreamsAreSeparate
  BY DEF IInv
<1>2. QED
  BY <1>1, Inductive, PTL

(* A waiting task has sent the latest scan to the client that streams. *)
THEOREM NothingForgottenCorrect == Spec => []NothingForgotten
<1>1. IInv => NothingForgotten
  BY DEF IInv
<1>2. QED
  BY <1>1, Inductive, PTL

-----------------------------------------------------------------------------
(* The refinement of CapsuleStream. *)

StreamNext == [Stream!Next]_(Stream!vars)

LEMMA StreamInit == Init => Stream!Init
  BY DEF Init, Stream!Init

(* A command goes on with the stream, ends it or begins another one. *)
LEMMA CommandRefines ==
  ASSUME IInv, EndingCommand \/ NeutralCommand \/ StartScan
  PROVE  StreamNext
<1> DEFINE client == IF streaming THEN active_peer ELSE NoPeer
<1>1. client \in Peer \cup {NoPeer} /\ (streaming => client # NoPeer)
  BY DEF IInv, TypeOK, StreamsAreSeparate
<1>2. CASE EndingCommand
  <2>1. client' = NoPeer /\ capsule' = <<>>
    BY <1>2 DEF EndingCommand, EndStream
  <2>2. QED
    BY <2>1 DEF StreamNext, Stream!Next, Stream!End
<1>3. CASE NeutralCommand
  <2>1. CASE active_peer' = active_peer
    <3>1. UNCHANGED <<streaming, capsule>>
      BY <1>3, <2>1 DEF NeutralCommand, PeerChange
    <3>2. QED
      BY <2>1, <3>1 DEF StreamNext, Stream!vars
  <2>2. CASE active_peer' # active_peer
    <3>1. client' = NoPeer /\ capsule' = <<>>
      BY <1>3, <2>2 DEF NeutralCommand, PeerChange, EndStream
    <3>2. QED
      BY <3>1 DEF StreamNext, Stream!Next, Stream!End
  <2>3. QED
    BY <2>1, <2>2
<1>4. CASE StartScan
  <2>1. client' = active_peer' /\ client' \in Peer
    BY <1>4, CommandFacts DEF StartScan
  <2>2. CASE active_peer' = active_peer /\ streaming
    <3>1. UNCHANGED <<streaming, capsule>>
      BY <1>4, <2>2 DEF StartScan
    <3>2. QED
      BY <2>2, <3>1 DEF StreamNext, Stream!vars
  <2>3. CASE active_peer' # active_peer \/ ~streaming
    <3>1. capsule' = <<>>
      BY <1>4, <2>3 DEF StartScan
    <3>2. client' # client
      BY <2>1, <2>3, ConstantsAssumption
    <3>3. QED
      BY <2>1, <3>1, <3>2 DEF StreamNext, Stream!Next, Stream!Begin
  <2>4. QED
    BY <2>2, <2>3 DEF IInv, TypeOK
<1>5. QED
  BY <1>2, <1>3, <1>4

LEMMA StepRefines == IInv /\ [Next]_vars => StreamNext
<1> SUFFICES ASSUME IInv, [Next]_vars PROVE StreamNext
  OBVIOUS
<1>1. CASE UNCHANGED <<streaming, active_peer, capsule>>
  BY <1>1 DEF StreamNext, Stream!vars
<1>2. CASE EndingCommand \/ NeutralCommand \/ StartScan
  BY <1>2, CommandRefines
<1>3. CASE SendCapsule
  <2>1. streaming /\ active_peer # NoPeer /\ UNCHANGED <<streaming, active_peer>>
    BY <1>3 DEF IInv, SendCapsule, StreamsAreSeparate, session
  <2>2. \E start \in Stream!NextStart : capsule' = Stream!CapsuleFrom(start)
    BY <1>3, SendFacts
  <2>3. Stream!Deliver
    BY <2>1, <2>2 DEF Stream!Deliver
  <2>4. QED
    BY <2>3 DEF StreamNext, Stream!Next
<1>4. CASE QuietStep \/ Accepted \/ ScanChanged \/ Transmitted \/ UNCHANGED vars
  <2>1. UNCHANGED <<streaming, active_peer, capsule>>
    BY <1>4 DEF QuietStep, Publish, Close, Joined, Arrive, Stop, ReceiveFails, RejectMalformed,
                SendFails, Answered, Take, Accepted, ScanChanged, Transmitted, vars, session
  <2>2. QED
    BY <1>1, <2>1
<1>5. QED
  BY <1>2, <1>3, <1>4 DEF Next, TaskStep, CommandStep, QuietStep

(* Whatever the clients send and whenever scans are published, each client *)
(* gets a stream as CapsuleStream describes it.                            *)
THEOREM EndpointImplementsStream == Spec => StreamSpec
<1>1. IInv /\ [Next]_vars => [Stream!Next]_(Stream!vars)
  BY StepRefines DEF StreamNext
<1>2. QED
  BY <1>1, StreamInit, Inductive, PTL DEF Spec, StreamSpec, Stream!Spec

-----------------------------------------------------------------------------
(* The run: the coordinator thread and the loop that publishes.            *)

(* What the last steps of run rely on: the thread is over when run goes    *)
(* past the join, and nothing is reported before the end.                  *)
Ending ==
  /\ app \in {"outputs", "ended"} => thread = "done"
  /\ reported # "none" => app = "ended"

RunInv == RunTypeOK /\ BatchesInOrder /\ Ending /\ SummaryOnlyAfterSuccess

(* The batch after a batch is one. *)
LEMMA AfterFacts ==
  ASSUME NEW n \in Batch
  PROVE  After(n) \in Batch
<1>1. n + 1 \in Nat /\ Window \in Nat /\ Window > 0
  BY RunAssumption DEF Batch
<1>2. (n + 1) % Window \in 0..(Window - 1)
  BY <1>1, SMT
<1>3. QED
  BY <1>2 DEF After, Batch

(* The channel holds nothing or one batch; receiving empties it. *)
LEMMA ChannelFacts ==
  ASSUME RunTypeOK
  PROVE  /\ queue # <<>> => Head(queue) \in Batch /\ Tail(queue) = <<>>
         /\ Len(queue) < Capacity => queue = <<>>
         /\ batch \in Batch => /\ Append(<<>>, batch) \in Seq(Batch)
                               /\ Append(<<>>, batch) # <<>>
                               /\ Len(Append(<<>>, batch)) = 1
                               /\ Head(Append(<<>>, batch)) = batch
<1>1. queue \in Seq(Batch) /\ Len(queue) <= 1
  BY DEF RunTypeOK, ThreadTypes, Capacity
<1>2. queue # <<>> => Head(queue) \in Batch /\ Tail(queue) = <<>>
  BY <1>1
<1>3. Len(queue) < Capacity => queue = <<>>
  BY <1>1 DEF Capacity
<1>4. QED
  BY <1>2, <1>3

(* The initial state satisfies the inductive invariant. *)
LEMMA RunInitInv == RunInit => RunInv
<1> SUFFICES ASSUME RunInit PROVE RunInv
  OBVIOUS
<1>1. RunTypeOK
  <2>1. 0 \in Batch /\ 0 \in 0..MaxSignals /\ queue \in Seq(Batch) /\ Len(queue) = 0
    BY RunAssumption DEF RunInit, Batch
  <2>2. published \in [Sensor -> Batch]
    BY <2>1 DEF RunInit
  <2>3. ThreadTypes
    <3>1. queue \in Seq(Batch) /\ Len(queue) <= Capacity
      BY <2>1 DEF Capacity
    <3>2. /\ thread = "check" /\ batch \in Batch /\ outcome = "ok"
          /\ stop \in BOOLEAN /\ closed \in BOOLEAN
      BY <2>1 DEF RunInit
    <3>3. QED
      BY <3>1, <3>2 DEF ThreadTypes
  <2>4. LoopTypes
    BY <2>1, <2>2 DEF RunInit, LoopTypes
  <2>5. SignalTypes
    BY <2>1 DEF RunInit, SignalTypes
  <2>6. QED
    BY <2>3, <2>4, <2>5 DEF RunTypeOK
<1>2. BatchesInOrder
  BY DEF RunInit, BatchesInOrder, Sensor
<1>3. Ending /\ SummaryOnlyAfterSuccess
  BY DEF RunInit, Ending, SummaryOnlyAfterSuccess
<1>4. QED
  BY <1>1, <1>2, <1>3 DEF RunInv

-----------------------------------------------------------------------------
(* The steps of the coordinator thread preserve the invariant. *)
LEMMA ThreadKeepsInv ==
  ASSUME RunInv, Thread
  PROVE  RunInv'
<1> USE DEF RunInv, generation, channel, outputs, result, signalling
<1>1. CASE CheckStop
  <2>1. RunTypeOK'
    <3>1. ThreadTypes'
      BY <1>1 DEF CheckStop, RunTypeOK, ThreadTypes
    <3>2. LoopTypes'
      BY <1>1 DEF CheckStop, RunTypeOK, LoopTypes
    <3>3. SignalTypes'
      BY <1>1 DEF CheckStop, RunTypeOK, SignalTypes
    <3>4. QED
      BY <3>1, <3>2, <3>3 DEF RunTypeOK
  <2>2. BatchesInOrder'
    BY <1>1 DEF CheckStop, BatchesInOrder
  <2>3. Ending' /\ SummaryOnlyAfterSuccess'
    BY <1>1 DEF CheckStop, Ending, SummaryOnlyAfterSuccess
  <2>4. QED
    BY <2>1, <2>2, <2>3
<1>2. CASE Generate
  <2>1. RunTypeOK'
    <3>1. ThreadTypes'
      BY <1>2, AfterFacts DEF Generate, RunTypeOK, ThreadTypes
    <3>2. LoopTypes'
      BY <1>2, AfterFacts DEF Generate, RunTypeOK, LoopTypes
    <3>3. SignalTypes'
      BY <1>2 DEF Generate, RunTypeOK, SignalTypes
    <3>4. QED
      BY <3>1, <3>2, <3>3 DEF RunTypeOK
  <2>2. BatchesInOrder'
    BY <1>2 DEF Generate, BatchesInOrder
  <2>3. Ending' /\ SummaryOnlyAfterSuccess'
    BY <1>2 DEF Generate, Ending, SummaryOnlyAfterSuccess
  <2>4. QED
    BY <2>1, <2>2, <2>3
<1>3. CASE GenerateFails
  <2>1. RunTypeOK'
    <3>1. ThreadTypes'
      BY <1>3 DEF GenerateFails, RunTypeOK, ThreadTypes
    <3>2. LoopTypes'
      BY <1>3 DEF GenerateFails, RunTypeOK, LoopTypes
    <3>3. SignalTypes'
      BY <1>3 DEF GenerateFails, RunTypeOK, SignalTypes
    <3>4. QED
      BY <3>1, <3>2, <3>3 DEF RunTypeOK
  <2>2. BatchesInOrder'
    BY <1>3 DEF GenerateFails, BatchesInOrder
  <2>3. Ending' /\ SummaryOnlyAfterSuccess'
    BY <1>3 DEF GenerateFails, Ending, SummaryOnlyAfterSuccess
  <2>4. QED
    BY <2>1, <2>2, <2>3
<1>4. CASE Due
  <2>1. RunTypeOK'
    <3>1. ThreadTypes'
      BY <1>4 DEF Due, RunTypeOK, ThreadTypes
    <3>2. LoopTypes'
      BY <1>4 DEF Due, RunTypeOK, LoopTypes
    <3>3. SignalTypes'
      BY <1>4 DEF Due, RunTypeOK, SignalTypes
    <3>4. QED
      BY <3>1, <3>2, <3>3 DEF RunTypeOK
  <2>2. BatchesInOrder'
    BY <1>4 DEF Due, BatchesInOrder
  <2>3. Ending' /\ SummaryOnlyAfterSuccess'
    BY <1>4 DEF Due, Ending, SummaryOnlyAfterSuccess
  <2>4. QED
    BY <2>1, <2>2, <2>3
<1>5. CASE Send
  <2>1. RunTypeOK'
    <3>1. ThreadTypes'
      BY <1>5, ChannelFacts DEF Send, RunTypeOK, ThreadTypes, Capacity
    <3>2. LoopTypes'
      BY <1>5, ChannelFacts DEF Send, RunTypeOK, LoopTypes
    <3>3. SignalTypes'
      BY <1>5 DEF Send, RunTypeOK, SignalTypes
    <3>4. QED
      BY <3>1, <3>2, <3>3 DEF RunTypeOK
  <2>2. BatchesInOrder'
    BY <1>5, ChannelFacts DEF Send, BatchesInOrder, RunTypeOK, ThreadTypes, LoopTypes
  <2>3. Ending' /\ SummaryOnlyAfterSuccess'
    BY <1>5 DEF Send, Ending, SummaryOnlyAfterSuccess
  <2>4. QED
    BY <2>1, <2>2, <2>3
<1>6. CASE ThreadEnds
  <2>1. RunTypeOK'
    <3>1. ThreadTypes'
      BY <1>6 DEF ThreadEnds, RunTypeOK, ThreadTypes
    <3>2. LoopTypes'
      BY <1>6 DEF ThreadEnds, RunTypeOK, LoopTypes
    <3>3. SignalTypes'
      BY <1>6 DEF ThreadEnds, RunTypeOK, SignalTypes
    <3>4. QED
      BY <3>1, <3>2, <3>3 DEF RunTypeOK
  <2>2. BatchesInOrder'
    BY <1>6 DEF ThreadEnds, BatchesInOrder
  <2>3. Ending' /\ SummaryOnlyAfterSuccess'
    BY <1>6 DEF ThreadEnds, Ending, SummaryOnlyAfterSuccess
  <2>4. QED
    BY <2>1, <2>2, <2>3
<1>7. QED
  BY <1>1, <1>2, <1>3, <1>4, <1>5, <1>6 DEF Thread

(* The steps of run preserve the invariant. *)
LEMMA LoopKeepsInv ==
  ASSUME RunInv, Loop
  PROVE  RunInv'
<1> USE DEF RunInv, generation, channel, outputs, result, signalling
<1>1. CASE Listen
  <2>1. RunTypeOK'
    <3>1. ThreadTypes'
      BY <1>1 DEF Listen, RunTypeOK, ThreadTypes
    <3>2. LoopTypes'
      BY <1>1 DEF Listen, RunTypeOK, LoopTypes
    <3>3. SignalTypes'
      BY <1>1 DEF Listen, RunTypeOK, SignalTypes
    <3>4. QED
      BY <3>1, <3>2, <3>3 DEF RunTypeOK
  <2>2. BatchesInOrder'
    BY <1>1 DEF Listen, BatchesInOrder
  <2>3. Ending' /\ SummaryOnlyAfterSuccess'
    BY <1>1 DEF Listen, Ending, SummaryOnlyAfterSuccess
  <2>4. QED
    BY <2>1, <2>2, <2>3
<1>2. CASE ListenFails
  <2>1. RunTypeOK'
    <3>1. ThreadTypes'
      BY <1>2 DEF ListenFails, LeaveLoop, RunTypeOK, ThreadTypes
    <3>2. LoopTypes'
      BY <1>2 DEF ListenFails, LeaveLoop, RunTypeOK, LoopTypes
    <3>3. SignalTypes'
      BY <1>2 DEF ListenFails, LeaveLoop, RunTypeOK, SignalTypes
    <3>4. QED
      BY <3>1, <3>2, <3>3 DEF RunTypeOK
  <2>2. BatchesInOrder'
    BY <1>2 DEF ListenFails, LeaveLoop, BatchesInOrder
  <2>3. Ending' /\ SummaryOnlyAfterSuccess'
    BY <1>2 DEF ListenFails, LeaveLoop, Ending, SummaryOnlyAfterSuccess
  <2>4. QED
    BY <2>1, <2>2, <2>3
<1>3. CASE TakeSignal
  <2>1. RunTypeOK'
    <3>1. ThreadTypes'
      BY <1>3 DEF TakeSignal, LeaveLoop, RunTypeOK, ThreadTypes
    <3>2. LoopTypes'
      BY <1>3 DEF TakeSignal, LeaveLoop, RunTypeOK, LoopTypes
    <3>3. SignalTypes'
      BY <1>3 DEF TakeSignal, LeaveLoop, RunTypeOK, SignalTypes
    <3>4. QED
      BY <3>1, <3>2, <3>3 DEF RunTypeOK
  <2>2. BatchesInOrder'
    BY <1>3 DEF TakeSignal, LeaveLoop, BatchesInOrder
  <2>3. Ending' /\ SummaryOnlyAfterSuccess'
    BY <1>3 DEF TakeSignal, LeaveLoop, Ending, SummaryOnlyAfterSuccess
  <2>4. QED
    BY <2>1, <2>2, <2>3
<1>4. CASE TakeBatch
  <2>1. RunTypeOK'
    <3>1. ThreadTypes'
      BY <1>4, ChannelFacts DEF TakeBatch, RunTypeOK, ThreadTypes, Capacity
    <3>2. LoopTypes'
      BY <1>4, ChannelFacts DEF TakeBatch, RunTypeOK, LoopTypes, ThreadTypes
    <3>3. SignalTypes'
      BY <1>4 DEF TakeBatch, RunTypeOK, SignalTypes
    <3>4. QED
      BY <3>1, <3>2, <3>3 DEF RunTypeOK
  <2>2. BatchesInOrder'
    BY <1>4, ChannelFacts DEF TakeBatch, BatchesInOrder, RunTypeOK, ThreadTypes, LoopTypes
  <2>3. Ending' /\ SummaryOnlyAfterSuccess'
    BY <1>4 DEF TakeBatch, Ending, SummaryOnlyAfterSuccess
  <2>4. QED
    BY <2>1, <2>2, <2>3
<1>5. CASE GenerationStopped
  <2>1. RunTypeOK'
    <3>1. ThreadTypes'
      BY <1>5 DEF GenerationStopped, LeaveLoop, RunTypeOK, ThreadTypes
    <3>2. LoopTypes'
      BY <1>5 DEF GenerationStopped, LeaveLoop, RunTypeOK, LoopTypes
    <3>3. SignalTypes'
      BY <1>5 DEF GenerationStopped, LeaveLoop, RunTypeOK, SignalTypes
    <3>4. QED
      BY <3>1, <3>2, <3>3 DEF RunTypeOK
  <2>2. BatchesInOrder'
    BY <1>5 DEF GenerationStopped, LeaveLoop, BatchesInOrder
  <2>3. Ending' /\ SummaryOnlyAfterSuccess'
    BY <1>5 DEF GenerationStopped, LeaveLoop, Ending, SummaryOnlyAfterSuccess
  <2>4. QED
    BY <2>1, <2>2, <2>3
<1>6. CASE PublishScan
  <2>1. RunTypeOK'
    <3>1. ThreadTypes'
      BY <1>6 DEF PublishScan, RunTypeOK, ThreadTypes
    <3>2. LoopTypes'
      BY <1>6 DEF PublishScan, RunTypeOK, LoopTypes
    <3>3. SignalTypes'
      BY <1>6 DEF PublishScan, RunTypeOK, SignalTypes
    <3>4. QED
      BY <3>1, <3>2, <3>3 DEF RunTypeOK
  <2>2. BatchesInOrder'
    BY <1>6 DEF PublishScan, BatchesInOrder, RunTypeOK, ThreadTypes, LoopTypes
  <2>3. Ending' /\ SummaryOnlyAfterSuccess'
    BY <1>6 DEF PublishScan, Ending, SummaryOnlyAfterSuccess
  <2>4. QED
    BY <2>1, <2>2, <2>3
<1>7. CASE PublishKeyframes
  <2>1. RunTypeOK'
    <3>1. ThreadTypes'
      BY <1>7 DEF PublishKeyframes, RunTypeOK, ThreadTypes
    <3>2. LoopTypes'
      BY <1>7 DEF PublishKeyframes, RunTypeOK, LoopTypes
    <3>3. SignalTypes'
      BY <1>7 DEF PublishKeyframes, RunTypeOK, SignalTypes
    <3>4. QED
      BY <3>1, <3>2, <3>3 DEF RunTypeOK
  <2>2. BatchesInOrder'
    BY <1>7 DEF PublishKeyframes, BatchesInOrder, RunTypeOK, ThreadTypes, LoopTypes
  <2>3. Ending' /\ SummaryOnlyAfterSuccess'
    BY <1>7 DEF PublishKeyframes, Ending, SummaryOnlyAfterSuccess
  <2>4. QED
    BY <2>1, <2>2, <2>3
<1>8. CASE PublishFails
  <2>1. RunTypeOK'
    <3>1. ThreadTypes'
      BY <1>8 DEF PublishFails, LeaveLoop, RunTypeOK, ThreadTypes
    <3>2. LoopTypes'
      BY <1>8 DEF PublishFails, LeaveLoop, RunTypeOK, LoopTypes
    <3>3. SignalTypes'
      BY <1>8 DEF PublishFails, LeaveLoop, RunTypeOK, SignalTypes
    <3>4. QED
      BY <3>1, <3>2, <3>3 DEF RunTypeOK
  <2>2. BatchesInOrder'
    BY <1>8 DEF PublishFails, LeaveLoop, BatchesInOrder, RunTypeOK, ThreadTypes, LoopTypes
  <2>3. Ending' /\ SummaryOnlyAfterSuccess'
    BY <1>8 DEF PublishFails, LeaveLoop, Ending, SummaryOnlyAfterSuccess
  <2>4. QED
    BY <2>1, <2>2, <2>3
<1>9. CASE SetStop
  <2>1. RunTypeOK'
    <3>1. ThreadTypes'
      BY <1>9 DEF SetStop, RunTypeOK, ThreadTypes
    <3>2. LoopTypes'
      BY <1>9 DEF SetStop, RunTypeOK, LoopTypes
    <3>3. SignalTypes'
      BY <1>9 DEF SetStop, RunTypeOK, SignalTypes
    <3>4. QED
      BY <3>1, <3>2, <3>3 DEF RunTypeOK
  <2>2. BatchesInOrder'
    BY <1>9 DEF SetStop, BatchesInOrder
  <2>3. Ending' /\ SummaryOnlyAfterSuccess'
    BY <1>9 DEF SetStop, Ending, SummaryOnlyAfterSuccess
  <2>4. QED
    BY <2>1, <2>2, <2>3
<1>10. CASE CloseChannel
  <2>1. RunTypeOK'
    <3>1. ThreadTypes'
      BY <1>10 DEF CloseChannel, RunTypeOK, ThreadTypes
    <3>2. LoopTypes'
      BY <1>10 DEF CloseChannel, RunTypeOK, LoopTypes
    <3>3. SignalTypes'
      BY <1>10 DEF CloseChannel, RunTypeOK, SignalTypes
    <3>4. QED
      BY <3>1, <3>2, <3>3 DEF RunTypeOK
  <2>2. BatchesInOrder'
    BY <1>10 DEF CloseChannel, BatchesInOrder
  <2>3. Ending' /\ SummaryOnlyAfterSuccess'
    BY <1>10 DEF CloseChannel, Ending, SummaryOnlyAfterSuccess
  <2>4. QED
    BY <2>1, <2>2, <2>3
<1>11. CASE JoinThread
  <2>1. RunTypeOK'
    <3>1. ThreadTypes'
      BY <1>11 DEF JoinThread, RunTypeOK, ThreadTypes
    <3>2. LoopTypes'
      BY <1>11 DEF JoinThread, RunTypeOK, LoopTypes
    <3>3. SignalTypes'
      BY <1>11 DEF JoinThread, RunTypeOK, SignalTypes
    <3>4. QED
      BY <3>1, <3>2, <3>3 DEF RunTypeOK
  <2>2. BatchesInOrder'
    BY <1>11 DEF JoinThread, BatchesInOrder
  <2>3. Ending' /\ SummaryOnlyAfterSuccess'
    BY <1>11 DEF JoinThread, Ending, SummaryOnlyAfterSuccess
  <2>4. QED
    BY <2>1, <2>2, <2>3
<1>12. CASE CloseOutputs
  <2>1. RunTypeOK'
    <3>1. ThreadTypes'
      BY <1>12 DEF CloseOutputs, RunTypeOK, ThreadTypes
    <3>2. LoopTypes'
      BY <1>12 DEF CloseOutputs, RunTypeOK, LoopTypes, Result
    <3>3. SignalTypes'
      BY <1>12 DEF CloseOutputs, RunTypeOK, SignalTypes
    <3>4. QED
      BY <3>1, <3>2, <3>3 DEF RunTypeOK
  <2>2. BatchesInOrder'
    BY <1>12 DEF CloseOutputs, BatchesInOrder
  <2>3. Ending' /\ SummaryOnlyAfterSuccess'
    BY <1>12 DEF CloseOutputs, Ending, SummaryOnlyAfterSuccess, Result
  <2>4. QED
    BY <2>1, <2>2, <2>3
<1>13. QED
  BY <1>1, <1>2, <1>3, <1>4, <1>5, <1>6, <1>7, <1>8, <1>9, <1>10, <1>11, <1>12 DEF Loop

(* Every step preserves the invariant; signals touch none of it. *)
LEMMA RunStepInv == RunInv /\ [RunNext]_runVars => RunInv'
<1> SUFFICES ASSUME RunInv, [RunNext]_runVars PROVE RunInv'
  OBVIOUS
<1> USE DEF RunInv, generation, channel, outputs, result, signalling
<1>1. CASE Thread
  BY <1>1, ThreadKeepsInv
<1>2. CASE Loop
  BY <1>2, LoopKeepsInv
<1>3. CASE Raise \/ Broadcast
  <2>1. RunTypeOK'
    <3>1. ThreadTypes' /\ LoopTypes'
      BY <1>3 DEF Raise, Broadcast, RunTypeOK, ThreadTypes, LoopTypes
    <3>2. handler' \in BOOLEAN /\ raised' \in BOOLEAN /\ notified' \in BOOLEAN
      BY <1>3, Zenon DEF Raise, Broadcast, RunTypeOK, SignalTypes
    <3>3. signals' \in 0..MaxSignals
      BY <1>3, RunAssumption, SMT DEF Raise, Broadcast, RunTypeOK, SignalTypes
    <3>4. QED
      BY <3>1, <3>2, <3>3 DEF RunTypeOK, SignalTypes
  <2>2. BatchesInOrder'
    BY <1>3 DEF Raise, Broadcast, BatchesInOrder
  <2>3. Ending' /\ SummaryOnlyAfterSuccess'
    BY <1>3 DEF Raise, Broadcast, Ending, SummaryOnlyAfterSuccess
  <2>4. QED
    BY <2>1, <2>2, <2>3
<1>4. CASE EndpointFails
  <2>1. RunTypeOK'
    <3>1. ThreadTypes' /\ SignalTypes'
      BY <1>4 DEF EndpointFails, RunTypeOK, ThreadTypes, SignalTypes
    <3>2. LoopTypes'
      BY <1>4 DEF EndpointFails, RunTypeOK, LoopTypes
    <3>3. QED
      BY <3>1, <3>2 DEF RunTypeOK
  <2>2. BatchesInOrder'
    BY <1>4 DEF EndpointFails, BatchesInOrder
  <2>3. Ending' /\ SummaryOnlyAfterSuccess'
    BY <1>4 DEF EndpointFails, Ending, SummaryOnlyAfterSuccess
  <2>4. QED
    BY <2>1, <2>2, <2>3
<1>5. CASE UNCHANGED runVars
  <2>1. RunTypeOK'
    <3>1. ThreadTypes'
      BY <1>5 DEF runVars, RunTypeOK, ThreadTypes
    <3>2. LoopTypes'
      BY <1>5 DEF runVars, RunTypeOK, LoopTypes
    <3>3. SignalTypes'
      BY <1>5 DEF runVars, RunTypeOK, SignalTypes
    <3>4. QED
      BY Zenon, <3>1, <3>2, <3>3 DEF RunTypeOK
  <2>2. BatchesInOrder'
    BY <1>5 DEF runVars, BatchesInOrder
  <2>3. Ending' /\ SummaryOnlyAfterSuccess'
    BY <1>5 DEF runVars, Ending, SummaryOnlyAfterSuccess
  <2>4. QED
    BY <2>1, <2>2, <2>3
<1>6. QED
  BY <1>1, <1>2, <1>3, <1>4, <1>5 DEF RunNext

-----------------------------------------------------------------------------
(* RunInv is an invariant of every behaviour of the process. *)
THEOREM RunInductive == RunSpec => []RunInv
  BY RunInitInv, RunStepInv, PTL DEF RunSpec

(* The variables of run, its thread and its channel keep their types; in   *)
(* particular the channel never holds more than one batch.                 *)
THEOREM RunTypeCorrect == RunSpec => []RunTypeOK
<1>1. RunInv => RunTypeOK
  BY DEF RunInv
<1>2. QED
  BY <1>1, RunInductive, PTL

(* run_generation_worker and run's loop hand the batches to the endpoints  *)
(* and to the scene publisher whole, in order and without a gap.           *)
THEOREM OrderCorrect == RunSpec => []BatchesInOrder
<1>1. RunInv => BatchesInOrder
  BY DEF RunInv
<1>2. QED
  BY <1>1, RunInductive, PTL

(* run returns a summary only when neither the generation nor an endpoint  *)
(* has failed.                                                             *)
THEOREM SummaryCorrect == RunSpec => []SummaryOnlyAfterSuccess
<1>1. RunInv => SummaryOnlyAfterSuccess
  BY DEF RunInv
<1>2. QED
  BY <1>1, RunInductive, PTL
=============================================================================
