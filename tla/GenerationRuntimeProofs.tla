----------------------- MODULE GenerationRuntimeProofs -----------------------
(***************************************************************************)
(* Proofs about GenerationRuntime, for any lengths of rotations, samples,  *)
(* updates and phases, any limits, and failures anywhere: a call drains    *)
(* what it requested, the scenario and its history are committed whole,    *)
(* every point gets the latest surface and every batch the next scans.     *)
(* All follow from one inductive invariant; its first half says where in a *)
(* call each sensor is, its second what the surface history holds.         *)
(***************************************************************************)
EXTENDS GenerationRuntime, SequenceTheorems, WellFoundedInduction, TLAPS

-----------------------------------------------------------------------------
(* Lemmas about times. *)

(* The greatest and the least element of a set are its Max and Min. *)
LEMMA MaxIs ==
  ASSUME NEW S \in SUBSET Int, NEW m \in S, \A x \in S : x =< m
  PROVE  Max(S) = m
<1>1. \A x \in S : m >= x
  OBVIOUS
<1>2. \A c \in S : (\A x \in S : c >= x) => c = m
  OBVIOUS
<1> QED
  BY <1>1, <1>2 DEF Max

LEMMA MinIs ==
  ASSUME NEW S \in SUBSET Int, NEW m \in S, \A x \in S : m =< x
  PROVE  Min(S) = m
<1>1. \A c \in S : (\A x \in S : c =< x) => c = m
  OBVIOUS
<1> QED
  BY <1>1 DEF Min

LEMMA MinOfTwo ==
  ASSUME NEW a \in Int, NEW b \in Int
  PROVE  Min({a, b}) = IF a =< b THEN a ELSE b
<1>1. CASE a =< b
  BY <1>1, MinIs, a \in {a, b}, {a, b} \in SUBSET Int
<1>2. CASE ~(a =< b)
  BY <1>2, MinIs, b \in {a, b}, {a, b} \in SUBSET Int
<1> QED
  BY <1>1, <1>2

(* The samples of a scan lie in its rotation. *)
LEMMA BoundaryFacts ==
  ASSUME NEW n \in Nat
  PROVE  /\ Boundary(n) \in Nat
         /\ n * RotationTicks =< Boundary(n) * SampleTicks
         /\ \A i \in Nat : i < Boundary(n) => i * SampleTicks < n * RotationTicks
<1> DEFINE a == n * RotationTicks
           q == Boundary(n)
<1>1. a \in Nat /\ SampleTicks \in Nat \ {0}
  BY GenerationAssumption
<1>2. q = (a + SampleTicks - 1) \div SampleTicks
  BY DEF Boundary
<1> HIDE DEF a, q
<1>3. /\ q \in Nat /\ q * SampleTicks =< a + SampleTicks - 1
      /\ a + SampleTicks - 1 < (q + 1) * SampleTicks
  BY <1>1, <1>2
<1>4. (q + 1) * SampleTicks = q * SampleTicks + SampleTicks
  BY <1>1, <1>3
<1>5. ASSUME NEW i \in Nat, i < q
      PROVE  i * SampleTicks < a
  <2>1. (i + 1) * SampleTicks =< q * SampleTicks
    BY <1>1, <1>3, <1>5
  <2>2. (i + 1) * SampleTicks = i * SampleTicks + SampleTicks
    BY <1>1
  <2> QED
    BY <1>1, <1>3, <2>1, <2>2
<1>6. a =< q * SampleTicks
  BY <1>1, <1>3, <1>4
<1> QED
  BY <1>3, <1>5, <1>6 DEF a, q

(* The time of the last sample of a scan is before the next scan's first.  *)
LEMMA PointFacts ==
  ASSUME NEW n \in Nat \ {0}, NEW time \in PointTimes(n)
  PROVE  time \in Nat /\ CapturedAt(n) =< time /\ time < n * RotationTicks
<1>1. n \in Nat /\ n - 1 \in Nat /\ SampleTicks \in Nat \ {0}
  BY GenerationAssumption
<1>2. PICK i \in Boundary(n - 1)..(Boundary(n) - 1) : time = i * SampleTicks
  BY DEF PointTimes
<1>3. Boundary(n - 1) \in Nat /\ Boundary(n) \in Nat
  BY <1>1, BoundaryFacts
<1>4. i \in Nat /\ i < Boundary(n) /\ Boundary(n - 1) =< i
  BY <1>2, <1>3
<1>5. i * SampleTicks < n * RotationTicks
  BY <1>1, <1>4, BoundaryFacts
<1>6. Boundary(n - 1) * SampleTicks =< i * SampleTicks /\ i * SampleTicks \in Nat
  BY <1>1, <1>3, <1>4
<1> QED
  BY <1>2, <1>5, <1>6 DEF CapturedAt

LEMMA CapturedFacts ==
  ASSUME NEW n \in Nat \ {0}
  PROVE  CapturedAt(n) \in Nat /\ (n - 1) * RotationTicks =< CapturedAt(n)
<1>1. n - 1 \in Nat /\ SampleTicks \in Nat \ {0}
  BY GenerationAssumption
<1>2. Boundary(n - 1) \in Nat /\ (n - 1) * RotationTicks =< Boundary(n - 1) * SampleTicks
  BY <1>1, BoundaryFacts
<1>3. Boundary(n - 1) * SampleTicks \in Nat
  BY <1>1, <1>2
<1> QED
  BY <1>2, <1>3 DEF CapturedAt

-----------------------------------------------------------------------------
(* Lemmas about the surface history. *)

UpTo(q, time) == SelectLastInSeq(q, LAMBDA started : started =< time)

(* q has every surface event of times from its own first on, in order. *)
Increasing(q) == \A i, j \in 1..Len(q) : i < j => q[i] < q[j]
History(q, times) ==
  /\ q \in Seq(Nat) /\ q # <<>> /\ Increasing(q) /\ times \subseteq Nat
  /\ \A i \in 1..Len(q) : q[i] \in times
  /\ \A e \in times : e < q[1] \/ \E i \in 1..Len(q) : q[i] = e

(* The last entry that is not later than a time. *)
LEMMA LastUpTo ==
  ASSUME NEW q \in Seq(Nat), q # <<>>, NEW time \in Nat, q[1] =< time
  PROVE  \E n \in 1..Len(q) : /\ UpTo(q, time) = n /\ q[n] =< time
                              /\ \A i \in 1..Len(q) : i > n => q[i] > time
<1> DEFINE I == {i \in 1..Len(q) : q[i] =< time}
           T == {Len(q) - i : i \in I}
           R == OpToRel(<, Nat)
<1>1. Len(q) \in Nat /\ 1 \in I
  OBVIOUS
<1>2. T \subseteq Nat /\ T # {}
  BY <1>1
<1>3. \A x, y \in Nat : x < y => <<x, y>> \in R
  BY DEF OpToRel
<1>4. PICK x \in T : \A y \in T : ~(<<y, x>> \in R)
  <2> HIDE DEF T, R
  <2>1. IsWellFoundedOn(R, Nat)
    BY NatLessThanWellFounded DEF R
  <2> QED
    BY <1>2, <2>1, WFMin
<1>5. PICK n \in I : x = Len(q) - n
  OBVIOUS
<1>6. \A i \in I : i =< n
  <2>1. SUFFICES ASSUME NEW i \in I, i > n
                 PROVE  FALSE
    BY <1>1
  <2>2. Len(q) - i \in T /\ Len(q) - i < x /\ x \in Nat /\ Len(q) - i \in Nat
    BY <1>1, <1>2, <1>5, <2>1
  <2> QED
    BY <1>3, <1>4, <2>2
<1>7. Max(I) = n
  BY <1>1, <1>6, MaxIs, I \in SUBSET Int
<1>8. UpTo(q, time) = n
  BY <1>1, <1>7 DEF UpTo, SelectLastInSeq
<1>9. \A i \in 1..Len(q) : i > n => q[i] > time
  <2>1. SUFFICES ASSUME NEW i \in 1..Len(q), i > n
                 PROVE  q[i] > time
    OBVIOUS
  <2>2. i \notin I /\ q[i] \in Nat
    BY <1>1, <1>6, <2>1
  <2> QED
    BY <2>2
<1> QED
  BY <1>8, <1>9

LEMMA RetainedIs ==
  ASSUME NEW q, NEW time
  PROVE  Retained(q, time) =
           IF UpTo(q, time) = 0 THEN q ELSE SubSeq(q, UpTo(q, time), Len(q))
  BY DEF Retained, UpTo

(* The history of one more event. *)
LEMMA HistoryAppend ==
  ASSUME NEW q, NEW times, History(q, times), NEW e \in Nat, q[Len(q)] < e
  PROVE  /\ History(Append(q, e), times \cup {e})
         /\ Append(q, e)[1] = q[1] /\ Append(q, e)[Len(Append(q, e))] = e
<1> DEFINE r == Append(q, e)
<1>1. /\ q \in Seq(Nat) /\ Len(q) \in Nat \ {0} /\ r \in Seq(Nat) /\ Len(r) = Len(q) + 1
      /\ r[Len(q) + 1] = e /\ \A i \in 1..Len(q) : r[i] = q[i] /\ q[i] \in Nat
  BY DEF History
<1>2. \A i \in 1..Len(q) : q[i] =< q[Len(q)]
  BY <1>1 DEF History, Increasing
<1>3. \A i \in 1..Len(q) : q[i] < e
  BY <1>1, <1>2
<1>4. Increasing(r)
  <2>1. SUFFICES ASSUME NEW i \in 1..Len(r), NEW j \in 1..Len(r), i < j
                 PROVE  r[i] < r[j]
    BY DEF Increasing
  <2>2. i \in 1..Len(q) /\ (j \in 1..Len(q) \/ j = Len(q) + 1)
    BY <1>1, <2>1
  <2>3. j \in 1..Len(q) => q[i] < q[j]
    BY <2>1, <2>2 DEF History, Increasing
  <2> QED
    BY <1>1, <1>3, <2>2, <2>3
<1>5. /\ \A i \in 1..Len(r) : r[i] \in times \cup {e}
      /\ \A f \in times \cup {e} : f < r[1] \/ \E i \in 1..Len(r) : r[i] = f
  <2> HIDE DEF r
  <2>1. /\ \A i \in 1..Len(q) : q[i] \in times
        /\ \A f \in times : f < q[1] \/ \E i \in 1..Len(q) : q[i] = f
    BY DEF History
  <2>2. \A i \in 1..Len(r) : i \in 1..Len(q) \/ i = Len(q) + 1
    BY <1>1
  <2>3. 1 \in 1..Len(q) /\ Len(q) + 1 \in 1..Len(r) /\ \A i \in 1..Len(q) : i \in 1..Len(r)
    BY <1>1
  <2>4. \A f \in times : f < r[1] \/ \E i \in 1..Len(r) : r[i] = f
    BY <1>1, <2>1, <2>3
  <2>5. \E i \in 1..Len(r) : r[i] = e
    BY <1>1, <2>3
  <2> QED
    BY <1>1, <2>1, <2>2, <2>4, <2>5
<1>6. r # <<>> /\ times \cup {e} \subseteq Nat /\ r[1] = q[1]
  BY <1>1 DEF History
<1> HIDE DEF r
<1>7. History(r, times \cup {e})
  BY <1>1, <1>4, <1>5, <1>6 DEF History
<1> QED
  BY <1>1, <1>6, <1>7 DEF r

(* The history without its first entries. *)
LEMMA HistoryCut ==
  ASSUME NEW q, NEW times, History(q, times), NEW n \in 1..Len(q)
  PROVE  LET r == SubSeq(q, n, Len(q)) IN
         History(r, times) /\ r[1] = q[n] /\ r[Len(r)] = q[Len(q)]
<1> DEFINE r == SubSeq(q, n, Len(q))
           k == Len(q) - n + 1
<1>1. q \in Seq(Nat) /\ Len(q) \in Nat /\ n \in Nat /\ k \in Nat \ {0} /\ k =< Len(q)
  BY DEF History
<1>2. r \in Seq(Nat) /\ Len(r) = k /\ \A i \in 1..k : r[i] = q[n + i - 1]
  BY <1>1
<1> HIDE DEF r
<1>3. \A i \in 1..k : n + i - 1 \in 1..Len(q)
  BY <1>1
<1>4. Increasing(r)
  <2>1. SUFFICES ASSUME NEW i \in 1..k, NEW j \in 1..k, i < j
                 PROVE  r[i] < r[j]
    BY <1>2 DEF Increasing
  <2>2. n + i - 1 \in 1..Len(q) /\ n + j - 1 \in 1..Len(q) /\ n + i - 1 < n + j - 1
    BY <1>1, <1>3, <2>1
  <2>3. q[n + i - 1] < q[n + j - 1]
    BY <2>2 DEF History, Increasing
  <2> QED
    BY <1>2, <2>3
<1>5. r[1] = q[n] /\ r[k] = q[Len(q)] /\ 1 \in 1..k
  BY <1>1, <1>2
<1>6. \A i \in 1..k : r[i] \in times
  BY <1>2, <1>3 DEF History
<1>7. ASSUME NEW e \in times
      PROVE  e < r[1] \/ \E i \in 1..k : r[i] = e
  <2>1. e \in Nat /\ (e < q[1] \/ \E i \in 1..Len(q) : q[i] = e)
    BY DEF History
  <2>2. q[1] \in Nat /\ q[n] \in Nat /\ q[1] =< q[n]
    BY <1>1 DEF History, Increasing
  <2>3. CASE e < q[1]
    BY <1>5, <2>1, <2>2, <2>3
  <2>4. ASSUME NEW i \in 1..Len(q), q[i] = e
        PROVE  e < r[1] \/ \E m \in 1..k : r[m] = e
    <3>1. CASE i < n
      BY <1>5, <2>4, <3>1 DEF History, Increasing
    <3>2. CASE ~(i < n)
      <4>1. i - n + 1 \in 1..k /\ n + (i - n + 1) - 1 = i
        BY <1>1, <3>2
      <4> QED
        BY <1>2, <2>4, <4>1
    <3> QED
      BY <3>1, <3>2
  <2> QED
    BY <2>1, <2>3, <2>4
<1>8. History(r, times)
  <2>1. r # <<>> /\ times \subseteq Nat
    BY <1>1, <1>2 DEF History
  <2> QED
    BY <1>2, <1>4, <1>6, <1>7, <2>1 DEF History
<1> QED
  BY <1>2, <1>5, <1>8 DEF r

(* The last entry is the last event. *)
LEMMA HistoryLast ==
  ASSUME NEW q, NEW times, History(q, times)
  PROVE  Last(q) \in times /\ Last(q) = Max(times) /\ \A e \in times : e =< Last(q)
<1>1. q \in Seq(Nat) /\ Len(q) \in 1..Len(q) /\ 1 \in 1..Len(q) /\ times \in SUBSET Int
  BY DEF History
<1>2. \A i \in 1..Len(q) : q[i] =< q[Len(q)]
  BY <1>1 DEF History, Increasing
<1>3. \A e \in times : e =< q[Len(q)]
  <2>1. SUFFICES ASSUME NEW e \in times
                 PROVE  e =< q[Len(q)]
    OBVIOUS
  <2>2. e \in Nat /\ (e < q[1] \/ \E i \in 1..Len(q) : q[i] = e)
    BY DEF History
  <2>3. q[1] \in Nat /\ q[Len(q)] \in Nat /\ q[1] =< q[Len(q)]
    BY <1>1, <1>2
  <2> QED
    BY <1>2, <2>2, <2>3
<1>4. q[Len(q)] \in times
  BY <1>1 DEF History
<1>5. Max(times) = q[Len(q)]
  BY <1>1, <1>3, <1>4, MaxIs
<1> QED
  BY <1>3, <1>4, <1>5 DEF Last

(* The surface that is found for a time is that of the last event up to it.*)
LEMMA HistorySurface ==
  ASSUME NEW q, NEW times, History(q, times), NEW time \in Nat, q[1] =< time
  PROVE  SurfaceAt(q, time) = Max({e \in times : e =< time})
<1>1. q \in Seq(Nat) /\ q # <<>> /\ Len(q) \in Nat
  BY DEF History
<1>2. PICK n \in 1..Len(q) : /\ UpTo(q, time) = n /\ q[n] =< time
                             /\ \A i \in 1..Len(q) : i > n => q[i] > time
  BY <1>1, LastUpTo
<1>3. SurfaceAt(q, time) = q[n]
  BY <1>1, <1>2 DEF SurfaceAt, UpTo
<1> DEFINE S == {e \in times : e =< time}
<1>4. q[n] \in S /\ S \in SUBSET Int
  <2>1. q[n] \in times /\ times \subseteq Nat
    BY DEF History
  <2>2. S \subseteq times
    OBVIOUS
  <2>3. q[n] \in S
    BY <1>2, <2>1
  <2> HIDE DEF S
  <2> QED
    BY <2>1, <2>2, <2>3
<1>5. ASSUME NEW e \in S
      PROVE  e =< q[n]
  <2>1. e \in Nat /\ e =< time /\ (e < q[1] \/ \E i \in 1..Len(q) : q[i] = e)
    BY DEF History
  <2>2. \A i \in 1..Len(q) : i =< n => q[i] =< q[n]
    BY <1>1 DEF History, Increasing
  <2>3. CASE e < q[1]
    <3>1. q[1] \in Nat /\ q[n] \in Nat /\ q[1] =< q[n]
      BY <1>1, <2>2
    <3> QED
      BY <2>1, <2>3, <3>1
  <2>4. ASSUME NEW i \in 1..Len(q), q[i] = e
        PROVE  e =< q[n]
    BY <1>1, <1>2, <2>1, <2>2, <2>4
  <2> QED
    BY <2>1, <2>3, <2>4
<1>6. Max(S) = q[n]
  BY <1>4, <1>5, MaxIs
<1> QED
  BY <1>3, <1>6

-----------------------------------------------------------------------------
(* The inductive invariant. *)

Batch == completed_batches + 1
Of(s) == [sensor |-> s, scan |-> Batch]

Model == [elapsed : Nat, next_update : Nat, phase_end : Nat, snapshots : Seq(Nat),
          advanced : Nat, retained : Nat]
Work == [scan : Nat, model : Model \cup {<<>>}]

Types ==
  /\ pc \in {"idle", "advance", "dispatch", "receive", "stop", "ended"}
  /\ model \in Model
  /\ scheduled \in [Sensor -> Nat] /\ pending \in [Sensor -> Nat]
  /\ failed \in BOOLEAN /\ terminal \in BOOLEAN /\ completed_batches \in Nat
  /\ request \in [Sensor -> [kind : {"none", "generate", "stop"}, work : Work]]
  /\ response \in [Sensor -> [scan : Nat, ok : BOOLEAN]]
  /\ worker \in [Sensor -> {"idle", "busy", "gone"}] /\ job \in [Sensor -> Work]

(* A worker that waits for a request. *)
Idle(s) == request[s] = NoCommand /\ response[s] = NoResponse /\ worker[s] = "idle"

(* A sensor whose scan was requested and not yet received: the request,    *)
(* the work or the response is somewhere, for the model of this call, or   *)
(* the worker failed.                                                      *)
Requested(s) ==
  \/ request[s] = GenerateCommand(Batch) /\ response[s] = NoResponse /\ worker[s] = "idle"
  \/ /\ request[s] = NoCommand /\ response[s] = NoResponse /\ worker[s] = "busy"
     /\ job[s] = [scan |-> Batch, model |-> model]
  \/ /\ request[s] = NoCommand /\ response[s] # NoResponse /\ worker[s] = "idle"
     /\ response[s].scan = Batch
  \/ request[s] = NoCommand /\ response[s] = NoResponse /\ worker[s] = "gone"

(* A sensor whose result was received, or whose worker was joined. *)
Received(s) ==
  /\ request[s] = NoCommand /\ response[s] = NoResponse
  /\ worker[s] = "idle" \/ (worker[s] = "gone" /\ s \in joined /\ failed)

(* The first n of a call's two requests were sent. *)
Dispatching(n) ==
  /\ dispatched = IF n = 0 THEN <<>> ELSE IF n = 1 THEN <<Of(1)>> ELSE <<Of(1), Of(2)>>
  /\ \A s \in Sensor : /\ s =< n => Requested(s) /\ pending[s] = 0
                       /\ s > n => Idle(s) /\ pending[s] = Batch
  /\ \A s \in Sensor : scheduled[s] = Batch

(* The first n of a call's two results were received. *)
Receiving(n) ==
  /\ dispatched = IF n = 0 THEN <<Of(1), Of(2)>> ELSE IF n = 1 THEN <<Of(2)>> ELSE <<>>
  /\ \A s \in Sensor : (s =< n => Received(s)) /\ (s > n => Requested(s))
  /\ ~failed => /\ joined = {} /\ scans = {Of(s) : s \in 1..n}
                /\ \A s \in Sensor : pending[s] = Batch + 1 /\ scheduled[s] = Batch + 1

(* No call has failed, and none is going on or it has not requested scans. *)
Calm ==
  /\ joined = {}
  /\ \A s \in Sensor : Idle(s) /\ pending[s] = Batch /\ scheduled[s] = Batch

Control ==
  /\ pc \in {"idle", "advance"} => dispatched = <<>> /\ scans = {} /\ ~failed
  /\ pc = "advance" => ~terminal
  /\ pc = "advance" \/ (pc = "idle" /\ ~terminal) => Calm
  /\ pc = "idle" => \A s \in Sensor : /\ request[s] = NoCommand /\ response[s] = NoResponse
                                      /\ worker[s] # "busy" /\ (worker[s] = "gone" => s \in joined)
  /\ pc = "dispatch" => /\ ~failed /\ scans = {} /\ joined = {}
                        /\ \E n \in 0..2 : Dispatching(n)
  /\ pc = "receive" => \E n \in 0..2 : Receiving(n)
  /\ pc \in {"stop", "ended"} =>
       \A s \in Sensor : worker[s] # "busy" /\ request[s].kind # "generate"

(* A scenario that stands at a time after some events, and the history     *)
(* that the scan of this call needs.                                       *)
Whole(m, times) == /\ m \in Model /\ History(m.snapshots, times)
                   /\ Last(m.snapshots) =< m.elapsed /\ m.elapsed < EventAt(m)
Needed(m) == m.snapshots[1] =< CapturedAt(Batch)

Scenario ==
  /\ Whole(model, happened) /\ model.advanced = model.elapsed
  /\ pc = "advance" \/ (pc = "idle" /\ ~terminal) =>
       model.elapsed = completed_batches * RotationTicks /\ Needed(model)
  /\ pc \in {"dispatch", "receive"} => model.elapsed = CompletedAt(Batch) /\ Needed(model)
  /\ pc = "advance" => /\ Whole(draft.model, happened \cup draft.times)
                       /\ draft.model.elapsed =< CompletedAt(Batch) /\ Needed(draft.model)

IInv == Types /\ Control /\ Scenario

-----------------------------------------------------------------------------
(* Lemmas about the invariant's parts. *)

LEMMA CommandFacts ==
  /\ NoCommand.kind = "none" /\ StopCommand.kind = "stop"
  /\ \A scan : /\ GenerateCommand(scan).kind = "generate"
               /\ GenerateCommand(scan).work = [scan |-> scan, model |-> model]
  /\ NoResponse.scan = 0
  /\ NoCommand \in [kind : {"none", "generate", "stop"}, work : Work]
  /\ StopCommand \in [kind : {"none", "generate", "stop"}, work : Work]
  /\ NoResponse \in [scan : Nat, ok : BOOLEAN] /\ NoWork \in Work
  BY DEF NoCommand, StopCommand, GenerateCommand, NoResponse, NoWork, Work

LEMMA SensorFacts == Sensor = {1, 2} /\ 1 \in Sensor /\ 2 \in Sensor
  BY DEF Sensor

(* The time of the next event, and the time of the next completion. *)
LEMMA EventFacts ==
  ASSUME NEW m \in Model
  PROVE  EventAt(m) = IF m.next_update =< m.phase_end THEN m.next_update ELSE m.phase_end
  BY MinOfTwo DEF Model, EventAt

LEMMA CompletionFacts ==
  ASSUME Types, Calm
  PROVE  NextCompletion = CompletedAt(Batch) /\ CompletedAt(Batch) \in Nat /\ Batch \in Nat \ {0}
<1>1. Batch \in Nat \ {0} /\ CompletedAt(Batch) \in Nat
  BY GenerationAssumption DEF Types, Batch, CompletedAt
<1>2. {CompletedAt(pending[s]) : s \in Sensor} = {CompletedAt(Batch)}
  BY SensorFacts DEF Calm
<1>3. Min({CompletedAt(Batch)}) = CompletedAt(Batch)
  BY <1>1, MinIs, {CompletedAt(Batch)} \in SUBSET Int
<1> QED
  BY <1>1, <1>2, <1>3 DEF NextCompletion

(* A step that leaves the scenario alone. *)
LEMMA ScenarioKept ==
  ASSUME Scenario, UNCHANGED <<model, draft, happened, completed_batches>>,
         pc' = "advance" => pc = "advance",
         pc' \in {"dispatch", "receive"} => pc \in {"dispatch", "receive"},
         pc' = "idle" /\ ~terminal' => pc = "idle" /\ ~terminal
  PROVE  Scenario'
  BY DEF Scenario, Whole, Needed, Batch

(* A worker that has a request to take or a scan to measure. *)
LEMMA WorkerCalled ==
  ASSUME Types, Control, NEW s \in Sensor,
         worker[s] = "busy" \/ request[s].kind = "generate"
  PROVE  /\ pc \in {"dispatch", "receive"} /\ Requested(s) /\ worker[s] # "gone"
         /\ ~Idle(s) /\ ~Received(s)
<1>1. /\ request[s] # NoCommand \/ worker[s] = "busy"
      /\ ~Idle(s) /\ ~Received(s)
  BY CommandFacts DEF Idle, Received
<1>2. pc \in {"dispatch", "receive"}
  BY <1>1 DEF Control, Calm, Types
<1>3. Requested(s)
  <2>1. CASE pc = "dispatch"
    <3>1. PICK n \in 0..2 : Dispatching(n)
      BY <2>1 DEF Control
    <3> QED
      BY <1>1, <3>1 DEF Dispatching, Sensor
  <2>2. CASE pc = "receive"
    <3>1. PICK n \in 0..2 : Receiving(n)
      BY <2>2 DEF Control
    <3> QED
      BY <1>1, <3>1 DEF Receiving, Sensor
  <2> QED
    BY <1>2, <2>1, <2>2
<1>4. worker[s] # "gone"
  BY <1>3, CommandFacts DEF Requested
<1> QED
  BY <1>1, <1>2, <1>3, <1>4

(* A worker's step with a request of this call. *)
LEMMA WorkerKeeps ==
  ASSUME Types, Control, NEW s \in Sensor, pc \in {"dispatch", "receive"}, Requested(s),
         ~Idle(s), ~Received(s), Requested(s)',
         UNCHANGED <<pc, model, scheduled, pending, calls, ends, completed_batches>>,
         \A t \in Sensor : t # s => /\ request'[t] = request[t] /\ response'[t] = response[t]
                                    /\ worker'[t] = worker[t] /\ job'[t] = job[t]
  PROVE  Control'
<1>1. UNCHANGED <<dispatched, scans, failed, joined, terminal, Batch>>
  BY DEF calls, ends, Batch
<1>2. \A t \in Sensor : /\ Of(t)' = Of(t)
                        /\ t # s => /\ Idle(t)' <=> Idle(t)
                                    /\ Requested(t)' <=> Requested(t)
                                    /\ Received(t)' <=> Received(t)
  BY <1>1 DEF Of, Idle, Requested, Received, GenerateCommand
<1>3. CASE pc = "dispatch"
  <2>1. PICK n \in 0..2 : Dispatching(n)
    BY <1>3 DEF Control
  <2>2. Dispatching(n)'
    <3>1. dispatched' = IF n = 0 THEN <<>> ELSE IF n = 1 THEN <<Of(1)'>> ELSE <<Of(1)', Of(2)'>>
      BY <1>1, <1>2, <2>1, SensorFacts DEF Dispatching
    <3>2. \A t \in Sensor : /\ t =< n => Requested(t)' /\ pending'[t] = 0
                            /\ t > n => Idle(t)' /\ pending'[t] = Batch'
      BY <1>1, <1>2, <2>1 DEF Dispatching, Sensor
    <3>3. \A t \in Sensor : scheduled'[t] = Batch'
      BY <1>1, <2>1 DEF Dispatching
    <3> QED
      BY <3>1, <3>2, <3>3 DEF Dispatching
  <2> QED
    BY <1>1, <1>3, <2>2 DEF Control
<1>4. CASE pc = "receive"
  <2>1. PICK n \in 0..2 : Receiving(n)
    BY <1>4 DEF Control
  <2>2. Receiving(n)'
    <3>1. dispatched' = IF n = 0 THEN <<Of(1)', Of(2)'>> ELSE IF n = 1 THEN <<Of(2)'>> ELSE <<>>
      BY <1>1, <1>2, <2>1, SensorFacts DEF Receiving
    <3>2. \A t \in Sensor : (t =< n => Received(t)') /\ (t > n => Requested(t)')
      BY <1>1, <1>2, <2>1 DEF Receiving, Sensor
    <3>3. {Of(t)' : t \in 1..n} = {Of(t) : t \in 1..n}
      BY <1>1 DEF Of
    <3>4. ~failed' => /\ joined' = {} /\ scans' = {Of(t)' : t \in 1..n}
                      /\ \A t \in Sensor : pending'[t] = Batch' + 1 /\ scheduled'[t] = Batch' + 1
      BY <1>1, <2>1, <3>3 DEF Receiving
    <3> QED
      BY <3>1, <3>2, <3>4 DEF Receiving
  <2> QED
    BY <1>1, <1>4, <2>2 DEF Control
<1> QED
  BY <1>3, <1>4

LEMMA TakeRequestKeeps ==
  ASSUME IInv, NEW s \in Sensor, TakeRequest(s)
  PROVE  IInv'
<1>1. /\ pc \in {"dispatch", "receive"} /\ Requested(s) /\ ~Idle(s) /\ ~Received(s)
  BY WorkerCalled DEF IInv, TakeRequest
<1>2. request[s] = GenerateCommand(Batch) /\ response[s] = NoResponse
  BY <1>1, CommandFacts DEF Requested, TakeRequest
<1>3. Types'
  BY CommandFacts DEF IInv, Types, TakeRequest, calls, ends, channels
<1>4. Requested(s)'
  BY <1>2, CommandFacts DEF Requested, TakeRequest, IInv, Types, Batch
<1>5. Control'
  BY <1>1, <1>4, WorkerKeeps DEF IInv, TakeRequest, Types
<1>6. Scenario'
  BY ScenarioKept DEF IInv, TakeRequest, ends
<1> QED
  BY <1>3, <1>5, <1>6 DEF IInv

LEMMA AnswerKeeps ==
  ASSUME IInv, NEW s \in Sensor, NEW ok \in BOOLEAN, Answer(s, ok)
  PROVE  IInv'
<1>1. /\ pc \in {"dispatch", "receive"} /\ Requested(s) /\ ~Idle(s) /\ ~Received(s)
  BY WorkerCalled DEF IInv, Answer
<1>2. request[s] = NoCommand /\ job[s].scan = Batch /\ Batch \in Nat \ {0}
  BY <1>1 DEF Requested, Answer, IInv, Types, Batch
<1>3. Types'
  BY <1>2, CommandFacts DEF IInv, Types, Answer, calls, ends
<1>4. Requested(s)'
  <2>1. response'[s] = [scan |-> Batch, ok |-> ok] /\ worker'[s] = "idle" /\ request'[s] = NoCommand
    BY <1>2 DEF Answer, IInv, Types
  <2>2. response'[s] # NoResponse /\ response'[s].scan = Batch'
    BY <1>2, <2>1, CommandFacts DEF Answer, Batch
  <2> QED
    BY <2>1, <2>2 DEF Requested
<1>5. Control'
  BY <1>1, <1>4, WorkerKeeps DEF IInv, Answer, Types
<1>6. Scenario'
  BY ScenarioKept DEF IInv, Answer, ends
<1> QED
  BY <1>3, <1>5, <1>6 DEF IInv

LEMMA PanicKeeps ==
  ASSUME IInv, NEW s \in Sensor, Panic(s)
  PROVE  IInv'
<1>1. /\ pc \in {"dispatch", "receive"} /\ Requested(s) /\ ~Idle(s) /\ ~Received(s)
  BY WorkerCalled DEF IInv, Panic
<1>2. request[s] = NoCommand /\ response[s] = NoResponse
  BY <1>1, CommandFacts DEF Requested, Panic
<1>3. Types'
  BY CommandFacts DEF IInv, Types, Panic, calls, ends, channels
<1>4. Requested(s)'
  BY <1>2 DEF Requested, Panic, IInv, Types, channels
<1>5. Control'
  BY <1>1, <1>4, WorkerKeeps DEF IInv, Panic, Types, channels
<1>6. Scenario'
  BY ScenarioKept DEF IInv, Panic, ends
<1> QED
  BY <1>3, <1>5, <1>6 DEF IInv

LEMMA StopTaken ==
  ASSUME Types, Control, NEW s \in Sensor, request[s].kind = "stop"
  PROVE  pc \in {"stop", "ended"}
<1>1. ~Idle(s) /\ ~Received(s) /\ ~Requested(s)
  BY CommandFacts DEF Idle, Received, Requested
<1>2. pc \in {"stop", "ended"}
  <2>1. pc # "dispatch"
    <3>1. SUFFICES ASSUME pc = "dispatch"
                   PROVE  FALSE
      OBVIOUS
    <3>2. PICK n \in 0..2 : Dispatching(n)
      BY <3>1 DEF Control
    <3> QED
      BY <1>1, <3>2 DEF Dispatching, Sensor
  <2>2. pc # "receive"
    <3>1. SUFFICES ASSUME pc = "receive"
                   PROVE  FALSE
      OBVIOUS
    <3>2. PICK n \in 0..2 : Receiving(n)
      BY <3>1 DEF Control
    <3> QED
      BY <1>1, <3>2 DEF Receiving, Sensor
  <2> QED
    BY <1>1, <2>1, <2>2, CommandFacts DEF Control, Calm, Types
<1> QED
  BY <1>2

LEMMA TakeStopKeeps ==
  ASSUME IInv, NEW s \in Sensor, TakeStop(s)
  PROVE  IInv'
<1>1. /\ request[s].kind = "stop" /\ worker[s] = "idle"
      /\ UNCHANGED <<pc, model, scheduled, pending, dispatched, scans, failed, stopping, joined,
                     terminal, completed_batches, response, job, draft, happened>>
      /\ request' = [request EXCEPT ![s] = NoCommand] /\ worker' = [worker EXCEPT ![s] = "gone"]
  BY DEF TakeStop, calls, ends
<1>3. pc \in {"stop", "ended"}
  BY <1>1, StopTaken DEF IInv
<1>4. Types'
  BY <1>1, CommandFacts DEF IInv, Types
<1>5. Control'
  BY <1>1, <1>3, CommandFacts DEF IInv, Control, Types
<1>6. Scenario'
  BY <1>1, ScenarioKept DEF IInv
<1> QED
  BY <1>4, <1>5, <1>6 DEF IInv

-----------------------------------------------------------------------------
(* The coordinator's steps keep the invariant. *)

LEMMA InitEstablishes == ASSUME Init PROVE IInv
<1>1. PICK ticks \in PhaseTicks :
        model = [elapsed |-> 0, next_update |-> UpdateTicks, phase_end |-> ticks,
                 snapshots |-> <<0>>, advanced |-> 0, retained |-> 0]
  BY DEF Init
<1>2. ticks \in Nat \ {0} /\ UpdateTicks \in Nat \ {0}
  BY GenerationAssumption
<1>3. model \in Model /\ EventAt(model) > 0
  <2>1. model \in Model
    BY <1>1, <1>2 DEF Model
  <2> QED
    BY <1>1, <1>2, <2>1, EventFacts
<1>4. Types
  BY <1>3, CommandFacts DEF Init, Types
<1>5. Control
  BY CommandFacts DEF Init, Control, Calm, Idle, Batch
<1>6. Scenario
  <2>1. History(<<0>>, {0})
    BY DEF History, Increasing
  <2>2. model.snapshots = <<0>> /\ model.elapsed = 0 /\ model.advanced = 0 /\ happened = {0}
    BY <1>1 DEF Init
  <2>3. Last(model.snapshots) = 0 /\ model.snapshots[1] = 0
    BY <2>2 DEF Last
  <2>4. CapturedAt(Batch) \in Nat /\ completed_batches * RotationTicks = 0
    BY CapturedFacts, GenerationAssumption DEF Init, Batch
  <2> QED
    BY <1>3, <2>1, <2>2, <2>3, <2>4 DEF Init, Scenario, Whole, Needed
<1> QED
  BY <1>4, <1>5, <1>6 DEF IInv

LEMMA NextCompletedScansKeeps ==
  ASSUME IInv, NextCompletedScans
  PROVE  IInv'
<1>1. /\ pc = "idle" /\ ~terminal /\ pc' = "advance" /\ draft' = [model |-> model, times |-> {}]
      /\ UNCHANGED <<model, scheduled, pending, dispatched, scans, failed, stopping, joined,
                     terminal, completed_batches, request, response, worker, job, happened>>
  BY DEF NextCompletedScans, calls, ends, workers, channels
<1>2. Types'
  BY <1>1 DEF IInv, Types
<1>3. Calm /\ Calm'
  BY <1>1 DEF IInv, Control, Calm, Idle, Batch
<1>4. Control'
  BY <1>1, <1>3 DEF IInv, Control
<1>5. Scenario'
  <2>1. draft'.model = model /\ draft'.times = {} /\ happened' = happened /\ model' = model
        /\ Batch' = Batch
    BY <1>1 DEF Batch
  <2>2. happened \cup {} = happened
    OBVIOUS
  <2>3. Whole(model, happened) /\ Needed(model) /\ model.elapsed = completed_batches * RotationTicks
        /\ model.advanced = model.elapsed
    BY <1>1 DEF IInv, Scenario
  <2>4. model.elapsed =< CompletedAt(Batch)
    <3>1. completed_batches \in Nat /\ RotationTicks \in Nat
      BY GenerationAssumption DEF IInv, Types
    <3>2. (completed_batches + 1) * RotationTicks = completed_batches * RotationTicks + RotationTicks
          /\ completed_batches * RotationTicks \in Nat
      BY <3>1
    <3> QED
      BY <2>3, <3>1, <3>2 DEF CompletedAt, Batch
  <2>5. Whole(draft'.model, happened' \cup draft'.times)
    BY <2>1, <2>2, <2>3
  <2>6. Needed(model)' /\ Needed(draft'.model) /\ CompletedAt(Batch)' = CompletedAt(Batch)
    BY <2>1, <2>3 DEF Needed, CompletedAt
  <2> QED
    BY <1>1, <2>1, <2>3, <2>4, <2>5, <2>6 DEF Scenario, Whole, Needed
<1> QED
  BY <1>2, <1>4, <1>5 DEF IInv

LEMMA AdvanceEventKeeps ==
  ASSUME IInv, AdvanceEvent
  PROVE  IInv'
<1> DEFINE m == draft.model
           e == EventAt(m)
           times == happened \cup draft.times
<1>1. /\ pc = "advance"
      /\ UNCHANGED <<pc, model, scheduled, pending, dispatched, scans, failed, stopping, joined,
                     terminal, completed_batches, request, response, worker, job, happened>>
  BY DEF AdvanceEvent, calls, ends, workers, channels
<1>2. PICK phase_end \in PhaseEnds(m) :
        draft' = [model |-> AfterEvent(m, phase_end), times |-> draft.times \cup {e}]
  BY DEF AdvanceEvent
<1>3. Whole(m, times) /\ m.elapsed =< CompletedAt(Batch) /\ Needed(m) /\ m \in Model
  BY <1>1 DEF IInv, Scenario, Whole
<1>4. e =< CompletedAt(Batch)
  BY <1>1, CompletionFacts DEF AdvanceEvent, IInv, Control
<1>5. /\ e \in Nat /\ m.elapsed < e /\ e =< m.next_update /\ e =< m.phase_end
      /\ e = m.next_update \/ e = m.phase_end
  BY <1>3, EventFacts DEF Whole, Model
<1>6. phase_end \in Nat /\ e < phase_end
  <2>1. CASE e = m.phase_end
    <3>1. PICK ticks \in PhaseTicks : phase_end = m.phase_end + ticks
      BY <2>1 DEF PhaseEnds
    <3> QED
      BY <1>5, <2>1, <3>1, GenerationAssumption
  <2>2. CASE e # m.phase_end
    BY <1>3, <1>5, <2>2 DEF PhaseEnds, Model
  <2> QED
    BY <2>1, <2>2
<1> DEFINE next == AfterEvent(m, phase_end)
<1>7. /\ next \in Model /\ next.elapsed = e /\ next.snapshots = Append(m.snapshots, e)
      /\ next.phase_end = phase_end
      /\ next.next_update = IF e = m.next_update THEN m.next_update + UpdateTicks ELSE m.next_update
  <2>1. /\ next.elapsed = e /\ next.snapshots = Append(m.snapshots, e) /\ next.phase_end = phase_end
        /\ next.next_update = IF e = m.next_update THEN m.next_update + UpdateTicks ELSE m.next_update
    BY <1>3 DEF AfterEvent, Model
  <2>2. Append(m.snapshots, e) \in Seq(Nat)
    BY <1>3, <1>5 DEF Model
  <2>3. (IF e = m.next_update THEN m.next_update + UpdateTicks ELSE m.next_update) \in Nat
    BY <1>3, GenerationAssumption DEF Model
  <2>4. next \in Model
    BY <1>3, <1>5, <1>6, <2>2, <2>3 DEF AfterEvent, Model
  <2> QED
    BY <2>1, <2>4
<1>8. e < EventAt(next)
  <2>1. e < next.next_update
    BY <1>3, <1>5, <1>7, GenerationAssumption DEF Model
  <2> HIDE DEF next
  <2> QED
    BY <1>6, <1>7, <2>1, EventFacts
<1>9. /\ History(next.snapshots, times \cup {e}) /\ next.snapshots[1] = m.snapshots[1]
      /\ Last(next.snapshots) = e
  <2>1. History(m.snapshots, times) /\ m.snapshots[Len(m.snapshots)] < e
    <3>1. m.snapshots \in Seq(Nat) /\ m.snapshots # <<>>
      BY <1>3 DEF Whole, History
    <3>2. m.snapshots[Len(m.snapshots)] \in Nat /\ m.elapsed \in Nat
      BY <1>3, <3>1 DEF Model
    <3> QED
      BY <1>3, <1>5, <3>2 DEF Whole, Last
  <2> HIDE DEF e, times, next
  <2>2. /\ History(Append(m.snapshots, e), times \cup {e})
        /\ Append(m.snapshots, e)[1] = m.snapshots[1]
        /\ Append(m.snapshots, e)[Len(Append(m.snapshots, e))] = e
    BY <1>5, <2>1, HistoryAppend
  <2> QED
    BY <1>7, <2>2 DEF Last
<1>10. Whole(draft'.model, happened' \cup draft'.times)
  <2>1. happened' \cup draft'.times = times \cup {e} /\ draft'.model = next
    BY <1>1, <1>2
  <2> HIDE DEF e, times, next
  <2> QED
    BY <1>5, <1>7, <1>8, <1>9, <2>1 DEF Whole
<1>11. draft'.model.elapsed =< CompletedAt(Batch)' /\ Needed(draft.model)'
  BY <1>1, <1>2, <1>3, <1>4, <1>7, <1>9 DEF Needed, Batch, CompletedAt
<1>12. Types' /\ Control'
  BY <1>1 DEF IInv, Types, Control, Calm, Idle, Batch
<1>13. Scenario'
  BY <1>1, <1>10, <1>11 DEF IInv, Scenario, Whole, Needed, Batch
<1> QED
  BY <1>12, <1>13 DEF IInv

LEMMA AdvancedKeeps ==
  ASSUME IInv, Advanced
  PROVE  IInv'
<1> DEFINE m == draft.model
           times == happened \cup draft.times
           c == CompletedAt(Batch)
<1>1. /\ pc = "advance" /\ pc' = "dispatch" /\ happened' = times
      /\ UNCHANGED <<scheduled, pending, dispatched, scans, failed, stopping, joined,
                     terminal, completed_batches, request, response, worker, job>>
  BY DEF Advanced, calls, ends, workers, channels
<1>2. NextCompletion = c /\ c \in Nat /\ Batch' = Batch
  BY <1>1, CompletionFacts DEF IInv, Control, Batch
<1>3. model' = [m EXCEPT !.elapsed = c, !.advanced = c] /\ EventAt(m) > c
  BY <1>2 DEF Advanced
<1>4. Whole(m, times) /\ m.elapsed =< c /\ Needed(m) /\ m \in Model
  BY <1>1 DEF IInv, Scenario, Whole
<1>5. /\ model' \in Model /\ model'.elapsed = c /\ model'.advanced = c
      /\ model'.snapshots = m.snapshots /\ EventAt(model') = EventAt(m)
  BY <1>2, <1>3, <1>4 DEF Model, EventAt
<1>6. Whole(model', happened')
  <2>1. Last(m.snapshots) =< c
    <3>1. Last(m.snapshots) \in Nat /\ m.elapsed \in Nat
      BY <1>4, HistoryLast DEF Whole, History, Model
    <3> QED
      BY <1>2, <1>4, <3>1 DEF Whole
  <2> HIDE DEF c, m, times
  <2> QED
    BY <1>1, <1>2, <1>3, <1>4, <1>5, <2>1 DEF Whole
<1>7. Scenario'
  BY <1>1, <1>2, <1>4, <1>5, <1>6 DEF Scenario, Needed, CompletedAt, Whole
<1>8. Types'
  BY <1>1, <1>5 DEF IInv, Types
<1>9. Control'
  <2>1. Calm /\ ~failed /\ scans = {} /\ dispatched = <<>>
    BY <1>1 DEF IInv, Control
  <2>2. \A s \in Sensor : Idle(s)' /\ pending'[s] = Batch' /\ scheduled'[s] = Batch' /\ ~(s =< 0)
    BY <1>1, <1>2, <2>1 DEF Calm, Idle, Sensor
  <2>3. Dispatching(0)'
    BY <1>1, <2>1, <2>2 DEF Dispatching
  <2> QED
    BY <1>1, <2>1, <2>3 DEF Control, Calm
<1> QED
  BY <1>7, <1>8, <1>9 DEF IInv

LEMMA AdvanceFailsKeeps ==
  ASSUME IInv, AdvanceFails
  PROVE  IInv'
<1>1. /\ pc = "advance" /\ pc' = "idle" /\ terminal' = TRUE
      /\ dispatched' = <<>> /\ scans' = {} /\ failed' = FALSE
      /\ UNCHANGED <<model, draft, scheduled, pending, joined, completed_batches, request,
                     response, worker, job, happened>>
  BY DEF AdvanceFails, EndCall, KeepModel, workers, channels
<1>2. Calm
  BY <1>1 DEF IInv, Control
<1>3. Types'
  BY <1>1 DEF IInv, Types
<1>4. Control'
  BY <1>1, <1>2 DEF Control, Calm, Idle
<1>5. Scenario'
  BY <1>1, ScenarioKept DEF IInv
<1> QED
  BY <1>3, <1>4, <1>5 DEF IInv

LEMMA AppendTwo ==
  ASSUME NEW a, NEW b
  PROVE  Append(<<a>>, b) = <<a, b>>
<1>1. <<a>> \in Seq({a, b}) /\ Append(<<a>>, b) \in Seq({a, b}) /\ <<a, b>> \in Seq({a, b})
  OBVIOUS
<1>2. /\ Len(<<a>>) = 1 /\ Len(<<a, b>>) = 2 /\ <<a>>[1] = a /\ <<a, b>>[1] = a
      /\ <<a, b>>[2] = b
  OBVIOUS
<1>3. /\ Len(Append(<<a>>, b)) = 2 /\ Append(<<a>>, b)[1] = a /\ Append(<<a>>, b)[2] = b
  BY <1>1, <1>2, AppendProperties
<1>4. \A i \in 1..2 : i = 1 \/ i = 2
  OBVIOUS
<1>5. \A i \in 1..Len(<<a, b>>) : <<a, b>>[i] = Append(<<a>>, b)[i]
  BY <1>2, <1>3, <1>4
<1> QED
  BY <1>1, <1>2, <1>3, <1>5, SeqEqual

(* While requests are sent, the sensors that are due are those without one.*)
LEMMA DueFacts ==
  ASSUME Types, NEW n \in 0..2, Dispatching(n), model.elapsed = CompletedAt(Batch)
  PROVE  /\ Due = {s \in Sensor : s > n}
         /\ n < 2 => Due # {} /\ Min(Due) = n + 1
         /\ n = 2 => Due = {}
<1>1. Batch \in Nat \ {0}
  BY DEF Types, Batch
<1>2. Due = {s \in Sensor : s > n}
  BY <1>1 DEF Due, Dispatching, Sensor
<1>3. n < 2 => /\ n + 1 \in {s \in Sensor : s > n} /\ \A s \in {t \in Sensor : t > n} : n + 1 =< s
  BY DEF Sensor
<1>4. n = 2 => {s \in Sensor : s > n} = {}
  BY DEF Sensor
<1>5. {s \in Sensor : s > n} \in SUBSET Int
  BY DEF Sensor
<1>6. n < 2 => Min({s \in Sensor : s > n}) = n + 1
  BY <1>3, <1>5, MinIs
<1> QED
  BY <1>2, <1>3, <1>4, <1>6

LEMMA DispatchKeeps ==
  ASSUME IInv, Dispatch
  PROVE  IInv'
<1>1. /\ pc = "dispatch" /\ Due # {}
      /\ UNCHANGED <<pc, model, draft, scheduled, scans, stopping, joined, terminal, shutdown,
                     completed_batches, response, worker, job, happened>>
  BY DEF Dispatch, ends
<1>2. PICK n \in 0..2 : Dispatching(n)
  BY <1>1 DEF IInv, Control
<1>3. model.elapsed = CompletedAt(Batch) /\ ~failed
  BY <1>1 DEF IInv, Scenario, Control
<1>4. n < 2 /\ Min(Due) = n + 1
  BY <1>1, <1>2, <1>3, DueFacts DEF IInv
<1> DEFINE s == n + 1
<1>5. s \in Sensor /\ Idle(s) /\ pending[s] = Batch
  BY <1>2, <1>4 DEF Sensor, Dispatching
<1>6. /\ pending' = [pending EXCEPT ![s] = 0]
      /\ request' = [request EXCEPT ![s] = GenerateCommand(Batch)]
      /\ dispatched' = Append(dispatched, Of(s)) /\ failed' = failed
  BY <1>4, <1>5 DEF Dispatch, Idle, Of
<1>7. Types'
  <2>1. GenerateCommand(Batch) \in [kind : {"none", "generate", "stop"}, work : Work]
    BY DEF GenerateCommand, Work, IInv, Types, Batch
  <2> QED
    BY <1>1, <1>5, <1>6, <2>1 DEF IInv, Types
<1>8. Dispatching(s)'
  <2>1. dispatched' = IF s = 1 THEN <<Of(1)>> ELSE <<Of(1), Of(2)>>
    <3>1. CASE n = 0
      BY <1>2, <1>6, <3>1 DEF Dispatching
    <3>2. CASE n = 1
      <4>1. dispatched = <<Of(1)>> /\ s = 2
        BY <1>2, <3>2 DEF Dispatching
      <4>2. \A a, b : Append(<<a>>, b) = <<a, b>>
        BY AppendTwo
      <4> QED
        BY <1>6, <4>1, <4>2
    <3> QED
      BY <1>4, <3>1, <3>2
  <2>2. \A t \in Sensor : t # s => /\ request'[t] = request[t] /\ pending'[t] = pending[t]
                                   /\ Idle(t)' <=> Idle(t)
                                   /\ Requested(t)' <=> Requested(t)
    BY <1>1, <1>6 DEF IInv, Types, Idle, Requested, GenerateCommand, Batch
  <2>3. Requested(s)' /\ pending'[s] = 0
    BY <1>1, <1>5, <1>6 DEF IInv, Types, Idle, Requested, GenerateCommand, Batch
  <2>4. \A t \in Sensor : /\ t =< s => Requested(t)' /\ pending'[t] = 0
                          /\ t > s => Idle(t)' /\ pending'[t] = Batch'
    BY <1>1, <1>2, <1>4, <2>2, <2>3 DEF Dispatching, Sensor, Batch
  <2>5. Of(1)' = Of(1) /\ Of(2)' = Of(2) /\ Batch' = Batch /\ s # 0
    BY <1>1, <1>4 DEF Of, Batch
  <2> QED
    BY <1>1, <1>2, <2>1, <2>4, <2>5 DEF Dispatching
<1>9. Control'
  <2>1. s \in 0..2
    BY <1>4
  <2> HIDE DEF s
  <2> QED
    BY <1>1, <1>3, <1>6, <1>8, <2>1 DEF IInv, Control
<1>10. Scenario'
  BY <1>1, ScenarioKept DEF IInv
<1> QED
  BY <1>7, <1>9, <1>10 DEF IInv

LEMMA ScheduleNextKeeps ==
  ASSUME IInv, ScheduleNext
  PROVE  IInv'
<1>1. /\ pc = "dispatch" /\ pc' = "receive" /\ Due = {}
      /\ UNCHANGED <<model, draft, dispatched, scans, stopping, joined, terminal, shutdown,
                     completed_batches, request, response, worker, job, happened>>
  BY DEF ScheduleNext, ends, workers, channels
<1>2. PICK n \in 0..2 : Dispatching(n)
  BY <1>1 DEF IInv, Control
<1>3. /\ model.elapsed = CompletedAt(Batch) /\ Batch \in Nat \ {0}
      /\ ~failed /\ scans = {} /\ joined = {}
  BY <1>1 DEF IInv, Scenario, Control, Types, Batch
<1>4. n = 2
  BY <1>1, <1>2, <1>3, DueFacts DEF IInv
<1>5. /\ dispatched = <<Of(1), Of(2)>>
      /\ \A s \in Sensor : Requested(s) /\ scheduled[s] = Batch /\ pending[s] = 0
  BY <1>2, <1>4 DEF Dispatching, Sensor
<1>6. {d.sensor : d \in Range(dispatched)} = Sensor
  <2>1. DOMAIN <<Of(1), Of(2)>> = {1, 2}
    OBVIOUS
  <2>2. Range(dispatched) = {Of(1), Of(2)}
    BY <1>5, <2>1 DEF Range
  <2> QED
    BY <2>2, SensorFacts DEF Of
<1> DEFINE next == {s \in Sensor : HasNext(s)}
<1>7. /\ scheduled' = [s \in Sensor |-> IF s \in next THEN scheduled[s] + 1 ELSE scheduled[s]]
      /\ pending' = [s \in Sensor |-> IF s \in next THEN scheduled[s] + 1 ELSE pending[s]]
      /\ failed' = (failed \/ next # Sensor)
  BY <1>6 DEF ScheduleNext
<1>8. ~failed' => \A s \in Sensor : scheduled'[s] = Batch + 1 /\ pending'[s] = Batch + 1
  BY <1>5, <1>7
<1>9. Types'
  <2>1. failed' \in BOOLEAN
    BY <1>7
  <2>2. scheduled' \in [Sensor -> Nat] /\ pending' \in [Sensor -> Nat]
    <3> HIDE DEF next
    <3> QED
      BY <1>7 DEF IInv, Types
  <2> QED
    BY <1>1, <2>1, <2>2 DEF IInv, Types
<1>10. Receiving(0)'
  <2>1. \A s \in Sensor : Requested(s)' /\ ~(s =< 0)
    BY <1>1, <1>5 DEF Requested, GenerateCommand, Batch, Sensor
  <2>2. Of(1)' = Of(1) /\ Of(2)' = Of(2) /\ Batch' = Batch
    BY <1>1 DEF Of, Batch
  <2>3. scans' = {Of(s)' : s \in 1..0}
    BY <1>1, <1>3
  <2> QED
    BY <1>1, <1>3, <1>5, <1>8, <2>1, <2>2, <2>3 DEF Receiving
<1>11. Control'
  BY <1>1, <1>10 DEF Control
<1>12. Scenario'
  BY <1>1, ScenarioKept DEF IInv
<1> QED
  BY <1>9, <1>11, <1>12 DEF IInv

(* The result that is received is that of the first scan still waited for. *)
LEMMA ReceiveFacts ==
  ASSUME IInv, Receive
  PROVE  \E n \in 0..1 : /\ Receiving(n) /\ n + 1 \in Sensor /\ Head(dispatched) = Of(n + 1)
                         /\ Requested(n + 1)
<1>1. pc = "receive" /\ dispatched # <<>>
  BY DEF Receive
<1>2. PICK n \in 0..2 : Receiving(n)
  BY <1>1 DEF IInv, Control
<1>3. n < 2 /\ n + 1 \in Sensor /\ Head(dispatched) = Of(n + 1)
  BY <1>1, <1>2 DEF Receiving, Sensor
<1> QED
  BY <1>2, <1>3 DEF Receiving

LEMMA ReceiveKeeps ==
  ASSUME IInv, Receive
  PROVE  IInv'
<1>1. /\ pc = "receive" /\ dispatched # <<>> /\ dispatched' = Tail(dispatched)
      /\ UNCHANGED <<pc, model, draft, scheduled, pending, stopping, terminal, shutdown,
                     completed_batches, request, worker, job, happened>>
  BY DEF Receive
<1>2. PICK n \in 0..1 : /\ Receiving(n) /\ n + 1 \in Sensor /\ Head(dispatched) = Of(n + 1)
                        /\ Requested(n + 1)
  BY ReceiveFacts
<1> DEFINE s == n + 1
<1>3. n < 2 /\ s \in Sensor /\ Head(dispatched) = Of(s)
  BY <1>2
<1>4. dispatched' = IF s = 1 THEN <<Of(2)>> ELSE <<>>
  BY <1>1, <1>2, <1>3 DEF Receiving
<1>5. Requested(s) /\ Of(s).sensor = s /\ Of(s).scan = Batch /\ Batch \in Nat
  BY <1>2, <1>3 DEF Receiving, Of, IInv, Types, Batch
<1>6. \/ /\ response[s] # NoResponse /\ response' = [response EXCEPT ![s] = NoResponse]
         /\ \/ response[s].ok /\ scans' = scans \cup {Of(s)} /\ failed' = failed
            \/ failed' = TRUE /\ scans' = scans
         /\ joined' = joined
      \/ /\ response[s] = NoResponse /\ worker[s] = "gone" /\ failed' = TRUE
         /\ joined' = joined \cup {s} /\ scans' = scans /\ response' = response
  BY <1>3, <1>5 DEF Receive, Disconnected
<1>7. Types'
  <2>1. failed' \in BOOLEAN
    BY <1>6 DEF IInv, Types
  <2>2. response' \in [Sensor -> [scan : Nat, ok : BOOLEAN]]
    <3> HIDE DEF s
    <3> QED
      BY <1>6, CommandFacts DEF IInv, Types
  <2> QED
    BY <1>1, <2>1, <2>2 DEF IInv, Types
<1>8. /\ Received(s)'
      /\ failed => failed' /\ (joined \subseteq joined')
      /\ ~failed' => joined' = joined /\ scans' = scans \cup {Of(s)} /\ ~failed
  <2>1. CASE response[s] # NoResponse
    BY <1>1, <1>3, <1>5, <1>6, <2>1 DEF Requested, Received, IInv, Types
  <2>2. CASE response[s] = NoResponse
    BY <1>1, <1>3, <1>5, <1>6, <2>2, CommandFacts DEF Requested, Received, IInv, Types
  <2> QED
    BY <2>1, <2>2
<1>9. Receiving(s)'
  <2>1. \A t \in Sensor : t # s => /\ response'[t] = response[t]
                                   /\ Requested(t) => Requested(t)'
                                   /\ Received(t) => Received(t)'
    BY <1>1, <1>6, <1>8 DEF IInv, Types, Requested, Received, GenerateCommand, Batch
  <2>2. \A t \in Sensor : (t =< s => Received(t)') /\ (t > s => Requested(t)')
    BY <1>2, <1>3, <1>8, <2>1 DEF Receiving, Sensor
  <2>3. \A t : Of(t)' = Of(t)
    BY <1>1 DEF Of, Batch
  <2>4. {Of(t) : t \in 1..n} \cup {Of(s)} = {Of(t) : t \in 1..s}
    BY <1>3
  <2>5. ~failed' => /\ joined' = {} /\ scans' = {Of(t)' : t \in 1..s}
                    /\ \A t \in Sensor : pending'[t] = Batch' + 1 /\ scheduled'[t] = Batch' + 1
    BY <1>1, <1>2, <1>8, <2>3, <2>4 DEF Receiving, Batch
  <2>6. dispatched' = IF s = 0 THEN <<Of(1)', Of(2)'>> ELSE IF s = 1 THEN <<Of(2)'>> ELSE <<>>
    BY <1>3, <1>4, <2>3
  <2> QED
    BY <2>2, <2>5, <2>6 DEF Receiving
<1>10. Control'
  <2>1. s \in 0..2
    BY <1>3
  <2> HIDE DEF s
  <2> QED
    BY <1>1, <1>9, <2>1 DEF Control
<1>11. Scenario'
  BY <1>1, ScenarioKept DEF IInv
<1> QED
  BY <1>7, <1>10, <1>11 DEF IInv

(* When all results were received, and without an error the next scans are *)
(* scheduled.                                                              *)
LEMMA FinishFacts ==
  ASSUME IInv, FinishCall
  PROVE  /\ \A s \in Sensor : Received(s)
         /\ ~failed => /\ joined = {} /\ EarliestPending = CapturedAt(Batch + 1)
                       /\ \A s \in Sensor : pending[s] = Batch + 1 /\ scheduled[s] = Batch + 1
<1>1. pc = "receive" /\ dispatched = <<>> /\ Batch \in Nat \ {0}
  BY DEF FinishCall, Collected, IInv, Types, Batch
<1>2. PICK n \in 0..2 : Receiving(n)
  BY <1>1 DEF IInv, Control
<1>3. n = 2 /\ \A s \in Sensor : Received(s)
  <2>1. n = 2
    <3>1. \A a, b : <<a, b>> # <<>> /\ <<b>> # <<>>
      OBVIOUS
    <3> QED
      BY <1>1, <1>2, <3>1 DEF Receiving
  <2> QED
    BY <1>2, <2>1 DEF Receiving, Sensor
<1>4. ~failed => /\ joined = {} /\ EarliestPending = CapturedAt(Batch + 1)
                 /\ \A s \in Sensor : pending[s] = Batch + 1 /\ scheduled[s] = Batch + 1
  <2>1. SUFFICES ASSUME ~failed
                 PROVE  /\ joined = {} /\ EarliestPending = CapturedAt(Batch + 1)
                        /\ \A s \in Sensor : pending[s] = Batch + 1 /\ scheduled[s] = Batch + 1
    OBVIOUS
  <2>2. joined = {} /\ \A s \in Sensor : pending[s] = Batch + 1 /\ scheduled[s] = Batch + 1
    BY <1>2, <2>1 DEF Receiving
  <2>3. {CapturedAt(pending[s]) : s \in Sensor} = {CapturedAt(Batch + 1)}
    BY <2>2, SensorFacts
  <2>4. CapturedAt(Batch + 1) \in Nat
    BY <1>1, CapturedFacts
  <2>5. Min({CapturedAt(Batch + 1)}) = CapturedAt(Batch + 1)
    BY <2>4, MinIs, {CapturedAt(Batch + 1)} \in SUBSET Int
  <2> QED
    BY <2>2, <2>3, <2>5 DEF EarliestPending
<1> QED
  BY <1>3, <1>4

LEMMA FinishCallKeeps ==
  ASSUME IInv, FinishCall
  PROVE  IInv'
<1>1. /\ pc = "receive" /\ pc' = "idle" /\ dispatched = <<>> /\ terminal' = ~Succeeds
      /\ dispatched' = <<>> /\ scans' = {} /\ failed' = FALSE
      /\ completed_batches' = IF Succeeds THEN completed_batches + 1 ELSE completed_batches
      /\ UNCHANGED <<draft, scheduled, pending, stopping, joined, shutdown, request, response,
                     worker, job, happened>>
  BY DEF FinishCall, EndCall, Collected, workers, channels
<1>3. \A s \in Sensor : Received(s)
  BY FinishFacts
<1>4. /\ Whole(model, happened) /\ model.advanced = model.elapsed
      /\ model.elapsed = CompletedAt(Batch) /\ Needed(model) /\ Batch \in Nat \ {0}
      /\ model \in Model
  BY <1>1 DEF IInv, Scenario, Whole, Types, Batch
<1>5. Succeeds \in BOOLEAN /\ (Succeeds => ~failed) /\ failed \in BOOLEAN
  BY DEF Succeeds, IInv, Types
<1>6. ~failed => /\ joined = {} /\ EarliestPending = CapturedAt(Batch + 1)
                 /\ \A s \in Sensor : pending[s] = Batch + 1 /\ scheduled[s] = Batch + 1
  BY FinishFacts
<1> DEFINE q == model.snapshots
           e == CapturedAt(Batch + 1)
<1>7. ~failed => /\ model' \in Model /\ Whole(model', happened) /\ model'.snapshots[1] =< e
                 /\ model'.elapsed = model.elapsed /\ model'.advanced = model.advanced
  <2>1. SUFFICES ASSUME ~failed
                 PROVE  /\ model' \in Model /\ Whole(model', happened) /\ model'.snapshots[1] =< e
                        /\ model'.elapsed = model.elapsed /\ model'.advanced = model.advanced
    OBVIOUS
  <2>2. model' = [model EXCEPT !.snapshots = Retained(@, e),
                               !.retained = IF Succeeds /\ Spatial THEN e ELSE @]
    BY <1>6, <2>1 DEF FinishCall
  <2>3. e \in Nat /\ model.elapsed =< e
    <3>1. Batch + 1 \in Nat \ {0} /\ (Batch + 1) - 1 = Batch
      BY <1>4
    <3> QED
      BY <1>4, <3>1, CapturedFacts DEF CompletedAt
  <2>4. History(q, happened) /\ q \in Seq(Nat) /\ q # <<>> /\ Len(q) \in Nat
    <3>1. History(q, happened)
      BY <1>4 DEF Whole
    <3>2. q \in Seq(Nat) /\ q # <<>>
      BY <3>1 DEF History
    <3> QED
      BY <3>1, <3>2
  <2>5. q[1] =< e
    <3>1. /\ 1 \in 1..Len(q) /\ Len(q) \in 1..Len(q)
          /\ q[1] \in Nat /\ q[Len(q)] \in Nat /\ model.elapsed \in Nat
      BY <1>4, <2>4 DEF Model
    <3>2. q[1] =< q[Len(q)] /\ q[Len(q)] =< model.elapsed
      BY <1>4, <2>4, <3>1 DEF History, Increasing, Whole, Last
    <3> QED
      BY <2>3, <3>1, <3>2
  <2>6. PICK k \in 1..Len(q) : UpTo(q, e) = k /\ q[k] =< e
    BY <2>3, <2>4, <2>5, LastUpTo
  <2>7. Retained(q, e) = SubSeq(q, k, Len(q))
    <3>1. Retained(q, e) = IF UpTo(q, e) = 0 THEN q ELSE SubSeq(q, UpTo(q, e), Len(q))
      BY RetainedIs
    <3>2. UpTo(q, e) = k /\ k # 0
      BY <2>4, <2>6
    <3> HIDE DEF q, e
    <3> QED
      BY <3>1, <3>2
  <2> DEFINE r == SubSeq(q, k, Len(q))
  <2>8. History(r, happened) /\ r[1] = q[k] /\ r[Len(r)] = q[Len(q)]
    BY <2>4, HistoryCut
  <2>9. r \in Seq(Nat)
    BY <2>8 DEF History
  <2>10. /\ model' \in Model /\ model'.snapshots = r /\ EventAt(model') = EventAt(model)
         /\ model'.elapsed = model.elapsed /\ model'.advanced = model.advanced
    <3> HIDE DEF q, e, r
    <3>1. (IF Succeeds /\ Spatial THEN e ELSE model.retained) \in Nat
      BY <1>4, <2>3 DEF Model
    <3>2. Retained(model.snapshots, e) = r
      BY <2>7 DEF q, r
    <3> QED
      BY <1>4, <2>2, <2>9, <3>1, <3>2 DEF Model, EventAt
  <2>11. Whole(model', happened) /\ model'.snapshots[1] =< e
    <3> HIDE DEF e, r
    <3> QED
      BY <1>4, <2>6, <2>8, <2>10 DEF Whole, Last
  <2> QED
    BY <2>10, <2>11
<1>8. failed => model' = model
  BY DEF FinishCall
<1>9. Types'
  <2>1. model' \in Model
    <3> HIDE DEF q, e
    <3> QED
      BY <1>4, <1>5, <1>7, <1>8
  <2>2. completed_batches' \in Nat /\ terminal' \in BOOLEAN
    BY <1>1, <1>5 DEF IInv, Types
  <2> QED
    BY <1>1, <2>1, <2>2 DEF IInv, Types
<1>10. Control'
  <2>1. \A s \in Sensor : /\ request'[s] = NoCommand /\ response'[s] = NoResponse
                          /\ worker'[s] # "busy" /\ (worker'[s] = "gone" => s \in joined')
    BY <1>1, <1>3 DEF Received
  <2>2. ~terminal' => Calm'
    <3>1. SUFFICES ASSUME ~terminal'
                   PROVE  Calm'
      OBVIOUS
    <3>2. ~failed /\ Batch' = Batch + 1
      BY <1>1, <1>5, <3>1 DEF Batch, IInv, Types
    <3> QED
      BY <1>1, <1>3, <1>6, <3>2 DEF Calm, Idle, Received
  <2> QED
    BY <1>1, <2>1, <2>2 DEF Control
<1>11. Scenario'
  <2>1. /\ Whole(model', happened') /\ model'.advanced = model'.elapsed
        /\ model'.elapsed = model.elapsed
    <3> HIDE DEF q, e
    <3> QED
      BY <1>1, <1>4, <1>5, <1>7, <1>8
  <2>2. ~terminal' => model'.elapsed = completed_batches' * RotationTicks /\ Needed(model)'
    <3>1. SUFFICES ASSUME ~terminal'
                   PROVE  model'.elapsed = completed_batches' * RotationTicks /\ Needed(model)'
      OBVIOUS
    <3>2. ~failed /\ Batch' = Batch + 1 /\ completed_batches' = Batch
      BY <1>1, <1>5, <3>1 DEF Batch, IInv, Types
    <3>3. model'.snapshots[1] =< CapturedAt(Batch')
      BY <1>7, <3>2
    <3> QED
      BY <1>4, <2>1, <3>2, <3>3 DEF Needed, CompletedAt
  <2> QED
    BY <1>1, <2>1, <2>2 DEF Scenario, Whole
<1> QED
  BY <1>9, <1>10, <1>11 DEF IInv

LEMMA ShutdownKeeps ==
  ASSUME IInv, Shutdown \/ SendStop \/ Join \/ Ended
  PROVE  IInv'
<1>1. /\ pc \in {"idle", "stop"} /\ pc' \in {"stop", "ended"} /\ terminal' \in BOOLEAN
      /\ UNCHANGED <<model, draft, scheduled, pending, failed, completed_batches, response, worker,
                     job, happened>>
  BY DEF Shutdown, SendStop, Join, Ended, calls, ends, workers, channels, IInv, Types
<1>2. \/ request' = request
      \/ \E s \in Sensor : request' = [request EXCEPT ![s] = StopCommand]
  <2>1. CASE SendStop
    <3>1. request' = request \/ request' = [request EXCEPT ![Min(stopping)] = StopCommand]
      BY <2>1 DEF SendStop
    <3>2. Min(stopping) \notin Sensor => [request EXCEPT ![Min(stopping)] = StopCommand] = request
      BY DEF IInv, Types
    <3> QED
      BY <3>1, <3>2
  <2> QED
    BY <2>1 DEF Shutdown, Join, Ended, workers, channels
<1>3. Types'
  BY <1>1, <1>2, CommandFacts DEF IInv, Types
<1>4. \A s \in Sensor : worker[s] # "busy" /\ request[s].kind # "generate"
  BY <1>1, CommandFacts DEF IInv, Control
<1>5. Control'
  BY <1>1, <1>2, <1>4, CommandFacts DEF IInv, Types, Control
<1>6. Scenario'
  BY <1>1, ScenarioKept DEF IInv
<1> QED
  BY <1>3, <1>5, <1>6 DEF IInv

LEMMA NextKeeps == IInv /\ [Next]_vars => IInv'
<1>1. SUFFICES ASSUME IInv, [Next]_vars
               PROVE  IInv'
  OBVIOUS
<1>2. CASE UNCHANGED vars
  <2>1. UNCHANGED <<pc, model, draft, scheduled, pending, dispatched, scans, failed, joined,
                    terminal, completed_batches, request, response, worker, job, happened>>
    BY <1>2 DEF vars, calls, ends, workers, channels
  <2>2. Types'
    BY <1>1, <2>1 DEF IInv, Types
  <2>3. \A s \in Sensor : /\ Idle(s)' = Idle(s) /\ Requested(s)' = Requested(s)
                          /\ Received(s)' = Received(s)
    BY <2>1 DEF Idle, Requested, Received, GenerateCommand, Batch
  <2>4. /\ Calm' = Calm
        /\ \A n \in 0..2 : Dispatching(n)' = Dispatching(n) /\ Receiving(n)' = Receiving(n)
    BY <2>1, <2>3 DEF Calm, Dispatching, Receiving, Of, Batch
  <2>5. Control'
    BY <1>1, <2>1, <2>4 DEF IInv, Control
  <2>6. Scenario'
    BY <1>1, <2>1, ScenarioKept DEF IInv
  <2> QED
    BY <2>2, <2>5, <2>6 DEF IInv
<1>3. CASE Next
  <2>1. ASSUME NEW s \in Sensor, WorkerStep(s) \/ MeasurementFails(s) \/ Panic(s)
        PROVE  IInv'
    <3>1. Measurable(job[s]) \in BOOLEAN
      BY DEF Measurable
    <3> QED
      BY <1>1, <2>1, <3>1, TakeRequestKeeps, TakeStopKeeps, AnswerKeeps, PanicKeeps
      DEF WorkerStep, Respond, MeasurementFails
  <2>2. CASE CoordinatorStep
    BY <1>1, <2>2, AdvanceEventKeeps, AdvancedKeeps, DispatchKeeps, ScheduleNextKeeps,
       ReceiveKeeps, FinishCallKeeps, ShutdownKeeps
    DEF CoordinatorStep
  <2> QED
    BY <1>1, <1>3, <2>1, <2>2, NextCompletedScansKeeps, ShutdownKeeps, AdvanceFailsKeeps DEF Next
<1> QED
  BY <1>1, <1>2, <1>3

-----------------------------------------------------------------------------
(* The results. *)

(* Where a call stands, what the workers hold and what the history covers  *)
(* agree in every reachable state.                                         *)
THEOREM Inductive == Spec => []IInv
<1> QED
  BY InitEstablishes, NextKeeps, PTL DEF Spec

(* Between two calls nothing of a call is left, and unless a call failed   *)
(* both sensors wait for the scan after the last batch (NothingLeftBehind):*)
(* next_completed_scans drains every response, also after an error.        *)
THEOREM CallsAreDrained == Spec => []NothingLeftBehind
<1>1. IInv => NothingLeftBehind
  BY DEF IInv, Control, Calm, NothingLeftBehind, Batch
<1> QED
  BY <1>1, Inductive, PTL

(* The scenario and the surface history are committed together or not at   *)
(* all, with every event up to the committed time and none after it        *)
(* (ModelIsWhole): advance_scenario_and_distortions works on copies.       *)
THEOREM ModelCorrect == Spec => []ModelIsWhole
<1>1. ASSUME IInv
      PROVE  ModelIsWhole
  <2>1. /\ Whole(model, happened) /\ model.advanced = model.elapsed
        /\ pc = "idle" /\ ~terminal => model.elapsed = completed_batches * RotationTicks
    BY <1>1 DEF IInv, Scenario
  <2>2. Last(model.snapshots) = Max(happened)
    BY <2>1, HistoryLast DEF Whole
  <2>3. EventAt(model) \in Nat /\ model.elapsed \in Nat
    BY <2>1, EventFacts DEF Whole, Model
  <2> QED
    BY <2>1, <2>2, <2>3 DEF Whole, ModelIsWhole
<1> QED
  BY <1>1, Inductive, PTL

(* Every point of a scan that is measured gets the surface of the last     *)
(* event up to its time (PointsSeeTheLatestSurface), whatever history      *)
(* discard_before_earliest_pending has dropped and for rotations of any    *)
(* length in samples.                                                      *)
THEOREM SurfacesCorrect == Spec => []PointsSeeTheLatestSurface
<1>1. ASSUME IInv
      PROVE  PointsSeeTheLatestSurface
  <2>1. SUFFICES ASSUME NEW s \in Sensor, worker[s] = "busy", NEW time \in PointTimes(job[s].scan)
                 PROVE  SurfaceAt(job[s].model.snapshots, time) = Max({e \in happened : e =< time})
    BY DEF PointsSeeTheLatestSurface
  <2>2. pc \in {"dispatch", "receive"} /\ Requested(s)
    BY <1>1, <2>1, WorkerCalled DEF IInv
  <2>3. job[s] = [scan |-> Batch, model |-> model]
    BY <2>1, <2>2 DEF Requested
  <2>4. Batch \in Nat \ {0} /\ Whole(model, happened) /\ Needed(model)
    BY <1>1, <2>2 DEF IInv, Types, Scenario, Batch
  <2>5. time \in Nat /\ CapturedAt(Batch) =< time /\ CapturedAt(Batch) \in Nat
    BY <2>1, <2>3, <2>4, PointFacts, CapturedFacts
  <2>6. History(model.snapshots, happened) /\ model.snapshots[1] \in Nat
    <3>1. History(model.snapshots, happened)
      BY <2>4 DEF Whole
    <3>2. model.snapshots \in Seq(Nat) /\ model.snapshots # <<>>
      BY <3>1 DEF History
    <3> QED
      BY <3>1, <3>2
  <2>7. model.snapshots[1] =< time
    BY <2>4, <2>5, <2>6 DEF Needed
  <2> QED
    BY <2>3, <2>5, <2>6, <2>7, HistorySurface
<1> QED
  BY <1>1, Inductive, PTL

(* A batch that is returned has the next scan of every sensor and nothing  *)
(* else (BatchesInStep), whichever worker answered first.                  *)
THEOREM BatchesCorrect == Spec => BatchesInStep
<1>1. ASSUME IInv, [Next]_vars
      PROVE  completed_batches' # completed_batches =>
               /\ completed_batches' = completed_batches + 1
               /\ scans = {[sensor |-> s, scan |-> completed_batches'] : s \in Sensor}
  <2>1. SUFFICES ASSUME completed_batches' # completed_batches
                 PROVE  /\ completed_batches' = completed_batches + 1
                        /\ scans = {[sensor |-> s, scan |-> completed_batches'] : s \in Sensor}
    OBVIOUS
  <2>2. FinishCall
    BY <1>1, <2>1
    DEF Next, vars, NextCompletedScans, Shutdown, CoordinatorStep, AdvanceEvent, Advanced, Dispatch,
        ScheduleNext, Receive, SendStop, Join, Ended, AdvanceFails, WorkerStep, TakeRequest,
        TakeStop, Respond, MeasurementFails, Answer, Panic
  <2>3. pc = "receive" /\ dispatched = <<>> /\ completed_batches' = Batch /\ ~failed
    BY <2>1, <2>2 DEF FinishCall, Collected, Succeeds, Batch
  <2>4. PICK n \in 0..2 : Receiving(n)
    BY <1>1, <2>3 DEF IInv, Control
  <2>5. n = 2
    <3>1. \A a, b : <<a, b>> # <<>> /\ <<b>> # <<>>
      OBVIOUS
    <3> QED
      BY <2>3, <2>4, <3>1 DEF Receiving
  <2>6. scans = {Of(s) : s \in 1..2}
    BY <2>3, <2>4, <2>5 DEF Receiving
  <2> QED
    BY <2>3, <2>6 DEF Of, Sensor, Batch
<1>2. IInv /\ [Next]_vars =>
        (completed_batches' # completed_batches =>
           /\ completed_batches' = completed_batches + 1
           /\ scans = {[sensor |-> s, scan |-> completed_batches'] : s \in Sensor})
  BY <1>1
<1> QED
  BY <1>2, Inductive, PTL DEF Spec, BatchesInStep

-----------------------------------------------------------------------------
(* Rotations of whole numbers of samples. *)

WholeSamples == \E samples \in Nat : RotationTicks = samples * SampleTicks

(* With them a scan begins where the one before it completes. *)
LEMMA WholeBoundary ==
  ASSUME WholeSamples, NEW n \in Nat
  PROVE  CapturedAt(n + 1) = CompletedAt(n)
<1>1. PICK samples \in Nat : RotationTicks = samples * SampleTicks
  BY DEF WholeSamples
<1>2. SampleTicks \in Nat \ {0} /\ RotationTicks \in Nat
  BY GenerationAssumption
<1> DEFINE q == n * samples
<1>3. q \in Nat /\ n * RotationTicks = q * SampleTicks
  BY <1>1, <1>2
<1> HIDE DEF q
<1>4. (q * SampleTicks + SampleTicks - 1) \div SampleTicks = q
  <2>1. /\ q * SampleTicks =< q * SampleTicks + SampleTicks - 1
        /\ q * SampleTicks + SampleTicks - 1 < q * SampleTicks + SampleTicks
        /\ q * SampleTicks \in Nat
    BY <1>2, <1>3
  <2>2. (q + 1) * SampleTicks = q * SampleTicks + SampleTicks
    BY <1>2, <1>3
  <2> DEFINE a == q * SampleTicks + SampleTicks - 1
             d == a \div SampleTicks
  <2>3. a \in Nat /\ q * SampleTicks =< a /\ a < (q + 1) * SampleTicks
    BY <1>2, <2>1, <2>2
  <2> HIDE DEF a
  <2>4. d \in Nat /\ d * SampleTicks =< a /\ a < (d + 1) * SampleTicks
    BY <1>2, <2>3
  <2> HIDE DEF d
  <2>5. ~(d < q)
    <3>1. SUFFICES ASSUME d + 1 =< q
                   PROVE  FALSE
      BY <1>3, <2>4
    <3>2. (d + 1) * SampleTicks =< q * SampleTicks
      BY <1>2, <1>3, <2>4, <3>1
    <3>3. (d + 1) * SampleTicks \in Nat /\ q * SampleTicks \in Nat
      BY <1>2, <1>3, <2>4
    <3> QED
      BY <2>3, <2>4, <3>2, <3>3
  <2>6. ~(q < d)
    <3>1. SUFFICES ASSUME q + 1 =< d
                   PROVE  FALSE
      BY <1>3, <2>4
    <3>2. (q + 1) * SampleTicks =< d * SampleTicks
      BY <1>2, <1>3, <2>4, <3>1
    <3>3. (q + 1) * SampleTicks \in Nat /\ d * SampleTicks \in Nat
      BY <1>2, <1>3, <2>4
    <3> QED
      BY <2>3, <2>4, <3>2, <3>3
  <2>7. d = q
    BY <1>3, <2>4, <2>5, <2>6
  <2> QED
    BY <2>7 DEF d, a
<1>5. Boundary(n) = q
  BY <1>3, <1>4 DEF Boundary
<1>6. (n + 1) - 1 = n
  OBVIOUS
<1> QED
  BY <1>3, <1>5, <1>6 DEF CapturedAt, CompletedAt

(* An error comes from a worker or a limit: a response that is not ok, a   *)
(* worker that is gone and an error of a call all follow such a fault. The *)
(* distortions still have what the scan of this call needs.                *)
Kept(m) == m.retained =< CapturedAt(Batch)
Faults ==
  /\ fault \in BOOLEAN
  /\ failed => fault
  /\ terminal /\ ~shutdown => fault
  /\ pc \in {"dispatch", "receive"} =>
       \A s \in Sensor : /\ worker[s] = "gone" => fault
                         /\ response[s] # NoResponse => response[s].ok \/ fault
  /\ pc \in {"advance", "dispatch", "receive"} \/ ~terminal => Kept(model)
  /\ pc = "advance" => Kept(draft.model)

(* A worker of a call measures every point. *)
LEMMA CallIsMeasurable ==
  ASSUME IInv, Faults, NEW s \in Sensor, worker[s] = "busy"
  PROVE  Measurable(job[s])
<1>1. pc \in {"dispatch", "receive"} /\ Requested(s)
  BY WorkerCalled DEF IInv
<1>2. job[s] = [scan |-> Batch, model |-> model]
  BY <1>1 DEF Requested
<1>3. /\ Batch \in Nat \ {0} /\ Whole(model, happened) /\ Needed(model) /\ Kept(model)
      /\ model.advanced = CompletedAt(Batch)
  BY <1>1 DEF IInv, Types, Scenario, Batch, Faults
<1>4. \A time \in PointTimes(Batch) : model.snapshots[1] =< time
  <2>1. SUFFICES ASSUME NEW time \in PointTimes(Batch)
                 PROVE  model.snapshots[1] =< time
    OBVIOUS
  <2>2. time \in Nat /\ CapturedAt(Batch) =< time /\ CapturedAt(Batch) \in Nat
    BY <1>3, PointFacts, CapturedFacts
  <2>3. History(model.snapshots, happened)
    BY <1>3 DEF Whole
  <2>4. model.snapshots[1] \in Nat
    <3>1. model.snapshots \in Seq(Nat) /\ model.snapshots # <<>>
      BY <2>3 DEF History
    <3> QED
      BY <3>1
  <2> QED
    BY <1>3, <2>2, <2>4 DEF Needed
<1>5. CompletedAt(Batch) =< model.advanced /\ CapturedAt(Batch) >= model.retained
  <2>1. CapturedAt(Batch) \in Nat /\ CompletedAt(Batch) \in Nat
    BY <1>3, CapturedFacts, GenerationAssumption DEF CompletedAt
  <2>2. model.retained \in Nat
    BY <1>3 DEF Whole, Model
  <2> QED
    BY <1>3, <2>1, <2>2 DEF Kept
<1> QED
  BY <1>2, <1>4, <1>5 DEF Measurable

LEMMA FaultsKept ==
  ASSUME WholeSamples, IInv, Faults, [Next]_vars
  PROVE  Faults'
<1>1. Types /\ Control /\ Scenario
  BY DEF IInv
<1>2. CASE UNCHANGED vars
  BY <1>2 DEF vars, calls, ends, workers, channels, Faults, Kept, Batch
<1>3. CASE NextCompletedScans
  BY <1>3 DEF NextCompletedScans, calls, ends, workers, channels, Faults, Kept, Batch
<1>4. CASE AdvanceEvent
  <2>1. PICK phase_end \in PhaseEnds(draft.model) : draft'.model = AfterEvent(draft.model, phase_end)
    BY <1>4 DEF AdvanceEvent
  <2>2. draft.model \in Model
    BY <1>1, <1>4 DEF AdvanceEvent, Scenario, Whole
  <2>3. draft'.model.retained = draft.model.retained
    BY <2>1, <2>2 DEF AfterEvent, Model
  <2> QED
    BY <1>4, <2>3 DEF AdvanceEvent, calls, ends, workers, channels, Faults, Kept, Batch
<1>5. CASE Advanced
  <2>1. draft.model \in Model /\ Calm
    BY <1>1, <1>5 DEF Advanced, Scenario, Whole, Control
  <2>2. model'.retained = draft.model.retained
    BY <1>5, <2>1 DEF Advanced, Model
  <2> QED
    BY <1>5, <2>1, <2>2, CommandFacts
    DEF Advanced, calls, ends, workers, channels, Faults, Kept, Batch, Calm, Idle
<1>6. CASE AdvanceFails
  BY <1>6 DEF AdvanceFails, EndCall, KeepModel, workers, channels, Faults, Kept, Batch
<1>7. CASE Dispatch
  <2>1. failed' => fault
    <3>1. PICK n \in 0..2 : Dispatching(n)
      BY <1>1, <1>7 DEF Dispatch, Control
    <3>2. Min(Due) \in Sensor
      <4>1. n < 2 /\ Min(Due) = n + 1
        BY <1>1, <1>7, <3>1, DueFacts DEF Dispatch, Scenario
      <4> QED
        BY <4>1 DEF Sensor
    <3> QED
      BY <1>7, <3>2 DEF Dispatch, Faults
  <2> QED
    BY <1>7, <2>1 DEF Dispatch, ends, Faults, Kept, Batch
<1>8. CASE ScheduleNext
  BY <1>8 DEF ScheduleNext, ends, workers, channels, Faults, Kept, Batch
<1>9. CASE Receive
  <2>1. PICK n \in 0..1 : /\ Receiving(n) /\ n + 1 \in Sensor /\ Head(dispatched) = Of(n + 1)
                          /\ Requested(n + 1)
    BY <1>9, ReceiveFacts
  <2> DEFINE s == n + 1
  <2>2. response[s] # NoResponse => response[s].scan = Batch
    BY <2>1 DEF Requested
  <2>3. failed' => fault
    <3>1. Of(s).sensor = s /\ Of(s).scan = Batch /\ s \in Sensor /\ Head(dispatched) = Of(s)
      BY <2>1 DEF Of
    <3>2. \/ response[s] # NoResponse /\ (failed' = failed \/ ~response[s].ok)
          \/ worker[s] = "gone"
      BY <1>9, <2>2, <3>1 DEF Receive, Disconnected
    <3>3. pc = "receive"
      BY <1>9 DEF Receive
    <3> QED
      BY <3>1, <3>2, <3>3 DEF Faults
  <2>4. \A t \in Sensor : response'[t] = response[t] \/ response'[t] = NoResponse
    BY <1>1, <1>9 DEF Receive, Types
  <2> QED
    BY <1>9, <2>3, <2>4 DEF Receive, Faults, Kept, Batch
<1>10. CASE FinishCall
  <2>1. /\ pc' = "idle" /\ terminal' = ~Succeeds /\ failed' = FALSE /\ fault' = fault
        /\ shutdown' = shutdown
    BY <1>10 DEF FinishCall, EndCall
  <2>2. /\ model.elapsed = CompletedAt(Batch) /\ model.advanced = model.elapsed
        /\ Batch \in Nat \ {0} /\ model \in Model /\ Kept(model)
    BY <1>1, <1>10 DEF FinishCall, Scenario, Types, Batch, Faults
  <2>3. CapturedAt(Batch + 1) = CompletedAt(Batch) /\ CompletedAt(Batch) \in Nat
    BY <2>2, WholeBoundary, GenerationAssumption DEF CompletedAt
  <2>4. model.retained =< CompletedAt(Batch)
    <3>1. Batch - 1 \in Nat /\ (Batch - 1) + 1 = Batch
      BY <2>2
    <3>2. CapturedAt(Batch) = CompletedAt(Batch - 1)
      BY <3>1, WholeBoundary
    <3>3. CompletedAt(Batch) = CompletedAt(Batch - 1) + RotationTicks /\ CompletedAt(Batch - 1) \in Nat
      BY <3>1, GenerationAssumption DEF CompletedAt
    <3>4. model.retained \in Nat /\ model.retained =< CompletedAt(Batch - 1)
      BY <2>2, <3>2 DEF Kept, Model
    <3> QED
      BY <3>3, <3>4, GenerationAssumption
  <2>5. ~failed => EarliestPending \in model.retained..model.advanced
    <3>1. model.retained \in Nat
      BY <2>2 DEF Model
    <3>2. ~failed => EarliestPending = CapturedAt(Batch + 1)
      BY <1>10, FinishFacts
    <3> QED
      BY <2>2, <2>3, <2>4, <3>1, <3>2
  <2>6. Succeeds <=> ~failed
    BY <2>5 DEF Succeeds
  <2>7. Succeeds => model'.retained =< CapturedAt(Batch + 1) /\ Batch' = Batch + 1
    <3>1. SUFFICES ASSUME Succeeds
                   PROVE  model'.retained =< CapturedAt(Batch + 1) /\ Batch' = Batch + 1
      OBVIOUS
    <3>2. EarliestPending = CapturedAt(Batch + 1)
      BY <1>10, <2>6, <3>1, FinishFacts
    <3>3. model'.retained = EarliestPending \/ model'.retained = model.retained
      BY <1>10, <2>2, <2>6, <3>1 DEF FinishCall, Model
    <3>4. Batch' = Batch + 1
      BY <1>10, <3>1 DEF FinishCall, Batch
    <3> QED
      BY <2>3, <2>4, <3>2, <3>3, <3>4
  <2> QED
    BY <2>1, <2>6, <2>7 DEF Faults, Kept
<1>11. CASE Shutdown \/ SendStop \/ Join \/ Ended
  BY <1>11
  DEF Shutdown, SendStop, Join, Ended, calls, ends, workers, channels, Faults, Kept, Batch, Control
<1>12. ASSUME NEW s \in Sensor, WorkerStep(s) \/ MeasurementFails(s) \/ Panic(s)
       PROVE  Faults'
  <2>1. UNCHANGED <<pc, model, draft, failed, terminal, shutdown, completed_batches>>
    BY <1>12 DEF WorkerStep, MeasurementFails, Panic, TakeRequest, TakeStop, Respond, Answer, calls, ends
  <2>2. fault' = fault \/ fault' = TRUE
    BY <1>12 DEF WorkerStep, MeasurementFails, Panic, TakeRequest, TakeStop, Respond
  <2>3. pc \in {"dispatch", "receive"} =>
          \A t \in Sensor : /\ worker'[t] = "gone" => fault'
                            /\ response'[t] # NoResponse => response'[t].ok \/ fault'
    <3>1. CASE TakeRequest(s)
      BY <1>1, <3>1 DEF TakeRequest, Faults, Types
    <3>2. CASE TakeStop(s)
      BY <1>1, <3>2, StopTaken DEF TakeStop
    <3>3. CASE Respond(s)
      <4>1. Measurable(job[s])
        BY <3>3, CallIsMeasurable DEF Respond, Answer
      <4> QED
        BY <1>1, <3>3, <4>1 DEF Respond, Answer, Faults, Types
    <3>4. CASE MeasurementFails(s)
      BY <3>4 DEF MeasurementFails
    <3>5. CASE Panic(s)
      BY <3>5 DEF Panic
    <3> QED
      BY <1>12, <3>1, <3>2, <3>3, <3>4, <3>5 DEF WorkerStep
  <2> QED
    BY <2>1, <2>2, <2>3 DEF Faults, Kept, Batch
<1> QED
  BY <1>2, <1>3, <1>4, <1>5, <1>6, <1>7, <1>8, <1>9, <1>10, <1>11, <1>12 DEF Next, CoordinatorStep

(* With rotations of whole numbers of samples, only a failed worker or a   *)
(* limit ends the generation (OnlyFaultsAreTerminal): every response of a  *)
(* worker is ok, and the distortions are asked to drop nothing that was    *)
(* not generated.                                                          *)
THEOREM FaultsCorrect ==
  ASSUME WholeSamples
  PROVE  Spec => []OnlyFaultsAreTerminal
<1>1. Init => Faults
  <2>1. SUFFICES ASSUME Init
                 PROVE  Faults
    OBVIOUS
  <2>2. Batch \in Nat \ {0} /\ model.retained = 0
    BY <2>1 DEF Init, Batch
  <2>3. CapturedAt(Batch) \in Nat
    BY <2>2, CapturedFacts
  <2>4. Kept(model)
    BY <2>2, <2>3 DEF Kept
  <2>5. pc = "idle" /\ failed = FALSE /\ terminal = FALSE /\ fault = FALSE
    BY <2>1 DEF Init
  <2> QED
    BY <2>4, <2>5 DEF Faults
<1>2. IInv /\ Faults /\ [Next]_vars => Faults'
  BY FaultsKept
<1>3. Faults => OnlyFaultsAreTerminal
  BY DEF Faults, OnlyFaultsAreTerminal
<1> QED
  BY <1>1, <1>2, <1>3, Inductive, PTL DEF Spec
=============================================================================
