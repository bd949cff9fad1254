------------------------ MODULE CameraPipelineProofs ------------------------
(***************************************************************************)
(* Proofs about CameraPipeline, for any keyframe times, limits and images: *)
(* the slot and the frames kept for publishing agree, both streams offer   *)
(* the same current JPEG, and renders count in the order of their targets. *)
(***************************************************************************)
EXTENDS CameraPipeline, TLAPS

Req == [generation : Nat, run : Nat \ {0}, target : Int, mode : {"exact", "hold"}]
Slots ==
  [last_submitted : Int, mode : {"none", "exact", "hold"}, frames : SUBSET Int,
   pending : SUBSET Req, inflight : BOOLEAN, requests : SUBSET Req]

(* The requests of a slot s and of the process behind it, others.          *)
Behind(s, others) == s.requests \cup others
All(s, others) == s.pending \cup Behind(s, others)

(* One request waits at most, the last submitted; one is under way at most.*)
OneByOne(s, others, g, r) ==
  /\ \A p \in s.pending : p.generation = g /\ p.run = r /\ p.target = s.last_submitted
  /\ \A p, q \in s.pending : p = q
  /\ \A p, q \in Behind(s, others) : p = q
  /\ s.requests = {} \/ others = {}
  /\ \A q \in Behind(s, others) : s.inflight /\ q.generation <= g

(* Requests of generation g are of run r, in order, after what was shown,  *)
(* and their frames are kept.                                              *)
InOrder(s, others, shown, g, r) ==
  /\ \A n \in shown : n <= s.last_submitted
  /\ \A q \in All(s, others) : q.generation = g =>
       /\ q.run = r /\ q.target <= s.last_submitted /\ q.target \in s.frames
       /\ \A n \in shown : n < q.target
  /\ \A p \in s.pending, q \in Behind(s, others) : q.generation = g => q.target < p.target

(* Nothing else is kept as long as the process lives. *)
Exact(s, others, g) ==
  /\ s.inflight => Behind(s, others) # {}
  /\ \A n \in s.frames : \E q \in All(s, others) : q.generation = g /\ q.target = n

SlotOK(s, others, shown, lives, g, r) ==
  /\ s \in Slots /\ others \subseteq Req /\ shown \subseteq Int
  /\ OneByOne(s, others, g, r)
  /\ InOrder(s, others, shown, g, r)
  /\ lives => Exact(s, others, g)

Others == rendering \cup {outcome.request : outcome \in outcomes}
(* The targets after which the next of this run has to come. *)
Shown == {frame.target : frame \in visual} \cup {n \in {rendered[2]} : rendered[1] = run_id}

Connection ==
  /\ exec \in [run : Nat, segment : Sequence \cup {0}, connected : BOOLEAN,
                accepted_header : BOOLEAN]
  /\ run_id = exec.run /\ (exec.connected => exec.run # 0)
  /\ exec.accepted_header => exec.connected
  /\ exec.connected => exec.accepted_header \/ exec.segment # 0
  /\ last_segment \in Sequence \cup {0} /\ segment \in Sequence \cup {0}
  /\ segment # 0 => exec.connected
  /\ due \in Nat /\ next_frame \in Nat /\ generation \in Nat
  /\ closing \in {"no", "put", "join", "done"}
  /\ renderer = "running" => closing = "no"

Worker ==
  closing = "no" =>
    /\ outcomes \subseteq [request : Req, image : Nat] /\ alive \in BOOLEAN
    /\ rendering \subseteq Req
    /\ \A p, q \in outcomes : p = q
    /\ rendering = {} \/ outcomes = {}
    /\ SlotOK(slot, Others, Shown, alive, generation, run_id)
    /\ exec.connected \/ \A q \in All(slot, Others) : q.generation < generation

Stored ==
  /\ \A frame \in visual : frame.target \in Int
  /\ \A f, h \in jpeg : f = h
  /\ rendered \in Nat \X Int /\ rendered[1] <= exec.run
  /\ StoresAgree

IInv == Connection /\ Worker /\ Stored

-----------------------------------------------------------------------------
(* The clock. *)

LEMMA TargetFacts ==
  /\ MaxImage \in Nat
  /\ \A i \in 1..Len(KeyTime) : TargetAt(i) \in Int
  /\ \A n \in Sequence : {TargetAt(n), LastTarget(n), TargetCount(n)} \subseteq Int
<1>1. TargetTicks \in Nat \ {0} /\ MaxImage \in Nat /\ KeyTime \in Seq(Nat) /\ Len(KeyTime) > 1
  BY CameraAssumption
<1>2. \A i \in 1..Len(KeyTime) : KeyTime[i] \in Nat
  BY <1>1
<1>3. ASSUME NEW i \in 1..Len(KeyTime)
      PROVE  TargetAt(i) \in Int
  BY <1>1, <1>2 DEF TargetAt
<1>4. ASSUME NEW n \in Sequence
      PROVE  {TargetAt(n), LastTarget(n), TargetCount(n)} \subseteq Int
  <2>1. n \in 1..Len(KeyTime) /\ n + 1 \in 1..Len(KeyTime)
    BY <1>1 DEF Sequence
  <2> QED
    BY <2>1, <1>3 DEF LastTarget, TargetCount
<1> QED
  BY <1>1, <1>3, <1>4

-----------------------------------------------------------------------------
(* The slot. *)

(* A request that can be sent is sent. *)
LEMMA FlushKeeps ==
  ASSUME NEW s, NEW others, NEW shown, NEW lives, NEW g \in Nat, NEW r \in Nat,
         SlotOK(s, others, shown, lives, g, r)
  PROVE  SlotOK(Flush(s), others, shown, lives, g, r)
<1>1. CASE s.pending = {} \/ s.inflight \/ s.requests # {}
  BY <1>1 DEF Flush
<1>2. CASE ~(s.pending = {} \/ s.inflight \/ s.requests # {})
  <2> DEFINE f == [s EXCEPT !.requests = s.pending, !.inflight = TRUE, !.pending = {}]
  <2>1. Flush(s) = f /\ s \in Slots
    BY <1>2 DEF Flush, SlotOK
  <2>2. /\ f.requests = s.pending /\ f.inflight = TRUE /\ f.pending = {}
        /\ f.last_submitted = s.last_submitted /\ f.frames = s.frames
        /\ f \in Slots
    BY <2>1 DEF Slots
  <2>3. Behind(s, others) = {}
    BY <1>2 DEF SlotOK, OneByOne
  <2>4. Behind(f, others) = s.pending /\ All(f, others) = All(s, others) /\ others = {}
    BY <2>2, <2>3 DEF Behind, All
  <2> HIDE DEF f
  <2>5. OneByOne(f, others, g, r)
    BY <2>2, <2>4 DEF SlotOK, OneByOne
  <2>6. InOrder(f, others, shown, g, r)
    BY <2>2, <2>4 DEF SlotOK, InOrder
  <2>7. lives => Exact(f, others, g)
    BY <2>2, <2>4, <1>2 DEF SlotOK, Exact
  <2> QED
    BY <2>1, <2>2, <2>5, <2>6, <2>7 DEF SlotOK
<1> QED
  BY <1>1, <1>2

(* A target that is submitted replaces the one that waits. *)
LEMMA SubmitKeeps ==
  ASSUME NEW s, NEW others, NEW shown, NEW lives, generation \in Nat, run_id \in Nat \ {0},
         NEW target \in Int, NEW mode \in {"exact", "hold"},
         SlotOK(s, others, shown, lives, generation, run_id)
  PROVE  SlotOK(Submit(s, target, mode), others, shown, lives, generation, run_id)
<1>1. CASE target <= s.last_submitted
  BY <1>1 DEF Submit
<1>2. CASE ~(target <= s.last_submitted)
  <2> DEFINE new == [generation |-> generation, run |-> run_id, target |-> target, mode |-> mode]
             kept == s.frames \ {request.target : request \in s.pending}
             t == [s EXCEPT !.last_submitted = target, !.mode = mode,
                            !.frames = kept \cup {target}, !.pending = {new}]
  <2>1. Submit(s, target, mode) = Flush(t)
    BY <1>2 DEF Submit, Replaced
  <2>2. s \in Slots /\ others \subseteq Req /\ s.last_submitted < target
    BY <1>2 DEF SlotOK, Slots
  <2>3. new \in Req
    BY DEF Req
  <2>4. t.last_submitted = target /\ t.frames = kept \cup {target} /\ t.pending = {new}
        /\ t.inflight = s.inflight /\ t.requests = s.requests
    BY <2>2 DEF Slots
  <2>5. t \in Slots
    BY <2>2, <2>3 DEF Slots
  <2>6. Behind(t, others) = Behind(s, others) /\ All(t, others) = {new} \cup Behind(s, others)
    BY <2>4 DEF Behind, All
  <2>7. new.generation = generation /\ new.run = run_id /\ new.target = target
    OBVIOUS
  <2>8. Behind(s, others) \subseteq Req
    BY <2>2 DEF Behind, Slots
  <2> HIDE DEF t, new
  <2>9. OneByOne(t, others, generation, run_id)
    BY <2>4, <2>6, <2>7 DEF SlotOK, OneByOne
  <2>10. ASSUME NEW q \in Behind(s, others), q.generation = generation
         PROVE  /\ q.run = run_id /\ q.target <= s.last_submitted /\ q.target \in kept
                /\ q.target \in Int /\ \A n \in shown : n < q.target
    <3>1. /\ q.run = run_id /\ q.target <= s.last_submitted /\ q.target \in s.frames
          /\ \A n \in shown : n < q.target
      BY <2>10 DEF SlotOK, InOrder, All
    <3>2. \A p \in s.pending : q.target < p.target /\ p \in Req
      BY <2>10, <2>2 DEF SlotOK, InOrder, Slots
    <3>3. q.target \in Int
      BY <2>8 DEF Req
    <3>4. \A p \in s.pending : q.target # p.target
      BY <3>2, <3>3 DEF Req
    <3> QED
      BY <3>1, <3>3, <3>4
  <2>11. shown \subseteq Int /\ \A n \in shown : n <= s.last_submitted /\ n < target
    BY <2>2 DEF SlotOK, InOrder, Slots
  <2>12. InOrder(t, others, shown, generation, run_id)
    <3>1. \A n \in shown : n <= t.last_submitted
      BY <2>4, <2>11
    <3>2. ASSUME NEW q \in All(t, others), q.generation = generation
          PROVE  /\ q.run = run_id /\ q.target <= t.last_submitted /\ q.target \in t.frames
                 /\ \A n \in shown : n < q.target
      <4>1. CASE q = new
        BY <4>1, <2>4, <2>7, <2>11
      <4>2. CASE q \in Behind(s, others)
        BY <4>2, <3>2, <2>2, <2>4, <2>10 DEF Slots
      <4> QED
        BY <3>2, <2>6, <4>1, <4>2
    <3>3. ASSUME NEW p \in t.pending, NEW q \in Behind(t, others), q.generation = generation
          PROVE  q.target < p.target
      <4>1. p.target = target /\ q \in Behind(s, others)
        BY <2>4, <2>6, <2>7
      <4> QED
        BY <4>1, <3>3, <2>2, <2>10 DEF Slots
    <3> QED
      BY <3>1, <3>2, <3>3 DEF InOrder
  <2>13. lives => Exact(t, others, generation)
    <3>1. HAVE lives
    <3>2. Exact(s, others, generation)
      BY <3>1 DEF SlotOK
    <3>3. t.inflight => Behind(t, others) # {}
      BY <3>2, <2>4, <2>6 DEF Exact
    <3>4. ASSUME NEW n \in t.frames
          PROVE  \E q \in All(t, others) : q.generation = generation /\ q.target = n
      <4>1. CASE n = target
        BY <4>1, <2>6, <2>7
      <4>2. CASE n \in kept
        <5>1. PICK q \in All(s, others) : q.generation = generation /\ q.target = n
          BY <4>2, <3>2 DEF Exact
        <5>2. q \notin s.pending
          BY <5>1, <4>2
        <5> QED
          BY <5>1, <5>2, <2>6 DEF All
      <4> QED
        BY <3>4, <2>4, <4>1, <4>2
    <3> QED
      BY <3>3, <3>4 DEF Exact
  <2>14. SlotOK(t, others, shown, lives, generation, run_id)
    BY <2>2, <2>5, <2>9, <2>11, <2>12, <2>13 DEF SlotOK
  <2> QED
    BY <2>1, <2>14, FlushKeeps
<1> QED
  BY <1>1, <1>2

(* A target of the segment that is scheduled. *)
LEMMA SubmitDueKeeps ==
  ASSUME NEW s, NEW others, NEW shown, NEW lives, Connection,
         SlotOK(s, others, shown, lives, generation, run_id)
  PROVE  SlotOK(SubmitDue(s), others, shown, lives, generation, run_id)
<1>1. CASE segment # 0 /\ due > next_frame
  <2>1. /\ generation \in Nat /\ run_id \in Nat \ {0}
        /\ TargetAt(segment) + due \in Int
    BY <1>1, TargetFacts DEF Connection
  <2> QED
    BY <1>1, <2>1, SubmitKeeps DEF SubmitDue
<1>2. CASE ~(segment # 0 /\ due > next_frame)
  BY <1>2 DEF SubmitDue
<1> QED
  BY <1>1, <1>2

LEMMA SubmitSegmentEndKeeps ==
  ASSUME NEW s, NEW others, NEW shown, NEW lives, Connection,
         SlotOK(s, others, shown, lives, generation, run_id)
  PROVE  SlotOK(SubmitSegmentEnd(s), others, shown, lives, generation, run_id)
<1>1. CASE segment # 0 /\ due < TargetCount(segment)
  <2>1. /\ generation \in Nat /\ run_id \in Nat \ {0}
        /\ LastTarget(segment) \in Int
    BY <1>1, TargetFacts DEF Connection
  <2> QED
    BY <1>1, <2>1, SubmitKeeps DEF SubmitSegmentEnd
<1>2. CASE ~(segment # 0 /\ due < TargetCount(segment))
  BY <1>2 DEF SubmitSegmentEnd
<1> QED
  BY <1>1, <1>2

(* A new segment of a run that is known. *)
LEMMA ScheduleKeeps ==
  ASSUME NEW others, NEW shown, NEW lives, NEW n \in Sequence, Connection, run_id # 0,
         SlotOK(slot, others, shown, lives, generation, run_id)
  PROVE  SlotOK(WithHold(SubmitSegmentEnd(SubmitDue(WithInitial(slot, n))), n),
                others, shown, lives, generation, run_id)
<1>1. /\ generation \in Nat /\ run_id \in Nat \ {0}
      /\ TargetAt(n) \in Int /\ HoldTarget \in Int
  BY TargetFacts DEF Connection, HoldTarget
<1>2. SlotOK(WithInitial(slot, n), others, shown, lives, generation, run_id)
  BY <1>1, SubmitKeeps DEF WithInitial
<1>3. SlotOK(SubmitDue(WithInitial(slot, n)), others, shown, lives, generation, run_id)
  BY <1>2, SubmitDueKeeps
<1>4. SlotOK(SubmitSegmentEnd(SubmitDue(WithInitial(slot, n))),
             others, shown, lives, generation, run_id)
  BY <1>3, SubmitSegmentEndKeeps
<1> QED
  BY <1>1, <1>4, SubmitKeeps DEF WithHold

(* Nothing of the next generation is under way after an invalidation. *)
LEMMA InvalidatedKeeps ==
  ASSUME NEW others, NEW before, NEW shown, NEW lives, NEW g \in Nat, NEW r, NEW next, NEW s, NEW t,
         SlotOK(s, others, before, lives, g, r),
         \/ t = Invalidated(s) /\ shown \subseteq before
         \/ t = ResetRun(s) /\ shown = {}
  PROVE  /\ SlotOK(t, others, shown, lives, g + 1, next)
         /\ \A q \in All(t, others) : q.generation < g + 1
<1>1. s \in Slots /\ others \subseteq Req /\ before \subseteq Int
  BY DEF SlotOK
<1>2. /\ t.pending = {} /\ t.frames = {} /\ t.inflight = s.inflight /\ t.requests = s.requests
      /\ t \in Slots /\ shown \subseteq Int
      /\ \A n \in shown : n <= t.last_submitted
  <2>1. CASE t = Invalidated(s) /\ shown \subseteq before
    <3>1. t.last_submitted = s.last_submitted
      BY <2>1, <1>1 DEF Invalidated, Slots
    <3>2. \A n \in before : n <= s.last_submitted
      BY DEF SlotOK, InOrder
    <3> QED
      BY <1>1, <2>1, <3>1, <3>2 DEF Invalidated, Slots
  <2>2. CASE t = ResetRun(s) /\ shown = {}
    <3> DEFINE u == Invalidated(s)
    <3>1. /\ u.pending = {} /\ u.frames = {} /\ u.inflight = s.inflight
          /\ u.requests = s.requests /\ u \in Slots
      BY <1>1 DEF Invalidated, Slots
    <3>2. t = [u EXCEPT !.mode = "none", !.last_submitted = -1]
      BY <2>2 DEF ResetRun
    <3> HIDE DEF u
    <3>3. /\ t.pending = {} /\ t.frames = {} /\ t.inflight = s.inflight
          /\ t.requests = s.requests
      BY <3>1, <3>2 DEF Slots
    <3>4. -1 \in Int
      OBVIOUS
    <3>5. t \in Slots
      BY <3>1, <3>2, <3>4 DEF Slots
    <3> QED
      BY <2>2, <3>3, <3>5
  <2> QED
    BY <2>1, <2>2
<1>3. Behind(t, others) = Behind(s, others) /\ All(t, others) = Behind(s, others)
  BY <1>2 DEF Behind, All
<1>4. \A q \in Behind(s, others) : s.inflight /\ q.generation <= g /\ q.generation \in Nat
  BY <1>1 DEF SlotOK, OneByOne, Behind, Slots, Req
<1>5. \A q \in Behind(s, others) : q.generation < g + 1 /\ q.generation # g + 1
  BY <1>4
<1>6. OneByOne(t, others, g + 1, next)
  <2>1. \A q \in Behind(s, others) : q.generation <= g + 1
    BY <1>4
  <2> QED
    BY <1>2, <1>3, <1>4, <2>1 DEF SlotOK, OneByOne
<1>7. InOrder(t, others, shown, g + 1, next)
  BY <1>2, <1>3, <1>5 DEF InOrder
<1>8. lives => Exact(t, others, g + 1)
  BY <1>2, <1>3 DEF SlotOK, Exact
<1> QED
  BY <1>1, <1>2, <1>3, <1>5, <1>6, <1>7, <1>8 DEF SlotOK

(* What poll leaves in the slot before it sends what waits. *)
Settled ==
  LET modes == {outcome.request.mode : outcome \in {o \in Current : o.image # NoImage}}
  IN [slot EXCEPT !.inflight = IF outcomes = {} THEN @ ELSE FALSE,
                  !.frames = @ \ {outcome.request.target : outcome \in Current},
                  !.mode = IF modes = {} THEN @ ELSE CHOOSE mode \in modes : TRUE]

LEMMA SettledFacts ==
  ASSUME slot \in Slots, outcomes \subseteq [request : Req, image : Nat]
  PROVE  /\ Settled \in Slots /\ Polled = Flush(Settled)
         /\ Settled.last_submitted = slot.last_submitted
         /\ Settled.pending = slot.pending /\ Settled.requests = slot.requests
         /\ Settled.inflight = IF outcomes = {} THEN slot.inflight ELSE FALSE
         /\ Settled.frames = slot.frames \ {outcome.request.target : outcome \in Current}
<1> DEFINE modes == {outcome.request.mode : outcome \in {o \in Current : o.image # NoImage}}
           mode == IF modes = {} THEN slot.mode ELSE CHOOSE m \in modes : TRUE
           gone == {outcome.request.target : outcome \in Current}
           in == IF outcomes = {} THEN slot.inflight ELSE FALSE
<1>1. modes \subseteq {"exact", "hold"}
  BY DEF Current, Req
<1>2. mode \in {"none", "exact", "hold"}
  BY <1>1 DEF Slots
<1>3. Settled = [slot EXCEPT !.inflight = in, !.frames = slot.frames \ gone, !.mode = mode]
  BY DEF Settled
<1> HIDE DEF mode, gone
<1>4. in \in BOOLEAN
  BY DEF Slots
<1>5. Settled \in Slots
  BY <1>2, <1>3, <1>4 DEF Slots
<1>6. /\ Settled.last_submitted = slot.last_submitted
      /\ Settled.pending = slot.pending /\ Settled.requests = slot.requests
      /\ Settled.inflight = in /\ Settled.frames = slot.frames \ gone
  BY <1>3 DEF Slots
<1>7. Polled = Flush(Settled)
  <2> DEFINE s == IF outcomes = {} THEN slot ELSE [slot EXCEPT !.inflight = FALSE]
  <2>1. Polled = [Flush(s) EXCEPT !.frames = Flush(s).frames \ gone,
                                  !.mode = IF modes = {} THEN Flush(s).mode
                                           ELSE CHOOSE m \in modes : TRUE]
    BY DEF Polled, gone
  <2>2. s \in Slots /\ s.inflight = in /\ s.frames = slot.frames /\ s.mode = slot.mode
        /\ s.pending = slot.pending /\ s.requests = slot.requests
        /\ s.last_submitted = slot.last_submitted
    BY DEF Slots
  <2>3. Settled = [s EXCEPT !.frames = s.frames \ gone, !.mode = mode]
    BY <1>3, <2>2 DEF Slots
  <2>4. Flush(s).frames = s.frames /\ Flush(s).mode = s.mode /\ Flush(s) \in Slots
    BY <2>2 DEF Flush, Slots
  <2>5. Polled = [Flush(s) EXCEPT !.frames = s.frames \ gone, !.mode = mode]
    BY <2>1, <2>2, <2>4 DEF mode
  <2> HIDE DEF s, modes
  <2>6. CASE s.pending = {} \/ s.inflight \/ s.requests # {}
    BY <1>6, <2>2, <2>3, <2>5, <2>6 DEF Flush
  <2>7. CASE ~(s.pending = {} \/ s.inflight \/ s.requests # {})
    <3>1. Flush(s) = [s EXCEPT !.requests = s.pending, !.inflight = TRUE, !.pending = {}]
      BY <2>7 DEF Flush
    <3>2. Flush(Settled) = [Settled EXCEPT !.requests = s.pending, !.inflight = TRUE, !.pending = {}]
      BY <1>6, <2>2, <2>7 DEF Flush
    <3>3. s = [last_submitted |-> s.last_submitted, mode |-> s.mode, frames |-> s.frames,
               pending |-> s.pending, inflight |-> s.inflight, requests |-> s.requests]
      BY <2>2 DEF Slots
    <3>4. Polled = [last_submitted |-> s.last_submitted, mode |-> mode, frames |-> s.frames \ gone,
                    pending |-> {}, inflight |-> TRUE, requests |-> s.pending]
      BY <2>5, <3>1, <3>3
    <3>5. Settled = [last_submitted |-> s.last_submitted, mode |-> mode, frames |-> s.frames \ gone,
                     pending |-> s.pending, inflight |-> s.inflight, requests |-> s.requests]
      BY <2>3, <3>3
    <3>6. Flush(Settled) = [last_submitted |-> s.last_submitted, mode |-> mode,
                            frames |-> s.frames \ gone, pending |-> {}, inflight |-> TRUE,
                            requests |-> s.pending]
      BY <3>2, <3>5
    <3> QED
      BY <3>4, <3>6
  <2> QED
    BY <2>6, <2>7
<1> QED
  BY <1>5, <1>6, <1>7 DEF gone

(* The outcome that is read leaves the slot, with its frame. *)
LEMMA SettledKeeps ==
  ASSUME IInv, closing = "no", PublishCurrent, run_id' = run_id
  PROVE  /\ SlotOK(Settled, rendering, Shown', alive, generation, run_id)
         /\ All(Settled, rendering) \subseteq All(slot, Others)
<1>1. /\ SlotOK(slot, Others, Shown, alive, generation, run_id)
      /\ outcomes \subseteq [request : Req, image : Nat] /\ rendering \subseteq Req
      /\ \A p, q \in outcomes : p = q
      /\ rendering = {} \/ outcomes = {}
  BY DEF IInv, Worker
<1>2. slot \in Slots /\ Others \subseteq Req /\ Shown \subseteq Int
  BY <1>1 DEF SlotOK
<1>3. /\ Settled \in Slots
      /\ Settled.last_submitted = slot.last_submitted
      /\ Settled.pending = slot.pending /\ Settled.requests = slot.requests
      /\ Settled.inflight = IF outcomes = {} THEN slot.inflight ELSE FALSE
      /\ Settled.frames = slot.frames \ {outcome.request.target : outcome \in Current}
  BY <1>1, <1>2, SettledFacts
<1>4. OneByOne(slot, Others, generation, run_id) /\ InOrder(slot, Others, Shown, generation, run_id)
      /\ (alive => Exact(slot, Others, generation))
  BY <1>1 DEF SlotOK
<1>5. CASE outcomes = {}
  <2>1. Current = {} /\ Others = rendering /\ Shown' = Shown
    BY <1>5 DEF Current, Others, Shown, PublishCurrent, stores
  <2>2. Settled.inflight = slot.inflight /\ Settled.frames = slot.frames
    BY <1>3, <1>5, <2>1
  <2>3. Behind(Settled, rendering) = Behind(slot, Others) /\ All(Settled, rendering) = All(slot, Others)
    BY <1>3, <2>1 DEF Behind, All
  <2>4. OneByOne(Settled, rendering, generation, run_id)
    BY <1>3, <1>4, <2>1, <2>2, <2>3 DEF OneByOne
  <2>5. InOrder(Settled, rendering, Shown', generation, run_id)
    BY <1>3, <1>4, <2>1, <2>2, <2>3 DEF InOrder
  <2>6. alive => Exact(Settled, rendering, generation)
    BY <1>4, <2>2, <2>3 DEF Exact
  <2> QED
    BY <1>1, <1>2, <1>3, <2>1, <2>3, <2>4, <2>5, <2>6 DEF SlotOK
<1>6. CASE outcomes # {}
  <2>1. PICK o \in outcomes : outcomes = {o}
    BY <1>1, <1>6
  <2>2. rendering = {} /\ Others = {o.request} /\ o.request \in Req
    BY <1>1, <2>1 DEF Others
  <2>3. slot.requests = {} /\ Settled.requests = {} /\ Settled.inflight = FALSE
    BY <1>3, <1>4, <1>6, <2>2 DEF OneByOne
  <2>4. /\ Behind(Settled, rendering) = {} /\ All(Settled, rendering) = slot.pending
        /\ o.request \in Behind(slot, Others) /\ All(slot, Others) = slot.pending \cup {o.request}
    BY <1>3, <2>2, <2>3 DEF Behind, All
  <2>5. OneByOne(Settled, rendering, generation, run_id)
    BY <1>3, <1>4, <2>2, <2>4 DEF OneByOne
  <2>6. \A p \in slot.pending : p.generation = generation /\ p \in Req
    BY <1>2, <1>4 DEF OneByOne, Slots
  <2>7. /\ Shown' \subseteq Int /\ \A n \in Shown' : n <= slot.last_submitted
        /\ \A p \in slot.pending, n \in Shown' : n < p.target
        /\ \A p \in slot.pending : p.target \in Settled.frames
        /\ alive => \A n \in Settled.frames :
             \E q \in slot.pending : q.generation = generation /\ q.target = n
    <3>1. CASE o.request.generation # generation
      <4>1. Current = {} /\ Shown' = Shown /\ Settled.frames = slot.frames
        BY <3>1, <2>1, <1>3 DEF Current, Shown, PublishCurrent, stores
      <4> QED
        BY <3>1, <4>1, <1>2, <1>4, <2>4, <2>6 DEF InOrder, Exact
    <3>2. CASE o.request.generation = generation
      <4>1. Current = {o} /\ Settled.frames = slot.frames \ {o.request.target}
        BY <3>2, <2>1, <1>3 DEF Current
      <4>2. visual' \in {visual, {FrameOf(o)}}
            /\ rendered' = <<o.request.run, o.request.target>>
        BY <4>1 DEF PublishCurrent, PublishVisual
      <4>3. Shown' \subseteq Shown \cup {o.request.target}
        BY <4>2 DEF Shown, FrameOf
      <4>4. /\ o.request.target \in Int /\ o.request.target <= slot.last_submitted
            /\ \A p \in slot.pending : o.request.target < p.target
        BY <1>4, <2>2, <2>4, <3>2 DEF InOrder, Req
      <4>5. \A p \in slot.pending : p.target \in Int /\ p.target \in slot.frames
                                    /\ p.target # o.request.target
        BY <1>4, <2>4, <2>6, <4>4 DEF InOrder, Req
      <4>6. \A n \in Shown : n <= slot.last_submitted /\ \A p \in slot.pending : n < p.target
        BY <1>4, <2>4, <2>6 DEF InOrder
      <4>7. alive => \A n \in slot.frames : n # o.request.target =>
              \E q \in slot.pending : q.generation = generation /\ q.target = n
        BY <1>4, <2>4 DEF Exact
      <4>8. Shown' \subseteq Int /\ \A n \in Shown' : n <= slot.last_submitted
        BY <1>2, <4>3, <4>4, <4>6
      <4>9. \A p \in slot.pending, n \in Shown' : n < p.target
        BY <4>3, <4>4, <4>6
      <4>10. \A p \in slot.pending : p.target \in Settled.frames
        BY <4>1, <4>5
      <4>11. alive => \A n \in Settled.frames :
               \E q \in slot.pending : q.generation = generation /\ q.target = n
        BY <4>1, <4>7
      <4> QED
        BY <4>8, <4>9, <4>10, <4>11
    <3> QED
      BY <3>1, <3>2
  <2>8. InOrder(Settled, rendering, Shown', generation, run_id)
    <3>1. \A p \in slot.pending : p.run = run_id /\ p.target <= slot.last_submitted
      BY <1>4, <2>4, <2>6 DEF InOrder
    <3> QED
      BY <1>3, <2>4, <2>7, <3>1 DEF InOrder
  <2>9. alive => Exact(Settled, rendering, generation)
    BY <2>3, <2>4, <2>7 DEF Exact
  <2> QED
    BY <1>1, <1>3, <2>2, <2>4, <2>5, <2>7, <2>8, <2>9 DEF SlotOK
<1> QED
  BY <1>5, <1>6

(* What is sent comes from the slot. *)
LEMMA FlushAll ==
  ASSUME NEW s \in Slots, NEW others
  PROVE  All(Flush(s), others) \subseteq All(s, others)
<1>1. CASE s.pending = {} \/ s.inflight \/ s.requests # {}
  BY <1>1 DEF Flush
<1>2. CASE ~(s.pending = {} \/ s.inflight \/ s.requests # {})
  <2>1. Flush(s).requests = s.pending /\ Flush(s).pending = {}
    BY <1>2 DEF Flush, Slots
  <2> QED
    BY <2>1 DEF All, Behind
<1> QED
  BY <1>1, <1>2

(* An outcome that counts puts the same image into both stores. *)
LEMMA PublishKeeps ==
  ASSUME IInv, closing = "no", PublishCurrent, exec' = exec
  PROVE  Stored'
<1>1. Stored /\ Connection /\ Worker
  BY DEF IInv
<1>2. CASE Current = {}
  BY <1>1, <1>2 DEF PublishCurrent, stores, Stored, StoresAgree
<1>3. CASE Current # {}
  <2>1. PICK o \in Current : /\ jpeg' = PublishJpeg(o) /\ visual' = PublishVisual(o)
                             /\ rendered' = <<o.request.run, o.request.target>>
    BY <1>3 DEF PublishCurrent
  <2>2. /\ o.request \in Req /\ o.request.generation = generation
        /\ o.request \in All(slot, Others) /\ o.image \in Nat
    BY <1>1 DEF Current, Worker, Others, All, Behind
  <2>3. /\ o.request.run = run_id /\ o.request.target \in slot.frames
        /\ \A n \in Shown : n < o.request.target
    BY <1>1, <2>2 DEF Worker, SlotOK, InOrder
  <2>4. exec.connected
    BY <1>1, <2>2 DEF Worker, Req, Connection
  <2>5. \A frame \in visual : ~(o.request.target <= frame.target)
    <3>1. \A frame \in visual : frame.target \in Shown /\ frame.target \in Int
      BY <1>1 DEF Shown, Stored
    <3> QED
      BY <2>2, <2>3, <3>1 DEF Req
  <2>6. FrameOf(o) = [run |-> run_id, target |-> o.request.target, image |-> o.image]
    BY <2>3 DEF FrameOf
  <2>7. /\ rendered' \in Nat \X Int /\ rendered'[1] <= exec.run
    BY <1>1, <2>1, <2>2, <2>3 DEF Connection, Req
  <2>8. CASE o.image = NoImage
    <3>1. jpeg' = {} /\ visual' = visual
      BY <2>1, <2>8 DEF PublishJpeg, PublishVisual
    <3> QED
      BY <1>1, <2>7, <3>1 DEF Stored, StoresAgree
  <2>9. CASE o.image # NoImage
    <3>1. visual' = {FrameOf(o)}
      BY <2>1, <2>3, <2>5, <2>9 DEF PublishVisual
    <3>2. \/ jpeg' = {FrameOf(o)}
          \/ jpeg' = jpeg /\ \A frame \in jpeg : frame.image = o.image
      BY <1>1, <2>1, <2>9 DEF PublishJpeg, Stored
    <3>3. \A frame \in jpeg' : frame.image = o.image /\ frame.run = exec.run
      BY <1>1, <2>6, <3>2 DEF Stored, StoresAgree, Connection
    <3>4. StoresAgree'
      BY <1>1, <2>4, <2>6, <3>1, <3>3 DEF StoresAgree, Connection
    <3>5. \A frame \in visual' : frame.target \in Int
      BY <2>2, <2>6, <3>1 DEF Req
    <3>6. \A f, h \in jpeg' : f = h
      BY <1>1, <3>2 DEF Stored
    <3> QED
      BY <2>7, <3>4, <3>5, <3>6 DEF Stored
  <2> QED
    BY <2>8, <2>9
<1> QED
  BY <1>2, <1>3

-----------------------------------------------------------------------------
(* The actions. *)

LEMMA NewRunKeeps ==
  ASSUME IInv, NEW r \in Nat, r = exec.run + 1, AcceptNewRun(r)
  PROVE  IInv'
<1>1. Connection /\ Worker /\ Stored /\ closing = "no"
  BY DEF IInv, AcceptNewRun
<1>2. Connection'
  BY <1>1 DEF Connection, AcceptNewRun, ending
<1>3. Shown' = {} /\ Others' = Others
  <2>1. visual' = {} /\ rendered' = rendered /\ run_id' = r /\ rendered[1] # r
    BY <1>1 DEF AcceptNewRun, Stored, Connection
  <2> QED
    BY <2>1 DEF Shown, Others, AcceptNewRun, process
<1>4. /\ SlotOK(slot', Others, {}, alive, generation + 1, r)
      /\ \A q \in All(slot', Others) : q.generation < generation + 1
  BY <1>1, InvalidatedKeeps DEF Connection, Worker, AcceptNewRun
<1>5. Worker'
  BY <1>1, <1>3, <1>4 DEF Worker, AcceptNewRun, process
<1>6. Stored'
  BY <1>1 DEF Stored, StoresAgree, AcceptNewRun, Connection
<1> QED
  BY <1>2, <1>5, <1>6 DEF IInv

LEMMA DisconnectedKeeps ==
  ASSUME IInv, closing = "no", Disconnected,
         exec' \in [run : {exec.run}, segment : Sequence \cup {0}, connected : {FALSE},
                   accepted_header : {FALSE}]
  PROVE  IInv'
<1>1. Connection /\ Worker /\ Stored
  BY DEF IInv
<1>2. Connection'
  <2>1. /\ exec' \in [run : Nat, segment : Sequence \cup {0}, connected : BOOLEAN,
                    accepted_header : BOOLEAN]
        /\ exec'.run = exec.run /\ exec'.connected = FALSE /\ exec'.accepted_header = FALSE
    BY <1>1 DEF Connection
  <2>2. /\ segment' = 0 /\ due' = 0 /\ next_frame' = 0 /\ generation' \in Nat
        /\ UNCHANGED <<last_segment, run_id, renderer, closing>>
    BY <1>1 DEF Connection, Disconnected, KeepRun, ending
  <2> QED
    BY <1>1, <2>1, <2>2 DEF Connection
<1>3. Shown' \subseteq Shown /\ Others' = Others
  BY DEF Shown, Others, Disconnected, process
<1>4. /\ SlotOK(slot', Others, Shown', alive, generation + 1, run_id)
      /\ \A q \in All(slot', Others) : q.generation < generation + 1
  BY <1>1, <1>3, InvalidatedKeeps DEF Connection, Worker, Disconnected, KeepRun
<1>5. Worker'
  BY <1>1, <1>3, <1>4 DEF Worker, Disconnected, process
<1>6. Stored'
  BY <1>1 DEF Stored, StoresAgree, Disconnected
<1> QED
  BY <1>2, <1>5, <1>6 DEF IInv

LEMMA StateChangedKeeps ==
  ASSUME IInv, closing = "no", exec.run # 0, NEW n \in Sequence \cup {0},
         n # 0 \/ ~exec.connected, StateChanged(n)
  PROVE  IInv'
<1>1. Connection /\ Worker /\ Stored
  BY DEF IInv
<1>2. /\ exec' = [exec EXCEPT !.segment = n, !.connected = TRUE, !.accepted_header = TRUE]
      /\ visual' = IF n = 0 THEN {} ELSE visual
      /\ UNCHANGED <<generation, process, jpeg, rendered, ending>>
  BY DEF StateChanged
<1>3. /\ exec' \in [run : Nat, segment : Sequence \cup {0}, connected : BOOLEAN,
                    accepted_header : BOOLEAN]
      /\ exec'.run = exec.run /\ exec'.connected = TRUE /\ exec'.accepted_header = TRUE
  BY <1>1, <1>2 DEF Connection
<1>4. UNCHANGED <<schedule, slot>> \/ (n \in Sequence /\ Schedule(n))
  BY DEF StateChanged
<1>5. Connection'
  BY <1>1, <1>2, <1>3, <1>4 DEF Connection, Schedule, schedule, ending
<1>6. Stored'
  <2>1. CASE n = 0
    <3>1. jpeg = {}
      BY <1>1, <2>1 DEF Stored, StoresAgree
    <3> QED
      BY <1>1, <1>2, <1>3, <2>1, <3>1 DEF Stored, StoresAgree
  <2>2. CASE n # 0
    BY <1>1, <1>2, <1>3, <2>2 DEF Stored, StoresAgree
  <2> QED
    BY <2>1, <2>2
<1>7. Others' = Others /\ run_id' = run_id /\ Shown' \subseteq Shown
  BY <1>2, <1>4 DEF Others, Shown, process, Schedule, schedule
<1>8. SlotOK(slot, Others, Shown', alive, generation, run_id)
  <2>1. SlotOK(slot, Others, Shown, alive, generation, run_id)
    BY <1>1 DEF Worker
  <2>2. InOrder(slot, Others, Shown', generation, run_id)
    BY <2>1, <1>7 DEF SlotOK, InOrder
  <2> QED
    BY <2>1, <2>2, <1>7 DEF SlotOK
<1>9. SlotOK(slot', Others, Shown', alive, generation, run_id)
  <2>1. CASE slot' = slot
    BY <1>8, <2>1
  <2>2. CASE n \in Sequence /\ Schedule(n)
    BY <1>1, <1>8, <2>2, ScheduleKeeps DEF Schedule, Connection
  <2> QED
    BY <1>4, <2>1, <2>2 DEF Schedule
<1>10. Worker'
  BY <1>1, <1>2, <1>3, <1>7, <1>9 DEF Worker, process
<1> QED
  BY <1>5, <1>6, <1>10 DEF IInv

(* A header for which state_changed raises: connected without a producer,  *)
(* and nothing of it reaches slot or stores.                               *)
LEMMA HeaderRaisesKeeps ==
  ASSUME IInv, AcceptSameRun, Raises(exec.segment)
  PROVE  IInv'
<1>1. /\ exec' = [exec EXCEPT !.connected = TRUE] /\ exec.run # 0 /\ exec.segment # 0
      /\ UNCHANGED <<schedule, generation, slot, process, stores, ending>>
  BY DEF AcceptSameRun, HeaderRaises, Raises
<1>2. Connection /\ Worker /\ Stored
  BY DEF IInv
<1>3. /\ exec' \in [run : Nat, segment : Sequence \cup {0}, connected : BOOLEAN,
                    accepted_header : BOOLEAN]
      /\ exec'.run = exec.run /\ exec'.connected = TRUE /\ exec'.segment = exec.segment
  BY <1>1, <1>2 DEF Connection
<1>4. Connection'
  BY <1>1, <1>2, <1>3 DEF Connection, schedule, ending
<1>5. Shown' = Shown /\ Others' = Others
  BY <1>1 DEF Shown, Others, schedule, process, stores
<1>6. Worker'
  BY <1>1, <1>2, <1>3, <1>5 DEF Worker, schedule, process, ending
<1>7. Stored'
  BY <1>1, <1>2, <1>3 DEF Stored, StoresAgree, stores
<1> QED
  BY <1>4, <1>6, <1>7 DEF IInv

LEMMA ReceiverKeeps ==
  ASSUME IInv, Receiver
  PROVE  IInv'
<1>1. Connection
  BY DEF IInv
<1>2. MaxRuns \in Nat
  BY CameraAssumption
<1>3. ASSUME NEW r \in {exec.run + 1} \cap (1..MaxRuns), AcceptNewRun(r)
      PROVE  IInv'
  BY <1>2, <1>3, NewRunKeeps
<1>4. CASE AcceptSameRun
  <2>1. /\ exec.segment \in Sequence \cup {0} /\ exec.run # 0 /\ closing = "no"
        /\ exec.segment # 0 \/ ~exec.connected
    BY <1>1, <1>4 DEF AcceptSameRun, Connection
  <2>2. CASE Raises(exec.segment)
    BY <1>4, <2>2, HeaderRaisesKeeps DEF AcceptSameRun
  <2>3. CASE ~Raises(exec.segment)
    BY <1>4, <2>1, <2>3, StateChangedKeeps DEF AcceptSameRun
  <2> QED
    BY <2>2, <2>3
<1>5. ASSUME NEW n \in Sequence, AcceptSegment(n)
      PROVE  IInv'
  <2>1. n # 0 /\ exec.run # 0 /\ closing = "no"
    BY <1>1, <1>5 DEF AcceptSegment, Connection, Sequence
  <2>2. CASE Raises(n)
    <3>1. Disconnected /\ exec' = [exec EXCEPT !.segment = n, !.connected = FALSE,
                                             !.accepted_header = FALSE]
      BY <1>5, <2>2 DEF AcceptSegment
    <3>2. exec' \in [run : {exec.run}, segment : Sequence \cup {0}, connected : {FALSE},
                     accepted_header : {FALSE}]
      BY <1>1, <3>1 DEF Connection
    <3> QED
      BY <2>1, <3>1, <3>2, DisconnectedKeeps
  <2>3. CASE ~Raises(n)
    BY <1>5, <2>1, <2>3, StateChangedKeeps DEF AcceptSegment
  <2> QED
    BY <2>2, <2>3
<1>6. CASE Disconnect
  <2>1. exec' \in [run : {exec.run}, segment : Sequence \cup {0}, connected : {FALSE},
                   accepted_header : {FALSE}]
    BY <1>1, <1>6 DEF Disconnect, Connection
  <2> QED
    BY <1>6, <2>1, DisconnectedKeeps DEF Disconnect
<1> QED
  BY <1>3, <1>4, <1>5, <1>6 DEF Receiver

(* The process takes a request, renders it, or dies with it. *)
LEMMA ProcessKeeps ==
  ASSUME IInv, closing = "no", NEW t, NEW others, NEW lives,
         t \in Slots, others \subseteq Req, lives => alive,
         t.last_submitted = slot.last_submitted, t.frames = slot.frames,
         t.pending = slot.pending, t.inflight = slot.inflight,
         t.requests = {} \/ (others = Others /\ t.requests = slot.requests),
         Behind(t, others) \subseteq Behind(slot, Others),
         lives => Behind(t, others) = Behind(slot, Others)
  PROVE  /\ SlotOK(t, others, Shown, lives, generation, run_id)
         /\ exec.connected \/ \A q \in All(t, others) : q.generation < generation
<1>1. /\ SlotOK(slot, Others, Shown, alive, generation, run_id)
      /\ exec.connected \/ \A q \in All(slot, Others) : q.generation < generation
  BY DEF IInv, Worker
<1>2. All(t, others) \subseteq All(slot, Others) /\ (lives => All(t, others) = All(slot, Others))
  BY DEF All
<1>3. OneByOne(slot, Others, generation, run_id) /\ InOrder(slot, Others, Shown, generation, run_id)
      /\ (alive => Exact(slot, Others, generation))
  BY <1>1 DEF SlotOK
<1>4. OneByOne(t, others, generation, run_id)
  BY <1>3 DEF OneByOne
<1>5. InOrder(t, others, Shown, generation, run_id)
  BY <1>2, <1>3 DEF InOrder
<1>6. lives => Exact(t, others, generation)
  BY <1>2, <1>3 DEF Exact
<1> QED
  BY <1>1, <1>2, <1>4, <1>5, <1>6 DEF SlotOK

LEMMA ReceiveKeeps ==
  ASSUME IInv, Receive
  PROVE  IInv'
<1>1. Connection /\ Worker /\ Stored
  BY DEF IInv
<1>2. Connection'
  BY <1>1 DEF Connection, Receive, schedule, ending
<1>3. Stored'
  BY <1>1 DEF Stored, StoresAgree, Receive, stores
<1>4. Worker'
  <2>1. SUFFICES ASSUME closing = "no"
                 PROVE  Worker'
    BY DEF Worker, Receive, ending
  <2>2. /\ slot \in Slots /\ slot.requests \subseteq Req /\ rendering = {} /\ slot.requests # {}
        /\ (slot.requests = {} \/ Others = {}) /\ Others \subseteq Req
        /\ outcomes \subseteq [request : Req, image : Nat]
    BY <1>1, <2>1 DEF Worker, SlotOK, OneByOne, Slots, Receive
  <2>3. slot.requests # {Stop}
    BY <2>2 DEF Req, Stop
  <2>4. /\ slot' = [slot EXCEPT !.requests = {}] /\ rendering' = slot.requests
        /\ UNCHANGED <<alive, outcomes, generation, exec, run_id, visual, rendered, closing>>
    BY <2>3 DEF Receive, schedule, stores, ending
  <2>5. Others = {} /\ outcomes = {}
    BY <2>2 DEF Others
  <2>6. Others' = slot.requests /\ Shown' = Shown
    BY <2>4, <2>5 DEF Others, Shown
  <2>7. /\ slot' \in Slots /\ slot'.requests = {}
        /\ slot'.last_submitted = slot.last_submitted /\ slot'.frames = slot.frames
        /\ slot'.pending = slot.pending /\ slot'.inflight = slot.inflight
    BY <2>2, <2>4 DEF Slots
  <2>8. Behind(slot', Others') = Behind(slot, Others)
    BY <2>5, <2>6, <2>7 DEF Behind
  <2>9. /\ SlotOK(slot', Others', Shown, alive, generation, run_id)
        /\ exec.connected \/ \A q \in All(slot', Others') : q.generation < generation
    BY <2>1, <2>2, <2>6, <2>7, <2>8, ProcessKeeps
  <2> QED
    BY <1>1, <2>1, <2>2, <2>4, <2>5, <2>6, <2>9 DEF Worker
<1> QED
  BY <1>2, <1>3, <1>4 DEF IInv

LEMMA RenderKeeps ==
  ASSUME IInv, Render
  PROVE  IInv'
<1>1. Connection /\ Worker /\ Stored
  BY DEF IInv
<1>2. Connection'
  BY <1>1 DEF Connection, Render, schedule, ending
<1>3. Stored'
  BY <1>1 DEF Stored, StoresAgree, Render, stores
<1>4. Worker'
  <2>1. SUFFICES ASSUME closing = "no"
                 PROVE  Worker'
    BY DEF Worker, Render, ending
  <2>2. PICK request \in rendering, image \in Image \cup {NoImage} :
          outcomes' = {[request |-> request, image |-> image]}
    BY DEF Render
  <2>3. /\ rendering' = {} /\ outcomes = {}
        /\ UNCHANGED <<slot, alive, generation, exec, run_id, visual, rendered, closing>>
    BY DEF Render, schedule, stores, ending
  <2>4. request \in Req /\ image \in Nat /\ slot \in Slots /\ rendering \subseteq Req
        /\ \A p, q \in Behind(slot, Others) : p = q
    BY <1>1, <2>1, TargetFacts DEF Worker, SlotOK, OneByOne, Image, NoImage
  <2>5. Others = rendering /\ rendering = {request}
    BY <2>3, <2>4 DEF Others, Behind
  <2>6. outcomes' \subseteq [request : Req, image : Nat]
    BY <2>2, <2>4
  <2>7. Others' = Others /\ Shown' = Shown
    BY <2>2, <2>3, <2>5 DEF Others, Shown
  <2>8. \A p, q \in outcomes' : p = q
    BY <2>2
  <2> QED
    BY <1>1, <2>1, <2>3, <2>6, <2>7, <2>8 DEF Worker
<1> QED
  BY <1>2, <1>3, <1>4 DEF IInv

LEMMA ProcessDiesKeeps ==
  ASSUME IInv, ProcessDies
  PROVE  IInv'
<1>1. Connection /\ Worker /\ Stored
  BY DEF IInv
<1>2. Connection'
  BY <1>1 DEF Connection, ProcessDies, schedule, ending
<1>3. Stored'
  BY <1>1 DEF Stored, StoresAgree, ProcessDies, stores
<1>4. Worker'
  <2>1. SUFFICES ASSUME closing = "no"
                 PROVE  Worker'
    BY DEF Worker, ProcessDies, ending
  <2>2. /\ rendering' = {} /\ alive' = FALSE
        /\ UNCHANGED <<slot, outcomes, generation, exec, run_id, visual, rendered, closing>>
    BY DEF ProcessDies, schedule, stores, ending
  <2>3. slot \in Slots /\ Others \subseteq Req /\ (slot.requests = {} \/ Others = {})
    BY <1>1, <2>1 DEF Worker, SlotOK, OneByOne
  <2>4. Others' \subseteq Others /\ Shown' = Shown
    BY <2>2 DEF Others, Shown
  <2>5. slot.requests = {} \/ (Others' = Others /\ slot.requests = slot.requests)
    BY <2>3, <2>4
  <2>6. Behind(slot, Others') \subseteq Behind(slot, Others) /\ Others' \subseteq Req
    BY <2>3, <2>4 DEF Behind
  <2>7. /\ SlotOK(slot, Others', Shown, FALSE, generation, run_id)
        /\ exec.connected \/ \A q \in All(slot, Others') : q.generation < generation
    BY <2>1, <2>3, <2>5, <2>6, ProcessKeeps
  <2> QED
    BY <1>1, <2>1, <2>2, <2>4, <2>7 DEF Worker
<1> QED
  BY <1>2, <1>3, <1>4 DEF IInv

LEMMA PollKeeps ==
  ASSUME IInv, Poll
  PROVE  IInv'
<1>1. Connection /\ Worker /\ Stored /\ closing = "no" /\ renderer = "running"
  BY DEF IInv, Poll
<1>2. /\ PublishCurrent /\ outcomes' = {}
      /\ UNCHANGED <<exec, run_id, last_segment, due, generation, rendering, alive, closing>>
  BY DEF Poll
<1>3. Connection'
  <2>1. /\ segment' \in {0, segment} /\ next_frame' \in {due, next_frame}
        /\ renderer' \in {"running", "failed"}
    BY <1>1 DEF Poll
  <2> QED
    BY <1>1, <1>2, <2>1 DEF Connection
<1>4. Stored'
  BY <1>1, <1>2, PublishKeeps
<1>5. /\ SlotOK(Settled, rendering, Shown', alive, generation, run_id)
      /\ All(Settled, rendering) \subseteq All(slot, Others)
  BY <1>1, <1>2, SettledKeeps
<1>6. slot \in Slots /\ outcomes \subseteq [request : Req, image : Nat]
      /\ rendering \subseteq Req
      /\ generation \in Nat /\ run_id \in Nat
  BY <1>1 DEF Worker, SlotOK, Connection
<1>7. Polled = Flush(Settled) /\ Settled \in Slots
  BY <1>6, SettledFacts
<1>8. /\ SlotOK(Polled, rendering, Shown', alive, generation, run_id)
      /\ All(Polled, rendering) \subseteq All(slot, Others)
  BY <1>5, <1>6, <1>7, FlushKeeps, FlushAll
<1>9. Others' = rendering
  BY <1>2 DEF Others
<1>10. slot' = SubmitDue(Polled) \/ slot' = Polled
  BY DEF Poll
<1>11. SlotOK(slot', rendering, Shown', alive, generation, run_id)
  <2>1. SlotOK(SubmitDue(Polled), rendering, Shown', alive, generation, run_id)
    BY <1>1, <1>8, SubmitDueKeeps
  <2> QED
    BY <1>8, <1>10, <2>1
<1>12. exec.connected \/ \A q \in All(slot', rendering) : q.generation < generation
  <2>1. SUFFICES ASSUME ~exec.connected
                 PROVE  \A q \in All(slot', rendering) : q.generation < generation
    OBVIOUS
  <2>2. segment = 0
    BY <1>1, <2>1 DEF Connection
  <2>3. slot' = Polled
    BY <1>10, <2>2 DEF SubmitDue
  <2>4. \A q \in All(slot, Others) : q.generation < generation
    BY <1>1, <2>1 DEF Worker
  <2> QED
    BY <1>8, <2>3, <2>4
<1>13. Worker'
  BY <1>1, <1>2, <1>6, <1>9, <1>11, <1>12 DEF Worker
<1> QED
  BY <1>3, <1>4, <1>13 DEF IInv

(* The clock, and the end of the pipeline. *)
LEMMA RestKeeps ==
  ASSUME IInv, Tick \/ StopRenderer \/ Closer \/ UNCHANGED vars
  PROVE  IInv'
<1>1. Connection /\ Worker /\ Stored
  BY DEF IInv
<1>2. CASE Tick \/ StopRenderer \/ UNCHANGED vars
  <2>1. UNCHANGED <<exec, run_id, last_segment, generation, slot, rendering, outcomes, alive,
                    jpeg, visual, rendered, closing, segment, next_frame>>
    BY <1>2 DEF Tick, StopRenderer, vars, schedule, process, stores, ending
  <2>2. /\ due' \in {due, due + 1} /\ renderer' \in {renderer, "stopped"}
    BY <1>2 DEF Tick, StopRenderer, vars, schedule, ending
  <2>3. Connection'
    BY <1>1, <2>1, <2>2 DEF Connection
  <2>4. Worker' /\ Stored'
    BY <1>1, <2>1 DEF Worker, Stored, StoresAgree, Others, Shown
  <2> QED
    BY <2>3, <2>4 DEF IInv
<1>3. CASE Closer
  <2>1. /\ closing' \in {"put", "join", "done"} /\ segment' \in {0, segment}
        /\ UNCHANGED <<exec, run_id, last_segment, generation, jpeg, visual, rendered, renderer,
                       due, next_frame>>
        /\ closing # "no" \/ renderer # "running"
    BY <1>3 DEF Closer, Close, PutStop, JoinProcess, schedule, process, stores
  <2>2. Connection'
    BY <1>1, <2>1 DEF Connection
  <2>3. Worker' /\ Stored'
    BY <1>1, <2>1 DEF Worker, Stored, StoresAgree
  <2> QED
    BY <2>2, <2>3 DEF IInv
<1> QED
  BY <1>2, <1>3

-----------------------------------------------------------------------------
(* Theorems. *)

LEMMA InitKeeps == Init => IInv
<1> SUFFICES ASSUME Init
             PROVE  IInv
  OBVIOUS
<1>1. Connection
  BY DEF Init, Connection
<1>2. Others = {} /\ Shown = {-1}
  BY DEF Init, Others, Shown
<1>3. -1 \in Int
  OBVIOUS
<1>4. slot \in Slots /\ All(slot, Others) = {} /\ Behind(slot, Others) = {}
  BY <1>2, <1>3 DEF Init, NoSlot, Slots, All, Behind
<1>5. slot.pending = {} /\ slot.requests = {} /\ slot.inflight = FALSE /\ slot.frames = {}
      /\ slot.last_submitted = -1
  BY DEF Init, NoSlot
<1>6. SlotOK(slot, Others, Shown, alive, generation, run_id)
  BY <1>2, <1>3, <1>4, <1>5 DEF SlotOK, OneByOne, InOrder, Exact
<1>7. Worker
  BY <1>4, <1>6 DEF Init, Worker
<1>8. Stored
  BY <1>3 DEF Init, Stored, StoresAgree
<1> QED
  BY <1>1, <1>7, <1>8 DEF IInv

(* The invariant holds in every state. *)
THEOREM Inductive == Spec => []IInv
<1>1. IInv /\ [Next]_vars => IInv'
  <2> SUFFICES ASSUME IInv, [Next]_vars
               PROVE  IInv'
    OBVIOUS
  <2>1. CASE Receiver
    BY <2>1, ReceiverKeeps
  <2>2. CASE Receive
    BY <2>2, ReceiveKeeps
  <2>3. CASE Render
    BY <2>3, RenderKeeps
  <2>4. CASE ProcessDies
    BY <2>4, ProcessDiesKeeps
  <2>5. CASE Poll
    BY <2>5, PollKeeps
  <2>6. CASE Tick \/ StopRenderer \/ Closer \/ UNCHANGED vars
    BY <2>6, RestKeeps
  <2> QED
    BY <2>1, <2>2, <2>3, <2>4, <2>5, <2>6 DEF Next
<1> QED
  BY InitKeeps, <1>1, PTL DEF Spec

(* What the two streams offer is of the live run and connection, and both  *)
(* offer the same JPEG, whatever was under way when a run or a connection  *)
(* ended (LatestJpegStore, LatestVisualStore, _publish).                   *)
THEOREM StoresCorrect == Spec => []StoresAgree
<1>1. IInv => StoresAgree
  BY DEF IInv, Stored
<1> QED
  BY Inductive, <1>1, PTL

(* The worker has at most one request outside its slot, and the frames     *)
(* kept for publishing are exactly those of the current generation         *)
(* (submit, poll and invalidate of the worker, _submit and _publish).      *)
THEOREM SlotCorrect == Spec => []SlotAccounting
<1>1. IInv => SlotAccounting
  <2> SUFFICES ASSUME IInv, alive, closing = "no"
               PROVE  SlotAccounting
    BY DEF SlotAccounting
  <2>1. SlotOK(slot, Others, Shown, alive, generation, run_id)
    BY DEF IInv, Worker
  <2>2. Flight = Behind(slot, Others) /\ slot.pending \cup Flight = All(slot, Others)
    BY DEF Flight, Others, Behind, All
  <2>3. slot.inflight = (Flight # {})
    BY <2>1, <2>2 DEF SlotOK, Slots, OneByOne, Exact
  <2>4. \A r, s \in Flight : r = s
    BY <2>1, <2>2 DEF SlotOK, OneByOne
  <2>5. slot.frames = {request.target : request \in
                         {r \in slot.pending \cup Flight : r.generation = generation}}
    BY <2>1, <2>2 DEF SlotOK, Exact, InOrder
  <2> QED
    BY <2>3, <2>4, <2>5 DEF SlotAccounting
<1> QED
  BY Inductive, <1>1, PTL

(* Renders count in the order of their targets within a run, and run after *)
(* run, also over reconnections (poll and _publish).                       *)
THEOREM OrderCorrect == Spec => RenderedInOrder
<1> DEFINE Forward ==
      \/ rendered' = rendered
      \/ rendered'[1] > rendered[1]
      \/ rendered'[1] = rendered[1] /\ rendered'[2] > rendered[2]
<1>1. IInv /\ [Next]_vars => [Forward]_vars
  <2> SUFFICES ASSUME IInv, [Next]_vars, rendered' # rendered
               PROVE  Forward
    OBVIOUS
  <2>1. Poll
    BY DEF Next, Receiver, AcceptNewRun, AcceptSameRun, AcceptSegment, Disconnect, StateChanged, HeaderRaises,
           Disconnected, Receive, Render, ProcessDies, Tick, StopRenderer, Closer, Close,
           PutStop, JoinProcess, vars, stores
  <2>2. PICK o \in Current : rendered' = <<o.request.run, o.request.target>>
    BY <2>1 DEF Poll, PublishCurrent, stores
  <2>3. /\ SlotOK(slot, Others, Shown, alive, generation, run_id)
        /\ rendered \in Nat \X Int /\ rendered[1] <= run_id /\ run_id \in Nat
    BY <2>1 DEF IInv, Worker, Stored, Connection, Poll
  <2>4. o.request \in All(slot, Others) /\ o.request.generation = generation
    BY DEF Current, Others, All, Behind
  <2>5. o.request.run = run_id /\ \A n \in Shown : n < o.request.target
    BY <2>3, <2>4 DEF SlotOK, InOrder
  <2>6. rendered[1] = run_id => rendered[2] < o.request.target
    BY <2>5 DEF Shown
  <2>7. o.request.target \in Int
    BY <2>3, <2>4 DEF SlotOK, Slots, All, Behind, Req
  <2> QED
    BY <2>2, <2>3, <2>5, <2>6, <2>7
<1> QED
  BY Inductive, <1>1, PTL DEF Spec, RenderedInOrder
=============================================================================
