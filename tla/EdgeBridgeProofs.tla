--------------------------- MODULE EdgeBridgeProofs ---------------------------
(***************************************************************************)
(* Proofs about EdgeBridge, for any frame interval, limits, configurations, *)
(* messages and devices: the deadlines stay on the grid of the first frame, *)
(* a slot gets at most one frame, and that is the latest of the session;   *)
(* the delay between attempts doubles with every failure up to its maximum. *)
(***************************************************************************)
EXTENDS EdgeBridge, NaturalsInduction, WellFoundedInduction, TLAPS

Processors == [descriptor : BOOLEAN, latest : Jpegs \cup {None}, next_write : Int, wrote : BOOLEAN]

(* A deadline of the grid of a slot of this age, and the slot's frames. *)
OnGrid(age, deadline, writes) ==
  IF deadline = NoDeadline THEN writes = 0
  ELSE /\ deadline \in (-2 * FrameTicks)..FrameTicks
       /\ age + deadline \in {-2 * FrameTicks, -FrameTicks, 0, FrameTicks}
       /\ writes = IF deadline > 0 THEN 1 ELSE 0

Grid ==
  /\ slot_age \in 0..(FrameTicks - 1)
  /\ OnGrid(slot_age, processor.next_write, slot_writes)

(* What can be written, and where to. *)
Latest(p, jpeg) == p.latest # None => p.latest = jpeg /\ ValidJpeg(jpeg) /\ p.descriptor
Session == Latest(processor, offered) /\ (InSession => Usable(device))

IInv == TypeOK /\ Grid /\ Session

-----------------------------------------------------------------------------
(* Arithmetic. *)

LEMMA MinFacts ==
  ASSUME NEW a \in Int, NEW b \in Int
  PROVE  Min({a, b}) = IF a <= b THEN a ELSE b
  BY DEF Min

LEMMA MaxFacts ==
  ASSUME NEW a \in Int, NEW b \in Int
  PROVE  Max({a, b}) = IF a >= b THEN a ELSE b
  BY DEF Max

LEMMA ConfigFacts ==
  /\ FrameTicks \in Nat \ {0} /\ PollTicks \in Nat /\ ShutdownPollTicks \in Nat
  /\ MaxPieces \in Nat /\ NoDeadline = FrameTicks + 1
  /\ \A c \in Configs : {c.connect, c.io, c.initial, c.max} \subseteq Nat
  BY EdgeBridgeAssumption DEF NoDeadline

(* next_periodic_deadline gives the end of the present slot. *)
LEMMA NextDeadlineFacts ==
  ASSUME NEW age \in 0..(FrameTicks - 1), NEW deadline \in Int, deadline <= 0,
         NEW writes, OnGrid(age, deadline, writes)
  PROVE  /\ writes = 0 /\ NextDeadline(deadline) \in Int
         /\ NextDeadline(deadline) > 0 /\ OnGrid(age, NextDeadline(deadline), 1)
<1> DEFINE n == FrameTicks
<1>1. n \in Nat \ {0} /\ NoDeadline = n + 1
  BY ConfigFacts
<1>2. deadline \in (-2 * n)..0 /\ age + deadline \in {-2 * n, -n, 0, n} /\ writes = 0
  BY <1>1 DEF OnGrid
<1>3. NextDeadline(deadline) = deadline + n * ((-deadline) \div n + 1)
  BY DEF NextDeadline
<1> HIDE DEF n
<1>4. NextDeadline(deadline) \in 1..n /\ age + NextDeadline(deadline) = n
  <2>1. CASE -deadline \in 0..(n - 1)
    <3>1. (-deadline) \div n = 0
      BY <1>1, <2>1
    <3>2. NextDeadline(deadline) = deadline + n
      BY <1>1, <1>3, <3>1
    <3>3. QED
      BY <1>1, <1>2, <2>1, <3>2 DEF n
  <2>2. CASE -deadline \in n..(2 * n - 1)
    <3>1. (-deadline) \div n = 1
      BY <1>1, <2>2
    <3>2. NextDeadline(deadline) = deadline + 2 * n
      BY <1>1, <1>3, <3>1
    <3>3. QED
      BY <1>1, <1>2, <2>2, <3>2 DEF n
  <2>3. CASE -deadline = 2 * n
    <3>1. (-deadline) \div n = 2
      BY <1>1, <2>3
    <3>2. NextDeadline(deadline) = deadline + 3 * n
      BY <1>1, <1>3, <3>1
    <3>3. QED
      BY <1>1, <1>2, <2>3, <3>2 DEF n
  <2>4. QED
    BY <1>1, <1>2, <2>1, <2>2, <2>3
<1>5. QED
  BY <1>1, <1>2, <1>4 DEF OnGrid, n

(* A tick moves the slot and the deadline on together. *)
LEMMA LaterFacts ==
  ASSUME NEW age \in 0..(FrameTicks - 1), NEW deadline \in Int,
         NEW writes, OnGrid(age, deadline, writes), deadline # NoDeadline
  PROVE  LET next == (age + 1) % FrameTicks
         IN  /\ next \in 0..(FrameTicks - 1) /\ Later(deadline) \in Int
             /\ OnGrid(next, Later(deadline), IF next = 0 THEN 0 ELSE writes)
<1> DEFINE n == FrameTicks
<1> DEFINE next == (age + 1) % n
<1>1. n \in Nat \ {0} /\ NoDeadline = n + 1
  BY ConfigFacts
<1>2. /\ deadline \in (-2 * n)..n /\ age + deadline \in {-2 * n, -n, 0, n}
      /\ writes = IF deadline > 0 THEN 1 ELSE 0
  BY DEF OnGrid
<1>3. Later(deadline) = IF deadline <= -2 * n THEN deadline - 1 + n ELSE deadline - 1
  BY <1>1 DEF Later
<1> HIDE DEF n
<1>4. \/ age + 1 < n /\ next = age + 1
      \/ age + 1 = n /\ next = 0
  <2>1. CASE age + 1 < n
    BY <1>1, <2>1 DEF n
  <2>2. CASE age + 1 = n
    <3>1. n % n = 0
      BY <1>1
    <3>2. QED
      BY <2>2, <3>1
  <2>3. QED
    BY <1>1, <2>1, <2>2 DEF n
<1> DEFINE later == Later(deadline)
<1>5. later \in (-2 * n)..(n - 1) /\ next + later \in {-2 * n, -n, 0, n}
  <2>1. CASE deadline = -2 * n
    BY <1>1, <1>2, <1>3, <1>4, <2>1 DEF n
  <2>2. CASE deadline # -2 * n
    BY <1>1, <1>2, <1>3, <1>4, <2>2 DEF n
  <2>3. QED
    BY <2>1, <2>2
<1>6. (IF next = 0 THEN 0 ELSE writes) = IF later > 0 THEN 1 ELSE 0
  BY <1>1, <1>2, <1>3, <1>4, <1>5 DEF n
<1>7. later # NoDeadline /\ next \in 0..(n - 1)
  BY <1>1, <1>4, <1>5 DEF n
<1>8. OnGrid(next, later, IF later > 0 THEN 1 ELSE 0)
  BY <1>1, <1>5, <1>7 DEF OnGrid, n
<1>9. later \in Int
  BY <1>1, <1>5
<1>10. QED
  BY <1>6, <1>7, <1>8, <1>9 DEF n

-----------------------------------------------------------------------------
LEMMA InitInvariant == Init => IInv
<1> SUFFICES ASSUME Init PROVE IInv
  OBVIOUS
<1>1. /\ NewProcessor \in Processors /\ NewProcessor.latest = None
      /\ NewProcessor.next_write = NoDeadline
  BY ConfigFacts DEF NewProcessor, Processors
<1>2. TypeOK
  <2>1. next_delay \in Nat
    BY ConfigFacts DEF Init
  <2>2. {silence, waited, pieces, remaining, nap, next_delay, failures, slot_age, slot_writes}
          \subseteq Nat
    BY <2>1 DEF Init
  <2>3. config \in Configs /\ shutdown \in BOOLEAN /\ pc = "start" /\ processor \in Processors
    BY <1>1 DEF Init
  <2>4. QED
    BY <2>2, <2>3 DEF TypeOK, Processors
<1>3. Grid
  BY <1>1, ConfigFacts DEF Init, Grid, OnGrid
<1>4. Session
  BY <1>1 DEF Init, Session, Latest, InSession
<1>5. QED
  BY <1>2, <1>3, <1>4 DEF IInv

(* The fields of config that are times. *)
LEMMA TimeFacts ==
  ASSUME TypeOK
  PROVE  {config.connect, config.io, config.initial, config.max, next_delay, failures, silence,
          waited, pieces, remaining, nap, slot_age, slot_writes} \subseteq Nat
  BY ConfigFacts DEF TypeOK

(* An attempt is over: everything starts over. *)
LEMMA RetryInvariant ==
  ASSUME IInv, NEW delay \in Nat, RetryAfter(delay), UNCHANGED <<config, shutdown>>
  PROVE  IInv' /\ slot_writes' = 0
<1>1. /\ pc' = "sleep" /\ remaining' = delay /\ nap' = 0 /\ processor' = NewProcessor
      /\ silence' = 0 /\ waited' = 0 /\ pieces' = 0
      /\ offered' = None /\ slot_age' = 0 /\ slot_writes' = 0
  BY DEF RetryAfter, NewSession, FreshProcessor
<1>2. next_delay' \in Nat /\ failures' \in Nat
  <2>1. {failures, config.max} \subseteq Nat
    BY TimeFacts DEF IInv
  <2>2. next_delay' = Min({2 * delay, config.max}) /\ failures' = Min({failures + 1, config.max})
    BY DEF RetryAfter, NextDelay, Failed
  <2>3. QED
    BY <2>1, <2>2, MinFacts
<1>3. /\ NewProcessor \in Processors /\ NewProcessor.latest = None
      /\ NewProcessor.next_write = NoDeadline
  BY ConfigFacts DEF NewProcessor, Processors
<1>4. TypeOK'
  BY <1>1, <1>2, <1>3 DEF IInv, TypeOK, Processors
<1>5. Grid'
  BY <1>1, <1>3, ConfigFacts DEF Grid, OnGrid, NoDeadline
<1>6. Session'
  BY <1>1, <1>3 DEF Session, Latest, InSession
<1>7. QED
  BY <1>1, <1>4, <1>5, <1>6 DEF IInv

(* poll keeps the grid, and a slot's first frame is the latest. *)
LEMMA PollFacts ==
  ASSUME NEW age \in 0..(FrameTicks - 1), NEW p \in Processors, NEW writes \in Nat,
         NEW next, OnGrid(age, p.next_write, writes), failures \in Nat, Poll(p, writes, next)
  PROVE  /\ processor' \in Processors /\ slot_writes' \in Nat /\ failures' \in Nat
         /\ OnGrid(age, processor'.next_write, slot_writes')
         /\ processor'.latest = p.latest /\ processor'.descriptor = p.descriptor
         /\ processor'.wrote \in BOOLEAN /\ pc' \in {next, "device_error"}
         /\ slot_writes' = 1 /\ writes # 1
              => p.latest # None /\ shown' = [device |-> device, jpeg |-> p.latest]
<1>1. CASE Wrote(p)
  <2>1. /\ Due(p) /\ processor' = Written(p) /\ failures' = 0
        /\ shown' = [device |-> device, jpeg |-> p.latest] /\ slot_writes' = Min({writes + 1, 2})
    BY <1>1 DEF Poll, Wrote
  <2>2. /\ p.next_write # NoDeadline /\ p.next_write <= 0 /\ p.latest # None
        /\ p.next_write \in Int
    BY <2>1 DEF Due, Processors
  <2>3. /\ writes = 0 /\ NextDeadline(p.next_write) \in Int
        /\ OnGrid(age, NextDeadline(p.next_write), 1)
    BY <2>2, NextDeadlineFacts
  <2>4. slot_writes' = 1
    BY <2>1, <2>3, MinFacts
  <2>5. /\ processor' = [descriptor |-> p.descriptor, latest |-> p.latest,
                         next_write |-> NextDeadline(p.next_write), wrote |-> TRUE]
    BY <2>1 DEF Written, Processors
  <2>6. pc' \in {next, "device_error"}
    BY DEF Poll, Return
  <2>7. QED
    BY <2>1, <2>2, <2>3, <2>4, <2>5, <2>6 DEF Processors
<1>2. CASE ~Wrote(p)
  <2>1. UNCHANGED <<shown, failures>> /\ slot_writes' = writes
    BY <1>2 DEF Poll
  <2>2. processor' = p
    BY <1>2 DEF Poll, Wrote
  <2>3. pc' \in {next, "device_error"}
    BY DEF Poll, Return
  <2>4. QED
    BY <2>1, <2>2, <2>3 DEF Processors
<1>3. QED
  BY <1>1, <1>2

-----------------------------------------------------------------------------
(* The steps. *)

LEMMA QuietStep ==
  ASSUME IInv, UNCHANGED <<processor, offered, device, slot_age, slot_writes>>,
         InSession' => InSession
  PROVE  Grid' /\ Session'
<1>1. Grid'
  BY DEF IInv, Grid, OnGrid, NoDeadline
<1>2. Session'
  BY DEF IInv, Session, Latest
<1>3. QED
  BY <1>1, <1>2

LEMMA StartInvariant == IInv /\ Start => IInv'
<1> SUFFICES ASSUME IInv, Start PROVE IInv'
  OBVIOUS
<1>1. /\ pc' \in {"config_error", "connect", "device_error"}
      /\ UNCHANGED <<config, shutdown, next_delay, session, delays, failures, shown, device>>
  BY DEF Start, Return
<1>2. TypeOK'
  BY <1>1 DEF IInv, TypeOK, session, delays
<1>3. QED
  BY <1>1, <1>2, QuietStep DEF IInv, InSession, session

LEMMA ConnectInvariant == IInv /\ Connect => IInv'
<1> SUFFICES ASSUME IInv, Connect PROVE IInv'
  OBVIOUS
<1>1. CASE Return("ok") /\ UNCHANGED <<next_delay, session, delays, failures, device>>
  <2>1. UNCHANGED <<config, shutdown>>
    BY DEF Connect
  <2>2. TypeOK'
    BY <1>1, <2>1 DEF IInv, TypeOK, Return, session, delays
  <2>3. QED
    BY <1>1, <2>2, QuietStep DEF IInv, InSession, Return, session
<1>2. CASE Retry
  <2>1. UNCHANGED <<config, shutdown>> /\ next_delay \in Nat
    BY TimeFacts DEF IInv, Connect
  <2>2. QED
    BY <1>2, <2>1, RetryInvariant DEF Retry
<1>3. CASE /\ \E d \in Devices :
                IF Usable(d) THEN pc' = "top" /\ device' = d
                ELSE Return("device_error") /\ UNCHANGED device
           /\ NewSession
           /\ UNCHANGED <<next_delay, delays, failures>>
  <2>1. UNCHANGED <<config, shutdown>>
    BY DEF Connect
  <2>2. \/ pc' = "top" /\ Usable(device')
        \/ pc' = "device_error"
    BY <1>3 DEF Return
  <2>3. /\ processor' = NewProcessor /\ silence' = 0 /\ waited' = 0 /\ pieces' = 0
        /\ offered' = None /\ slot_age' = 0 /\ slot_writes' = 0
    BY <1>3 DEF NewSession, FreshProcessor
  <2>4. /\ NewProcessor \in Processors /\ NewProcessor.latest = None
        /\ NewProcessor.next_write = NoDeadline
    BY ConfigFacts DEF NewProcessor, Processors
  <2>5. TypeOK'
    BY <1>3, <2>1, <2>2, <2>3, <2>4 DEF IInv, TypeOK, Processors, delays
  <2>6. Grid'
    BY <2>3, <2>4, ConfigFacts DEF Grid, OnGrid, NoDeadline
  <2>7. Session'
    <3>1. Latest(processor, offered)'
      BY <2>3, <2>4 DEF Latest
    <3>2. (InSession => Usable(device))'
      BY <2>2 DEF InSession
    <3>3. QED
      BY <3>1, <3>2 DEF Session
  <2>8. QED
    BY <2>5, <2>6, <2>7 DEF IInv
<1>4. QED
  BY <1>1, <1>2, <1>3 DEF Connect

LEMMA SleepInvariant == IInv /\ Sleep => IInv'
<1> SUFFICES ASSUME IInv, Sleep PROVE IInv'
  OBVIOUS
<1>1. /\ pc' \in {"ok", "connect", "sleep"}
      /\ UNCHANGED <<config, shutdown, next_delay, session, remaining, failures, shown, device>>
  BY DEF Sleep, Return
<1>2. nap' \in Nat
  <2>1. nap \in Nat /\ remaining \in Nat
    BY TimeFacts DEF IInv
  <2>2. nap' = nap \/ nap' = Min({remaining, ShutdownPollTicks})
    BY DEF Sleep
  <2>3. QED
    BY <2>1, <2>2, MinFacts, ConfigFacts
<1>3. TypeOK'
  BY <1>1, <1>2 DEF IInv, TypeOK, session
<1>4. QED
  BY <1>1, <1>3, QuietStep DEF IInv, InSession, session

LEMMA SignalInvariant == IInv /\ Signal => IInv'
<1> SUFFICES ASSUME IInv, Signal PROVE IInv'
  OBVIOUS
<1>1. TypeOK'
  BY DEF IInv, TypeOK, Signal, session, delays
<1>2. QED
  BY <1>1, QuietStep DEF IInv, Signal, InSession, session

LEMMA PieceInvariant == IInv /\ Piece => IInv'
<1> SUFFICES ASSUME IInv, Piece PROVE IInv'
  OBVIOUS
<1>1. pieces' \in Nat /\ waited' = 0
  BY DEF IInv, TypeOK, Piece
<1>2. TypeOK'
  BY <1>1 DEF IInv, TypeOK, Piece, delays
<1>3. QED
  BY <1>2, QuietStep DEF IInv, Piece, InSession

(* The poll before a read and the one after. *)
LEMMA PollStep ==
  ASSUME IInv, NEW next \in {"read", "top"}, InSession, Poll(processor, slot_writes, next),
         waited' \in Nat,
         UNCHANGED <<config, shutdown, next_delay, silence, pieces, offered, slot_age, delays, device>>
  PROVE  /\ IInv'
         /\ slot_writes' = 1 /\ slot_writes # 1
              => processor.latest # None
                 /\ shown' = [device |-> device, jpeg |-> processor.latest]
<1>1. /\ slot_age \in 0..(FrameTicks - 1) /\ processor \in Processors /\ slot_writes \in Nat
      /\ failures \in Nat /\ OnGrid(slot_age, processor.next_write, slot_writes)
  BY DEF IInv, TypeOK, Grid, Processors
<1>2. /\ processor' \in Processors /\ slot_writes' \in Nat /\ failures' \in Nat
      /\ OnGrid(slot_age, processor'.next_write, slot_writes')
      /\ processor'.latest = processor.latest /\ processor'.descriptor = processor.descriptor
      /\ pc' \in {next, "device_error"}
      /\ slot_writes' = 1 /\ slot_writes # 1
           => processor.latest # None /\ shown' = [device |-> device, jpeg |-> processor.latest]
  BY <1>1, PollFacts
<1>3. TypeOK'
  BY <1>2 DEF IInv, TypeOK, Processors, delays
<1>4. Grid'
  BY <1>1, <1>2 DEF Grid, OnGrid, NoDeadline
<1>5. Session'
  BY <1>2 DEF IInv, Session, Latest, InSession
<1>6. QED
  BY <1>2, <1>3, <1>4, <1>5 DEF IInv

LEMMA TopInvariant == IInv /\ Top => IInv'
<1> SUFFICES ASSUME IInv, Top PROVE IInv'
  OBVIOUS
<1>1. CASE shutdown
  <2>1. TypeOK'
    BY <1>1 DEF IInv, TypeOK, Top, Return, delays
  <2>2. QED
    BY <1>1, <2>1, QuietStep DEF IInv, Top, Return, InSession
<1>2. CASE ~shutdown
  <2>1. InSession /\ Poll(processor, slot_writes, "read") /\ waited' \in Nat
    BY <1>2 DEF Top, InSession
  <2>2. QED
    BY <2>1, PollStep DEF Top
<1>3. QED
  BY <1>1, <1>2

LEMMA AfterInvariant == IInv /\ After => IInv'
<1> SUFFICES ASSUME IInv, After PROVE IInv'
  OBVIOUS
<1>1. waited' \in Nat
  BY TimeFacts DEF IInv, After
<1>2. QED
  BY <1>1, PollStep DEF After, InSession

LEMMA TextInvariant ==
  ASSUME IInv, NEW text, HandleText(text)
  PROVE  IInv' /\ (slot_writes' = slot_writes \/ slot_writes' = 0)
<1>1. UNCHANGED <<config, shutdown, shown, device>>
  BY DEF HandleText
<1>2. CASE ~processor.descriptor /\ ValidDescriptor(text)
  <2>1. /\ processor' = [processor EXCEPT !.descriptor = TRUE]
        /\ silence' = 0 /\ pieces' = 0 /\ pc' = "after" /\ pc = "read"
        /\ UNCHANGED <<next_delay, waited, offered, slot_age, slot_writes, delays, failures>>
    BY <1>2 DEF HandleText
  <2>2. processor \in Processors
    BY DEF IInv, TypeOK, Processors
  <2>3. /\ processor' \in Processors /\ processor'.latest = processor.latest
        /\ processor'.next_write = processor.next_write /\ processor'.descriptor = TRUE
    BY <2>1, <2>2 DEF Processors
  <2>4. TypeOK'
    BY <1>1, <2>1, <2>3 DEF IInv, TypeOK, Processors, delays
  <2>5. Grid'
    BY <2>1, <2>3 DEF IInv, Grid, OnGrid, NoDeadline
  <2>6. Session'
    BY <1>1, <2>1, <2>3 DEF IInv, Session, Latest, InSession
  <2>7. QED
    BY <2>1, <2>4, <2>5, <2>6 DEF IInv
<1>3. CASE ~(~processor.descriptor /\ ValidDescriptor(text))
  <2>1. Retry /\ next_delay \in Nat
    BY <1>3, TimeFacts DEF IInv, HandleText
  <2>2. QED
    BY <1>1, <2>1, RetryInvariant DEF Retry
<1>4. QED
  BY <1>2, <1>3

LEMMA BinaryInvariant ==
  ASSUME IInv, NEW jpeg \in Jpegs, HandleBinary(jpeg)
  PROVE  /\ IInv'
         /\ slot_writes' = 1 /\ slot_writes # 1
              => /\ shown' = [device |-> device, jpeg |-> offered']
                 /\ ValidJpeg(offered') /\ processor'.descriptor /\ Usable(device)
<1>1. UNCHANGED <<config, shutdown, device>> /\ pc = "read"
  BY DEF HandleBinary
<1>2. CASE processor.descriptor /\ ValidJpeg(jpeg)
  <2> DEFINE first == processor.next_write = NoDeadline
  <2> DEFINE p == [processor EXCEPT !.latest = jpeg, !.next_write = IF first THEN 0 ELSE @]
  <2> DEFINE age == IF first THEN 0 ELSE slot_age
  <2>1. /\ Poll(p, slot_writes, "after") /\ slot_age' = age
        /\ next_delay' = IF processor'.wrote THEN InitialDelay ELSE next_delay
        /\ offered' = jpeg /\ silence' = 0 /\ pieces' = 0
        /\ UNCHANGED <<waited, delays>>
    BY <1>2 DEF HandleBinary
  <2>2. /\ processor \in Processors /\ slot_writes \in Nat /\ failures \in Nat
        /\ slot_age \in 0..(FrameTicks - 1)
        /\ OnGrid(slot_age, processor.next_write, slot_writes)
    BY DEF IInv, TypeOK, Grid, Processors
  <2>3. /\ p = [descriptor |-> processor.descriptor, latest |-> jpeg,
                next_write |-> IF first THEN 0 ELSE processor.next_write,
                wrote |-> processor.wrote]
    <3> DEFINE q == [processor EXCEPT !.latest = jpeg]
    <3>1. /\ q \in Processors /\ q.descriptor = processor.descriptor /\ q.latest = jpeg
          /\ q.next_write = processor.next_write /\ q.wrote = processor.wrote
      BY <2>2 DEF Processors
    <3>2. p = [q EXCEPT !.next_write = IF first THEN 0 ELSE processor.next_write]
      OBVIOUS
    <3> HIDE DEF q, p, first
    <3>3. QED
      BY <3>1, <3>2 DEF Processors
  <2>4. /\ p \in Processors /\ p.latest = jpeg /\ p.descriptor = processor.descriptor
        /\ p.next_write = IF first THEN 0 ELSE processor.next_write
    BY <2>2, <2>3 DEF Processors
  <2>5. age \in 0..(FrameTicks - 1) /\ OnGrid(age, p.next_write, slot_writes)
    <3>1. CASE first
      BY <2>2, <2>4, <3>1, ConfigFacts DEF OnGrid
    <3>2. CASE ~first
      BY <2>2, <2>4, <3>2
    <3>3. QED
      BY <3>1, <3>2
  <2> HIDE DEF p, age, first
  <2>6. /\ processor' \in Processors /\ slot_writes' \in Nat /\ failures' \in Nat
        /\ OnGrid(age, processor'.next_write, slot_writes')
        /\ processor'.latest = p.latest /\ processor'.descriptor = p.descriptor
        /\ pc' \in {"after", "device_error"}
        /\ slot_writes' = 1 /\ slot_writes # 1
             => p.latest # None /\ shown' = [device |-> device, jpeg |-> p.latest]
    BY <2>1, <2>2, <2>4, <2>5, PollFacts
  <2>7. TypeOK'
    <3>1. next_delay' \in Nat
      BY <2>1, TimeFacts DEF IInv, InitialDelay
    <3>2. slot_age' \in Nat /\ waited' \in Nat
      BY <2>1, <2>5, TimeFacts, ConfigFacts DEF IInv
    <3>3. QED
      BY <1>1, <2>1, <2>6, <3>1, <3>2 DEF IInv, TypeOK, Processors, delays
  <2>8. Grid'
    BY <2>1, <2>5, <2>6 DEF Grid, OnGrid, NoDeadline
  <2>9. Usable(device)
    BY <1>1 DEF IInv, Session, InSession
  <2>10. Session'
    BY <1>1, <1>2, <2>1, <2>4, <2>6, <2>9 DEF Session, Latest
  <2>11. QED
    BY <1>2, <2>1, <2>4, <2>6, <2>7, <2>8, <2>9, <2>10 DEF IInv
<1>3. CASE ~(processor.descriptor /\ ValidJpeg(jpeg))
  <2>1. Retry /\ next_delay \in Nat
    BY <1>3, TimeFacts DEF IInv, HandleBinary
  <2>2. IInv' /\ slot_writes' = 0
    BY <1>1, <2>1, RetryInvariant DEF Retry
  <2>3. QED
    BY <2>2
<1>4. QED
  BY <1>2, <1>3

(* The session ends with a delay, which starts over if a frame was written. *)
LEMMA DisconnectedInvariant ==
  ASSUME IInv, Disconnected, UNCHANGED <<config, shutdown>>
  PROVE  IInv' /\ slot_writes' = 0
<1>1. next_delay \in Nat /\ config.initial \in Nat
  BY TimeFacts DEF IInv
<1>2. QED
  BY <1>1, RetryInvariant DEF Disconnected, InitialDelay

LEMMA PingInvariant == IInv /\ HandlePing => IInv' /\ (slot_writes' = slot_writes \/ slot_writes' = 0)
<1> SUFFICES ASSUME IInv, HandlePing
             PROVE  IInv' /\ (slot_writes' = slot_writes \/ slot_writes' = 0)
  OBVIOUS
<1>1. UNCHANGED <<config, shutdown, shown, device>> /\ pc = "read"
  BY DEF HandlePing
<1>2. CASE /\ silence' = 0 /\ pc' = "after"
           /\ UNCHANGED <<next_delay, processor, waited, pieces, offered, slot_age, slot_writes,
                          delays, failures>>
  <2>1. TypeOK'
    BY <1>1, <1>2 DEF IInv, TypeOK, delays
  <2>2. QED
    BY <1>1, <1>2, <2>1, QuietStep DEF IInv, InSession
<1>3. CASE Retry
  <2>1. next_delay \in Nat
    BY TimeFacts DEF IInv
  <2>2. QED
    BY <1>1, <1>3, <2>1, RetryInvariant DEF Retry
<1>4. QED
  BY <1>2, <1>3 DEF HandlePing

LEMMA EndsInvariant == IInv /\ ConnectionEnds => IInv' /\ slot_writes' = 0
<1> SUFFICES ASSUME IInv, ConnectionEnds PROVE IInv' /\ slot_writes' = 0
  OBVIOUS
<1>1. UNCHANGED <<config, shutdown>> /\ next_delay \in Nat
  BY TimeFacts DEF IInv, ConnectionEnds
<1>2. QED
  BY <1>1, RetryInvariant, DisconnectedInvariant DEF ConnectionEnds, Retry

LEMMA TimeoutInvariant ==
  IInv /\ ReadTimeout => IInv' /\ (slot_writes' = slot_writes \/ slot_writes' = 0)
<1> SUFFICES ASSUME IInv, ReadTimeout
             PROVE  IInv' /\ (slot_writes' = slot_writes \/ slot_writes' = 0)
  OBVIOUS
<1>1. UNCHANGED <<config, shutdown, shown, device>> /\ pc = "read"
  BY DEF ReadTimeout
<1>2. CASE TimedOut
  BY <1>1, <1>2, DisconnectedInvariant DEF ReadTimeout
<1>3. CASE ~TimedOut
  <2>1. pc' = "after" /\ UNCHANGED <<next_delay, session, delays, failures>>
    BY <1>3 DEF ReadTimeout
  <2>2. TypeOK'
    BY <1>1, <2>1 DEF IInv, TypeOK, session, delays
  <2>3. QED
    BY <1>1, <2>1, <2>2, QuietStep DEF IInv, InSession, session
<1>4. QED
  BY <1>2, <1>3

LEMMA TickInvariant == IInv /\ Tick => IInv' /\ (slot_writes' = slot_writes \/ slot_writes' = 0)
<1> SUFFICES ASSUME IInv, Tick
             PROVE  IInv' /\ (slot_writes' = slot_writes \/ slot_writes' = 0)
  OBVIOUS
<1> DEFINE started == processor.next_write # NoDeadline
<1>1. /\ processor' = [processor EXCEPT !.next_write = Later(@)]
      /\ slot_age' = (IF started THEN (slot_age + 1) % FrameTicks ELSE slot_age)
      /\ slot_writes' = (IF started /\ slot_age' = 0 THEN 0 ELSE slot_writes)
      /\ UNCHANGED <<pc, config, shutdown, next_delay, pieces, offered, failures, shown, device>>
  BY DEF Tick
<1>2. /\ processor \in Processors /\ slot_age \in 0..(FrameTicks - 1)
      /\ OnGrid(slot_age, processor.next_write, slot_writes) /\ slot_writes \in Nat
  BY DEF IInv, TypeOK, Grid, Processors
<1>3. /\ processor' = [descriptor |-> processor.descriptor, latest |-> processor.latest,
                       next_write |-> Later(processor.next_write), wrote |-> processor.wrote]
      /\ processor.next_write \in Int
  BY <1>1, <1>2 DEF Processors
<1>4. /\ slot_age' \in 0..(FrameTicks - 1) /\ Later(processor.next_write) \in Int
      /\ OnGrid(slot_age', Later(processor.next_write), slot_writes')
  <2>1. CASE started
    <3> DEFINE next == (slot_age + 1) % FrameTicks
    <3>1. /\ next \in 0..(FrameTicks - 1) /\ Later(processor.next_write) \in Int
          /\ OnGrid(next, Later(processor.next_write), IF next = 0 THEN 0 ELSE slot_writes)
      BY <1>2, <1>3, <2>1, LaterFacts
    <3>2. slot_age' = next /\ slot_writes' = IF next = 0 THEN 0 ELSE slot_writes
      BY <1>1, <2>1
    <3> HIDE DEF next
    <3>3. QED
      BY <3>1, <3>2
  <2>2. CASE ~started
    <3>1. Later(processor.next_write) = processor.next_write
      BY <2>2, ConfigFacts DEF Later
    <3>2. slot_age' = slot_age /\ slot_writes' = slot_writes
      BY <1>1, <2>2
    <3>3. QED
      BY <1>2, <1>3, <3>1, <3>2
  <2>3. QED
    BY <2>1, <2>2
<1> HIDE DEF started
<1>5. /\ processor' \in Processors /\ processor'.latest = processor.latest
      /\ processor'.descriptor = processor.descriptor
      /\ processor'.next_write = Later(processor.next_write)
  BY <1>2, <1>3, <1>4 DEF Processors
<1>6. slot_writes' \in Nat /\ (slot_writes' = slot_writes \/ slot_writes' = 0)
  BY <1>1, <1>2
<1>7. silence' \in Nat /\ waited' \in Nat /\ remaining' \in Nat /\ nap' \in Nat
  <2>1. {silence, waited, remaining, nap, config.io} \subseteq Nat
    BY TimeFacts DEF IInv
  <2>2. /\ silence' \in {silence, Min({silence + 1, config.io})}
        /\ waited' \in {waited, Min({waited + 1, PollTicks})}
        /\ remaining' = Max({remaining - 1, 0}) /\ nap' = Max({nap - 1, 0})
    BY DEF Tick
  <2>3. Min({silence + 1, config.io}) \in Nat /\ Min({waited + 1, PollTicks}) \in Nat
    BY <2>1, MinFacts, ConfigFacts
  <2>4. remaining' \in Nat /\ nap' \in Nat
    BY <2>1, <2>2, MaxFacts
  <2>5. QED
    BY <2>1, <2>2, <2>3, <2>4
<1>8. TypeOK'
  <2>1. slot_age' \in Nat
    BY <1>4, ConfigFacts
  <2>2. QED
    BY <1>1, <1>5, <1>6, <1>7, <2>1 DEF IInv, TypeOK, Processors
<1>9. Grid'
  BY <1>4, <1>5 DEF Grid, OnGrid, NoDeadline
<1>10. Session'
  BY <1>1, <1>5 DEF IInv, Session, Latest, InSession
<1>11. QED
  BY <1>6, <1>8, <1>9, <1>10 DEF IInv

-----------------------------------------------------------------------------
LEMMA StutterInvariant == IInv /\ UNCHANGED vars => IInv'
<1> SUFFICES ASSUME IInv, UNCHANGED vars PROVE IInv'
  OBVIOUS
<1>1. TypeOK'
  BY DEF IInv, TypeOK, vars, session, delays
<1>2. QED
  BY <1>1, QuietStep DEF IInv, InSession, vars, session

(* A step keeps the invariant, and a slot's first frame is the latest. *)
LEMMA StepInvariant ==
  ASSUME IInv, [Next]_vars
  PROVE  /\ IInv'
         /\ slot_writes' = 1 /\ slot_writes # 1 =>
              /\ shown' = [device |-> device, jpeg |-> offered']
              /\ ValidJpeg(offered') /\ processor'.descriptor /\ Usable(device)
<1> DEFINE Shows == slot_writes' = 1 /\ slot_writes # 1 =>
                      /\ shown' = [device |-> device, jpeg |-> offered']
                      /\ ValidJpeg(offered') /\ processor'.descriptor /\ Usable(device)
<1>1. ASSUME NEW next \in {"read", "top"}, InSession, Poll(processor, slot_writes, next),
             waited' \in Nat,
             UNCHANGED <<config, shutdown, next_delay, silence, pieces, offered, slot_age,
                         delays, device>>
      PROVE  Shows
  <2>1. slot_writes' = 1 /\ slot_writes # 1
          => processor.latest # None /\ shown' = [device |-> device, jpeg |-> processor.latest]
    BY <1>1, PollStep
  <2>2. /\ processor.latest # None =>
             processor.latest = offered' /\ ValidJpeg(offered') /\ processor.descriptor
        /\ Usable(device)
    BY <1>1 DEF IInv, Session, Latest
  <2>3. processor'.descriptor = processor.descriptor
    <3>1. /\ slot_age \in 0..(FrameTicks - 1) /\ processor \in Processors /\ slot_writes \in Nat
          /\ failures \in Nat /\ OnGrid(slot_age, processor.next_write, slot_writes)
      BY DEF IInv, TypeOK, Grid, Processors
    <3>2. QED
      BY <1>1, <3>1, PollFacts
  <2>4. QED
    BY <2>1, <2>2, <2>3
<1>2. CASE Start
  BY <1>2, StartInvariant DEF Start, session
<1>3. CASE Connect
  <2>1. slot_writes' = slot_writes \/ slot_writes' = 0
    BY <1>3 DEF Connect, session, Retry, RetryAfter, NewSession
  <2>2. QED
    BY <1>3, <2>1, ConnectInvariant
<1>4. CASE Sleep
  BY <1>4, SleepInvariant DEF Sleep, session
<1>5. CASE Top
  <2>1. IInv'
    BY <1>5, TopInvariant
  <2>2. CASE shutdown
    BY <1>5, <2>1, <2>2 DEF Top
  <2>3. CASE ~shutdown
    <3>1. InSession /\ Poll(processor, slot_writes, "read") /\ waited' \in Nat
      BY <1>5, <2>3 DEF Top, InSession
    <3>2. Shows
      BY <1>1, <1>5, <3>1 DEF Top
    <3>3. QED
      BY <2>1, <3>2
  <2>4. QED
    BY <2>2, <2>3
<1>6. CASE After
  <2>1. IInv' /\ waited' \in Nat
    BY <1>6, AfterInvariant, TimeFacts DEF IInv, After
  <2>2. Shows
    BY <1>1, <1>6, <2>1 DEF After, InSession
  <2>3. QED
    BY <2>1, <2>2
<1>7. CASE ReadTimeout
  BY <1>7, TimeoutInvariant
<1>8. CASE Message
  <2>1. ASSUME NEW text \in Texts, HandleText(text) PROVE IInv' /\ Shows
    BY <2>1, TextInvariant
  <2>2. ASSUME NEW jpeg \in Jpegs, HandleBinary(jpeg) PROVE IInv' /\ Shows
    BY <2>2, BinaryInvariant
  <2>3. CASE HandlePing
    BY <2>3, PingInvariant
  <2>4. QED
    BY <1>8, <2>1, <2>2, <2>3 DEF Message
<1>9. CASE Piece
  BY <1>9, PieceInvariant DEF Piece
<1>10. CASE ConnectionEnds
  BY <1>10, EndsInvariant
<1>11. CASE Signal
  BY <1>11, SignalInvariant DEF Signal, session
<1>12. CASE Tick
  BY <1>12, TickInvariant
<1>13. CASE UNCHANGED vars
  BY <1>13, StutterInvariant DEF vars, session
<1>14. QED
  BY <1>2, <1>3, <1>4, <1>5, <1>6, <1>7, <1>8, <1>9, <1>10, <1>11, <1>12, <1>13
  DEF Next, BridgeStep

(* Every reachable state satisfies the inductive invariant. *)
THEOREM Inductive == Spec => []IInv
<1>1. IInv /\ [Next]_vars => IInv'
  BY StepInvariant
<1>2. QED
  BY <1>1, InitInvariant, PTL DEF Spec

(* The variables keep their types. *)
THEOREM TypeCorrect == Spec => []TypeOK
<1>1. IInv => TypeOK
  BY DEF IInv
<1>2. QED
  BY <1>1, Inductive, PTL

(* However late the polls come, deadlines stay on the grid of the first    *)
(* frame and each slot gets its frame once.                                *)
THEOREM GridCorrect == Spec => []SlotAccounting
<1>1. ASSUME IInv PROVE SlotAccounting
  <2> SUFFICES ASSUME processor.next_write # NoDeadline
               PROVE  /\ (slot_age + processor.next_write) % FrameTicks = 0
                      /\ processor.next_write <= FrameTicks - slot_age
                      /\ slot_writes = IF processor.next_write > 0 THEN 1 ELSE 0
    BY DEF SlotAccounting
  <2> DEFINE n == FrameTicks
  <2>1. n \in Nat \ {0}
    BY ConfigFacts
  <2>2. /\ slot_age \in 0..(n - 1) /\ processor.next_write \in (-2 * n)..n
        /\ slot_age + processor.next_write \in {-2 * n, -n, 0, n}
        /\ slot_writes = IF processor.next_write > 0 THEN 1 ELSE 0
    BY <1>1 DEF IInv, Grid, OnGrid
  <2> HIDE DEF n
  <2>3. (-2 * n) % n = 0 /\ (-n) % n = 0 /\ 0 % n = 0 /\ n % n = 0
    <3>1. (-2 * n) % n = 0
      BY <2>1
    <3>2. (-n) % n = 0
      BY <2>1
    <3>3. 0 % n = 0 /\ n % n = 0
      BY <2>1
    <3>4. QED
      BY <3>1, <3>2, <3>3
  <2>4. (slot_age + processor.next_write) % n = 0
    BY <2>2, <2>3
  <2>5. processor.next_write <= n - slot_age
    BY <2>1, <2>2
  <2>6. QED
    BY <2>2, <2>4, <2>5 DEF n
<1>2. QED
  BY <1>1, Inductive, PTL

(* A slot shows the last JPEG its session accepted, on a device of the      *)
(* descriptor's format.                                                    *)
THEOREM LatestCorrect == Spec => ShowsTheLatestFrame
<1>1. ASSUME IInv, [Next]_vars
      PROVE  [slot_writes' = 1 /\ slot_writes # 1 =>
                /\ shown'.jpeg = offered' /\ Dimensions(shown'.jpeg) = FrameSize
                /\ shown'.device.size = FrameSize /\ processor'.descriptor]_vars
  <2>1. slot_writes' = 1 /\ slot_writes # 1 =>
          /\ shown' = [device |-> device, jpeg |-> offered']
          /\ ValidJpeg(offered') /\ processor'.descriptor /\ Usable(device)
    BY <1>1, StepInvariant
  <2>2. QED
    BY <2>1 DEF ValidJpeg, Usable
<1>2. QED
  BY <1>1, Inductive, PTL DEF Spec, ShowsTheLatestFrame

-----------------------------------------------------------------------------
(* Doubled is what its definition says: a set of numbers that holds zero    *)
(* and every successor is all of them, and by it every number has a table   *)
(* of the powers up to it.                                                  *)

LEMMA Induction ==
  ASSUME NEW S, S \subseteq Nat, 0 \in S, \A n \in S : n + 1 \in S
  PROVE  S = Nat
<1> DEFINE T == Nat \ S
<1>1. CASE T # {}
  <2>1. T \subseteq Nat
    OBVIOUS
  <2>2. \E x \in T : \A y \in T : ~ (<<y, x>> \in OpToRel(<, Nat))
    <3> HIDE DEF T
    <3>1. QED
      BY <1>1, <2>1, WFMin, NatLessThanWellFounded
  <2>3. PICK x \in T : \A y \in T : ~ (<<y, x>> \in OpToRel(<, Nat))
    BY <2>2
  <2>4. x - 1 \in T
    <3>1. x # 0 /\ x \in Nat /\ x \notin S
      BY <2>3
    <3>2. x - 1 \in Nat /\ (x - 1) + 1 = x
      BY <3>1
    <3>3. QED
      BY <3>1, <3>2
  <2>5. <<x - 1, x>> \in OpToRel(<, Nat)
    BY <2>3, <2>4 DEF OpToRel
  <2>6. QED
    BY <2>3, <2>4, <2>5
<1>2. QED
  BY <1>1

Table(n, h) ==
  h \in [0..n -> Nat] /\ h[0] = 1 /\ \A i \in 0..(n - 1) : h[i + 1] = 2 * h[i]

LEMMA TablesExist == \A n \in Nat : \E h : Table(n, h)
<1> DEFINE S == {n \in Nat : \E h : Table(n, h)}
<1>1. 0 \in S
  <2>1. Table(0, [i \in 0..0 |-> 1])
    BY DEF Table
  <2>2. QED
    BY <2>1
<1>2. ASSUME NEW n \in S PROVE n + 1 \in S
  <2>1. PICK h : Table(n, h)
    OBVIOUS
  <2> DEFINE g == [i \in 0..(n + 1) |-> IF i = n + 1 THEN 2 * h[n] ELSE h[i]]
  <2>2. n \in Nat /\ h[n] \in Nat /\ \A i \in 0..n : h[i] \in Nat
    BY <2>1 DEF Table
  <2>3. g \in [0..(n + 1) -> Nat] /\ g[0] = 1
    BY <2>1, <2>2 DEF Table
  <2>4. ASSUME NEW i \in 0..n PROVE g[i + 1] = 2 * g[i]
    BY <2>1, <2>2 DEF Table
  <2>5. Table(n + 1, g)
    <3>1. (n + 1) - 1 = n
      BY <2>2
    <3> HIDE DEF g
    <3>2. QED
      BY <2>3, <2>4, <3>1 DEF Table
  <2>6. QED
    BY <2>2, <2>5
<1>3. S = Nat
  <2>1. S \subseteq Nat
    OBVIOUS
  <2> HIDE DEF S
  <2>2. QED
    BY <1>1, <1>2, <2>1, Induction
<1>4. QED
  BY <1>3

(* Two tables agree where both are defined. *)
LEMMA TablesAgree ==
  ASSUME NEW m \in Nat, NEW n \in Nat, m <= n, NEW g, Table(m, g), NEW h, Table(n, h)
  PROVE  g[m] = h[m]
<1> DEFINE S == {i \in Nat : i <= m => g[i] = h[i]}
<1>1. 0 \in S
  BY DEF Table
<1>2. ASSUME NEW i \in S PROVE i + 1 \in S
  <2>1. CASE i + 1 <= m
    <3>1. i \in 0..(m - 1) /\ i \in 0..(n - 1) /\ g[i] = h[i]
      BY <2>1
    <3>2. QED
      BY <3>1 DEF Table
  <2>2. QED
    BY <2>1
<1>3. S = Nat
  <2>1. S \subseteq Nat
    OBVIOUS
  <2> HIDE DEF S
  <2>2. QED
    BY <1>1, <1>2, <2>1, Induction
<1>4. QED
  BY <1>3

LEMMA DoubledFacts ==
  /\ Doubled[0] = 1
  /\ \A n \in Nat : Doubled[n] \in Nat /\ Doubled[n + 1] = 2 * Doubled[n]
<1> DEFINE table(n) == CHOOSE h : Table(n, h)
<1> DEFINE f == [n \in Nat |-> table(n)[n]]
<1>1. ASSUME NEW n \in Nat PROVE Table(n, table(n))
  BY TablesExist
<1>2. f[0] = 1
  BY <1>1 DEF Table
<1>3. ASSUME NEW n \in Nat PROVE f[n] \in Nat /\ f[n + 1] = 2 * f[n]
  <2>1. Table(n, table(n)) /\ Table(n + 1, table(n + 1))
    BY <1>1
  <2> HIDE DEF table
  <2>2. table(n)[n] = table(n + 1)[n]
    BY <2>1, TablesAgree
  <2>3. table(n)[n] \in Nat /\ table(n + 1)[n + 1] = 2 * table(n + 1)[n]
    BY <2>1 DEF Table
  <2>4. QED
    BY <2>2, <2>3
<1> HIDE DEF table
<1>4. f = [n \in Nat |-> IF n = 0 THEN 1 ELSE 2 * f[n - 1]]
  <2>1. ASSUME NEW n \in Nat, n # 0 PROVE f[n] = 2 * f[n - 1]
    <3>1. n - 1 \in Nat /\ (n - 1) + 1 = n
      BY <2>1
    <3> HIDE DEF f
    <3>2. QED
      BY <1>3, <3>1
  <2>2. f = [n \in Nat |-> f[n]]
    OBVIOUS
  <2> HIDE DEF f
  <2>3. \A n \in Nat : f[n] = IF n = 0 THEN 1 ELSE 2 * f[n - 1]
    BY <1>2, <2>1
  <2>4. QED
    BY <2>2, <2>3
<1> HIDE DEF f
<1>5. Doubled = [n \in Nat |-> IF n = 0 THEN 1 ELSE 2 * Doubled[n - 1]]
  BY <1>4, Zenon DEF Doubled
<1>6. Doubled[0] = 1
  BY <1>5
<1>7. \A n \in Nat : Doubled[n + 1] = 2 * Doubled[n]
  <2>1. ASSUME NEW n \in Nat PROVE Doubled[n + 1] = 2 * Doubled[n]
    <3>1. n + 1 \in Nat /\ n + 1 # 0 /\ (n + 1) - 1 = n
      OBVIOUS
    <3>2. Doubled[n + 1] = 2 * Doubled[(n + 1) - 1]
      BY <1>5, <3>1
    <3>3. QED
      BY <3>1, <3>2
  <2>2. QED
    BY <2>1
<1> DEFINE S == {n \in Nat : Doubled[n] \in Nat}
<1>8. S = Nat
  <2>1. S \subseteq Nat /\ 0 \in S
    BY <1>6
  <2>2. ASSUME NEW n \in S PROVE n + 1 \in S
    <3>1. n \in Nat /\ Doubled[n] \in Nat /\ Doubled[n + 1] = 2 * Doubled[n]
      BY <1>7
    <3>2. QED
      BY <3>1
  <2> HIDE DEF S
  <2>3. QED
    BY <2>1, <2>2, Induction
<1>9. QED
  BY <1>6, <1>7, <1>8

(* A power is beyond its exponent. *)
LEMMA DoubledGrows == \A n \in Nat : Doubled[n] > n
<1> DEFINE S == {n \in Nat : Doubled[n] > n}
<1>1. S \subseteq Nat /\ 0 \in S
  BY DoubledFacts
<1>2. ASSUME NEW n \in S PROVE n + 1 \in S
  <2>1. n \in Nat /\ Doubled[n] > n /\ Doubled[n] \in Nat /\ Doubled[n + 1] = 2 * Doubled[n]
    BY DoubledFacts
  <2> DEFINE d == Doubled[n]
  <2>2. d \in Nat /\ d > n /\ 2 * d > n + 1
    BY <2>1
  <2>3. QED
    BY <2>1, <2>2
<1>3. S = Nat
  <2> HIDE DEF S
  <2>1. QED
    BY <1>1, <1>2, Induction
<1>4. QED
  BY <1>3

-----------------------------------------------------------------------------
(* The delays.  A frame is written as soon as the grid has begun, so that  *)
(* only a session without a grid still counts the failures before it.      *)
Attempting == InSession \/ pc \in {"connect", "sleep"}
Backoff ==
  /\ pc = "start" => next_delay = config.initial /\ failures = 0 /\ processor = NewProcessor
  /\ Attempting =>
       /\ ValidConfig(config)
       /\ failures <= config.max
       /\ next_delay = Min({config.initial * Doubled[failures], config.max})
       /\ processor.wrote => failures = 0
       /\ processor.next_write # NoDeadline => processor.wrote

LEMMA ProductFacts ==
  ASSUME NEW a \in Nat, a > 0, NEW b \in Nat
  PROVE  a * b \in Nat /\ a * b >= b /\ a * (2 * b) = 2 * (a * b)
<1>1. a * b \in Nat /\ a * (2 * b) = 2 * (a * b)
  OBVIOUS
<1>2. (a - 1) * b >= 0
  <2>1. a - 1 \in Nat
    OBVIOUS
  <2>2. QED
    BY <2>1
<1>3. (a - 1) * b = a * b - b
  OBVIOUS
<1>4. QED
  BY <1>1, <1>2, <1>3

LEMMA ValidConfigFacts ==
  ASSUME ValidConfig(config)
  PROVE  /\ config.initial \in Nat /\ config.initial > 0 /\ config.max \in Nat
         /\ config.initial <= config.max
  BY EdgeBridgeAssumption DEF ValidConfig

(* An attempt that failed doubles the delay, up to the maximum. *)
LEMMA DelayDoubles ==
  ASSUME ValidConfig(config), NEW n \in Nat, n <= config.max
  PROVE  LET failed == Min({n + 1, config.max})
             delay == Min({config.initial * Doubled[n], config.max})
         IN  /\ failed \in Nat /\ failed <= config.max
             /\ NextDelay(delay) = Min({config.initial * Doubled[failed], config.max})
<1> DEFINE a == config.initial
<1> DEFINE m == config.max
<1> DEFINE x == a * Doubled[n]
<1>1. a \in Nat /\ a > 0 /\ m \in Nat /\ a <= m
  BY ValidConfigFacts
<1>2. /\ Doubled[n] \in Nat /\ Doubled[n + 1] = 2 * Doubled[n] /\ Doubled[n] > n
  BY DoubledFacts, DoubledGrows
<1>3. x \in Nat /\ x >= Doubled[n] /\ a * Doubled[n + 1] = 2 * x
  BY <1>1, <1>2, ProductFacts
<1>4. Min({x, m}) = (IF x <= m THEN x ELSE m) /\ Min({n + 1, m}) = IF n + 1 <= m THEN n + 1 ELSE m
  BY <1>1, <1>3, MinFacts
<1>5. NextDelay(Min({x, m})) = Min({2 * Min({x, m}), m})
  BY DEF NextDelay
<1>6. CASE n + 1 <= m
  <2>1. Min({n + 1, m}) = n + 1
    BY <1>4, <1>6
  <2>2. NextDelay(Min({x, m})) = Min({2 * x, m})
    <3>1. CASE x <= m
      BY <1>4, <1>5, <3>1
    <3>2. CASE ~(x <= m)
      <4>1. NextDelay(Min({x, m})) = Min({2 * m, m})
        BY <1>4, <1>5, <3>2
      <4>2. Min({2 * m, m}) = m /\ Min({2 * x, m}) = m
        BY <1>1, <1>3, <3>2, MinFacts
      <4>3. QED
        BY <4>1, <4>2
    <3>3. QED
      BY <3>1, <3>2
  <2>3. QED
    BY <1>1, <1>3, <1>6, <2>1, <2>2
<1>7. CASE n = m
  <2>1. Min({n + 1, m}) = n /\ x > m
    BY <1>1, <1>2, <1>3, <1>4, <1>7
  <2>2. NextDelay(Min({x, m})) = Min({2 * m, m}) /\ Min({x, m}) = m
    <3>1. Min({x, m}) = m
      BY <1>1, <1>3, <1>4, <2>1
    <3>2. QED
      BY <1>5, <3>1
  <2>3. Min({2 * m, m}) = m
    BY <1>1, MinFacts
  <2>4. QED
    BY <1>1, <1>7, <2>1, <2>2, <2>3
<1>8. QED
  BY <1>1, <1>6, <1>7

LEMMA RetryBackoff ==
  ASSUME IInv, Backoff, Attempting, NEW delay \in Nat, RetryAfter(delay),
         delay = next_delay \/ (delay = config.initial /\ processor.wrote),
         UNCHANGED config
  PROVE  Backoff'
<1>1. /\ ValidConfig(config) /\ failures \in Nat /\ failures <= config.max
      /\ next_delay = Min({config.initial * Doubled[failures], config.max})
      /\ processor.wrote => failures = 0
  BY TimeFacts DEF Backoff, IInv
<1>2. delay = Min({config.initial * Doubled[failures], config.max})
  <2>1. CASE delay = next_delay
    BY <1>1, <2>1
  <2>2. CASE delay = config.initial /\ processor.wrote
    <3>1. /\ config.initial \in Nat /\ config.max \in Nat /\ config.initial <= config.max
          /\ failures = 0 /\ Doubled[0] = 1
      BY <1>1, <2>2, ValidConfigFacts, DoubledFacts
    <3>2. config.initial * 1 = config.initial
      BY <3>1
    <3>3. QED
      BY <2>2, <3>1, <3>2, MinFacts
  <2>3. QED
    BY <2>1, <2>2
<1>3. /\ pc' = "sleep" /\ next_delay' = NextDelay(delay)
      /\ failures' = Min({failures + 1, config.max}) /\ processor' = NewProcessor
  BY DEF RetryAfter, Failed, NewSession, FreshProcessor
<1>4. ~NewProcessor.wrote /\ NewProcessor.next_write = NoDeadline
  BY DEF NewProcessor
<1>5. ValidConfig(config)' /\ config' = config
  BY <1>1 DEF ValidConfig, ValidUrl
<1>6. QED
  BY <1>1, <1>2, <1>3, <1>4, <1>5, DelayDoubles DEF Backoff

LEMMA SameDelayBackoff ==
  ASSUME IInv, Backoff, Attempting, Retry, UNCHANGED config
  PROVE  Backoff'
<1>1. next_delay \in Nat /\ RetryAfter(next_delay)
  BY TimeFacts DEF IInv, Retry
<1>2. QED
  BY <1>1, RetryBackoff

(* poll writes again only in a session that wrote before, or its first.    *)
LEMMA PollBackoff ==
  ASSUME NEW p \in Processors, NEW writes, NEW next, Poll(p, writes, next),
         p.next_write # NoDeadline => p.wrote \/ (p.next_write = 0 /\ p.latest # None)
  PROVE  \/ pc' = "device_error"
         \/ /\ pc' = next /\ failures' = IF Due(p) THEN 0 ELSE failures
            /\ processor'.next_write # NoDeadline => processor'.wrote
            /\ processor'.wrote <=> p.wrote \/ Due(p)
<1>1. CASE ~Due(p)
  <2>1. processor' = p /\ pc' = next /\ failures' = failures
    BY <1>1 DEF Poll, Wrote
  <2>2. p.next_write # NoDeadline => p.wrote
    BY <1>1, ConfigFacts DEF Due
  <2>3. QED
    BY <1>1, <2>1, <2>2
<1>2. CASE Due(p) /\ processor' = Written(p) /\ pc' = next
  <2>1. processor'.wrote
    BY <1>2 DEF Written, Processors
  <2>2. failures' = 0
    BY <1>2 DEF Poll, Wrote
  <2>3. QED
    BY <1>2, <2>1, <2>2
<1>3. CASE Due(p) /\ processor' = p /\ Return("device_error")
  BY <1>3 DEF Return
<1>4. QED
  BY <1>1, <1>2, <1>3 DEF Poll

(* The polls before and after a read. *)
LEMMA PollStepBackoff ==
  ASSUME IInv, Backoff, InSession, NEW next \in {"read", "top"},
         Poll(processor, slot_writes, next), UNCHANGED <<config, next_delay>>
  PROVE  Backoff'
<1>1. processor \in Processors
  BY DEF IInv, TypeOK, Processors
<1>2. /\ ValidConfig(config) /\ failures <= config.max
      /\ next_delay = Min({config.initial * Doubled[failures], config.max})
      /\ processor.wrote => failures = 0
      /\ processor.next_write # NoDeadline => processor.wrote
  BY DEF Backoff, Attempting
<1>3. \/ pc' = "device_error"
      \/ /\ pc' = next /\ failures' = IF Due(processor) THEN 0 ELSE failures
         /\ processor'.next_write # NoDeadline => processor'.wrote
         /\ processor'.wrote <=> processor.wrote \/ Due(processor)
  <2>1. processor.next_write # NoDeadline
          => processor.wrote \/ (processor.next_write = 0 /\ processor.latest # None)
    BY <1>2
  <2>2. QED
    BY <1>1, <2>1, PollBackoff
<1>4. Due(processor) => processor.wrote
  BY <1>2 DEF Due
<1>5. \/ pc' = "device_error"
      \/ failures' = failures /\ (processor'.wrote => failures' = 0)
  BY <1>2, <1>3, <1>4
<1>6. ValidConfig(config)' /\ config' = config /\ next_delay' = next_delay
  BY <1>2 DEF ValidConfig, ValidUrl
<1>7. CASE pc' = "device_error"
  BY <1>7 DEF Backoff, Attempting, InSession
<1>8. CASE pc' # "device_error"
  BY <1>2, <1>3, <1>5, <1>6, <1>8 DEF Backoff
<1>9. QED
  BY <1>7, <1>8

(* The steps that leave the delays and the processor's grid alone. *)
LEMMA QuietBackoff ==
  ASSUME Backoff, UNCHANGED <<config, next_delay, failures>>, Attempting' => Attempting,
         pc' # "start", processor'.wrote => processor.wrote,
         processor'.next_write # NoDeadline => processor.next_write # NoDeadline /\ processor'.wrote
  PROVE  Backoff'
<1>1. ValidConfig(config) => ValidConfig(config)'
  BY DEF ValidConfig, ValidUrl
<1>2. NoDeadline' = NoDeadline
  BY DEF NoDeadline
<1>3. QED
  BY <1>1, <1>2 DEF Backoff

LEMMA BinaryBackoff ==
  ASSUME IInv, Backoff, NEW jpeg \in Jpegs, HandleBinary(jpeg)
  PROVE  Backoff'
<1>1. UNCHANGED config /\ pc = "read" /\ Attempting
  BY DEF HandleBinary, Attempting, InSession
<1>2. CASE processor.descriptor /\ ValidJpeg(jpeg)
  <2> DEFINE first == processor.next_write = NoDeadline
  <2> DEFINE p == [processor EXCEPT !.latest = jpeg, !.next_write = IF first THEN 0 ELSE @]
  <2>1. /\ Poll(p, slot_writes, "after")
        /\ next_delay' = IF processor'.wrote THEN config.initial ELSE next_delay
    BY <1>2 DEF HandleBinary, InitialDelay
  <2>2. processor \in Processors /\ NoDeadline # 0
    BY ConfigFacts DEF IInv, TypeOK, Processors
  <2>3. /\ p \in Processors /\ p.latest = jpeg /\ p.wrote = processor.wrote
        /\ p.next_write = IF first THEN 0 ELSE processor.next_write
    <3> DEFINE q == [processor EXCEPT !.latest = jpeg]
    <3>1. /\ q \in Processors /\ q.latest = jpeg
          /\ q.next_write = processor.next_write /\ q.wrote = processor.wrote
      BY <2>2 DEF Processors
    <3>2. p = [q EXCEPT !.next_write = IF first THEN 0 ELSE processor.next_write]
      OBVIOUS
    <3> HIDE DEF q, p, first
    <3>3. QED
      BY <3>1, <3>2, <2>2 DEF Processors
  <2>4. /\ ValidConfig(config) /\ failures <= config.max
        /\ next_delay = Min({config.initial * Doubled[failures], config.max})
        /\ processor.wrote => failures = 0
        /\ processor.next_write # NoDeadline => processor.wrote
    BY <1>1 DEF Backoff
  <2>5. jpeg # None
    BY EdgeBridgeAssumption
  <2>6. p.next_write # NoDeadline => p.wrote \/ (p.next_write = 0 /\ p.latest # None)
    BY <2>3, <2>4, <2>5
  <2> HIDE DEF p, first
  <2>7. \/ pc' = "device_error"
        \/ /\ pc' = "after" /\ failures' = IF Due(p) THEN 0 ELSE failures
           /\ processor'.next_write # NoDeadline => processor'.wrote
           /\ processor'.wrote <=> p.wrote \/ Due(p)
    BY <2>1, <2>3, <2>6, PollBackoff
  <2>8. ValidConfig(config)' /\ config' = config
    BY <1>1, <2>4 DEF ValidConfig, ValidUrl
  <2>9. CASE pc' = "device_error"
    BY <2>9 DEF Backoff, Attempting, InSession
  <2>10. CASE pc' # "device_error" /\ processor'.wrote
    <3>1. failures' = 0 /\ next_delay' = config.initial
      BY <2>1, <2>3, <2>4, <2>7, <2>10
    <3>2. /\ config.initial \in Nat /\ config.max \in Nat /\ config.initial <= config.max
          /\ Doubled[0] = 1 /\ config.initial * 1 = config.initial
      BY <2>4, ValidConfigFacts, DoubledFacts
    <3>3. next_delay' = Min({config.initial * Doubled[failures'], config.max})
      BY <3>1, <3>2, MinFacts
    <3>4. QED
      BY <2>7, <2>8, <2>10, <3>1, <3>2, <3>3 DEF Backoff
  <2>11. CASE pc' # "device_error" /\ ~processor'.wrote
    <3>1. failures' = failures /\ next_delay' = next_delay
      BY <2>1, <2>7, <2>11
    <3>2. QED
      BY <2>4, <2>7, <2>8, <2>11, <3>1 DEF Backoff
  <2>12. QED
    BY <2>9, <2>10, <2>11
<1>3. CASE ~(processor.descriptor /\ ValidJpeg(jpeg))
  <2>1. Retry
    BY <1>3 DEF HandleBinary
  <2>2. QED
    BY <1>1, <2>1, SameDelayBackoff
<1>4. QED
  BY <1>2, <1>3

(* Disconnected starts the delays over for a session that wrote. *)
LEMMA DisconnectedBackoff ==
  ASSUME IInv, Backoff, Attempting, Disconnected \/ Retry, UNCHANGED config
  PROVE  Backoff'
<1>1. CASE Retry
  BY <1>1, SameDelayBackoff
<1>2. CASE Disconnected /\ processor.wrote
  <2>1. RetryAfter(config.initial) /\ config.initial \in Nat
    BY <1>2, TimeFacts DEF Disconnected, InitialDelay, IInv
  <2>2. QED
    BY <1>2, <2>1, RetryBackoff
<1>3. CASE Disconnected /\ ~processor.wrote
  <2>1. Retry
    BY <1>3 DEF Disconnected, Retry
  <2>2. QED
    BY <2>1, SameDelayBackoff
<1>4. QED
  BY <1>1, <1>2, <1>3

LEMMA InitBackoff == Init => Backoff
<1> SUFFICES ASSUME Init PROVE Backoff
  OBVIOUS
<1>1. /\ pc = "start" /\ next_delay = config.initial /\ failures = 0
      /\ processor = NewProcessor
  BY DEF Init
<1>2. ~Attempting
  BY <1>1 DEF Attempting, InSession
<1>3. QED
  BY <1>1, <1>2 DEF Backoff

LEMMA StepBackoff == IInv /\ Backoff /\ [Next]_vars => Backoff'
<1> SUFFICES ASSUME IInv, Backoff, [Next]_vars PROVE Backoff'
  OBVIOUS
<1>0. processor \in Processors
  BY DEF IInv, TypeOK, Processors
<1>1. CASE Start
  <2>1. /\ pc = "start" /\ UNCHANGED <<config, next_delay, processor, failures>>
        /\ \/ pc' = "connect" /\ ValidConfig(config)
           \/ pc' \in {"config_error", "device_error"}
    BY <1>1 DEF Start, Return, session
  <2>2. /\ next_delay = config.initial /\ failures = 0 /\ processor = NewProcessor
    BY <2>1 DEF Backoff
  <2>3. CASE pc' = "connect" /\ ValidConfig(config)
    <3>1. /\ config.initial \in Nat /\ config.max \in Nat /\ config.initial <= config.max
          /\ Doubled[0] = 1 /\ config.initial * 1 = config.initial
      BY <2>3, ValidConfigFacts, DoubledFacts
    <3>2. next_delay' = Min({config.initial * Doubled[failures'], config.max})
      BY <2>1, <2>2, <3>1, MinFacts
    <3>3. ~NewProcessor.wrote /\ NewProcessor.next_write = NoDeadline
      BY DEF NewProcessor
    <3>4. ValidConfig(config)' /\ config' = config
      BY <2>1, <2>3 DEF ValidConfig, ValidUrl
    <3>5. failures' = 0 /\ processor' = NewProcessor /\ NoDeadline' = NoDeadline
      BY <2>1, <2>2 DEF NoDeadline
    <3>6. ~processor'.wrote /\ processor'.next_write = NoDeadline
      BY <3>3, <3>5
    <3>7. failures' <= config'.max
      BY <3>1, <3>4, <3>5
    <3>8. next_delay' = Min({config'.initial * Doubled[failures'], config'.max})
      BY <3>2, <3>4
    <3>9. QED
      BY <2>3, <3>4, <3>6, <3>7, <3>8 DEF Backoff, NoDeadline
  <2>4. CASE pc' \in {"config_error", "device_error"}
    BY <2>4 DEF Backoff, Attempting, InSession
  <2>5. QED
    BY <2>1, <2>3, <2>4
<1>2. CASE Connect
  <2>1. Attempting /\ UNCHANGED config
    BY <1>2 DEF Connect, Attempting
  <2>2. CASE Return("ok")
    BY <2>2 DEF Backoff, Attempting, InSession, Return
  <2>3. CASE Retry
    BY <2>1, <2>3, SameDelayBackoff
  <2>4. CASE /\ \E d \in Devices :
                  IF Usable(d) THEN pc' = "top" /\ device' = d
                  ELSE Return("device_error") /\ UNCHANGED device
             /\ NewSession
             /\ UNCHANGED <<next_delay, delays, failures>>
    <3>1. pc' # "start" /\ processor' = NewProcessor
      BY <2>4 DEF Return, NewSession, FreshProcessor
    <3>2. ~NewProcessor.wrote /\ NewProcessor.next_write = NoDeadline
      BY DEF NewProcessor
    <3>3. QED
      BY <2>1, <2>4, <3>1, <3>2, QuietBackoff
  <2>5. QED
    BY <1>2, <2>2, <2>3, <2>4 DEF Connect
<1>3. CASE Sleep
  <2>1. /\ UNCHANGED <<config, next_delay, failures, processor>> /\ pc' # "start" /\ Attempting
    BY <1>3 DEF Sleep, Return, session, Attempting
  <2>2. QED
    BY <2>1, QuietBackoff DEF Backoff
<1>4. CASE Top
  <2>1. CASE shutdown
    BY <1>4, <2>1 DEF Top, Return, Backoff, Attempting, InSession
  <2>2. CASE ~shutdown
    BY <1>4, <2>2, PollStepBackoff DEF Top, InSession
  <2>3. QED
    BY <2>1, <2>2
<1>5. CASE After
  BY <1>5, PollStepBackoff DEF After, InSession
<1>6. CASE ReadTimeout
  <2>1. Attempting /\ UNCHANGED config
    BY <1>6 DEF ReadTimeout, Attempting, InSession
  <2>2. CASE TimedOut
    BY <1>6, <2>1, <2>2, DisconnectedBackoff DEF ReadTimeout
  <2>3. CASE ~TimedOut
    <3>1. pc' = "after" /\ UNCHANGED <<config, next_delay, failures, processor>>
      BY <1>6, <2>3 DEF ReadTimeout, session
    <3>2. QED
      BY <2>1, <3>1, QuietBackoff DEF Backoff
  <2>4. QED
    BY <2>2, <2>3
<1>7. ASSUME NEW text \in Texts, HandleText(text) PROVE Backoff'
  <2>1. Attempting /\ UNCHANGED config
    BY <1>7 DEF HandleText, Attempting, InSession
  <2>2. CASE ~processor.descriptor /\ ValidDescriptor(text)
    <3>1. /\ processor' = [processor EXCEPT !.descriptor = TRUE] /\ pc' = "after"
          /\ UNCHANGED <<next_delay, failures>>
      BY <1>7, <2>2 DEF HandleText
    <3>2. processor'.wrote = processor.wrote /\ processor'.next_write = processor.next_write
      BY <1>0, <3>1 DEF Processors
    <3>3. QED
      BY <2>1, <3>1, <3>2, QuietBackoff DEF Backoff
  <2>3. CASE ~(~processor.descriptor /\ ValidDescriptor(text))
    BY <1>7, <2>1, <2>3, SameDelayBackoff DEF HandleText
  <2>4. QED
    BY <2>2, <2>3
<1>8. CASE HandlePing
  <2>1. Attempting /\ UNCHANGED config
    BY <1>8 DEF HandlePing, Attempting, InSession
  <2>2. CASE Retry
    BY <2>1, <2>2, SameDelayBackoff
  <2>3. CASE pc' = "after" /\ UNCHANGED <<next_delay, processor, failures>>
    BY <2>1, <2>3, QuietBackoff DEF Backoff
  <2>4. QED
    BY <1>8, <2>2, <2>3 DEF HandlePing
<1>9. CASE Piece
  BY <1>9, QuietBackoff DEF Piece, Backoff, Attempting, InSession
<1>10. CASE ConnectionEnds
  BY <1>10, DisconnectedBackoff DEF ConnectionEnds, Attempting, InSession
<1>11. CASE Signal
  <2>1. /\ UNCHANGED <<pc, config, next_delay, failures, processor>> /\ pc # "start"
    BY <1>11 DEF Signal, session
  <2>2. Attempting' => Attempting
    BY <2>1 DEF Attempting, InSession
  <2>3. CASE Attempting
    BY <2>1, <2>2, <2>3, QuietBackoff DEF Backoff
  <2>4. CASE ~Attempting
    BY <2>1, <2>2, <2>4 DEF Backoff
  <2>5. QED
    BY <2>3, <2>4
<1>12. CASE Tick
  <2>1. /\ UNCHANGED <<pc, config, next_delay, failures>> /\ Attempting /\ pc # "start"
        /\ processor' = [processor EXCEPT !.next_write = Later(@)]
    BY <1>12 DEF Tick, Attempting, InSession
  <2>2. /\ processor'.wrote = processor.wrote
        /\ processor'.next_write = Later(processor.next_write)
    BY <1>0, <2>1 DEF Processors
  <2>3. Later(NoDeadline) = NoDeadline
    BY ConfigFacts DEF Later
  <2>4. QED
    BY <2>1, <2>2, <2>3, QuietBackoff DEF Backoff
<1>13. CASE UNCHANGED vars
  <2>1. UNCHANGED <<pc, config, next_delay, failures, processor>>
    BY <1>13 DEF vars, session
  <2>2. QED
    BY <2>1 DEF Backoff, Attempting, InSession, ValidConfig, ValidUrl, NewProcessor, NoDeadline
<1>14. QED
  BY <1>1, <1>2, <1>3, <1>4, <1>5, <1>6, <1>7, <1>8, <1>9, <1>10, <1>11, <1>12, <1>13, BinaryBackoff
  DEF Next, BridgeStep, Message

(* The next delay doubles with every attempt that failed since a frame was *)
(* written, up to the maximum, and only a written frame starts it over.    *)
THEOREM BackoffCorrect == Spec => []BackoffFollowsFailures
<1>1. Backoff => BackoffFollowsFailures
  BY DEF Backoff, Attempting, BackoffFollowsFailures
<1>2. Spec => []Backoff
  BY Inductive, InitBackoff, StepBackoff, PTL DEF Spec
<1>3. QED
  BY <1>1, <1>2, PTL
=============================================================================
