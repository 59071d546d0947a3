--------------------------- MODULE MainLoop_proofs ---------------------------
(***************************************************************************)
(* The main loop for every width of its clock and of its frame counter,    *)
(* every period and every schedule.                                        *)
(***************************************************************************)
EXTENDS MainLoop, TLAPS

-----------------------------------------------------------------------------
(* Remainders. *)

LEMMA Division ==
    ASSUME NEW x \in Int, NEW m \in Nat \ {0}
    PROVE  /\ x \div m \in Int /\ x % m \in 0 .. m - 1
           /\ x = (x \div m) * m + (x % m)
OBVIOUS

(* A remainder is determined by any way of writing the number.              *)
LEMMA RemainderUnique ==
    ASSUME NEW x \in Int, NEW m \in Nat \ {0}, NEW q \in Int, NEW r \in 0 .. m - 1,
           x = q * m + r
    PROVE  x % m = r
<1> DEFINE p == x \div m
           s == x % m
<1>1. p \in Int /\ s \in 0 .. m - 1 /\ x = p * m + s
  BY Division
<1> HIDE DEF p, s
<1>2. (p - q) * m = r - s
  BY <1>1
<1>3. CASE p - q >= 1
  <2>1. (p - q) * m >= m
    BY <1>1, <1>3
  <2> QED
    BY <1>1, <1>2, <2>1
<1>4. CASE p - q <= -1
  <2>1. (p - q) * m <= -m
    BY <1>1, <1>4
  <2> QED
    BY <1>1, <1>2, <2>1
<1>5. CASE p = q
  BY <1>1, <1>2, <1>5 DEF s
<1> QED
  BY <1>1, <1>3, <1>4, <1>5

(* One more: the remainder grows by one or starts again.                    *)
LEMMA NextRemainder ==
    ASSUME NEW x \in Nat, NEW m \in Nat \ {0}
    PROVE  (x + 1) % m = IF (x % m) + 1 = m THEN 0 ELSE (x % m) + 1
<1> DEFINE q == x \div m
           r == x % m
<1>1. q \in Int /\ r \in 0 .. m - 1 /\ x = q * m + r
  BY Division
<1> HIDE DEF q, r
<1>2. CASE r + 1 = m
  <2>1. x + 1 = (q + 1) * m + 0 /\ q + 1 \in Int /\ 0 \in 0 .. m - 1 /\ x + 1 \in Int
    BY <1>1, <1>2
  <2>2. (x + 1) % m = 0
    BY <2>1, RemainderUnique
  <2> QED
    BY <1>2, <2>2 DEF r
<1>3. CASE r + 1 # m
  <2>1. x + 1 = q * m + (r + 1) /\ r + 1 \in 0 .. m - 1 /\ x + 1 \in Int
    BY <1>1, <1>3
  <2>2. (x + 1) % m = r + 1
    BY <1>1, <2>1, RemainderUnique
  <2> QED
    BY <1>3, <2>2 DEF r
<1> QED
  BY <1>2, <1>3

(* What a multiple divides, its divisor divides.                            *)
LEMMA DividesOn ==
    ASSUME NEW x \in Nat, NEW a \in Nat \ {0}, NEW b \in Nat \ {0}, x % a = 0, a % b = 0
    PROVE  x % b = 0
<1> DEFINE p == x \div a
           q == a \div b
<1>1. p \in Int /\ q \in Int /\ x = p * a /\ a = q * b
  BY Division
<1> HIDE DEF p, q
<1>2. p * q \in Int /\ (p * q) * b = p * (q * b)
  BY <1>1
<1>3. x \in Int /\ x = (p * q) * b + 0 /\ 0 \in 0 .. b - 1
  BY <1>1, <1>2
<1> QED
  BY <1>2, <1>3, RemainderUnique

(* The 32-bit difference of two clock readings is the true difference, as   *)
(* long as that is less than half of the clock's range.                     *)
LEMMA SignedDifference ==
    ASSUME NEW a \in Nat, NEW b \in Nat,
           a - b < Range \div 2, b - a < Range \div 2
    PROVE  Signed(Micros(a) - Micros(b)) = a - b
<1> DEFINE p == a \div Range
           q == b \div Range
           u == a % Range
           v == b % Range
           h == Range \div 2
<1>0. Range \in Nat \ {0} /\ h \in Nat /\ Range = 2 * h
  BY MainLoopAssumption
<1>1. /\ p \in Int /\ u \in 0 .. Range - 1 /\ a = p * Range + u
      /\ q \in Int /\ v \in 0 .. Range - 1 /\ b = q * Range + v
  BY <1>0, Division
<1>2. Signed(Micros(a) - Micros(b))
        = IF (u - v) % Range >= h THEN ((u - v) % Range) - Range ELSE (u - v) % Range
  BY DEF Signed, Micros
<1> HIDE DEF p, q, u, v, h
<1>3. a - b < h /\ b - a < h
  BY DEF h
<1>4. u - v \in Int /\ u - v = (q - p) * Range + (a - b)
  BY <1>0, <1>1
<1>5. CASE a >= b
  <2>1. a - b \in 0 .. Range - 1 /\ q - p \in Int
    BY <1>0, <1>1, <1>3, <1>5
  <2>2. (u - v) % Range = a - b
    BY <1>0, <1>4, <2>1, RemainderUnique
  <2> QED
    BY <1>0, <1>2, <1>3, <2>1, <2>2
<1>6. CASE a < b
  <2>1. /\ a - b + Range \in 0 .. Range - 1 /\ q - p - 1 \in Int
        /\ u - v = (q - p - 1) * Range + (a - b + Range)
    BY <1>0, <1>1, <1>3, <1>4, <1>6
  <2>2. (u - v) % Range = a - b + Range
    BY <1>0, <1>4, <2>1, RemainderUnique
  <2> QED
    BY <1>0, <1>2, <1>3, <2>1, <2>2
<1> QED
  BY <1>5, <1>6

-----------------------------------------------------------------------------
(* The schedule. *)

\* what the frame counter says of a component's last turn
AgeIsRemainder == \A c \in Components : age[c] = frame % Every[c]

ScheduleInv ==
    /\ frame \in Nat /\ frame < FrameRange
    /\ age \in [Components -> Nat]
    /\ AgeIsRemainder

LEMMA ScheduleInit == Init => ScheduleInv
<1> SUFFICES ASSUME Init PROVE ScheduleInv
  OBVIOUS
<1>1. \A c \in Components : Every[c] \in Nat \ {0} /\ 0 % Every[c] = 0
  BY MainLoopAssumption
<1> QED
  BY <1>1, MainLoopAssumption DEF Init, ScheduleInv, AgeIsRemainder

LEMMA ScheduleStep ==
    ASSUME ScheduleInv, [Next]_vars
    PROVE  ScheduleInv'
<1>1. CASE Run
  <2>1. /\ frame' = NextFrame
        /\ age' = [c \in Components |-> IF Runs(c) THEN 0 ELSE age[c] + 1]
    BY <1>1 DEF Run
  <2>2. NextFrame \in Nat /\ NextFrame < FrameRange
    BY MainLoopAssumption, Division DEF NextFrame, ScheduleInv
  <2>3. NextFrame = IF frame + 1 = FrameRange THEN 0 ELSE frame + 1
    <3>1. frame % FrameRange = frame
      <4>1. frame = 0 * FrameRange + frame /\ frame \in 0 .. FrameRange - 1
        BY MainLoopAssumption DEF ScheduleInv
      <4> QED
        BY <4>1, MainLoopAssumption, RemainderUnique
    <3>2. frame \in Nat /\ FrameRange \in Nat \ {0}
      BY MainLoopAssumption DEF ScheduleInv
    <3>3. (frame + 1) % FrameRange
            = IF (frame % FrameRange) + 1 = FrameRange THEN 0 ELSE (frame % FrameRange) + 1
      BY <3>2, NextRemainder
    <3> QED
      BY <3>1, <3>3 DEF NextFrame
  <2>4. ASSUME NEW c \in Components PROVE age'[c] = NextFrame % Every[c]
    <3>0. Every[c] \in Nat \ {0} /\ age[c] = frame % Every[c] /\ frame \in Nat
      BY MainLoopAssumption DEF ScheduleInv, AgeIsRemainder
    <3>1. CASE Runs(c)
      BY <2>1, <3>1 DEF Runs
    <3>2. CASE ~Runs(c)
      <4>1. NextFrame % Every[c] # 0 /\ 0 % Every[c] = 0
        BY <3>0, <3>2 DEF Runs
      <4>2. NextFrame = frame + 1
        BY <2>3, <4>1
      <4>3. (frame + 1) % Every[c] = (frame % Every[c]) + 1
        BY <3>0, <4>1, <4>2, NextRemainder
      <4> QED
        BY <2>1, <3>0, <3>2, <4>2, <4>3
    <3> QED
      BY <3>1, <3>2
  <2>5. age' \in [Components -> Nat]
    BY <2>1 DEF ScheduleInv
  <2> QED
    BY <2>1, <2>2, <2>4, <2>5 DEF ScheduleInv, AgeIsRemainder
<1>2. CASE UNCHANGED <<frame, age>>
  BY <1>2 DEF ScheduleInv, AgeIsRemainder
<1> QED
  BY <1>1, <1>2 DEF Next, Schedule, Sleep, vars

(* No component waits longer than its number of frames, for every schedule  *)
(* and every width of the frame counter, its wrap included.                 *)
THEOREM EveryoneOnTimeAlways == Spec => []EveryoneOnTime
<1>1. ScheduleInv => EveryoneOnTime
  <2>1. SUFFICES ASSUME ScheduleInv, NEW c \in Components PROVE age[c] < Every[c]
    BY DEF EveryoneOnTime
  <2>2. Every[c] \in Nat \ {0} /\ age[c] = frame % Every[c] /\ frame \in Nat
    BY <2>1, MainLoopAssumption DEF ScheduleInv, AgeIsRemainder
  <2> QED
    BY <2>2, Division
<1> QED
  BY <1>1, ScheduleInit, ScheduleStep, PTL DEF Spec

-----------------------------------------------------------------------------
(* The commands for the autopilot. *)

CommandsInv ==
    /\ queue \in 0 .. QueueSize
    /\ received \in 0 .. MaxCommands /\ dropped \in 0 .. MaxCommands
    /\ DroppedOnlyInOneRead

(* The telemetry's turn is always one of update_100hz, which comes first.   *)
LEMMA QueueEmptyForTelemetry ==
    ASSUME ScheduleInv, Runs("telemetry")
    PROVE  AfterUpdate100Hz = 0
<1> DEFINE a == Every["telemetry"]
           b == Every["update_100hz"]
<1>1. a \in Nat \ {0} /\ b \in Nat \ {0} /\ a % b = 0
  BY MainLoopAssumption DEF Components
<1>2. NextFrame \in Nat /\ NextFrame % a = 0
  BY MainLoopAssumption, Division DEF NextFrame, ScheduleInv, Runs
<1> HIDE DEF a, b
<1>3. NextFrame % b = 0
  BY <1>1, <1>2, DividesOn
<1> QED
  BY <1>3 DEF b, Runs, AfterUpdate100Hz

LEMMA CommandsInit == Init => CommandsInv
BY MainLoopAssumption DEF Init, CommandsInv, DroppedOnlyInOneRead

LEMMA CommandsStep ==
    ASSUME ScheduleInv, CommandsInv, [Next]_vars
    PROVE  CommandsInv'
<1> USE MainLoopAssumption DEF CommandsInv, DroppedOnlyInOneRead
<1>1. CASE Run
  <2>1. CASE Runs("telemetry")
    <3>1. PICK n \in 0 .. MaxCommands : SendCommands(n)
      BY <1>1, <2>1 DEF Run
    <3>2. AfterUpdate100Hz = 0
      BY <2>1, QueueEmptyForTelemetry
    <3> QED
      BY <3>1, <3>2 DEF SendCommands
  <2>2. CASE ~Runs("telemetry")
    BY <1>1, <2>2 DEF Run, AfterUpdate100Hz
  <2> QED
    BY <2>1, <2>2
<1>2. CASE UNCHANGED commands
  BY <1>2 DEF commands
<1> QED
  BY <1>1, <1>2 DEF Next, Schedule, Sleep, vars

(* A command is dropped only if one read held more than the queue takes.    *)
THEOREM DroppedOnlyInOneReadAlways == Spec => []DroppedOnlyInOneRead
<1>1. CommandsInv => DroppedOnlyInOneRead
  BY DEF CommandsInv
<1> QED
  BY <1>1, ScheduleInit, ScheduleStep, CommandsInit, CommandsStep, PTL DEF Spec
-----------------------------------------------------------------------------
(* The sleep. *)

ClockInv ==
    /\ platform \in {"linux", "esp32"}
    /\ place \in {"run", "schedule", "sleep"}
    /\ now \in Nat /\ next \in Nat /\ wait \in -Range .. Range
    /\ platform = "esp32" =>
          /\ place # "sleep" => next <= now
          /\ place = "sleep" => next - now <= Period /\ wait = TimeUntil(next)

LEMMA ClockInit == Init => ClockInv
<1> SUFFICES ASSUME Init PROVE ClockInv
  OBVIOUS
<1>1. /\ platform \in {"linux", "esp32"} /\ place = "run"
      /\ now \in Nat /\ next = 0 /\ wait = 0
  BY MainLoopAssumption DEF Init
<1> QED
  BY <1>1, MainLoopAssumption DEF ClockInv

LEMMA TimeUntilRange ==
    ASSUME NEW time \in Nat, now \in Nat
    PROVE  TimeUntil(time) \in -Range .. Range
<1>0. Range \in Nat \ {0} /\ Range \div 2 \in Nat
  BY MainLoopAssumption
<1> DEFINE d == Micros(time) - Micros(now)
<1>1. d \in Int /\ -Range <= d /\ d <= Range
  BY <1>0, Division DEF Micros
<1> HIDE DEF d
<1>2. d % Range \in 0 .. Range - 1
  BY <1>0, <1>1, Division
<1>3. Signed(d) \in -Range .. Range
  BY <1>0, <1>2 DEF Signed
<1> QED
  BY <1>0, <1>1, <1>3 DEF TimeUntil, d

(* Early or late by less than half of the range, the ESP32 sees the true    *)
(* time until the next frame.                                               *)
LEMMA WaitIsTrue ==
    ASSUME ClockInv, platform = "esp32", place = "sleep", KeepsUp
    PROVE  wait = next - now
<1>1. /\ now \in Nat /\ next \in Nat /\ Period < Range \div 2
      /\ next - now <= Period /\ wait = TimeUntil(next)
  BY MainLoopAssumption DEF ClockInv
<1>2. next - now < Range \div 2 /\ now - next < Range \div 2
  BY <1>1, MainLoopAssumption DEF KeepsUp
<1>3. Signed(Micros(next) - Micros(now)) = next - now
  BY <1>1, <1>2, SignedDifference
<1> QED
  BY <1>1, <1>3 DEF TimeUntil

LEMMA ClockStep ==
    ASSUME ClockInv, [Next]_vars
    PROVE  ClockInv'
<1> USE MainLoopAssumption
<1>1. CASE Run
  <2>1. PICK busy \in 1 .. MaxBusy : now' = now + busy
    BY <1>1 DEF Run
  <2>2. /\ place = "run" /\ place' = "schedule"
        /\ UNCHANGED <<platform, next, wait>>
    BY <1>1 DEF Run
  <2> QED
    BY <2>1, <2>2 DEF ClockInv
<1>2. CASE Schedule
  <2>1. /\ place = "schedule" /\ place' = "sleep"
        /\ next' = next + Period /\ wait' = TimeUntil(next')
        /\ UNCHANGED <<platform, now>>
    BY <1>2 DEF Schedule
  <2>2. next' \in Nat
    BY <2>1 DEF ClockInv
  <2>3. wait' \in -Range .. Range
    <3>1. PICK time \in Nat : time = next'
      BY <2>2
    <3> QED
      BY <2>1, <3>1, TimeUntilRange DEF ClockInv
  <2>4. wait' = TimeUntil(next)'
    BY <2>1 DEF TimeUntil
  <2> QED
    BY <2>1, <2>2, <2>3, <2>4 DEF ClockInv
<1>3. CASE Sleep
  <2>1. /\ place = "sleep" /\ place' = "run"
        /\ now' = IF wait > 0 THEN now + wait ELSE now
        /\ UNCHANGED <<platform, next, wait>>
    BY <1>3 DEF Sleep
  <2>2. now' \in Nat /\ now' >= now
    BY <2>1 DEF ClockInv
  <2>3. ASSUME platform = "esp32", next > now PROVE next <= now'
    <3>1. KeepsUp
      BY <2>3 DEF KeepsUp, ClockInv
    <3>2. wait = next - now
      BY <2>1, <2>3, <3>1, WaitIsTrue
    <3> QED
      BY <2>1, <2>3, <3>2 DEF ClockInv
  <2> QED
    BY <2>1, <2>2, <2>3 DEF ClockInv
<1>4. CASE UNCHANGED vars
  <2>1. UNCHANGED <<platform, place, now, next, wait>>
    BY <1>4 DEF vars, clock
  <2> QED
    BY <2>1 DEF ClockInv, TimeUntil
<1> QED
  BY <1>1, <1>2, <1>3, <1>4 DEF Next

(* On the ESP32 the loop sleeps just until the next frame, across every     *)
(* wrap of the clock, for every clock, period and length of an iteration.   *)
THEOREM SleepsUntilFrameAlways == Spec => []SleepsUntilFrame
<1>1. ClockInv => SleepsUntilFrame
  <2>1. SUFFICES ASSUME ClockInv, platform = "esp32", KeepsUp, place = "sleep"
                 PROVE  wait = next - now /\ wait <= Period
    BY DEF SleepsUntilFrame
  <2>2. wait = next - now
    BY <2>1, WaitIsTrue
  <2> QED
    BY <2>1, <2>2 DEF ClockInv
<1> QED
  BY <1>1, ClockInit, ClockStep, PTL DEF Spec

-----------------------------------------------------------------------------
(* The 64-bit difference on Linux. *)

\* how long until the clock wraps
Left(x) == Range - Micros(x)

\* the next frame y is due, or the clock x is about to wrap and the loop that
\* does not sleep is ahead by what the iterations since Period before can add
Near(x, y) ==
    \/ y <= x
    \/ Left(x) < Period /\ y - x <= (Period - 1) * (Period - Left(x))

\* the same after an iteration, before the next frame is moved on
NearAfterRun(x, y) ==
    \/ y < x
    \/ Left(x) < Period /\ (y + Period) - x <= (Period - 1) * (Period - Left(x))

LinuxInv ==
    platform = "linux" =>
        /\ place = "run" => Micros(next) <= Micros(now) /\ Near(now, next)
        /\ place = "schedule" =>
              IF wrapped
              THEN (next + Period - now) + Micros(now) <= Period * Period - Period
              ELSE Micros(next) < Micros(now) /\ NearAfterRun(now, next)
        /\ place = "sleep" =>
              /\ wait = Micros(next) - Micros(now)
              /\ IF wrapped
                 THEN (next - now) + Micros(now) <= Period * Period - Period
                 ELSE /\ wait <= Period /\ next - now <= Period * Period - Period
                      /\ wait <= 0 => Near(now, next)

(* What a clock shows, and in which turn of it.                             *)
LEMMA Turns ==
    ASSUME NEW x \in Nat
    PROVE  /\ Range \in Nat \ {0} /\ x \div Range \in Int
           /\ Micros(x) \in 0 .. Range - 1 /\ Left(x) \in Nat \ {0}
           /\ x = (x \div Range) * Range + Micros(x) /\ Left(x) = Range - Micros(x)
<1>1. Range \in Nat \ {0}
  BY MainLoopAssumption
<1>2. /\ x \div Range \in Int /\ x % Range \in 0 .. Range - 1
      /\ x = (x \div Range) * Range + (x % Range)
  BY <1>1, Division
<1> QED
  BY <1>1, <1>2 DEF Micros, Left

(* Turns are whole: a later one is at least one range later.                *)
LEMMA LaterTurn ==
    ASSUME NEW m \in Nat, NEW p \in Int, NEW q \in Int, p < q
    PROVE  p * m + m <= q * m /\ p * m \in Int /\ q * m \in Int
<1>1. (q - p) - 1 \in Nat
  OBVIOUS
<1>2. ((q - p) - 1) * m \in Nat /\ ((q - p) - 1) * m = q * m - p * m - m
  BY <1>1
<1> QED
  BY <1>2

(* How far ahead the loop may be when its clock wraps.                      *)
LEMMA Ahead ==
    ASSUME NEW r \in Nat \ {0}
    PROVE  /\ (Period - 1) * (Period - r) \in Int
           /\ (Period - 1) * (Period - r) - r = Period * Period - Period - r * Period
           /\ (Period - 1) * (Period - r) <= Period * Period - 2 * Period + 1
           /\ r * Period >= Period /\ Period * Period >= Period
           /\ r < Period => Period - 1 <= (Period - 1) * (Period - r)
<1> DEFINE P == Period
           e == (P - 1) * (P - r)
           s == P * P
           t == r * P
<1>1. P \in Nat \ {0} /\ P >= 1
  BY MainLoopAssumption
<1>2. s \in Int /\ t \in Int /\ e \in Int /\ e = s - t - P + r
  BY <1>1
<1>3. t >= P /\ s >= P
  BY <1>1
<1>4. t - r >= P - 1
  <2>1. (r - 1) * (P - 1) >= 0
    <3>1. r - 1 \in Nat /\ P - 1 \in Nat
      BY <1>1
    <3> QED
      BY <3>1
  <2>2. (r - 1) * (P - 1) = t - r - P + 1
    BY <1>1
  <2> QED
    BY <1>1, <1>2, <2>1, <2>2
<1>5. ASSUME r < P PROVE P - 1 <= e
  <2>1. (P - 1) * ((P - r) - 1) >= 0
    <3>1. P - 1 \in Nat /\ (P - r) - 1 \in Nat
      BY <1>1, <1>5
    <3> QED
      BY <3>1
  <2>2. (P - 1) * ((P - r) - 1) = e - (P - 1)
    BY <1>1
  <2> QED
    BY <1>1, <1>2, <2>1, <2>2
<1> QED
  BY <1>1, <1>2, <1>3, <1>4, <1>5

LEMMA LinuxRun ==
    ASSUME NEW x \in Nat, NEW y \in Nat, NEW b \in Nat \ {0},
           Micros(y) <= Micros(x), Near(x, y)
    PROVE  IF (x + b) \div Range # x \div Range
           THEN (y + Period - (x + b)) + Micros(x + b) <= Period * Period - Period
           ELSE Micros(y) < Micros(x + b) /\ NearAfterRun(x + b, y)
<1> DEFINE P == Period
           R == Range
           z == x + b
           p == x \div R
           k == z \div R
           m == Micros(x)
           n == Micros(y)
           w == Micros(z)
           r == Left(x)
           e == (P - 1) * (P - r)
           s == P * P
<1>1. /\ R \in Nat \ {0} /\ P \in Nat \ {0} /\ z \in Nat /\ z = x + b
      /\ p \in Int /\ m \in 0 .. R - 1 /\ r \in Nat \ {0} /\ x = p * R + m /\ r = R - m
      /\ k \in Int /\ w \in 0 .. R - 1 /\ z = k * R + w
      /\ n \in 0 .. R - 1 /\ n <= m
  <2>1. R \in Nat \ {0} /\ P \in Nat \ {0}
    BY MainLoopAssumption
  <2>2. p \in Int /\ m \in 0 .. R - 1 /\ r \in Nat \ {0} /\ x = p * R + m /\ r = R - m
    BY Turns
  <2>3. n \in 0 .. R - 1
    BY Turns
  <2>4. PICK t \in Nat : t = z
    OBVIOUS
  <2>5. t \div R \in Int /\ Micros(t) \in 0 .. R - 1 /\ t = (t \div R) * R + Micros(t)
    BY Turns
  <2> QED
    BY <2>1, <2>2, <2>3, <2>4, <2>5
<1>2. y <= x \/ (r < P /\ y - x <= e)
  BY DEF Near
<1>3. /\ e \in Int /\ s \in Int /\ e - r = s - P - r * P /\ r * P >= P /\ s >= P
      /\ r * P \in Int
  BY <1>1, Ahead
<1>4. CASE k # p
  <2>1. p < k
    <3>1. CASE k < p
      <4>1. k * R + R <= p * R /\ k * R \in Int /\ p * R \in Int
        BY <1>1, <3>1, LaterTurn
      <4> HIDE DEF k, p, R, w, m, z
      <4> QED
        BY <1>1, <4>1
    <3> QED
      BY <1>1, <1>4, <3>1
  <2>2. p * R + R <= k * R /\ k * R \in Int /\ p * R \in Int
    BY <1>1, <2>1, LaterTurn
  <2> HIDE DEF k, p, R, w, m, z, r, e, s, P, n
  <2>3. z >= x + r + w
    BY <1>1, <2>2
  <2>4. (y + P - z) + w <= (y - x) - r + P
    BY <1>1, <2>3
  <2>5. (y + P - z) + w <= s - P
    <3>1. CASE y <= x
      <4>1. s + 1 >= 2 * P
        <5>1. (P - 1) * (P - 1) >= 0
          <6>1. P - 1 \in Nat
            BY <1>1
          <6> QED
            BY <6>1
        <5>2. (P - 1) * (P - 1) = s - 2 * P + 1
          BY <1>1 DEF s
        <5> QED
          BY <1>1, <1>3, <5>1, <5>2
      <4> QED
        BY <1>1, <1>3, <2>4, <3>1, <4>1
    <3>2. CASE r < P /\ y - x <= e
      BY <1>1, <1>3, <2>4, <3>2
    <3> QED
      BY <1>2, <3>1, <3>2
  <2> QED
    BY <1>4, <2>5 DEF k, p, R, w, z, P, s
<1>5. CASE k = p
  <2>1. w = m + b
    BY <1>1, <1>5
  <2>2. n < w
    BY <1>1, <2>1
  <2>3. NearAfterRun(z, y)
    <3>1. CASE y <= x
      BY <1>1, <3>1 DEF NearAfterRun
    <3>2. CASE r < P /\ y - x <= e
      <4> DEFINE l == Left(z)
                 f == (P - 1) * (P - l)
      <4>1. l = r - b /\ l \in Int
        BY <1>1, <2>1, Turns
      <4> HIDE DEF l
      <4>2. f \in Int /\ b * P \in Int /\ f = e + b * P - b /\ b * P >= P
        BY <1>1, <4>1
      <4> HIDE DEF k, p, R, w, m, r, e, s, P, n, f, z
      <4>3. l < P /\ (y + P) - z <= f
        BY <1>1, <1>3, <3>2, <4>1, <4>2
      <4> QED
        BY <4>3 DEF NearAfterRun, f, l, P
    <3> QED
      BY <1>2, <3>1, <3>2
  <2> QED
    BY <1>5, <2>2, <2>3
<1> QED
  BY <1>4, <1>5

LEMMA LinuxSchedule ==
    ASSUME NEW x \in Nat, NEW y \in Nat, Micros(y) < Micros(x), NearAfterRun(x, y)
    PROVE  LET v == y + Period IN
           /\ Micros(v) - Micros(x) <= Period
           /\ v - x <= Period * Period - Period
           /\ Micros(v) - Micros(x) <= 0 => Near(x, v)
<1> DEFINE P == Period
           R == Range
           v == y + P
           p == x \div R
           q == y \div R
           k == v \div R
           m == Micros(x)
           n == Micros(y)
           w == Micros(v)
           r == Left(x)
           e == (P - 1) * (P - r)
           s == P * P
<1>1. /\ R \in Nat \ {0} /\ P \in Nat \ {0} /\ v \in Nat /\ v = y + P /\ 2 * P < R
      /\ p \in Int /\ m \in 0 .. R - 1 /\ r \in Nat \ {0} /\ x = p * R + m /\ r = R - m
      /\ q \in Int /\ n \in 0 .. R - 1 /\ y = q * R + n
      /\ k \in Int /\ w \in 0 .. R - 1 /\ v = k * R + w
      /\ n < m
  <2>1. R \in Nat \ {0} /\ P \in Nat \ {0} /\ 2 * P < R
    BY MainLoopAssumption
  <2>2. p \in Int /\ m \in 0 .. R - 1 /\ r \in Nat \ {0} /\ x = p * R + m /\ r = R - m
    BY Turns
  <2>3. q \in Int /\ n \in 0 .. R - 1 /\ y = q * R + n
    BY Turns
  <2>4. PICK t \in Nat : t = v
    BY <2>1
  <2>5. t \div R \in Int /\ Micros(t) \in 0 .. R - 1 /\ t = (t \div R) * R + Micros(t)
    BY Turns
  <2> QED
    BY <2>1, <2>2, <2>3, <2>4, <2>5
<1>2. y < x \/ (r < P /\ v - x <= e)
  BY DEF NearAfterRun
<1>3. /\ e \in Int /\ s \in Int /\ e <= s - 2 * P + 1 /\ s >= P
      /\ r < P => P - 1 <= e
  BY <1>1, Ahead
<1>4. s - P >= P - 1
  <2>1. (P - 1) * (P - 1) >= 0
    <3>1. P - 1 \in Nat
      BY <1>1
    <3> QED
      BY <3>1
  <2>2. (P - 1) * (P - 1) = s - 2 * P + 1
    BY <1>1
  <2> HIDE DEF P, s
  <2> QED
    BY <1>1, <1>3, <2>1, <2>2
<1> HIDE DEF P, R, v, p, q, k, m, n, w, r, e, s
<1>5. w - m <= P
  <2>1. CASE k < q
    <3>1. k * R + R <= q * R /\ k * R \in Int /\ q * R \in Int
      BY <1>1, <2>1, LaterTurn
    <3> QED
      BY <1>1, <3>1
  <2>2. CASE k = q
    <3>1. w = n + P
      BY <1>1, <2>2
    <3> QED
      BY <1>1, <3>1
  <2>3. CASE q < k
    <3>1. q * R + R <= k * R /\ k * R \in Int /\ q * R \in Int
      BY <1>1, <2>3, LaterTurn
    <3> QED
      BY <1>1, <3>1
  <2> QED
    BY <1>1, <2>1, <2>2, <2>3
<1>6. v - x <= s - P
  BY <1>1, <1>2, <1>3, <1>4
<1>7. ASSUME w - m <= 0 PROVE v <= x \/ (r < P /\ v - x <= e)
  <2>1. SUFFICES ASSUME v > x, y < x PROVE r < P /\ v - x <= e
    BY <1>1, <1>2
  <2>2. p < k
    <3>1. CASE k = p
      BY <1>1, <1>7, <2>1, <3>1
    <3>2. CASE k < p
      <4>1. k * R + R <= p * R /\ k * R \in Int /\ p * R \in Int
        BY <1>1, <3>2, LaterTurn
      <4> QED
        BY <1>1, <2>1, <4>1
    <3> QED
      BY <1>1, <3>1, <3>2
  <2>3. p * R + R <= k * R /\ k * R \in Int /\ p * R \in Int
    BY <1>1, <2>2, LaterTurn
  <2>4. v - x >= r /\ v - x <= P - 1
    BY <1>1, <2>1, <2>3
  <2> QED
    BY <1>1, <1>3, <2>4
<1>8. w - m <= 0 => Near(x, v)
  BY <1>7 DEF Near, r, P, e
<1> QED
  BY <1>5, <1>6, <1>8 DEF P, v, w, m, s

LEMMA LinuxSleep ==
    ASSUME NEW x \in Nat, NEW y \in Nat, y - x <= Period * Period - Period
    PROVE  /\ Micros(y) - Micros(x) > 0 =>
                LET z == x + (Micros(y) - Micros(x))
                IN  z \in Nat /\ Micros(y) <= Micros(z) /\ Near(z, y)
           /\ Micros(y) - Micros(x) <= 0 /\ (y - x) + Micros(x) <= Period * Period - Period
                => Near(x, y)
<1> DEFINE P == Period
           R == Range
           p == x \div R
           q == y \div R
           m == Micros(x)
           n == Micros(y)
           s == P * P
<1>1. /\ R \in Nat \ {0} /\ P \in Nat \ {0} /\ s \in Int /\ s <= R
      /\ p \in Int /\ m \in 0 .. R - 1 /\ x = p * R + m
      /\ q \in Int /\ n \in 0 .. R - 1 /\ y = q * R + n
      /\ p * R \in Int /\ q * R \in Int /\ y - x <= s - P
  <2>1. R \in Nat \ {0} /\ P \in Nat \ {0} /\ s \in Int /\ s <= R
    BY MainLoopAssumption
  <2>2. p \in Int /\ m \in 0 .. R - 1 /\ x = p * R + m
    BY Turns
  <2>3. q \in Int /\ n \in 0 .. R - 1 /\ y = q * R + n
    BY Turns
  <2>4. p * R \in Int /\ q * R \in Int
    BY <2>1, <2>2, <2>3
  <2> QED
    BY <2>1, <2>2, <2>3, <2>4
<1> HIDE DEF P, R, p, q, m, n, s
<1>2. ASSUME n - m > 0
      PROVE  LET z == x + (n - m) IN z \in Nat /\ n <= Micros(z) /\ Near(z, y)
  <2> DEFINE z == x + (n - m)
  <2>1. z \in Nat /\ z = p * R + n
    BY <1>1, <1>2
  <2>2. Micros(z) = n
    BY <1>1, <2>1, RemainderUnique DEF Micros, R
  <2>3. y <= z
    <3>1. CASE z < y
      <4>1. p < q
        <5>1. CASE q < p
          <6>1. q * R + R <= p * R
            BY <1>1, <5>1, LaterTurn
          <6> QED
            BY <1>1, <2>1, <3>1, <6>1
        <5>2. CASE q = p
          BY <1>1, <2>1, <3>1, <5>2
        <5> QED
          BY <1>1, <5>1, <5>2
      <4>2. p * R + R <= q * R
        BY <1>1, <4>1, LaterTurn
      <4> QED
        BY <1>1, <1>2, <4>2
    <3> QED
      BY <1>1, <2>1, <3>1
  <2> QED
    BY <1>1, <2>1, <2>2, <2>3 DEF Near
<1>3. ASSUME n - m <= 0, (y - x) + m <= s - P PROVE y <= x
  <2>1. CASE p < q
    <3>1. p * R + R <= q * R
      BY <1>1, <2>1, LaterTurn
    <3> QED
      BY <1>1, <1>3, <3>1
  <2>2. CASE p = q
    BY <1>1, <1>3, <2>2
  <2>3. CASE q < p
    <3>1. q * R + R <= p * R
      BY <1>1, <2>3, LaterTurn
    <3> QED
      BY <1>1, <3>1
  <2> QED
    BY <1>1, <2>1, <2>2, <2>3
<1> QED
  BY <1>2, <1>3 DEF Near, P, m, n, s

LEMMA WrappedInit == Init => wrapped \in BOOLEAN
BY Zenon DEF Init

LEMMA WrappedStep ==
    ASSUME wrapped \in BOOLEAN, [Next]_vars
    PROVE  (wrapped \in BOOLEAN)'
<1>1. CASE Run
  BY <1>1, Zenon DEF Run
<1>2. CASE Schedule
  BY <1>2 DEF Schedule
<1>3. CASE Sleep
  BY <1>3, Zenon DEF Sleep
<1>4. CASE UNCHANGED vars
  BY <1>4 DEF vars, clock
<1> QED
  BY <1>1, <1>2, <1>3, <1>4 DEF Next

LEMMA LinuxInit == Init => LinuxInv
<1> SUFFICES ASSUME Init, platform = "linux"
             PROVE  Micros(next) <= Micros(now) /\ Near(now, next)
  BY DEF Init, LinuxInv
<1>1. now \in Nat /\ next = 0 /\ next <= now
  BY MainLoopAssumption DEF Init
<1>2. Micros(0) = 0 /\ Micros(now) >= 0
  BY <1>1, Turns, MainLoopAssumption DEF Micros
<1> QED
  BY <1>1, <1>2 DEF Near

LEMMA LinuxStep ==
    ASSUME ClockInv, LinuxInv, wrapped \in BOOLEAN, [Next]_vars
    PROVE  LinuxInv'
<1> SUFFICES ASSUME platform' = "linux" PROVE LinuxInv'
  BY DEF LinuxInv
<1>0. now \in Nat /\ next \in Nat /\ Period \in Nat /\ Period * Period \in Int
  BY MainLoopAssumption DEF ClockInv
<1>1. CASE Run
  <2>1. PICK busy \in 1 .. MaxBusy : now' = now + busy
    BY <1>1 DEF Run
  <2>2. /\ place = "run" /\ place' = "schedule" /\ platform = "linux" /\ next' = next
        /\ wrapped' = (now' \div Range # now \div Range)
    BY <1>1 DEF Run
  <2>3. PICK x \in Nat, y \in Nat, b \in Nat \ {0} : x = now /\ y = next /\ b = busy
    BY <1>0, MainLoopAssumption
  <2>4. Micros(y) <= Micros(x) /\ Near(x, y)
    BY <2>2, <2>3 DEF LinuxInv
  <2>5. IF (x + b) \div Range # x \div Range
        THEN (y + Period - (x + b)) + Micros(x + b) <= Period * Period - Period
        ELSE Micros(y) < Micros(x + b) /\ NearAfterRun(x + b, y)
    BY <2>4, LinuxRun
  <2>6. /\ now' = x + b /\ next' = y
        /\ wrapped' <=> (x + b) \div Range # x \div Range
    BY <2>1, <2>2, <2>3
  <2> QED
    BY <2>2, <2>5, <2>6 DEF LinuxInv
<1>2. CASE Schedule
  <2>1. /\ place = "schedule" /\ place' = "sleep" /\ platform = "linux"
        /\ next' = next + Period /\ now' = now /\ wrapped' = wrapped
        /\ wait' = Micros(next + Period) - Micros(now)
    BY <1>2 DEF Schedule, TimeUntil
  <2>2. PICK x \in Nat, y \in Nat : x = now /\ y = next
    BY <1>0
  <2>3. CASE wrapped
    <3>1. (next + Period - now) + Micros(now) <= Period * Period - Period
      BY <2>1, <2>3 DEF LinuxInv
    <3>2. next' - now' = next + Period - now /\ Micros(now') = Micros(now)
      BY <1>0, <2>1 DEF Micros
    <3>3. (next' - now') + Micros(now') <= Period * Period - Period
      BY <3>1, <3>2
    <3> QED
      BY <2>1, <2>3, <3>3 DEF LinuxInv, Micros
  <2>4. CASE ~wrapped
    <3>1. Micros(y) < Micros(x) /\ NearAfterRun(x, y)
      BY <2>1, <2>2, <2>4 DEF LinuxInv
    <3>2. /\ Micros(y + Period) - Micros(x) <= Period
          /\ (y + Period) - x <= Period * Period - Period
          /\ Micros(y + Period) - Micros(x) <= 0 => Near(x, y + Period)
      BY <3>1, LinuxSchedule
    <3> QED
      BY <2>1, <2>2, <2>4, <3>2 DEF LinuxInv
  <2> QED
    BY <2>3, <2>4
<1>3. CASE Sleep
  <2>1. /\ place = "sleep" /\ place' = "run" /\ platform = "linux" /\ next' = next
        /\ now' = IF wait > 0 THEN now + wait ELSE now
    BY <1>3 DEF Sleep
  <2>2. wait = Micros(next) - Micros(now)
    BY <2>1 DEF LinuxInv
  <2>3. PICK x \in Nat, y \in Nat : x = now /\ y = next
    BY <1>0
  <2> DEFINE m == Micros(x)
             n == Micros(y)
             s == Period * Period
  <2>4. m \in Nat /\ n \in Nat
    BY Turns
  <2>5. /\ wrapped => (y - x) + m <= s - Period
        /\ ~wrapped => y - x <= s - Period /\ (n - m <= 0 => Near(x, y))
    BY <2>1, <2>2, <2>3 DEF LinuxInv
  <2>6. y - x <= s - Period
    <3> HIDE DEF m, s
    <3>1. s \in Int
      BY <1>0 DEF s
    <3> QED
      BY <1>0, <2>4, <2>5, <3>1
  <2>7. /\ n - m > 0 => LET z == x + (n - m) IN z \in Nat /\ n <= Micros(z) /\ Near(z, y)
        /\ n - m <= 0 /\ (y - x) + m <= s - Period => Near(x, y)
    BY <2>6, LinuxSleep
  <2>8. CASE n - m > 0
    BY <2>1, <2>2, <2>3, <2>7, <2>8 DEF LinuxInv
  <2>9. CASE ~(n - m > 0)
    <3>1. n - m <= 0 /\ n <= m
      BY <2>4, <2>9
    <3>2. Near(x, y)
      BY <2>5, <2>7, <3>1
    <3> QED
      BY <2>1, <2>2, <2>3, <2>9, <3>1, <3>2 DEF LinuxInv
  <2> QED
    BY <2>8, <2>9
<1>4. CASE UNCHANGED vars
  BY <1>4 DEF vars, clock, LinuxInv
<1> QED
  BY <1>1, <1>2, <1>3, <1>4 DEF Next

(* On Linux the loop oversleeps only in the iteration in which the clock    *)
(* wraps, and runs ahead of its schedule by at most Period iterations, for  *)
(* every clock, period and length of an iteration.                          *)
THEOREM OversleepsOnlyAtWrapAlways == Spec => []OversleepsOnlyAtWrap
<1>1. ClockInv /\ LinuxInv => OversleepsOnlyAtWrap
  <2>1. SUFFICES ASSUME ClockInv, LinuxInv, platform = "linux"
                 PROVE  /\ place = "sleep" /\ wait > Period => wrapped
                        /\ next - now <= Period * Period
    BY DEF OversleepsOnlyAtWrap
  <2>2. /\ now \in Nat /\ next \in Nat /\ Period \in Nat \ {0} /\ wait \in Int
        /\ place \in {"run", "schedule", "sleep"}
    <3>1. Range \in Nat /\ Period \in Nat \ {0}
      BY MainLoopAssumption
    <3>2. wait \in -Range .. Range
      BY <2>1 DEF ClockInv
    <3>3. wait \in Int
      BY <3>1, <3>2
    <3> QED
      BY <2>1, <3>1, <3>3 DEF ClockInv
  <2> DEFINE s == Period * Period
             m == Micros(now)
             d == next - now
  <2>3. s \in Int /\ s >= 0 /\ d \in Int /\ m \in Nat /\ Left(now) \in Nat \ {0}
    BY <2>2, Turns
  <2>4. (Period - 1) * (Period - Left(now)) <= s - 2 * Period + 1
    BY <2>3, Ahead
  <2>5. (Period - 1) * (Period - Left(now)) \in Int
    BY <2>3, Ahead
  <2>6. CASE place = "run"
    <3>1. d <= 0 \/ d <= (Period - 1) * (Period - Left(now))
      BY <2>1, <2>2, <2>6 DEF LinuxInv, Near
    <3> QED
      BY <2>2, <2>3, <2>4, <2>5, <2>6, <3>1
  <2>7. CASE place = "schedule"
    <3>1. \/ d < 0
          \/ d + Period <= (Period - 1) * (Period - Left(now))
          \/ (d + Period) + m <= s - Period
      BY <2>1, <2>2, <2>7 DEF LinuxInv, NearAfterRun
    <3> QED
      BY <2>2, <2>3, <2>4, <2>5, <2>7, <3>1
  <2>8. CASE place = "sleep"
    <3>1. /\ wrapped \/ wait <= Period
          /\ d + m <= s - Period \/ d <= s - Period
      BY <2>1, <2>8 DEF LinuxInv
    <3> QED
      BY <2>2, <2>3, <3>1
  <2> QED
    BY <2>2, <2>6, <2>7, <2>8
<1> QED
  BY <1>1, ClockInit, ClockStep, WrappedInit, WrappedStep, LinuxInit, LinuxStep, PTL DEF Spec

-----------------------------------------------------------------------------
(* The main loop is type correct, from the three invariants together.       *)
THEOREM MainLoopTypeCorrect == Spec => []TypeOK
<1>1. ScheduleInv /\ CommandsInv /\ ClockInv /\ wrapped \in BOOLEAN => TypeOK
  BY MainLoopAssumption DEF ScheduleInv, CommandsInv, ClockInv, TypeOK
<1> QED
  BY <1>1, WrappedInit, WrappedStep, ScheduleInit, ScheduleStep, CommandsInit,
     CommandsStep, ClockInit, ClockStep, PTL DEF Spec
==============================================================================
