------------------------------ MODULE MainLoop ------------------------------
(***************************************************************************)
(* loop() of main.cpp: the frame counter that decides which component runs *)
(* in an iteration, and the sleep until the next frame is due.             *)
(*                                                                         *)
(* now and next are the true times; the program sees them as the uint32_t  *)
(* hal_micros() and next_frame, that is modulo Range.  It converts both to *)
(* long before it subtracts them: 32 bits on the ESP32, where the          *)
(* difference wraps around, 64 bits on Linux, where it does not.           *)
(***************************************************************************)
EXTENDS Integers

CONSTANTS Range,            \* 2^32 microseconds
          Period,           \* frame_period_us: 1000 in the program
          FrameRange,       \* 2^32 frames
          Every,            \* after how many frames each component runs again
          QueueSize,        \* apTxQueue: 10 commands
          MaxCommands,      \* commands in one read: 34 fit into 100 bytes
          MaxSetup,         \* bound: time the setup took
          MaxBusy,          \* bound: time an iteration takes, at least 1
          MaxTime           \* bound: length of a behaviour

Components == {"update_100hz", "telemetry", "update_1hz", "camera"}

ASSUME MainLoopAssumption ==
    /\ Range \in Nat /\ Range % 2 = 0
    /\ Period \in Nat \ {0} /\ 2 * Period < Range
    /\ Period * Period <= Range
    /\ FrameRange \in Nat \ {0}
    /\ Every \in [Components -> Nat \ {0}]
    /\ Every["telemetry"] % Every["update_100hz"] = 0
    /\ QueueSize \in Nat /\ MaxCommands \in Nat
    /\ MaxSetup \in Nat /\ MaxBusy \in Nat \ {0} /\ MaxTime \in Nat

VARIABLES
    platform,               \* the program was built for
    now,                    \* true time
    next,                   \* true time of the next frame
    frame,                  \* iterations, a uint32_t
    place,                  \* where loop() is
    wait,                   \* time_until_next_frame
    age,                    \* ghost: frames since a component last ran
    queue,                  \* commands in apTxQueue
    received, dropped,      \* ghost: commands of the last telemetry update
    wrapped                 \* ghost: hal_micros() wrapped in this iteration

clock == <<now, next, wait, wrapped>>
commands == <<queue, received, dropped>>
vars == <<platform, clock, frame, place, age, commands>>

TypeOK ==
    /\ platform \in {"linux", "esp32"}
    /\ now \in Nat /\ next \in Nat
    /\ frame \in 0 .. FrameRange - 1
    /\ place \in {"run", "schedule", "sleep"}
    /\ wait \in -Range .. Range
    /\ age \in [Components -> Nat]
    /\ queue \in 0 .. QueueSize
    /\ received \in 0 .. MaxCommands /\ dropped \in 0 .. MaxCommands
    /\ wrapped \in BOOLEAN

\* next_frame starts at 0 however long the setup took
Init ==
    /\ platform \in {"linux", "esp32"}
    /\ now \in 0 .. MaxSetup /\ next = 0
    /\ frame = 0 /\ place = "run" /\ wait = 0
    /\ age = [c \in Components |-> 0]
    /\ queue = 0 /\ received = 0 /\ dropped = 0
    /\ wrapped = FALSE

Micros(time) == time % Range

NextFrame == (frame + 1) % FrameRange

\* mutant of Runs: the phase of the schedule is off by one
Runs_LastFrame(c) == NextFrame % Every[c] = Every[c] - 1

Runs(c) == NextFrame % Every[c] = 0

\* mutant of AfterUpdate100Hz: the last command is left in the queue
AfterUpdate100Hz_LeavesOne == IF Runs("update_100hz") /\ queue > 0 THEN 1 ELSE queue

\* update_100hz, which comes first in an iteration, empties the queue
AfterUpdate100Hz == IF Runs("update_100hz") THEN 0 ELSE queue

\* mutant of SendCommands: the queue has no bound
SendCommands_NoBound(n) ==
    /\ queue' = AfterUpdate100Hz + n
    /\ received' = n
    /\ dropped' = 0

\* telemetry.update handles the commands of one read; a full queue drops them
SendCommands(n) ==
    /\ queue' = IF AfterUpdate100Hz + n > QueueSize THEN QueueSize ELSE AfterUpdate100Hz + n
    /\ received' = n
    /\ dropped' = AfterUpdate100Hz + n - queue'

Run ==
    /\ place = "run" /\ now < MaxTime
    /\ frame' = NextFrame
    /\ age' = [c \in Components |-> IF Runs(c) THEN 0 ELSE age[c] + 1]
    /\ IF Runs("telemetry")
       THEN \E n \in 0 .. MaxCommands : SendCommands(n)
       ELSE queue' = AfterUpdate100Hz /\ UNCHANGED <<received, dropped>>
    /\ \E busy \in 1 .. MaxBusy : now' = now + busy
    /\ wrapped' = (now' \div Range # now \div Range)
    /\ place' = "schedule"
    /\ UNCHANGED <<platform, next, wait>>

\* a value modulo Range as a signed number of that many bits
Signed(n) == IF n % Range >= Range \div 2 THEN (n % Range) - Range ELSE n % Range

\* mutant of TimeUntil: the difference does not wrap on the ESP32 either
TimeUntil_NoWrap(time) == Micros(time) - Micros(now)

TimeUntil(time) ==
    IF platform = "esp32" THEN Signed(Micros(time) - Micros(now))
    ELSE Micros(time) - Micros(now)

\* next_frame += frame_period_us, and the clock is read
Schedule ==
    /\ place = "schedule"
    /\ next' = next + Period
    /\ wait' = TimeUntil(next')
    /\ place' = "sleep"
    /\ UNCHANGED <<platform, now, wrapped, frame, age, commands>>

\* mutant of Sleep: the loop does not sleep
Sleep_Skipped ==
    /\ place = "sleep"
    /\ wrapped' = FALSE
    /\ place' = "run"
    /\ UNCHANGED <<platform, now, next, wait, frame, age, commands>>

Sleep ==
    /\ place = "sleep"
    /\ now' = IF wait > 0 THEN now + wait ELSE now
    /\ wrapped' = FALSE
    /\ place' = "run"
    /\ UNCHANGED <<platform, next, wait, frame, age, commands>>

Next == Run \/ Schedule \/ Sleep

Spec == Init /\ [][Next]_vars

-----------------------------------------------------------------------------
\* the loop has not fallen behind by half of the clock's range (35 minutes)
KeepsUp == now - next < Range \div 2

(* On the ESP32 the wait is the true time until the next frame, and never   *)
(* more than one period, before, at and after every wrap of the clock: a    *)
(* loop that is late does not sleep, one that is early sleeps just enough.  *)
SleepsUntilFrame ==
    platform = "esp32" /\ KeepsUp /\ place = "sleep" => wait = next - now /\ wait <= Period

(* On Linux the wait is longer than a period only in the iteration in which *)
(* the clock wraps, and a clock that is about to wrap makes the loop run    *)
(* ahead of its schedule by at most Period iterations.                      *)
OversleepsOnlyAtWrap ==
    platform = "linux" =>
        /\ place = "sleep" /\ wait > Period => wrapped
        /\ next - now <= Period * Period

(* No component waits longer than its number of frames for its turn, also   *)
(* when the frame counter wraps, which is no multiple of those numbers.     *)
EveryoneOnTime == \A c \in Components : age[c] < Every[c]

(* A command for the autopilot is dropped only if a single read of the      *)
(* telemetry held more of them than the queue: what earlier updates queued  *)
(* has always been sent by then.                                            *)
DroppedOnlyInOneRead == dropped > 0 => received > QueueSize
=============================================================================
