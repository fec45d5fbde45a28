---------------------------- MODULE AlsaPcmProofs ----------------------------
(***************************************************************************)
(* The safety of AlsaPcm, for every buffer, period, headroom and bound.    *)
(***************************************************************************)
EXTENDS AlsaPcm, TLAPS

(* Min and Max of two numbers, and where a write leaves the ring.           *)
LEMMA MinOfTwo ==
  ASSUME NEW a \in Int, NEW b \in Int
  PROVE  /\ Min({a, b}) \in {a, b}
         /\ Min({a, b}) <= a /\ Min({a, b}) <= b
<1>1. \E x \in {a, b} : \A y \in {a, b} : x =< y
  <2>1. CASE a <= b BY <2>1
  <2>2. CASE b <= a BY <2>2
  <2> QED BY <2>1, <2>2
<1> QED BY <1>1 DEF Min

LEMMA MaxOfTwo ==
  ASSUME NEW a \in Int, NEW b \in Int
  PROVE  /\ Max({a, b}) \in {a, b}
         /\ Max({a, b}) >= a /\ Max({a, b}) >= b
<1>1. \E x \in {a, b} : \A y \in {a, b} : x >= y
  <2>1. CASE a <= b BY <2>1
  <2>2. CASE b <= a BY <2>2
  <2> QED BY <2>1, <2>2
<1> QED BY <1>1 DEF Max

(* A counter of failures that is 0 after a step was 0 before it.            *)
LEMMA CounterKeeps ==
  ASSUME NEW n \in Nat, NEW m, m = n \/ m = n + 1
  PROVE  m \in Nat /\ (m = 0 => n = 0)
OBVIOUS

-----------------------------------------------------------------------------
(* A PCM that is prepared is not believed started.                          *)

\* The flag and a prepared PCM, the one that resume goes back to included, are
\* together only while do_prepare has not come to its end.
Honest ==
  pc # "silence" /\ alsa_started =>
    k # "PREPARED" /\ (k = "SUSPENDED" => before # "PREPARED")

LEMMA HonestStep == Honest /\ [Next]_vars => Honest'
<1> SUFFICES ASSUME Honest, [Next]_vars PROVE Honest'
  OBVIOUS
<1> USE DEF Honest, kernel, flags, hist, CallWorks, Cleared
<1>1. CASE Driver
  <2>1. CASE Status BY <2>1 DEF Status
  <2>2. CASE Resume BY <2>2 DEF Resume
  <2>3. CASE Drop BY <2>3 DEF Drop, DropPcm
  <2>4. CASE Swparams BY <2>4 DEF Swparams, NotPrepared
  <2>5. CASE Prepare BY <2>5 DEF Prepare, NotPrepared
  <2>6. CASE Silence BY <2>6 DEF Silence
  <2>7. CASE Start BY <2>7 DEF Start, DoStart
  <2>8. CASE Wake BY <2>8 DEF Wake
  <2>9. CASE Avail BY <2>9 DEF Avail, Sync
  <2>10. CASE AvailAgain BY <2>10 DEF AvailAgain, Sync
  <2>11. CASE MmapBegin BY <2>11 DEF MmapBegin
  <2>12. CASE MmapCommit BY <2>12 DEF MmapCommit
  <2>13. CASE Run BY <2>13 DEF Run, DoStart
  <2> QED
    BY <1>1, <2>1, <2>2, <2>3, <2>4, <2>5, <2>6, <2>7, <2>8, <2>9, <2>10, <2>11, <2>12, <2>13
    DEF Driver
<1>2. CASE Applet
  BY <1>2 DEF Applet, BeginPlay, Pause, Stop, Tolerate, DropPcm
<1>3. CASE Tick BY <1>3 DEF Tick, Playing
<1>4. CASE Suspend BY <1>4 DEF Suspend
<1>5. CASE UNCHANGED vars BY <1>5 DEF vars
<1> QED BY <1>1, <1>2, <1>3, <1>4, <1>5 DEF Next

\* Whatever fails and however often the system sleeps, between two cycles a
\* prepared PCM will be started by the next one (alsa-pcm.c do_prepare, do_start,
\* alsa_recover).
THEOREM NeverStuck == Spec => []NeverStuckPrepared
<1>1. Init => Honest BY DEF Init, Honest
<1>2. Honest /\ [Next]_vars => Honest' BY HonestStep
<1>3. Honest => NeverStuckPrepared BY DEF Honest, NeverStuckPrepared
<1> QED BY <1>1, <1>2, <1>3, PTL DEF Spec

-----------------------------------------------------------------------------
(* Every underrun is given to xrun_cb once.                                 *)

Quiet == fails = 0 /\ suspends = 0

Cycle == {"poll", "avail", "avail again", "begin", "commit", "run", "status", "drop", "start"}
Outstanding == IF k = "XRUN" THEN 1 ELSE 0

\* While nothing else fails, the stream is rebuilt only after an underrun, and
\* from then on until it runs again no other can happen; a user's start finds
\* the PCM as open or pause left it.
Reported ==
  /\ fails \in Nat /\ suspends \in Nat
  /\ Quiet =>
     /\ k \in {"SETUP", "PREPARED", "RUNNING", "XRUN", "closed"}
     /\ k = "closed" => pc = "end"
     /\ pc \in Cycle \cup {"error"} => started = TRUE
     /\ pc \in {"swparams", "prepare", "silence"} /\ ret # "begin play" => started = TRUE
     /\ ret \in {"begin play", "avail again", "error"}
     /\ pc \in {"status", "drop", "start"} => ret \in {"avail again", "error"}
     /\ pc \in {"stopped", "swparams", "prepare"} => k = "SETUP"
     /\ pc \in {"silence", "start"} => k = "PREPARED"
     /\ pc \in {"status", "drop"} => k \notin {"PREPARED", "RUNNING"}
     /\ pc # "resume"
     /\ pc # "end" => owed = IF pc = "drop" THEN 0 ELSE Outstanding

\* A call that fails, or a suspend, ends the quiet.
LEMMA QuietBefore ==
  ASSUME Reported, [Next]_vars
  PROVE  /\ fails' \in Nat /\ suspends' \in Nat
         /\ Quiet' => Quiet
<1> USE DEF Reported, Quiet, kernel, flags, hist, CallWorks, CallFails
<1>1. fails' = fails \/ fails' = fails + 1
  <2>1. CASE Driver
    BY <2>1 DEF Driver, Status, Resume, Drop, DropPcm, Swparams, Prepare, Silence, Start, DoStart,
                Wake, Avail, AvailAgain, MmapBegin, MmapCommit, Run
  <2>2. CASE Applet
    BY <2>2 DEF Applet, BeginPlay, Pause, DropPcm, Stop, Tolerate
  <2>3. CASE Tick BY <2>3 DEF Tick
  <2>4. CASE Suspend BY <2>4 DEF Suspend
  <2>5. CASE UNCHANGED vars BY <2>5 DEF vars
  <2> QED BY <2>1, <2>2, <2>3, <2>4, <2>5 DEF Next
<1>2. suspends' = suspends \/ suspends' = suspends + 1
  <2>1. CASE Driver
    BY <2>1 DEF Driver, Status, Resume, Drop, Swparams, Prepare, Silence, Start,
                Wake, Avail, AvailAgain, MmapBegin, MmapCommit, Run
  <2>2. CASE Applet
    BY <2>2 DEF Applet, BeginPlay, Pause, Stop, Tolerate
  <2>3. CASE Tick BY <2>3 DEF Tick
  <2>4. CASE Suspend BY <2>4 DEF Suspend
  <2>5. CASE UNCHANGED vars BY <2>5 DEF vars
  <2> QED BY <2>1, <2>2, <2>3, <2>4, <2>5 DEF Next
<1>3. fails \in Nat /\ suspends \in Nat OBVIOUS
<1>4. fails' \in Nat /\ (fails' = 0 => fails = 0)
  BY <1>1, <1>3, CounterKeeps
<1>5. suspends' \in Nat /\ (suspends' = 0 => suspends = 0)
  BY <1>2, <1>3, CounterKeeps
<1> QED BY <1>4, <1>5

LEMMA ReportedStep == Reported /\ [Next]_vars => Reported'
<1> SUFFICES ASSUME Reported, [Next]_vars, Quiet' PROVE Reported'
  BY QuietBefore DEF Reported
<1>0. fails = 0 /\ suspends = 0 /\ fails' = 0 /\ suspends' = 0 /\ fails + 1 # 0 /\ 1 # 0 /\ 1 - 1 = 0 /\ 0 + 1 = 1
  BY QuietBefore DEF Quiet
<1> USE <1>0 DEF Reported, Quiet, Cycle, Outstanding, kernel, flags, hist, CallWorks, CallFails, Cleared, Usable
<1>1. CASE Driver
  <2>1. CASE Status BY <2>1 DEF Status
  <2>2. CASE Resume BY <2>2 DEF Resume
  <2>3. CASE Drop BY <2>3 DEF Drop, DropPcm
  <2>4. CASE Swparams BY <2>4 DEF Swparams, NotPrepared
  <2>5. CASE Prepare BY <2>5 DEF Prepare, NotPrepared
  <2>6. CASE Silence BY <2>6 DEF Silence
  <2>7. CASE Start BY <2>7 DEF Start, DoStart
  <2>8. CASE Wake BY <2>8 DEF Wake
  <2>9. CASE Avail BY <2>9 DEF Avail, Sync
  <2>10. CASE AvailAgain BY <2>10 DEF AvailAgain, Sync
  <2>11. CASE MmapBegin BY <2>11 DEF MmapBegin
  <2>12. CASE MmapCommit BY <2>12 DEF MmapCommit
  <2>13. CASE Run BY <2>13 DEF Run, DoStart
  <2> QED
    BY <1>1, <2>1, <2>2, <2>3, <2>4, <2>5, <2>6, <2>7, <2>8, <2>9, <2>10, <2>11, <2>12, <2>13
    DEF Driver
<1>2. CASE Applet
  <2>1. CASE BeginPlay BY <2>1 DEF BeginPlay
  <2>2. CASE Pause BY <2>2 DEF Pause, DropPcm
  <2>3. CASE Stop BY <2>3 DEF Stop
  <2>4. CASE Tolerate BY <2>4 DEF Tolerate
  <2> QED BY <1>2, <2>1, <2>2, <2>3, <2>4 DEF Applet
<1>3. CASE Tick BY <1>3 DEF Tick, Playing
<1>4. CASE Suspend BY <1>4 DEF Suspend
<1>5. CASE UNCHANGED vars BY <1>5 DEF vars
<1> QED BY <1>1, <1>2, <1>3, <1>4, <1>5 DEF Next

\* Wherever in the cycle an underrun strikes, and whichever call notices it,
\* xrun_cb has had it once when the cycle is over (alsa-pcm.c alsa_recover).
THEOREM XrunsAreReported == Spec => []EveryXrunReported
<1>1. Init => Reported
  <2> SUFFICES ASSUME Init PROVE Reported OBVIOUS
  <2>1. fails \in Nat /\ suspends \in Nat /\ owed = 0 /\ Outstanding = 0
    BY DEF Init, Outstanding
  <2> QED BY <2>1 DEF Init, Reported, Cycle
<1>2. Reported /\ [Next]_vars => Reported' BY ReportedStep
<1>3. Reported => EveryXrunReported
  BY DEF Reported, EveryXrunReported, Quiet, Outstanding
<1> QED BY <1>1, <1>2, <1>3, PTL DEF Spec

-----------------------------------------------------------------------------
(* Punctual wakeups never let the buffer run dry.                           *)

OnTime == fails = 0 /\ suspends = 0 /\ ~late

\* What f frames before a wakeup in d ticks are worth: the target level when it
\* comes, or, after a write that stopped at the end of the ring, the headroom
\* and a frame more, with the whole ring in front of the next write.
Covered(f, a, d) == f - d >= Threshold + Headroom \/ (a = 0 /\ f - d > Headroom)

Ring == fill \in 0 .. Buffer /\ appl \in 0 .. Buffer - 1 /\ due \in Int

InCycle == {"poll", "avail", "begin", "commit", "run"}

\* The phases, and in each of them the level: before a write it is measured
\* against the wakeup the cycle began with, afterwards against the next one.
Phase ==
  /\ k \in {"SETUP", "PREPARED", "RUNNING", "closed"} /\ (k = "closed" => pc = "end")
  /\ pc \in InCycle \cup {"stopped", "swparams", "prepare", "silence", "end"}
  /\ pc \in {"stopped", "swparams", "prepare"} => k = "SETUP"
  /\ pc \in {"swparams", "prepare", "silence"} => ret = "begin play"
  /\ pc = "silence" => k = "PREPARED"
  /\ pc \in InCycle => k \in {"PREPARED", "RUNNING"} /\ started = TRUE

Level ==
  /\ Ring
  /\ pc = "silence" => fill = 0 /\ appl = 0
  /\ pc \in {"poll", "avail", "run"} => Covered(fill, appl, due)
  /\ pc \in {"begin", "commit"} => Covered(fill, appl, due - Threshold) /\ due <= Threshold
  /\ pc = "avail" => due <= 0
  /\ pc = "commit" => frames = Room

Ahead == fails \in Nat /\ suspends \in Nat /\ (OnTime => Phase /\ Level)

\* The target is a period and the headroom: the buffer holds two of them.
LEMMA TargetIs == Target = Threshold + Headroom
<1>1. Threshold + Headroom \in Nat /\ Buffer \div 2 \in Int /\ Threshold + Headroom <= Buffer \div 2
  <2>1. Threshold \in Nat /\ Headroom \in Nat /\ Buffer \in Nat /\ 2 * (Threshold + Headroom) <= Buffer
    BY PcmAssumption
  <2> QED BY <2>1
<1>2. Target \in {Threshold + Headroom, Buffer \div 2} /\ Target <= Threshold + Headroom
      /\ Target <= Buffer \div 2
  <2>1. Threshold + Headroom \in Int /\ Buffer \div 2 \in Int BY <1>1
  <2> QED BY <2>1, MinOfTwo, Zenon DEF Target
<1> QED BY <1>1, <1>2

\* The first write, into an empty ring, reaches the target.
LEMMA FirstWrite ==
  ASSUME NEW f, f = 0, NEW a, a = 0
  PROVE  LET r == Min({Threshold + Headroom, Min({Buffer - f, Buffer - a})})
         IN  /\ f + r \in 0 .. Buffer /\ (a + r) % Buffer \in 0 .. Buffer - 1
             /\ Covered(f + r, (a + r) % Buffer, 0)
<1>1. Threshold \in Nat /\ Headroom \in Nat /\ Buffer \in Nat /\ Buffer > 0
      /\ Threshold + Headroom <= Buffer
  BY PcmAssumption
<1> DEFINE room == Min({Buffer - f, Buffer - a})
           r == Min({Threshold + Headroom, room})
<1>2. room = Buffer
  <2>1. Buffer - f = Buffer /\ Buffer - a = Buffer BY <1>1
  <2> QED BY <1>1, <2>1, MinOfTwo
<1>3. r = Threshold + Headroom
  <2> HIDE DEF room
  <2>1. r \in {Threshold + Headroom, room} /\ r <= Threshold + Headroom /\ r <= room
    <3>1. Threshold + Headroom \in Int /\ room \in Int BY <1>1, <1>2
    <3> QED BY <3>1, MinOfTwo
  <2> QED BY <1>1, <1>2, <2>1
<1>4. \A n \in Nat : n % Buffer \in 0 .. Buffer - 1
  BY <1>1
<1> HIDE DEF r, room
<1>5. f + r = r /\ a + r = r /\ r \in 0 .. Buffer
  BY <1>1, <1>3
<1>6. r % Buffer \in 0 .. Buffer - 1 /\ Covered(r, r % Buffer, 0)
  BY <1>1, <1>3, <1>4 DEF Covered
<1> QED BY <1>5, <1>6 DEF r, room

\* A write fills the buffer or ends at the end of the ring, and both will do
\* for one period more.
LEMMA NextWrite ==
  ASSUME NEW f \in 0 .. Buffer, NEW a \in 0 .. Buffer - 1, NEW d \in Int, d <= Threshold,
         Covered(f, a, d - Threshold)
  PROVE  LET r == Min({Buffer - f, Buffer - a})
         IN  /\ r \in Nat
             /\ f + r \in 0 .. Buffer /\ (a + r) % Buffer \in 0 .. Buffer - 1
             /\ Covered(f + r, (a + r) % Buffer, d)
             /\ r = 0 => Covered(f, a, d)
<1> DEFINE r == Min({Buffer - f, Buffer - a})
<1>1. Threshold \in Nat /\ Threshold > 0 /\ Headroom \in Nat /\ Buffer \in Nat /\ Buffer > 0
      /\ 2 * (Threshold + Headroom) <= Buffer
  BY PcmAssumption
<1>2. r \in {Buffer - f, Buffer - a} /\ r <= Buffer - f /\ r <= Buffer - a
  <2>1. Buffer - f \in Int /\ Buffer - a \in Int BY <1>1
  <2> QED BY <2>1, MinOfTwo
<1> HIDE DEF r
<1>3. r \in Nat /\ f + r \in 0 .. Buffer
  BY <1>1, <1>2
<1>4. (a + r) % Buffer \in 0 .. Buffer - 1
  BY <1>1, <1>3
<1>5. Covered(f + r, (a + r) % Buffer, d)
  <2>1. CASE r = Buffer - f
    BY <2>1, <1>1 DEF Covered
  <2>2. CASE r = Buffer - a /\ r # Buffer - f
    <3>1. a > f BY <2>2, <1>1, <1>2
    <3>2. f - (d - Threshold) >= Threshold + Headroom /\ r > 0
      BY <3>1, <2>2, <1>1 DEF Covered
    <3>3. (a + r) % Buffer = 0
      BY <2>2, <1>1
    <3> QED BY <3>2, <3>3, <1>1, <1>3 DEF Covered
  <2> QED BY <2>1, <2>2, <1>2
<1>6. r = 0 => Covered(f, a, d)
  BY <1>1, <1>2 DEF Covered
<1> QED BY <1>3, <1>4, <1>5, <1>6 DEF r

\* An early wakeup comes back when the level is down to the target.
LEMMA ComesBack ==
  ASSUME NEW f \in 0 .. Buffer, NEW a, NEW d \in Int, d <= 0
  PROVE  LET e == d + (Min({f, 3 * (Threshold + Headroom)}) - (Threshold + Headroom))
         IN  e \in Int /\ Covered(f, a, e)
<1> DEFINE m == Min({f, 3 * (Threshold + Headroom)})
<1>1. Threshold \in Nat /\ Headroom \in Nat /\ Buffer \in Nat
  BY PcmAssumption
<1>2. m \in {f, 3 * (Threshold + Headroom)} /\ m <= f
  BY <1>1, MinOfTwo
<1> HIDE DEF m
<1>3. d + (m - (Threshold + Headroom)) \in Int
      /\ Covered(f, a, d + (m - (Threshold + Headroom)))
  BY <1>1, <1>2 DEF Covered
<1> QED BY <1>3 DEF m

\* A punctual wakeup finds a frame left, and the level keeps pace with the clock.
LEMMA OneTick ==
  ASSUME NEW f \in 0 .. Buffer, NEW a, NEW d \in Int, Covered(f, a, d),
         d > -Latency, Latency <= Headroom + 1
  PROVE  /\ f > 0
         /\ LET e == Max({d - 1, -MaxLate})
            IN  e \in Int /\ Covered(f, a, e) /\ Covered(f - 1, a, e)
<1> DEFINE e == Max({d - 1, -MaxLate})
<1>1. Threshold \in Nat /\ Threshold > 0 /\ Headroom \in Nat /\ Buffer \in Nat
      /\ Latency \in Nat /\ MaxLate \in Nat /\ Latency < MaxLate
  BY PcmAssumption
<1>2. e = d - 1
  <2>1. e \in {d - 1, -MaxLate} /\ e >= d - 1 /\ e >= -MaxLate
    <3>1. d - 1 \in Int /\ -MaxLate \in Int BY <1>1
    <3> QED BY <3>1, MaxOfTwo
  <2> QED BY <1>1, <2>1
<1> HIDE DEF e
<1>3. f > 0 /\ e \in Int /\ Covered(f, a, e) /\ Covered(f - 1, a, e)
  BY <1>1, <1>2 DEF Covered
<1> QED BY <1>3 DEF e

\* A failing call, a suspend and a late wakeup end the promise for good.
LEMMA OnTimeBefore ==
  ASSUME Ahead, [Next]_vars
  PROVE  /\ fails' \in Nat /\ suspends' \in Nat
         /\ OnTime' => OnTime
<1> USE DEF kernel, flags, hist, CallWorks, CallFails
<1>1. fails' = fails \/ fails' = fails + 1
  BY DEF Next, Driver, Status, Resume, Drop, DropPcm, Swparams, Prepare, Silence, Start, DoStart,
         Wake, Avail, AvailAgain, MmapBegin, MmapCommit, Run,
         Applet, BeginPlay, Pause, Stop, Tolerate, Tick, Suspend, vars
<1>2. suspends' = suspends \/ suspends' = suspends + 1
  BY DEF Next, Driver, Status, Resume, Drop, Swparams, Prepare, Silence, Start,
         Wake, Avail, AvailAgain, MmapBegin, MmapCommit, Run,
         Applet, BeginPlay, Pause, Stop, Tolerate, Tick, Suspend, vars
<1>3. late' = late \/ (late' = (late \/ (started /\ (due <= -Latency \/ pc # "poll"))))
  BY DEF Next, Driver, Status, Resume, Drop, Swparams, Prepare, Silence, Start,
         Wake, Avail, AvailAgain, MmapBegin, MmapCommit, Run,
         Applet, BeginPlay, Pause, Stop, Tolerate, Tick, Suspend, vars
<1>4. fails' \in Nat /\ (fails' = 0 => fails = 0)
  BY <1>1, CounterKeeps DEF Ahead
<1>5. suspends' \in Nat /\ (suspends' = 0 => suspends = 0)
  BY <1>2, CounterKeeps DEF Ahead
<1>6. ~late' => ~late
  BY <1>3, Zenon
<1> QED BY <1>4, <1>5, <1>6, Zenon DEF OnTime

\* The clock finds the driver asleep and a frame to play.
LEMMA TickStep ==
  ASSUME Ahead, Tick, OnTime', OnTime, Latency <= Headroom + 1
  PROVE  Phase' /\ Level'
<1>0. Phase /\ Level
  BY DEF Ahead
<1>1. ~late' /\ (started = TRUE => pc = "poll" /\ ~(due <= -Latency))
  BY Zenon DEF OnTime, Tick
<1>2. CASE started = TRUE
  <2>1. pc = "poll" /\ k \in {"PREPARED", "RUNNING"} /\ due > -Latency /\ Covered(fill, appl, due) /\ Ring
    <3>1. pc = "poll" /\ k \in {"PREPARED", "RUNNING"} /\ Covered(fill, appl, due) /\ Ring
      BY <1>0, <1>1, <1>2 DEF Phase, Level, InCycle
    <3>2. due \in Int /\ Latency \in Int BY <3>1, PcmAssumption DEF Ring
    <3>3. due > -Latency BY <1>1, <1>2, <3>2
    <3> QED BY <3>1, <3>3
  <2>2. fill > 0 /\ due' \in Int /\ Covered(fill, appl, due') /\ Covered(fill - 1, appl, due')
    <3>1. due' = Max({due - 1, -MaxLate}) BY <1>2 DEF Tick
    <3> QED BY <2>1, <3>1, OneTick DEF Ring
  <2>3. \/ fill' = fill - 1 /\ k' = k
        \/ fill' = fill /\ k' = k
    BY <2>2 DEF Tick, Playing
  <2>4. appl' = appl /\ pc' = pc /\ started' = started /\ ret' = ret
    BY DEF Tick, flags
  <2>5. fill' \in 0 .. Buffer /\ Covered(fill', appl, due')
    BY <2>1, <2>2, <2>3, PcmAssumption DEF Ring
  <2>6. Phase'
    BY <1>0, <2>1, <2>3, <2>4 DEF Phase, InCycle
  <2>7. Level'
    BY <2>1, <2>2, <2>4, <2>5 DEF Level, Ring
  <2> QED BY <2>6, <2>7
<1>3. CASE started # TRUE
  <2>1. pc \notin InCycle /\ pc # "end"
    BY <1>0, <1>3 DEF Phase, Tick
  <2>2. k \in {"SETUP", "PREPARED"}
    BY <1>0, <2>1 DEF Phase, InCycle
  <2>3. UNCHANGED <<k, fill, appl, pc, ret, flags>>
    BY <2>2 DEF Tick, Playing
  <2>4. due' \in Int
    <3>1. due \in Int /\ MaxLate \in Int BY <1>0, PcmAssumption DEF Level, Ring
    <3>2. due - 1 \in Int /\ -MaxLate \in Int BY <3>1
    <3>3. Max({due - 1, -MaxLate}) \in Int BY <3>2, MaxOfTwo
    <3>4. due' = due \/ due' = Max({due - 1, -MaxLate}) BY DEF Tick
    <3> QED BY <3>1, <3>3, <3>4
  <2>5. Phase'
    BY <1>0, <2>3 DEF Phase, InCycle, flags
  <2>6. Level'
    BY <1>0, <2>1, <2>3, <2>4 DEF Level, Ring, InCycle
  <2> QED BY <2>5, <2>6
<1> QED BY <1>2, <1>3

\* Without a failure or a suspend the calls keep their order.
LEMMA PhaseStep ==
  ASSUME Ahead, [Next]_vars, OnTime', Latency <= Headroom + 1
  PROVE  Phase'
<1>0. OnTime /\ Phase
  BY OnTimeBefore DEF Ahead
<1>1. fails' = fails /\ ~late' /\ suspends' = suspends /\ fails + 1 # fails /\ suspends + 1 # suspends
  BY <1>0, OnTimeBefore DEF OnTime, Ahead
<1> USE <1>0, <1>1 DEF Phase, InCycle, kernel, flags, hist, CallWorks, CallFails, Cleared, Usable
<1>2. CASE Driver
  <2>1. CASE Status BY <2>1 DEF Status
  <2>2. CASE Resume BY <2>2 DEF Resume
  <2>3. CASE Drop BY <2>3 DEF Drop, DropPcm
  <2>4. CASE Swparams BY <2>4 DEF Swparams, NotPrepared
  <2>5. CASE Prepare BY <2>5 DEF Prepare, NotPrepared
  <2>6. CASE Silence BY <2>6 DEF Silence
  <2>7. CASE Start BY <2>7 DEF Start, DoStart
  <2>8. CASE Wake BY <2>8 DEF Wake
  <2>9. CASE Avail BY <2>9 DEF Avail, Sync
  <2>10. CASE AvailAgain BY <2>10 DEF AvailAgain, Sync
  <2>11. CASE MmapBegin BY <2>11 DEF MmapBegin
  <2>12. CASE MmapCommit BY <2>12 DEF MmapCommit
  <2>13. CASE Run BY <2>13 DEF Run, DoStart
  <2> QED
    BY <1>2, <2>1, <2>2, <2>3, <2>4, <2>5, <2>6, <2>7, <2>8, <2>9, <2>10, <2>11, <2>12, <2>13
    DEF Driver
<1>3. CASE Applet
  <2>1. CASE BeginPlay BY <2>1 DEF BeginPlay
  <2>2. CASE Pause BY <2>2 DEF Pause, DropPcm
  <2>3. CASE Stop BY <2>3 DEF Stop
  <2>4. CASE Tolerate BY <2>4 DEF Tolerate
  <2> QED BY <1>3, <2>1, <2>2, <2>3, <2>4 DEF Applet
<1>4. CASE Tick BY <1>4, TickStep
<1>5. CASE Suspend BY <1>5 DEF Suspend
<1>6. CASE UNCHANGED vars BY <1>6 DEF vars
<1> QED BY <1>2, <1>3, <1>4, <1>5, <1>6 DEF Next

\* Every write, every wakeup that comes back and every new start keeps the level.
LEMMA LevelStep ==
  ASSUME Ahead, [Next]_vars, OnTime', Latency <= Headroom + 1
  PROVE  Level'
<1>0. OnTime /\ Phase /\ Level
  BY OnTimeBefore DEF Ahead
<1>1. fails' = fails /\ ~late' /\ suspends' = suspends /\ fails + 1 # fails /\ suspends + 1 # suspends
  BY <1>0, OnTimeBefore DEF OnTime, Ahead
<1>2. 0 \in 0 .. Buffer /\ 0 \in 0 .. Buffer - 1 /\ 0 \in Int /\ Threshold \in Int
  BY PcmAssumption
<1>3. CASE Silence
  <2>1. pc = "silence" /\ fill = 0 /\ appl = 0 /\ k = "PREPARED" /\ ret = "begin play"
    BY <1>3, <1>0 DEF Silence, Phase, Level
  <2>2. due' = 0 /\ pc' = "poll" /\ Write(Min({Threshold + Headroom, Room}))
    BY <1>3, <2>1, <1>1 DEF Silence, CallFails, Usable
  <2>3. fill' \in 0 .. Buffer /\ appl' \in 0 .. Buffer - 1 /\ Covered(fill', appl', 0)
    BY <2>1, <2>2, FirstWrite DEF Write, Room
  <2> QED BY <2>2, <2>3, <1>2 DEF Level, Ring
<1>4. CASE Wake
  <2>1. UNCHANGED <<fill, appl, due>> /\ pc = "poll" /\ pc' = "avail" /\ due <= 0
    BY <1>4 DEF Wake, kernel
  <2> QED BY <1>0, <2>1 DEF Level, Ring
<1>5. CASE Avail
  <2>1. UNCHANGED <<fill, appl>> /\ pc = "avail" /\ Sync(fill)
    BY <1>5, <1>0, <1>1 DEF Avail, kernel, CallFails, Phase, InCycle, Usable
  <2>2. Ring /\ due <= 0 /\ Covered(fill, appl, due)
    BY <1>0, <2>1 DEF Level
  <2>3. CASE alsa_started /\ fill > Target + MaxError
    <3>1. due' = due + EarlyBy(fill) /\ pc' = "poll"
      BY <2>1, <2>3 DEF Sync
    <3>2. due' \in Int /\ Covered(fill, appl, due')
      BY <2>2, <3>1, ComesBack, TargetIs DEF EarlyBy, Ring
    <3> QED BY <2>1, <2>2, <3>1, <3>2 DEF Level, Ring
  <2>4. CASE ~(alsa_started /\ fill > Target + MaxError)
    <3>1. due' = due + Threshold /\ pc' = "begin"
      BY <2>1, <2>4 DEF Sync
    <3>2. due' \in Int /\ due' - Threshold = due /\ due' <= Threshold
      BY <2>2, <3>1, <1>2 DEF Ring
    <3> QED BY <2>1, <2>2, <3>1, <3>2 DEF Level, Ring
  <2> QED BY <2>3, <2>4
<1>6. CASE MmapBegin
  <2>1. /\ UNCHANGED <<fill, appl, due>> /\ pc = "begin" /\ frames' = Room
        /\ pc' = IF Room > 0 THEN "commit" ELSE "run"
    BY <1>6, <1>0, <1>1 DEF MmapBegin, kernel, CallFails, Phase, InCycle, Usable
  <2>2. Ring /\ due <= Threshold /\ Covered(fill, appl, due - Threshold)
    BY <1>0, <2>1 DEF Level
  <2>3. Room \in Nat /\ (Room = 0 => Covered(fill, appl, due))
    BY <2>2, NextWrite DEF Ring, Room
  <2>4. \/ Room > 0 /\ pc' = "commit"
        \/ pc' = "run" /\ Covered(fill, appl, due)
    BY <2>1, <2>3
  <2>5. Room' = Room
    BY <2>1 DEF Room
  <2> QED BY <2>1, <2>2, <2>4, <2>5 DEF Level, Ring
<1>7. CASE MmapCommit
  <2>1. UNCHANGED due /\ pc = "commit" /\ pc' = "run" /\ Write(frames)
    BY <1>7, <1>0, <1>1 DEF MmapCommit, CallFails, Phase, InCycle, Usable
  <2>2. Ring /\ due <= Threshold /\ Covered(fill, appl, due - Threshold) /\ frames = Room
    BY <1>0, <2>1 DEF Level
  <2>3. fill' \in 0 .. Buffer /\ appl' \in 0 .. Buffer - 1 /\ Covered(fill', appl', due)
    BY <2>1, <2>2, NextWrite DEF Ring, Room, Write
  <2> QED BY <2>1, <2>2, <2>3 DEF Level, Ring
<1>8. CASE Run
  <2>1. UNCHANGED <<fill, appl, due>> /\ pc = "run" /\ pc' = "poll"
    BY <1>8 DEF Run
  <2> QED BY <1>0, <2>1 DEF Level, Ring
<1>9. CASE Prepare
  <2>1. pc' = "silence" /\ fill' = 0 /\ appl' = 0 /\ due' = due
    BY <1>9, <1>0, <1>1 DEF Prepare, CallFails, Cleared, Phase
  <2> QED BY <1>0, <1>2, <2>1 DEF Level, Ring
<1>10. CASE Swparams
  <2>1. UNCHANGED <<fill, appl, due>> /\ pc' = "prepare"
    BY <1>10, <1>0, <1>1 DEF Swparams, CallFails, kernel, Phase
  <2> QED BY <1>0, <2>1 DEF Level, Ring
<1>11. CASE Applet
  <2>1. pc' \in {"swparams", "stopped", "end"} /\ due' = due
    BY <1>11, <1>0 DEF Applet, BeginPlay, Pause, Stop, Tolerate, Phase, InCycle
  <2>2. fill' \in 0 .. Buffer /\ appl' \in 0 .. Buffer - 1
    BY <1>11, <1>0, <1>2
    DEF Applet, BeginPlay, Pause, Stop, Tolerate, DropPcm, Cleared, kernel, Level, Ring, Phase, InCycle
  <2> QED BY <1>0, <2>1, <2>2 DEF Level, Ring
<1>12. CASE Tick
  BY <1>12, <1>0, TickStep
<1>13. CASE UNCHANGED vars
  <2>1. UNCHANGED <<fill, appl, due, pc, frames, Room>>
    BY <1>13 DEF vars, kernel, Room
  <2> QED BY <1>0, <2>1 DEF Level, Ring
<1>14. ~(Status \/ Resume \/ Drop \/ Start \/ AvailAgain)
  BY <1>0 DEF Phase, InCycle, Status, Resume, Drop, Start, AvailAgain
<1>15. ~Suspend
  BY <1>1 DEF Suspend
<1> QED
  BY <1>3, <1>4, <1>5, <1>6, <1>7, <1>8, <1>9, <1>10, <1>11, <1>12, <1>13, <1>14, <1>15
  DEF Next, Driver

\* However the ring and the early wakeups cut the writes, a buffer twice the
\* target never runs dry while no wakeup is later than the headroom, no call
\* fails and the system does not sleep (alsa-pcm.c alsa_write_sync,
\* spa_alsa_write, do_prepare).
THEOREM PunctualPlays ==
  ASSUME Latency <= Headroom + 1
  PROVE  Spec => []PunctualNeverUnderruns
<1>1. Init => Ahead
  <2> SUFFICES ASSUME Init PROVE Ahead OBVIOUS
  <2>1. fails \in Nat /\ suspends \in Nat /\ Phase
    BY DEF Init, Phase, InCycle
  <2>2. pc = "stopped" /\ fill = 0 /\ appl = 0 /\ due = 0
    BY DEF Init
  <2>3. fill \in 0 .. Buffer /\ appl \in 0 .. Buffer - 1 /\ due \in Int
    BY <2>2, PcmAssumption
  <2>4. Level
    BY <2>2, <2>3 DEF Level, Ring
  <2> QED BY <2>1, <2>4 DEF Ahead
<1>2. Ahead /\ [Next]_vars => Ahead'
  BY OnTimeBefore, PhaseStep, LevelStep DEF Ahead
<1>3. Ahead => PunctualNeverUnderruns
  <2> SUFFICES ASSUME Ahead, k = "XRUN", ~late, ~(fails > 0), ~(suspends > 0) PROVE FALSE
    BY DEF PunctualNeverUnderruns
  <2>1. fails = 0 /\ suspends = 0 BY DEF Ahead
  <2> QED BY <2>1 DEF Ahead, OnTime, Phase
<1> QED BY <1>1, <1>2, <1>3, PTL DEF Spec

=============================================================================
