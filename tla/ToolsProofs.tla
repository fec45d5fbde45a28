---------------------------- MODULE ToolsProofs -----------------------------
(***************************************************************************)
(* What is proved of the small tools, for every value of their constants.  *)
(*                                                                         *)
(* tty2wayland: the way out gives back all there is, and a frame finds its *)
(* buffer free.                                                            *)
(*                                                                         *)
(* pipewire-xrun: no store into memory that is gone, and an exit status    *)
(* and a report that agree with what was measured.                         *)
(*                                                                         *)
(* lua-keybind: no order of presses, releases and losses of the focus      *)
(* leaves a preview that no context will commit, or a context that no      *)
(* release will end.                                                       *)
(*                                                                         *)
(* The applets suspend, recover and jack of check-my-alsa: their verdicts  *)
(* are about what happened, and their last line is true.                   *)
(*                                                                         *)
(* jump-or-exec: the command runs only if no window could be jumped to.    *)
(*                                                                         *)
(* mkdot: what is there stays, and what can be installed is, whatever the  *)
(* topics and the base.                                                    *)
(*                                                                         *)
(* keyi -e: no text is lost, and the exit status is true, for all texts    *)
(* and any number of writes, when every write moves the mtime.             *)
(***************************************************************************)
EXTENDS TtyDisplay, PwXrun, KeyBind, SuspendTest, RecoverTest, JackWatch, JumpOrExec, Mkdot, KeyiEdit,
        SequenceTheorems, FiniteSetTheorems, WellFoundedInduction, TLAPS

-----------------------------------------------------------------------------
(* tty2wayland                                                              *)

Before == {"off", "vt", "open", "mode", "fb A", "fb B", "modeset"}
Served == {"server", "fork", "loop", "wait", "destroy"}
After  == {"free", "vt back", "exit"}

\* What the way out must give back and what stands in for it in each phase: the
\* flags tell of the mode and the console, and no commit is under way unless
\* there is a mode to restore.
Accounts ==
  /\ vt \in {"text", "graphics"} /\ (vt = "graphics" => graphics = TRUE)
  /\ main = "exit" => vt = "text"
  /\ main \in {"off", "vt", "vt back", "exit"} => fb = [b \in Buffers |-> {}] /\ blobs = {} /\ ~opened
  /\ (main \in Before => ~active) /\ (main \in Served => active)
  /\ ~active /\ main \notin After => scan = "old" /\ pending = "none"
  /\ main \in After => pending = "none" /\ (scan = "old" \/ refused)
  /\ main \in Before \cup {"server", "fork"} => child = "none"
  /\ main \in {"destroy", "restore"} \cup After => child # "running"

\* A commit, the flip it asks for and its event follow each other, and only
\* after the event may the client draw.
Turns ==
  /\ front \in Buffers /\ (main \in Before => front = "A")
  /\ main \in Before \cup {"server", "fork"} => pending = "none" /\ ~flipped
  /\ main \in Served =>
       \/ pending = "none" /\ ~flipped /\ scan = front
       \/ pending = Back /\ ~flipped /\ scan = front
       \/ pending = "none" /\ flipped /\ scan = Back
  /\ client # "none" \/ request # "none" => main \in {"loop", "wait", "destroy"}
  /\ client \in {"starting", "configure", "drawing"} \/ request = "frame" => pending = "none" /\ ~flipped
  /\ request = "frame" => client = "frame"

\* No step loses count of what the way out must give back.
LEMMA AccountsStep == Accounts /\ [TtyNext]_ttyVars => Accounts'
<1> SUFFICES ASSUME Accounts, [TtyNext]_ttyVars PROVE Accounts'
  OBVIOUS
<1> USE DEF Accounts, Before, Served, After, Buffers, console, kms, kernel, wayland, peer
<1>1. CASE TtyRun
  BY <1>1 DEF TtyRun
<1>2. CASE TtySetup
  <2>1. CASE PrepareVt BY <2>1 DEF PrepareVt
  <2>2. CASE OpenDevice BY <2>2 DEF OpenDevice
  <2>3. CASE SaveMode BY <2>3 DEF SaveMode
  <2>4. CASE CreateFb("A", "fb A", "fb B") BY <2>4 DEF CreateFb
  <2>5. CASE CreateFb("B", "fb B", "modeset") BY <2>5 DEF CreateFb
  <2>6. CASE Modeset BY <2>6 DEF Modeset
  <2>7. CASE CreateServer BY <2>7 DEF CreateServer
  <2>8. CASE Fork BY <2>8 DEF Fork
  <2> QED BY <1>2, <2>1, <2>2, <2>3, <2>4, <2>5, <2>6, <2>7, <2>8 DEF TtySetup
<1>3. CASE TtyHandler
  <2>1. CASE InitialCommit BY <2>1 DEF InitialCommit, InLoop
  <2>2. CASE FrameCommit BY <2>2 DEF FrameCommit, InLoop, Present, Terminate
  <2>3. CASE DrmEvent BY <2>3 DEF DrmEvent, InLoop, FrameDone, Terminate
  <2>4. CASE Hangup BY <2>4 DEF Hangup, InLoop
  <2> QED BY <1>3, <2>1, <2>2, <2>3, <2>4 DEF TtyHandler
<1>4. CASE StopSignal BY <1>4 DEF StopSignal, InLoop, Terminate
<1>5. CASE StopTimer BY <1>5 DEF StopTimer, InLoop, Terminate
<1>6. CASE ChildExited BY <1>6 DEF ChildExited, InLoop, Terminate
<1>7. CASE TtyWayOut
  <2>1. CASE LoopEnds BY <2>1 DEF LoopEnds, InLoop
  <2>2. CASE Waited BY <2>2 DEF Waited
  <2>3. CASE DestroyServer BY <2>3 DEF DestroyServer
  <2>4. CASE RestoreKms BY <2>4 DEF RestoreKms
  <2>5. CASE CloseDevice BY <2>5 DEF CloseDevice, DestroyFbs
  <2>6. CASE RestoreVt BY <2>6 DEF RestoreVt
  <2> QED BY <1>7, <2>1, <2>2, <2>3, <2>4, <2>5, <2>6 DEF TtyWayOut
<1>8. CASE Vblank BY <1>8 DEF Vblank
<1>9. CASE AlarmTick BY <1>9 DEF AlarmTick
<1>10. CASE UserStops BY <1>10 DEF UserStops
<1>11. CASE ClientSends BY <1>11 DEF ClientSends
<1>12. CASE ClientEnds BY <1>12 DEF ClientEnds
<1>13. CASE UNCHANGED ttyVars BY <1>13 DEF ttyVars
<1> QED
  BY <1>1, <1>2, <1>3, <1>4, <1>5, <1>6, <1>7, <1>8, <1>9, <1>10, <1>11, <1>12, <1>13 DEF TtyNext

\* Commit, flip, event and frame callback keep their turns.
LEMMA TurnsStep == Turns /\ [TtyNext]_ttyVars => Turns'
<1> SUFFICES ASSUME Turns, [TtyNext]_ttyVars PROVE Turns'
  OBVIOUS
<1> USE DEF Turns, Before, Served, Buffers, Back, console, kms, kernel, wayland, peer
<1>1. CASE TtyRun
  BY <1>1 DEF TtyRun
<1>2. CASE TtySetup
  <2>1. CASE PrepareVt BY <2>1 DEF PrepareVt
  <2>2. CASE OpenDevice BY <2>2 DEF OpenDevice
  <2>3. CASE SaveMode BY <2>3 DEF SaveMode
  <2>4. CASE CreateFb("A", "fb A", "fb B") BY <2>4 DEF CreateFb
  <2>5. CASE CreateFb("B", "fb B", "modeset") BY <2>5 DEF CreateFb
  <2>6. CASE Modeset BY <2>6 DEF Modeset
  <2>7. CASE CreateServer BY <2>7 DEF CreateServer
  <2>8. CASE Fork BY <2>8 DEF Fork
  <2> QED BY <1>2, <2>1, <2>2, <2>3, <2>4, <2>5, <2>6, <2>7, <2>8 DEF TtySetup
<1>3. CASE TtyHandler
  <2>1. CASE InitialCommit BY <2>1 DEF InitialCommit, InLoop
  <2>2. CASE FrameCommit BY <2>2 DEF FrameCommit, InLoop, Present, Terminate
  <2>3. CASE DrmEvent BY <2>3 DEF DrmEvent, InLoop, FrameDone, Terminate
  <2>4. CASE Hangup BY <2>4 DEF Hangup, InLoop
  <2> QED BY <1>3, <2>1, <2>2, <2>3, <2>4 DEF TtyHandler
<1>4. CASE StopSignal BY <1>4 DEF StopSignal, InLoop, Terminate
<1>5. CASE StopTimer BY <1>5 DEF StopTimer, InLoop, Terminate
<1>6. CASE ChildExited BY <1>6 DEF ChildExited, InLoop, Terminate
<1>7. CASE TtyWayOut
  <2>1. CASE LoopEnds BY <2>1 DEF LoopEnds, InLoop
  <2>2. CASE Waited BY <2>2 DEF Waited
  <2>3. CASE DestroyServer BY <2>3 DEF DestroyServer
  <2>4. CASE RestoreKms BY <2>4 DEF RestoreKms
  <2>5. CASE CloseDevice BY <2>5 DEF CloseDevice
  <2>6. CASE RestoreVt BY <2>6 DEF RestoreVt
  <2> QED BY <1>7, <2>1, <2>2, <2>3, <2>4, <2>5, <2>6 DEF TtyWayOut
<1>8. CASE Vblank BY <1>8 DEF Vblank
<1>9. CASE AlarmTick BY <1>9 DEF AlarmTick
<1>10. CASE UserStops BY <1>10 DEF UserStops
<1>11. CASE ClientSends BY <1>11 DEF ClientSends
<1>12. CASE ClientEnds BY <1>12 DEF ClientEnds
<1>13. CASE UNCHANGED ttyVars BY <1>13 DEF ttyVars
<1> QED
  BY <1>1, <1>2, <1>3, <1>4, <1>5, <1>6, <1>7, <1>8, <1>9, <1>10, <1>11, <1>12, <1>13 DEF TtyNext

-----------------------------------------------------------------------------

\* Whichever call of the set-up fails and whatever stops the program, it ends
\* with console, display, memory and client as it found them (main.c main,
\* drm.c drm_display_close, wayland.c wayland_server_run).
THEOREM ConsoleIsRestored == TtySpec => []ConsoleRestored
<1>1. TtyInit => Accounts
  BY DEF TtyInit, Accounts, Before, Served, After
<1>2. Accounts /\ [TtyNext]_ttyVars => Accounts'
  BY AccountsStep
<1>3. Accounts => ConsoleRestored
  BY DEF Accounts, ConsoleRestored, After, Buffers
<1> QED BY <1>1, <1>2, <1>3, PTL DEF TtySpec

\* In every order of commits, flips, events and frame callbacks, the buffer that
\* surface_commit copies a frame into is neither shown nor about to be (drm.c
\* drm_display_present, wayland.c frame_done).
THEOREM BackBufferIsFree == TtySpec => []BackBufferFree
<1>1. TtyInit => Turns
  BY DEF TtyInit, Turns, Before, Served, Buffers
<1>2. Turns /\ [TtyNext]_ttyVars => Turns'
  BY TurnsStep
<1>3. Turns => BackBufferFree
  BY DEF Turns, BackBufferFree, Back, Buffers, Served
<1> QED BY <1>1, <1>2, <1>3, PTL DEF TtySpec

-----------------------------------------------------------------------------
(* pipewire-xrun                                                            *)

\* The numbers are numbers, and the slots the main thread sorts are there.
Numbers ==
  /\ {interval, max_ns, p99, sorted, raw_count, state_errors} \subseteq Nat
  /\ over \in [1 .. 3 -> Nat]
  /\ raw = <<>> \/ raw \in [1 .. Capacity -> Nat]
  /\ shown \in [over3 : Nat, errors : Nat, p99 : Nat, max : Nat]
  /\ sorted <= Capacity

\* The data thread runs only while there is a stream, and the stream lies within
\* the life of the array.
Nested ==
  /\ (rt # "idle" => stream = "streaming") /\ (stream # "none" => raw # <<>>)
  /\ bench \in {"off", "init", "free", "status", "exit"} => stream = "none"
  /\ bench \in {"run", "loop", "count", "sort", "report", "fini", "free"} => raw # <<>>

\* What has a slot was the maximum before, and the report holds no more than the
\* counters do.
Measured ==
  /\ \A i \in DOMAIN raw : raw[i] <= max_ns
  /\ rt \in {"over", "claim", "store"} => interval <= max_ns
  /\ p99 <= max_ns /\ shown.p99 <= shown.max
  /\ shown.over3 <= over[3] /\ shown.errors <= state_errors

\* What is late is counted or about to be.
Counted ==
  /\ worst \in BOOLEAN
  /\ worst <=> over[3] # 0 \/ ((rt = "max" \/ rt = "over") /\ Level(interval) = 3)

\* The status, once taken, is of the last counters.
Concluded ==
  /\ bench \in {"off", "init"} => quit = FALSE
  /\ bench = "exit" /\ quit = TRUE => (exitStatus = 0 <=> over[3] = 0 /\ state_errors = 0)

\* The data thread takes the shared counters in their order.
LEMMA RtOrder ==
  /\ RtStep("max") => rt = "max" /\ rt' = "over"
  /\ RtStep("over") => rt = "over" /\ rt' = "claim"
  /\ RtStep("claim") => rt = "claim" /\ rt' = "store"
  /\ RtStep("store") => rt = "store" /\ rt' = "idle"
BY DEF RtStep, Steps

\* While the main thread sorts, every slot holds a number.
LEMMA SlotsSorted ==
  ASSUME Numbers, Nested, bench = "sort"
  PROVE  1 .. sorted \subseteq DOMAIN raw /\ {raw[i] : i \in 1 .. sorted} \subseteq Nat
<1>1. raw \in [1 .. Capacity -> Nat] BY DEF Numbers, Nested
<1>2. 1 .. sorted \subseteq 1 .. Capacity BY XrunAssumption DEF Numbers
<1>3. \A i \in 1 .. Capacity : raw[i] \in Nat BY <1>1
<1> QED BY <1>1, <1>2, <1>3

\* A counter of late callbacks grows by one or not at all.
LEMMA OverGrows ==
  ASSUME Numbers, RecordOver
  PROVE  /\ over' \in [1 .. 3 -> Nat]
         /\ over[3] <= over'[3]
         /\ over'[3] # 0 <=> over[3] # 0 \/ Level(interval) = 3
<1>1. over \in [1 .. 3 -> Nat] BY DEF Numbers
<1>2. over' = [l \in 1 .. 3 |-> IF l = Level(interval) THEN over[l] + 1 ELSE over[l]]
  BY DEF RecordOver
<1>3. \A l \in 1 .. 3 : over[l] \in Nat /\ over[l] + 1 \in Nat BY <1>1
<1>4. over' \in [1 .. 3 -> Nat] BY <1>2, <1>3
<1>5. over'[3] = IF Level(interval) = 3 THEN over[3] + 1 ELSE over[3] BY <1>2
<1>6. over[3] \in Nat BY <1>1
<1>7. over[3] <= over'[3] BY <1>5, <1>6
<1>8. over'[3] # 0 <=> over[3] # 0 \/ Level(interval) = 3 BY <1>5, <1>6
<1> QED BY <1>4, <1>7, <1>8

\* A store changes the claimed slot or, beyond the array, nothing.
LEMMA StoreKeeps ==
  ASSUME Numbers, StoreSlot
  PROVE  /\ raw' = <<>> \/ raw' \in [1 .. Capacity -> Nat]
         /\ DOMAIN raw' = DOMAIN raw
         /\ \A i \in DOMAIN raw : raw'[i] \in {raw[i], interval}
<1>1. CASE raw_count \notin DOMAIN raw BY <1>1 DEF StoreSlot, Numbers
<1>2. CASE raw_count \in DOMAIN raw
  <2>1. raw # <<>>
    <3>1. DOMAIN <<>> = {} OBVIOUS
    <3> QED BY <1>2, <3>1
  <2>2. raw \in [1 .. Capacity -> Nat] /\ interval \in Nat BY <2>1 DEF Numbers
  <2>3. raw' = [raw EXCEPT ![raw_count] = interval] BY <1>2 DEF StoreSlot
  <2> QED BY <1>2, <2>2, <2>3
<1> QED BY <1>1, <1>2

\* Every number stays one.
LEMMA NumbersStep == Numbers /\ Nested /\ [XrunNext]_xrunVars => Numbers'
<1> SUFFICES ASSUME Numbers, Nested, [XrunNext]_xrunVars PROVE Numbers'
  OBVIOUS
<1> USE XrunAssumption, RtOrder DEF Numbers, loopVars, results, mainThread, dataThread, Main
<1>1. CASE XrunStart BY <1>1 DEF XrunStart
<1>2. CASE BenchInit BY <1>2, SMTT(20) DEF BenchInit
<1>3. CASE BenchRun BY <1>3 DEF BenchRun
<1>4. CASE OnStop BY <1>4 DEF OnStop
<1>5. CASE OnStreamError
  <2>1. state_errors' = state_errors + 1 /\ state_errors \in Nat BY <1>5 DEF OnStreamError
  <2>2. state_errors' \in Nat BY <2>1, SMTT(20)
  <2>3. UNCHANGED <<interval, max_ns, p99, sorted, raw_count, over, raw, shown>>
    BY <1>5 DEF OnStreamError
  <2> QED BY <2>2, <2>3
<1>6. CASE LoopReturns BY <1>6 DEF LoopReturns
<1>7. CASE CountIntervals
  <2>1. sorted' \in Nat /\ sorted' <= Capacity
    BY <1>7 DEF CountIntervals
  <2>2. UNCHANGED <<interval, max_ns, p99, raw_count, state_errors, over, raw, shown>>
    BY <1>7 DEF CountIntervals
  <2> QED BY <2>1, <2>2
<1>8. CASE SortIntervals
  <2>1. {raw[i] : i \in 1 .. sorted} \subseteq Nat
    BY <1>8, SlotsSorted DEF SortIntervals
  <2>2. Percentile99(sorted) \subseteq {raw[i] : i \in 1 .. sorted}
    BY DEF Percentile99
  <2>3. p99' \in {raw[i] : i \in 1 .. sorted} \cup {interval}
    BY <1>8, <2>2 DEF SortIntervals
  <2>4. UNCHANGED <<interval, max_ns, sorted, raw_count, state_errors, over, raw, shown>>
    BY <1>8 DEF SortIntervals
  <2> QED BY <2>1, <2>3, <2>4
<1>9. CASE Report BY <1>9, SMTT(20) DEF Report
<1>10. CASE BenchFini BY <1>10 DEF BenchFini
<1>11. CASE Exit BY <1>11 DEF Exit
<1>12. CASE OnProcess BY <1>12 DEF OnProcess
<1>13. CASE RecordMax BY <1>13 DEF RecordMax
<1>14. CASE RecordOver
  <2>1. UNCHANGED <<interval, max_ns, p99, sorted, raw_count, state_errors, raw, shown>>
    BY <1>14 DEF RecordOver
  <2> QED BY <1>14, <2>1, OverGrows
<1>15. CASE ClaimSlot
  <2>1. raw_count' \in Nat
    BY <1>15, SMTT(20) DEF ClaimSlot
  <2>2. UNCHANGED <<interval, max_ns, p99, sorted, state_errors, over, raw, shown>>
    BY <1>15 DEF ClaimSlot
  <2> QED BY <2>1, <2>2
<1>16. CASE StoreSlot
  <2>1. UNCHANGED <<interval, max_ns, p99, sorted, raw_count, state_errors, over, shown>>
    BY <1>16 DEF StoreSlot
  <2> QED BY <1>16, <2>1, StoreKeeps
<1>17. CASE TimeIsUp BY <1>17 DEF TimeIsUp
<1>18. CASE StreamConnects BY <1>18 DEF StreamConnects
<1>19. CASE StreamFails BY <1>19 DEF StreamFails
<1>20. CASE UNCHANGED xrunVars BY <1>20 DEF xrunVars
<1> QED
  BY <1>1, <1>2, <1>3, <1>4, <1>5, <1>6, <1>7, <1>8, <1>9, <1>10, <1>11, <1>12, <1>13, <1>14,
     <1>15, <1>16, <1>17, <1>18, <1>19, <1>20 DEF XrunNext, MainThread, DataThread

\* The lives of stream and array stay nested.
LEMMA NestedStep == Numbers /\ Nested /\ [XrunNext]_xrunVars => Nested'
<1> SUFFICES ASSUME Numbers, Nested, [XrunNext]_xrunVars PROVE Nested'
  OBVIOUS
<1> USE XrunAssumption, RtOrder DEF Numbers, Nested, loopVars, results, mainThread, dataThread, Main
<1>1. CASE XrunStart BY <1>1 DEF XrunStart
<1>2. CASE BenchInit
  <2>1. [i \in 1 .. Capacity |-> 0] # <<>>
    <3>1. 1 \in DOMAIN [i \in 1 .. Capacity |-> 0] BY XrunAssumption
    <3>2. DOMAIN <<>> = {} OBVIOUS
    <3> QED BY <3>1, <3>2
  <2> QED BY <1>2, <2>1 DEF BenchInit
<1>3. CASE BenchRun BY <1>3 DEF BenchRun
<1>4. CASE OnStop BY <1>4 DEF OnStop
<1>5. CASE OnStreamError BY <1>5 DEF OnStreamError
<1>6. CASE LoopReturns BY <1>6 DEF LoopReturns
<1>7. CASE CountIntervals BY <1>7 DEF CountIntervals
<1>8. CASE SortIntervals BY <1>8 DEF SortIntervals
<1>9. CASE Report BY <1>9 DEF Report
<1>10. CASE BenchFini BY <1>10 DEF BenchFini
<1>11. CASE Exit BY <1>11 DEF Exit
<1>12. CASE OnProcess BY <1>12 DEF OnProcess
<1>13. CASE RecordMax BY <1>13 DEF RecordMax
<1>14. CASE RecordOver BY <1>14 DEF RecordOver
<1>15. CASE ClaimSlot BY <1>15 DEF ClaimSlot
<1>16. CASE StoreSlot BY <1>16 DEF StoreSlot
<1>17. CASE TimeIsUp BY <1>17 DEF TimeIsUp
<1>18. CASE StreamConnects BY <1>18 DEF StreamConnects
<1>19. CASE StreamFails BY <1>19 DEF StreamFails
<1>20. CASE UNCHANGED xrunVars BY <1>20 DEF xrunVars
<1> QED
  BY <1>1, <1>2, <1>3, <1>4, <1>5, <1>6, <1>7, <1>8, <1>9, <1>10, <1>11, <1>12, <1>13, <1>14,
     <1>15, <1>16, <1>17, <1>18, <1>19, <1>20 DEF XrunNext, MainThread, DataThread

\* Counters only grow, and the report is a copy of them.
LEMMA MeasuredStep == Numbers /\ Nested /\ Measured /\ [XrunNext]_xrunVars => Measured'
<1> SUFFICES ASSUME Numbers, Nested, Measured, [XrunNext]_xrunVars PROVE Measured'
  OBVIOUS
<1> USE XrunAssumption, RtOrder DEF Numbers, Nested, Measured, loopVars, results, mainThread, dataThread, Main
<1>1. CASE XrunStart BY <1>1 DEF XrunStart
<1>2. CASE BenchInit BY <1>2 DEF BenchInit
<1>3. CASE BenchRun BY <1>3 DEF BenchRun
<1>4. CASE OnStop BY <1>4 DEF OnStop
<1>5. CASE OnStreamError BY <1>5 DEF OnStreamError
<1>6. CASE LoopReturns BY <1>6 DEF LoopReturns
<1>7. CASE CountIntervals BY <1>7 DEF CountIntervals
<1>8. CASE SortIntervals
  <2>1. \A v \in {raw[i] : i \in 1 .. sorted} : v \in Nat /\ v <= max_ns
    BY <1>8, SlotsSorted DEF SortIntervals
  <2>2. CASE rt = "store" /\ raw_count <= sorted
    <3>1. p99' \in {raw[i] : i \in 1 .. sorted} \cup {interval}
      BY <1>8, <2>2 DEF SortIntervals
    <3>2. p99' <= max_ns BY <2>1, <2>2, <3>1
    <3>3. UNCHANGED <<raw, interval, max_ns, over, worst, rt, state_errors, shown>>
      BY <1>8 DEF SortIntervals
    <3> QED BY <3>2, <3>3
  <2>3. CASE ~(rt = "store" /\ raw_count <= sorted)
    <3>1. p99' \in {raw[i] : i \in 1 .. sorted}
      BY <1>8, <2>3 DEF SortIntervals, Percentile99
    <3>2. p99' <= max_ns BY <2>1, <3>1
    <3> QED BY <1>8, <3>2 DEF SortIntervals
  <2> QED BY <2>2, <2>3
<1>9. CASE Report BY <1>9, SMTT(20) DEF Report
<1>10. CASE BenchFini BY <1>10 DEF BenchFini
<1>11. CASE Exit BY <1>11 DEF Exit
<1>12. CASE OnProcess
  <2>1. UNCHANGED <<raw, max_ns, p99, shown, over, state_errors>> /\ rt' \in {"idle", "max"}
    BY <1>12 DEF OnProcess, Steps
  <2> QED BY <2>1
<1>13. CASE RecordMax BY <1>13, SMTT(20) DEF RecordMax
<1>14. CASE RecordOver
  <2>1. UNCHANGED <<raw, interval, max_ns, p99, shown, state_errors>> /\ rt = "over" /\ rt' = "claim"
    BY <1>14 DEF RecordOver
  <2>2. over[3] <= over'[3] /\ over' \in [1 .. 3 -> Nat]
    BY <1>14, OverGrows
  <2>3. shown'.over3 <= over'[3]
    <3>1. shown.over3 \in Nat /\ over[3] \in Nat /\ over'[3] \in Nat BY <2>2
    <3> QED BY <2>1, <2>2, <3>1, SMTT(20)
  <2> QED BY <2>1, <2>3
<1>15. CASE ClaimSlot BY <1>15 DEF ClaimSlot
<1>16. CASE StoreSlot
  <2>1. UNCHANGED <<interval, max_ns, p99, shown, over, worst, state_errors>> /\ rt = "store" /\ rt' = "idle"
    BY <1>16 DEF StoreSlot
  <2>2. \A i \in DOMAIN raw' : raw'[i] <= max_ns
    BY <1>16, <2>1, StoreKeeps
  <2> QED BY <2>1, <2>2
<1>17. CASE TimeIsUp BY <1>17 DEF TimeIsUp
<1>18. CASE StreamConnects BY <1>18 DEF StreamConnects
<1>19. CASE StreamFails BY <1>19 DEF StreamFails
<1>20. CASE UNCHANGED xrunVars BY <1>20 DEF xrunVars
<1> QED
  BY <1>1, <1>2, <1>3, <1>4, <1>5, <1>6, <1>7, <1>8, <1>9, <1>10, <1>11, <1>12, <1>13, <1>14,
     <1>15, <1>16, <1>17, <1>18, <1>19, <1>20 DEF XrunNext, MainThread, DataThread

\* An interval beyond the last threshold is counted before its callback ends.
LEMMA CountedStep == Numbers /\ Nested /\ Counted /\ [XrunNext]_xrunVars => Counted'
<1> SUFFICES ASSUME Numbers, Nested, Counted, [XrunNext]_xrunVars PROVE Counted'
  OBVIOUS
<1>1. CASE UNCHANGED <<worst, over, rt, interval>>
  BY <1>1 DEF Counted
<1>2. CASE OnProcess
  <2>1. rt = "idle" /\ over' = over
    BY <1>2 DEF OnProcess
  <2>2. worst <=> over[3] # 0
    BY <2>1 DEF Counted
  <2>3. CASE UNCHANGED <<worst, rt>>
    BY <2>1, <2>2, <2>3 DEF Counted
  <2>4. CASE rt' = "max" /\ worst' = (worst \/ Level(interval') = 3)
    BY <2>1, <2>2, <2>4 DEF Counted
  <2> QED BY <1>2, <2>3, <2>4 DEF OnProcess, Steps
<1>3. CASE RecordMax
  <2>1. rt = "max" /\ rt' = "over" /\ UNCHANGED <<worst, over, interval>>
    BY <1>3, RtOrder DEF RecordMax
  <2> QED BY <2>1 DEF Counted
<1>4. CASE RecordOver
  <2>1. rt = "over" /\ rt' = "claim" /\ UNCHANGED <<worst, interval>>
    BY <1>4, RtOrder DEF RecordOver
  <2>2. over'[3] # 0 <=> over[3] # 0 \/ Level(interval) = 3
    BY <1>4, OverGrows
  <2> QED BY <2>1, <2>2 DEF Counted
<1>5. CASE ClaimSlot
  <2>1. rt = "claim" /\ rt' = "store" /\ UNCHANGED <<worst, over, interval>>
    BY <1>5, RtOrder DEF ClaimSlot
  <2> QED BY <2>1 DEF Counted
<1>6. CASE StoreSlot
  <2>1. rt = "store" /\ rt' = "idle" /\ UNCHANGED <<worst, over, interval>>
    BY <1>6, RtOrder DEF StoreSlot
  <2> QED BY <2>1 DEF Counted
<1>7. CASE MainThread \/ TimeIsUp \/ StreamConnects \/ StreamFails \/ UNCHANGED xrunVars
  <2>1. UNCHANGED dataThread
    BY <1>7 DEF MainThread, XrunStart, BenchInit, BenchRun, OnStop, OnStreamError, LoopReturns, CountIntervals,
       SortIntervals, Report, BenchFini, Exit, TimeIsUp, StreamConnects, StreamFails, xrunVars
  <2> QED BY <1>1, <2>1 DEF dataThread
<1> QED
  BY <1>2, <1>3, <1>4, <1>5, <1>6, <1>7 DEF XrunNext, DataThread

\* The status is read when nothing counts any more.
LEMMA ConcludedStep == Numbers /\ Nested /\ Concluded /\ [XrunNext]_xrunVars => Concluded'
<1> SUFFICES ASSUME Numbers, Nested, Concluded, [XrunNext]_xrunVars PROVE Concluded'
  OBVIOUS
<1> USE XrunAssumption, RtOrder DEF Numbers, Nested, Concluded, loopVars, results, mainThread, dataThread, Main
<1>1. CASE XrunStart BY <1>1 DEF XrunStart
<1>2. CASE BenchInit
  <2>1. [i \in 1 .. Capacity |-> 0] # <<>>
    <3>1. 1 \in DOMAIN [i \in 1 .. Capacity |-> 0] BY XrunAssumption
    <3>2. DOMAIN <<>> = {} OBVIOUS
    <3> QED BY <3>1, <3>2
  <2> QED BY <1>2, <2>1 DEF BenchInit
<1>3. CASE BenchRun BY <1>3 DEF BenchRun
<1>4. CASE OnStop BY <1>4 DEF OnStop
<1>5. CASE OnStreamError BY <1>5 DEF OnStreamError
<1>6. CASE LoopReturns BY <1>6 DEF LoopReturns
<1>7. CASE CountIntervals BY <1>7 DEF CountIntervals
<1>8. CASE SortIntervals BY <1>8 DEF SortIntervals
<1>9. CASE Report BY <1>9 DEF Report
<1>10. CASE BenchFini BY <1>10 DEF BenchFini
<1>11. CASE Exit
  <2>1. UNCHANGED <<quit, over, state_errors>> /\ bench' = "exit"
    BY <1>11 DEF Exit
  <2>2. quit = TRUE => exitStatus' = IF state_errors > 0 \/ over[3] > 0 THEN 1 ELSE 0
    BY <1>11 DEF Exit, Status
  <2>3. over[3] \in Nat /\ state_errors \in Nat
    OBVIOUS
  <2> QED BY <2>1, <2>2, <2>3
<1>12. CASE OnProcess BY <1>12 DEF OnProcess
<1>13. CASE RecordMax BY <1>13 DEF RecordMax
<1>14. CASE RecordOver BY <1>14 DEF RecordOver
<1>15. CASE ClaimSlot BY <1>15 DEF ClaimSlot
<1>16. CASE StoreSlot BY <1>16 DEF StoreSlot
<1>17. CASE TimeIsUp BY <1>17 DEF TimeIsUp
<1>18. CASE StreamConnects BY <1>18 DEF StreamConnects
<1>19. CASE StreamFails BY <1>19 DEF StreamFails
<1>20. CASE UNCHANGED xrunVars BY <1>20 DEF xrunVars
<1> QED
  BY <1>1, <1>2, <1>3, <1>4, <1>5, <1>6, <1>7, <1>8, <1>9, <1>10, <1>11, <1>12, <1>13, <1>14,
     <1>15, <1>16, <1>17, <1>18, <1>19, <1>20 DEF XrunNext, MainThread, DataThread

-----------------------------------------------------------------------------

\* What the program starts with.
LEMMA XrunStarts == XrunInit => Numbers /\ Nested /\ Measured /\ Counted /\ Concluded
<1> SUFFICES ASSUME XrunInit PROVE Numbers /\ Nested /\ Measured /\ Counted /\ Concluded
  OBVIOUS
<1> USE XrunAssumption DEF XrunInit
<1>1. Numbers BY DEF Numbers
<1>2. Nested BY DEF Nested
<1>3. Concluded BY DEF Concluded
<1>4. over[3] = 0 OBVIOUS
<1>5. Counted BY <1>4 DEF Counted
<1>6. Measured BY <1>4 DEF Measured
<1> QED BY <1>1, <1>2, <1>3, <1>5, <1>6

\* Wherever the way out of the main thread meets the data thread, a store of
\* stats_record_interval finds its array (bench_fini, stats_free).
THEOREM StoresAreLive == XrunSpec => []IntervalsLive
<1>1. XrunInit => Numbers /\ Nested
  BY XrunStarts
<1>2. Numbers /\ Nested /\ [XrunNext]_xrunVars => (Numbers /\ Nested)'
  BY NumbersStep, NestedStep
<1>3. Nested => IntervalsLive
  BY DEF Nested, IntervalsLive
<1> QED BY <1>1, <1>2, <1>3, PTL DEF XrunSpec

\* The exit status is 0 exactly if no callback of the run was later than two
\* periods and no error of the stream was handled, the report does not say
\* otherwise, and its percentile is not above its maximum (main, bench_report).
THEOREM XrunExitTells == XrunSpec => []ExitTellsAll
<1>1. XrunInit => Numbers /\ Nested /\ Measured /\ Counted /\ Concluded
  BY XrunStarts
<1>2. Numbers /\ Nested /\ Measured /\ Counted /\ Concluded /\ [XrunNext]_xrunVars
      => (Numbers /\ Nested /\ Measured /\ Counted /\ Concluded)'
  BY NumbersStep, NestedStep, MeasuredStep, CountedStep, ConcludedStep
<1>3. Numbers /\ Nested /\ Measured /\ Counted /\ Concluded => ExitTellsAll
  <2> SUFFICES ASSUME Numbers, Nested, Measured, Counted, Concluded, bench = "exit", quit
               PROVE  /\ exitStatus = 0 <=> ~worst /\ state_errors = 0
                      /\ exitStatus = 0 => shown.over3 = 0 /\ shown.errors = 0
                      /\ shown.p99 <= shown.max
    BY DEF ExitTellsAll
  <2>1. rt = "idle" BY DEF Nested
  <2>2. ~worst <=> over[3] = 0
    BY <2>1 DEF Counted
  <2>3. exitStatus = 0 <=> over[3] = 0 /\ state_errors = 0 BY DEF Concluded
  <2>4. {over[3], shown.over3, shown.errors, state_errors} \subseteq Nat BY DEF Numbers
  <2>5. shown.over3 <= over[3] /\ shown.errors <= state_errors /\ shown.p99 <= shown.max
    BY DEF Measured
  <2>6. exitStatus = 0 => shown.over3 = 0 /\ shown.errors = 0 BY <2>3, <2>4, <2>5
  <2> QED BY <2>2, <2>3, <2>5, <2>6
<1> QED BY <1>1, <1>2, <1>3, PTL DEF XrunSpec

-----------------------------------------------------------------------------
(* lua-keybind                                                              *)

Contexts == {"ctrl", "alt"}
Screens  == 1 .. MAX_SCREEN

\* PreviewCommitted needs to know what the bindings of a context can be, that
\* their callback is set with them, and that screens are counted from 1.
Settled ==
  /\ held \subseteq Keys
  /\ ctx_mod \in Contexts \cup {"none"}
  /\ ctx_binds = {} \/ \E m \in Contexts : ctx_binds = SetupBinds(m)
  /\ ctx_free_callback \in BOOLEAN /\ (ctx_binds # {} => ctx_free_callback)
  /\ selected \in Screens /\ selected_index \in Screens

KeyInv == Settled /\ PreviewCommitted

\* The modifiers of more keys are more.
LEMMA ModsGrow ==
  ASSUME NEW S, NEW T, S \subseteq T
  PROVE  Mods(S) \subseteq Mods(T)
BY DEF Mods

\* Screens count from 1, and 0 stands for no preview.
LEMMA OneIsScreen == 1 \in Screens /\ 0 \notin Screens
<1>1. MAX_SCREEN \in Nat /\ MAX_SCREEN >= 1 BY ScreenAssumption
<1> QED BY <1>1 DEF Screens

\* next_screen and prev_screen stay among the screens.
LEMMA ScreensCycle ==
  ASSUME selected \in Screens
  PROVE  NextScreen \in Screens /\ PrevScreen \in Screens
BY ScreenAssumption DEF Screens, NextScreen, PrevScreen

\* What the handlers of user.lua do to the screens and to the context ctx.
LEMMA HandlerKeeps ==
  ASSUME KeyInv, NEW fn, NEW key, NEW ctx,
         fn \in {"next, set up", "prev, set up"} => ctx \in Contexts,
         fn \in {"next", "prev"} => ctx_free_callback,
         fn \notin {"next, set up", "prev, set up", "next", "prev", "reset"} => key.number \in Screens,
         CallHandler(fn, key, ctx)
  PROVE  /\ ctx_binds' = {} \/ \E m \in Contexts : ctx_binds' = SetupBinds(m)
         /\ ctx_free_callback' \in BOOLEAN /\ (ctx_binds' # {} => ctx_free_callback')
         /\ selected' \in Screens /\ selected_index' \in Screens
         /\ preview_index' # 0 => preview_index' = selected' /\ ctx_free_callback'
         /\ preview_index' = 0 => selected' = selected_index'
         /\ \/ UNCHANGED <<ctx_binds, ctx_free_callback>>
            \/ ctx \in Contexts
<1>1. 1 \in Screens /\ 0 \notin Screens BY OneIsScreen
<1>2. NextScreen \in Screens /\ PrevScreen \in Screens BY ScreensCycle DEF KeyInv, Settled
<1>3. CASE fn \in {"next, set up", "prev, set up"}
  <2>1. ctx \in Contexts /\ ctx # "none" BY <1>3 DEF Contexts
  <2>2. ctx_binds' = SetupBinds(ctx) /\ ctx_free_callback' = TRUE
    BY <1>3, <2>1 DEF CallHandler, SetUp
  <2>3. \/ selected' = NextScreen /\ preview_index' = NextScreen /\ selected_index' = selected_index
        \/ selected' = PrevScreen /\ preview_index' = PrevScreen /\ selected_index' = selected_index
    BY <1>3 DEF CallHandler, Show
  <2> QED BY <1>1, <1>2, <2>1, <2>2, <2>3 DEF KeyInv, Settled
<1>4. CASE fn \in {"next", "prev"}
  <2>1. UNCHANGED <<ctx_binds, ctx_free_callback>> /\ ctx_free_callback
    BY <1>4 DEF CallHandler
  <2>2. \/ selected' = NextScreen /\ preview_index' = NextScreen /\ selected_index' = selected_index
        \/ selected' = PrevScreen /\ preview_index' = PrevScreen /\ selected_index' = selected_index
    BY <1>4 DEF CallHandler, Show
  <2> QED BY <1>1, <1>2, <2>1, <2>2 DEF KeyInv, Settled
<1>5. CASE fn \notin {"next, set up", "prev, set up", "next", "prev"}
  <2>1. UNCHANGED <<ctx_binds, ctx_free_callback>>
    BY <1>5 DEF CallHandler
  <2>2. PICK s \in Screens : selected' = s /\ preview_index' = 0 /\ selected_index' = s
    BY <1>1, <1>5 DEF CallHandler, Commit
  <2> QED BY <2>1, <2>2 DEF KeyInv, Settled
<1> QED BY <1>3, <1>4, <1>5

\* Every shortcut of user.lua has Ctrl, and those that commit have a screen.
LEMMA PublicBinds ==
  ASSUME NEW b \in pub_binds, NEW k, b.key = k
  PROVE  /\ "ctrl" \in b.mods
         /\ \/ b.fn \in {"next, set up", "prev, set up", "reset"}
            \/ b.fn = "commit" /\ k.number \in Screens
<1>1. CASE b = Binding({"ctrl"}, Key("Tab"), "next, set up")
  BY <1>1 DEF Binding
<1>2. CASE b = Binding({"ctrl", "shift"}, Key("Tab"), "prev, set up")
  BY <1>2 DEF Binding
<1>3. CASE b = Binding({"ctrl"}, Key("Grave"), "reset")
  BY <1>3 DEF Binding
<1>4. ASSUME NEW i \in 1 .. MAX_SCREEN, b = Binding({"ctrl"}, Digit(i), "commit")
      PROVE  "ctrl" \in b.mods /\ b.fn = "commit" /\ k.number \in Screens
  BY <1>4 DEF Binding, Digit, Screens
<1> QED BY <1>1, <1>2, <1>3, <1>4 DEF pub_binds

\* A press changes the context only to open one, of a modifier that is held.
LEMMA KeyDownKeeps == KeyInv /\ KeyDown => KeyInv'
<1> SUFFICES ASSUME KeyInv, KeyDown PROVE KeyInv'
  OBVIOUS
<1>1. PICK k \in Keys \ held :
        /\ held' = held \cup {k}
        /\ \/ k = Key("Escape") /\ app' = "quit" /\ UNCHANGED <<context, screens>>
           \/ k # Key("Escape") /\ OnKeyDown(k, Mods(held')) /\ UNCHANGED app
  BY DEF KeyDown
<1>2. held' \subseteq Keys /\ Mods(held) \subseteq Mods(held')
  BY <1>1, ModsGrow DEF KeyInv, Settled
<1>3. CASE UNCHANGED <<context, screens>>
  BY <1>2, <1>3 DEF KeyInv, Settled, PreviewCommitted, context, screens
<1>4. ASSUME NEW b \in Bound(ctx_binds, Mods(held'), k), CallHandler(b.fn, k, ctx_mod), UNCHANGED ctx_mod
      PROVE  KeyInv'
  <2>1. b \in ctx_binds /\ ctx_binds # {} BY <1>4 DEF Bound
  <2>2. b.fn \in {"next", "prev"} BY <2>1 DEF KeyInv, Settled, SetupBinds, Binding
  <2>3. ctx_free_callback /\ ctx_mod # "none" BY <2>1 DEF KeyInv, Settled, PreviewCommitted
  <2>4. UNCHANGED <<ctx_binds, ctx_free_callback>> BY <1>4, <2>2 DEF CallHandler
  <2> QED BY <1>2, <1>4, <2>2, <2>3, <2>4, HandlerKeeps DEF KeyInv, Settled, PreviewCommitted
<1>5. ASSUME NEW b \in Bound(pub_binds, Mods(held'), k), ctx_mod' = Created(Mods(held')),
             CallHandler(b.fn, k, ctx_mod')
      PROVE  KeyInv'
  <2>1. /\ b \in pub_binds /\ b.mods = Mods(held') /\ b.key = k
    BY <1>5 DEF Bound
  <2>2. /\ "ctrl" \in b.mods
        /\ \/ b.fn \in {"next, set up", "prev, set up", "reset"}
           \/ b.fn = "commit" /\ k.number \in Screens
    BY <2>1, PublicBinds
  <2>3. ctx_mod' \in Contexts /\ ctx_mod' \in Mods(held')
    BY <1>2, <1>5, <2>1, <2>2 DEF Created, ContextMod, Contexts, KeyInv, Settled, PreviewCommitted
  <2>4. ctx_mod' # "none" BY <2>3 DEF Contexts
  <2> QED BY <1>2, <1>5, <2>2, <2>3, <2>4, HandlerKeeps DEF KeyInv, Settled, PreviewCommitted
<1> QED BY <1>1, <1>3, <1>4, <1>5 DEF OnKeyDown

\* A release of the context's modifier, from either side, ends the context; any
\* other leaves its modifier held.
LEMMA KeyUpKeeps == KeyInv /\ KeyUp => KeyInv'
<1> SUFFICES ASSUME KeyInv, KeyUp PROVE KeyInv'
  OBVIOUS
<1>1. PICK k \in held :
        /\ held' = held \ {k}
        /\ \/ ctx_mod # "none" /\ ModOf(k) = ctx_mod /\ DestroyContext
           \/ (ctx_mod = "none" \/ ModOf(k) # ctx_mod) /\ UNCHANGED <<context, screens>>
  BY DEF KeyUp
<1>2. held' \subseteq Keys BY <1>1 DEF KeyInv, Settled
<1>3. CASE DestroyContext
  <2>1. ctx_binds' = {} /\ ctx_mod' = "none" /\ ctx_free_callback' = FALSE
    BY <1>3 DEF DestroyContext
  <2>2. CASE ctx_free_callback
    <3>1. selected' = selected /\ preview_index' = 0 /\ selected_index' = selected
      BY <1>3, <2>2 DEF DestroyContext, Commit
    <3> QED BY <1>2, <2>1, <3>1 DEF KeyInv, Settled, PreviewCommitted
  <2>3. CASE ~ctx_free_callback
    <3>1. UNCHANGED screens /\ preview_index = 0
      BY <1>3, <2>3 DEF DestroyContext, KeyInv, PreviewCommitted
    <3> QED BY <1>2, <2>1, <3>1 DEF KeyInv, Settled, PreviewCommitted, screens
  <2> QED BY <2>2, <2>3
<1>4. CASE (ctx_mod = "none" \/ ModOf(k) # ctx_mod) /\ UNCHANGED <<context, screens>>
  <2>1. ctx_mod # "none" => ctx_mod \in Mods(held')
    BY <1>1, <1>4 DEF Mods, KeyInv, PreviewCommitted
  <2> QED BY <1>2, <1>4, <2>1 DEF KeyInv, Settled, PreviewCommitted, context, screens
<1> QED BY <1>1, <1>3, <1>4

\* The screens of main.c and user.lua, the context of key.lua and the keys held
\* agree, whatever keys come and go, for any number of screens (key.lua
\* on_key_down, on_key_up; user.lua; main.c preview, commit).
THEOREM PreviewsAreCommitted == KeySpec => []PreviewCommitted
<1>1. KeyInit => KeyInv
  BY OneIsScreen DEF KeyInit, KeyInv, Settled, PreviewCommitted
<1>2. KeyInv /\ [KeyNext]_keyVars => KeyInv'
  <2> SUFFICES ASSUME KeyInv, [KeyNext]_keyVars PROVE KeyInv'
    OBVIOUS
  <2>1. CASE AppInit \/ WindowClosed \/ FocusChanges \/ UNCHANGED keyVars
    <3>1. UNCHANGED <<held, context, screens>>
      BY <2>1 DEF AppInit, WindowClosed, FocusChanges, keyVars
    <3> QED BY <3>1 DEF KeyInv, Settled, PreviewCommitted, context, screens
  <2> QED BY <2>1, KeyDownKeeps, KeyUpKeeps DEF KeyNext
<1>3. KeyInv => PreviewCommitted
  BY DEF KeyInv
<1> QED BY <1>1, <1>2, <1>3, PTL DEF KeySpec

-----------------------------------------------------------------------------
(* check-my-alsa, suspend                                                   *)

\* A sleep that found the test waiting is on its way to be detected, and the
\* handle and rtcwake are accounted for in each phase.
Watched ==
  /\ test \in {"off", "open", "start", "warm", "spawn", "first"} => sleptAt \notin {"poll", "sample"}
  /\ test \in {"off", "open", "start", "warm", "spawn"} => rtcwake = "none"
  /\ test \in {"verify", "fresh", "report", "exit"} => rtcwake \in {"none", "reaped"}
  /\ test \in {"off", "report"} => handle = FALSE
  /\ test = "exit" => (handle => verdict = "not opened")
  /\ pre_fail => test \in {"reap", "verify", "fresh", "report", "exit"}
  /\ detected => test \in {"reap", "verify", "fresh", "report", "exit"}
  /\ sleptAt \in {"poll", "sample"} =>
       \/ stopped \/ pre_fail \/ detected
       \/ (gap /\ test \in {"poll", "sample"})
  /\ test = "exit" /\ sleptAt \in {"poll", "sample"} /\ ~stopped /\ ~pre_fail =>
       verdict \in {"not recovered", "no frames", "recovered"}

\* A detected sleep is judged, whatever rtcwake and the wait came to.
LEMMA JudgedOnTheWake == detected => Judgement \in {"not recovered", "no frames", "recovered"}
<1> SUFFICES ASSUME detected PROVE Judgement \in {"not recovered", "no frames", "recovered"}
  OBVIOUS
<1>1. CASE wake_rc \notin {"cycle", "early"} \/ recover_fails \/ verify_err
  BY <1>1 DEF Judgement
<1>2. CASE ~(wake_rc \notin {"cycle", "early"} \/ recover_fails \/ verify_err)
  BY <1>2 DEF Judgement
<1> QED BY <1>1, <1>2

LEMMA WatchedStep == Watched /\ [SuspNext]_suspVars => Watched'
<1> SUFFICES ASSUME Watched, [SuspNext]_suspVars PROVE Watched'
  OBVIOUS
<1> USE DEF Watched, found, verified, options, outside, Test, GiveUp, ChildEnded
<1>1. CASE Options BY <1>1 DEF Options
<1>2. CASE OpenStream BY <1>2 DEF OpenStream
<1>18. CASE StartStream BY <1>18 DEF StartStream
<1>3. CASE WarmUp BY <1>3 DEF WarmUp
<1>4. CASE SpawnSuspend BY <1>4 DEF SpawnSuspend
<1>5. CASE FirstSample BY <1>5 DEF FirstSample
<1>6. CASE PollWait
  <2>1. UNCHANGED <<handle, detected, gap, rtcwake, stopped, sleptAt, verdict>> /\ test = "poll"
    BY <1>6 DEF PollWait
  <2>2. \/ stopped /\ test' = "reap" /\ UNCHANGED pre_fail
        \/ test' = "sample" /\ UNCHANGED pre_fail
        \/ test' = "reap" /\ pre_fail' = TRUE
    BY <1>6 DEF PollWait
  <2>3. CASE UNCHANGED pre_fail /\ ((stopped /\ test' = "reap") \/ test' = "sample") BY <2>1, <2>3
  <2>4. CASE test' = "reap" /\ pre_fail' = TRUE BY <2>1, <2>4
  <2> QED BY <2>2, <2>3, <2>4
<1>7. CASE SampleClocks
  <2>1. UNCHANGED <<handle, pre_fail, rtcwake, stopped, sleptAt, verdict>> /\ test = "sample"
    BY <1>7 DEF SampleClocks
  <2>2. \/ detected' = TRUE /\ test' = "reap"
        \/ ~gap /\ test' \in {"play", "child"} /\ UNCHANGED <<gap, detected>>
    BY <1>7 DEF SampleClocks
  <2>3. CASE detected' = TRUE /\ test' = "reap" BY <2>1, <2>3
  <2>4. CASE ~gap /\ test' \in {"play", "child"} /\ UNCHANGED <<gap, detected>> BY <2>1, <2>4
  <2> QED BY <2>2, <2>3, <2>4
<1>8. CASE Play BY <1>8 DEF Play
<1>9. CASE WatchChild BY <1>9 DEF WatchChild
<1>10. CASE ReapChild BY <1>10 DEF ReapChild
<1>11. CASE Verify BY <1>11 DEF Verify
<1>12. CASE FreshReopen BY <1>12 DEF FreshReopen
<1>13. CASE Judge BY <1>13, JudgedOnTheWake DEF Judge
<1>14. CASE Sleep BY <1>14 DEF Sleep
<1>15. CASE RtcwakeEnds BY <1>15 DEF RtcwakeEnds
<1>16. CASE Interrupt BY <1>16 DEF Interrupt
<1>17. CASE UNCHANGED suspVars BY <1>17 DEF suspVars
<1> QED
  BY <1>1, <1>2, <1>3, <1>4, <1>5, <1>6, <1>7, <1>8, <1>9, <1>10, <1>11, <1>12, <1>13, <1>14,
     <1>15, <1>16, <1>17, <1>18
  DEF SuspNext, SuspStep

\* However rtcwake, the clocks and the stream race, a sleep in the wait is judged,
\* no rtcwake outlives the test, and every stream that was opened is closed
\* (app-suspend.c, suspend_run).
THEOREM SleepIsSeen == SuspSpec => []SleepSeen
<1>1. SuspInit => Watched BY DEF SuspInit, Watched
<1>2. Watched /\ [SuspNext]_suspVars => Watched' BY WatchedStep
<1>3. Watched => SleepSeen BY DEF Watched, SleepSeen
<1> QED BY <1>1, <1>2, <1>3, PTL DEF SuspSpec

-----------------------------------------------------------------------------
(* check-my-alsa, recover                                                   *)

\* While nothing has failed each attempt has its underrun: what the test read and
\* what the stream did are tied together by brokeNow.
Clean == induction_failed = 0 /\ recoveries_failed = 0

Tallied ==
  /\ {attempts, xruns_induced, induction_failed, recoveries_ok, recoveries_failed, broken} \subseteq Nat
  /\ recover \in {"off", "open", "prepare"} => attempts = 0
  /\ Clean =>
     /\ recover \in {"off", "open", "prepare", "attempt"} =>
          recoveries_ok = attempts /\ xruns_induced = attempts /\ broken = attempts
     /\ recover \in {"again", "write", "commit", "wait", "judge", "drop", "recover", "verify"} =>
          recoveries_ok + 1 = attempts
     /\ recover \in {"again", "write", "commit", "wait", "judge", "drop"} => xruns_induced + 1 = attempts
     /\ recover = "again" => broken + 1 = attempts
     /\ recover \in {"recover", "verify"} => xruns_induced = attempts /\ broken = attempts
     /\ recover \in {"write", "commit", "wait", "judge"} /\ brokeNow => broken = attempts
     /\ recover \in {"write", "commit", "wait", "judge"} /\ ~brokeNow => broken + 1 = attempts
     /\ recover # "drop"

\* The stream that is not ready while the test writes and waits has stopped by
\* itself.
Observed ==
  /\ recover = "again" => pcm # "RUNNING" /\ ~brokeNow
  /\ recover \in {"write", "commit", "wait"} => st_state # "XRUN"
  /\ recover \in {"write", "commit", "wait", "judge"} /\ pcm \notin Ready => brokeNow
  /\ recover = "judge" /\ st_state = "XRUN" => brokeNow

Honoured ==
  recover = "exit" /\ code = 0 => Clean /\ ZeroMeansRecovered

LEMMA ObservedStep == Observed /\ [RecoverNext]_recoverVars => Observed'
<1> SUFFICES ASSUME Observed, [RecoverNext]_recoverVars PROVE Observed'
  OBVIOUS
<1> USE DEF Observed, counters, brokeHist, At, ExitWith, DoPrepare, Ready
<1>1. CASE RecoverOpen BY <1>1 DEF RecoverOpen
<1>2. CASE PrepareFirst BY <1>2 DEF PrepareFirst
<1>3. CASE BeginAttempt BY <1>3 DEF BeginAttempt
<1>4. CASE PrepareAgain BY <1>4 DEF PrepareAgain
<1>5. CASE WriteQuantum BY <1>5 DEF WriteQuantum
<1>15. CASE CommitQuantum BY <1>15 DEF CommitQuantum
<1>6. CASE WaitForXrun BY <1>6 DEF WaitForXrun
<1>7. CASE JudgeInduction BY <1>7 DEF JudgeInduction, Breaks
<1>8. CASE DropAndPrepare BY <1>8 DEF DropAndPrepare
<1>9. CASE Recover BY <1>9 DEF Recover
<1>10. CASE VerifyRecovery BY <1>10 DEF VerifyRecovery
<1>11. CASE Finish BY <1>11 DEF Finish
<1>12. CASE StreamStops BY <1>12 DEF StreamStops, Stopped, Breaks
<1>13. CASE StopRequest BY <1>13 DEF StopRequest
<1>14. CASE UNCHANGED recoverVars BY <1>14 DEF recoverVars
<1> QED
  BY <1>1, <1>2, <1>3, <1>4, <1>5, <1>6, <1>7, <1>8, <1>9, <1>10, <1>11, <1>12, <1>13, <1>14, <1>15
  DEF RecoverNext

LEMMA TalliedStep == Tallied /\ Observed /\ [RecoverNext]_recoverVars => Tallied'
<1> SUFFICES ASSUME Tallied, Observed, [RecoverNext]_recoverVars PROVE Tallied'
  OBVIOUS
<1> USE DEF Tallied, Clean, counters, brokeHist, At, ExitWith, DoPrepare
<1>1. CASE RecoverOpen BY <1>1 DEF RecoverOpen
<1>2. CASE PrepareFirst BY <1>2 DEF PrepareFirst
<1>3. CASE BeginAttempt BY <1>3 DEF BeginAttempt
<1>4. CASE PrepareAgain
  <2>1. recover = "again" /\ UNCHANGED <<attempts, counters, broken>>
    BY <1>4 DEF PrepareAgain
  <2>2. recover' = "exit" \/ (recover' = "write" /\ ~brokeNow')
    BY <1>4 DEF PrepareAgain, Observed
  <2> QED BY <2>1, <2>2
<1>5. CASE WriteQuantum BY <1>5 DEF WriteQuantum
<1>15. CASE CommitQuantum BY <1>15 DEF CommitQuantum
<1>6. CASE WaitForXrun BY <1>6 DEF WaitForXrun
<1>7. CASE JudgeInduction
  <2>1. (brokeNow /\ UNCHANGED brokeHist) \/ Breaks \/ induction_failed' = induction_failed + 1
    BY <1>7 DEF JudgeInduction, Observed
  <2> QED BY <1>7, <2>1 DEF JudgeInduction, Breaks
<1>8. CASE DropAndPrepare BY <1>8 DEF DropAndPrepare
<1>9. CASE Recover BY <1>9 DEF Recover
<1>10. CASE VerifyRecovery BY <1>10 DEF VerifyRecovery
<1>11. CASE Finish BY <1>11 DEF Finish
<1>12. CASE StreamStops BY <1>12 DEF StreamStops, Breaks
<1>13. CASE StopRequest BY <1>13 DEF StopRequest
<1>14. CASE UNCHANGED recoverVars BY <1>14 DEF recoverVars
<1> QED
  BY <1>1, <1>2, <1>3, <1>4, <1>5, <1>6, <1>7, <1>8, <1>9, <1>10, <1>11, <1>12, <1>13, <1>14, <1>15
  DEF RecoverNext

LEMMA HonouredStep == Tallied /\ Honoured /\ [RecoverNext]_recoverVars => Honoured'
<1> SUFFICES ASSUME Tallied, Honoured, [RecoverNext]_recoverVars PROVE Honoured'
  OBVIOUS
<1> USE DEF Honoured, ZeroMeansRecovered, Clean, counters, brokeHist, At, ExitWith
<1>1. CASE Finish
  <2>1. /\ recover = "attempt" /\ code' = Failed /\ (g_stop \/ attempts = Iterations)
        /\ UNCHANGED <<attempts, counters, g_stop, broken>>
    BY <1>1 DEF Finish
  <2>2. code' = 0 => Clean
    BY <2>1 DEF Failed, Tallied
  <2> QED BY <2>1, <2>2 DEF Tallied
<1>2. CASE UNCHANGED recoverVars BY <1>2 DEF recoverVars
<1> DEFINE Stays == recover # "exit" /\ (recover' = "exit" => code' # 0)
<1>3. Stays => Honoured'
  OBVIOUS
<1>4. CASE RecoverOpen BY <1>4, <1>3 DEF RecoverOpen
<1>5. CASE PrepareFirst BY <1>5, <1>3 DEF PrepareFirst, DoPrepare
<1>6. CASE BeginAttempt BY <1>6, <1>3 DEF BeginAttempt
<1>7. CASE PrepareAgain BY <1>7, <1>3 DEF PrepareAgain, DoPrepare
<1>8. CASE WriteQuantum BY <1>8, <1>3 DEF WriteQuantum
<1>16. CASE CommitQuantum BY <1>16, <1>3 DEF CommitQuantum
<1>9. CASE WaitForXrun BY <1>9, <1>3 DEF WaitForXrun
<1>10. CASE JudgeInduction BY <1>10, <1>3 DEF JudgeInduction
<1>11. CASE DropAndPrepare BY <1>11, <1>3 DEF DropAndPrepare, DoPrepare
<1>12. CASE Recover BY <1>12, <1>3 DEF Recover
<1>13. CASE VerifyRecovery BY <1>13, <1>3 DEF VerifyRecovery
<1>14. CASE StreamStops BY <1>14, <1>3 DEF StreamStops
<1>15. CASE StopRequest BY <1>15, <1>3 DEF StopRequest
<1> QED BY <1>1, <1>2, <1>4, <1>5, <1>6, <1>7, <1>8, <1>9, <1>10, <1>11, <1>12, <1>13, <1>14, <1>15, <1>16
  DEF RecoverNext

\* A state of an earlier attempt, a wait that ran out, a stream that never started
\* or a failed recovery is never counted as an underrun recovered: an exit status
\* of 0 accounts for every attempt (app-recover.c, recover_run).
THEOREM ZeroIsEarned == RecoverSpec => []ZeroMeansRecovered
<1> DEFINE Inv == Tallied /\ Observed /\ Honoured
<1>1. RecoverInit => Inv
  BY DEF RecoverInit, Tallied, Clean, Observed, Honoured, Ready
<1>2. Inv /\ [RecoverNext]_recoverVars => Inv'
  BY TalliedStep, ObservedStep, HonouredStep
<1>3. Inv => ZeroMeansRecovered
  BY DEF Honoured, ZeroMeansRecovered
<1> QED BY <1>1, <1>2, <1>3, PTL DEF RecoverSpec

-----------------------------------------------------------------------------
(* check-my-alsa, jack                                                      *)

\* What an entry says is out of date only while an event for it is queued or
\* being handled.
UpToDate ==
  /\ value = said /\ prev_plugged = said
  /\ jack \in {"off", "open", "subscribe", "fetch"} => shownFirst = {}
  /\ jack \in {"poll", "events"} => shownFirst = bound
  /\ jack # "events" /\ jack # "exit" => reading = {}
  /\ jack \in {"baseline", "poll", "events"} =>
       \A j \in shownFirst : j \in news \/ j \in reading \/ (j \in said <=> j \in plugged)

LEMMA UpToDateStep == UpToDate /\ [JackNext]_jackVars => UpToDate'
<1> SUFFICES ASSUME UpToDate, [JackNext]_jackVars PROVE UpToDate'
  OBVIOUS
<1> USE DEF UpToDate, entryVars, JackAt, JackEnds
<1>1. CASE JackSetup BY <1>1 DEF JackSetup
<1>2. CASE FetchJackCtls BY <1>2 DEF FetchJackCtls
<1>3. CASE PrintBaseline BY <1>3 DEF PrintBaseline, Reread
<1>4. CASE PollJacks BY <1>4 DEF PollJacks
<1>5. CASE ReadEvent BY <1>5 DEF ReadEvent
<1>6. CASE RereadEntry BY <1>6 DEF RereadEntry, Reread
<1>7. CASE PlugOrUnplug BY <1>7 DEF PlugOrUnplug, Subscribed
<1>8. CASE JackInterrupt BY <1>8 DEF JackInterrupt
<1>9. CASE UNCHANGED jackVars BY <1>9 DEF jackVars
<1> QED BY <1>1, <1>2, <1>3, <1>4, <1>5, <1>6, <1>7, <1>8, <1>9 DEF JackNext

\* A jack moved at any moment is told of in the end, or an event for it is still
\* queued (app-jack.c fetch_jack_ctls, print_jack_baseline, run_jack_event_loop).
THEOREM LinesAreTrue == JackSpec => []LastLineIsTrue
<1>1. JackInit => UpToDate BY DEF JackInit, UpToDate
<1>2. UpToDate /\ [JackNext]_jackVars => UpToDate' BY UpToDateStep
<1>3. UpToDate => LastLineIsTrue BY DEF UpToDate, LastLineIsTrue
<1> QED BY <1>1, <1>2, <1>3, PTL DEF JackSpec

-----------------------------------------------------------------------------
(* jump-or-exec                                                             *)

Under == {"first", "second", "choose"}
Syncs == {i \in DOMAIN requests : requests[i].type = "sync"}
Dones == {i \in DOMAIN events : events[i].type = "done"}

\* One roundtrip at a time, on one side of the socket.
OneSync ==
  /\ \A i, j \in Syncs : i = j
  /\ \A i, j \in Dones : i = j
  /\ Syncs = {} \/ Dones = {}
  /\ jump = "choose" => Syncs = {} /\ Dones = {}

\* The globals come with the first.
Offered ==
  /\ \A i \in DOMAIN requests : requests[i].type = "registry" =>
       jump = "first" /\ Dones = {} /\ \A j \in Syncs : i < j
  /\ \A i \in DOMAIN events : events[i].type \in {"seat", "manager"} =>
       jump = "first" /\ \A j \in Dones : i < j

\* A manager is bound before the second is asked for.
BoundFirst ==
  /\ \A i \in DOMAIN requests : requests[i].type = "bind" => manager
  /\ told => manager
  /\ manager /\ ~told =>
       \E q \in DOMAIN requests :
         /\ requests[q].type = "bind" /\ jump # "choose"
         /\ jump = "second" => Dones = {} /\ \A p \in Syncs : q < p

Heard(w)  == \E i \in DOMAIN windows : windows[i].window = w
Listed(w) == \E i \in DOMAIN windows : windows[i].window = w /\ windows[i].matches

\* The k-th event says that w matches, in time for the choice.
News(w, k) ==
  /\ events[k].type = "title" /\ events[k].window = w
  /\ Heard(w) \/ \E i \in DOMAIN events : i < k /\ events[i].type = "toplevel" /\ events[i].window = w
  /\ jump = "second" => \A d \in Dones : k < d
  /\ jump # "choose"

\* A steady window is on the list as one that matches, or will be.
Steady ==
  /\ steady \subseteq open \cap matching
  /\ \A i \in DOMAIN events : events[i].window \in steady =>
       events[i].type # "closed" /\ (events[i].type = "title" => events[i].yes)
  /\ told => \A w \in steady : Listed(w) \/ \E k \in DOMAIN events : News(w, k)

\* What a run has done when.
Choice ==
  /\ jump \in Under \cup {"off"} => target = Nobody
  /\ spawned => jump = "exit"
  /\ jump = "off" => requests = <<>> /\ events = <<>> /\ ~told /\ ~manager

JumpInv == JumpTypeOK /\ Choice /\ (jump \in Under => OneSync /\ Offered /\ BoundFirst /\ Steady)

\* The socket: what is sent goes to the end, what is read is taken from the front.
LEMMA Sent ==
  ASSUME NEW S, NEW a \in Seq(S), NEW b \in Seq(S)
  PROVE  /\ a \o b \in Seq(S) /\ Len(a) \in Nat
         /\ \A i \in DOMAIN a : i \in Nat /\ i <= Len(a) /\ i \in DOMAIN (a \o b) /\ (a \o b)[i] = a[i]
         /\ \A j \in DOMAIN b : j \in Nat /\ j >= 1 /\ Len(a) + j \in DOMAIN (a \o b) /\ (a \o b)[Len(a) + j] = b[j]
         /\ \A i \in DOMAIN (a \o b) :
              i \in DOMAIN a \/ (i \in Nat /\ i > Len(a) /\ i - Len(a) \in DOMAIN b /\ (a \o b)[i] = b[i - Len(a)])
<1> DEFINE c == a \o b
<1>1. /\ Len(a) \in Nat /\ DOMAIN a = 1..Len(a) /\ Len(b) \in Nat /\ DOMAIN b = 1..Len(b)
  BY LenProperties
<1>2. /\ c \in Seq(S) /\ Len(c) = Len(a) + Len(b)
      /\ \A i \in 1..Len(a) + Len(b) : c[i] = IF i <= Len(a) THEN a[i] ELSE b[i - Len(a)]
  BY ConcatProperties
<1>3. DOMAIN c = 1..Len(a) + Len(b) BY <1>2, LenProperties
<1> HIDE DEF c
<1>4. \A i \in DOMAIN a : i \in Nat /\ i <= Len(a) /\ i \in DOMAIN c /\ c[i] = a[i] BY <1>1, <1>2, <1>3
<1>5. \A j \in DOMAIN b : j \in Nat /\ j >= 1 /\ Len(a) + j \in DOMAIN c /\ c[Len(a) + j] = b[j]
  <2> SUFFICES ASSUME NEW j \in DOMAIN b
               PROVE  j \in Nat /\ j >= 1 /\ Len(a) + j \in DOMAIN c /\ c[Len(a) + j] = b[j]
    OBVIOUS
  <2>1. j \in Nat /\ j >= 1 /\ Len(a) + j \in 1..Len(a) + Len(b) /\ ~(Len(a) + j <= Len(a))
        /\ Len(a) + j - Len(a) = j
    BY <1>1
  <2> QED BY <1>2, <1>3, <2>1
<1>6. \A i \in DOMAIN c :
        i \in DOMAIN a \/ (i \in Nat /\ i > Len(a) /\ i - Len(a) \in DOMAIN b /\ c[i] = b[i - Len(a)])
  <2> SUFFICES ASSUME NEW i \in DOMAIN c, i \notin DOMAIN a
               PROVE  i \in Nat /\ i > Len(a) /\ i - Len(a) \in DOMAIN b /\ c[i] = b[i - Len(a)]
    OBVIOUS
  <2>1. i \in Nat /\ i > Len(a) /\ i - Len(a) \in DOMAIN b /\ ~(i <= Len(a)) BY <1>1, <1>3
  <2> QED BY <1>2, <1>3, <2>1
<1> QED BY <1>1, <1>2, <1>4, <1>5, <1>6 DEF c

LEMMA Taken ==
  ASSUME NEW S, NEW s \in Seq(S), s # <<>>
  PROVE  /\ Head(s) = s[1] /\ 1 \in DOMAIN s /\ s[1] \in S /\ Tail(s) \in Seq(S)
         /\ \A i \in DOMAIN s : i \in Nat /\ i >= 1 /\ (i # 1 => i - 1 \in DOMAIN Tail(s))
         /\ \A i \in DOMAIN Tail(s) : i \in Nat /\ i >= 1 /\ i + 1 \in DOMAIN s /\ Tail(s)[i] = s[i + 1]
<1>1. Len(s) \in Nat /\ DOMAIN s = 1..Len(s) BY LenProperties
<1>2. Len(s) >= 1 BY <1>1, EmptySeq
<1>3. /\ Head(s) \in S /\ Head(s) = s[1] /\ Tail(s) \in Seq(S) /\ Len(Tail(s)) = Len(s) - 1
      /\ \A i \in 1..Len(Tail(s)) : Tail(s)[i] = s[i + 1]
  BY <1>1, <1>2, HeadTailProperties
<1>4. DOMAIN Tail(s) = 1..Len(s) - 1 BY <1>3, LenProperties
<1> QED BY <1>1, <1>2, <1>3, <1>4

LEMMA EventsGrow ==
  ASSUME JumpTypeOK, NEW es \in Seq(Events), events' = events \o es
  PROVE  /\ events' \in Seq(Events) /\ Len(events) \in Nat
         /\ \A i \in DOMAIN events : i \in Nat /\ i <= Len(events) /\ i \in DOMAIN events' /\ events'[i] = events[i]
         /\ \A j \in DOMAIN es : j \in Nat /\ j >= 1 /\ Len(events) + j \in DOMAIN events'
                                 /\ events'[Len(events) + j] = es[j]
         /\ \A i \in DOMAIN events' :
              \/ i \in DOMAIN events
              \/ i \in Nat /\ i > Len(events) /\ i - Len(events) \in DOMAIN es
                 /\ events'[i] = es[i - Len(events)]
<1>1. events \in Seq(Events) BY DEF JumpTypeOK
<1> QED BY <1>1, Sent

LEMMA RequestsGrow ==
  ASSUME JumpTypeOK, NEW r \in Requests, requests' = Append(requests, r)
  PROVE  /\ requests' \in Seq(Requests) /\ Len(requests) \in Nat
         /\ Len(requests) + 1 \in DOMAIN requests' /\ requests'[Len(requests) + 1] = r
         /\ \A i \in DOMAIN requests : i \in Nat /\ i <= Len(requests) /\ i \in DOMAIN requests'
                                       /\ requests'[i] = requests[i]
         /\ \A i \in DOMAIN requests' : i \in DOMAIN requests \/ i = Len(requests) + 1
<1>1. requests \in Seq(Requests) BY DEF JumpTypeOK
<1>2. Len(requests) \in Nat /\ DOMAIN requests = 1..Len(requests) BY <1>1, LenProperties
<1>3. /\ requests' \in Seq(Requests) /\ Len(requests') = Len(requests) + 1
      /\ \A i \in 1..Len(requests) : requests'[i] = requests[i]
      /\ requests'[Len(requests) + 1] = r
  BY <1>1, AppendProperties
<1>4. DOMAIN requests' = 1..Len(requests) + 1 BY <1>3, LenProperties
<1> QED BY <1>2, <1>3, <1>4

LEMMA EventTaken ==
  ASSUME JumpTypeOK, events # <<>>, events' = Tail(events)
  PROVE  /\ Head(events) = events[1] /\ 1 \in DOMAIN events /\ events[1] \in Events /\ events' \in Seq(Events)
         /\ \A i \in DOMAIN events : i \in Nat /\ i >= 1 /\ (i # 1 => i - 1 \in DOMAIN events')
         /\ \A i \in DOMAIN events' : i \in Nat /\ i >= 1 /\ i + 1 \in DOMAIN events /\ events'[i] = events[i + 1]
<1>1. events \in Seq(Events) BY DEF JumpTypeOK
<1> QED BY <1>1, Taken

LEMMA RequestTaken ==
  ASSUME JumpTypeOK, requests # <<>>, requests' = Tail(requests)
  PROVE  /\ Head(requests) = requests[1] /\ 1 \in DOMAIN requests /\ requests[1] \in Requests
         /\ requests' \in Seq(Requests)
         /\ \A i \in DOMAIN requests : i \in Nat /\ i >= 1 /\ (i # 1 => i - 1 \in DOMAIN requests')
         /\ \A i \in DOMAIN requests' : i \in Nat /\ i >= 1 /\ i + 1 \in DOMAIN requests
                                        /\ requests'[i] = requests[i + 1]
<1>1. requests \in Seq(Requests) BY DEF JumpTypeOK
<1> QED BY <1>1, Taken

\* Every open window is told of once and nobody else.
LEMMA EachIs ==
  ASSUME JumpTypeOK, NEW t \in {"toplevel", "title", "state"}, NEW S
  PROVE  /\ Each(t, S) \in Seq(Events)
         /\ \A i \in DOMAIN Each(t, S) : \E w \in open : Each(t, S)[i] = About(t, w, w \in S)
         /\ \A w \in open : \E i \in DOMAIN Each(t, S) : Each(t, S)[i] = About(t, w, w \in S)
<1> DEFINE n == Cardinality(open)
           f == SetToSeq(open)
<1>1. open \subseteq Windows /\ IsFiniteSet(open)
  <2>1. open \subseteq Windows BY DEF JumpTypeOK
  <2> QED BY <2>1, JumpAssumption, FS_Subset
<1>2. n \in Nat /\ ExistsBijection(1..n, open) BY <1>1, FS_CardinalityType
<1>3. PICK g \in [1..n -> open] : IsInjective(g)
  <2>1. PICK g : g \in Bijection(1..n, open) BY <1>2 DEF ExistsBijection
  <2>2. g \in [1..n -> open] /\ IsInjective(g) BY <2>1 DEF Bijection, Injection
  <2> QED BY <2>2
<1>4. f \in [1..n -> open] /\ IsInjective(f) BY <1>3 DEF SetToSeq
<1> HIDE DEF f
<1>5. f \in Injection(1..n, open) BY <1>4 DEF Injection
<1>6. Cardinality(1..n) = n
  <2>1. 1 \in Int /\ n \in Int BY <1>2
  <2> HIDE DEF n
  <2>2. Cardinality(1..n) = IF 1 > n THEN 0 ELSE n - 1 + 1 BY <2>1, FS_Interval
  <2> QED BY <1>2, <2>2
<1>7. f \in Surjection(1..n, open) BY <1>1, <1>5, <1>6, FS_Injection
<1>8. \A w \in open : \E i \in 1..n : f[i] = w BY <1>7 DEF Surjection
<1>9. Each(t, S) = [i \in 1..n |-> About(t, f[i], f[i] \in S)] BY DEF Each, f
<1> HIDE DEF n
<1>10. \A w \in open : About(t, w, w \in S) \in Events BY <1>1 DEF About, Events
<1>11. Each(t, S) \in [1..n -> Events] BY <1>4, <1>9, <1>10
<1>12. Each(t, S) \in Seq(Events) BY <1>2, <1>11, SeqDef
<1>13. \A i \in DOMAIN Each(t, S) : \E w \in open : Each(t, S)[i] = About(t, w, w \in S) BY <1>4, <1>9
<1>14. \A w \in open : \E i \in DOMAIN Each(t, S) : Each(t, S)[i] = About(t, w, w \in S)
  <2> SUFFICES ASSUME NEW w \in open
               PROVE  \E i \in DOMAIN Each(t, S) : Each(t, S)[i] = About(t, w, w \in S)
    OBVIOUS
  <2>1. PICK i \in 1..n : f[i] = w BY <1>8
  <2>2. i \in DOMAIN Each(t, S) /\ Each(t, S)[i] = About(t, w, w \in S) BY <1>9, <2>1
  <2> QED BY <2>2
<1> QED BY <1>12, <1>13, <1>14

\* What a bind is answered with: every open window before its title, no done.
LEMMA AnnouncedIs ==
  ASSUME JumpTypeOK
  PROVE  /\ AnnounceAll \in Seq(Events)
         /\ \A i \in DOMAIN AnnounceAll : \E t \in {"toplevel", "title", "state"}, w \in open, S \in {open, matching, focused} :
              AnnounceAll[i] = About(t, w, w \in S) /\ (t = "title" => S = matching)
         /\ \A w \in open : \E i, k \in DOMAIN AnnounceAll :
              /\ i < k /\ AnnounceAll[i] = About("toplevel", w, w \in open)
              /\ AnnounceAll[k] = About("title", w, w \in matching)
<1> DEFINE a == Each("toplevel", open)
           b == Each("title", matching)
           c == Each("state", focused)
<1>1. /\ a \in Seq(Events)
      /\ \A i \in DOMAIN a : \E w \in open : a[i] = About("toplevel", w, w \in open)
      /\ \A w \in open : \E i \in DOMAIN a : a[i] = About("toplevel", w, w \in open)
  BY EachIs
<1>2. /\ b \in Seq(Events)
      /\ \A i \in DOMAIN b : \E w \in open : b[i] = About("title", w, w \in matching)
      /\ \A w \in open : \E i \in DOMAIN b : b[i] = About("title", w, w \in matching)
  BY EachIs
<1>3. /\ c \in Seq(Events)
      /\ \A i \in DOMAIN c : \E w \in open : c[i] = About("state", w, w \in focused)
  BY EachIs
<1> HIDE DEF a, b, c
<1> DEFINE ab == a \o b
           abc == ab \o c
<1>4. /\ ab \in Seq(Events) /\ Len(a) \in Nat
      /\ \A i \in DOMAIN a : i \in Nat /\ i <= Len(a) /\ i \in DOMAIN ab /\ ab[i] = a[i]
      /\ \A j \in DOMAIN b : j \in Nat /\ j >= 1 /\ Len(a) + j \in DOMAIN ab /\ ab[Len(a) + j] = b[j]
      /\ \A i \in DOMAIN ab :
           i \in DOMAIN a \/ (i \in Nat /\ i > Len(a) /\ i - Len(a) \in DOMAIN b /\ ab[i] = b[i - Len(a)])
  <2>1. a \in Seq(Events) /\ b \in Seq(Events) BY <1>1, <1>2
  <2> QED BY <2>1, Sent
<1> HIDE DEF ab
<1>5. /\ abc \in Seq(Events)
      /\ \A i \in DOMAIN ab : i \in Nat /\ i <= Len(ab) /\ i \in DOMAIN abc /\ abc[i] = ab[i]
      /\ \A i \in DOMAIN abc :
           i \in DOMAIN ab \/ (i \in Nat /\ i > Len(ab) /\ i - Len(ab) \in DOMAIN c /\ abc[i] = c[i - Len(ab)])
  <2>1. ab \in Seq(Events) /\ c \in Seq(Events) BY <1>3, <1>4
  <2> QED BY <2>1, Sent
<1>6. AnnounceAll = abc BY DEF AnnounceAll, a, b, c, ab
<1> HIDE DEF abc
<1>7. ASSUME NEW i \in DOMAIN abc
      PROVE  \E t \in {"toplevel", "title", "state"}, w \in open, S \in {open, matching, focused} :
               abc[i] = About(t, w, w \in S) /\ (t = "title" => S = matching)
  <2>1. CASE i \in DOMAIN ab /\ i \in DOMAIN a
    <3>1. PICK w \in open : a[i] = About("toplevel", w, w \in open) BY <1>1, <2>1
    <3>2. abc[i] = About("toplevel", w, w \in open) BY <1>4, <1>5, <2>1, <3>1
    <3> QED BY <3>2
  <2>2. CASE i \in DOMAIN ab /\ i \notin DOMAIN a
    <3>1. i - Len(a) \in DOMAIN b /\ abc[i] = b[i - Len(a)] BY <1>4, <1>5, <2>2
    <3>2. PICK w \in open : b[i - Len(a)] = About("title", w, w \in matching) BY <1>2, <3>1
    <3> QED BY <3>1, <3>2
  <2>3. CASE i \notin DOMAIN ab
    <3>1. i - Len(ab) \in DOMAIN c /\ abc[i] = c[i - Len(ab)] BY <1>5, <2>3
    <3>2. PICK w \in open : c[i - Len(ab)] = About("state", w, w \in focused) BY <1>3, <3>1
    <3> QED BY <3>1, <3>2
  <2> QED BY <2>1, <2>2, <2>3
<1>8. ASSUME NEW w \in open
      PROVE  \E i, k \in DOMAIN abc :
               /\ i < k /\ abc[i] = About("toplevel", w, w \in open)
               /\ abc[k] = About("title", w, w \in matching)
  <2>1. PICK i \in DOMAIN a : a[i] = About("toplevel", w, w \in open) BY <1>1
  <2>2. PICK j \in DOMAIN b : b[j] = About("title", w, w \in matching) BY <1>2
  <2>3. i \in DOMAIN abc /\ abc[i] = a[i] BY <1>4, <1>5
  <2>4. Len(a) + j \in DOMAIN abc /\ abc[Len(a) + j] = b[j] BY <1>4, <1>5
  <2>5. i < Len(a) + j BY <1>4
  <2> QED BY <2>1, <2>2, <2>3, <2>4, <2>5
<1> QED BY <1>5, <1>6, <1>7, <1>8

LEMMA OfferIs ==
  /\ Offer \in Seq(Events)
  /\ \A i \in DOMAIN Offer : Offer[i].type \in {"seat", "manager"} /\ Offer[i].window = Nobody
<1> DEFINE a == IF "seat" \in globals THEN <<Msg("seat")>> ELSE <<>>
           b == IF "manager" \in globals THEN <<Msg("manager")>> ELSE <<>>
<1>1. \A t \in {"seat", "manager"} : Msg(t) \in Events /\ Msg(t).type = t /\ Msg(t).window = Nobody
  BY DEF Msg, Events
<1>2. a \in Seq(Events) /\ \A i \in DOMAIN a : a[i].type \in {"seat", "manager"} /\ a[i].window = Nobody
  <2>1. CASE "seat" \in globals
    <3>1. a = <<Msg("seat")>> BY <2>1
    <3> QED BY <1>1, <3>1
  <2>2. CASE "seat" \notin globals
    <3>1. a = <<>> BY <2>2
    <3> QED BY <3>1
  <2> QED BY <2>1, <2>2
<1>3. b \in Seq(Events) /\ \A i \in DOMAIN b : b[i].type \in {"seat", "manager"} /\ b[i].window = Nobody
  <2>1. CASE "manager" \in globals
    <3>1. b = <<Msg("manager")>> BY <2>1
    <3> QED BY <1>1, <3>1
  <2>2. CASE "manager" \notin globals
    <3>1. b = <<>> BY <2>2
    <3> QED BY <3>1
  <2> QED BY <2>1, <2>2
<1>4. Offer = a \o b BY DEF Offer
<1> HIDE DEF a, b
<1> DEFINE ab == a \o b
<1>5. /\ ab \in Seq(Events)
      /\ \A i \in DOMAIN a : i \in DOMAIN ab /\ ab[i] = a[i]
      /\ \A i \in DOMAIN ab : i \in DOMAIN a \/ (i - Len(a) \in DOMAIN b /\ ab[i] = b[i - Len(a)])
  BY <1>2, <1>3, Sent
<1> HIDE DEF ab
<1>6. \A i \in DOMAIN ab : ab[i].type \in {"seat", "manager"} /\ ab[i].window = Nobody
  BY <1>2, <1>3, <1>5
<1> QED BY <1>4, <1>5, <1>6 DEF ab

LEMMA DoneIs == Msg("done") \in Events /\ <<Msg("done")>> \in Seq(Events)
BY DEF Msg, Events

LEMMA RequestsAre ==
  /\ \A t \in {"registry", "sync", "bind"} : Msg(t) \in Requests /\ Msg(t).type = t
  /\ \A w \in Windows : About("activate", w, TRUE) \in Requests
BY DEF Msg, About, Requests


\* The answer to a change of a window: never a done, never against a steady one.
Fits(es, st) ==
  /\ es \in Seq(Events)
  /\ \A i \in DOMAIN es :
       /\ es[i].type \in {"toplevel", "title", "state", "closed"}
       /\ es[i].window \in st => es[i].type # "closed" /\ (es[i].type = "title" => es[i].yes)

LEMMA EventIs ==
  ASSUME NEW w \in Windows, NEW t \in {"toplevel", "title", "state", "closed"}, NEW y \in BOOLEAN
  PROVE  About(t, w, y) \in Events /\ About(t, w, y).type = t
         /\ About(t, w, y).window = w /\ About(t, w, y).yes = y
BY DEF About, Events

LEMMA OneFits ==
  ASSUME NEW e \in Events, NEW st, e.type \in {"toplevel", "title", "state", "closed"},
         e.window \in st => e.type # "closed" /\ (e.type = "title" => e.yes)
  PROVE  Fits(<<e>>, st)
<1> DEFINE es == <<e>>
<1>1. es \in Seq(Events) /\ DOMAIN es = {1} /\ es[1] = e OBVIOUS
<1> HIDE DEF es
<1>2. Fits(es, st) BY <1>1 DEF Fits
<1> QED BY <1>2 DEF es

LEMMA ToldIs ==
  ASSUME JumpTypeOK, WindowsChange
  PROVE  \E es : Fits(es, steady') /\ events' = events \o es /\ (~told => es = <<>>)
<1>1. ASSUME NEW es, Fits(es, steady'), Tell(es)
      PROVE  \E x : Fits(x, steady') /\ events' = events \o x /\ (~told => x = <<>>)
  <2>1. CASE told
    <3>1. events' = events \o es BY <1>1, <2>1 DEF Tell
    <3> QED BY <1>1, <2>1, <3>1
  <2>2. CASE ~told
    <3>1. events' = events BY <1>1, <2>2 DEF Tell
    <3>2. events \in Seq(Events) BY DEF JumpTypeOK
    <3>3. events' = events \o <<>> BY <3>1, <3>2, ConcatEmptySeq
    <3>4. Fits(<<>>, steady') BY DEF Fits
    <3> QED BY <3>3, <3>4
  <2> QED BY <2>1, <2>2
<1>2. PICK w \in Windows :
       \/ /\ w \notin open /\ open' = open \cup {w} /\ UNCHANGED <<focused, steady>>
          /\ matching' \in {matching, matching \cup {w}}
          /\ Tell(Announce(w, w \in matching', FALSE))
       \/ /\ w \in open /\ open' = open \ {w} /\ focused' = focused \ {w}
          /\ matching' = matching \ {w} /\ steady' = steady \ {w}
          /\ Tell(<<About("closed", w, TRUE)>>)
       \/ /\ w \in open /\ UNCHANGED <<open, focused>>
          /\ matching' = (IF w \in matching THEN matching \ {w} ELSE matching \cup {w})
          /\ steady' = steady \cap matching'
          /\ Tell(<<About("title", w, w \in matching')>>)
       \/ /\ w \in open \ focused /\ focused' = {w} /\ UNCHANGED <<open, matching, steady>>
          /\ Tell(Each("state", {w}))
  BY Zenon DEF WindowsChange
<1>3. CASE w \notin open /\ UNCHANGED <<focused, steady>> /\ Tell(Announce(w, w \in matching', FALSE))
  <2> DEFINE y == w \in matching'
  <2>1. y \in BOOLEAN OBVIOUS
  <2>2. Tell(Announce(w, y, FALSE)) BY <1>3
  <2>3. w \notin steady' BY <1>3 DEF JumpTypeOK
  <2> HIDE DEF y
  <2> DEFINE e1 == About("toplevel", w, TRUE)
             e2 == About("title", w, y)
             e3 == About("state", w, FALSE)
  <2>4. e1 \in Events /\ e1.type = "toplevel" /\ e1.window = w BY EventIs
  <2>5. e2 \in Events /\ e2.type = "title" /\ e2.window = w BY EventIs, <2>1
  <2>6. e3 \in Events /\ e3.type = "state" /\ e3.window = w BY EventIs
  <2>7. Announce(w, y, FALSE) = <<e1, e2, e3>> BY DEF Announce
  <2> HIDE DEF e1, e2, e3
  <2> DEFINE es == <<e1, e2, e3>>
  <2>8. es \in Seq(Events) BY <2>4, <2>5, <2>6
  <2>9. DOMAIN es = 1..3 /\ es[1] = e1 /\ es[2] = e2 /\ es[3] = e3 OBVIOUS
  <2>10. 1..3 = {1, 2, 3} OBVIOUS
  <2> HIDE DEF es
  <2>11. \A i \in DOMAIN es : es[i].type \in {"toplevel", "title", "state"} /\ es[i].window = w
    BY <2>4, <2>5, <2>6, <2>9, <2>10
  <2>12. Fits(es, steady') BY <2>3, <2>8, <2>11 DEF Fits
  <2>13. Fits(Announce(w, y, FALSE), steady') BY <2>7, <2>12 DEF es
  <2> QED BY <1>1, <2>2, <2>13
<1>4. CASE w \in open /\ steady' = steady \ {w} /\ Tell(<<About("closed", w, TRUE)>>)
  <2>1. w \notin steady' BY <1>4
  <2> DEFINE e == About("closed", w, TRUE)
             st == steady'
  <2>2. e \in Events /\ e.type = "closed" /\ e.window = w BY EventIs
  <2>3. w \notin st BY <2>1
  <2>4. Tell(<<e>>) BY <1>4
  <2> HIDE DEF e, st
  <2>5. Fits(<<e>>, st) BY <2>2, <2>3, OneFits
  <2>6. Fits(<<e>>, steady') BY <2>5 DEF st
  <2> QED BY <1>1, <2>4, <2>6
<1>5. CASE w \in open /\ steady' = steady \cap matching' /\ Tell(<<About("title", w, w \in matching')>>)
  <2> DEFINE y == w \in matching'
  <2>1. y \in BOOLEAN OBVIOUS
  <2>2. y \/ w \notin steady' BY <1>5
  <2>3. Tell(<<About("title", w, y)>>) BY <1>5
  <2> HIDE DEF y
  <2>4. About("title", w, y) \in Events /\ About("title", w, y).type = "title"
        /\ About("title", w, y).window = w /\ About("title", w, y).yes = y
    BY EventIs, <2>1
  <2>5. Fits(<<About("title", w, y)>>, steady') BY <2>2, <2>4, OneFits
  <2> QED BY <1>1, <2>3, <2>5
<1>6. CASE Tell(Each("state", {w}))
  <2> DEFINE es == Each("state", {w})
  <2>1. es \in Seq(Events) /\ \A i \in DOMAIN es : \E v \in open : es[i] = About("state", v, v \in {w})
    BY EachIs
  <2>2. \A v, y : About("state", v, y).type = "state" BY DEF About
  <2> HIDE DEF es
  <2>3. \A i \in DOMAIN es : es[i].type = "state" BY <2>1, <2>2
  <2>4. Fits(es, steady') BY <2>1, <2>3 DEF Fits
  <2>5. Fits(Each("state", {w}), steady') BY <2>4 DEF es
  <2> QED BY <1>1, <1>6, <2>5
<1> QED BY <1>2, <1>3, <1>4, <1>5, <1>6

-----------------------------------------------------------------------------
(* The list.                                                                *)

LEMMA TitledIs ==
  ASSUME JumpTypeOK, NEW w \in Windows, NEW y \in BOOLEAN
  PROVE  /\ Titled(w, y) \in Seq(Entries) /\ DOMAIN Titled(w, y) = DOMAIN windows
         /\ \A i \in DOMAIN windows :
              /\ Titled(w, y)[i].window = windows[i].window
              /\ Titled(w, y)[i].matches = IF windows[i].window = w THEN y ELSE windows[i].matches
<1> DEFINE t == Titled(w, y)
<1>1. windows \in Seq(Entries) BY DEF JumpTypeOK
<1>2. Len(windows) \in Nat /\ DOMAIN windows = 1..Len(windows) /\ \A i \in DOMAIN windows : windows[i] \in Entries
  BY <1>1, LenProperties, ElementOfSeq
<1>3. t = [i \in DOMAIN windows |->
             IF windows[i].window = w THEN [windows[i] EXCEPT !.matches = y] ELSE windows[i]]
  BY DEF Titled
<1> HIDE DEF t
<1>4. \A e \in Entries : /\ [e EXCEPT !.matches = y] \in Entries
                         /\ [e EXCEPT !.matches = y].window = e.window
                         /\ [e EXCEPT !.matches = y].matches = y
  BY DEF Entries
<1>5. ASSUME NEW i \in DOMAIN windows
      PROVE  /\ t[i] \in Entries /\ t[i].window = windows[i].window
             /\ t[i].matches = IF windows[i].window = w THEN y ELSE windows[i].matches
  <2>1. windows[i] \in Entries BY <1>2
  <2>2. CASE windows[i].window = w
    <3>1. t[i] = [windows[i] EXCEPT !.matches = y] BY <1>3, <2>2
    <3> QED BY <1>4, <2>1, <2>2, <3>1
  <2>3. CASE windows[i].window # w
    <3>1. t[i] = windows[i] BY <1>3, <2>3
    <3> QED BY <2>1, <2>3, <3>1
  <2> QED BY <2>2, <2>3
<1>6. DOMAIN t = DOMAIN windows BY <1>3
<1>7. t \in [1..Len(windows) -> Entries] BY <1>2, <1>3, <1>5
<1>8. t \in Seq(Entries) BY <1>2, <1>7, SeqDef
<1> QED BY <1>5, <1>6, <1>8 DEF t

LEMMA StatedIs ==
  ASSUME JumpTypeOK, NEW w \in Windows, NEW y \in BOOLEAN
  PROVE  /\ Stated(w, y) \in Seq(Entries) /\ DOMAIN Stated(w, y) = DOMAIN windows
         /\ \A i \in DOMAIN windows :
              /\ Stated(w, y)[i].window = windows[i].window
              /\ Stated(w, y)[i].matches = windows[i].matches
<1> DEFINE t == Stated(w, y)
<1>1. windows \in Seq(Entries) BY DEF JumpTypeOK
<1>2. Len(windows) \in Nat /\ DOMAIN windows = 1..Len(windows) /\ \A i \in DOMAIN windows : windows[i] \in Entries
  BY <1>1, LenProperties, ElementOfSeq
<1>3. t = [i \in DOMAIN windows |->
             IF windows[i].window = w THEN [windows[i] EXCEPT !.activated = y] ELSE windows[i]]
  BY DEF Stated
<1> HIDE DEF t
<1>4. \A e \in Entries : /\ [e EXCEPT !.activated = y] \in Entries
                         /\ [e EXCEPT !.activated = y].window = e.window
                         /\ [e EXCEPT !.activated = y].matches = e.matches
  BY DEF Entries
<1>5. ASSUME NEW i \in DOMAIN windows
      PROVE  t[i] \in Entries /\ t[i].window = windows[i].window /\ t[i].matches = windows[i].matches
  <2>1. windows[i] \in Entries BY <1>2
  <2>2. CASE windows[i].window = w
    <3>1. t[i] = [windows[i] EXCEPT !.activated = y] BY <1>3, <2>2
    <3> QED BY <1>4, <2>1, <3>1
  <2>3. CASE windows[i].window # w
    <3>1. t[i] = windows[i] BY <1>3, <2>3
    <3> QED BY <2>1, <3>1
  <2> QED BY <2>2, <2>3
<1>6. DOMAIN t = DOMAIN windows BY <1>3
<1>7. t \in [1..Len(windows) -> Entries] BY <1>2, <1>3, <1>5
<1>8. t \in Seq(Entries) BY <1>2, <1>7, SeqDef
<1> QED BY <1>5, <1>6, <1>8 DEF t

\* A closed window leaves the others on the list.
LEMMA RemovedIs ==
  ASSUME JumpTypeOK, NEW i \in DOMAIN windows
  PROVE  /\ RemoveAt(windows, i) \in Seq(Entries)
         /\ \A j \in DOMAIN windows : j # i =>
              \E k \in DOMAIN RemoveAt(windows, i) : RemoveAt(windows, i)[k] = windows[j]
<1> DEFINE n == Len(windows)
           a == SubSeq(windows, 1, i - 1)
           b == SubSeq(windows, i + 1, n)
<1>1. windows \in Seq(Entries) BY DEF JumpTypeOK
<1>2. n \in Nat /\ DOMAIN windows = 1..n /\ i \in 1..n BY <1>1, LenProperties
<1> HIDE DEF n
<1>3. /\ a \in Seq(Entries) /\ Len(a) = i - 1
      /\ \A j \in 1..i - 1 : a[j] = windows[j]
  <2>1. 1 \in 1..n + 1 /\ i - 1 \in 1 - 1..n /\ (IF 1 <= i - 1 THEN (i - 1) - 1 + 1 ELSE 0) = i - 1 BY <1>2
  <2>2. \A j \in 1..i - 1 : 1 + j - 1 = j /\ j \in 1..(i - 1) - 1 + 1 BY <1>2
  <2> QED BY <1>1, <2>1, <2>2, SubSeqProperties DEF n
<1>4. /\ b \in Seq(Entries) /\ Len(b) = n - i
      /\ \A j \in 1..n - i : b[j] = windows[i + j]
  <2>1. i + 1 \in 1..n + 1 /\ n \in (i + 1) - 1..n /\ (IF i + 1 <= n THEN n - (i + 1) + 1 ELSE 0) = n - i BY <1>2
  <2>2. \A j \in 1..n - i : (i + 1) + j - 1 = i + j /\ j \in 1..n - (i + 1) + 1 BY <1>2
  <2> QED BY <1>1, <2>1, <2>2, SubSeqProperties DEF n
<1>5. RemoveAt(windows, i) = a \o b BY DEF RemoveAt, n
<1>6. DOMAIN a = 1..i - 1 /\ DOMAIN b = 1..n - i BY <1>3, <1>4, LenProperties
<1> HIDE DEF a, b
<1> DEFINE c == a \o b
<1>7. /\ c \in Seq(Entries)
      /\ \A j \in DOMAIN a : j \in DOMAIN c /\ c[j] = a[j]
      /\ \A j \in DOMAIN b : Len(a) + j \in DOMAIN c /\ c[Len(a) + j] = b[j]
  BY <1>3, <1>4, Sent
<1> HIDE DEF c
<1>8. ASSUME NEW j \in DOMAIN windows, j # i PROVE \E k \in DOMAIN c : c[k] = windows[j]
  <2>1. CASE j < i
    <3>1. j \in 1..i - 1 BY <1>2, <2>1
    <3> QED BY <1>3, <1>6, <1>7, <3>1
  <2>2. CASE j > i
    <3>1. j - i \in 1..n - i /\ i + (j - i) = j BY <1>2, <2>2
    <3> QED BY <1>4, <1>6, <1>7, <3>1
  <2>3. j < i \/ j > i BY <1>2, <1>8
  <2> QED BY <2>1, <2>2, <2>3
<1> QED BY <1>5, <1>7, <1>8 DEF c

-----------------------------------------------------------------------------
(* Types.                                                                   *)

LEMMA HeadEvent ==
  ASSUME JumpTypeOK, events # <<>>, NEW e, e = Head(events)
  PROVE  /\ e \in Events /\ e.yes \in BOOLEAN
         /\ e.type \in {"seat", "manager", "done"} => e.window = Nobody
         /\ e.type \in {"toplevel", "title", "state", "closed"} => e.window \in Windows
<1>1. events \in Seq(Events) BY DEF JumpTypeOK
<1>2. e \in Events BY <1>1, HeadTailProperties
<1>3. \A x \in Events : /\ x.yes \in BOOLEAN
                        /\ x.type \in {"seat", "manager", "done"} => x.window = Nobody
                        /\ x.type \in {"toplevel", "title", "state", "closed"} => x.window \in Windows
  BY DEF Events
<1> QED BY <1>2, <1>3

LEMMA Least ==
  ASSUME NEW T, T \subseteq Nat, T # {}
  PROVE  \E x \in T : \A y \in T : x <= y
<1> DEFINE R == {ss \in Nat \X Nat : ss[1] < ss[2]}
<1>1. IsWellFoundedOn(R, Nat) BY NatLessThanWellFounded DEF OpToRel
<1> HIDE DEF R
<1>2. PICK x \in T : \A y \in T : ~ (<<y, x>> \in R) BY <1>1, WFMin
<1>3. \A y \in T : ~(y < x) BY <1>2 DEF R
<1> QED BY <1>3

LEMMA SelectedIs ==
  ASSUME JumpTypeOK, Selected # Nobody
  PROVE  /\ Selected \in Windows
         /\ \E i \in DOMAIN windows :
              /\ windows[i].window = Selected /\ windows[i].matches
              /\ \A j \in DOMAIN windows : windows[j].matches /\ windows[j].activated => windows[i].activated
<1> DEFINE matches == {i \in DOMAIN windows : windows[i].matches}
           chosen  == {i \in matches : windows[i].activated}
           best    == IF \E i \in matches : windows[i].activated THEN chosen ELSE matches
<1>1. windows \in Seq(Entries) BY DEF JumpTypeOK
<1>2. DOMAIN windows \subseteq Nat /\ \A i \in DOMAIN windows : windows[i] \in Entries
  <2>1. DOMAIN windows = 1..Len(windows) /\ Len(windows) \in Nat BY <1>1, LenProperties
  <2>2. \A i \in DOMAIN windows : windows[i] \in Entries BY <1>1, <2>1, ElementOfSeq
  <2> QED BY <2>1, <2>2
<1>3. Selected = IF best = {} THEN Nobody ELSE windows[Min(best)].window BY DEF Selected
<1>4. best # {} /\ best \subseteq matches BY <1>3
<1>5. Min(best) \in best
  <2>1. best \subseteq Nat BY <1>2, <1>4
  <2> HIDE DEF best
  <2>2. PICK n \in best : \A m \in best : n <= m
    BY <1>4, <2>1, Least
  <2> QED BY <2>2 DEF Min
<1>6. Min(best) \in DOMAIN windows /\ windows[Min(best)].matches BY <1>4, <1>5
<1>7. Selected = windows[Min(best)].window BY <1>3, <1>4
<1>8. Selected \in Windows
  <2>1. windows[Min(best)] \in Entries BY <1>2, <1>6
  <2>2. \A e \in Entries : e.window \in Windows BY DEF Entries
  <2> QED BY <1>7, <2>1, <2>2
<1>9. \A j \in DOMAIN windows : windows[j].matches /\ windows[j].activated => windows[Min(best)].activated
  <2>1. CASE \E i \in matches : windows[i].activated BY <1>5, <2>1
  <2>2. CASE ~\E i \in matches : windows[i].activated BY <2>2
  <2> QED BY <2>1, <2>2
<1> HIDE DEF best
<1> QED BY <1>6, <1>7, <1>8, <1>9

\* No window chosen: none on the list matches.
LEMMA NobodyListed ==
  ASSUME JumpTypeOK, Selected = Nobody
  PROVE  \A w : ~Listed(w)
<1> DEFINE matches == {i \in DOMAIN windows : windows[i].matches}
           chosen  == {i \in matches : windows[i].activated}
           best    == IF \E i \in matches : windows[i].activated THEN chosen ELSE matches
<1>1. windows \in Seq(Entries) BY DEF JumpTypeOK
<1>2. DOMAIN windows \subseteq Nat /\ \A i \in DOMAIN windows : windows[i] \in Entries
  <2>1. DOMAIN windows = 1..Len(windows) /\ Len(windows) \in Nat BY <1>1, LenProperties
  <2>2. \A i \in DOMAIN windows : windows[i] \in Entries BY <1>1, <2>1, ElementOfSeq
  <2> QED BY <2>1, <2>2
<1>3. Selected = IF best = {} THEN Nobody ELSE windows[Min(best)].window BY DEF Selected
<1>4. CASE best = {}
  <2>1. matches = {} BY <1>4
  <2> QED BY <2>1 DEF Listed
<1>5. CASE best # {}
  <2>1. best \subseteq Nat /\ best \subseteq DOMAIN windows BY <1>2
  <2> HIDE DEF best
  <2>2. PICK n \in best : \A m \in best : n <= m
    BY <1>5, <2>1, Least
  <2>3. Min(best) \in best BY <2>2 DEF Min
  <2>4. windows[Min(best)].window \in Windows
    <3>1. windows[Min(best)] \in Entries BY <1>2, <2>1, <2>3
    <3>2. \A e \in Entries : e.window \in Windows BY DEF Entries
    <3> QED BY <3>1, <3>2
  <2> QED BY <1>3, <1>5, <2>4, JumpAssumption
<1> QED BY <1>4, <1>5

LEMMA JumpTyped ==
  ASSUME JumpTypeOK, JumpNext
  PROVE  JumpTypeOK'
<1> USE DEF JumpTypeOK
<1>1. requests \in Seq(Requests) /\ events \in Seq(Events) /\ windows \in Seq(Entries) OBVIOUS
<1>2. CASE Connect
  <2> DEFINE r == <<Msg("registry"), Msg("sync")>>
  <2>1. r \in Seq(Requests) BY RequestsAre
  <2>2. requests' = r BY <1>2 DEF Connect
  <2>3. requests' \in Seq(Requests) BY <2>1, <2>2
  <2>4. matching' \subseteq open' /\ open' \subseteq Windows /\ focused' \subseteq open' /\ steady' \subseteq open'
        /\ globals' \subseteq {"seat", "manager"} /\ list_only' \in BOOLEAN
        /\ jump' = "first"
    BY <1>2 DEF Connect
  <2>5. UNCHANGED <<seat, manager, windows, target, spawned, events, told, changes>> BY <1>2 DEF Connect
  <2>6. matching' \subseteq Windows BY <2>4
  <2> QED BY <2>3, <2>4, <2>5, <2>6
<1>3. CASE RoundtripDone
  <2>1. events' \in Seq(Events) BY <1>1, <1>3, HeadTailProperties DEF RoundtripDone
  <2>2. requests' \in Seq(Requests)
    <3>1. Append(requests, Msg("sync")) \in Seq(Requests) BY <1>1, RequestsAre, AppendProperties
    <3> QED BY <1>1, <1>3, <3>1 DEF RoundtripDone
  <2>3. jump' \in {"second", "choose", "exit"} BY <1>3 DEF RoundtripDone, AfterRoundtrip
  <2>4. UNCHANGED <<list_only, seat, manager, windows, target, spawned,
                    globals, open, matching, focused, told, changes, steady>>
    BY <1>3 DEF RoundtripDone, clientVars, compositorVars
  <2> QED BY <2>1, <2>2, <2>3, <2>4
<1>4. CASE Dispatch
  <2> DEFINE e == Head(events)
  <2>0. /\ events # <<>> /\ events' = Tail(events)
        /\ UNCHANGED <<jump, list_only, target, spawned, globals, open, matching, focused, told, changes, steady>>
        /\ Global \/ Toplevel
    BY <1>4 DEF Dispatch, compositorVars
  <2>1. events' \in Seq(Events) BY <1>1, <2>0, HeadTailProperties
  <2>2. e.yes \in BOOLEAN /\ (e.type \in {"toplevel", "title", "state", "closed"} => e.window \in Windows)
    BY <2>0, HeadEvent
  <2>3. seat' \in BOOLEAN /\ manager' \in BOOLEAN /\ requests' \in Seq(Requests) /\ windows' \in Seq(Entries)
    <3>1. CASE Global
      <4>1. Append(requests, Msg("bind")) \in Seq(Requests) BY <1>1, RequestsAre, AppendProperties
      <4>2. requests' \in Seq(Requests) /\ windows' = windows BY <1>1, <3>1, <4>1 DEF Global
      <4>3. seat' \in BOOLEAN /\ manager' \in BOOLEAN BY <3>1 DEF Global
      <4> QED BY <1>1, <4>2, <4>3
    <3>2. CASE Toplevel
      <4>0. UNCHANGED <<seat, manager, requests>> BY <3>2 DEF Toplevel
      <4>1. CASE e.type = "toplevel"
        <5>1. windows' = <<Window(e.window)>> \o windows BY <3>2, <4>1 DEF Toplevel
        <5>2. e.window \in Windows BY <2>2, <4>1
        <5>3. Window(e.window) \in Entries BY <5>2 DEF Window, Entries
        <5>4. <<Window(e.window)>> \in Seq(Entries) BY <5>3
        <5> HIDE DEF e
        <5>5. windows' \in Seq(Entries) BY <1>1, <5>1, <5>4, ConcatProperties
        <5> QED BY <1>1, <4>0, <5>5
      <4>2. CASE e.type = "title"
        <5>1. windows' = Titled(e.window, e.yes) BY <3>2, <4>2 DEF Toplevel
        <5>2. windows' \in Seq(Entries) BY <2>2, <4>2, <5>1, TitledIs
        <5> QED BY <4>0, <5>2
      <4>3. CASE e.type = "state"
        <5>1. windows' = Stated(e.window, e.yes) BY <3>2, <4>3 DEF Toplevel
        <5>2. windows' \in Seq(Entries) BY <2>2, <4>3, <5>1, StatedIs
        <5> QED BY <4>0, <5>2
      <4>4. CASE e.type = "closed"
        <5>1. PICK i \in DOMAIN windows : windows' = RemoveAt(windows, i) BY <3>2, <4>4 DEF Toplevel
        <5>2. windows' \in Seq(Entries) BY <5>1, RemovedIs
        <5> QED BY <4>0, <5>2
      <4> QED BY <3>2, <4>1, <4>2, <4>3, <4>4 DEF Toplevel
    <3> QED BY <2>0, <3>1, <3>2
  <2> QED BY <2>0, <2>1, <2>3
<1>5. CASE ConnectionLost
  BY <1>5 DEF ConnectionLost, clientVars, compositorVars
<1>6. CASE MissingProtocols
  BY <1>6 DEF MissingProtocols, clientVars, compositorVars
<1>7. CASE ListWindows
  BY <1>7 DEF ListWindows, clientVars, compositorVars
<1>8. CASE Activate
  <2>0. /\ Selected # Nobody /\ target' = Selected /\ jump' = "last"
        /\ requests' = requests \o <<About("activate", Selected, TRUE), Msg("sync")>>
        /\ UNCHANGED <<list_only, seat, manager, windows, spawned, events,
                       globals, open, matching, focused, told, changes, steady>>
    BY <1>8 DEF Activate, compositorVars
  <2>1. Selected \in Windows BY <2>0, SelectedIs
  <2> DEFINE x == About("activate", Selected, TRUE)
             y == Msg("sync")
             r == <<x, y>>
  <2>2. x \in Requests /\ y \in Requests BY <2>1, RequestsAre
  <2>3. requests' = requests \o r BY <2>0
  <2> HIDE DEF x, y
  <2>5. r \in Seq(Requests) BY <2>2
  <2> HIDE DEF r
  <2>6. requests' \in Seq(Requests) BY <1>1, <2>3, <2>5, ConcatProperties
  <2>4. target' \in Windows BY <2>0, <2>1
  <2> QED BY <2>0, <2>4, <2>6
<1>9. CASE SpawnCommand
  BY <1>9 DEF SpawnCommand, compositorVars
<1>10. CASE ServeRequest
  <2>0. /\ requests # <<>> /\ requests' = Tail(requests)
        /\ UNCHANGED <<jump, list_only, seat, manager, windows, target, spawned,
                       globals, open, matching, changes, steady>>
    BY <1>10 DEF ServeRequest, clientVars
  <2>1. requests' \in Seq(Requests) BY <1>1, <2>0, HeadTailProperties
  <2>2. events' \in Seq(Events) /\ focused' \subseteq open /\ told' \in BOOLEAN
    <3>1. CASE UNCHANGED <<told, focused>> /\ events' = events \o Offer
      <4>1. events' \in Seq(Events) BY <1>1, <3>1, OfferIs, ConcatProperties
      <4> QED BY <3>1, <4>1
    <3>2. CASE UNCHANGED <<told, focused>> /\ events' = Append(events, Msg("done"))
      <4>1. events' \in Seq(Events) BY <1>1, <3>2, DoneIs, AppendProperties
      <4> QED BY <3>2, <4>1
    <3>3. CASE told' = TRUE /\ UNCHANGED focused /\ events' = events \o AnnounceAll
      <4>1. AnnounceAll \in Seq(Events) BY AnnouncedIs
      <4>2. events' \in Seq(Events) BY <1>1, <3>3, <4>1, ConcatProperties
      <4> QED BY <3>3, <4>2
    <3>4. CASE /\ UNCHANGED told /\ events' = events \o Each("state", focused')
               /\ focused' = (IF Head(requests).window \in open THEN {Head(requests).window} ELSE focused)
      <4>1. Each("state", focused') \in Seq(Events) BY EachIs
      <4>2. events' \in Seq(Events) BY <1>1, <3>4, <4>1, ConcatProperties
      <4>3. focused' \subseteq open BY <3>4
      <4> QED BY <3>4, <4>2, <4>3
    <3> QED BY <1>10, <3>1, <3>2, <3>3, <3>4 DEF ServeRequest
  <2> QED BY <2>0, <2>1, <2>2
<1>11. CASE WindowsChange
  <2>0. /\ changes < MaxChanges /\ changes' = changes + 1
        /\ UNCHANGED <<jump, list_only, seat, manager, windows, target, spawned, requests, globals, told>>
    BY <1>11 DEF WindowsChange, clientVars
  <2>1. changes' \in 0..MaxChanges BY <2>0, JumpAssumption
  <2>2. open' \subseteq Windows /\ focused' \subseteq open' /\ steady' \subseteq open'
        /\ matching' \subseteq Windows
    BY <1>11 DEF WindowsChange
  <2>3. events' \in Seq(Events)
    <3>1. PICK es : Fits(es, steady') /\ events' = events \o es BY <1>11, ToldIs
    <3>2. es \in Seq(Events) BY <3>1 DEF Fits
    <3> QED BY <1>1, <3>1, <3>2, ConcatProperties
  <2> QED BY <2>0, <2>1, <2>2, <2>3
<1> QED BY <1>2, <1>3, <1>4, <1>5, <1>6, <1>7, <1>8, <1>9, <1>10, <1>11 DEF JumpNext

-----------------------------------------------------------------------------
(* What is on its way stays in order.                                       *)

\* An event handled: the others move up.
LEMMA DonesTaken ==
  ASSUME JumpTypeOK, events # <<>>, events' = Tail(events)
  PROVE  /\ \A d \in Dones : d \in Nat /\ d >= 1
         /\ \A d \in Dones' : d \in Nat /\ d + 1 \in Dones
         /\ events[1].type = "done" <=> 1 \in Dones
<1>1. /\ 1 \in DOMAIN events
      /\ \A i \in DOMAIN events : i \in Nat /\ i >= 1
      /\ \A i \in DOMAIN events' : i \in Nat /\ i + 1 \in DOMAIN events /\ events'[i] = events[i + 1]
  BY EventTaken
<1>2. Dones' = {i \in DOMAIN events' : events'[i].type = "done"} BY DEF Dones
<1>3. \A d \in Dones' : d \in Nat /\ d + 1 \in Dones BY <1>1, <1>2 DEF Dones
<1> QED BY <1>1, <1>3 DEF Dones

LEMMA SyncsTaken ==
  ASSUME JumpTypeOK, requests # <<>>, requests' = Tail(requests)
  PROVE  /\ \A d \in Syncs : d \in Nat /\ d >= 1
         /\ \A d \in Syncs' : d \in Nat /\ d + 1 \in Syncs
         /\ Head(requests).type = "sync" <=> 1 \in Syncs
<1>1. /\ 1 \in DOMAIN requests /\ Head(requests) = requests[1]
      /\ \A i \in DOMAIN requests : i \in Nat /\ i >= 1
      /\ \A i \in DOMAIN requests' : i \in Nat /\ i + 1 \in DOMAIN requests /\ requests'[i] = requests[i + 1]
  BY RequestTaken
<1>2. Syncs' = {i \in DOMAIN requests' : requests'[i].type = "sync"} BY DEF Syncs
<1>3. \A d \in Syncs' : d \in Nat /\ d + 1 \in Syncs BY <1>1, <1>2 DEF Syncs
<1> QED BY <1>1, <1>3 DEF Syncs

\* Events sent: those before them are what they were, and no done comes unsent.
LEMMA DonesGrow ==
  ASSUME JumpTypeOK, NEW es \in Seq(Events), events' = events \o es
  PROVE  /\ Dones \subseteq Dones'
         /\ \A d \in Dones' :
              d \in Dones \/ (d \in Nat /\ d > Len(events) /\ d - Len(events) \in DOMAIN es
                              /\ es[d - Len(events)].type = "done")
<1>1. /\ \A i \in DOMAIN events : i \in DOMAIN events' /\ events'[i] = events[i]
      /\ \A i \in DOMAIN events' :
           \/ i \in DOMAIN events
           \/ i \in Nat /\ i > Len(events) /\ i - Len(events) \in DOMAIN es
              /\ events'[i] = es[i - Len(events)]
  BY EventsGrow
<1>2. Dones' = {i \in DOMAIN events' : events'[i].type = "done"} BY DEF Dones
<1>3. Dones \subseteq Dones' BY <1>1, <1>2 DEF Dones
<1>4. ASSUME NEW d \in Dones'
      PROVE  d \in Dones \/ (d \in Nat /\ d > Len(events) /\ d - Len(events) \in DOMAIN es
                             /\ es[d - Len(events)].type = "done")
  <2>1. d \in DOMAIN events' /\ events'[d].type = "done" BY <1>2
  <2>2. CASE d \in DOMAIN events BY <1>1, <2>1, <2>2 DEF Dones
  <2>3. CASE d \notin DOMAIN events BY <1>1, <2>1, <2>3
  <2> QED BY <2>2, <2>3
<1> QED BY <1>3, <1>4

\* News stays news whatever is sent after it.
LEMMA NewsStays ==
  ASSUME JumpTypeOK, NEW es \in Seq(Events), events' = events \o es, UNCHANGED <<jump, windows>>,
         NEW w, NEW k \in DOMAIN events, News(w, k)
  PROVE  k \in DOMAIN events' /\ News(w, k)'
<1>1. /\ \A i \in DOMAIN events : i \in Nat /\ i <= Len(events) /\ i \in DOMAIN events' /\ events'[i] = events[i]
      /\ Len(events) \in Nat
  BY EventsGrow
<1>2. k \in DOMAIN events' /\ events'[k] = events[k] BY <1>1
<1>3. jump = "second" => \A d \in Dones' : k < d
  <2> SUFFICES ASSUME jump = "second", NEW d \in Dones' PROVE k < d
    OBVIOUS
  <2>1. CASE d \in Dones BY <2>1 DEF News
  <2>2. CASE d \notin Dones
    <3>1. d \in Nat /\ d > Len(events) BY <2>2, DonesGrow
    <3>2. k \in Nat /\ k <= Len(events) BY <1>1
    <3> QED BY <1>1, <3>1, <3>2
  <2> QED BY <2>1, <2>2
<1>4. Heard(w) \/ \E i \in DOMAIN events : i < k /\ events[i].type = "toplevel" /\ events[i].window = w
  BY DEF News
<1>5. Heard(w)' <=> Heard(w) BY DEF Heard
<1>6. Heard(w)' \/ \E i \in DOMAIN events' : i < k /\ events'[i].type = "toplevel" /\ events'[i].window = w
  <2>1. CASE Heard(w) BY <1>5, <2>1
  <2>2. CASE \E i \in DOMAIN events : i < k /\ events[i].type = "toplevel" /\ events[i].window = w
    BY <1>1, <2>2
  <2> QED BY <1>4, <2>1, <2>2
<1>7. events'[k].type = "title" /\ events'[k].window = w /\ jump' # "choose"
  BY <1>2 DEF News
<1>8. jump' = "second" => \A d \in Dones' : k < d BY <1>3
<1>9. News(w, k)' BY <1>6, <1>7, <1>8 DEF News
<1> QED BY <1>2, <1>9

-----------------------------------------------------------------------------
(* Step by step.                                                            *)

Flow == OneSync /\ Offered /\ BoundFirst /\ Steady

LEMMA FlowConnect ==
  ASSUME JumpTypeOK, Choice, Connect
  PROVE  Flow'
<1>0. /\ jump' = "first" /\ requests' = <<Msg("registry"), Msg("sync")>>
      /\ matching' \subseteq open' /\ steady' = matching'
      /\ events' = <<>> /\ told' = FALSE /\ manager' = FALSE
  BY DEF Connect, Choice, JumpTypeOK
<1> DEFINE x == Msg("registry")
           y == Msg("sync")
           r == <<x, y>>
<1>1. x.type = "registry" /\ y.type = "sync" BY DEF Msg
<1>2. requests' = r BY <1>0
<1> HIDE DEF x, y
<1>3. DOMAIN r = {1, 2} /\ r[1] = x /\ r[2] = y
  <2>1. DOMAIN r = 1..2 OBVIOUS
  <2>2. 1..2 = {1, 2} OBVIOUS
  <2> QED BY <2>1, <2>2
<1> HIDE DEF r
<1>4. Syncs' = {2}
  <2>1. Syncs' = {i \in DOMAIN requests' : requests'[i].type = "sync"} BY DEF Syncs
  <2> QED BY <1>1, <1>2, <1>3, <2>1
<1>5. DOMAIN events' = {} /\ Dones' = {}
  <2>1. DOMAIN events' = {} BY <1>0
  <2> QED BY <2>1 DEF Dones
<1>6. OneSync' BY <1>0, <1>4, <1>5 DEF OneSync
<1>7. Offered'
  <2>1. \A i \in DOMAIN requests' : requests'[i].type = "registry" => \A j \in Syncs' : i < j
    BY <1>1, <1>2, <1>3, <1>4
  <2> QED BY <1>0, <1>5, <2>1 DEF Offered
<1>8. BoundFirst'
  <2>1. \A i \in DOMAIN requests' : requests'[i].type # "bind" BY <1>1, <1>2, <1>3
  <2> QED BY <1>0, <2>1 DEF BoundFirst
<1>9. Steady' BY <1>0, <1>5 DEF Steady
<1> QED BY <1>6, <1>7, <1>8, <1>9 DEF Flow

\* What a Tail of the events keeps of what was on its way.
LEMMA NewsTaken ==
  ASSUME JumpTypeOK, events # <<>>, events' = Tail(events),
         NEW w, NEW k \in DOMAIN events, News(w, k), k # 1,
         jump' = jump \/ (jump = "first" /\ jump' = "second" /\ Dones' = {}),
         Heard(w) => Heard(w)',
         events[1].type = "toplevel" /\ events[1].window = w => Heard(w)'
  PROVE  k - 1 \in DOMAIN events' /\ News(w, k - 1)'
<1>1. /\ \A i \in DOMAIN events : i \in Nat /\ i >= 1 /\ (i # 1 => i - 1 \in DOMAIN events')
      /\ \A i \in DOMAIN events' : i \in Nat /\ i >= 1 /\ i + 1 \in DOMAIN events /\ events'[i] = events[i + 1]
  BY EventTaken
<1>2. k \in Nat /\ k - 1 \in DOMAIN events' /\ events'[k - 1] = events[k]
  <2>1. k \in Nat /\ k - 1 \in DOMAIN events' BY <1>1
  <2>2. k - 1 + 1 = k BY <2>1
  <2> QED BY <1>1, <2>1, <2>2
<1>3. Heard(w)' \/ \E i \in DOMAIN events' : i < k - 1 /\ events'[i].type = "toplevel" /\ events'[i].window = w
  <2>1. CASE Heard(w) BY <2>1
  <2>2. CASE ~Heard(w)
    <3>1. PICK i \in DOMAIN events : i < k /\ events[i].type = "toplevel" /\ events[i].window = w
      BY <2>2 DEF News
    <3>2. CASE i = 1 BY <3>1, <3>2
    <3>3. CASE i # 1
      <4>1. i \in Nat /\ i - 1 \in DOMAIN events' BY <1>1, <3>3
      <4>2. i - 1 + 1 = i /\ i - 1 < k - 1 BY <1>2, <3>1, <4>1
      <4>3. events'[i - 1] = events[i] BY <1>1, <4>1, <4>2
      <4> QED BY <3>1, <4>1, <4>2, <4>3
    <3> QED BY <3>2, <3>3
  <2> QED BY <2>1, <2>2
<1>4. jump' = "second" => \A d \in Dones' : k - 1 < d
  <2>1. CASE jump' = jump
    <3> SUFFICES ASSUME jump = "second", NEW d \in Dones' PROVE k - 1 < d
      BY <2>1
    <3>1. d \in Nat /\ d + 1 \in Dones BY DonesTaken
    <3>2. k < d + 1 BY <3>1 DEF News
    <3> QED BY <1>2, <3>1, <3>2
  <2>2. CASE Dones' = {} BY <2>2
  <2> QED BY <2>1, <2>2
<1>5. jump' # "choose" BY DEF News
<1>6. events'[k - 1].type = "title" /\ events'[k - 1].window = w BY <1>2 DEF News
<1>7. News(w, k - 1)' BY <1>3, <1>4, <1>5, <1>6 DEF News
<1> QED BY <1>2, <1>7

LEMMA FlowRoundtripDone ==
  ASSUME JumpTypeOK, Flow, jump \in {"first", "second"}, RoundtripDone
  PROVE  Flow'
<1>0. /\ events # <<>> /\ Head(events).type = "done" /\ events' = Tail(events)
      /\ (jump = "first" /\ jump' = "second") \/ (jump = "second" /\ jump' = "choose")
      /\ requests' = IF jump' = "second" THEN Append(requests, Msg("sync")) ELSE requests
      /\ UNCHANGED <<manager, windows, open, matching, told, steady>>
  <2>1. jump' = AfterRoundtrip(jump) BY DEF RoundtripDone
  <2>2. (jump = "first" /\ jump' = "second") \/ (jump = "second" /\ jump' = "choose")
    BY <2>1 DEF AfterRoundtrip
  <2>3. UNCHANGED <<manager, windows, open, matching, told, steady>>
    BY DEF RoundtripDone, clientVars, compositorVars
  <2> QED BY <2>2, <2>3 DEF RoundtripDone
<1>1. /\ Head(events) = events[1] /\ 1 \in DOMAIN events
      /\ \A i \in DOMAIN events : i \in Nat /\ i >= 1
      /\ \A i \in DOMAIN events' : i \in Nat /\ i >= 1 /\ i + 1 \in DOMAIN events /\ events'[i] = events[i + 1]
  BY <1>0, EventTaken
<1>2. 1 \in Dones BY <1>0, <1>1 DEF Dones
<1>3. Syncs = {} /\ \A d \in Dones : d = 1 BY <1>2 DEF Flow, OneSync
<1>4. Dones' = {}
  <2> SUFFICES ASSUME NEW d \in Dones' PROVE FALSE
    OBVIOUS
  <2>1. d \in Nat /\ d + 1 \in Dones BY <1>0, DonesTaken
  <2>2. d \in DOMAIN events' BY DEF Dones
  <2> QED BY <1>1, <1>3, <2>1, <2>2
<1>5. \A i \in DOMAIN requests : requests[i].type # "registry"
  BY <1>2 DEF Flow, Offered
<1>6. \A i \in DOMAIN events' : events'[i].type \notin {"seat", "manager"}
  <2> SUFFICES ASSUME NEW i \in DOMAIN events', events'[i].type \in {"seat", "manager"} PROVE FALSE
    OBVIOUS
  <2>1. i \in Nat /\ i >= 1 /\ i + 1 \in DOMAIN events /\ events[i + 1].type \in {"seat", "manager"} BY <1>1
  <2>2. i + 1 < 1 BY <1>2, <2>1 DEF Flow, Offered
  <2> QED BY <2>1, <2>2
<1>7. /\ \A i \in DOMAIN requests : i \in DOMAIN requests' /\ requests'[i] = requests[i]
      /\ \A i \in DOMAIN requests' : i \in DOMAIN requests \/ (jump' = "second" /\ i = Len(requests) + 1
                                                              /\ requests'[i].type = "sync")
      /\ jump' = "second" => \A i \in DOMAIN requests : i \in Nat /\ i < Len(requests) + 1
  <2>1. CASE jump' = "second"
    <3>1. Msg("sync") \in Requests /\ Msg("sync").type = "sync" BY RequestsAre
    <3>2. requests' = Append(requests, Msg("sync")) BY <1>0, <2>1
    <3>3. /\ Len(requests) \in Nat /\ requests'[Len(requests) + 1] = Msg("sync")
          /\ \A i \in DOMAIN requests : i \in Nat /\ i <= Len(requests) /\ i \in DOMAIN requests'
                                        /\ requests'[i] = requests[i]
          /\ \A i \in DOMAIN requests' : i \in DOMAIN requests \/ i = Len(requests) + 1
      BY <3>1, <3>2, RequestsGrow
    <3> QED BY <2>1, <3>1, <3>3
  <2>2. CASE jump' # "second"
    <3>1. requests' = requests BY <1>0, <2>2
    <3> QED BY <2>2, <3>1
  <2> QED BY <2>1, <2>2
<1>8. \A i \in Syncs' : jump' = "second" /\ i = Len(requests) + 1
  <2>1. Syncs' = {i \in DOMAIN requests' : requests'[i].type = "sync"} BY DEF Syncs
  <2> QED BY <1>3, <1>7, <2>1 DEF Syncs
<1>9. OneSync'
  <2>1. \A i, j \in Syncs' : i = j BY <1>8
  <2>2. jump' = "choose" => Syncs' = {} BY <1>8
  <2> QED BY <1>4, <2>1, <2>2 DEF OneSync
<1>10. Offered'
  <2>1. \A i \in DOMAIN requests' : requests'[i].type # "registry" BY <1>5, <1>7
  <2> QED BY <1>6, <2>1 DEF Offered
<1>11. BoundFirst'
  <2>1. \A i \in DOMAIN requests' : requests'[i].type = "bind" => manager'
    <3>1. \A i \in DOMAIN requests : requests[i].type = "bind" => manager BY DEF Flow, BoundFirst
    <3> QED BY <1>0, <1>7, <3>1
  <2>2. told' => manager' BY <1>0 DEF Flow, BoundFirst
  <2>3. ASSUME manager', ~told'
        PROVE  \E q \in DOMAIN requests' :
                 /\ requests'[q].type = "bind" /\ jump' # "choose"
                 /\ jump' = "second" => Dones' = {} /\ \A p \in Syncs' : q < p
    <3>1. PICK q \in DOMAIN requests :
            /\ requests[q].type = "bind"
            /\ jump = "second" => Dones = {} /\ \A p \in Syncs : q < p
      BY <1>0, <2>3 DEF Flow, BoundFirst
    <3>2. jump' = "second" BY <1>0, <1>2, <3>1
    <3>3. \A p \in Syncs' : q < p BY <1>7, <1>8, <3>2
    <3>4. q \in DOMAIN requests' /\ requests'[q].type = "bind" BY <1>7, <3>1
    <3> QED BY <1>4, <3>2, <3>3, <3>4
  <2> QED BY <2>1, <2>2, <2>3 DEF BoundFirst
<1>12. Steady'
  <2>1. steady' \subseteq open' \cap matching' BY <1>0 DEF Flow, Steady
  <2>2. \A i \in DOMAIN events' : events'[i].window \in steady' =>
          events'[i].type # "closed" /\ (events'[i].type = "title" => events'[i].yes)
    <3>1. \A i \in DOMAIN events : events[i].window \in steady =>
            events[i].type # "closed" /\ (events[i].type = "title" => events[i].yes)
      BY DEF Flow, Steady
    <3> QED BY <1>0, <1>1, <3>1
  <2>3. ASSUME told', NEW w \in steady'
        PROVE  Listed(w)' \/ \E k \in DOMAIN events' : News(w, k)'
    <3>1. Listed(w) \/ \E k \in DOMAIN events : News(w, k) BY <1>0, <2>3 DEF Flow, Steady
    <3>2. CASE Listed(w)
      <4>1. Listed(w)' BY <1>0, <3>2 DEF Listed
      <4> QED BY <4>1
    <3>3. CASE \E k \in DOMAIN events : News(w, k)
      <4>1. PICK k \in DOMAIN events : News(w, k) BY <3>3
      <4>2. k # 1 BY <1>0, <1>1, <4>1 DEF News
      <4>3. jump # "second"
        <5> SUFFICES ASSUME jump = "second" PROVE FALSE
          OBVIOUS
        <5>1. k < 1 BY <1>2, <4>1 DEF News
        <5> QED BY <1>1, <5>1
      <4>4. jump = "first" /\ jump' = "second" BY <1>0, <4>3
      <4>5. Heard(w) => Heard(w)' BY <1>0 DEF Heard
      <4>6. events[1].type # "toplevel" BY <1>0, <1>1
      <4>7. k - 1 \in DOMAIN events' /\ News(w, k - 1)'
        BY <1>0, <1>4, <4>1, <4>2, <4>4, <4>5, <4>6, NewsTaken
      <4> QED BY <4>7
    <3> QED BY <3>1, <3>2, <3>3
  <2>4. told' => \A w \in steady' : Listed(w)' \/ \E k \in DOMAIN events' : News(w, k)' BY <2>3
  <2> QED BY <2>1, <2>2, <2>4 DEF Steady
<1> QED BY <1>9, <1>10, <1>11, <1>12 DEF Flow

\* An event handled never takes a steady window off the list.
LEMMA ListKeeps ==
  ASSUME JumpTypeOK, Steady, events # <<>>, Global \/ Toplevel, NEW w \in steady, NEW e, e = Head(events)
  PROVE  /\ Heard(w) => Heard(w)'
         /\ Listed(w) => Listed(w)'
         /\ e.type = "toplevel" /\ e.window = w => Heard(w)'
         /\ e.type = "title" /\ e.window = w /\ Heard(w) => Listed(w)'
<1>0. /\ windows \in Seq(Entries) /\ w # Nobody
  BY JumpAssumption DEF JumpTypeOK
<1>1. /\ e.yes \in BOOLEAN
      /\ e.type \in {"toplevel", "title", "state", "closed"} => e.window \in Windows
  BY HeadEvent
<1>2. e.window = w => e.type # "closed" /\ (e.type = "title" => e.yes)
  <2>1. events \in Seq(Events) BY DEF JumpTypeOK
  <2>2. 1 \in DOMAIN events /\ e = events[1] BY <2>1, Taken
  <2> QED BY <2>2 DEF Steady
<1>3. /\ Heard(w) <=> \E i \in DOMAIN windows : windows[i].window = w
      /\ Listed(w) <=> \E i \in DOMAIN windows : windows[i].window = w /\ windows[i].matches
      /\ Heard(w)' <=> \E i \in DOMAIN windows' : windows'[i].window = w
      /\ Listed(w)' <=> \E i \in DOMAIN windows' : windows'[i].window = w /\ windows'[i].matches
  BY DEF Heard, Listed
<1>4. CASE Global
  <2>1. windows' = windows /\ e.type \in {"seat", "manager"} BY <1>4 DEF Global
  <2> QED BY <1>3, <2>1
<1>5. CASE Toplevel
  <2>1. CASE e.type = "toplevel"
    <3> DEFINE x == Window(e.window)
               p == <<x>>
    <3>1. windows' = p \o windows BY <1>5, <2>1 DEF Toplevel
    <3>2. e.window \in Windows BY <1>1, <2>1
    <3>3. x \in Entries /\ x.window = e.window BY <3>2 DEF Window, Entries
    <3> HIDE DEF x
    <3>4. p \in Seq(Entries) /\ 1 \in DOMAIN p /\ p[1] = x BY <3>3
    <3> HIDE DEF p
    <3> DEFINE c == p \o windows
    <3>5. /\ \A i \in DOMAIN p : i \in DOMAIN c /\ c[i] = p[i]
          /\ \A j \in DOMAIN windows : Len(p) + j \in DOMAIN c /\ c[Len(p) + j] = windows[j]
      BY <1>0, <3>4, Sent
    <3> HIDE DEF c
    <3>6. windows' = c BY <3>1 DEF c
    <3>7. Heard(w) => Heard(w)' BY <1>3, <3>5, <3>6
    <3>8. Listed(w) => Listed(w)' BY <1>3, <3>5, <3>6
    <3>9. e.window = w => Heard(w)' BY <1>3, <3>3, <3>4, <3>5, <3>6
    <3> QED BY <2>1, <3>7, <3>8, <3>9
  <2>2. CASE e.type = "title"
    <3>1. windows' = Titled(e.window, e.yes) BY <1>5, <2>2 DEF Toplevel
    <3>2. e.window \in Windows BY <1>1, <2>2
    <3>3. /\ DOMAIN windows' = DOMAIN windows
          /\ \A i \in DOMAIN windows :
               /\ windows'[i].window = windows[i].window
               /\ windows'[i].matches = IF windows[i].window = e.window THEN e.yes ELSE windows[i].matches
      BY <1>1, <3>1, <3>2, TitledIs
    <3>4. Heard(w) => Heard(w)' BY <1>3, <3>3
    <3>5. CASE e.window = w
      <4>1. e.yes BY <1>2, <2>2, <3>5
      <4>2. \A i \in DOMAIN windows : windows[i].window = w => windows'[i].matches BY <3>3, <3>5, <4>1
      <4>3. Heard(w) => Listed(w)' BY <1>3, <3>3, <4>2
      <4>4. Listed(w) => Heard(w) BY <1>3
      <4> QED BY <2>2, <3>4, <4>3, <4>4
    <3>6. CASE e.window # w
      <4>1. \A i \in DOMAIN windows : windows[i].window = w => windows'[i].matches = windows[i].matches
        BY <3>3, <3>6
      <4>2. Listed(w) => Listed(w)' BY <1>3, <3>3, <4>1
      <4> QED BY <2>2, <3>4, <3>6, <4>2
    <3> QED BY <3>5, <3>6
  <2>3. CASE e.type = "state"
    <3>1. windows' = Stated(e.window, e.yes) BY <1>5, <2>3 DEF Toplevel
    <3>2. e.window \in Windows BY <1>1, <2>3
    <3>3. /\ DOMAIN windows' = DOMAIN windows
          /\ \A i \in DOMAIN windows :
               windows'[i].window = windows[i].window /\ windows'[i].matches = windows[i].matches
      BY <1>1, <3>1, <3>2, StatedIs
    <3>4. Heard(w) => Heard(w)' BY <1>3, <3>3
    <3>5. Listed(w) => Listed(w)' BY <1>3, <3>3
    <3> QED BY <2>3, <3>4, <3>5
  <2>4. CASE e.type = "closed"
    <3>1. PICK i \in DOMAIN windows : windows[i].window = e.window /\ windows' = RemoveAt(windows, i)
      BY <1>5, <2>4 DEF Toplevel
    <3>2. \A j \in DOMAIN windows : j # i => \E k \in DOMAIN windows' : windows'[k] = windows[j]
      BY <3>1, RemovedIs
    <3>3. e.window # w BY <1>2, <2>4
    <3>4. ASSUME NEW j \in DOMAIN windows, windows[j].window = w
          PROVE  \E k \in DOMAIN windows' : windows'[k] = windows[j]
      BY <3>1, <3>2, <3>3, <3>4
    <3>5. Heard(w) => Heard(w)' BY <1>3, <3>4
    <3>6. Listed(w) => Listed(w)' BY <1>3, <3>4
    <3> QED BY <2>4, <3>5, <3>6
  <2> QED BY <1>5, <2>1, <2>2, <2>3, <2>4 DEF Toplevel
<1> QED BY <1>4, <1>5

LEMMA FlowDispatch ==
  ASSUME JumpTypeOK, Flow, jump \in Under, Dispatch
  PROVE  Flow'
<1> DEFINE e == Head(events)
<1>0. /\ events # <<>> /\ events' = Tail(events) /\ (Global \/ Toplevel)
      /\ UNCHANGED <<jump, open, matching, told, steady>>
  BY DEF Dispatch, compositorVars
<1>1. /\ e = events[1] /\ 1 \in DOMAIN events
      /\ \A i \in DOMAIN events : i \in Nat /\ i >= 1
      /\ \A i \in DOMAIN events' : i \in Nat /\ i >= 1 /\ i + 1 \in DOMAIN events /\ events'[i] = events[i + 1]
  BY <1>0, EventTaken
<1>2. /\ e.type = "manager" => jump = "first"
      /\ manager' <=> (manager \/ e.type = "manager")
      /\ requests' = IF e.type = "manager" THEN Append(requests, Msg("bind")) ELSE requests
  <2>1. CASE Global
    <3>1. e.type = "manager" => jump = "first" BY <1>1 DEF Flow, Offered
    <3>2. requests' = IF e.type = "manager" THEN Append(requests, Msg("bind")) ELSE requests BY <2>1 DEF Global
    <3>3. manager' <=> (manager \/ e.type = "manager") BY <2>1 DEF Global
    <3> QED BY <3>1, <3>2, <3>3
  <2>2. CASE Toplevel
    <3>1. UNCHANGED <<manager, requests>> /\ e.type \in {"toplevel", "title", "state", "closed"}
      BY <2>2 DEF Toplevel
    <3> QED BY <3>1
  <2> QED BY <1>0, <2>1, <2>2
<1> HIDE DEF e
<1>3. /\ \A i \in DOMAIN requests : i \in DOMAIN requests' /\ requests'[i] = requests[i]
      /\ \A i \in DOMAIN requests' : i \in DOMAIN requests \/ (e.type = "manager" /\ requests'[i].type = "bind")
      /\ e.type = "manager" => \E q \in DOMAIN requests' : requests'[q].type = "bind"
  <2>1. CASE e.type = "manager"
    <3>1. Msg("bind") \in Requests /\ Msg("bind").type = "bind" BY RequestsAre
    <3>2. requests' = Append(requests, Msg("bind")) BY <1>2, <2>1
    <3>3. /\ Len(requests) + 1 \in DOMAIN requests' /\ requests'[Len(requests) + 1] = Msg("bind")
          /\ \A i \in DOMAIN requests : i \in DOMAIN requests' /\ requests'[i] = requests[i]
          /\ \A i \in DOMAIN requests' : i \in DOMAIN requests \/ i = Len(requests) + 1
      BY <3>1, <3>2, RequestsGrow
    <3> QED BY <2>1, <3>1, <3>3
  <2>2. CASE e.type # "manager"
    <3>1. requests' = requests BY <1>2, <2>2
    <3> QED BY <2>2, <3>1
  <2> QED BY <2>1, <2>2
<1>4. Syncs' = Syncs
  <2>1. Syncs' = {i \in DOMAIN requests' : requests'[i].type = "sync"} BY DEF Syncs
  <2> QED BY <1>3, <2>1 DEF Syncs
<1>5. /\ \A d \in Dones : d \in Nat
      /\ \A d \in Dones' : d \in Nat /\ d + 1 \in Dones
  BY <1>0, DonesTaken
<1>6. OneSync'
  <2>1. \A i, j \in Dones' : i = j
    <3> SUFFICES ASSUME NEW i \in Dones', NEW j \in Dones' PROVE i = j
      OBVIOUS
    <3>1. i + 1 = j + 1 BY <1>5 DEF Flow, OneSync
    <3> QED BY <1>5, <3>1
  <2>2. \A i, j \in Syncs' : i = j BY <1>4 DEF Flow, OneSync
  <2>3. Syncs' = {} \/ Dones' = {} BY <1>4, <1>5 DEF Flow, OneSync
  <2>4. jump' = "choose" => Syncs' = {} /\ Dones' = {} BY <1>0, <1>4, <1>5 DEF Flow, OneSync
  <2> QED BY <2>1, <2>2, <2>3, <2>4 DEF OneSync
<1>7. Offered'
  <2>1. ASSUME NEW i \in DOMAIN requests', requests'[i].type = "registry"
        PROVE  jump' = "first" /\ Dones' = {} /\ \A j \in Syncs' : i < j
    <3>1. i \in DOMAIN requests /\ requests[i].type = "registry" BY <1>3, <2>1
    <3>2. jump = "first" /\ Dones = {} /\ \A j \in Syncs : i < j BY <3>1 DEF Flow, Offered
    <3> QED BY <1>0, <1>4, <1>5, <3>2
  <2>2. ASSUME NEW i \in DOMAIN events', events'[i].type \in {"seat", "manager"}
        PROVE  jump' = "first" /\ \A j \in Dones' : i < j
    <3>1. i \in Nat /\ i + 1 \in DOMAIN events /\ events[i + 1].type \in {"seat", "manager"} BY <1>1, <2>2
    <3>2. jump = "first" /\ \A j \in Dones : i + 1 < j BY <3>1 DEF Flow, Offered
    <3>3. ASSUME NEW j \in Dones' PROVE i < j
      <4>1. j \in Nat /\ j + 1 \in Dones BY <1>5
      <4>2. i + 1 < j + 1 BY <3>2, <4>1
      <4> QED BY <3>1, <4>1, <4>2
    <3> QED BY <1>0, <3>2, <3>3
  <2> QED BY <2>1, <2>2 DEF Offered
<1>8. BoundFirst'
  <2>1. \A i \in DOMAIN requests' : requests'[i].type = "bind" => manager'
    <3>1. \A i \in DOMAIN requests : requests[i].type = "bind" => manager BY DEF Flow, BoundFirst
    <3> QED BY <1>2, <1>3, <3>1
  <2>2. told' => manager' BY <1>0, <1>2 DEF Flow, BoundFirst
  <2>3. ASSUME manager', ~told'
        PROVE  \E q \in DOMAIN requests' :
                 /\ requests'[q].type = "bind" /\ jump' # "choose"
                 /\ jump' = "second" => Dones' = {} /\ \A p \in Syncs' : q < p
    <3>1. CASE manager
      <4>1. PICK q \in DOMAIN requests :
              /\ requests[q].type = "bind" /\ jump # "choose"
              /\ jump = "second" => Dones = {} /\ \A p \in Syncs : q < p
        BY <1>0, <2>3, <3>1 DEF Flow, BoundFirst
      <4>2. q \in DOMAIN requests' /\ requests'[q].type = "bind" BY <1>3, <4>1
      <4>3. jump' = "second" => Dones' = {} /\ \A p \in Syncs' : q < p BY <1>0, <1>4, <1>5, <4>1
      <4> QED BY <1>0, <4>1, <4>2, <4>3
    <3>2. CASE ~manager
      <4>1. e.type = "manager" /\ jump' = "first" BY <1>0, <1>2, <2>3, <3>2
      <4> QED BY <1>3, <4>1
    <3> QED BY <3>1, <3>2
  <2> QED BY <2>1, <2>2, <2>3 DEF BoundFirst
<1>9. Steady'
  <2>1. steady' \subseteq open' \cap matching' BY <1>0 DEF Flow, Steady
  <2>2. \A i \in DOMAIN events' : events'[i].window \in steady' =>
          events'[i].type # "closed" /\ (events'[i].type = "title" => events'[i].yes)
    <3>1. \A i \in DOMAIN events : events[i].window \in steady =>
            events[i].type # "closed" /\ (events[i].type = "title" => events[i].yes)
      BY DEF Flow, Steady
    <3> QED BY <1>0, <1>1, <3>1
  <2>3. ASSUME told', NEW w \in steady'
        PROVE  Listed(w)' \/ \E k \in DOMAIN events' : News(w, k)'
    <3>0. w \in steady /\ Steady BY <1>0 DEF Flow
    <3>1. Listed(w) \/ \E k \in DOMAIN events : News(w, k) BY <1>0, <2>3 DEF Flow, Steady
    <3>2. /\ Heard(w) => Heard(w)'
          /\ Listed(w) => Listed(w)'
          /\ e.type = "toplevel" /\ e.window = w => Heard(w)'
          /\ e.type = "title" /\ e.window = w /\ Heard(w) => Listed(w)'
      BY <1>0, <3>0, ListKeeps DEF e
    <3>3. CASE \E k \in DOMAIN events : News(w, k)
      <4>1. PICK k \in DOMAIN events : News(w, k) BY <3>3
      <4>2. CASE k = 1
        <5>1. e.type = "title" /\ e.window = w BY <1>1, <4>1, <4>2 DEF News
        <5>2. ~\E i \in DOMAIN events : i < k BY <1>1, <4>2
        <5>3. Heard(w) BY <4>1, <5>2 DEF News
        <5> QED BY <3>2, <5>1, <5>3
      <4>3. CASE k # 1
        <5>1. events[1].type = "toplevel" /\ events[1].window = w => Heard(w)' BY <1>1, <3>2
        <5>2. k - 1 \in DOMAIN events' /\ News(w, k - 1)'
          BY <1>0, <3>2, <4>1, <4>3, <5>1, NewsTaken
        <5> QED BY <5>2
      <4> QED BY <4>2, <4>3
    <3> QED BY <3>1, <3>2, <3>3
  <2>4. told' => \A w \in steady' : Listed(w)' \/ \E k \in DOMAIN events' : News(w, k)' BY <2>3
  <2> QED BY <2>1, <2>2, <2>4 DEF Steady
<1> QED BY <1>6, <1>7, <1>8, <1>9 DEF Flow

\* What a request is answered with.
Answers(es) ==
  LET r == Head(requests)
  IN  \/ r.type = "registry" /\ (\A i \in DOMAIN es : es[i].type \in {"seat", "manager"} /\ es[i].window = Nobody)
         /\ UNCHANGED told
      \/ r.type = "sync" /\ (\A i \in DOMAIN es : i = 1 /\ es[i].type = "done" /\ es[i].window = Nobody)
         /\ UNCHANGED told
      \/ /\ r.type = "bind" /\ told'
         /\ \A i \in DOMAIN es : /\ es[i].type \in {"toplevel", "title", "state"}
                                 /\ es[i].type = "title" /\ es[i].window \in matching => es[i].yes
         /\ \A w \in open : \E i, k \in DOMAIN es :
              /\ i < k /\ es[i].type = "toplevel" /\ es[i].window = w
              /\ es[k].type = "title" /\ es[k].window = w
      \/ r.type = "activate" /\ (\A i \in DOMAIN es : es[i].type = "state") /\ UNCHANGED told

LEMMA AnswersAre ==
  ASSUME JumpTypeOK, ServeRequest
  PROVE  \E es \in Seq(Events) : events' = events \o es /\ Answers(es)
<1> DEFINE r == Head(requests)
<1>1. CASE r.type = "registry" /\ events' = events \o Offer /\ UNCHANGED <<told, focused>>
  BY <1>1, OfferIs DEF Answers
<1>2. CASE r.type = "sync" /\ events' = Append(events, Msg("done")) /\ UNCHANGED <<told, focused>>
  <2> DEFINE x == Msg("done")
             es == <<x>>
  <2>1. x \in Events /\ x.type = "done" /\ x.window = Nobody BY DEF Msg, Events
  <2>2. events' = Append(events, x) BY <1>2
  <2> HIDE DEF x
  <2>3. events \in Seq(Events) BY DEF JumpTypeOK
  <2>4. events' = events \o es BY <2>1, <2>2, <2>3, AppendIsConcat
  <2>5. es \in Seq(Events) /\ \A i \in DOMAIN es : i = 1 /\ es[i] = x BY <2>1
  <2> HIDE DEF es
  <2>6. Answers(es) BY <1>2, <2>1, <2>5 DEF Answers
  <2> QED BY <2>4, <2>5, <2>6
<1>3. CASE r.type = "bind" /\ told' = TRUE /\ UNCHANGED focused /\ events' = events \o AnnounceAll
  <2> DEFINE es == AnnounceAll
  <2>1. /\ es \in Seq(Events)
        /\ \A i \in DOMAIN es : \E t \in {"toplevel", "title", "state"}, w \in open, S \in {open, matching, focused} :
             es[i] = About(t, w, w \in S) /\ (t = "title" => S = matching)
        /\ \A w \in open : \E i, k \in DOMAIN es :
             /\ i < k /\ es[i] = About("toplevel", w, w \in open)
             /\ es[k] = About("title", w, w \in matching)
    BY AnnouncedIs
  <2>2. \A t, w, y : About(t, w, y).type = t /\ About(t, w, y).window = w /\ About(t, w, y).yes = y BY DEF About
  <2> HIDE DEF es
  <2>3. ASSUME NEW i \in DOMAIN es
        PROVE  /\ es[i].type \in {"toplevel", "title", "state"}
               /\ es[i].type = "title" /\ es[i].window \in matching => es[i].yes
    <3>1. PICK t \in {"toplevel", "title", "state"}, w \in open, S \in {open, matching, focused} :
             es[i] = About(t, w, w \in S) /\ (t = "title" => S = matching)
      BY <2>1
    <3>2. es[i].type = t /\ es[i].window = w /\ es[i].yes = (w \in S) BY <2>2, <3>1
    <3> QED BY <3>1, <3>2
  <2>4. ASSUME NEW w \in open
        PROVE  \E i, k \in DOMAIN es :
                 /\ i < k /\ es[i].type = "toplevel" /\ es[i].window = w
                 /\ es[k].type = "title" /\ es[k].window = w
    <3>1. PICK i \in DOMAIN es, k \in DOMAIN es :
             /\ i < k /\ es[i] = About("toplevel", w, w \in open)
             /\ es[k] = About("title", w, w \in matching)
      BY <2>1
    <3>2. /\ es[i].type = "toplevel" /\ es[i].window = w
          /\ es[k].type = "title" /\ es[k].window = w
      BY <2>2, <3>1
    <3> QED BY <3>1, <3>2
  <2>5. Answers(es) BY <1>3, <2>3, <2>4 DEF Answers
  <2>6. events' = events \o es BY <1>3 DEF es
  <2> QED BY <2>1, <2>5, <2>6
<1>4. CASE r.type = "activate" /\ UNCHANGED told /\ events' = events \o Each("state", focused')
  <2> DEFINE es == Each("state", focused')
  <2>1. es \in Seq(Events) /\ \A i \in DOMAIN es : \E w \in open : es[i] = About("state", w, w \in focused')
    BY EachIs
  <2>2. \A w, y : About("state", w, y).type = "state" BY DEF About
  <2>3. events' = events \o es BY <1>4
  <2> HIDE DEF es
  <2>4. \A i \in DOMAIN es : es[i].type = "state" BY <2>1, <2>2
  <2>5. Answers(es) BY <1>4, <2>4 DEF Answers
  <2> QED BY <2>1, <2>3, <2>5
<1> QED BY <1>1, <1>2, <1>3, <1>4 DEF ServeRequest

LEMMA FlowServeRequest ==
  ASSUME JumpTypeOK, Flow, jump \in Under, ServeRequest
  PROVE  Flow'
<1> DEFINE r == Head(requests)
<1>0. /\ requests # <<>> /\ requests' = Tail(requests)
      /\ UNCHANGED <<jump, manager, windows, open, matching, steady>>
  BY DEF ServeRequest, clientVars
<1>1. PICK es \in Seq(Events) : events' = events \o es /\ Answers(es) BY AnswersAre
<1>2. /\ r = requests[1] /\ 1 \in DOMAIN requests
      /\ \A i \in DOMAIN requests : i \in Nat /\ i >= 1 /\ (i # 1 => i - 1 \in DOMAIN requests')
      /\ \A i \in DOMAIN requests' : i \in Nat /\ i >= 1 /\ i + 1 \in DOMAIN requests /\ requests'[i] = requests[i + 1]
  BY <1>0, RequestTaken
<1>3. /\ Len(events) \in Nat
      /\ \A i \in DOMAIN events : i \in Nat /\ i <= Len(events) /\ i \in DOMAIN events' /\ events'[i] = events[i]
      /\ \A j \in DOMAIN es : j \in Nat /\ j >= 1 /\ Len(events) + j \in DOMAIN events'
                              /\ events'[Len(events) + j] = es[j]
      /\ \A i \in DOMAIN events' :
           \/ i \in DOMAIN events
           \/ i \in Nat /\ i > Len(events) /\ i - Len(events) \in DOMAIN es
              /\ events'[i] = es[i - Len(events)]
  BY <1>1, EventsGrow
<1>4. /\ \A d \in Syncs' : d \in Nat /\ d + 1 \in Syncs
      /\ \A d \in Syncs : d \in Nat
      /\ r.type = "sync" <=> 1 \in Syncs
  BY <1>0, SyncsTaken
<1>5. /\ Dones \subseteq Dones'
      /\ \A d \in Dones' :
           d \in Dones \/ (d \in Nat /\ d > Len(events) /\ d - Len(events) \in DOMAIN es
                           /\ es[d - Len(events)].type = "done")
  BY <1>1, DonesGrow
<1> HIDE DEF r
<1>6. r.type # "sync" => Dones' = Dones
  <2>1. r.type # "sync" => \A i \in DOMAIN es : es[i].type # "done" BY <1>1 DEF Answers, r
  <2> QED BY <1>5, <2>1
<1>7. r.type = "sync" => Syncs' = {} /\ Dones = {} /\ \A d \in Dones' : d \in Nat /\ d = Len(events) + 1
  <2> SUFFICES ASSUME r.type = "sync"
               PROVE  Syncs' = {} /\ Dones = {} /\ \A d \in Dones' : d \in Nat /\ d = Len(events) + 1
    OBVIOUS
  <2>1. \A d \in Syncs : d = 1 BY <1>4 DEF Flow, OneSync
  <2>2. Syncs' = {}
    <3> SUFFICES ASSUME NEW d \in Syncs' PROVE FALSE
      OBVIOUS
    <3>1. d \in DOMAIN requests' BY DEF Syncs
    <3> QED BY <1>2, <1>4, <2>1, <3>1
  <2>3. Dones = {} BY <1>4 DEF Flow, OneSync
  <2>4. \A i \in DOMAIN es : i = 1 BY <1>1 DEF Answers, r
  <2>5. \A d \in Dones' : d \in Nat /\ d = Len(events) + 1 BY <1>3, <1>5, <2>3, <2>4
  <2> QED BY <2>2, <2>3, <2>5
<1>8. r.type = "registry" => jump = "first" /\ Dones = {}
  BY <1>2 DEF Flow, Offered
<1>9. OneSync'
  <2>1. CASE r.type = "sync"
    <3>1. jump # "choose" BY <1>4, <2>1 DEF Flow, OneSync
    <3> QED BY <1>0, <1>7, <2>1, <3>1 DEF OneSync
  <2>2. CASE r.type # "sync"
    <3>1. \A i, j \in Syncs' : i = j
      <4> SUFFICES ASSUME NEW i \in Syncs', NEW j \in Syncs' PROVE i = j
        OBVIOUS
      <4>1. i + 1 = j + 1 BY <1>4 DEF Flow, OneSync
      <4> QED BY <1>4, <4>1
    <3>2. \A i, j \in Dones' : i = j BY <1>6, <2>2 DEF Flow, OneSync
    <3>3. Syncs' = {} \/ Dones' = {} BY <1>4, <1>6, <2>2 DEF Flow, OneSync
    <3>4. jump' = "choose" => Syncs' = {} /\ Dones' = {} BY <1>0, <1>4, <1>6, <2>2 DEF Flow, OneSync
    <3> QED BY <3>1, <3>2, <3>3, <3>4 DEF OneSync
  <2> QED BY <2>1, <2>2
<1>10. Offered'
  <2>1. ASSUME NEW i \in DOMAIN requests', requests'[i].type = "registry"
        PROVE  jump' = "first" /\ Dones' = {} /\ \A j \in Syncs' : i < j
    <3>1. i \in Nat /\ i >= 1 /\ i + 1 \in DOMAIN requests /\ requests[i + 1].type = "registry" BY <1>2, <2>1
    <3>2. jump = "first" /\ Dones = {} /\ \A j \in Syncs : i + 1 < j BY <3>1 DEF Flow, Offered
    <3>3. r.type # "sync"
      <4>1. r.type = "sync" => i + 1 < 1 BY <1>4, <3>2
      <4> QED BY <3>1, <4>1
    <3>4. ASSUME NEW j \in Syncs' PROVE i < j
      <4>1. j \in Nat /\ j + 1 \in Syncs BY <1>4
      <4>2. i + 1 < j + 1 BY <3>2, <4>1
      <4> QED BY <3>1, <4>1, <4>2
    <3> QED BY <1>0, <1>6, <3>2, <3>3, <3>4
  <2>2. ASSUME NEW i \in DOMAIN events', events'[i].type \in {"seat", "manager"}
        PROVE  jump' = "first" /\ \A j \in Dones' : i < j
    <3>1. CASE i \in DOMAIN events
      <4>1. events[i].type \in {"seat", "manager"} BY <1>3, <2>2, <3>1
      <4>2. jump = "first" /\ \A j \in Dones : i < j BY <3>1, <4>1 DEF Flow, Offered
      <4>3. r.type = "sync" => \A j \in Dones' : i < j BY <1>3, <1>7, <3>1
      <4> QED BY <1>0, <1>6, <4>2, <4>3
    <3>2. CASE i \notin DOMAIN events
      <4>1. i - Len(events) \in DOMAIN es /\ es[i - Len(events)].type \in {"seat", "manager"}
        BY <1>3, <2>2, <3>2
      <4>2. r.type = "registry" BY <1>1, <4>1 DEF Answers, r
      <4> QED BY <1>0, <1>6, <1>8, <4>2
    <3> QED BY <3>1, <3>2
  <2> QED BY <2>1, <2>2 DEF Offered
<1>11. BoundFirst'
  <2>1. \A i \in DOMAIN requests' : requests'[i].type = "bind" => manager'
    <3>1. \A i \in DOMAIN requests : requests[i].type = "bind" => manager BY DEF Flow, BoundFirst
    <3> QED BY <1>0, <1>2, <3>1
  <2>2. told' => manager'
    <3>1. told' => told \/ r.type = "bind" BY <1>1 DEF Answers, r
    <3>2. (told => manager) /\ (r.type = "bind" => manager) BY <1>2 DEF Flow, BoundFirst
    <3> QED BY <1>0, <3>1, <3>2
  <2>3. ASSUME manager', ~told'
        PROVE  \E q \in DOMAIN requests' :
                 /\ requests'[q].type = "bind" /\ jump' # "choose"
                 /\ jump' = "second" => Dones' = {} /\ \A p \in Syncs' : q < p
    <3>1. ~told /\ r.type # "bind" BY <1>1, <2>3 DEF Answers, r
    <3>2. PICK q \in DOMAIN requests :
            /\ requests[q].type = "bind" /\ jump # "choose"
            /\ jump = "second" => Dones = {} /\ \A p \in Syncs : q < p
      BY <1>0, <2>3, <3>1 DEF Flow, BoundFirst
    <3>3. q # 1 BY <1>2, <3>1, <3>2
    <3>4. q \in Nat /\ q >= 1 /\ q - 1 \in DOMAIN requests' BY <1>2, <3>3
    <3>5. q - 1 + 1 = q BY <3>4
    <3>6. requests'[q - 1].type = "bind" BY <1>2, <3>2, <3>4, <3>5
    <3>7. ASSUME jump = "second" PROVE Dones' = {} /\ \A p \in Syncs' : q - 1 < p
      <4>1. Dones = {} /\ \A p \in Syncs : q < p BY <3>2, <3>7
      <4>2. r.type # "sync"
        <5>1. r.type = "sync" => q < 1 BY <1>4, <4>1
        <5> QED BY <3>4, <5>1
      <4>3. ASSUME NEW p \in Syncs' PROVE q - 1 < p
        <5>1. p \in Nat /\ p + 1 \in Syncs BY <1>4
        <5>2. q < p + 1 BY <4>1, <5>1
        <5> QED BY <3>4, <5>1, <5>2
      <4> QED BY <1>6, <4>1, <4>2, <4>3
    <3> QED BY <1>0, <3>2, <3>4, <3>6, <3>7
  <2> QED BY <2>1, <2>2, <2>3 DEF BoundFirst
<1>12. Steady'
  <2>1. steady' \subseteq open' \cap matching' BY <1>0 DEF Flow, Steady
  <2>2. ASSUME NEW i \in DOMAIN events', events'[i].window \in steady'
        PROVE  events'[i].type # "closed" /\ (events'[i].type = "title" => events'[i].yes)
    <3>1. CASE i \in DOMAIN events
      <4>1. events'[i] = events[i] BY <1>3, <3>1
      <4> QED BY <1>0, <2>2, <3>1, <4>1 DEF Flow, Steady
    <3>2. CASE i \notin DOMAIN events
      <4> DEFINE j == i - Len(events)
      <4>1. j \in DOMAIN es /\ events'[i] = es[j] BY <1>3, <3>2
      <4> HIDE DEF j
      <4>2. es[j].window \in steady /\ es[j].window \in matching /\ es[j].window \in Windows
        BY <1>0, <2>2, <4>1 DEF Flow, Steady, JumpTypeOK
      <4>3. es[j].window # Nobody BY <4>2, JumpAssumption
      <4>4. es[j].type # "closed" /\ (es[j].type = "title" => es[j].yes)
        BY <1>1, <4>1, <4>2, <4>3 DEF Answers
      <4> QED BY <4>1, <4>4
    <3> QED BY <3>1, <3>2
  <2>3. ASSUME told', NEW w \in steady'
        PROVE  Listed(w)' \/ \E k \in DOMAIN events' : News(w, k)'
    <3>1. CASE told
      <4>1. Listed(w) \/ \E k \in DOMAIN events : News(w, k) BY <1>0, <2>3, <3>1 DEF Flow, Steady
      <4>2. CASE Listed(w)
        <5>1. Listed(w)' BY <1>0, <4>2 DEF Listed
        <5> QED BY <5>1
      <4>3. CASE \E k \in DOMAIN events : News(w, k)
        <5>1. PICK k \in DOMAIN events : News(w, k) BY <4>3
        <5>2. k \in DOMAIN events' /\ News(w, k)' BY <1>0, <1>1, <5>1, NewsStays
        <5> QED BY <5>2
      <4> QED BY <4>1, <4>2, <4>3
    <3>2. CASE ~told
      <4>1. r.type = "bind" /\ w \in open BY <1>0, <1>1, <2>3, <3>2 DEF Answers, r, Flow, Steady
      <4>2. PICK i \in DOMAIN es, k \in DOMAIN es :
              /\ i < k /\ es[i].type = "toplevel" /\ es[i].window = w
              /\ es[k].type = "title" /\ es[k].window = w
        BY <1>1, <4>1 DEF Answers, r
      <4>3. manager BY <1>2, <4>1 DEF Flow, BoundFirst
      <4>4. jump # "choose" /\ (jump = "second" => Dones = {}) BY <3>2, <4>3 DEF Flow, BoundFirst
      <4>5. jump' = "second" => Dones' = {} BY <1>0, <1>6, <4>1, <4>4
      <4>6. PICK m \in DOMAIN events', n \in DOMAIN events' :
              events'[m] = es[i] /\ events'[n] = es[k] /\ m < n
        <5>1. \A j \in DOMAIN es : j \in Nat /\ Len(events) + j \in DOMAIN events'
                                   /\ events'[Len(events) + j] = es[j]
          BY <1>3
        <5>2. i \in Nat /\ k \in Nat /\ Len(events) + i < Len(events) + k BY <1>3, <4>2, <5>1
        <5> QED BY <4>2, <5>1, <5>2
      <4>7. News(w, n)' BY <1>0, <4>2, <4>4, <4>5, <4>6 DEF News
      <4> QED BY <4>6, <4>7
    <3> QED BY <3>1, <3>2
  <2>4. told' => \A w \in steady' : Listed(w)' \/ \E k \in DOMAIN events' : News(w, k)' BY <2>3
  <2> QED BY <2>1, <2>2, <2>4 DEF Steady
<1> QED BY <1>9, <1>10, <1>11, <1>12 DEF Flow

LEMMA FlowWindowsChange ==
  ASSUME JumpTypeOK, Flow, jump \in Under, WindowsChange
  PROVE  Flow'
<1>0. /\ UNCHANGED <<jump, manager, windows, requests, told>>
  BY DEF WindowsChange, clientVars
<1>1. PICK es : Fits(es, steady') /\ events' = events \o es /\ (~told => es = <<>>) BY ToldIs
<1>2. es \in Seq(Events) BY <1>1 DEF Fits
<1>3. /\ Len(events) \in Nat
      /\ \A i \in DOMAIN events : i \in Nat /\ i <= Len(events) /\ i \in DOMAIN events' /\ events'[i] = events[i]
      /\ \A i \in DOMAIN events' :
           \/ i \in DOMAIN events
           \/ i \in Nat /\ i > Len(events) /\ i - Len(events) \in DOMAIN es
              /\ events'[i] = es[i - Len(events)]
  BY <1>1, <1>2, EventsGrow
<1>4. Dones' = Dones
  <2>1. \A i \in DOMAIN es : es[i].type # "done" BY <1>1 DEF Fits
  <2>2. /\ Dones \subseteq Dones'
        /\ \A d \in Dones' :
             d \in Dones \/ (d - Len(events) \in DOMAIN es /\ es[d - Len(events)].type = "done")
    BY <1>1, <1>2, DonesGrow
  <2> QED BY <2>1, <2>2
<1>5. Syncs' = Syncs BY <1>0 DEF Syncs
<1>6. steady' \subseteq steady /\ steady' \subseteq open' \cap matching'
  <2>1. steady \subseteq open \cap matching BY DEF Flow, Steady
  <2>2. PICK w \in Windows :
       \/ /\ w \notin open /\ open' = open \cup {w} /\ UNCHANGED <<focused, steady>>
          /\ matching' \in {matching, matching \cup {w}}
       \/ /\ open' = open \ {w} /\ matching' = matching \ {w} /\ steady' = steady \ {w}
       \/ /\ UNCHANGED open /\ steady' = steady \cap matching'
       \/ UNCHANGED <<open, matching, steady>>
    BY DEF WindowsChange
  <2> QED BY <2>1, <2>2
<1>7. OneSync' BY <1>0, <1>4, <1>5 DEF Flow, OneSync
<1>8. Offered'
  <2>1. \A i \in DOMAIN requests' : requests'[i].type = "registry" =>
          jump' = "first" /\ Dones' = {} /\ \A j \in Syncs' : i < j
    BY <1>0, <1>4, <1>5 DEF Flow, Offered
  <2>2. ASSUME NEW i \in DOMAIN events', events'[i].type \in {"seat", "manager"}
        PROVE  jump' = "first" /\ \A j \in Dones' : i < j
    <3>1. i \in DOMAIN events /\ events[i].type \in {"seat", "manager"}
      <4>1. \A j \in DOMAIN es : es[j].type \notin {"seat", "manager"} BY <1>1 DEF Fits
      <4> QED BY <1>3, <2>2, <4>1
    <3> QED BY <1>0, <1>4, <3>1 DEF Flow, Offered
  <2> QED BY <2>1, <2>2 DEF Offered
<1>9. BoundFirst' BY <1>0, <1>4, <1>5 DEF Flow, BoundFirst
<1>10. Steady'
  <2>1. ASSUME NEW i \in DOMAIN events', events'[i].window \in steady'
        PROVE  events'[i].type # "closed" /\ (events'[i].type = "title" => events'[i].yes)
    <3>1. CASE i \in DOMAIN events
      <4>1. events'[i] = events[i] /\ events[i].window \in steady BY <1>3, <1>6, <2>1, <3>1
      <4> QED BY <3>1, <4>1 DEF Flow, Steady
    <3>2. CASE i \notin DOMAIN events
      <4> DEFINE j == i - Len(events)
      <4>1. j \in DOMAIN es /\ events'[i] = es[j] BY <1>3, <3>2
      <4> HIDE DEF j
      <4>2. es[j].type # "closed" /\ (es[j].type = "title" => es[j].yes) BY <1>1, <2>1, <4>1 DEF Fits
      <4> QED BY <4>1, <4>2
    <3> QED BY <3>1, <3>2
  <2>2. ASSUME told', NEW w \in steady'
        PROVE  Listed(w)' \/ \E k \in DOMAIN events' : News(w, k)'
    <3>1. Listed(w) \/ \E k \in DOMAIN events : News(w, k) BY <1>0, <1>6, <2>2 DEF Flow, Steady
    <3>2. CASE Listed(w)
      <4>1. Listed(w)' BY <1>0, <3>2 DEF Listed
      <4> QED BY <4>1
    <3>3. CASE \E k \in DOMAIN events : News(w, k)
      <4>1. PICK k \in DOMAIN events : News(w, k) BY <3>3
      <4>2. k \in DOMAIN events' /\ News(w, k)' BY <1>0, <1>1, <1>2, <4>1, NewsStays
      <4> QED BY <4>2
    <3> QED BY <3>1, <3>2, <3>3
  <2>3. told' => \A w \in steady' : Listed(w)' \/ \E k \in DOMAIN events' : News(w, k)' BY <2>2
  <2> QED BY <1>6, <2>1, <2>3 DEF Steady
<1> QED BY <1>7, <1>8, <1>9, <1>10 DEF Flow

-----------------------------------------------------------------------------

LEMMA JumpInvInit == JumpInit => JumpInv
<1> SUFFICES ASSUME JumpInit PROVE JumpInv
  OBVIOUS
<1> USE DEF JumpInit
<1>1. JumpTypeOK
  <2>1. 0 \in 0..MaxChanges BY JumpAssumption
  <2>2. windows \in Seq(Entries) /\ requests \in Seq(Requests) /\ events \in Seq(Events) OBVIOUS
  <2>3. {list_only, seat, manager, spawned, told} \subseteq BOOLEAN OBVIOUS
  <2> QED BY <2>1, <2>2, <2>3 DEF JumpTypeOK
<1>2. Choice BY DEF Choice
<1> QED BY <1>1, <1>2 DEF JumpInv, Under

LEMMA JumpInvStep == JumpInv /\ [JumpNext]_jumpVars => JumpInv'
<1> SUFFICES ASSUME JumpInv, [JumpNext]_jumpVars PROVE JumpInv'
  OBVIOUS
<1>0. JumpTypeOK /\ Choice /\ (jump \in Under => Flow) BY DEF JumpInv, Flow
<1>1. CASE UNCHANGED jumpVars
  <2>1. UNCHANGED <<jump, list_only, seat, manager, windows, target, spawned, requests, events,
                    globals, open, matching, focused, told, changes, steady>>
    BY <1>1 DEF jumpVars, clientVars, compositorVars
  <2>2. JumpTypeOK' BY <1>0, <2>1 DEF JumpTypeOK
  <2>3. Choice' BY <1>0, <2>1 DEF Choice
  <2>4. Syncs' = Syncs /\ Dones' = Dones BY <2>1 DEF Syncs, Dones
  <2>5. \A w : (Listed(w)' <=> Listed(w)) /\ (Heard(w)' <=> Heard(w)) BY <2>1 DEF Listed, Heard
  <2>6. \A w, k : News(w, k)' <=> News(w, k) BY <2>1, <2>4, <2>5 DEF News
  <2>7. jump \in Under => OneSync' /\ Offered' /\ BoundFirst'
    BY <1>0, <2>1, <2>4 DEF Flow, OneSync, Offered, BoundFirst
  <2>8. jump \in Under => Steady' BY <1>0, <2>1, <2>5, <2>6 DEF Flow, Steady
  <2> QED BY <2>1, <2>2, <2>3, <2>7, <2>8 DEF JumpInv
<1>2. CASE JumpNext
  <2>1. JumpTypeOK' BY <1>0, <1>2, JumpTyped
  <2>2. Choice'
    <3>1. CASE Connect BY <1>0, <3>1 DEF Choice, Connect, Under
    <3>2. CASE RoundtripDone
      <4>1. UNCHANGED <<target, spawned>> /\ jump' = AfterRoundtrip(jump) /\ jump \in {"first", "second", "last"}
        BY <3>2 DEF RoundtripDone, clientVars
      <4> QED BY <1>0, <4>1 DEF Choice, AfterRoundtrip, Under
    <3>3. CASE Dispatch
      <4>1. UNCHANGED <<target, spawned, jump>> /\ jump \in {"first", "second", "choose", "last"} BY <3>3 DEF Dispatch
      <4> QED BY <1>0, <4>1 DEF Choice, Under
    <3>4. CASE ConnectionLost BY <1>0, <3>4 DEF Choice, ConnectionLost, clientVars, Under
    <3>5. CASE MissingProtocols BY <1>0, <3>5 DEF Choice, MissingProtocols, clientVars, Under
    <3>6. CASE ListWindows BY <1>0, <3>6 DEF Choice, ListWindows, clientVars, Under
    <3>7. CASE Activate BY <1>0, <3>7 DEF Choice, Activate, Choosing, Under
    <3>8. CASE SpawnCommand BY <1>0, <3>8 DEF Choice, SpawnCommand, Under
    <3>9. CASE ServeRequest
      <4>1. UNCHANGED <<target, spawned, jump, manager>> BY <3>9 DEF ServeRequest, clientVars
      <4>2. jump # "off" BY <1>0, <3>9 DEF Choice, ServeRequest
      <4> QED BY <1>0, <4>1, <4>2 DEF Choice, Under
    <3>10. CASE WindowsChange
      <4>1. UNCHANGED <<target, spawned, jump>> /\ jump \in Under BY <3>10 DEF WindowsChange, clientVars, Under
      <4> QED BY <1>0, <4>1 DEF Choice, Under
    <3> QED BY <1>2, <3>1, <3>2, <3>3, <3>4, <3>5, <3>6, <3>7, <3>8, <3>9, <3>10 DEF JumpNext
  <2>3. ASSUME jump' \in Under PROVE Flow'
    <3>1. CASE Connect BY <1>0, <3>1, FlowConnect
    <3>2. CASE RoundtripDone
      <4>1. jump \in {"first", "second"} BY <2>3, <3>2 DEF RoundtripDone, AfterRoundtrip, Under
      <4> QED BY <1>0, <3>2, <4>1, FlowRoundtripDone DEF Under
    <3>3. CASE Dispatch
      <4>1. jump \in Under BY <2>3, <3>3 DEF Dispatch
      <4> QED BY <1>0, <3>3, <4>1, FlowDispatch
    <3>4. CASE ServeRequest
      <4>1. jump \in Under BY <2>3, <3>4 DEF ServeRequest
      <4> QED BY <1>0, <3>4, <4>1, FlowServeRequest
    <3>5. CASE WindowsChange
      <4>1. jump \in Under BY <3>5 DEF WindowsChange, Under
      <4> QED BY <1>0, <3>5, <4>1, FlowWindowsChange
    <3>6. ~ConnectionLost /\ ~MissingProtocols /\ ~ListWindows /\ ~Activate /\ ~SpawnCommand
      BY <2>3 DEF ConnectionLost, MissingProtocols, ListWindows, Activate, SpawnCommand, Under
    <3> QED BY <1>2, <3>1, <3>2, <3>3, <3>4, <3>5, <3>6 DEF JumpNext
  <2> QED BY <2>1, <2>2, <2>3 DEF JumpInv, Flow
<1> QED BY <1>1, <1>2

\* No run gives up on a window it could have jumped to, or jumps to one it should
\* not: with whatever windows, and however often they change.
THEOREM Jumps == JumpSpec => JumpsIfItCan
<1> DEFINE Ran  == spawned' /\ ~spawned => steady = {} /\ target = Nobody
           Went == target' # target =>
                     \E i \in DOMAIN windows :
                       /\ windows[i].window = target' /\ windows[i].matches /\ ~spawned'
                       /\ \A j \in DOMAIN windows : windows[j].matches /\ windows[j].activated => windows[i].activated
<1>1. JumpInv /\ [JumpNext]_jumpVars => [Ran /\ Went]_jumpVars
  <2> SUFFICES ASSUME JumpInv, [JumpNext]_jumpVars PROVE [Ran /\ Went]_jumpVars
    OBVIOUS
  <2>0. JumpTypeOK /\ Choice BY DEF JumpInv
  <2>1. CASE UNCHANGED jumpVars BY <2>1
  <2>2. CASE SpawnCommand
    <3>1. jump = "choose" /\ Selected = Nobody /\ manager /\ UNCHANGED target
      BY <2>2 DEF SpawnCommand, Choosing
    <3>2. Flow BY <3>1 DEF JumpInv, Under, Flow
    <3>3. told BY <3>1, <3>2 DEF Flow, BoundFirst
    <3>4. \A w : ~Listed(w) BY <2>0, <3>1, NobodyListed
    <3>5. \A w, k : ~News(w, k) BY <3>1 DEF News
    <3>6. steady = {} BY <3>2, <3>3, <3>4, <3>5 DEF Flow, Steady
    <3>7. target = Nobody BY <2>0, <3>1 DEF Choice, Under
    <3> QED BY <3>1, <3>6, <3>7
  <2>3. CASE Activate
    <3>1. jump = "choose" /\ Selected # Nobody /\ target' = Selected /\ UNCHANGED spawned
      BY <2>3 DEF Activate, Choosing
    <3>2. ~spawned BY <2>0, <3>1 DEF Choice
    <3>3. \E i \in DOMAIN windows :
              /\ windows[i].window = Selected /\ windows[i].matches
              /\ \A j \in DOMAIN windows : windows[j].matches /\ windows[j].activated => windows[i].activated
      BY <2>0, <3>1, SelectedIs
    <3> QED BY <3>1, <3>2, <3>3
  <2>4. CASE UNCHANGED <<target, spawned>> BY <2>4
  <2>5. ASSUME JumpNext, ~SpawnCommand, ~Activate PROVE UNCHANGED <<target, spawned>>
    BY <2>5 DEF JumpNext, Connect, RoundtripDone, Dispatch, ConnectionLost, MissingProtocols, ListWindows,
                ServeRequest, WindowsChange, clientVars
  <2> QED BY <2>1, <2>2, <2>3, <2>4, <2>5
<1> QED BY <1>1, JumpInvInit, JumpInvStep, PTL DEF JumpSpec, JumpsIfItCan

-----------------------------------------------------------------------------
(* mkdot                                                                   *)

\* The entry e of topic u has been handled.
Handled(u, e) == u < topic \/ (u = topic /\ e \notin walk)

\* What can be in the variables: what is left of a topic is part of it, and the
\* base is closed under directories.
MkTyped ==
  /\ MkTypeOK /\ trees \in Seq(Trees)
  /\ mk = "walk" => topic \in DOMAIN trees /\ walk \subseteq trees[topic]
  /\ mk # "walk" => walk = {} /\ topic = Len(trees)
  /\ \A r \in base : IsDir(base, Front(r.path))

\* What of the old base is still there.
OldKept ==
  /\ mode = "skip" => {r \in oldBase : r.kind # "dangling"} \subseteq base
  /\ \A r \in oldBase \ base : \E t \in DOMAIN trees : \E e \in trees[t] :
       e.kind = "file" /\ r.path \in Target(e.path)
  /\ ~broke => {r.path : r \in oldBase} \subseteq {r.path : r \in base}

\* The entry e of topic u may have put r into the base.
Made(u, e, r) ==
  /\ r.path \in Target(e.path) /\ (r.kind = "dir" <=> e.kind = "dir")
  /\ r.kind = "dangling" => use_symlink /\ ~resolves

\* What is new in the base is there for an entry that was handled.
Sourced ==
  ~broke => \A r \in base \ oldBase : \E u \in DOMAIN trees : \E e \in trees[u] :
              Handled(u, e) /\ Made(u, e, r)

\* A file that can be installed has its directories as soon as they are handled,
\* and then itself.
InPlace ==
  ~broke /\ mode = "force" =>
    \A t \in DOMAIN trees : \A f \in trees[t] : Installable(t, f) =>
      /\ Handled(t, f) => \E r \in base : r.path = Rule(f.path) /\ r.from = t
      /\ \A d \in trees[t] : \A i \in 1 .. Len(f.path) - 1 :
           Handled(t, d) /\ d.path = SubSeq(f.path, 1, i) => IsDir(base, Rule(d.path))

Progress == MkTyped /\ OldKept /\ Sourced /\ InPlace

-----------------------------------------------------------------------------

\* A path without a lone dot stays as it is.
LEMMA UndottedIs ==
  ASSUME NEW S, NEW s \in Seq(S), \A i \in 1 .. Len(s) : s[i] # <<".", "none">>
  PROVE  Undotted(s) = s
<1> DEFINE N == 0 .. Len(s)
      Step(f, i) == IF i = 0 THEN <<>> ELSE IF s[i] = <<".", "none">> THEN f[i - 1] ELSE Append(f[i - 1], s[i])
      G == [i \in N |-> SubSeq(s, 1, i)]
      F == CHOOSE f : f = [i \in N |-> Step(f, i)]
<1>0. Len(s) \in Nat OBVIOUS
<1>1. Undotted(s) = F[Len(s)]
  BY DEF Undotted
<1>2. ASSUME NEW i \in N PROVE SubSeq(s, 1, i) = Step(G, i)
  <2>1. CASE i = 0 BY <2>1
  <2>2. CASE i # 0
    <3>1. i - 1 \in N /\ i \in 1 .. Len(s) /\ i \in Nat BY <1>0, <2>2
    <3>2. G[i - 1] = SubSeq(s, 1, i - 1) BY <3>1
    <3>3. SubSeq(s, 1, i) = Append(SubSeq(s, 1, i - 1), s[i])
      <4>1. SubSeq(s, 1, i - 1) \in Seq(S) /\ Len(SubSeq(s, 1, i - 1)) = i - 1
        BY <1>0, <3>1
      <4>2. SubSeq(s, 1, i) \in Seq(S) /\ Len(SubSeq(s, 1, i)) = i
        BY <1>0, <3>1
      <4> QED BY <1>0, <3>1, <4>1, <4>2
    <3> QED BY <3>1, <3>2, <3>3, <2>2
  <2> QED BY <2>1, <2>2
<1>3. G = [i \in N |-> Step(G, i)]
  BY <1>2
<1>4. F = [i \in N |-> Step(F, i)]
  <2> HIDE DEF G, Step
  <2> QED BY <1>3
<1>5. \A i \in N : F[i] = SubSeq(s, 1, i)
  <2> DEFINE Bad == {i \in N : F[i] # SubSeq(s, 1, i)}
  <2> SUFFICES ASSUME Bad # {} PROVE FALSE OBVIOUS
  <2>0. Bad \subseteq Nat BY <1>0
  <2> HIDE DEF F
  <2>1. PICK i \in Bad : \A j \in Bad : i <= j
    <3> HIDE DEF Bad
    <3> QED BY Least, <2>0
  <2>2. i \in N /\ F[i] = Step(F, i) BY <2>1, <1>4
  <2>3. i # 0
    <3> SUFFICES ASSUME i = 0 PROVE FALSE OBVIOUS
    <3>1. Step(F, i) = Step(G, i) OBVIOUS
    <3> QED BY <1>2, <2>1, <2>2, <3>1
  <2>4. i - 1 \in N /\ i \in 1 .. Len(s) /\ ~(i <= i - 1) BY <1>0, <2>2, <2>3
  <2>5. F[i - 1] = G[i - 1] BY <2>1, <2>4
  <2>6. Step(F, i) = Step(G, i)
    <3> HIDE DEF G
    <3> QED BY <2>5, <2>3
  <2> QED BY <1>2, <2>1, <2>2, <2>6
<1>6. SubSeq(s, 1, Len(s)) = s BY <1>0
<1>7. Len(s) \in N BY <1>0
<1> HIDE DEF F, N
<1> QED BY <1>1, <1>5, <1>6, <1>7

\* Where every dot- has letters enough, there is one place, and it is the one the
\* rule asks for.
LEMMA TargetIsRule ==
  ASSUME NEW path \in Seq({"dot-", "none"} \X STRING),
         \A i \in DOMAIN path : path[i][1] = "dot-" => Letters(path[i][2]) = 2
  PROVE  Target(path) = {Rule(path)} /\ Rule(path) \in Seq({"dot-", "none", "."} \X STRING) /\ Len(Rule(path)) = Len(path)
<1>1. DOMAIN path = 1 .. Len(path) /\ Len(path) \in Nat /\ \A i \in 1 .. Len(path) : path[i] \in {"dot-", "none"} \X STRING
  BY LenProperties, ElementOfSeq
<1>2. \A i \in DOMAIN path : path[i][1] = "dot-" => path[i][2] # "none" BY DEF Letters
<1>3. ASSUME NEW past \in BOOLEAN PROVE Renamed(path, past) = Rule(path)
  <2>1. ASSUME NEW i \in DOMAIN path, path[i][1] = "dot-"
        PROVE  ~(IF Letters(path[i][2]) + (IF i < Len(path) THEN 2 ELSE 0) = 0 THEN past
                 ELSE Letters(path[i][2]) + (IF i < Len(path) THEN 2 ELSE 0) = 1)
    <3>1. Letters(path[i][2]) = 2 BY <2>1
    <3> QED BY <3>1
  <2> QED BY <1>2, <2>1 DEF Renamed, Rule, RuleName
<1>4. \A i \in 1 .. Len(path) : RuleName(path[i]) \in {"dot-", "none", "."} \X STRING /\ RuleName(path[i]) # <<".", "none">>
  BY <1>1, <1>2 DEF RuleName
<1>5. Rule(path) \in Seq({"dot-", "none", "."} \X STRING) /\ Len(Rule(path)) = Len(path)
  BY <1>1, <1>4, LenProperties DEF Rule
<1>6. Undotted(Rule(path)) = Rule(path)
  BY <1>1, <1>4, <1>5, UndottedIs DEF Rule
<1> QED BY <1>3, <1>5, <1>6 DEF Target

\* A path, what is before its last name, and the rule.
LEMMA Fronts ==
  ASSUME NEW path \in Seq({"dot-", "none"} \X STRING), NEW i \in 1 .. Len(path)
  PROVE  /\ Rule(SubSeq(path, 1, i)) = SubSeq(Rule(path), 1, i)
         /\ Front(SubSeq(Rule(path), 1, i)) = SubSeq(Rule(path), 1, i - 1)
         /\ IsPrefix(SubSeq(path, 1, i), path)
         /\ \A j \in 1 .. i : IsPrefix(SubSeq(path, 1, j), SubSeq(path, 1, i))
<1>1. DOMAIN path = 1 .. Len(path) /\ Len(path) \in Nat /\ \A j \in 1 .. Len(path) : path[j] \in {"dot-", "none"} \X STRING
  BY LenProperties, ElementOfSeq
<1>2. \A j \in 1 .. Len(path) : RuleName(path[j]) \in {"dot-", "none", "."} \X STRING
  BY <1>1 DEF RuleName
<1>3. /\ Rule(path) \in Seq({"dot-", "none", "."} \X STRING) /\ Len(Rule(path)) = Len(path)
      /\ \A j \in 1 .. Len(path) : Rule(path)[j] = RuleName(path[j])
  BY <1>1, <1>2, LenProperties DEF Rule
<1>4. ASSUME NEW k \in 1 .. Len(path)
      PROVE  /\ SubSeq(path, 1, k) \in Seq({"dot-", "none"} \X STRING) /\ Len(SubSeq(path, 1, k)) = k
             /\ \A j \in 1 .. k : SubSeq(path, 1, k)[j] = path[j]
             /\ SubSeq(Rule(path), 1, k) \in Seq({"dot-", "none", "."} \X STRING) /\ Len(SubSeq(Rule(path), 1, k)) = k
             /\ \A j \in 1 .. k : SubSeq(Rule(path), 1, k)[j] = Rule(path)[j]
  <2>1. k \in Nat /\ k <= Len(path) /\ k <= Len(Rule(path)) /\ k >= 1 BY <1>1, <1>3
  <2> QED BY <1>1, <1>3, <2>1
<1>5. Rule(SubSeq(path, 1, i)) = SubSeq(Rule(path), 1, i)
  <2>1. Rule(SubSeq(path, 1, i)) = [j \in 1 .. i |-> RuleName(path[j])]
    BY <1>4, LenProperties DEF Rule
  <2>2. SubSeq(Rule(path), 1, i) = [j \in 1 .. i |-> RuleName(path[j])]
    <3>1. DOMAIN SubSeq(Rule(path), 1, i) = 1 .. i BY <1>4, LenProperties
    <3>2. \A j \in 1 .. i : SubSeq(Rule(path), 1, i)[j] = RuleName(path[j]) BY <1>1, <1>3, <1>4
    <3>3. SubSeq(Rule(path), 1, i) = [j \in DOMAIN SubSeq(Rule(path), 1, i) |-> SubSeq(Rule(path), 1, i)[j]]
      BY <1>4
    <3> QED BY <3>1, <3>2, <3>3
  <2> QED BY <2>1, <2>2
<1>6. Front(SubSeq(Rule(path), 1, i)) = SubSeq(Rule(path), 1, i - 1)
  <2>1. i \in Nat /\ i <= Len(Rule(path)) /\ i - 1 \in Nat BY <1>1, <1>3
  <2> QED BY <1>1, <1>3, <1>4, <2>1 DEF Front
<1>7. ASSUME NEW k \in 1 .. Len(path), NEW j \in 1 .. k
      PROVE  SubSeq(SubSeq(path, 1, k), 1, j) = SubSeq(path, 1, j)
  <2>1. j \in Nat /\ k \in Nat /\ j <= k /\ 1 <= j /\ k <= Len(path) /\ j \in 1 .. Len(path) BY <1>1
  <2> QED BY <1>1, <1>4, <2>1
<1>8. IsPrefix(SubSeq(path, 1, i), path)
  <2>1. i \in Nat /\ i <= Len(path) BY <1>1
  <2> QED BY <1>1, <1>4, <1>7, <2>1 DEF IsPrefix
<1>9. ASSUME NEW j \in 1 .. i PROVE IsPrefix(SubSeq(path, 1, j), SubSeq(path, 1, i))
  <2>1. j \in Nat /\ i \in Nat /\ j <= i /\ j \in 1 .. Len(path) /\ j \in 1 .. j BY <1>1
  <2> QED BY <1>1, <1>4, <1>7, <2>1 DEF IsPrefix
<1> QED BY <1>5, <1>6, <1>8, <1>9

-----------------------------------------------------------------------------

\* What a step may do to the base for the entry e, at the place p.
Change(e, p) ==
  /\ p \in Target(e.path)
  /\ \A r \in base : \/ r \in base'
                     \/ r.path = p /\ r.kind # "dir" /\ e.kind = "file" /\ (mode = "skip" => r.kind = "dangling")
  /\ \A r \in base' : \/ r \in base
                      \/ /\ r.path = p /\ r.kind \in {"dir", "file", "link", "dangling"} /\ IsDir(base, Front(p))
                         /\ \A s \in base' : s.path = p => s = r
                         /\ ~broke' => Made(topic, e, r)
  /\ ~broke' => \A r \in base : \E s \in base' : s.path = r.path
  /\ ~broke' /\ e.kind = "dir" => p = <<>> \/ There(base', p) # {} \/ ~IsDir(base, Front(p))
  /\ ~broke' /\ e.kind = "file" /\ mode = "force" =>
       \/ IsDir(base, p) \/ ~IsDir(base, Front(p))
       \/ use_symlink /\ \E r \in base : r.path = p /\ r.kind = "dangling"
       \/ \E r \in base' : r.path = p /\ r.from = topic

\* ensure_dir, and the outcomes of install_handle for a file.
LEMMA HeldIs ==
  ASSUME NEW p, NEW k, NEW g
  PROVE  Held(p, k, g).path = p /\ Held(p, k, g).kind = k /\ Held(p, k, g).from = g
BY DEF Held

LEMMA InstallDirChanges ==
  ASSUME NEW e, NEW p \in Target(e.path), InstallDir(e, p)
  PROVE  Change(e, p) /\ (broke => broke')
<1> USE DEF InstallDir, There
<1>1. CASE UNCHANGED <<base, broke>> /\ (p = <<>> \/ There(base, p) # {} \/ ~IsDir(base, Front(p)))
  BY <1>1 DEF Change
<1>2. CASE broke' = TRUE /\ UNCHANGED base
  BY <1>2 DEF Change
<1>3. CASE /\ There(base, p) = {} /\ IsDir(base, Front(p))
           /\ base' = base \cup {Held(p, "dir", topic)} /\ UNCHANGED broke
  <2>1. e.kind = "dir" OBVIOUS
  <2>2. \A s \in base' : s \in base \/ s = Held(p, "dir", topic) BY <1>3
  <2>3. \A s \in base : s.path # p BY <1>3
  <2>4. Made(topic, e, Held(p, "dir", topic)) BY HeldIs, <2>1 DEF Made
  <2>5. Held(p, "dir", topic) \in There(base', p) BY <1>3, HeldIs
  <2> QED BY <1>3, <2>1, <2>2, <2>3, <2>4, <2>5, HeldIs DEF Change
<1> QED BY <1>1, <1>2, <1>3

LEMMA KeepChanges ==
  ASSUME NEW e, NEW p \in Target(e.path), Keep(e, p)
  PROVE  Change(e, p) /\ (broke => broke')
BY DEF Keep, Change

LEMMA ReplaceChanges ==
  ASSUME MkTyped, NEW e, NEW p \in Target(e.path), Replace(e, p)
  PROVE  Change(e, p) /\ (broke => broke')
<1> DEFINE b == IF Access(base, p) THEN base \ There(base, p) ELSE base
<1>0. e.kind = "file" /\ ~IsDir(base, p) /\ (Access(base, p) => mode # "skip") /\ p # <<>>
  BY DEF Replace, IsDir
<1>1. b \subseteq base /\ \A r \in base : r \in b \/ r.path = p
  BY DEF There
<1>2. \A r \in base : r.path = p => r.kind # "dir" /\ (mode = "skip" => r.kind = "dangling")
  BY <1>0 DEF IsDir, Access, There
<1>3. Access(base, p) => There(b, p) = {} /\ IsDir(b, Front(p))
  <2> SUFFICES ASSUME Access(base, p) PROVE There(b, p) = {} /\ IsDir(b, Front(p)) OBVIOUS
  <2>1. There(b, p) = {} BY DEF There
  <2>2. PICK r \in base : r.path = p BY <1>0 DEF Access, There
  <2>3. IsDir(base, Front(p)) BY <2>2 DEF MkTyped
  <2>4. CASE Front(p) = <<>> BY <2>1, <2>4 DEF IsDir
  <2>5. CASE Front(p) # <<>>
    <3>1. PICK d \in base : d.path = Front(p) /\ d.kind = "dir" BY <2>3, <2>5 DEF IsDir, There
    <3>2. d.path # p BY <3>1, <1>2
    <3> QED BY <3>1, <3>2, <1>1 DEF IsDir, There
  <2> QED BY <2>1, <2>4, <2>5
<1>4. ~Access(base, p) => b = base /\ \A r \in base : r.path = p => r.kind = "dangling"
  BY DEF Access, There
<1>5. IsDir(b, Front(p)) => IsDir(base, Front(p))
  BY <1>1 DEF IsDir, There
<1>6. \/ base' \in Put(b, p) /\ UNCHANGED broke
      \/ Put(b, p) = {} /\ base' = b /\ UNCHANGED broke
      \/ base' \in Partial(b, p) /\ broke' = TRUE
  BY DEF Replace
<1> HIDE DEF b
<1>7. ASSUME NEW c \in Put(b, p)
      PROVE  \E h : /\ c = (b \ There(b, p)) \cup {h} /\ IsDir(b, Front(p)) /\ h.path = p /\ h.from = topic
                    /\ h.kind \in {"file", "link", "dangling"} /\ (h.kind = "dangling" => use_symlink /\ ~resolves)
  <2>1. IsDir(b, Front(p)) /\ ~(use_symlink /\ There(b, p) # {}) BY <1>7 DEF Put
  <2>2. CASE use_symlink
    <3> DEFINE h == Held(p, IF resolves THEN "link" ELSE "dangling", topic)
    <3>1. c = b \cup {h} /\ There(b, p) = {} BY <1>7, <2>1, <2>2 DEF Put
    <3>2. c = (b \ There(b, p)) \cup {h} BY <3>1
    <3>3. h.path = p /\ h.from = topic /\ h.kind = IF resolves THEN "link" ELSE "dangling" BY HeldIs
    <3> HIDE DEF h
    <3> QED BY <2>1, <2>2, <3>2, <3>3
  <2>3. CASE ~use_symlink
    <3> DEFINE h == Held(p, IF There(b, p) = {} THEN "file" ELSE "link", topic)
    <3>1. c = (b \ There(b, p)) \cup {h} BY <1>7, <2>1, <2>3 DEF Put
    <3>2. h.path = p /\ h.from = topic /\ h.kind = IF There(b, p) = {} THEN "file" ELSE "link" BY HeldIs
    <3> HIDE DEF h
    <3> QED BY <2>1, <3>1, <3>2
  <2> QED BY <2>2, <2>3
<1>8. ASSUME NEW h, base' = (b \ There(b, p)) \cup {h}, IsDir(base, Front(p)), h.path = p,
             h.kind \in {"file", "link", "dangling"},
             ~broke' => h.from = topic /\ (h.kind = "dangling" => use_symlink /\ ~resolves)
      PROVE  Change(e, p)
  <2>1. \A r \in base : r \in base' \/ r.path = p BY <1>1, <1>8 DEF There
  <2>2. h \in base' /\ \A s \in base' : s = h \/ (s \in base /\ s.path # p) BY <1>1, <1>8 DEF There
  <2>3. ~broke' => Made(topic, e, h) BY <1>0, <1>8 DEF Made
  <2> QED BY <1>0, <1>2, <1>8, <2>1, <2>2, <2>3 DEF Change
<1>9. CASE base' \in Put(b, p) /\ UNCHANGED broke
  <2>1. PICK h : /\ base' = (b \ There(b, p)) \cup {h} /\ IsDir(b, Front(p)) /\ h.path = p /\ h.from = topic
                 /\ h.kind \in {"file", "link", "dangling"} /\ (h.kind = "dangling" => use_symlink /\ ~resolves)
    BY <1>7, <1>9
  <2> QED BY <1>5, <1>8, <1>9, <2>1
<1>10. CASE Put(b, p) = {} /\ base' = b /\ UNCHANGED broke
  <2>1. ~Access(base, p) BY <1>3, <1>10 DEF Put
  <2>2. base' = base BY <1>4, <1>10, <2>1
  <2>3. ~IsDir(b, Front(p)) \/ (use_symlink /\ There(b, p) # {}) BY <1>10 DEF Put
  <2>4. ~IsDir(base, Front(p)) \/ (use_symlink /\ \E r \in base : r.path = p /\ r.kind = "dangling")
    BY <1>4, <2>1, <2>3 DEF There
  <2> QED BY <1>0, <1>10, <2>2, <2>4 DEF Change
<1>11. CASE base' \in Partial(b, p) /\ broke' = TRUE
  <2>1. CASE base' = b BY <1>0, <1>1, <1>2, <1>11, <2>1 DEF Change
  <2>2. CASE base' # b
    <3>1. PICK c \in Put(b, p) : base' = (c \ There(c, p)) \cup {Held(p, "file", 0)}
      BY <1>11, <2>2 DEF Partial
    <3>2. PICK h : c = (b \ There(b, p)) \cup {h} /\ IsDir(b, Front(p)) /\ h.path = p
      BY <1>7, <3>1
    <3>3. c \ There(c, p) = b \ There(b, p) BY <3>2 DEF There
    <3>4. base' = (b \ There(b, p)) \cup {Held(p, "file", 0)} BY <3>1, <3>3
    <3>5. IsDir(base, Front(p)) BY <1>5, <3>2
    <3>6. broke' BY <1>11
    <3> QED BY <1>8, <1>11, <3>4, <3>5, <3>6, HeldIs
  <2> QED BY <2>1, <2>2
<1> QED BY <1>6, <1>9, <1>10, <1>11

\* A step of the walk.
LEMMA InstallChanges ==
  ASSUME MkTyped, Install
  PROVE  \E e \in walk :
           /\ \A d \in walk : d = e \/ ~IsPrefix(d.path, e.path)
           /\ walk' \subseteq walk /\ (broke => broke') /\ (~broke' => walk' = walk \ {e})
           /\ (broke' = TRUE /\ base' = base) \/ \E p : Change(e, p)
<1>1. PICK e \in walk :
        /\ \A d \in walk : d = e \/ ~IsPrefix(d.path, e.path)
        /\ \/ walk' = walk \ {e} /\ \E p \in Target(e.path) : InstallDir(e, p) \/ Keep(e, p) \/ Replace(e, p)
           \/ walk' = {d \in walk : ~IsPrefix(e.path, d.path)} /\ broke' = TRUE /\ UNCHANGED base
  BY DEF Install
<1>2. CASE walk' = {d \in walk : ~IsPrefix(e.path, d.path)} /\ broke' = TRUE /\ UNCHANGED base
  BY <1>1, <1>2
<1>3. CASE walk' = walk \ {e} /\ \E p \in Target(e.path) : InstallDir(e, p) \/ Keep(e, p) \/ Replace(e, p)
  <2>1. PICK p \in Target(e.path) : InstallDir(e, p) \/ Keep(e, p) \/ Replace(e, p) BY <1>3
  <2>2. Change(e, p) /\ (broke => broke') BY <2>1, InstallDirChanges, KeepChanges, ReplaceChanges
  <2> QED BY <1>1, <1>3, <2>2
<1> QED BY <1>1, <1>2, <1>3

-----------------------------------------------------------------------------

\* The file f of topic t has one place, which no other file takes after it.
AtItsPlace(t, f) ==
  /\ f.kind = "file" /\ Len(f.path) \in Nat \ {0}
  /\ Target(f.path) = {Rule(f.path)} /\ Rule(f.path) # <<>>
  /\ Front(Rule(f.path)) = SubSeq(Rule(f.path), 1, Len(f.path) - 1)
  /\ SubSeq(Rule(f.path), 1, 0) = <<>>
  /\ \A u \in DOMAIN trees : \A e \in trees[u] :
       Rule(f.path) \in Target(e.path) => (u = t /\ e = f) \/ (e.kind = "file" /\ u < t)
  /\ \A i \in 1 .. Len(f.path) - 1 :
       \E d \in trees[t] : d # f /\ d.path = SubSeq(f.path, 1, i) /\ IsPrefix(d.path, f.path)

\* So does the entry d, which is i names down the way to it, a directory there.
OnItsWay(t, f, d, i) ==
  /\ d.kind = "dir" /\ Target(d.path) = {Rule(d.path)} /\ Rule(d.path) # <<>>
  /\ Rule(d.path) = SubSeq(Rule(f.path), 1, i)
  /\ Front(Rule(d.path)) = SubSeq(Rule(f.path), 1, i - 1)
  /\ \A u \in DOMAIN trees : \A e \in trees[u] : Rule(d.path) \in Target(e.path) => e.kind = "dir"
  /\ \A r \in oldBase : r.path = Rule(d.path) => r.kind = "dir"
  /\ \A j \in 1 .. i - 1 : \E c \in trees[t] :
       c # d /\ c.path = SubSeq(f.path, 1, j) /\ IsPrefix(c.path, d.path)

LEMMA InstallableIs ==
  ASSUME MkTyped, NEW t \in DOMAIN trees, NEW f \in trees[t], Installable(t, f)
  PROVE  /\ AtItsPlace(t, f)
         /\ \A d \in trees[t] : \A i \in 1 .. Len(f.path) - 1 :
              d.path = SubSeq(f.path, 1, i) => OnItsWay(t, f, d, i)
<1> DEFINE place == Rule(f.path)
      n == Len(f.path)
      Names == {"dot-", "none"} \X STRING
      onTheWay == {SubSeq(place, 1, i) : i \in 1 .. Len(place) - 1}
<1>1. trees[t] \in Trees /\ Whole(trees[t])
  BY TreesAssumption, ElementOfSeq DEF MkTyped
<1>2. f.path \in Seq(Names) /\ f.path # <<>> BY <1>1 DEF Whole
<1>3. n \in Nat \ {0} /\ DOMAIN f.path = 1 .. n BY <1>2, LenProperties, EmptySeq
<1>4. \A i \in DOMAIN f.path : f.path[i][1] = "dot-" => Letters(f.path[i][2]) = 2 BY DEF Installable
<1>5. Target(f.path) = {place} /\ place \in Seq({"dot-", "none", "."} \X STRING) /\ Len(place) = n
  BY <1>2, <1>4, TargetIsRule
<1>6. place # <<>> BY <1>3, <1>5, EmptySeq
<1>7. \A u \in DOMAIN trees : \A e \in trees[u] :
        place \in Target(e.path) => (u = t /\ e = f) \/ (e.kind = "file" /\ u < t)
  BY DEF Installable
<1>8. SubSeq(place, 1, n) = place BY <1>3, <1>5
<1>9. Front(place) = SubSeq(place, 1, n - 1) BY <1>5 DEF Front
<1>10. SubSeq(place, 1, 0) = <<>> BY <1>5
<1>11. \A i \in 1 .. n - 1 : i \in 1 .. n /\ i \in Nat /\ i # n BY <1>3
<1>12. \A i \in 1 .. n : SubSeq(f.path, 1, i) \in Seq(Names) /\ Len(SubSeq(f.path, 1, i)) = i
                         /\ \A j \in 1 .. i : SubSeq(f.path, 1, i)[j] = f.path[j]
  <2> TAKE i \in 1 .. n
  <2>1. i \in Nat /\ i <= n BY <1>3
  <2> QED BY <1>2, <1>3, <2>1
<1>13. ASSUME NEW i \in 1 .. n - 1
       PROVE  \E d \in trees[t] : d # f /\ d.path = SubSeq(f.path, 1, i) /\ d.kind = "dir" /\ IsPrefix(d.path, f.path)
  <2>1. PICK d \in trees[t] : d.path = SubSeq(f.path, 1, i) /\ d.kind = "dir" BY <1>1 DEF Whole
  <2>2. d # f BY <2>1 DEF Installable
  <2> QED BY <1>2, <1>11, <2>1, <2>2, Fronts
<1>14. ASSUME NEW d \in trees[t], NEW i \in 1 .. n - 1, d.path = SubSeq(f.path, 1, i)
       PROVE  OnItsWay(t, f, d, i)
  <2>1. d.kind = "dir"
    <3>1. PICK c \in trees[t] : c.path = SubSeq(f.path, 1, i) /\ c.kind = "dir" BY <1>13
    <3>2. \A x, y \in trees[t] : x.path = y.path => x = y BY <1>1 DEF Whole
    <3>3. c = d BY <1>14, <3>1, <3>2
    <3> QED BY <3>1, <3>3
  <2>2. i \in 1 .. n /\ d.path \in Seq(Names) /\ Len(d.path) = i /\ DOMAIN d.path = 1 .. i
    <3> HIDE DEF n, Names
    <3>1. i \in 1 .. n BY <1>11
    <3>2. d.path \in Seq(Names) /\ Len(d.path) = i BY <1>12, <1>14, <3>1
    <3>3. DOMAIN d.path = 1 .. i BY <3>2, LenProperties
    <3> QED BY <3>1, <3>2, <3>3
  <2>3. \A j \in DOMAIN d.path : d.path[j][1] = "dot-" => Letters(d.path[j][2]) = 2
    <3> HIDE DEF n, Names
    <3>1. \A j \in 1 .. i : d.path[j] = f.path[j] BY <1>12, <1>14, <2>2
    <3>2. \A j \in 1 .. i : j \in 1 .. n BY <1>3, <2>2
    <3> QED BY <1>3, <1>4, <2>2, <3>1, <3>2
  <2>4. /\ Target(d.path) = {Rule(d.path)}
        /\ Len(Rule(d.path)) = i /\ Rule(d.path) \in Seq({"dot-", "none", "."} \X STRING)
    BY <2>2, <2>3, TargetIsRule
  <2>5. Rule(d.path) # <<>>
    <3>1. i # 0 BY <1>11
    <3>2. Len(<<>>) = 0 OBVIOUS
    <3> QED BY <2>4, <3>1, <3>2
  <2>6. Rule(d.path) = SubSeq(place, 1, i) /\ Front(Rule(d.path)) = SubSeq(place, 1, i - 1)
    <3>1. i \in 1 .. Len(f.path) BY <2>2
    <3>2. /\ Rule(SubSeq(f.path, 1, i)) = SubSeq(Rule(f.path), 1, i)
          /\ Front(SubSeq(Rule(f.path), 1, i)) = SubSeq(Rule(f.path), 1, i - 1)
      <4> HIDE DEF place, n, onTheWay
      <4> QED BY <1>2, <3>1, Fronts
    <3> HIDE DEF onTheWay
    <3> QED BY <1>14, <3>2
  <2>7. Rule(d.path) \in onTheWay BY <1>5, <2>6
  <2>8. \A u \in DOMAIN trees : \A e \in trees[u] : Rule(d.path) \in Target(e.path) => e.kind = "dir"
    BY <2>7 DEF Installable
  <2>9. \A r \in oldBase : r.path = Rule(d.path) => r.kind = "dir" BY <2>7 DEF Installable
  <2>10. ASSUME NEW j \in 1 .. i - 1
         PROVE  \E c \in trees[t] : c # d /\ c.path = SubSeq(f.path, 1, j) /\ IsPrefix(c.path, d.path)
    <3>1. j \in 1 .. n - 1 /\ j \in 1 .. i /\ j # i BY <1>3, <1>11
    <3>2. PICK c \in trees[t] : c.path = SubSeq(f.path, 1, j) BY <3>1, <1>13
    <3>3. c # d BY <3>1, <3>2, <1>11, <1>12, <2>2
    <3>4. IsPrefix(c.path, d.path) BY <1>2, <1>14, <2>2, <3>1, <3>2, Fronts
    <3> QED BY <3>2, <3>3, <3>4
  <2> QED BY <2>1, <2>4, <2>5, <2>6, <2>8, <2>9, <2>10 DEF OnItsWay
<1>15. f.kind = "file" BY DEF Installable
<1>16. AtItsPlace(t, f)
  BY <1>3, <1>5, <1>6, <1>7, <1>9, <1>10, <1>13, <1>15 DEF AtItsPlace
<1> QED BY <1>14, <1>16

\* Nothing else can be where a file is to go before it is there.
LEMMA PlaceIsFree ==
  ASSUME MkTyped, Sourced, ~broke, NEW t \in DOMAIN trees, NEW f \in trees[t], Installable(t, f), ~Handled(t, f)
  PROVE  \A r \in base : r.path = Rule(f.path) => r.kind # "dir" /\ (use_symlink => r.kind # "dangling")
<1> SUFFICES ASSUME NEW r \in base, r.path = Rule(f.path)
             PROVE  r.kind # "dir" /\ (use_symlink => r.kind # "dangling")
  OBVIOUS
<1>1. CASE r \in oldBase BY <1>1 DEF Installable
<1>2. CASE r \notin oldBase
  <2>1. PICK u \in DOMAIN trees : \E e \in trees[u] : Handled(u, e) /\ Made(u, e, r) BY <1>2 DEF Sourced
  <2>2. PICK e \in trees[u] : Handled(u, e) /\ Made(u, e, r) BY <2>1
  <2>3. (u = t /\ e = f) \/ (e.kind = "file" /\ u < t) BY <2>2, InstallableIs DEF Made, AtItsPlace
  <2>4. ~(u = t /\ e = f) BY <2>2
  <2>5. r.kind # "dir" BY <2>2, <2>3, <2>4 DEF Made
  <2>6. ASSUME use_symlink, r.kind = "dangling" PROVE FALSE
    <3>1. ~resolves BY <2>2, <2>6 DEF Made
    <3> QED BY <2>2, <2>4, <2>6, <3>1 DEF Installable, Made
  <2> QED BY <2>5, <2>6
<1> QED BY <1>1, <1>2

-----------------------------------------------------------------------------

\* What an entry does, for each part of the invariant.
LEMMA TypedInstall == MkTyped /\ Install => MkTyped'
<1> SUFFICES ASSUME MkTyped, Install PROVE MkTyped' OBVIOUS
<1>1. PICK e \in walk :
        /\ walk' \subseteq walk
        /\ (broke' = TRUE /\ base' = base) \/ \E p : Change(e, p)
  BY InstallChanges
<1>2. mk = "walk" /\ UNCHANGED <<mk, mkOptions, topic>> BY DEF Install
<1>3. CASE base' = base BY <1>1, <1>2, <1>3 DEF MkTyped, MkTypeOK, mkOptions, Install, InstallDir, Keep, Replace
<1>4. ASSUME NEW p, Change(e, p) PROVE MkTyped'
  <2>1. \A r \in base : r.kind = "dir" => r \in base' BY <1>4 DEF Change
  <2>2. \A q : IsDir(base, q) => IsDir(base', q) BY <2>1 DEF IsDir, There
  <2>3. \A r \in base' : IsDir(base', Front(r.path)) BY <1>4, <2>2 DEF Change, MkTyped
  <2>4. \A r, s \in base' : r.path = s.path => r = s
    <3> SUFFICES ASSUME NEW r \in base', NEW s \in base', r.path = s.path PROVE r = s OBVIOUS
    <3>1. CASE r \in base /\ s \in base BY <3>1 DEF MkTyped, MkTypeOK
    <3>2. CASE r \notin base BY <1>4, <3>2 DEF Change
    <3>3. CASE s \notin base BY <1>4, <3>3 DEF Change
    <3> QED BY <3>1, <3>2, <3>3
  <2>5. \A r \in base' : r.kind \in {"dir", "file", "link", "dangling"}
    BY <1>4 DEF Change, MkTyped, MkTypeOK
  <2>6. broke' \in BOOLEAN BY DEF Install, MkTyped, MkTypeOK, InstallDir, Keep, Replace
  <2> QED BY <1>1, <1>2, <2>3, <2>4, <2>5, <2>6 DEF MkTyped, MkTypeOK, mkOptions
<1> QED BY <1>1, <1>3, <1>4

LEMMA KeptInstall == MkTyped /\ OldKept /\ Install => OldKept'
<1> SUFFICES ASSUME MkTyped, OldKept, Install PROVE OldKept' OBVIOUS
<1>1. PICK e \in walk :
        /\ broke => broke'
        /\ (broke' = TRUE /\ base' = base) \/ \E p : Change(e, p)
  BY InstallChanges
<1>2. mk = "walk" /\ UNCHANGED <<mode, trees, oldBase>> /\ topic \in DOMAIN trees /\ e \in trees[topic]
  BY <1>1 DEF Install, mkOptions, MkTyped
<1>3. CASE broke' = TRUE /\ base' = base BY <1>2, <1>3 DEF OldKept
<1>4. ASSUME NEW p, Change(e, p) PROVE OldKept'
  <2>1. mode = "skip" => {r \in oldBase : r.kind # "dangling"} \subseteq base'
    BY <1>4 DEF Change, OldKept
  <2>2. ASSUME NEW r \in oldBase \ base'
        PROVE  \E t \in DOMAIN trees : \E d \in trees[t] : d.kind = "file" /\ r.path \in Target(d.path)
    <3>1. CASE r \in base BY <1>2, <1>4, <2>2, <3>1 DEF Change
    <3>2. CASE r \notin base BY <2>2, <3>2 DEF OldKept
    <3> QED BY <3>1, <3>2
  <2>3. ASSUME ~broke', NEW r \in oldBase PROVE \E s \in base' : s.path = r.path
    <3>1. PICK s \in base : s.path = r.path BY <1>1, <2>3 DEF OldKept
    <3> QED BY <1>4, <2>3, <3>1 DEF Change
  <2> QED BY <1>2, <2>1, <2>2, <2>3 DEF OldKept
<1> QED BY <1>1, <1>3, <1>4

LEMMA SourcedInstall == MkTyped /\ Sourced /\ Install => Sourced'
<1> SUFFICES ASSUME MkTyped, Sourced, Install, ~broke' PROVE Sourced' BY DEF Sourced
<1>1. PICK e \in walk :
        /\ broke => broke'
        /\ ~broke' => walk' = walk \ {e}
        /\ (broke' = TRUE /\ base' = base) \/ \E p : Change(e, p)
  BY InstallChanges
<1>2. PICK p : Change(e, p) BY <1>1
<1>3. UNCHANGED <<use_symlink, resolves, trees, oldBase, topic>> /\ topic \in DOMAIN trees /\ e \in trees[topic]
  BY <1>1 DEF Install, mkOptions, MkTyped
<1>4. \A u, d : Handled(u, d) => Handled(u, d)' BY <1>1, <1>3 DEF Handled
<1>5. \A u, d, r : Made(u, d, r) => Made(u, d, r)' BY <1>3 DEF Made
<1>6. ASSUME NEW r \in base' \ oldBase
      PROVE  \E u \in DOMAIN trees : \E d \in trees[u] : Handled(u, d)' /\ Made(u, d, r)'
  <2>1. CASE r \in base
    <3>1. PICK u \in DOMAIN trees : \E d \in trees[u] : Handled(u, d) /\ Made(u, d, r)
      BY <1>1, <1>6, <2>1 DEF Sourced
    <3> QED BY <1>4, <1>5, <3>1
  <2>2. CASE r \notin base
    <3>1. Made(topic, e, r) BY <1>2, <1>6, <2>2 DEF Change
    <3>2. Handled(topic, e)' BY <1>1, <1>3 DEF Handled
    <3> QED BY <1>3, <1>5, <3>1, <3>2
  <2> QED BY <2>1, <2>2
<1> QED BY <1>3, <1>6 DEF Sourced

LEMMA InPlaceInstall == MkTyped /\ Sourced /\ InPlace /\ Install => InPlace'
<1> SUFFICES ASSUME MkTyped, Sourced, InPlace, Install, ~broke', mode = "force" PROVE InPlace'
  BY DEF InPlace, Install, mkOptions
<1>1. PICK e \in walk :
        /\ \A d \in walk : d = e \/ ~IsPrefix(d.path, e.path)
        /\ broke => broke'
        /\ ~broke' => walk' = walk \ {e}
        /\ (broke' = TRUE /\ base' = base) \/ \E p : Change(e, p)
  BY InstallChanges
<1>2. PICK p : Change(e, p) BY <1>1
<1>3. UNCHANGED <<mode, use_symlink, resolves, trees, oldBase, topic>> /\ topic \in DOMAIN trees /\ e \in trees[topic]
  BY <1>1 DEF Install, mkOptions, MkTyped
<1>4. topic \in Nat /\ DOMAIN trees \subseteq Nat /\ ~broke BY <1>1, <1>3, LenProperties DEF MkTyped
<1>5. \A q : IsDir(base, q) => IsDir(base', q) BY <1>2 DEF IsDir, There, Change
<1>6. Sourced' BY SourcedInstall
<1>7. \A u, d : Handled(u, d)' => Handled(u, d) \/ (u = topic /\ d = e) BY <1>1, <1>3 DEF Handled
<1>8. \A d \in trees[topic] : d # e /\ IsPrefix(d.path, e.path) => Handled(topic, d) BY <1>1 DEF Handled
<1>9. ~Handled(topic, e) BY <1>1, <1>4 DEF Handled
<1>10. SUFFICES ASSUME NEW t \in DOMAIN trees, NEW f \in trees[t], Installable(t, f)
       PROVE  /\ Handled(t, f)' => \E r \in base' : r.path = Rule(f.path) /\ r.from = t
              /\ \A d \in trees[t] : \A i \in 1 .. Len(f.path) - 1 :
                   Handled(t, d)' /\ d.path = SubSeq(f.path, 1, i) => IsDir(base', Rule(d.path))
  <2>1. \A t, f : Installable(t, f)' <=> Installable(t, f) BY <1>3 DEF Installable
  <2> QED BY <1>3, <1>10, <2>1 DEF InPlace
<1>11. /\ AtItsPlace(t, f)
      /\ \A d \in trees[t] : \A i \in 1 .. Len(f.path) - 1 :
           d.path = SubSeq(f.path, 1, i) => OnItsWay(t, f, d, i)
  BY <1>10, InstallableIs
<1>12. /\ Handled(t, f) => \E r \in base : r.path = Rule(f.path) /\ r.from = t
       /\ \A d \in trees[t] : \A i \in 1 .. Len(f.path) - 1 :
            Handled(t, d) /\ d.path = SubSeq(f.path, 1, i) => IsDir(base, Rule(d.path))
  BY <1>4, <1>10 DEF InPlace
<1>13. ASSUME Handled(t, f) PROVE \E r \in base' : r.path = Rule(f.path) /\ r.from = t
  <2>1. PICK r \in base : r.path = Rule(f.path) /\ r.from = t BY <1>12, <1>13
  <2>2. ASSUME r \notin base' PROVE FALSE
    <3>1. Rule(f.path) \in Target(e.path) BY <1>2, <2>1, <2>2 DEF Change
    <3>2. (topic = t /\ e = f) \/ topic < t BY <1>3, <1>11, <3>1 DEF AtItsPlace
    <3>3. t <= topic BY <1>4, <1>13 DEF Handled
    <3>4. topic = t /\ e = f BY <1>4, <3>2, <3>3
    <3> QED BY <1>9, <1>13, <3>4
  <2> QED BY <2>1, <2>2
<1>14. ASSUME t = topic, f = e PROVE \E r \in base' : r.path = Rule(f.path) /\ r.from = t
  <2>1. p = Rule(f.path) /\ p # <<>> /\ e.kind = "file" BY <1>2, <1>11, <1>14 DEF Change, AtItsPlace
  <2>2. \A r \in base : r.path = p => r.kind # "dir" /\ (use_symlink => r.kind # "dangling")
    BY <1>4, <1>9, <1>10, <1>14, <2>1, PlaceIsFree
  <2>3. ~IsDir(base, p) BY <2>1, <2>2 DEF IsDir, There
  <2>4. IsDir(base, Front(p))
    <3> DEFINE n == Len(f.path)
    <3>1. n \in Nat \ {0} /\ Front(p) = SubSeq(Rule(f.path), 1, n - 1) BY <1>11, <2>1 DEF AtItsPlace
    <3>2. CASE n = 1
      <4>1. Front(p) = <<>> BY <1>11, <3>1, <3>2 DEF AtItsPlace
      <4> QED BY <4>1 DEF IsDir
    <3>3. CASE n # 1
      <4>1. n - 1 \in 1 .. n - 1
        <5> HIDE DEF n
        <5> QED BY <3>1, <3>3
      <4>2. PICK d \in trees[t] : d # f /\ d.path = SubSeq(f.path, 1, n - 1) /\ IsPrefix(d.path, f.path)
        BY <1>11, <4>1 DEF AtItsPlace
      <4>3. Handled(t, d) BY <1>8, <1>14, <4>2
      <4>4. IsDir(base, Rule(d.path)) BY <1>12, <4>1, <4>2, <4>3
      <4>5. Rule(d.path) = SubSeq(Rule(f.path), 1, n - 1) BY <1>11, <4>1, <4>2 DEF OnItsWay
      <4> QED BY <3>1, <4>4, <4>5
    <3> QED BY <3>2, <3>3
  <2> QED BY <1>2, <1>10, <1>14, <2>1, <2>2, <2>3, <2>4 DEF Change
<1>15. ASSUME t = topic, NEW i \in 1 .. Len(f.path) - 1, e.path = SubSeq(f.path, 1, i)
       PROVE  IsDir(base', Rule(e.path))
  <2> DEFINE q == Rule(e.path)
  <2>1. e \in trees[t] BY <1>3, <1>15
  <2>2. /\ e.kind = "dir" /\ Target(e.path) = {q} /\ q # <<>> /\ Front(q) = SubSeq(Rule(f.path), 1, i - 1)
        /\ \A u \in DOMAIN trees : \A d \in trees[u] : q \in Target(d.path) => d.kind = "dir"
        /\ \A r \in oldBase : r.path = q => r.kind = "dir"
        /\ \A j \in 1 .. i - 1 : \E c \in trees[t] : c # e /\ c.path = SubSeq(f.path, 1, j) /\ IsPrefix(c.path, e.path)
    <3>1. OnItsWay(t, f, e, i) BY <1>11, <1>15, <2>1
    <3> QED BY <3>1 DEF OnItsWay
  <2>3. p = q BY <1>2, <2>2 DEF Change
  <2>4. Len(f.path) \in Nat BY <1>11 DEF AtItsPlace
  <2>5. IsDir(base, Front(q))
    <3>1. CASE i = 1
      <4>1. Front(q) = <<>> BY <1>11, <2>2, <3>1 DEF AtItsPlace
      <4> QED BY <4>1 DEF IsDir
    <3>2. CASE i # 1
      <4>1. i - 1 \in 1 .. i - 1 /\ i - 1 \in 1 .. Len(f.path) - 1 BY <2>4, <3>2
      <4>2. PICK c \in trees[t] : c # e /\ c.path = SubSeq(f.path, 1, i - 1) /\ IsPrefix(c.path, e.path)
        BY <2>2, <4>1
      <4>3. Handled(t, c) BY <1>8, <1>15, <4>2
      <4>4. IsDir(base, Rule(c.path)) BY <1>12, <4>1, <4>2, <4>3
      <4>5. Rule(c.path) = SubSeq(Rule(f.path), 1, i - 1) BY <1>11, <4>1, <4>2 DEF OnItsWay
      <4> QED BY <2>2, <4>4, <4>5
    <3> QED BY <3>1, <3>2
  <2>6. PICK r \in base' : r.path = q BY <1>2, <2>2, <2>3, <2>5 DEF Change, There
  <2>7. r.kind = "dir"
    <3>1. CASE r \in oldBase BY <2>2, <2>6, <3>1
    <3>2. CASE r \notin oldBase
      <4>1. PICK u \in DOMAIN trees : \E d \in trees[u] : Made(u, d, r)
        BY <1>3, <1>6, <3>2 DEF Sourced, Made
      <4>2. PICK d \in trees[u] : Made(u, d, r) BY <4>1
      <4> QED BY <2>2, <2>6, <4>2 DEF Made
    <3> QED BY <3>1, <3>2
  <2> QED BY <2>6, <2>7 DEF IsDir, There
<1>16. ASSUME NEW d \in trees[t], NEW i \in 1 .. Len(f.path) - 1, Handled(t, d)', d.path = SubSeq(f.path, 1, i)
       PROVE  IsDir(base', Rule(d.path))
  <2>1. CASE Handled(t, d) BY <1>5, <1>12, <1>16, <2>1
  <2>2. CASE t = topic /\ d = e BY <1>15, <1>16, <2>2
  <2> QED BY <1>7, <1>16, <2>1, <2>2
<1> QED BY <1>7, <1>13, <1>14, <1>16

-----------------------------------------------------------------------------

\* It starts empty, main starts a walk, and install_topic goes on to the next.
LEMMA ProgressInit == MkInit => Progress
<1> SUFFICES ASSUME MkInit PROVE Progress OBVIOUS
<1>1. trees = <<>> /\ <<>> \in Seq(Trees) /\ DOMAIN trees = {} /\ Len(trees) = 0 BY EmptySeq DEF MkInit
<1>2. base = {} /\ oldBase = {} /\ walk = {} /\ topic = 0 /\ mk = "off" /\ mode = "force" BY DEF MkInit
<1>3. {use_symlink, resolves, broke} \subseteq BOOLEAN BY DEF MkInit
<1>4. MkTyped BY <1>1, <1>2, <1>3 DEF MkTyped, MkTypeOK
<1>5. OldKept BY <1>2 DEF OldKept
<1>6. Sourced BY <1>2 DEF Sourced
<1>7. InPlace BY <1>1 DEF InPlace
<1> QED BY <1>4, <1>5, <1>6, <1>7 DEF Progress

\* Nothing depends on whether the program runs.
LEMMA ProgressSame ==
  ASSUME Progress, UNCHANGED <<mkOptions, topic, walk, base, broke>>, mk' \in {mk, "done"}, mk = "walk" => mk' = mk
  PROVE  Progress'
<1> USE DEF mkOptions
<1>1. MkTyped' BY DEF Progress, MkTyped, MkTypeOK, IsDir, There
<1>2. OldKept' BY DEF Progress, OldKept
<1>3. Sourced' BY DEF Progress, Sourced, Handled, Made
<1>4. InPlace'
  <2>1. \A t, f : Installable(t, f)' <=> Installable(t, f) BY DEF Installable
  <2>2. \A t, f : Handled(t, f)' <=> Handled(t, f) BY DEF Handled
  <2>3. \A q : IsDir(base, q)' <=> IsDir(base, q) BY DEF IsDir, There
  <2> QED BY <2>1, <2>2, <2>3 DEF Progress, InPlace
<1> QED BY <1>1, <1>2, <1>3, <1>4 DEF Progress

LEMMA ProgressStart == Progress /\ MkStart => Progress'
<1> SUFFICES ASSUME Progress, MkStart PROVE Progress' OBVIOUS
<1>1. CASE mk' = "done" /\ UNCHANGED <<mkOptions, topic, walk, base, broke>>
  BY <1>1, ProgressSame DEF MkStart
<1>2. CASE /\ mk' = "walk" /\ mode' \in {"force", "prompt", "skip"}
           /\ use_symlink' \in BOOLEAN /\ resolves' \in BOOLEAN
           /\ trees' \in Trees \X Trees /\ base' \in Bases /\ oldBase' = base'
           /\ topic' = 1 /\ walk' = trees'[1] /\ UNCHANGED broke
  <2>1. PICK a \in Trees, b \in Trees : trees' = <<a, b>> BY <1>2
  <2>2. trees' \in Seq(Trees) /\ Len(trees') = 2 /\ DOMAIN trees' = 1 .. 2 BY <2>1
  <2>3. MkTyped'
    <3>1. \A r \in base' : IsDir(base', Front(r.path)) /\ r.kind \in {"dir", "file", "link", "dangling"}
      BY <1>2, BasesAssumption
    <3>2. \A r, s \in base' : r.path = s.path => r = s BY <1>2, BasesAssumption
    <3>3. broke' \in BOOLEAN BY <1>2 DEF Progress, MkTyped, MkTypeOK
    <3>4. topic' \in 0 .. Len(trees') /\ topic' \in DOMAIN trees' BY <1>2, <2>2
    <3> QED BY <1>2, <2>2, <3>1, <3>2, <3>3, <3>4 DEF MkTyped, MkTypeOK
  <2>4. OldKept' BY <1>2 DEF OldKept
  <2>5. Sourced' BY <1>2 DEF Sourced
  <2>6. \A t \in DOMAIN trees' : \A e \in trees'[t] : ~Handled(t, e)' BY <1>2, <2>2 DEF Handled
  <2>7. InPlace' BY <2>6 DEF InPlace
  <2> QED BY <2>3, <2>4, <2>5, <2>7 DEF Progress
<1> QED BY <1>1, <1>2 DEF MkStart

LEMMA ProgressTopic == Progress /\ NextTopic => Progress'
<1> SUFFICES ASSUME Progress, NextTopic PROVE Progress' OBVIOUS
<1>1. /\ mk = "walk" /\ UNCHANGED <<mode, use_symlink, trees, oldBase, resolves, base>>
      /\ broke' = (broke \/ walk # {})
  BY DEF NextTopic, mkOptions
<1>2. topic \in 1 .. Len(trees) /\ Len(trees) \in Nat /\ DOMAIN trees = 1 .. Len(trees)
  BY <1>1, LenProperties DEF Progress, MkTyped
<1>3. \/ topic = Len(trees) /\ mk' = "done" /\ walk' = {} /\ topic' = topic
      \/ topic # Len(trees) /\ mk' = mk /\ topic' = topic + 1 /\ walk' = trees[topic + 1]
  BY DEF NextTopic
<1>4. MkTyped'
  <2>1. broke' \in BOOLEAN BY <1>1 DEF Progress, MkTyped, MkTypeOK
  <2>2. topic' \in 1 .. Len(trees)
    <3>1. topic' = topic \/ (topic # Len(trees) /\ topic' = topic + 1) BY <1>3
    <3>2. topic \in Nat /\ 1 <= topic /\ topic <= Len(trees) /\ Len(trees) \in Nat BY <1>2
    <3>3. topic # Len(trees) => topic + 1 <= Len(trees) BY <3>2
    <3> QED BY <3>1, <3>2, <3>3
  <2>3. mk' = "walk" => walk' \subseteq trees[topic'] BY <1>3
  <2>4. mk' # "walk" => walk' = {} /\ topic' = Len(trees) BY <1>1, <1>3
  <2>5. mk' \in {"walk", "done"} BY <1>1, <1>3
  <2> QED BY <1>1, <1>2, <2>1, <2>2, <2>3, <2>4, <2>5 DEF Progress, MkTyped, MkTypeOK, IsDir, There
<1>5. OldKept' BY <1>1 DEF Progress, OldKept
<1>6. ASSUME ~broke', NEW u \in DOMAIN trees, NEW e \in trees[u]
      PROVE  Handled(u, e)' <=> Handled(u, e)
  <2>1. walk = {} BY <1>1, <1>6
  <2>2. CASE topic' = topic /\ walk' = {} BY <2>1, <2>2 DEF Handled
  <2>3. CASE topic' = topic + 1 /\ walk' = trees[topic + 1]
    <3>1. u \in Nat /\ topic \in Nat BY <1>2
    <3>2. Handled(u, e) <=> u <= topic BY <2>1, <3>1 DEF Handled
    <3>3. Handled(u, e)' <=> u < topic + 1 BY <2>3, <3>1 DEF Handled
    <3> QED BY <3>1, <3>2, <3>3
  <2> QED BY <1>3, <2>2, <2>3
<1>7. Sourced'
  <2> SUFFICES ASSUME ~broke', NEW r \in base \ oldBase
               PROVE  \E u \in DOMAIN trees : \E e \in trees[u] : Handled(u, e)' /\ Made(u, e, r)
    BY <1>1 DEF Sourced, Made
  <2> QED BY <1>1, <1>6 DEF Progress, Sourced
<1>8. InPlace'
  <2>1. \A t, f : Installable(t, f)' <=> Installable(t, f) BY <1>1 DEF Installable
  <2>2. SUFFICES ASSUME ~broke', mode = "force", NEW t \in DOMAIN trees, NEW f \in trees[t], Installable(t, f)
        PROVE  /\ Handled(t, f)' => \E r \in base : r.path = Rule(f.path) /\ r.from = t
               /\ \A d \in trees[t] : \A i \in 1 .. Len(f.path) - 1 :
                    Handled(t, d)' /\ d.path = SubSeq(f.path, 1, i) => IsDir(base, Rule(d.path))
    BY <1>1, <2>1 DEF InPlace, IsDir, There
  <2>3. ~broke /\ \A d \in trees[t] : Handled(t, d)' <=> Handled(t, d) BY <1>1, <1>6, <2>2
  <2>4. InPlace BY DEF Progress
  <2> QED BY <2>2, <2>3, <2>4 DEF InPlace
<1> QED BY <1>4, <1>5, <1>7, <1>8 DEF Progress

LEMMA ProgressStep == Progress /\ [MkNext]_mkVars => Progress'
<1> SUFFICES ASSUME Progress, [MkNext]_mkVars PROVE Progress' OBVIOUS
<1>1. CASE MkStart BY <1>1, ProgressStart
<1>2. CASE Install BY <1>2, TypedInstall, KeptInstall, SourcedInstall, InPlaceInstall DEF Progress
<1>3. CASE NextTopic BY <1>3, ProgressTopic
<1>4. CASE UNCHANGED mkVars
  BY <1>4, ProgressSame DEF mkVars
<1> QED BY <1>1, <1>2, <1>3, <1>4 DEF MkNext

LEMMA ProgressMeans == Progress => DotfilesInstalled
<1> SUFFICES ASSUME Progress, mk = "done" PROVE DotfilesInstalled BY DEF DotfilesInstalled
<1>1. DOMAIN trees = 1 .. Len(trees) /\ Len(trees) \in Nat /\ topic = Len(trees) /\ walk = {}
  BY LenProperties DEF Progress, MkTyped
<1>2. \A t \in DOMAIN trees : \A f \in trees[t] : Handled(t, f) BY <1>1 DEF Handled
<1>3. ~broke /\ mode = "force" =>
        \A t \in DOMAIN trees : \A f \in trees[t] :
          Installable(t, f) => \E r \in base : r.path = Rule(f.path) /\ r.from = t
  BY <1>2 DEF Progress, InPlace
<1> QED BY <1>3 DEF Progress, OldKept, DotfilesInstalled

\* For all topics whose entries are found after their directories and all bases
\* that are closed under directories: -n touches nothing, only what a file is to
\* replace may go, and while no call of install_handle fails nothing goes and each
\* file that can be installed is, the last topic's where there are several.
THEOREM DotfilesAreInstalled == MkSpec => []DotfilesInstalled
<1>1. MkInit => Progress BY ProgressInit
<1>2. Progress /\ [MkNext]_mkVars => Progress' BY ProgressStep
<1>3. Progress => DotfilesInstalled BY ProgressMeans
<1> QED BY <1>1, <1>2, <1>3, PTL DEF MkSpec

-----------------------------------------------------------------------------
(* keyi -e                                                                 *)

\* A content written whole into an empty file
LEMMA WholeCopy ==
  ASSUME NEW c \in Contents, NEW n \in Nat
  PROVE  /\ Len(c) \in Nat
         /\ SubSeq(<<>>, n + 1, Len(<<>>)) = <<>>
         /\ SubSeq(c, 1, Len(c)) \o <<>> = c
<1>1. c \in Seq(Range(c))
  BY EditAssumption DEF Contents
<1>2. Len(c) \in Nat
  BY <1>1, LenProperties
<1>3. SubSeq(c, 1, Len(c)) = c /\ c \o <<>> = c
  BY <1>1, SubSeqFull, ConcatEmptySeq
<1>4. Len(<<>>) = 0
  BY EmptySeq
<1>5. SubSeq(<<>>, n + 1, Len(<<>>)) = <<>>
  BY <1>4, SubSeqEmpty
<1> QED BY <1>2, <1>3, <1>5

Copies == [exists : BOOLEAN, content : Contents \cup {<<>>}, ino : Nat, mtime : Nat]

LEMMA CopiesMade ==
  /\ NoTmp \in Copies /\ NoTmp.exists = FALSE
  /\ [NoTmp EXCEPT !.exists = TRUE, !.ino = 1] \in Copies
  /\ [NoTmp EXCEPT !.exists = TRUE, !.ino = 1].exists = TRUE
<1>1. <<>> \in Contents \cup {<<>>} OBVIOUS
<1> QED BY <1>1 DEF NoTmp, Copies

LEMMA CopiesFilled ==
  ASSUME NEW t \in Copies, NEW c \in Contents, NEW i \in Nat, NEW m \in Nat
  PROVE  /\ t.ino \in Nat /\ t.mtime \in Nat /\ t.ino + 1 \in Nat /\ t.mtime + 1 \in Nat
         /\ [exists |-> TRUE, content |-> c, ino |-> i, mtime |-> m] \in Copies
         /\ [t EXCEPT !.content = c, !.mtime = 1] \in Copies
         /\ [t EXCEPT !.content = c, !.mtime = 1].content = c
         /\ [t EXCEPT !.content = c, !.mtime = 1].exists = t.exists
         /\ [t EXCEPT !.content = c, !.mtime = 1].mtime = 1
<1>1. t.ino \in Nat /\ t.mtime \in Nat
  BY DEF Copies
<1>2. t.ino + 1 \in Nat /\ t.mtime + 1 \in Nat
  BY <1>1
<1>3. [exists |-> TRUE, content |-> c, ino |-> i, mtime |-> m] \in Copies
  BY DEF Copies
<1>4. [t EXCEPT !.content = c, !.mtime = 1] \in Copies
  BY DEF Copies
<1>5. /\ [t EXCEPT !.content = c, !.mtime = 1].content = c
      /\ [t EXCEPT !.content = c, !.mtime = 1].exists = t.exists
      /\ [t EXCEPT !.content = c, !.mtime = 1].mtime = 1
  BY DEF Copies
<1> QED BY <1>1, <1>2, <1>3, <1>4, <1>5

LEMMA TickIsNat ==
  ASSUME NEW n \in Nat
  PROVE  \A tick \in {0, 1} : n + tick \in Nat /\ n + 1 \in Nat
OBVIOUS

LEMMA SameTick ==
  ASSUME NEW m, NEW s, m = 1, s = 1
  PROVE  m \in Nat /\ s \in Nat /\ m >= s
OBVIOUS

\* A later mtime is another one.
LEMMA LaterIsOther ==
  ASSUME NEW m \in Nat, NEW s \in Nat, m >= s, NEW n, n = m + 1
  PROVE  n \in Nat /\ n >= s /\ n # s
OBVIOUS

-----------------------------------------------------------------------------
\* What file, copy and stamp hold in each phase, the status being what decides
\* whether the file is touched at all.
Texts ==
  /\ pc \in {"open", "copy", "fork", "editor", "waited", "truncate", "write", "sync", "unlink",
             "exit 0", "exit 1", "failed", "killed"}
  /\ edit \in Contents
  /\ tmp \in Copies
  /\ wstatus # "ok" => file = Original
  /\ pc \in {"open", "copy", "fork"} => file = Original /\ edit = Original
  /\ pc \in {"copy", "fork", "editor", "waited", "truncate", "write", "sync", "unlink", "failed"}
       => tmp.exists = TRUE
  /\ pc \in {"fork", "editor", "waited", "truncate", "write", "sync", "failed"}
       => tmp.content = edit
  /\ pc \in {"open", "copy", "fork", "editor"} => wstatus = "none"
  /\ pc \in {"truncate", "write", "sync", "unlink", "exit 0"} => wstatus = "ok"
  /\ pc \in {"editor", "waited"} => file = Original
  /\ pc = "write" => file = <<>>
  /\ pc \in {"sync", "unlink", "exit 0"} => file = edit
  /\ pc = "exit 0" => tmp.exists = FALSE
  /\ pc \in {"exit 1", "killed"} => EditKept

\* The stamp tells a copy the editor wrote from the one keyi made.
Stamped ==
  /\ pc \in {"fork", "editor", "waited"} =>
       /\ tmp.mtime \in Nat /\ stamp.mtime \in Nat
       /\ tmp.mtime >= stamp.mtime
       /\ tmp.mtime = stamp.mtime => edit = Original

Kept == Texts /\ Stamped

LEMMA KeptInit == KeyiInit => Kept
<1> SUFFICES ASSUME KeyiInit PROVE Kept OBVIOUS
<1>1. Texts BY CopiesMade DEF KeyiInit, Texts, Contents
<1>2. Stamped BY DEF KeyiInit, Stamped
<1> QED BY <1>1, <1>2 DEF Kept

LEMMA TextsStep ==
  ASSUME Kept, [KeyiNext]_keyiVars
  PROVE  Texts'
<1> USE DEF Kept, Texts, EditKept
<1>1. CASE OpenFiles BY <1>1, CopiesMade DEF OpenFiles
<1>2. CASE CopyOut
  <2>1. file = Original /\ file \in Contents /\ tmp \in Copies /\ tmp.exists = TRUE
    BY <1>2 DEF CopyOut, Contents
  <2>2. CASE tmp' = [tmp EXCEPT !.content = file, !.mtime = 1] /\ pc' = "fork"
    <3>1. tmp' \in Copies /\ tmp'.content = Original /\ tmp'.exists = TRUE
      BY <2>1, <2>2, CopiesFilled
    <3> QED BY <1>2, <2>2, <3>1 DEF CopyOut
  <2>3. CASE tmp' = NoTmp /\ pc' = "exit 1"
    BY <1>2, <2>3, CopiesMade DEF CopyOut
  <2> QED BY <1>2, <2>2, <2>3 DEF CopyOut
<1>3. CASE ForkEditor BY <1>3 DEF ForkEditor
<1>4. CASE EditorExits BY <1>4 DEF EditorExits
<1>5. CASE SaveStarts
  <2>1. Unchanged /\ pc = "waited" => edit = Original
    BY DEF Unchanged, Stamped
  <2> QED BY <1>5, <2>1 DEF SaveStarts, Accepted
<1>6. CASE Truncate BY <1>6 DEF Truncate
<1>7. CASE CopyBack
  <2>1. PICK n \in 0 .. Len(tmp.content) :
          /\ file' = SubSeq(tmp.content, 1, n) \o SubSeq(file, n + 1, Len(file))
          /\ pc' = IF n = Len(tmp.content) THEN "sync" ELSE "failed"
    BY <1>7 DEF CopyBack
  <2>2. pc = "write" /\ UNCHANGED <<tmp, stamp, wstatus, edit, wrote>>
    BY <1>7 DEF CopyBack
  <2>3. file = <<>> /\ tmp.content = edit /\ edit \in Contents
    BY <2>2
  <2>4. n = Len(tmp.content) => file' = edit
    BY <2>1, <2>3, WholeCopy
  <2> QED BY <2>1, <2>2, <2>4
<1>8. CASE Fsync BY <1>8 DEF Fsync
<1>9. CASE Unlink BY <1>9, CopiesMade DEF Unlink
<1>10. CASE Fail BY <1>10 DEF Fail
<1>11. CASE Killed BY <1>11 DEF Killed
<1>12. ASSUME NEW c \in Edits, EditorWrites(c) PROVE Texts'
  <2>1. PICK inode \in {tmp.ino, tmp.ino + 1},
             tick \in {1} \cup (IF CoarseClock THEN {0} ELSE {}) :
          tmp' = [exists |-> TRUE, content |-> c, ino |-> inode, mtime |-> tmp.mtime + tick]
    BY <1>12 DEF EditorWrites
  <2>2. c \in Contents /\ tmp \in Copies
    BY DEF Contents
  <2>3. inode \in Nat /\ tmp.mtime + tick \in Nat
    <3>1. tmp.ino \in Nat /\ tmp.mtime \in Nat /\ tick \in {0, 1} /\ 0 \in Nat
      BY <2>2, CopiesFilled
    <3> QED BY <3>1, TickIsNat
  <2>4. tmp' \in Copies /\ tmp'.exists = TRUE /\ tmp'.content = c
    BY <2>1, <2>2, <2>3, CopiesFilled
  <2> QED BY <1>12, <2>2, <2>4 DEF EditorWrites
<1>13. CASE UNCHANGED keyiVars BY <1>13 DEF keyiVars
<1> QED
  BY <1>1, <1>2, <1>3, <1>4, <1>5, <1>6, <1>7, <1>8, <1>9, <1>10, <1>11, <1>12, <1>13 DEF KeyiNext

LEMMA StampedStep ==
  ASSUME Kept, [KeyiNext]_keyiVars, ~CoarseClock
  PROVE  Stamped'
<1> USE DEF Kept, Texts, Stamped
<1>1. CASE OpenFiles BY <1>1, CopiesMade DEF OpenFiles
<1>2. CASE CopyOut
  <2>1. file \in Contents /\ tmp \in Copies /\ edit = Original
    BY <1>2 DEF CopyOut, Contents
  <2>2. CASE /\ tmp' = [tmp EXCEPT !.content = file, !.mtime = 1] /\ pc' = "fork"
             /\ stamp' = [ino |-> tmp.ino, mtime |-> 1]
    <3>1. tmp'.mtime = 1
      BY <2>1, <2>2, CopiesFilled, Zenon
    <3>2. stamp'.mtime = 1
      BY <2>2, Zenon
    <3>3. tmp'.mtime \in Nat /\ stamp'.mtime \in Nat /\ tmp'.mtime >= stamp'.mtime
      BY <3>1, <3>2, SameTick, Zenon
    <3>4. edit' = edit BY <1>2 DEF CopyOut
    <3> QED BY <2>1, <3>3, <3>4
  <2>3. CASE pc' = "exit 1"
    BY <2>3
  <2> QED BY <1>2, <2>2, <2>3 DEF CopyOut
<1>3. CASE ForkEditor BY <1>3 DEF ForkEditor
<1>4. CASE EditorExits BY <1>4 DEF EditorExits
<1>5. CASE SaveStarts BY <1>5 DEF SaveStarts
<1>6. CASE Truncate BY <1>6 DEF Truncate
<1>7. CASE CopyBack BY <1>7 DEF CopyBack
<1>8. CASE Fsync BY <1>8 DEF Fsync
<1>9. CASE Unlink BY <1>9 DEF Unlink
<1>10. CASE Fail BY <1>10 DEF Fail
<1>11. CASE Killed BY <1>11 DEF Killed
<1>12. ASSUME NEW c \in Edits, EditorWrites(c) PROVE Stamped'
  <2>1. PICK inode \in {tmp.ino, tmp.ino + 1} :
          tmp' = [exists |-> TRUE, content |-> c, ino |-> inode, mtime |-> tmp.mtime + 1]
    BY <1>12 DEF EditorWrites
  <2>2. pc = "editor" /\ pc' = pc /\ stamp' = stamp
    BY <1>12 DEF EditorWrites
  <2>3. tmp.mtime \in Nat /\ stamp.mtime \in Nat /\ tmp.mtime >= stamp.mtime
    BY <2>2
  <2>4. tmp'.mtime = tmp.mtime + 1
    BY <2>1
  <2>5. tmp'.mtime \in Nat /\ tmp'.mtime >= stamp.mtime /\ tmp'.mtime # stamp.mtime
    BY <2>3, <2>4, LaterIsOther, Zenon
  <2> QED BY <2>2, <2>3, <2>5
<1>13. CASE UNCHANGED keyiVars BY <1>13 DEF keyiVars
<1> QED
  BY <1>1, <1>2, <1>3, <1>4, <1>5, <1>6, <1>7, <1>8, <1>9, <1>10, <1>11, <1>12, <1>13 DEF KeyiNext

-----------------------------------------------------------------------------
\* A kill and a failed call at any point leave the whole edit in the file or in
\* the copy (keyi.c copy_one, save_one).
THEOREM EditIsKept ==
  ASSUME ~CoarseClock
  PROVE  KeyiSpec => []EditKept
<1>1. KeyiInit => Kept BY KeptInit
<1>2. Kept /\ [KeyiNext]_keyiVars => Kept' BY TextsStep, StampedStep DEF Kept
<1>3. Kept => EditKept
  BY DEF Kept, Texts, EditKept
<1> QED BY <1>1, <1>2, <1>3, PTL DEF KeyiSpec

\* The exit status tells the truth: nothing changed after a failed editor, and
\* after 0 the file is the edit (keyi.c main, save_one).
THEOREM ExitIsTrue ==
  ASSUME ~CoarseClock
  PROVE  KeyiSpec => []ExitTells
<1>1. KeyiInit => Kept BY KeptInit
<1>2. Kept /\ [KeyiNext]_keyiVars => Kept' BY TextsStep, StampedStep DEF Kept
<1>3. Kept => ExitTells
  BY DEF Kept, Texts, ExitTells
<1> QED BY <1>1, <1>2, <1>3, PTL DEF KeyiSpec

=============================================================================
