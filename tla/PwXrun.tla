------------------------------- MODULE PwXrun -------------------------------
(***************************************************************************)
(* pipewire-xrun: plays a tone for a while, measures in the data thread    *)
(* how far apart the process callbacks are, prints a report and turns the  *)
(* worst of it into the exit status.  The data thread goes on measuring    *)
(* while the main thread computes the percentiles and prints.  The samples *)
(* written, the sums and the histogram are left out.                       *)
(***************************************************************************)
EXTENDS Integers, Sequences, FiniteSets

CONSTANTS
  Intervals,       (* intervals between callbacks, in tenths of the period *)
  Capacity,        (* raw_capacity                                         *)
  MaxCallbacks     (* bound: callbacks measured                            *)

ASSUME XrunAssumption ==
  Intervals \subseteq Nat /\ Capacity \in Nat \ {0} /\ MaxCallbacks \in Nat

VARIABLES
  bench,           (* where the main thread is                             *)
  stream,          (* "none", "idle" (not connected) or "streaming"        *)
  quit, due,       (* pw_main_loop_quit; the duration timer or a signal    *)
  badStream,       (* an error of the stream waits to be dispatched        *)
  rt, interval,    (* where the data thread is; the interval it records    *)
  measuring,       (* last_callback_ns is set                              *)
  over, max_ns,    (* over_threshold_1 to _3 and max_ns                    *)
  state_errors,
  raw_count, raw,  (* slots claimed; raw_intervals, <<>> when freed        *)
  sorted, p99,     (* first slots the main thread sorts; p99_ns            *)
  shown,           (* what the report says                                 *)
  exitStatus,
  worst            (* history: an interval beyond the last threshold       *)

loopVars   == <<quit, due, badStream, state_errors>>
results    == <<sorted, p99, shown, exitStatus>>
mainThread == <<bench, stream, loopVars, results>>
dataThread == <<rt, interval, measuring, over, max_ns, raw_count, worst>>
xrunVars   == <<mainThread, dataThread, raw>>

\* The last threshold an interval is beyond: 1.1, 1.5 or 2 periods.
Level(i) == IF i > 20 THEN 3 ELSE IF i > 15 THEN 2 ELSE IF i > 11 THEN 1 ELSE 0

XrunTypeOK ==
  /\ bench \in {"off", "init", "run", "loop", "count", "sort", "report", "fini", "free", "status", "exit"}
  /\ stream \in {"none", "idle", "streaming"} /\ {quit, due, badStream} \subseteq BOOLEAN
  /\ rt \in {"idle", "record", "max", "over", "claim", "store"} /\ interval \in Intervals \cup {0}
  /\ measuring \in BOOLEAN /\ over \in [1 .. 3 -> 0 .. MaxCallbacks] /\ max_ns \in Intervals \cup {0}
  /\ state_errors \in Nat /\ raw_count \in 0 .. MaxCallbacks
  /\ raw = <<>> \/ raw \in [1 .. Capacity -> Intervals \cup {0}]
  /\ sorted \in 0 .. Capacity /\ p99 \in Intervals \cup {0}
  /\ shown \in [over3 : 0 .. MaxCallbacks, errors : Nat, p99 : Intervals \cup {0}, max : Intervals \cup {0}]
  /\ exitStatus \in {0, 1} /\ worst \in BOOLEAN

XrunInit ==
  /\ bench = "off" /\ stream = "none" /\ quit = FALSE /\ due = FALSE /\ badStream = FALSE
  /\ rt = "idle" /\ interval = 0 /\ measuring = FALSE /\ over = [i \in 1 .. 3 |-> 0] /\ max_ns = 0
  /\ state_errors = 0 /\ raw_count = 0 /\ raw = <<>> /\ sorted = 0 /\ p99 = 0
  /\ shown = [over3 |-> 0, errors |-> 0, p99 |-> 0, max |-> 0] /\ exitStatus = 1 /\ worst = FALSE

-----------------------------------------------------------------------------
(* The data thread                                                         *)

\* stats_record_interval, shared counter by shared counter
Steps == <<"max", "over", "claim", "store">>

RtStep(s) ==
  \E i \in DOMAIN Steps :
    /\ rt = s /\ Steps[i] = s
    /\ rt' = IF i = Len(Steps) THEN "idle" ELSE Steps[i + 1]

\* on_process up to the exchange: with or without a buffer to fill, the callback
\* counts; the first one only starts the measuring.
OnProcess ==
  /\ stream = "streaming" /\ rt = "idle"
  /\ \/ /\ measuring /\ raw_count < MaxCallbacks
        /\ \E i \in Intervals : interval' = i /\ worst' = (worst \/ Level(i) = 3)
        /\ rt' = Steps[1] /\ UNCHANGED measuring
     \/ ~measuring /\ measuring' = TRUE /\ UNCHANGED <<interval, rt, worst>>
  /\ UNCHANGED <<mainThread, raw, over, max_ns, raw_count>>

RecordMax ==
  /\ RtStep("max")
  /\ max_ns' = IF interval > max_ns THEN interval ELSE max_ns
  /\ UNCHANGED <<mainThread, raw, interval, measuring, over, raw_count, worst>>

RecordOver ==
  /\ RtStep("over")
  /\ over' = [l \in 1 .. 3 |-> IF l = Level(interval) THEN over[l] + 1 ELSE over[l]]
  /\ UNCHANGED <<mainThread, raw, interval, measuring, max_ns, raw_count, worst>>

ClaimSlot ==
  /\ RtStep("claim")
  /\ raw_count' = raw_count + 1
  /\ UNCHANGED <<mainThread, raw, interval, measuring, over, max_ns, worst>>

\* A store into memory that is gone changes nothing here: see IntervalsLive.
StoreSlot ==
  /\ RtStep("store")
  /\ raw' = IF raw_count \in DOMAIN raw THEN [raw EXCEPT ![raw_count] = interval] ELSE raw
  /\ UNCHANGED <<mainThread, interval, measuring, over, max_ns, raw_count, worst>>

DataThread == OnProcess \/ RecordMax \/ RecordOver \/ ClaimSlot \/ StoreSlot

-----------------------------------------------------------------------------
(* The main thread up to its loop, and the handlers of the loop            *)

Main(from, to) == bench = from /\ bench' = to

\* main with arguments that are valid
XrunStart ==
  /\ Main("off", "init")
  /\ UNCHANGED <<stream, loopVars, results, dataThread, raw>>

\* bench_init.  A stream that cannot be connected counts as a failure only if
\* errno happens to be set: the run may go on without it.
BenchInit ==
  /\ \/ Main("init", "exit") /\ UNCHANGED <<stream, raw>>
     \/ Main("init", "run") /\ raw' = [i \in 1 .. Capacity |-> 0] /\ stream' \in {"none", "idle", "streaming"}
  /\ UNCHANGED <<loopVars, results, dataThread>>

\* bench_run up to pw_main_loop_run; without its timers it does not run
BenchRun ==
  /\ Main("run", "loop") \/ Main("run", "fini")
  /\ UNCHANGED <<stream, loopVars, results, dataThread, raw>>

\* on_duration_timeout, on_signal
OnStop ==
  /\ bench = "loop" /\ due /\ due' = FALSE /\ quit' = TRUE
  /\ UNCHANGED <<bench, stream, badStream, state_errors, results, dataThread, raw>>

\* on_stream_state_changed: the data thread goes on
OnStreamError ==
  /\ bench = "loop" /\ badStream /\ badStream' = FALSE
  /\ state_errors' = state_errors + 1 /\ quit' = TRUE
  /\ UNCHANGED <<bench, stream, due, results, dataThread, raw>>

LoopReturns ==
  /\ Main("loop", "count") /\ quit
  /\ UNCHANGED <<stream, loopVars, results, dataThread, raw>>

-----------------------------------------------------------------------------
(* The report and the way out                                              *)

CountIntervals ==
  /\ IF raw_count = 0 THEN Main("count", "report") ELSE Main("count", "sort")
  /\ sorted' = IF raw_count > Capacity THEN Capacity ELSE raw_count
  /\ UNCHANGED <<stream, loopVars, p99, shown, exitStatus, dataThread, raw>>

\* What is at the 99th percentile of the first n slots: one value.
Percentile99(n) ==
  LET Below(v) == Cardinality({i \in 1 .. n : raw[i] < v})
      UpTo(v)  == Cardinality({i \in 1 .. n : raw[i] <= v})
      k        == ((n - 1) * 99) \div 100
  IN  {v \in {raw[i] : i \in 1 .. n} : Below(v) <= k /\ k < UpTo(v)}

\* qsort and p99_ns.  A store into a slot being sorted is a data race: any value
\* at hand may end up at the percentile.  Nothing reads the order again.
SortIntervals ==
  /\ Main("sort", "report")
  /\ p99' \in IF rt = "store" /\ raw_count <= sorted
              THEN {raw[i] : i \in 1 .. sorted} \cup {interval}
              ELSE Percentile99(sorted)
  /\ UNCHANGED <<stream, loopVars, sorted, shown, exitStatus, dataThread, raw>>

Report ==
  /\ Main("report", "fini")
  /\ shown' = [over3 |-> over[3], errors |-> state_errors, p99 |-> p99, max |-> max_ns]
  /\ UNCHANGED <<stream, loopVars, sorted, p99, exitStatus, dataThread, raw>>

\* Mutant: the intervals are freed before the stream is destroyed.
FiniFreesFirst ==
  /\ \/ Main("fini", "free") /\ raw' = <<>> /\ UNCHANGED stream
     \/ Main("free", "status") /\ rt = "idle" /\ stream' = "none" /\ UNCHANGED raw
  /\ UNCHANGED <<loopVars, results, dataThread>>

\* bench_fini: pw_stream_destroy waits for the callback under way
BenchFini ==
  /\ \/ Main("fini", "free") /\ rt = "idle" /\ stream' = "none" /\ UNCHANGED raw
     \/ Main("free", "status") /\ raw' = <<>> /\ UNCHANGED stream
  /\ UNCHANGED <<loopVars, results, dataThread>>

\* Mutant: the status is taken from the report.
StatusFromReport == IF shown.errors > 0 \/ shown.over3 > 0 THEN 1 ELSE 0

Status == IF state_errors > 0 \/ over[3] > 0 THEN 1 ELSE 0

\* A run without timers fails whatever was measured.
Exit ==
  /\ Main("status", "exit")
  /\ exitStatus' = IF quit THEN Status ELSE 1
  /\ UNCHANGED <<stream, loopVars, sorted, p99, shown, dataThread, raw>>

MainThread ==
  \/ XrunStart \/ BenchInit \/ BenchRun \/ OnStop \/ OnStreamError \/ LoopReturns
  \/ CountIntervals \/ SortIntervals \/ Report \/ BenchFini \/ Exit

-----------------------------------------------------------------------------
(* The clock, the user and the server                                      *)

TimeIsUp ==
  /\ bench = "loop" /\ ~quit /\ due' = TRUE
  /\ UNCHANGED <<bench, stream, quit, badStream, state_errors, results, dataThread, raw>>

StreamConnects ==
  /\ stream = "idle" /\ bench # "exit" /\ stream' = "streaming"
  /\ UNCHANGED <<bench, loopVars, results, dataThread, raw>>

\* Once in a run
StreamFails ==
  /\ stream # "none" /\ bench = "loop" /\ state_errors = 0 /\ badStream' = TRUE
  /\ UNCHANGED <<bench, stream, quit, due, state_errors, results, dataThread, raw>>

XrunNext == MainThread \/ DataThread \/ TimeIsUp \/ StreamConnects \/ StreamFails

XrunSpec == XrunInit /\ [][XrunNext]_xrunVars

-----------------------------------------------------------------------------
(* Properties.                                                             *)

\* The data thread, which nothing stops between the loop and bench_fini, never
\* stores an interval into the array after stats_free, wherever in
\* stats_record_interval the main thread's way out finds it.
IntervalsLive == rt = "store" => raw # <<>>

\* The exit status is read when the data thread is gone: 0 says that no callback
\* of the whole run, those during the report included, came later than two
\* periods and no stream error was handled, and so that the report showed none.
\* And what the report shows agrees: its percentile, of an array sorted while a
\* store into it may be under way, is not above its maximum, since each interval
\* is in max_ns before it has a slot.
ExitTellsAll ==
  bench = "exit" /\ quit =>
    /\ exitStatus = 0 <=> ~worst /\ state_errors = 0
    /\ exitStatus = 0 => shown.over3 = 0 /\ shown.errors = 0
    /\ shown.p99 <= shown.max

=============================================================================
