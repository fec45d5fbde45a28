----------------------------- MODULE SuspendTest -----------------------------
(***************************************************************************)
(* check-my-alsa suspend: plays (or, in idle mode, holds a dropped stream) *)
(* until the system has slept, then judges whether the stream that crossed *)
(* the suspend still plays.  With -T a child, rtcwake, puts the system to  *)
(* sleep and ends after the wake.  The system may sleep between any two    *)
(* steps of the test; the test notices it by the gap between two clocks.   *)
(* What a cycle of the stream does is AlsaPcm's: here it has a result.     *)
(***************************************************************************)
EXTENDS Naturals

CONSTANT MaxErrs       (* cycles in a row that fail before it gives up     *)

ASSUME SuspendAssumption == MaxErrs \in Nat \ {0}

VARIABLES
  test,                (* where the test is                                *)
  idle, auto,          (* -i, -T                                           *)
  handle,              (* the playback PCM is open                         *)
  ready, wait_errs,
  gap,                 (* kernel: a sleep the clocks show, not yet sampled *)
  detected, pre_fail, auto_failed,
  wake_rc,             (* of the first cycle after the wake                *)
  recover_fails, verify_err, verify_frames,
  rtcwake,             (* auto_child                                       *)
  stopped,             (* g_stop                                           *)
  verdict,
  sleptAt              (* history: where the sleep found the test          *)

found     == <<detected, pre_fail, auto_failed>>
verified  == <<wake_rc, recover_fails, verify_err, verify_frames>>
options   == <<idle, auto>>
outside   == <<gap, rtcwake, stopped, sleptAt>>
suspVars  == <<test, options, handle, ready, wait_errs, found, verified, outside, verdict>>

\* pcm_sink_iterate: a cycle, an early wakeup, a signal, no wakeup in time, or
\* an error of the stream.
Results == {"cycle", "early", "interrupted", "late", "broken"}

\* What it returns in the present circumstances: only a signal interrupts it.
Iterates == IF stopped THEN Results ELSE Results \ {"interrupted"}

Places == {"off", "open", "start", "warm", "spawn", "first", "poll", "sample", "play", "child", "reap", "verify",
           "fresh", "report"}

SuspTypeOK ==
  /\ test \in Places \cup {"exit"}
  /\ {idle, auto, handle, ready, gap, detected, pre_fail, auto_failed} \subseteq BOOLEAN
  /\ {recover_fails, verify_err, verify_frames, stopped} \subseteq BOOLEAN
  /\ wait_errs \in 0 .. MaxErrs /\ wake_rc \in Results
  /\ rtcwake \in {"none", "running", "woken", "ended", "reaped"}
  /\ verdict \in {"none", "usage", "not opened", "set up", "broke before", "auto failed", "inconclusive",
                  "not recovered", "no frames", "recovered"}
  /\ sleptAt \in Places \cup {"never"}

SuspInit ==
  /\ test = "off" /\ idle = FALSE /\ auto = FALSE /\ handle = FALSE /\ ready = FALSE /\ wait_errs = 0
  /\ gap = FALSE /\ detected = FALSE /\ pre_fail = FALSE /\ auto_failed = FALSE
  /\ wake_rc = "cycle" /\ recover_fails = FALSE /\ verify_err = FALSE /\ verify_frames = FALSE
  /\ rtcwake = "none" /\ stopped = FALSE /\ verdict = "none" /\ sleptAt = "never"

-----------------------------------------------------------------------------
(* Up to the wait for a suspend                                            *)

Test(from, to) == test = from /\ test' = to

\* Gives up: pcm_sink_stop and an exit status of 1.
GiveUp(from) ==
  /\ Test(from, "exit") /\ handle' = FALSE /\ verdict' = "set up"

\* getopt and the checks of what it found
Options ==
  /\ test = "off"
  /\ \/ test' = "open" /\ idle' \in BOOLEAN /\ auto' \in BOOLEAN /\ UNCHANGED verdict
     \/ test' = "exit" /\ verdict' = "usage" /\ UNCHANGED options
  /\ UNCHANGED <<handle, ready, wait_errs, found, verified, outside>>

\* pcm_sink_open: it may fail after snd_pcm_open, at one of the parameters, and
\* then neither it nor the test closes the PCM.
OpenStream ==
  /\ \/ Test("open", "start") /\ handle' = TRUE /\ UNCHANGED verdict
     \/ Test("open", "exit") /\ handle' \in BOOLEAN /\ verdict' = "not opened"
  /\ UNCHANGED <<options, ready, wait_errs, found, verified, outside>>

StartStream ==
  /\ \/ Test("start", "warm") /\ UNCHANGED <<handle, verdict>>
     \/ GiveUp("start")
  /\ UNCHANGED <<options, ready, wait_errs, found, verified, outside>>

\* Half a second of cycles, then the pause of idle mode; each may fail.
WarmUp ==
  /\ \/ Test("warm", "spawn") /\ UNCHANGED <<handle, verdict>>
     \/ GiveUp("warm")
  /\ UNCHANGED <<options, ready, wait_errs, found, verified, outside>>

SpawnSuspend ==
  /\ \/ Test("spawn", "first") /\ rtcwake' = (IF auto THEN "running" ELSE "none")
        /\ UNCHANGED <<handle, verdict>>
     \/ auto /\ GiveUp("spawn") /\ UNCHANGED rtcwake
  /\ UNCHANGED <<options, ready, wait_errs, found, verified, gap, stopped, sleptAt>>

\* The gap between the clocks so far: it holds every sleep up to here.
FirstSample ==
  /\ Test("first", "poll") /\ gap' = FALSE
  /\ UNCHANGED <<options, handle, ready, wait_errs, found, verified, rtcwake, stopped, sleptAt, verdict>>

-----------------------------------------------------------------------------
(* The wait for a suspend                                                  *)

ChildEnded == rtcwake = "ended" /\ rtcwake' = "reaped" /\ auto_failed' = TRUE /\ test' = "reap"

\* Mutant: the child is looked at before the clocks.
PollWatchesFirst ==
  /\ test = "poll"
  /\ \/ ChildEnded /\ UNCHANGED ready
     \/ stopped /\ test' = "reap" /\ UNCHANGED <<ready, rtcwake, auto_failed>>
     \/ /\ ~stopped /\ rtcwake # "ended" /\ test' = "sample"
        /\ ready' \in (IF idle THEN {FALSE} ELSE BOOLEAN) /\ UNCHANGED <<rtcwake, auto_failed>>
  /\ UNCHANGED <<options, handle, wait_errs, detected, pre_fail, verified, gap, stopped, sleptAt, verdict>>

\* The head of the loop and its poll, which may fail
PollWait ==
  /\ test = "poll"
  /\ \/ stopped /\ test' = "reap" /\ UNCHANGED <<ready, pre_fail>>
     \/ ~stopped /\ test' = "sample" /\ ready' \in (IF idle THEN {FALSE} ELSE BOOLEAN) /\ UNCHANGED pre_fail
     \/ ~stopped /\ ~idle /\ test' = "reap" /\ pre_fail' = TRUE /\ UNCHANGED ready
  /\ UNCHANGED <<options, handle, wait_errs, detected, auto_failed, verified, outside, verdict>>

\* Two samples of the clocks differ by a sleep: the first cycle after the wake
\* follows, or the start of the dropped stream.
SampleClocks ==
  /\ test = "sample"
  /\ \/ /\ gap /\ gap' = FALSE /\ detected' = TRUE /\ test' = "reap"
        /\ wake_rc' \in IF idle THEN {"cycle", "broken"} ELSE Iterates
        /\ recover_fails' \in BOOLEAN
     \/ /\ ~gap /\ test' = (IF ready THEN "play" ELSE "child")
        /\ UNCHANGED <<gap, detected, wake_rc, recover_fails>>
  /\ UNCHANGED <<options, handle, ready, wait_errs, pre_fail, auto_failed, verify_err, verify_frames>>
  /\ UNCHANGED <<rtcwake, stopped, sleptAt, verdict>>

\* run_tolerant: errors in a row end the wait, the rest is tolerated.
Play ==
  /\ test = "play"
  /\ \E r \in Iterates :
       LET errs == IF r = "broken" THEN wait_errs + 1 ELSE 0
       IN  /\ wait_errs' = errs
           /\ pre_fail' = (errs = MaxErrs)
           /\ test' = IF errs = MaxErrs THEN "reap" ELSE "child"
  /\ UNCHANGED <<options, handle, ready, detected, auto_failed, verified, outside, verdict>>

\* waitpid with WNOHANG
WatchChild ==
  /\ test = "child"
  /\ \/ ChildEnded
     \/ rtcwake # "ended" /\ test' = "poll" /\ UNCHANGED <<rtcwake, auto_failed>>
  /\ UNCHANGED <<options, handle, ready, wait_errs, detected, pre_fail, verified, gap, stopped, sleptAt, verdict>>

-----------------------------------------------------------------------------
(* The judgement                                                           *)

\* The child that is still there is waited for, however long it lets the system
\* sleep.
ReapChild ==
  /\ test = "reap" /\ rtcwake \in {"none", "ended", "reaped"}
  /\ rtcwake' = (IF rtcwake = "none" THEN "none" ELSE "reaped")
  /\ test' = IF detected THEN "verify" ELSE "fresh"
  /\ UNCHANGED <<options, handle, ready, wait_errs, found, verified, gap, stopped, sleptAt, verdict>>

\* Two seconds of playing, broken off by an error
Verify ==
  /\ test = "verify"
  /\ \/ test' = "fresh" /\ UNCHANGED <<recover_fails, verify_err, verify_frames>>
     \/ /\ ~stopped
        /\ \E r \in Iterates :
             /\ verify_frames' \in {verify_frames, verify_frames \/ r = "cycle"}
             /\ verify_err' = (r = "broken")
             /\ test' = IF r = "broken" THEN "fresh" ELSE "verify"
        /\ recover_fails' \in {recover_fails, TRUE}
  /\ UNCHANGED <<options, handle, ready, wait_errs, found, wake_rc, outside, verdict>>

\* pcm_sink_stop, then another stream is opened, played and stopped, whose
\* success only chooses the wording of the report.
FreshReopen ==
  /\ Test("fresh", "report") /\ handle' = FALSE
  /\ UNCHANGED <<options, ready, wait_errs, found, verified, outside, verdict>>

\* The first cycle after the wake may at most be early.
Judgement ==
  CASE ~detected /\ pre_fail    -> "broke before"
    [] ~detected /\ ~pre_fail /\ auto_failed  -> "auto failed"
    [] ~detected /\ ~pre_fail /\ ~auto_failed -> "inconclusive"
    [] detected /\ (wake_rc \notin {"cycle", "early"} \/ recover_fails \/ verify_err) -> "not recovered"
    [] OTHER -> IF verify_frames THEN "recovered" ELSE "no frames"

Judge ==
  /\ Test("report", "exit") /\ verdict' = Judgement
  /\ UNCHANGED <<options, handle, ready, wait_errs, found, verified, outside>>

SuspStep ==
  \/ Options \/ OpenStream \/ StartStream \/ WarmUp \/ SpawnSuspend \/ FirstSample \/ PollWait \/ SampleClocks
  \/ Play \/ WatchChild \/ ReapChild \/ Verify \/ FreshReopen \/ Judge

-----------------------------------------------------------------------------
(* The system, rtcwake and the user                                        *)

\* The system sleeps, once and longer than the threshold.
Sleep ==
  /\ sleptAt = "never" /\ sleptAt' = test /\ test \notin {"off", "exit"}
  /\ rtcwake \in {"none", "running"} /\ rtcwake' = (IF rtcwake = "none" THEN "none" ELSE "woken")
  /\ gap' = TRUE
  /\ UNCHANGED <<test, options, handle, ready, wait_errs, found, verified, stopped, verdict>>

\* It may fail before it has put the system to sleep.
RtcwakeEnds ==
  /\ rtcwake \in {"running", "woken"} /\ rtcwake' = "ended"
  /\ UNCHANGED <<test, options, handle, ready, wait_errs, found, verified, gap, stopped, sleptAt, verdict>>

\* on_sigint
Interrupt ==
  /\ test \notin {"off", "exit"} /\ stopped' = TRUE
  /\ UNCHANGED <<test, options, handle, ready, wait_errs, found, verified, gap, rtcwake, sleptAt, verdict>>

SuspNext == SuspStep \/ Sleep \/ RtcwakeEnds \/ Interrupt

SuspSpec == SuspInit /\ [][SuspNext]_suspVars

-----------------------------------------------------------------------------
(* Properties.                                                             *)

\* A sleep that finds the test waiting, where it spends its time, is detected
\* although rtcwake may be seen to end in the same turn: unless the stream broke
\* or the user stopped it, the verdict is one about the wake.  (A sleep between
\* the sample and waitpid is reported as a failure of rtcwake.)  And whichever
\* way the test ends, no rtcwake is left behind that would put the system to
\* sleep later, and once the stream was opened it has been closed: only a
\* pcm_sink_open that fails may leave the PCM to the kernel to close.
SleepSeen ==
  test = "exit" =>
    /\ sleptAt \in {"poll", "sample"} /\ ~stopped /\ ~pre_fail =>
         verdict \in {"not recovered", "no frames", "recovered"}
    /\ rtcwake \in {"none", "reaped"}
    /\ handle => verdict = "not opened"

=============================================================================
