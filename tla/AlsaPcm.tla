------------------------------- MODULE AlsaPcm -------------------------------
(***************************************************************************)
(* check-my-alsa: the playback stream of alsa-pcm.c, driven by a timer as  *)
(* in alsa-pcm-sink.c, over a kernel PCM that may underrun, be suspended   *)
(* or unplugged between any two calls, and whose calls may fail.           *)
(*                                                                         *)
(* Time and the buffer are counted in one unit: in one tick of the clock a *)
(* running PCM plays one frame.  The rate correction of the DLL is 1.      *)
(***************************************************************************)
EXTENDS Integers, FiniteSetsExt

CONSTANTS
  Buffer,       (* buffer_frames                                           *)
  Threshold,    (* threshold, the frames of one timer period               *)
  Headroom, MaxError,
  Latency,      (* how late a wakeup may be and still be punctual          *)
  MaxLate,      (* bound: lateness is not told apart beyond this           *)
  MaxFails,     (* bound: calls that fail although the PCM's state is fine *)
  MaxSuspends   (* bound: suspends, and unplugging                         *)

ASSUME PcmAssumption ==
  /\ {Buffer, Threshold} \subseteq Nat \ {0}
  /\ {Headroom, MaxError, Latency, MaxLate, MaxFails, MaxSuspends} \subseteq Nat
  /\ 2 * (Threshold + Headroom) <= Buffer /\ Latency < MaxLate

VARIABLES
  k, before,    (* the kernel's PCM state; the one resume goes back to     *)
  fill, appl,   (* frames to play; where in the ring the next one goes     *)
  started, alsa_started,
  due,          (* next_time, counted from now                             *)
  pc, ret,      (* the next call; what follows alsa_recover or do_prepare  *)
  frames,       (* what snd_pcm_mmap_begin offered                         *)
  warned,       (* recover_fails was raised in this cycle                  *)
  fails, suspends,
  owed,         (* history: underruns not yet given to xrun_cb             *)
  late          (* history: some wakeup or cycle took too long             *)

kernel == <<k, before, fill, appl>>
flags  == <<started, alsa_started>>
hist   == <<suspends, owed, late>>
vars   == <<kernel, flags, due, pc, ret, frames, warned, fails, hist>>

States == {"SETUP", "PREPARED", "RUNNING", "XRUN", "SUSPENDED", "DISCONNECTED", "closed"}
Target == Min({Threshold + Headroom, Buffer \div 2})
Usable == k \in {"PREPARED", "RUNNING"}

TypeOK ==
  /\ k \in States /\ before \in States
  /\ fill \in 0 .. Buffer /\ appl \in 0 .. Buffer - 1
  /\ started \in BOOLEAN /\ alsa_started \in BOOLEAN
  /\ due \in -MaxLate .. 2 * Target + Threshold
  /\ pc \in {"stopped", "poll", "avail", "status", "resume", "drop", "swparams", "prepare",
             "silence", "start", "avail again", "begin", "commit", "run", "error", "end"}
  /\ ret \in {"begin play", "avail again", "error"}
  /\ frames \in 0 .. Buffer - fill
  /\ warned \in BOOLEAN /\ late \in BOOLEAN
  /\ fails \in 0 .. MaxFails /\ suspends \in 0 .. MaxSuspends /\ owed \in Int

\* snd_pcm_open and snd_pcm_hw_params have succeeded
Init ==
  /\ k = "SETUP" /\ before = "SETUP" /\ fill = 0 /\ appl = 0
  /\ started = FALSE /\ alsa_started = FALSE /\ due = 0
  /\ pc = "stopped" /\ ret = "begin play" /\ frames = 0 /\ warned = FALSE
  /\ fails = 0 /\ suspends = 0 /\ owed = 0 /\ late = FALSE

\* A call is refused by a PCM in the wrong state, or fails all the same.
CallWorks == UNCHANGED fails
CallFails(ok) == IF ok THEN fails < MaxFails /\ fails' = fails + 1 ELSE UNCHANGED fails

Cleared == fill' = 0 /\ appl' = 0

-----------------------------------------------------------------------------
(* alsa_recover and do_prepare                                             *)

\* snd_pcm_status; an underrun is given to xrun_cb
Status ==
  /\ pc = "status"
  /\ \/ /\ CallWorks /\ k # "DISCONNECTED"
        /\ owed' = IF k = "XRUN" THEN owed - 1 ELSE owed
        /\ pc' = IF k = "SUSPENDED" THEN "resume" ELSE "drop"
     \/ CallFails(k # "DISCONNECTED") /\ pc' = "drop" /\ UNCHANGED owed
  /\ UNCHANGED <<kernel, flags, due, ret, frames, warned, suspends, late>>

\* Mutant: a resume that fails leaves the function instead of the switch.
ResumeOrReturn ==
  /\ pc = "resume"
  /\ \/ k = "SUSPENDED" /\ k' = before
     \/ UNCHANGED k
  /\ pc' = ret
  /\ UNCHANGED <<before, fill, appl, flags, due, ret, frames, warned, fails, hist>>

\* Up to five snd_pcm_resume: it succeeds, or the stream is rebuilt.
Resume ==
  /\ pc = "resume"
  /\ \/ k = "SUSPENDED" /\ k' = before /\ pc' = ret
     \/ UNCHANGED k /\ pc' = "drop"
  /\ UNCHANGED <<before, fill, appl, flags, due, ret, frames, warned, fails, hist>>

DropPcm(ok) ==
  \/ ok /\ CallWorks /\ k' = "SETUP" /\ Cleared
  \/ CallFails(ok) /\ UNCHANGED <<k, fill, appl>>

Drop ==
  /\ pc = "drop" /\ DropPcm(k # "DISCONNECTED")
  /\ pc' = "swparams"
  /\ UNCHANGED <<before, flags, due, ret, frames, warned, hist>>

\* do_prepare gives up: alsa_recover goes on to do_start all the same
NotPrepared == pc' = IF ret = "begin play" THEN "error" ELSE "start"

Swparams ==
  /\ pc = "swparams"
  /\ \/ k # "DISCONNECTED" /\ CallWorks /\ pc' = "prepare"
     \/ CallFails(k # "DISCONNECTED") /\ NotPrepared
  /\ UNCHANGED <<kernel, flags, due, ret, frames, warned, hist>>

\* A running PCM answers EBUSY, which is tolerated.
Prepare ==
  /\ pc = "prepare"
  /\ \/ /\ k # "DISCONNECTED" /\ CallWorks /\ pc' = "silence"
        /\ IF k = "RUNNING" THEN UNCHANGED <<k, fill, appl>> ELSE k' = "PREPARED" /\ Cleared
     \/ CallFails(k # "DISCONNECTED") /\ NotPrepared /\ UNCHANGED <<k, fill, appl>>
  /\ UNCHANGED <<before, flags, due, ret, frames, warned, hist>>

\* The ring takes n frames, up to its end at most.
Write(n) == fill' = fill + n /\ appl' = (appl + n) % Buffer
Room == Min({Buffer - fill, Buffer - appl})

\* Mutant: do_prepare clears alsa_started only for the user's start.
SilenceKeepsFlag ==
  /\ pc = "silence"
  /\ \/ Usable /\ CallWorks /\ Write(Min({Threshold + Headroom, Room}))
     \/ CallFails(Usable) /\ UNCHANGED <<fill, appl>>
  /\ IF ret = "begin play"
     THEN started' = TRUE /\ due' = 0 /\ pc' = "poll" /\ alsa_started' = FALSE
     ELSE pc' = "start" /\ UNCHANGED <<flags, due>>
  /\ UNCHANGED <<k, before, ret, frames, warned, hist>>

\* Silence as far as it goes, and the end of do_prepare; for the user's start
\* also the end of spa_alsa_start.
Silence ==
  /\ pc = "silence"
  /\ \/ Usable /\ CallWorks /\ Write(Min({Threshold + Headroom, Room}))
     \/ CallFails(Usable) /\ UNCHANGED <<fill, appl>>
  /\ alsa_started' = FALSE
  /\ IF ret = "begin play" THEN started' = TRUE /\ due' = 0 /\ pc' = "poll"
                           ELSE pc' = "start" /\ UNCHANGED <<started, due>>
  /\ UNCHANGED <<k, before, ret, frames, warned, hist>>

\* do_start; its result is not looked at
DoStart ==
  IF alsa_started THEN CallWorks /\ UNCHANGED <<k, alsa_started>>
  ELSE \/ /\ k = "PREPARED" /\ fill > 0 /\ CallWorks
          /\ k' = "RUNNING" /\ alsa_started' = TRUE
       \/ CallFails(k = "PREPARED" /\ fill > 0) /\ UNCHANGED <<k, alsa_started>>

Start ==
  /\ pc = "start" /\ DoStart
  /\ pc' = ret
  /\ UNCHANGED <<before, fill, appl, started, due, ret, frames, warned, hist>>

-----------------------------------------------------------------------------
(* alsa_timer_wakeup and spa_alsa_write                                    *)

Wake ==
  /\ pc = "poll" /\ started /\ due <= 0
  /\ pc' = "avail" /\ warned' = FALSE
  /\ UNCHANGED <<kernel, flags, due, ret, frames, fails, hist>>

\* Mutant: an early wakeup comes back when all is played.
EarlyByAll(delay) == Min({delay, 3 * Target})

EarlyBy(delay) == Min({delay, 3 * Target}) - Target

\* alsa_write_sync: too early, or time to write and be back in a period
Sync(delay) ==
  IF alsa_started /\ delay > Target + MaxError
  THEN due' = due + EarlyBy(delay) /\ pc' = "poll"
  ELSE due' = due + Threshold /\ pc' = "begin"

\* Mutant: an error of the first snd_pcm_avail rebuilds the stream at once.
AvailDrops ==
  /\ pc = "avail"
  /\ \/ Usable /\ CallWorks /\ Sync(fill) /\ UNCHANGED ret
     \/ CallFails(Usable) /\ pc' = "drop" /\ ret' = "avail again" /\ UNCHANGED due
  /\ UNCHANGED <<kernel, flags, frames, warned, hist>>

Avail ==
  /\ pc = "avail"
  /\ \/ Usable /\ CallWorks /\ Sync(fill) /\ UNCHANGED ret
     \/ CallFails(Usable) /\ pc' = "status" /\ ret' = "avail again" /\ UNCHANGED due
  /\ UNCHANGED <<kernel, flags, frames, warned, hist>>

\* get_avail after alsa_recover: a failure is warned of and guessed over
AvailAgain ==
  /\ pc = "avail again"
  /\ \/ Usable /\ CallWorks /\ Sync(fill) /\ UNCHANGED warned
     \/ CallFails(Usable) /\ warned' = TRUE /\ Sync(Buffer - Min({2 * Threshold, Buffer}))
  /\ UNCHANGED <<kernel, flags, ret, frames, hist>>

MmapBegin ==
  /\ pc = "begin"
  /\ \/ /\ Usable /\ CallWorks /\ UNCHANGED ret
        /\ frames' = Room /\ pc' = IF Room > 0 THEN "commit" ELSE "run"
     \/ CallFails(Usable) /\ pc' = "status" /\ ret' = "error" /\ UNCHANGED frames
  /\ UNCHANGED <<kernel, flags, due, warned, hist>>

\* An underrun or a suspend is left for the next wakeup.
MmapCommit ==
  /\ pc = "commit" /\ frames' = 0
  /\ \/ Usable /\ CallWorks /\ Write(frames) /\ pc' = "run"
     \/ k \in {"XRUN", "SUSPENDED"} /\ CallWorks /\ pc' = "run" /\ UNCHANGED <<fill, appl>>
     \/ /\ k \notin {"XRUN", "SUSPENDED"} /\ CallFails(Usable)
        /\ pc' = "error" /\ UNCHANGED <<fill, appl>>
  /\ UNCHANGED <<k, before, flags, due, ret, warned, hist>>

Run ==
  /\ pc = "run" /\ DoStart
  /\ pc' = "poll"
  /\ UNCHANGED <<before, fill, appl, started, due, ret, frames, warned, hist>>

-----------------------------------------------------------------------------
(* The applet: spa_alsa_start, spa_alsa_pause, pcm_sink_stop               *)

BeginPlay ==
  /\ pc = "stopped"
  /\ pc' = "swparams" /\ ret' = "begin play"
  /\ UNCHANGED <<kernel, flags, due, frames, warned, fails, hist>>

Pause ==
  /\ pc = "poll"
  /\ started' = FALSE /\ pc' = "stopped" /\ owed' = 0
  /\ DropPcm(k # "DISCONNECTED")
  /\ UNCHANGED <<before, alsa_started, due, ret, frames, warned, suspends, late>>

Stop ==
  /\ pc \in {"stopped", "poll", "error"}
  /\ started' = FALSE /\ pc' = "end" /\ k' = "closed" /\ Cleared
  /\ UNCHANGED <<before, alsa_started, due, ret, frames, warned, fails, hist>>

\* An applet goes on after a cycle that failed.
Tolerate ==
  /\ pc = "error"
  /\ pc' = IF started THEN "poll" ELSE "stopped"
  /\ UNCHANGED <<kernel, flags, due, ret, frames, warned, fails, hist>>

-----------------------------------------------------------------------------
(* The kernel                                                              *)

Playing == IF k # "RUNNING" THEN UNCHANGED <<k, fill, owed>>
           ELSE IF fill > 0 THEN fill' = fill - 1 /\ UNCHANGED <<k, owed>>
           ELSE k' = "XRUN" /\ owed' = owed + 1 /\ UNCHANGED fill

Tick ==
  /\ pc # "end" /\ Playing
  /\ due' = IF started THEN Max({due - 1, -MaxLate}) ELSE due
  /\ late' = (late \/ (started /\ (due <= -Latency \/ pc # "poll")))
  /\ UNCHANGED <<before, appl, flags, pc, ret, frames, warned, fails, suspends>>

Suspend ==
  /\ suspends < MaxSuspends /\ suspends' = suspends + 1
  /\ \/ k \in {"PREPARED", "RUNNING", "XRUN"} /\ k' = "SUSPENDED" /\ before' = k
     \/ k \notin {"DISCONNECTED", "closed"} /\ k' = "DISCONNECTED" /\ UNCHANGED before
  /\ UNCHANGED <<fill, appl, flags, due, pc, ret, frames, warned, fails, owed, late>>

Driver ==
  \/ Status \/ Resume \/ Drop \/ Swparams \/ Prepare \/ Silence \/ Start
  \/ Wake \/ Avail \/ AvailAgain \/ MmapBegin \/ MmapCommit \/ Run
Applet == BeginPlay \/ Pause \/ Stop \/ Tolerate

Next == Driver \/ Applet \/ Tick \/ Suspend

\* Calls return, time passes, and an applet told of an error acts on it.
Spec == Init /\ [][Next]_vars
FairSpec == Spec /\ WF_vars(Driver) /\ WF_vars(Tick) /\ WF_vars(pc = "error" /\ Applet)

-----------------------------------------------------------------------------
(* Properties.                                                             *)

\* Between two cycles a PCM that is prepared is not believed started: nothing
\* else than do_start in a later cycle would start it (start_threshold is
\* never reached), and do_start trusts the flag.  The flag goes through
\* do_prepare, resume, EBUSY and recoveries that fail half way.
NeverStuckPrepared == pc = "poll" /\ started /\ alsa_started => k # "PREPARED"

\* However calls fail and the system sleeps, once that is over a stream that
\* is not stopped and whose device is there plays again.
PlaysAgain == []<>(k \in {"RUNNING", "DISCONNECTED"} \/ pc \in {"stopped", "end"})

\* Wakeups that are punctual never let the buffer run dry, although a write
\* stops at the end of the ring and an early wakeup writes nothing.
PunctualNeverUnderruns ==
  k = "XRUN" => late \/ fails > 0 \/ suspends > 0

\* Every underrun is given to xrun_cb exactly once, wherever in the cycle it
\* strikes and whichever call notices it.
EveryXrunReported ==
  pc = "poll" /\ fails = 0 /\ suspends = 0 => owed = IF k = "XRUN" THEN 1 ELSE 0

=============================================================================
