----------------------------- MODULE RecoverTest -----------------------------
(***************************************************************************)
(* check-my-alsa recover: writes a little, waits until the stream has      *)
(* underrun, recovers it the way PipeWire does, and looks at what came of  *)
(* it, a number of times.  The PCM underruns, sleeps or goes away between  *)
(* any two calls; what a call does to it inside is AlsaPcm's.              *)
(***************************************************************************)
EXTENDS Naturals

CONSTANT Iterations     (* -n                                              *)

ASSUME RecoverAssumption == Iterations \in Nat \ {0}

VARIABLES
  recover,              (* where the test is                               *)
  attempts,             (* attempts begun                                  *)
  pcm,                  (* kernel: the PCM's state                         *)
  st_state,             (* the state last asked for                        *)
  rec_failed,           (* alsa_recover, or get_avail after it, failed     *)
  xruns_induced, induction_failed, recoveries_ok, recoveries_failed,
  g_stop,
  code,                 (* the exit status                                 *)
  brokeNow, broken      (* history: since the attempt found or made it     *)
                        (* ready the stream has stopped by itself, or      *)
                        (* failed to tell how much there is to play;       *)
                        (* attempts in which it did                        *)

counters    == <<xruns_induced, induction_failed, recoveries_ok, recoveries_failed>>
brokeHist   == <<brokeNow, broken>>
recoverVars == <<recover, attempts, pcm, st_state, rec_failed, counters, g_stop, code, brokeHist>>

PcmStates == {"SETUP", "PREPARED", "RUNNING", "XRUN", "SUSPENDED", "DISCONNECTED"}
Ready     == {"PREPARED", "RUNNING"}
Stopped   == {"XRUN", "SUSPENDED", "DISCONNECTED"}

RecoverTypeOK ==
  /\ recover \in {"off", "open", "prepare", "attempt", "again", "write", "commit", "wait", "judge",
                  "drop", "recover", "verify", "exit"}
  /\ attempts \in 0 .. Iterations /\ pcm \in PcmStates /\ st_state \in PcmStates
  /\ {rec_failed, g_stop, brokeNow} \subseteq BOOLEAN /\ code \in 0 .. 2
  /\ {xruns_induced, induction_failed, recoveries_ok, recoveries_failed, broken} \subseteq 0 .. Iterations

RecoverInit ==
  /\ recover = "off" /\ attempts = 0 /\ pcm = "SETUP" /\ st_state = "SETUP" /\ rec_failed = FALSE
  /\ xruns_induced = 0 /\ induction_failed = 0 /\ recoveries_ok = 0 /\ recoveries_failed = 0
  /\ g_stop = FALSE /\ code = 0 /\ brokeNow = FALSE /\ broken = 0

-----------------------------------------------------------------------------
(* The test.  CHECK leaves it at once with an error.                       *)

At(from, to) == recover = from /\ recover' = to

ExitWith(from, c) == At(from, "exit") /\ code' = c

\* The options, then pcm_sink_open
RecoverOpen ==
  /\ \/ (At("off", "open") \/ At("open", "prepare")) /\ UNCHANGED code
     \/ ExitWith("off", 2) \/ ExitWith("open", 1)
  /\ UNCHANGED <<attempts, pcm, st_state, rec_failed, counters, g_stop, brokeHist>>

\* do_prepare: of a PCM that is gone it fails; a running one answers EBUSY and
\* runs on.
DoPrepare(from, to) ==
  /\ \/ /\ At(from, to) /\ pcm # "DISCONNECTED" /\ UNCHANGED code
        /\ pcm' = IF pcm = "RUNNING" THEN pcm ELSE "PREPARED"
     \/ ExitWith(from, 1) /\ UNCHANGED pcm
  /\ UNCHANGED <<attempts, rec_failed, counters, g_stop, brokeHist>>

PrepareFirst == DoPrepare("prepare", "attempt") /\ UNCHANGED st_state

\* The head of the loop
BeginAttempt ==
  /\ recover = "attempt" /\ ~g_stop /\ attempts < Iterations
  /\ attempts' = attempts + 1 /\ st_state' = pcm
  /\ recover' = (IF pcm \in Ready THEN "write" ELSE "again") /\ brokeNow' = FALSE
  /\ UNCHANGED <<pcm, rec_failed, counters, g_stop, code, broken>>

PrepareAgain == DoPrepare("again", "write") /\ st_state' = IF pcm' = "PREPARED" THEN pcm' ELSE st_state

\* What alsa_recover may leave: whatever its calls come to, only a PCM that is
\* gone stays so.
Recovered == IF pcm = "DISCONNECTED" THEN {pcm} ELSE PcmStates \ {"DISCONNECTED"}

\* spa_alsa_write, its snd_pcm_mmap_begin, which alsa_recover follows if it
\* fails.  Of a device without mmap nothing is asked here, whatever its state.
WriteQuantum ==
  /\ \/ At("write", "commit") /\ UNCHANGED <<pcm, recoveries_failed>>
     \/ /\ At("write", "attempt") /\ recoveries_failed' = recoveries_failed + 1
        /\ pcm' \in Recovered
  /\ UNCHANGED <<attempts, st_state, rec_failed, xruns_induced, induction_failed, recoveries_ok>>
  /\ UNCHANGED <<g_stop, code, brokeHist>>

\* snd_pcm_mmap_commit: an underrun or a suspend in the write is no error of it,
\* and with no room, or no mmap, there is nothing to commit.  Whether do_start
\* then starts what is only prepared nobody looks at.
CommitQuantum ==
  /\ \/ /\ At("commit", "wait") /\ UNCHANGED recoveries_failed
        /\ pcm' \in IF pcm \in Ready THEN {pcm, "RUNNING"} ELSE {pcm}
     \/ /\ At("commit", "attempt") /\ pcm \notin {"XRUN", "SUSPENDED"}
        /\ recoveries_failed' = recoveries_failed + 1 /\ UNCHANGED pcm
  /\ UNCHANGED <<attempts, st_state, rec_failed, xruns_induced, induction_failed, recoveries_ok>>
  /\ UNCHANGED <<g_stop, code, brokeHist>>

Breaks == brokeNow' = TRUE /\ broken' = IF brokeNow THEN broken ELSE broken + 1

\* Mutant: the wait ends with its time and is taken for an underrun.
WaitIsEnough ==
  /\ At("wait", "recover") /\ st_state' = pcm /\ xruns_induced' = xruns_induced + 1
  /\ UNCHANGED <<attempts, pcm, rec_failed, induction_failed, recoveries_ok, recoveries_failed>>
  /\ UNCHANGED <<g_stop, code, brokeHist>>

\* Asks for the state until it is not a running stream's, for ten seconds, or
\* not at all after a stop.
WaitForXrun ==
  /\ At("wait", "judge")
  /\ st_state' \in IF g_stop THEN {pcm, st_state} ELSE {pcm}
  /\ UNCHANGED <<attempts, pcm, rec_failed, counters, g_stop, code, brokeHist>>

\* alsa_avail fails unless the stream is ready, and may fail then too.
JudgeInduction ==
  /\ \/ At("judge", "drop") /\ st_state # "XRUN" /\ pcm \in Ready
        /\ induction_failed' = induction_failed + 1 /\ UNCHANGED <<xruns_induced, brokeHist>>
     \/ /\ At("judge", "recover") /\ xruns_induced' = xruns_induced + 1 /\ UNCHANGED induction_failed
        /\ IF st_state = "XRUN" \/ pcm \notin Ready THEN UNCHANGED brokeHist ELSE Breaks
  /\ UNCHANGED <<attempts, pcm, st_state, rec_failed, recoveries_ok, recoveries_failed, g_stop, code>>

DropAndPrepare == DoPrepare("drop", "attempt") /\ UNCHANGED st_state

\* alsa_recover, and get_avail, which may recover once more
Recover ==
  /\ At("recover", "verify")
  /\ pcm' \in Recovered
  /\ rec_failed' \in IF pcm' \in Ready THEN BOOLEAN ELSE {TRUE}
  /\ UNCHANGED <<attempts, st_state, counters, g_stop, code, brokeHist>>

VerifyRecovery ==
  /\ At("verify", "attempt") /\ st_state' = pcm
  /\ IF ~rec_failed /\ pcm \in Ready
     THEN recoveries_ok' = recoveries_ok + 1 /\ UNCHANGED recoveries_failed
     ELSE recoveries_failed' = recoveries_failed + 1 /\ UNCHANGED recoveries_ok
  /\ UNCHANGED <<attempts, pcm, rec_failed, xruns_induced, induction_failed, g_stop, code, brokeHist>>

Failed == IF induction_failed > 0 \/ recoveries_failed > 0 THEN 1 ELSE 0

\* pcm_sink_stop, print_report
Finish ==
  /\ ExitWith("attempt", Failed) /\ (g_stop \/ attempts = Iterations)
  /\ UNCHANGED <<attempts, pcm, st_state, rec_failed, counters, g_stop, brokeHist>>

-----------------------------------------------------------------------------
(* The PCM and the user                                                    *)

\* A running stream underruns; any stream may be suspended or go away.
StreamStops ==
  /\ recover \notin {"off", "open", "prepare", "exit"} /\ pcm # "DISCONNECTED"
  /\ pcm' \in (IF pcm = "RUNNING" THEN Stopped ELSE Stopped \ {"XRUN"})
  /\ IF recover \in {"write", "commit", "wait", "judge"} THEN Breaks ELSE UNCHANGED brokeHist
  /\ UNCHANGED <<recover, attempts, st_state, rec_failed, counters, g_stop, code>>

StopRequest ==
  /\ recover \notin {"off", "exit"} /\ g_stop' = TRUE
  /\ UNCHANGED <<recover, attempts, pcm, st_state, rec_failed, counters, code, brokeHist>>

RecoverNext ==
  \/ RecoverOpen \/ PrepareFirst \/ BeginAttempt \/ PrepareAgain \/ WriteQuantum \/ CommitQuantum
  \/ WaitForXrun \/ JudgeInduction \/ DropAndPrepare \/ Recover \/ VerifyRecovery \/ Finish
  \/ StreamStops \/ StopRequest

RecoverSpec == RecoverInit /\ [][RecoverNext]_recoverVars

-----------------------------------------------------------------------------
(* Properties.                                                             *)

\* An exit status of 0 says that in every attempt, once it had found or made the
\* stream ready, the stream stopped by itself or snd_pcm_avail failed, that it was
\* recovered and was then ready, and that only the user can have cut the attempts
\* short: no state of an earlier attempt, time that ran out or stream that never
\* started is taken for an underrun that was recovered.  (The stop may come in the
\* write itself, and be a suspend.)
ZeroMeansRecovered ==
  recover = "exit" /\ code = 0 =>
    /\ recoveries_ok = attempts /\ xruns_induced = attempts /\ broken = attempts
    /\ g_stop \/ attempts = Iterations

=============================================================================
