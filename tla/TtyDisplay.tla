----------------------------- MODULE TtyDisplay -----------------------------
(***************************************************************************)
(* tty2wayland: puts the console into graphics mode, takes over the        *)
(* display, starts one Wayland client and copies each frame it commits     *)
(* into the back one of two buffers.  Every call may fail; the user, the   *)
(* alarm and the end of the client stop it.  The client is the one the     *)
(* program is written for, weston-simple-shm: it draws the next frame when *)
(* its frame callback is done.                                             *)
(***************************************************************************)
EXTENDS Naturals

CONSTANT Timeout    (* ticks from the first frame to the alarm             *)

ASSUME TimeoutAssumption == Timeout \in Nat \ {0}

VARIABLES
  main,             (* where the program is                                *)
  vt, graphics,     (* the console's mode; tty_graphics                    *)
  fb,               (* what was allocated for each of the two buffers      *)
  blobs,            (* property blobs created                              *)
  opened, active,   (* kms.fd is open; the mode was set                    *)
  front,
  scan, pending,    (* kernel: buffer shown, buffer of the commit under way*)
  flipped,          (* kernel: a page flip event waits to be read          *)
  refused,          (* kernel: the commit that restores was refused        *)
  surface, callback,
  timer,            (* ticks to the alarm, or NoAlarm                      *)
  stop, leaving,    (* a stop signal is pending; wl_display_terminate      *)
  status, child,
  client, request   (* what the client waits for; what it has sent         *)

console == <<vt, graphics>>
kms     == <<fb, blobs, opened, active>>
kernel  == <<scan, pending, flipped, refused>>
wayland == <<surface, callback, timer, leaving, status>>
peer    == <<child, client, request>>
ttyVars == <<main, console, kms, front, kernel, wayland, stop, peer>>

Buffers == {"A", "B"}
Back    == IF front = "A" THEN "B" ELSE "A"
NoAlarm == Timeout + 1

TtyTypeOK ==
  /\ main \in {"off", "vt", "open", "mode", "fb A", "fb B", "modeset", "server", "fork", "loop",
               "wait", "destroy", "restore", "free", "vt back", "exit"}
  /\ vt \in {"text", "graphics"} /\ graphics \in BOOLEAN
  /\ fb \in [Buffers -> SUBSET {"handle", "id", "map"}] /\ blobs \subseteq {"saved", "mode"}
  /\ opened \in BOOLEAN /\ active \in BOOLEAN /\ front \in Buffers
  /\ scan \in Buffers \cup {"old", "black"} /\ pending \in Buffers \cup {"none"}
  /\ flipped \in BOOLEAN /\ refused \in BOOLEAN
  /\ surface \in BOOLEAN /\ callback \in BOOLEAN
  /\ timer \in 0 .. NoAlarm
  /\ stop \in BOOLEAN /\ leaving \in BOOLEAN /\ status \in {0, 1}
  /\ child \in {"none", "running", "exits 0", "exits 1", "reaped"}
  /\ client \in {"none", "starting", "configure", "drawing", "frame"}
  /\ request \in {"none", "initial", "frame"}

\* The program is not running.
TtyInit ==
  /\ main = "off" /\ vt = "text" /\ graphics = FALSE
  /\ fb = [b \in Buffers |-> {}] /\ blobs = {} /\ opened = FALSE /\ active = FALSE /\ front = "A"
  /\ scan = "old" /\ pending = "none" /\ flipped = FALSE /\ refused = FALSE
  /\ surface = FALSE /\ callback = FALSE /\ timer = NoAlarm /\ leaving = FALSE /\ status = 1
  /\ stop = FALSE /\ child = "none" /\ client = "none" /\ request = "none"

-----------------------------------------------------------------------------
(* main, drm_display_open: each step works, or goes to the way out         *)

TtyRun == main = "off" /\ main' = "vt" /\ UNCHANGED <<console, kms, front, kernel, wayland, stop, peer>>

PrepareVt ==
  /\ main = "vt"
  /\ \/ vt' = "graphics" /\ graphics' = TRUE /\ main' = "open"
     \/ UNCHANGED console /\ main' = "vt back"
  /\ UNCHANGED <<kms, front, kernel, wayland, stop, peer>>

\* The device is opened and made ours, the pipeline found and its properties
\* read: one may fail with the device open.
OpenDevice ==
  /\ main = "open"
  /\ \/ opened' \in BOOLEAN /\ main' = "restore"
     \/ opened' = TRUE /\ main' = "mode"
  /\ UNCHANGED <<console, fb, blobs, active, front, kernel, wayland, stop, peer>>

\* The old mode is copied, if the display had one.
SaveMode ==
  /\ main = "mode"
  /\ \/ main' = "restore" /\ UNCHANGED blobs
     \/ main' = "fb A" /\ blobs' \in {blobs, blobs \cup {"saved"}}
  /\ UNCHANGED <<console, fb, opened, active, front, kernel, wayland, stop, peer>>

\* A dumb buffer, a framebuffer over it and its mapping, in this order.
CreateFb(b, here, there) ==
  /\ main = here
  /\ \/ fb' = [fb EXCEPT ![b] = {"handle", "id", "map"}] /\ main' = there
     \/ \E got \in {{}, {"handle"}, {"handle", "id"}} : fb' = [fb EXCEPT ![b] = got] /\ main' = "restore"
  /\ UNCHANGED <<console, blobs, opened, active, front, kernel, wayland, stop, peer>>

\* Mutant: a mode that was set is not noted.
ModesetForgotten ==
  /\ main = "modeset"
  /\ \/ blobs' = blobs \cup {"mode"} /\ scan' = "A" /\ main' = "server"
     \/ blobs' \in {blobs, blobs \cup {"mode"}} /\ UNCHANGED scan /\ main' = "restore"
  /\ UNCHANGED <<console, fb, opened, active, front, pending, flipped, refused, wayland, stop, peer>>

Modeset ==
  /\ main = "modeset"
  /\ \/ blobs' = blobs \cup {"mode"} /\ scan' = "A" /\ active' = TRUE /\ main' = "server"
     \/ blobs' \in {blobs, blobs \cup {"mode"}} /\ UNCHANGED <<scan, active>> /\ main' = "restore"
  /\ UNCHANGED <<console, fb, opened, front, pending, flipped, refused, wayland, stop, peer>>

CreateServer ==
  /\ main = "server"
  /\ main' \in {"fork", "restore"}
  /\ UNCHANGED <<console, kms, front, kernel, wayland, stop, peer>>

\* wayland_server_run up to the loop; the command may not exist
Fork ==
  /\ main = "fork"
  /\ \/ main' = "destroy" /\ UNCHANGED <<status, peer>>
     \/ /\ main' = "loop" /\ status' = 0
        /\ child' \in {"running", "exits 1"}
        /\ client' = IF child' = "running" THEN "starting" ELSE "none"
        /\ UNCHANGED request
  /\ UNCHANGED <<console, kms, front, kernel, surface, callback, timer, leaving, stop>>

TtySetup == PrepareVt \/ OpenDevice \/ SaveMode \/ CreateFb("A", "fb A", "fb B") \/ CreateFb("B", "fb B", "modeset")
         \/ Modeset \/ CreateServer \/ Fork

-----------------------------------------------------------------------------
(* The handlers of the event loop.  After wl_display_terminate the rest of *)
(* the events of this round is still handled.                              *)

InLoop == main = "loop"
Terminate == leaving' = TRUE

\* surface_commit without a buffer
InitialCommit ==
  /\ InLoop /\ request = "initial"
  /\ request' = "none" /\ surface' = TRUE
  /\ client' = IF client = "configure" THEN "drawing" ELSE client
  /\ UNCHANGED <<main, console, kms, front, kernel, callback, timer, leaving, status, stop, child>>

\* drm_display_present; the kernel takes one commit at a time
Present ==
  \/ pending = "none" /\ pending' = Back /\ UNCHANGED <<status, leaving>>
  \/ UNCHANGED pending /\ status' = 1 /\ Terminate

\* surface_frame, surface_commit, copy_buffer: draws into Back
FrameCommit ==
  /\ InLoop /\ request = "frame"
  /\ request' = "none" /\ callback' = TRUE /\ Present
  /\ UNCHANGED <<main, console, kms, front, scan, flipped, refused, surface, timer, stop, child, client>>

\* Mutant: the alarm starts again with every frame.
StartTimerAgain == timer' = Timeout

\* The alarm starts with the first frame.
StartTimer == timer' = IF timer = NoAlarm THEN Timeout ELSE timer

FrameDone ==
  /\ callback' = FALSE
  /\ client' = IF surface /\ callback /\ client = "frame" THEN "drawing" ELSE client
  /\ StartTimer

\* Mutant: page_flip does not swap the buffers.
DrmEventKeepsFront ==
  /\ InLoop /\ flipped
  /\ \/ flipped' = FALSE /\ FrameDone /\ UNCHANGED <<front, status, leaving>>
     \/ status' = 1 /\ Terminate /\ UNCHANGED <<front, flipped, callback, client, timer>>
  /\ UNCHANGED <<main, console, kms, scan, pending, refused, surface, stop, child, request>>

\* drm_event: page_flip, then frame_done; or the event cannot be read
DrmEvent ==
  /\ InLoop /\ flipped
  /\ \/ flipped' = FALSE /\ front' = Back /\ FrameDone /\ UNCHANGED <<status, leaving>>
     \/ status' = 1 /\ Terminate /\ UNCHANGED <<front, flipped, callback, client, timer>>
  /\ UNCHANGED <<main, console, kms, scan, pending, refused, surface, stop, child, request>>

\* The client's socket is closed: free_surface
Hangup ==
  /\ InLoop /\ child # "running" /\ client # "none"
  /\ client' = "none" /\ request' = "none" /\ surface' = FALSE /\ callback' = FALSE
  /\ UNCHANGED <<main, console, kms, front, kernel, timer, leaving, status, stop, child>>

StopSignal ==
  /\ InLoop /\ stop
  /\ stop' = FALSE /\ Terminate
  /\ UNCHANGED <<main, console, kms, front, kernel, surface, callback, timer, status, peer>>

StopTimer ==
  /\ InLoop /\ timer = 0 /\ ~leaving
  /\ Terminate
  /\ UNCHANGED <<main, console, kms, front, kernel, surface, callback, timer, status, stop, peer>>

ChildExited ==
  /\ InLoop /\ child \in {"exits 0", "exits 1"}
  /\ child' = "reaped" /\ status' = (IF child = "exits 0" THEN 0 ELSE 1) /\ Terminate
  /\ UNCHANGED <<main, console, kms, front, kernel, surface, callback, timer, stop, client, request>>

TtyHandler == InitialCommit \/ FrameCommit \/ DrmEvent \/ Hangup

-----------------------------------------------------------------------------
(* The way out                                                             *)

LoopEnds ==
  /\ InLoop /\ leaving
  /\ main' = IF child = "reaped" THEN "destroy" ELSE "wait"
  /\ UNCHANGED <<console, kms, front, kernel, wayland, stop, peer>>

\* The child has SIGTERM and has ended.
Waited ==
  /\ main = "wait" /\ child # "running"
  /\ main' = "destroy" /\ child' = "reaped"
  /\ UNCHANGED <<console, kms, front, kernel, wayland, stop, client, request>>

\* wayland_server_destroy
DestroyServer ==
  /\ main = "destroy"
  /\ main' = "restore" /\ timer' = NoAlarm
  /\ surface' = FALSE /\ callback' = FALSE /\ client' = "none" /\ request' = "none"
  /\ UNCHANGED <<console, kms, front, kernel, leaving, status, stop, child>>

\* restore_kms: a blocking commit, which waits for the one under way
RestoreKms ==
  /\ main = "restore" /\ main' = "free"
  /\ \/ ~active /\ UNCHANGED <<scan, refused>>
     \/ active /\ pending = "none" /\ scan' = "old" /\ UNCHANGED refused
     \/ active /\ pending = "none" /\ refused' = TRUE /\ UNCHANGED scan
  /\ UNCHANGED <<console, kms, front, pending, flipped, wayland, stop, peer>>

\* destroy_fb: whatever part of each buffer there is
DestroyFbs == [b \in Buffers |-> {}]

\* The rest of drm_display_close; a buffer destroyed while shown leaves black.
CloseDevice ==
  /\ main = "free" /\ main' = "vt back"
  /\ fb' = DestroyFbs /\ blobs' = {} /\ opened' = FALSE /\ active' = FALSE
  /\ scan' = IF scan \in Buffers THEN "black" ELSE scan
  /\ UNCHANGED <<console, front, pending, flipped, refused, wayland, stop, peer>>

RestoreVt ==
  /\ main = "vt back" /\ main' = "exit"
  /\ vt' = IF graphics THEN "text" ELSE vt
  /\ UNCHANGED <<graphics, kms, front, kernel, wayland, stop, peer>>

TtyWayOut == LoopEnds \/ Waited \/ DestroyServer \/ RestoreKms \/ CloseDevice \/ RestoreVt

-----------------------------------------------------------------------------
(* The kernel, the user and the client                                     *)

Vblank ==
  /\ pending # "none"
  /\ scan' = pending /\ pending' = "none" /\ flipped' = TRUE
  /\ UNCHANGED <<main, console, kms, front, refused, wayland, stop, peer>>

AlarmTick ==
  /\ timer \in 1 .. Timeout /\ timer' = timer - 1
  /\ UNCHANGED <<main, console, kms, front, kernel, surface, callback, leaving, status, stop, peer>>

UserStops ==
  /\ main \notin {"off", "exit"} /\ ~stop /\ stop' = TRUE
  /\ UNCHANGED <<main, console, kms, front, kernel, wayland, peer>>

ClientSends ==
  /\ child = "running" /\ request = "none"
  /\ \/ client = "starting" /\ client' = "configure" /\ request' = "initial"
     \/ client = "drawing" /\ client' = "frame" /\ request' = "frame"
  /\ UNCHANGED <<main, console, kms, front, kernel, wayland, stop, child>>

ClientEnds ==
  /\ child = "running" /\ child' \in {"exits 0", "exits 1"}
  /\ UNCHANGED <<main, console, kms, front, kernel, wayland, stop, client, request>>

TtyNext ==
  \/ TtyRun \/ TtySetup \/ TtyHandler \/ StopSignal \/ StopTimer \/ ChildExited \/ TtyWayOut
  \/ Vblank \/ AlarmTick \/ UserStops \/ ClientSends \/ ClientEnds

\* The loop handles whatever is ready, time passes, flips complete, and the
\* client obeys SIGTERM.
TtyFairness ==
  /\ WF_ttyVars(StopSignal \/ StopTimer \/ ChildExited) /\ WF_ttyVars(TtyWayOut)
  /\ WF_ttyVars(AlarmTick) /\ WF_ttyVars(Vblank)
  /\ WF_ttyVars(main = "wait" /\ ClientEnds)

TtySpec == TtyInit /\ [][TtyNext]_ttyVars /\ TtyFairness

-----------------------------------------------------------------------------
(* Properties.                                                             *)

\* A frame about to be copied finds its buffer neither shown nor about to be
\* shown, and no commit under way that would refuse it: what README.md calls
\* "each frame callback after the page flip" keeps client and display in step,
\* although flips, their events and commits come in any order.
BackBufferFree ==
  request = "frame" => Back \notin {scan, pending} /\ pending = "none" /\ ~flipped

\* Whatever step failed and whatever stopped the program, at its end the console
\* is in its old mode, the display shows what it did before unless the kernel
\* refused to go back, nothing allocated is left and no client runs.
ConsoleRestored ==
  main = "exit" =>
    /\ vt = "text" /\ (scan = "old" \/ refused)
    /\ \A b \in Buffers : fb[b] = {}
    /\ blobs = {} /\ ~opened /\ child # "running"

\* A signal, the end of the client or a first frame stops the program, however
\* busy the client keeps the loop.
DisplayEnds ==
  (main = "loop" /\ (stop \/ leaving \/ timer # NoAlarm \/ child # "running")) ~> (main = "exit")

=============================================================================
