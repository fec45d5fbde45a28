# Verification of the overthinkin tools

The repository is a collection of about twenty-five small, independent Linux
programs (C, Rust, Go, Lua, C++, Swift, shell).  They share no code and no
state: each is a system of its own, and what is hard about each is how its
threads, processes, callbacks or peers interleave.  This directory holds one
TLA+ specification per program worth modelling, TLC models of them, and proofs.

## 1. Inventory

| program | state it keeps | operations | interacts with | what is hard | correct means |
|---|---|---|---|---|---|
| ssh-auto-port | supervisor loop, `ForwardManager` (desired, forwards, skipped, retry_at), listener and tunnel tasks | connect, probe frame, reconcile, stop_all, accept, proxy | remote host, SSH link, local port owners | tasks and awaits, link loss at any point, retries, port search | every listener owned, every port accounted for, teardown complete, forwards follow the remote host |
| sqlite2meilisearch | target index, batch, task waits | upload, wait, prune, report | Meilisearch's task queue, other writers | late tasks after a timeout or crash, partial failure, rerun | success means the index holds the source's ids |
| check-my-alsa, the PCM (alsa-pcm.c) | PCM state machine, timerfd, delay-locked update | open, prepare, start, pause, write, recover | kernel PCM, timer | xrun and suspend during every call, partial writes | the driver's flags follow the PCM, no underrun of its own making, playback resumes |
| check-my-alsa, applets | what a test has seen so far | suspend, recover, jack; caps, latency, play, xrun | the PCM, the clocks, `rtcwake`, jack controls | a sleep or an underrun between any two steps, merged events | a verdict is about what happened, the last line is true |
| keyi-sudo | temporary copy, inode and mtime | copy out, run editor, save back | editor process, other writers | crash between truncate and copy, change detection | the edit is saved or the copy is kept |
| pulse-monitor | event list, pending query, quit flag | callbacks, print, quit | libpulse thread, server, signals | two threads, lost wakeups, stale objects | nothing lost or repeated, (deleted) is true, ^C quits |
| im-wl-protocol | server's client list and names; client's `has_nickname` | set_nickname, send_message, destroy, broadcasts | Wayland sockets, dying clients | unique names under renames and crashes, message order | one log, everyone sees it whole |
| remote-text-input | session status, epoch, pending commands | update, clear, done, activate | browser over WebSocket, compositor | stale serials, takeover by another controller | text lands in the right field, answers are true, no preedit is left |
| git-plain-clone | objects of a pack, delta chains, output directory | negotiate, fetch, resolve, materialize | git server | thin packs, ofs/ref deltas in any order, partial output | the tree written is the commit's tree |
| tty2wayland | console mode, two DRM buffers, flip pending, frame callback, child | set-up, commit, flip, frame done, stop, restore | kernel DRM, console, Wayland client | commit while a flip is pending; a failure or signal at every step of set-up and way out | never draws into a buffer that is shown, leaves everything as it was, ends |
| pipewire-xrun | counters and raw intervals | process callback, report, exit status | PipeWire's data thread, server | the data thread measures during report and way out | no store into freed memory, the status tells all that was measured |
| jump-or-exec | list of windows | globals, toplevel events, select, activate or spawn | compositor | windows known only after two roundtrips, changes on the way | runs the command only if no window matches, activates one that does |
| lua-keybind | keys held, context, preview and selection on both sides of the Lua API | key down and up, shortcuts, preview, commit | SDL, Lua callbacks | two keys of one modifier, releases in any order, loss of the focus | a preview ends in a commit, a context with its modifier |
| mkdot | the base directory | walk a topic, rename, copy or link | file system | path arithmetic, existing files, overlapping topics, failing calls | every file under its name, nothing lost |
| display-test, resize-test, hook-wl-signal, wayland-registry-oom, check-sed-mtime | next to none | one-shot experiments | Wayland, file system | little | they print what they saw |
| dde-clip-wink, pw-micwatch, mac-snd-info, switch-pulse, pipewire-suspend | a cache of the last seen state | listen and print or switch | desktop services | event order | they show the current state |

Component by component, with the lines, the hard spots and the properties that
meet them: `PROJECT.json` ("components", "map", "hazards").

## 2. Plan

Order: the programs with the most concurrency first, then those with the most
failure handling, then the algorithms.  Nothing is composed across programs,
since they share nothing; within a program the module models the whole of its
interacting parts (tasks, threads, peers, kernel or server), and where the
program makes a promise that can be said more simply, an abstract module says
it and a refinement mapping connects the two.

| step | module | abstract specification | runs and bounds | theorems |
|---|---|---|---|---|
| 1 done | `SshAutoPort` | | 3 ports, 1 client connection, 1 frame unread | all of its safety properties |
| 2 done | `ImChat` | `ChatRoom`, refined | 2 clients, 2 names, 3 broadcasts | all, and the refinement |
| 3 done | `PulseMonitor` | | 2 objects, 3 events | all of its safety properties |
| 4 done | `KeyiEdit` | | 5 texts, 2 writes | all |
| 5 done | `MeiliSync` | | 3 ids, 2 rows, 2 runs | all |
| 6 done | `AlsaPcm` | | one ring of 14 frames, underrun, suspend and errors at every call | all of its safety properties |
| 7 done | `PlainClone` | the files of a commit by recursion, its objects as least sets | 2 commits, 2 trees, 3 blobs, packs of up to 9 entries | all of its safety properties |
| 8 done | `RemoteTextInput` | | 2 pages, 2 sockets, 2 changes of the focus | all of its safety properties |
| 9 done | `TtyDisplay`, `PwXrun`, `KeyBind` | | 2 buffers, every failure; 3 callbacks; 3 screens, all keys | all of their safety properties |
| 10 done | `SuspendTest`, `RecoverTest`, `JackWatch`, over the promises of `AlsaPcm` | | one sleep anywhere; 2 attempts; 3 jacks | all |
| 11 done | `JumpOrExec`, `Mkdot` | the renaming rule of the comment, `Rule` | 2 windows, 2 changes; 4 topics, 4 bases | all |
| 12 next | the applets play, xrun, latency of check-my-alsa | | compositions with `AlsaPcm` | |

The modules are written to be proved about as well as checked: constants with
named assumptions, one action per operation, properties as conjunctions of named
parts, no RECURSIVE operators.

## 3. The modules

### SshAutoPort

| code | model |
|---|---|
| `run`, `poll_loop` (main.rs) | `sup`, `backoff`; `ConnectOk` ... `SleepDone`; `pc` is where `poll_loop` and `reconcile` are |
| probe script, `read_frame`, `parse_frame` (probe.rs) | `ProbeFrame`, `frames`, `ReadFrame`, `ReadFails`; bytes are abstracted to whole frames, well-formed or not |
| `ForwardManager` | `desired`, `forwards`, `skipped`, `retry` (ticks until `retry_at`, -1 for no entry) |
| `reconcile` | split where it awaits or may be observed: `RemoveOne`/`Joined` per removed port, `Scan`, `AddOne` per pending port, `Reconciled` |
| `add_forward`, `try_bind`, `find_free_near` | `LocalPortFor`, `TryBind`, `Candidate`, `Answers` |
| `Forward::stop`, `stop_all` | `StopForward`, `Joined`; `StopOne`, `StopDone` |
| `accept_loop`, `proxy_connection` | `task` by local port (accepting, cancelled, draining), `conn`; `Accept`, `Break`, `TaskReturns`, `ChannelOpens`, `TunnelEnds` |
| remote host, link, local programs, clock | `RemoteChanges`, `LinkDies`, `OtherBinds`, `OtherReleases`, `Tick` |

Connecting is its outcome (succeeds, fails for now, fails for good); keys, host
verification and the parsing of `/proc/net/tcp` are left out.  `select!`
without `biased` picks any ready branch, so a cancelled listener may still
accept (`Accepting` includes the cancelled phase).

### ImChat and ChatRoom

`clients` and `nick` are the server's list, `reqs` and `evs` the two FIFO
directions of each socket, `has` the client's `has_nickname`.  Every request
handler of server.c is one action with all its broadcasts; a client may quit in
order or die at any point, and the server notices later (`Hangup`).  `log` and
`seen` are history variables.  `ChatRoom` is the promise: one log, members who
read it in order and whole from the moment they entered.  The refinement maps a
member's position to the length of the log minus the broadcasts still on the
way to it.

### PulseMonitor

`main` is the program counter of the main thread with a point for every place
where the other thread or the signal can act; in particular `gap` lies between
the test of `quit` and the entry into `pthread_cond_wait`, where a signal is
lost.  `SubCb` and `QueryCb` are the callbacks on libpulse's thread, `head`,
`tail`, `next` the list, `freed` the cells given back.  The server is external:
it keeps objects and sends events and replies in order.  The eight facilities
differ in what they print, so one stands for all.

### KeyiEdit

One action per system call of `copy_one` and `save_one` that can fail, with
`sendfile` stopping anywhere and a kill at every point.  A text is a sequence
of blocks.  The editor is external: it writes in place or replaces the file, a
bounded number of times, and exits with 0 or not.  `wstatus` after a failed
`fork` is either value, since it is then read uninitialised.

### MeiliSync

`source` is what the rows of the run yield, `Bad` a row that fails; `pos` and
`from` delimit what was read and the batch being filled.  A batch may also be
full by its bytes, so `Upload` may come at any size.  A request is in `flight`,
then a task in `queue`, then done; `reply` is what the client knows of the one
it waits for.  `GiveUp` stands for every error path, timeout and kill; what was
under way stays under way, as a stray of the earlier run.  The contents of a
document are the number of the run that read it, which tells a stale copy from
a fresh one.  Meilisearch is external: tasks are processed one at a time in
order, each wholly or not at all.

### AlsaPcm

| code | model |
|---|---|
| `alsa_recover`, `do_prepare` | `Status`, `Resume`, `Drop`, `Swparams`, `Prepare`, `Silence`, `Start`: one action per call to ALSA; `ret` is what follows the function |
| `alsa_timer_wakeup`, `get_avail`, `alsa_write_sync`, `update_time` | `Wake`, `Avail`, `AvailAgain`, `Sync`; `due` is `next_time` counted from now, negative when late |
| `alsa_write_frames` | `MmapBegin`, `MmapCommit`, `Run` |
| `spa_alsa_start`, `spa_alsa_pause`, `spa_alsa_close` | `BeginPlay`, `Pause`, `Stop` |
| the applets around it | `Tolerate`: go on after a cycle that failed |
| kernel and hardware | `k`, `fill`, `appl`; `Tick`, `Suspend`, and failure of any call by `CallFails` |

A PCM refuses a call in the wrong state, or for no reason a bounded number of
times.  It may underrun, be suspended or vanish between any two calls.  The
five tries of `snd_pcm_resume` are one step with either outcome.  The rate
correction is 1, `start_delay` is 0 as `alsa_state_init` leaves it, and neither
the reset of a wakeup more than a second away nor a failing `timerfd_settime`
is modelled.  A device without mmap is left out: of it `alsa_write_frames`
writes nothing, since only the mmap path of PipeWire is kept (alsa-pcm.c:891).  `owed` and `late` are history variables.

### PlainClone

| code | model |
|---|---|
| `main`, `OutputDirAvailable` | `Main`; `disk` is what lies below the output directory |
| `selectAdvertisedRef`, `matchWantedRef` | `GetRefs`, `SelectedRef`, `Match` |
| `UploadPack`, `extractPack`, the checksum | `UploadPack`: the whole pack or an error |
| `parsePack`, `objectStore` | `ParseEntry`, `Add`; `store` is `byOID`, `at` is `byOffset` |
| `resolveDeltas` | `Resolve` for each place of the list, `PassEnds` |
| `peelToCommit`, `parseHeaderOID` | `Peel`, with the bound of 8 as `Depth` |
| `materialize` and below it | `Count`, `Write`; `todo` is the stack of the recursion |

An object is its type and body and is its own name, which takes the hash to be
injective; `HashAssumption` says that no object names, over others, itself.  The
tree to expect is defined apart from the code: `Files` by recursion over the trees,
the way from a tag to its commit (`Peels`), the trees in a tree (`Below`) and a pack
whose deltas all have bases (`Sound`) as least sets.  A delta yields the body it was made for, with the type of its base.
The bytes of the delta instructions, inflation and packet lines are left out.
A full disk or a kill may leave the file under way cut short (`Breaks`), and
the user may run the command again (`Rerun`), for another ref and with another
answer of the server.

### RemoteTextInput

| code | model |
|---|---|
| the page (web/index.html) | `page` by browser; `Connect`, `Type`, `TimerFires`, `CompositionStart`, `CompositionEnd`, `Send`, `OnMessage`, `OnClose` |
| `session`, the mutex (main.rs) | `session` by socket, `controller` is the queue of the lock; `Take`, `Changed`, `End` |
| `process` | `Process` up to its await, `Reply` after it |
| `wayland::run` and its thread | `im`; `Command` takes the channel's head (`Update`, `Clear`, stop), `Event` one event of the compositor |
| Ctrl+C | `CtrlC`, a stop in the channel behind what is there |
| compositor | `desk`; `Focus`, `Touch`, `Refuse`, and `Apply` for a commit |

A socket is two FIFO queues.  It may break at any point, when a part of what
the page sent still arrives, and the session notices later, so a page that
connects again may wait behind its own old session.  A page may also be gone
without a sign (`OnClose` puts its socket in `cut`): the session learns of it
when a send fails, if ever, since it sets no time limit and sends no ping.
README says that the next in the queue takes over when the session before is
disconnected; for such a disconnection nothing in the code makes that so.
The compositor drops a
commit whose serial is not the number of done events it has sent, as the
protocol says.  `told`, `landed`, `dropped` and `missed` are history variables.
Lengths of texts, their contents and the origin check are left out.

### TtyDisplay

| code | model |
|---|---|
| `main` (main.c) | `PrepareVt`, `RestoreVt`; `vt`, `graphics` |
| `drm_display_open` (drm.c) | `OpenDevice`, `SaveMode`, `CreateFb` twice, `Modeset`: each works or goes to the way out with whatever it got |
| `wayland_server_create`, `wayland_server_run` (wayland.c) | `CreateServer`, `Fork`, then the handlers of the loop: `InitialCommit`, `FrameCommit` with `Present`, `DrmEvent` with `FrameDone`, `Hangup`, `StopSignal`, `StopTimer`, `ChildExited` |
| the end of `wayland_server_run`, `wayland_server_destroy` | `LoopEnds`, `Waited`, `DestroyServer` |
| `restore_kms`, `drm_display_close` | `RestoreKms`, `CloseDevice`, `DestroyFbs` |
| kernel, clock, user, client | `Vblank`, `AlarmTick`, `UserStops`, `ClientSends`, `ClientEnds` |

`front` is the program's own record of the buffer shown, `scan` and `pending`
the kernel's.  The client is the one the program is written for (wayland.c:130
says so): it draws the next frame when its callback is done.  The child obeys
SIGTERM (wayland.c:328 waits for it without a limit).  A failed flip sets
`status` to 1, and the child's own end may set it again (`ChildExited`), so that
the program can exit with 0 after a failed flip; no comment promises otherwise.

### PwXrun

`bench` is where the main thread is, `rt` where the data thread is between the
shared counters of `stats_record_interval`.  `LoopReturns` to `Exit` are the
report and the way out, during which `OnProcess` goes on.  The sort of
`raw_intervals` races with a store into it: `SortIntervals` lets any value at
hand come out as the percentile.  Intervals are in tenths of the period; the
tone, the sums and the histogram are left out.

### SuspendTest, RecoverTest, JackWatch

| code | model |
|---|---|
| `suspend_run`, `spawn_suspend`, `run_tolerant` (app-suspend.c) | `OpenStream`, `StartStream`, `WarmUp`, `SpawnSuspend`, `FirstSample`, `PollWait`, `SampleClocks`, `Play`, `WatchChild`, `ReapChild`, `Verify`, `FreshReopen`, `Judge` |
| `app-recover.c`, the loop over attempts | `BeginAttempt`, `PrepareAgain`, `WriteQuantum`, `CommitQuantum`, `WaitForXrun`, `JudgeInduction`, `DropAndPrepare`, `Recover`, `VerifyRecovery`, `Finish` |
| `app-jack.c` | `JackSetup`, `FetchJackCtls`, `PrintBaseline`, `PollJacks`, `ReadEvent`, `RereadEntry` |
| kernel, rtcwake, user | `Sleep`, `RtcwakeEnds`, `Interrupt`; `StreamStops`, `StopRequest`; `PlugOrUnplug`, `JackInterrupt` |

What a cycle, a recovery or a call does to the PCM inside is `AlsaPcm`'s; here it
has results and states it may leave, at least those of the code.  A write of the
recover test is two steps, because it may succeed without playing: -EPIPE and
-ESTRPIPE of the commit are tolerated, the result of `do_start` is ignored, and
a device without mmap is written nothing at all.  So after a write that returned 0
the PCM may be running, prepared, or stopped by itself.  `snd_pcm_avail` may fail of
a stream that is well; the test takes that for an underrun, and so does the
history variable `broken`.

Three limits of the suspend test show in the model and are excluded in
`SleepSeen`: a sleep between the sample of the clocks and `waitpid`, or before the
first sample, ends in "auto suspend failed"; a first cycle after the wake that
times out or is interrupted counts as not recovered (app-suspend.c:474); and a
`pcm_sink_open` that fails at a parameter leaves the PCM open, since the test
then returns without `pcm_sink_stop` (app-suspend.c:271), to be closed by the end
of the process.

### JumpOrExec

`requests` and `events` are the two directions of the socket, `windows` the
program's list, `open`, `matching` and `focused` the compositor's.  A roundtrip
is a `sync` behind the requests sent so far and the `done` that answers it;
`AfterRoundtrip` is what follows each.  Whether a window matches is one bit in
place of `app_id` and `title`.  jump-or-exec's README says that a window is activated
if it is not active yet and that the command runs otherwise; the code activates
an active match once more and runs nothing, which is what `Activate` does and the
run `jump_active` shows.  `steady` is a history variable.

### KeyBind

`KeyDown` and `KeyUp` are `SDL_AppEvent` (main.c) with `on_key_down` and
`on_key_up` (key.lua) and the handlers of the shipped user.lua, which they run to
their end.  `preview_index` and `selected_index` are main.c's, `selected` is
user.lua's, `ctx_mod`, `ctx_binds` and `ctx_free_callback` key.lua's.  SDL is
external: when the window loses the focus it lets go of every key held, one
event each, and keys count again with the focus.  Other user configurations are
not modelled; nor is the end of a failed start (main.c:289 and below uses
`appstate` although it may be NULL).

### Mkdot

| code | model |
|---|---|
| `target_dst` | `Target` (what the code computes), `Rule` (what its comment asks for) |
| `install_handle` | `InstallDir`, `Keep`, `Replace`; `Put` and `Partial` for `copy_file` and `link_file` |
| `main`, `install_topic` | `MkStart`, `NextTopic`, `Install` for an entry of the walk |

A name is a prefix and whether none, one or more letters follow.  `target_dst`
tests the byte at `src + 5` where the rest begins at `src + 4`: `dot-a` keeps its
name, everything below a directory of that name is lost since its parent is
never made, and for `dot-` at the end of a path a byte behind the terminator
decides, although the comment (mkdot.c:133) and t/test.bats:69 expect the name to
stay.  `Renamed` has exactly this, and `DotfilesInstalled` states what holds for
longer names.  Links are relative to the working directory, so they may lead
nowhere (`resolves`).  A topic is not the base itself (`mkdot topic topic`
unlinks what it copies), and is given without two slashes at its end.

## 4. The runs

| run | shows | bounds, and why they are enough |
|---|---|---|
| `ssh_auto_port` | `NoOrphanListener`, `Partition`, `TornDown`, `RemapIsNearest` in every interleaving; `LinkLossTornDown`, `FollowsRemote` under fairness | ports 2..4 of which 3 and 4 are watched and 3 can be taken by another program: a remap up, a remap down, a remap that collides with another forward and one that finds nothing all occur. One connection suffices to hold a draining task. `Privileged` is empty, so a `bind` refused for lack of rights is covered by the proofs only |
| `im_chat` | `NicknamesUnique`, `NoTextIgnored`, `ImplementsRoom` | two clients contending for two names, two requests under way each and three broadcasts: a rename, a death between, and the news of it. Clients and names are symmetric, no liveness is checked |
| `pulse_monitor` | `NothingLost`, `CellsOwned`, `DeletedIsTrue`, `EveryEventPrinted` | two objects and three events: a list of length two while a third is printed, and an object that is created, changed and gone before its query |
| `pulse_quit` (violation) | `QuitStops` fails: README says `^C` quits, but a signal in `gap` finds nobody waiting, and without another event main waits for ever | one object suffices |
| `keyi_coarse` (violation) | `CopiedBackIfModified` fails: an edit in place within one clock tick of the copy is taken for none, deleted and reported as success | one write within the tick. `CoarseClock` is FALSE in `tools`, which shows that this is the only way |
| `meili_sync` | `DeleteWhenComplete`, `SuccessIsSync`, for runs that start `clean` | indexes of up to three documents, two to a page and to a chunk, so that enumeration and deletion take two rounds; sources of two rows in one batch or two, with bad and duplicate rows; two runs, so that one meets the strays of the other |
| `alsa_pcm` | `NeverStuckPrepared`, `PunctualNeverUnderruns`, `EveryXrunReported`; `PlaysAgain` under fairness | a ring of 14 frames and a period of 4, so that writes stop at the end of the ring in every alignment; two failing calls, so that a recovery fails twice; one suspend or unplugging |
| `plain_clone` | `DoneIsTree` (also that a run that fails for a tree the pack lacks leaves nothing), `CompleteIsTaken`; `RunEnds` under fairness | a branch and a tag of one name with different trees, tags one and two deep at `Depth` 2; a nested tree that may be missing; three blobs in every order, each whole or an offset or reference delta on the next, so that chains of three, cycles, missing bases and duplicates all occur |
| `remote_text` | `RightField`, `AnswerIsTrue`, `PreeditOwner`; `SendAnswered`, `InSync` under fairness | two sockets, so that one page waits behind another or behind its own former self; two changes of the focus, so that what was typed for one field meets another; one done event without a change, one other input method or one Ctrl+C; one input and one send, so that the error of a draft meets the send after it. The two pages differ in nothing, so the constraint `PhoneFirst` says which opens the first socket |
| `tools` | the modules of steps 4 and 9 to 11: `EditKept`, `ExitTells`, `BackBufferFree`, `ConsoleRestored`, `IntervalsLive`, `ExitTellsAll`, `SleepSeen`, `ZeroMeansRecovered`, `LastLineIsTrue`, `PreviewCommitted`, `DotfilesInstalled`, `JumpsIfItCan`; `DisplayEnds` under fairness | alarm after 2 ticks; intervals on time, late and beyond the last threshold, a capacity of 2 for 3 callbacks so that one has no slot; 3 errors in a row; 2 attempts; 3 jacks of which 2 are bound; 2 windows that change twice; 3 screens, so that next and previous differ; four topics with names of none, one and more letters at both levels, and bases with a file, a dangling link and a directory in the way; an original of two blocks, edits that are longer, shorter, empty and half different, and two writes |
| `jump_active` (violation) | `OnlyInactiveActivated` fails: README says a match that is active already makes the command run, but it is activated again | two windows, no changes |
| `remote_composing` (violation) | `ComposingNotSynced` fails: PROMPT.md says nothing is synchronised while the browser composes, but the timer of an input event within a composition is not stopped by it | one socket, a composition and an input in it |

The tools of the run `tools` share nothing.  `MCTools` puts them side by side:
the first step of a behaviour starts one and the others stay off, so that the
run explores the sum of their states and not the product.

A type invariant is a property of no run: `SshAutoPort`'s and `MeiliSync`'s are
theorems of their own (`TypeCorrect`), and the others are a part of the inductive
invariants of section 6.
Each property of a passing run has a mutant in the module, a plausible slip in
the code, under which TLC finds it violated ("mutants" in `PROJECT.json`).
Deadlock is not checked where the
bounds stop the system (frames, broadcasts, events, writes, runs) or where it
ends by itself.

`DeleteWhenComplete` and `SuccessIsSync` hold for runs that start `clean`.  Two
situations are outside: a request of an earlier run that timed out and is still
in flight, of which the program says itself that the server's state may be
unknown: an old upload that arrives late replaces a document of this run, before
its deletions or after its success; and a rerun with
`--allow-empty` and no documents while tasks of a killed run are queued.  A
rerun that uploads anything may find old tasks in the queue: they are
processed before its own, and its waiting for the first upload flushes them.
Without the second clause of `clean` TLC shows the old upload landing after the
success of the empty run.

`PunctualNeverUnderruns` depends on how late a wakeup may be.  A period of 4
with wakeups at most 1 late holds; with `Latency` 2, half a period, TLC finds
the ring end cutting a write short and the next wakeup too late for what is
left.  With a ring of 16, a multiple of the period, 2 holds and 3 does not.

`AnswerIsTrue` and `PreeditOwner` say how far remote-text-input can be trusted:
an ack means that the commit was made, not that it landed.  A done event that
the compositor has sent and the thread has not read makes the compositor drop
the commit (`dropped`), with the draft on the page already emptied; a `Clear`
that meets one is dropped too (`missed`) and the preedit stays until the next
change of the focus or the next draft; the next preedit has no such excuse.  Both
happen in the run.

## 5. Fairness

- `SshAutoPort`: tokio schedules every ready task, so reconcile, stop_all,
  the listeners' `Break` and `TaskReturns` and cancelled tunnels are weakly
  fair.  `ReadFails` is fair only once the link is dead (the 30 s timeout).  A
  good frame and the clock tick are strongly fair: the probe loops for ever and
  time passes.  Nothing is assumed of users, other programs, the network or the
  outcome of connecting.
- `PulseMonitor`: both threads run, and a server that is there answers.  Events,
  failures and `^C` are never forced.
- `AlsaPcm`: calls return, time passes, and an applet told of an error does
  something about it.  Wakeups may be late, and no call need succeed.
- `PlainClone`: the program goes on by itself once it has the pack; nothing is
  assumed of the server.
- `RemoteTextInput`: pages take their messages, tasks are polled, the thread and
  the compositor go on.  A session ends if it is told of the end of its socket
  (`Wakes`); that of a half open socket need not, as nothing in the code asks for
  a sign of life, and `InSync` excepts it.  Users, the network and the focus are
  free.  Everything is bounded, so infinitely often says: in the end.
- `TtyDisplay`: the loop comes round to a stop signal, the alarm and the end of
  the child, the way out goes on, time passes, a flip completes, and a child
  that has SIGTERM ends.  Commits and frames may keep the loop busy for ever.
- The other modules state safety only.

## 6. Proofs

Every proof has the same shape: the property, which is seldom inductive as it
stands, is strengthened to an invariant that is; TLC looked for counterexamples
to that one first, on the instance of the run or a smaller one; and one lemma per
action, or per group of actions, shows that it is kept.

### SshAutoPortProofs

Holds for every set of ports, remap range, radius, retry delay and set of
connections that satisfy `PortAssumption`, `NumberAssumption` and
`LocalAssumption` (ports are positive, the remap range lies among them, the
constants are positive).

- `TypeCorrect`: `TypeOK` is inductive.  `LocalPortForType` carries the weight:
  what `find_free_near` answers is a port, and one that could be bound.
- `ListenersOwned` and `SessionsTornDown`: neither `NoOrphanListener` nor
  `TornDown` is inductive.  `Ownership` adds `Named` (a task serves a port),
  `Owned` (a recorded forward has its task, not cancelled), `TunnelsServed` (a
  tunnel's listener task exists, so a task that returns leaves none behind) and
  `Sequential` (one stop at a time, in the phases that stop).  Without `Owned`
  a step of `AddOne` could overwrite a forward whose task lives on.
- `RemapNearest`: the order of the candidates is by distance
  (`NearerIsEarlier`), every port in range is reached by some index
  (`CandidateAt`), so the first answer is the nearest.
- `PortsPartitioned`: `Partition` speaks of the moment between two frames.
  `Accounted` says for each phase of reconcile which ports are known: before
  `Scan` what is to be removed and what stays, after it what is known or still
  pending.

### ImChatProofs

Holds for any set of clients and names and any number of requests and
broadcasts.

- `RequestsAreOrderly`: `Orderly` is the inductive invariant: the types,
  `Ordered` (a destruction is the last request of a client, and what an open
  client says comes after its name) and `Named` (a client that is told, or on its
  way to be told, that it has a name is one the server knows a name of).
- `NamesAreUnique`: `NamesApart`, over all clients and not only those listed.
- `TextsAreHeard` follows from `Named`.
- `ChatIsRoom`: `Spec` implies `ImplementsRoom`.  `EverybodyFollows` says that the
  broadcasts still on the way to a member are the end of the log, in order; that
  makes the mapped position of a member well defined, and each handler is then
  shown to be one step of `ChatRoom` or none.  The broadcasts unread are counted
  as the cardinality of a set of indices, which needs no recursion.

### PulseMonitorProofs

Holds for any set of objects, any number of events and of cells, whether the
context fails or not; the set `Node` is finite.

- `NothingIsLost` and `CellsAreOwned` come from one invariant with `InOrder`
  (cells are numbered as they are allocated: first those printed, then main's,
  then the list, each linked to the next number), `Counted` (there is a cell for
  every event on its way), `Connection`, `Known` and `Pending` (the query of main
  is asked, answered or taken).  The properties follow the links themselves; the
  least element of a set of numbers (`Least`) takes the place of an induction
  along the list.
- `DeletedIsSo` adds `Deleted`: an object that is gone stays gone, so a line that
  says so goes on to be true.

### MeiliSyncProofs

Hold for any ids, rows, batches and number of runs.

- `TypeCorrect`, `DeletesWhenComplete` and `SuccessMeansSync` are parts of one
  invariant: `Reading` (what was read is uploaded, in the batch or to come),
  `OneRequest` (the run has at most one request of its own under way, and it is in
  one place), `Flushed` (in a `clean` run the strays are ahead of its first request, which
  flushes them) and `Uploads` (what was awaited is in the index as this run read
  it).
- `Those` picks pages of ids by their rank.  `RanksAreIndexes` shows with the
  pigeonhole principle that the ranks of a set of n ids are 1 to n, so that the
  pages of a set cover it.

### AlsaPcmProofs

Hold for every ring, period and headroom with room for two targets in the buffer
(`PcmAssumption`), and any number of failures and sleeps.

- `NeverStuck`: `Honest`, a prepared PCM (or one that resume will find prepared)
  is believed started only before `do_prepare` has come to its end.
- `XrunsAreReported`: `Reported`, while nothing else fails, the stream is rebuilt
  only after an underrun, and no other can happen until it runs again.
- `PunctualPlays`: under the hypothesis `Latency <= Headroom + 1`, which the run
  satisfies, and without failing calls and sleeps no underrun happens.  `Ahead` is
  the arithmetic of it: `Phase` (where
  the PCM is in each state), `Level` (the fill measured against the wakeup to come)
  and `Covered` (the target is there when the wakeup comes, or, after a write that
  the ring end cut short, the headroom and a frame more).
  The run's own bound on `Latency` is thereby explained: one more, and the
  counterexample that section 4 tells of exists.

### RemoteTextInputProofs

Hold for any set of pages and sockets, any number of changes of the focus and of
texts.

- `OneAtATime`: `Types` with `Lock`: at most one session is past its wait for the
  mutex, and it is the head of the queue.
- `LandsInItsField`: `Lag` counts the done events and the changes of the focus that
  the thread has not read, and `Stamped` says that a commit whose serial is still
  good is for the field it was sent for.
- `AnswersAreTrue`: `OneWay` and `Numbered` (a send is in one place, and once in it),
  `Awaited` (a session waits for the answer to the one text it has in the channel)
  and `Answers` (an error is of a send that went nowhere, an ack of one passed on).
- `PreeditsAreCleared`: `Abreast` (while a preedit is shown the thread knows it is
  active, so it drops no `Clear`), `ClearsFirst` (no text comes before a `Clear` in
  the channel), `Wiped` (whatever is shown, or will be, has its `Clear` behind it
  when its session has ended) and `Silent`.

### ToolsProofs

For every value of the constants of the small tools, separately:

- tty2wayland, for every `Timeout`.  `ConsoleIsRestored`: `Accounts` says for each
  phase what there is to give back and that the flags of the program tell of it,
  so that a failure at any step leads to a way out that knows what to do.
  `BackBufferIsFree`: `Turns` is the order of commit, flip and event in terms of
  `front`, `pending` and `scan`, and that a client drawing or a request on its
  way means that none of them is under way.
- pipewire-xrun, for every set of intervals, every capacity and any number of
  callbacks.  `StoresAreLive`: `Nested` puts the data thread inside the life of the
  stream and the stream inside the life of the array.  `XrunExitTells`: `Measured`
  (what has a slot was the maximum before; the report holds no more than the
  counters), `Counted` (an interval beyond the last threshold is in the counter,
  or its callback has yet to count it) and `Concluded` (the status is of the last
  counters).
- lua-keybind, for any number of screens.  `PreviewsAreCommitted` adds `Settled`:
  what the bindings of a context can be, and that its callback is set with them.
- suspend, for any number of errors in a row.  `SleepIsSeen`: `Watched`, a sleep that
  found the test waiting is on its way to be detected, and handle and rtcwake are
  accounted for in each phase, with the open that failed half way.
- recover, for any number of attempts.  `ZeroIsEarned`: `Observed` (a stream that is
  not ready while the test writes and waits has stopped by itself), `Tallied` (while nothing
  has failed each attempt has its underrun) and `Honoured`.
- jack, for any finite set of jacks.  `LinesAreTrue`: `UpToDate`, what an entry says
  is out of date only while an event for it is queued or being handled.
- jump-or-exec, for any finite set of windows and any number of changes.  `Jumps`:
  `OneSync` (one roundtrip at a time, on one side of the socket), `Offered` (the
  globals come with the first), `BoundFirst` (the manager is bound before the
  second is asked for) and `Steady`: a window that was open and matching all along
  is on the list as one that matches, or its title is among the events, behind its
  toplevel event and before the end of the second roundtrip.  So when the program
  chooses, every such window is on the list.
- mkdot, for all topics in which every path occurs once and its directories are
  entries (`TreesAssumption`, what `ftw` hands out), and all bases that are closed
  under directories (`BasesAssumption`).  `DotfilesAreInstalled`: `Change` says what
  an entry may do to the base, whatever its place; `OldKept` follows from it.
  `Sourced` (what is new is there for an entry that was handled) and `InPlace` (the
  directories on the way to a file that can be installed are there once they were
  handled, and then the file) depend on each other, and on `TargetIsRule`: where
  every dot- has two letters behind it, the look one byte too far is harmless.

- keyi, for any originals, edits and number of writes, under the hypothesis
  `~CoarseClock`: a write by the editor never falls into the clock tick of the
  copy.  The run `keyi_coarse` shows that this cannot be dropped.  `EditIsKept`:
  `Kept` relates the contents of file and copy to the phase (`Texts`) and the times
  of both to whether they differ (`Stamped`).  `ExitIsTrue` follows from it.

### PlainCloneProofs

Hold for every repository, every set of packs and adverts that satisfy
`CloneAssumption`, `PacksAssumption` and `HashAssumption`, every `Depth` and any
number of reruns.

- `Files` is a recursive function over trees.  `AllSolved` shows that the recursion
  has a solution: solutions on sets of trees closed under subtrees agree where both
  are defined (`SolutionsAgree`), so they have a union, and a least tree outside of
  it would extend it.  `FilesUnique` (a path is that of one file) and the lemmas on
  `Peels` take, in the same way, a counterexample that has none below it; this is the
  induction over the objects that the prover cannot be given as a rule.
- `CloneIsTree`: `RefInv` follows the object from the ref (`SelectedIsChosen`: the
  first best match is the ref that git would take) over the tags to the tree;
  `DiskInv` says that nothing is there before writing begins and that from then on
  what is on the disk and the `Rest` that `todo` stands for are the files of the tree.
- `CompletePackIsTaken`: `PackInv` says that the store has what `at` has, that each
  entry is resolved or pending (`Kept`) and that a pass without progress leaves only
  deltas without a base (`Stuck`).  Then no error is left for a complete pack:
  an object met twice has two entries, deltas that are stuck show a set of entries
  that `Sound` excludes (`StuckIs`), the depth of the peel and what is left of the
  tags make up their number, and whatever counting and writing look up is there.

### Only model-checked

- Liveness under fairness, which the prover does not do: `DisplayEnds`,
  `LinkLossTornDown`, `FollowsRemote`, `EveryEventPrinted`, `PlaysAgain`, `RunEnds`,
  `SendAnswered`, `InSync`.

## 7. Not modelled

The programs with status `not_modelled` in `PROJECT.json`: the applets caps,
play, latency and xrun of check-my-alsa, whose state is that of `AlsaPcm` and
which only print or loop; the rest are one-shot experiments, pure output or
scripts with no behaviour over time that a model could add to.  Inside the modelled
programs: command lines, logging, colours and formatting, SQLite and the Rhai
transform, SSH keys and host verification, and the shell and command modes of
keyi, which set an environment and exec.
