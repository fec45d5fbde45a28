---------------------------- MODULE SshAutoPort ----------------------------
(***************************************************************************)
(* ssh-auto-port: one supervisor task (main.rs run/poll_loop), the         *)
(* ForwardManager it owns (forward.rs) and the listener and tunnel tasks   *)
(* the manager spawns, against a remote host whose listening ports change, *)
(* an SSH link that may die, and local programs that bind and release      *)
(* ports.                                                                  *)
(*                                                                         *)
(* A listener task is named by the local port it is bound to: the kernel   *)
(* lets one socket bind a port, and the task keeps its listener until it   *)
(* returns.  Bytes on the wire are abstracted to whole probe frames.       *)
(***************************************************************************)
EXTENDS Integers, Sequences, FiniteSetsExt

CONSTANTS
  Port,          (* port numbers of both hosts; 0 means "no port"          *)
  Watched,       (* --port-range minus --exclude                           *)
  Privileged,    (* local ports bind() refuses with EACCES                 *)
  MinRemapPort, MaxRemapPort, RemapSearchRadius,
  RetryDelay,    (* RETRY_DELAY in clock ticks                             *)
  MaxBackoff,    (* the 30 s ceiling of the reconnect delay                *)
  Conn,          (* local client connections alive at a time               *)
  MaxFrames,     (* bound: probe frames received and not yet read          *)
  Local          (* local ports other programs bind                        *)

ASSUME PortAssumption == Port \subseteq Nat \ {0} /\ Watched \subseteq Port
ASSUME NumberAssumption ==
  /\ {MinRemapPort, RemapSearchRadius, RetryDelay, MaxBackoff} \subseteq Nat \ {0}
  /\ MaxRemapPort \in Nat /\ MinRemapPort .. MaxRemapPort \subseteq Port
ASSUME LocalAssumption == Local \subseteq Port

VARIABLES
  skip,          (* the --skip flag                                        *)
  sup, backoff,  (* the supervisor loop of run()                           *)
  link,          (* the SSH connection carries data                        *)
  remote,        (* ports listening on the remote host                     *)
  frames,        (* complete probe frames received and not yet read        *)
  pc,            (* where poll_loop / reconcile is                         *)
  target, removed, pending,  (* reconcile's locals                         *)
  waiting,       (* local port whose task Forward::stop awaits, or 0       *)
  desired, forwards, skipped, retry,  (* ForwardManager's fields           *)
  task,          (* accept_loop tasks, by bound local port                 *)
  conn,          (* proxy_connection tasks, by client connection           *)
  other          (* local ports bound by other programs                    *)

manager == <<desired, forwards, skipped, retry>>
control == <<pc, target, removed, pending, waiting>>
supvars == <<skip, sup, backoff, link>>
tasks   == <<task, conn>>
env     == <<remote, other>>
vars    == <<supvars, frames, control, manager, tasks, env>>

Frame == [ok : BOOLEAN, ports : SUBSET Port]
NoTask == [phase |-> "none", remote |-> 0]
NoConn == [state |-> "none", at |-> 0]
\* forwards[p] is the local port of the forward of remote port p, 0 if p has
\* none; retry[p] the ticks until retry_at, -1 if p has no entry.
NoForward == [p \in Port |-> 0]
NoRetry   == [p \in Port |-> -1]

\* accept_loop accepts; its token is cancelled and it has not noticed; it has
\* left its loop and joins its tunnels.
Phases == {"none", "accept", "cancelled", "drain"}
Accepting(q) == task[q].phase \in {"accept", "cancelled"}
Cancelled(q) == task[q].phase \in {"cancelled", "drain"}
Forwarded == {p \in Port : forwards[p] # 0}
Retrying == {p \in Port : retry[p] >= 0}
Serves(q) == {c \in Conn : conn[c].at = q}

FlagsOK == skip \in BOOLEAN /\ link \in BOOLEAN
TaskOK == task \in [Port -> [phase : Phases, remote : Port \cup {0}]]
ConnOK == conn \in [Conn -> [state : {"none", "opening", "copying"}, at : Port \cup {0}]]

TypeOK ==
  /\ FlagsOK /\ TaskOK /\ ConnOK
  /\ sup \in {"connect", "session", "sleep", "exited"}
  /\ backoff \in 1 .. MaxBackoff
  /\ pc \in {"out", "read", "remove", "add", "stop"}
  /\ remote \in SUBSET Port /\ other \in SUBSET Local
  /\ frames \in Seq(Frame)
  /\ target \in SUBSET Watched /\ desired \in SUBSET Watched
  /\ removed \in SUBSET Watched /\ pending \in SUBSET Watched
  /\ skipped \in SUBSET Port
  /\ waiting \in Port \cup {0}
  /\ forwards \in [Port -> Port \cup {0}]
  /\ retry \in [Port -> -1 .. RetryDelay]

Init ==
  /\ skip \in BOOLEAN /\ remote \in SUBSET Port
  /\ sup = "connect" /\ backoff = 1 /\ link = FALSE /\ frames = <<>>
  /\ pc = "out" /\ target = {} /\ removed = {} /\ pending = {} /\ waiting = 0
  /\ desired = {} /\ forwards = NoForward /\ skipped = {} /\ retry = NoRetry
  /\ task = [q \in Port |-> NoTask] /\ conn = [c \in Conn |-> NoConn]
  /\ other = {}

-----------------------------------------------------------------------------
(* run(): connect, poll until the session breaks, sleep, connect again.     *)

\* connect_and_auth succeeds and poll_loop starts the probe: a new manager.
ConnectOk ==
  /\ sup = "connect"
  /\ sup' = "session" /\ backoff' = 1 /\ link' = TRUE /\ pc' = "read" /\ frames' = <<>>
  /\ desired' = {} /\ forwards' = NoForward /\ skipped' = {} /\ retry' = NoRetry
  /\ UNCHANGED <<skip, target, removed, pending, waiting, tasks, env>>

\* connected, but the probe channel cannot be opened or its command started
ProbeStartFails ==
  /\ sup = "connect"
  /\ sup' = "sleep" /\ backoff' = 1
  /\ UNCHANGED <<skip, link, frames, control, manager, tasks, env>>

ConnectTransient ==
  /\ sup = "connect"
  /\ sup' = "sleep"
  /\ UNCHANGED <<skip, backoff, link, frames, control, manager, tasks, env>>

ConnectFatal ==
  /\ sup = "connect"
  /\ sup' = "exited"
  /\ UNCHANGED <<skip, backoff, link, frames, control, manager, tasks, env>>

NextBackoff == Min({2 * backoff, MaxBackoff})

SleepDone ==
  /\ sup = "sleep"
  /\ sup' = "connect" /\ backoff' = NextBackoff
  /\ UNCHANGED <<skip, link, frames, control, manager, tasks, env>>

-----------------------------------------------------------------------------
(* The remote probe and the connection.                                     *)

\* One pass of the probe script arrives: the ports then listening, or text
\* parse_frame does not recognise.
ProbeFrame(ok) ==
  /\ sup = "session" /\ link /\ Len(frames) < MaxFrames
  /\ frames' = Append(frames, [ok |-> ok, ports |-> IF ok THEN remote ELSE {}])
  /\ UNCHANGED <<supvars, control, manager, tasks, env>>

LinkDies ==
  /\ link
  /\ link' = FALSE
  /\ UNCHANGED <<skip, sup, backoff, frames, control, manager, tasks, env>>

\* read_frame gives up: EOF, exit status, oversized data or the 30 s timeout.
\* A frame that is already complete in the buffer is returned first.
ReadFails ==
  /\ pc = "read" /\ frames = <<>>
  /\ pc' = "stop"
  /\ UNCHANGED <<supvars, frames, target, removed, pending, waiting, manager, tasks, env>>

\* read_frame and parse_frame; reconcile starts on a frame that parses.
ReadFrame ==
  /\ pc = "read" /\ frames # <<>>
  /\ frames' = Tail(frames)
  /\ IF Head(frames).ok
     THEN /\ target' = Head(frames).ports \cap Watched
          /\ removed' = desired \ target'
          /\ pc' = "remove"
     ELSE UNCHANGED <<target, removed, pc>>
  /\ UNCHANGED <<supvars, pending, waiting, manager, tasks, env>>

-----------------------------------------------------------------------------
(* ForwardManager::reconcile and stop_all.                                  *)

\* Mutant: the token of a forward that is dropped is never cancelled.
StopForwardUncancelled(p) ==
  forwards' = [forwards EXCEPT ![p] = 0] /\ waiting' = forwards[p] /\ UNCHANGED task

\* Forward::stop up to its await: the manager no longer owns the forward.
StopForward(p) ==
  /\ forwards' = [forwards EXCEPT ![p] = 0]
  /\ waiting' = forwards[p]
  /\ task' = [task EXCEPT ![forwards[p]].phase = "cancelled"]

\* the awaited listener task has returned
Joined ==
  /\ waiting # 0 /\ task[waiting].phase = "none"
  /\ waiting' = 0
  /\ UNCHANGED <<supvars, frames, pc, target, removed, pending, manager, tasks, env>>

\* Mutant: a skipped port stays skipped when its remote port closes.
ForgetRetryOnly(p) == retry' = [retry EXCEPT ![p] = -1] /\ UNCHANGED skipped

Forget(p) == skipped' = skipped \ {p} /\ retry' = [retry EXCEPT ![p] = -1]

RemoveOne ==
  /\ pc = "remove" /\ waiting = 0 /\ removed # {}
  /\ LET p == Min(removed) IN
       /\ removed' = removed \ {p}
       /\ Forget(p)
       /\ IF forwards[p] # 0 THEN StopForward(p) ELSE UNCHANGED <<forwards, waiting, task>>
  /\ UNCHANGED <<supvars, frames, pc, target, pending, desired, conn, env>>

\* Mutants: ports that already have a forward are tried again; a port that
\* once failed is never tried again.
PendingForwarded == {p \in target : p \notin skipped /\ retry[p] <= 0}
PendingNeverRetried == {p \in target : forwards[p] = 0 /\ p \notin skipped /\ retry[p] = -1}

Pending == {p \in target : forwards[p] = 0 /\ p \notin skipped /\ retry[p] <= 0}

\* `now` is read here; the ports to try are fixed before the first is tried.
Scan ==
  /\ pc = "remove" /\ waiting = 0 /\ removed = {}
  /\ pc' = "add"
  /\ pending' = Pending
  /\ UNCHANGED <<supvars, frames, target, removed, waiting, manager, tasks, env>>

\* try_bind(q): "ok", "inuse" (None) or "error" (any other errno)
TryBind(q) ==
  IF q \in Privileged THEN "error"
  ELSE IF q \in other \/ task[q].phase # "none" THEN "inuse" ELSE "ok"

\* Mutant: the lower port of a pair is looked at first.
CandidateLowFirst(p, k) ==
  LET offset == (k + 1) \div 2 IN
  IF k % 2 = 0 THEN p + offset ELSE IF offset <= p THEN p - offset ELSE 0

\* The k-th port find_free_near looks at: p+1, p-1, p+2, p-2, ...; a
\* saturating subtraction, so 0 stands for everything below it.
Candidate(p, k) ==
  LET offset == (k + 1) \div 2 IN
  IF k % 2 = 1 THEN p + offset ELSE IF offset <= p THEN p - offset ELSE 0

\* The probes of find_free_near that end its search: a free port, or an error.
Answers(p) ==
  {k \in 1 .. 2 * RemapSearchRadius :
     /\ Candidate(p, k) \in MinRemapPort .. MaxRemapPort
     /\ TryBind(Candidate(p, k)) # "inuse"}

\* add_forward's choice of local port for remote port p: 0 when it must retry
\* later, -1 when the port is skipped.
LocalPortFor(p) ==
  IF TryBind(p) # "inuse" THEN IF TryBind(p) = "ok" THEN p ELSE 0
  ELSE IF skip THEN -1
  ELSE IF Answers(p) = {} THEN 0
  ELSE LET q == Candidate(p, Min(Answers(p))) IN IF TryBind(q) = "ok" THEN q ELSE 0

AddOne ==
  /\ pc = "add" /\ pending # {}
  /\ LET p == Min(pending)
         q == LocalPortFor(p)
     IN /\ pending' = pending \ {p}
        /\ retry' = [retry EXCEPT ![p] = IF q = 0 THEN RetryDelay ELSE -1]
        /\ skipped' = IF q = -1 THEN skipped \cup {p} ELSE skipped
        /\ IF q > 0
           THEN /\ forwards' = [forwards EXCEPT ![p] = q]
                /\ task' = [task EXCEPT ![q] = [phase |-> "accept", remote |-> p]]
           ELSE UNCHANGED <<forwards, task>>
  /\ UNCHANGED <<supvars, frames, pc, target, removed, waiting, desired, conn, env>>

Reconciled ==
  /\ pc = "add" /\ pending = {}
  /\ desired' = target /\ pc' = "read"
  /\ UNCHANGED <<supvars, frames, target, removed, pending, waiting, forwards, skipped, retry,
                 tasks, env>>

\* stop_all takes the forwards in hash order, one at a time.
StopOne ==
  /\ pc = "stop" /\ waiting = 0
  /\ \E p \in Forwarded : StopForward(p)
  /\ UNCHANGED <<supvars, frames, pc, target, removed, pending, desired, skipped, retry, conn, env>>

\* Mutant: stop_all cancels its forwards without awaiting their tasks.
StopDoneUnawaited ==
  /\ pc = "stop" /\ Forwarded = {}
  /\ pc' = "out" /\ sup' = "sleep" /\ link' = FALSE /\ frames' = <<>> /\ waiting' = 0
  /\ target' = {} /\ desired' = {} /\ skipped' = {} /\ retry' = NoRetry
  /\ UNCHANGED <<skip, backoff, removed, pending, forwards, tasks, env>>

\* poll_loop returns its error: the manager and the session are dropped.
StopDone ==
  /\ pc = "stop" /\ waiting = 0 /\ Forwarded = {}
  /\ pc' = "out" /\ sup' = "sleep" /\ link' = FALSE /\ frames' = <<>>
  /\ target' = {} /\ desired' = {} /\ skipped' = {} /\ retry' = NoRetry
  /\ UNCHANGED <<skip, backoff, removed, pending, waiting, forwards, tasks, env>>

-----------------------------------------------------------------------------
(* accept_loop: select! picks any ready branch, so a cancelled listener may *)
(* still accept before it leaves its loop.  The pause after an accept error *)
(* is a time in which "accept" takes no step.                               *)

Accept(q, c) ==
  /\ Accepting(q) /\ conn[c].state = "none"
  /\ conn' = [conn EXCEPT ![c] = [state |-> "opening", at |-> q]]
  /\ UNCHANGED <<supvars, frames, control, manager, task, env>>

Break(q) ==
  /\ task[q].phase = "cancelled"
  /\ task' = [task EXCEPT ![q].phase = "drain"]
  /\ UNCHANGED <<supvars, frames, control, manager, conn, env>>

\* every tunnel is joined: the task returns and drops its listener
TaskReturns(q) ==
  /\ task[q].phase = "drain" /\ Serves(q) = {}
  /\ task' = [task EXCEPT ![q] = NoTask]
  /\ UNCHANGED <<supvars, frames, control, manager, conn, env>>

(* proxy_connection *)

ChannelOpens(c) ==
  /\ conn[c].state = "opening" /\ link
  /\ conn' = [conn EXCEPT ![c].state = "copying"]
  /\ UNCHANGED <<supvars, frames, control, manager, task, env>>

\* the channel is refused, or the copy ends, or the token is cancelled
TunnelEnds(c) ==
  /\ conn[c].state # "none"
  /\ conn' = [conn EXCEPT ![c] = NoConn]
  /\ UNCHANGED <<supvars, frames, control, manager, task, env>>

TunnelCancelled(c) == conn[c].state # "none" /\ Cancelled(conn[c].at) /\ TunnelEnds(c)

-----------------------------------------------------------------------------
(* The outside world.                                                       *)

RemoteChanges ==
  /\ \E p \in Port : remote' = (remote \cup {p}) \ (remote \cap {p})
  /\ UNCHANGED <<supvars, frames, control, manager, tasks, other>>

OtherBinds(q) ==
  /\ TryBind(q) = "ok"
  /\ other' = other \cup {q}
  /\ UNCHANGED <<supvars, frames, control, manager, tasks, remote>>

OtherReleases(q) ==
  /\ q \in other
  /\ other' = other \ {q}
  /\ UNCHANGED <<supvars, frames, control, manager, tasks, remote>>

\* Time passes for the retry deadlines.
Tick ==
  /\ \E p \in Port : retry[p] > 0
  /\ retry' = [p \in Port |-> IF retry[p] > 0 THEN retry[p] - 1 ELSE retry[p]]
  /\ UNCHANGED <<supvars, frames, control, desired, forwards, skipped, tasks, env>>

Supervisor == ConnectOk \/ ProbeStartFails \/ ConnectTransient \/ ConnectFatal \/ SleepDone
PollLoop == ReadFails \/ ReadFrame
Reconcile == Joined \/ RemoveOne \/ Scan \/ AddOne \/ Reconciled
StopAll == StopOne \/ StopDone
Listener(q) == Break(q) \/ TaskReturns(q)
Tunnel(c) == ChannelOpens(c) \/ TunnelEnds(c)
World == LinkDies \/ RemoteChanges \/ Tick

Next ==
  \/ Supervisor \/ PollLoop \/ Reconcile \/ StopAll \/ World
  \/ \E ok \in BOOLEAN : ProbeFrame(ok)
  \/ \E q \in Port : Listener(q) \/ \E c \in Conn : Accept(q, c)
  \/ \E c \in Conn : Tunnel(c)
  \/ \E q \in Local : OtherBinds(q) \/ OtherReleases(q)

\* The supervisor's task and the spawned tasks are scheduled by tokio; the
\* probe script and the clock never stop.  Nothing is assumed of the user's
\* connections, the remote programs, the network or the sshd's answer.
Fairness ==
  /\ WF_vars(ReadFrame) /\ WF_vars(Reconcile) /\ WF_vars(StopAll)
  /\ WF_vars(ReadFails /\ ~link)
  /\ SF_vars(ProbeFrame(TRUE)) /\ SF_vars(Tick)
  /\ \A q \in Port : WF_vars(Break(q)) /\ WF_vars(TaskReturns(q))
  /\ \A c \in Conn : WF_vars(TunnelCancelled(c))

Spec == Init /\ [][Next]_vars
FairSpec == Spec /\ Fairness

-----------------------------------------------------------------------------
(* Properties.                                                              *)

\* Every listener task is owned: it is the task of exactly the forward the
\* manager records for its remote port, or the one Forward::stop is awaiting.
\* An overwritten or forgotten forward would leave a listener nobody stops.
NoOrphanListener ==
  \A q \in Port : task[q].phase # "none" =>
    IF Cancelled(q) THEN waiting = q /\ forwards[task[q].remote] = 0
                    ELSE forwards[task[q].remote] = q

\* Between two frames every desired remote port is in exactly one of
\* forwards, skipped and retry_at, and no other port is in any of them: none
\* is lost, tried twice or remembered after its remote port closed.
Partition ==
  pc = "read" => /\ Forwarded \cup skipped \cup Retrying = desired
                 /\ Forwarded \cap skipped = {}
                 /\ Retrying \cap (Forwarded \cup skipped) = {}

\* Outside a session nothing of an earlier one is left: no listener, no
\* tunnel, so a reconnect never meets a socket of its predecessor.
TornDown == sup # "session" => /\ \A q \in Port : task[q].phase = "none"
                              /\ \A c \in Conn : conn[c].state = "none"

Distance(p, q) == IF p < q THEN q - p ELSE p - q

\* A forward that does not get its own port number gets, without --skip, the
\* nearest local port that can be bound, the higher of two equally near.
RemapIsNearest ==
  [][\A p \in Port : forwards[p] = 0 /\ forwards'[p] \notin {0, p} =>
       /\ ~skip /\ TryBind(p) = "inuse"
       /\ \A q \in MinRemapPort .. MaxRemapPort :
            \/ Distance(p, q) < Distance(p, forwards'[p])
            \/ Distance(p, q) = Distance(p, forwards'[p]) /\ q > forwards'[p]
            => TryBind(q) = "inuse"]_vars

\* A dead connection is noticed and everything is torn down, whatever the
\* local clients do.
LinkLossTornDown == sup = "session" /\ ~link ~> sup = "sleep"

Steady == sup = "session" /\ link /\ other = {} /\ ~skip

\* While the session lasts the forwards follow the remote host: a port that
\* stays open is forwarded for good (also after a failed bind, by the retry),
\* one that stays closed ends without a forward, whatever other ports do.
FollowsRemote ==
  \A p \in Watched :
    /\ <>[](Steady /\ p \in remote /\ p \notin Privileged) => <>[](forwards[p] # 0)
    /\ <>[](sup = "session" /\ link /\ p \notin remote) => <>[](forwards[p] = 0)

=============================================================================
