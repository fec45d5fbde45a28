------------------------- MODULE SshAutoPortProofs -------------------------
(***************************************************************************)
(* Proofs about SshAutoPort: type correctness, that every listener has an  *)
(* owner and that a session leaves nothing behind, for every set of ports, *)
(* every remap range and radius, and any number of local connections.      *)
(***************************************************************************)
EXTENDS SshAutoPort, SequenceTheorems, WellFoundedInduction, TLAPS

(* A set of naturals that is not empty has a minimum: the BTreeSet order of *)
(* reconcile and the first answer of find_free_near are modelled by Min.    *)
LEMMA MinInSet ==
  ASSUME NEW S, S \subseteq Nat, S # {}
  PROVE  Min(S) \in S /\ \A x \in S : Min(S) <= x
<1>1. PICK x \in S : \A y \in S : ~ (<<y, x>> \in OpToRel(<, Nat))
  BY NatLessThanWellFounded, WFMin
<1>2. ASSUME NEW y \in S PROVE x <= y
  <2>1. x \in Nat /\ y \in Nat OBVIOUS
  <2>2. ~(y < x) BY <1>1, <2>1 DEF OpToRel
  <2> QED BY <2>1, <2>2
<1> QED BY <1>2 DEF Min

(* The port add_forward binds is a port it may bind and could bind.         *)
LEMMA LocalPortForType ==
  ASSUME NEW p \in Port
  PROVE  /\ LocalPortFor(p) \in Port \cup {0, -1}
         /\ LocalPortFor(p) > 0 => TryBind(LocalPortFor(p)) = "ok"
<1>1. CASE TryBind(p) # "inuse"
  BY <1>1, PortAssumption DEF LocalPortFor
<1>2. CASE TryBind(p) = "inuse" /\ (skip \/ Answers(p) = {})
  BY <1>2 DEF LocalPortFor
<1>3. CASE TryBind(p) = "inuse" /\ ~skip /\ Answers(p) # {}
  <2>1. Answers(p) \subseteq Nat
    BY NumberAssumption DEF Answers
  <2>2. Candidate(p, Min(Answers(p))) \in Port
    BY <2>1, <1>3, MinInSet, NumberAssumption DEF Answers
  <2> QED BY <1>3, <2>2, PortAssumption DEF LocalPortFor
<1> QED BY <1>1, <1>2, <1>3

(* The reconnect delay stays between 1 and its ceiling.                     *)
LEMMA NextBackoffType == backoff \in 1 .. MaxBackoff => NextBackoff \in 1 .. MaxBackoff
<1> SUFFICES ASSUME backoff \in 1 .. MaxBackoff PROVE NextBackoff \in 1 .. MaxBackoff
  OBVIOUS
<1>1. {2 * backoff, MaxBackoff} \subseteq Nat
  BY NumberAssumption
<1>2. /\ Min({2 * backoff, MaxBackoff}) \in {2 * backoff, MaxBackoff}
      /\ Min({2 * backoff, MaxBackoff}) <= MaxBackoff
  BY <1>1, MinInSet
<1> QED BY <1>2, NumberAssumption DEF NextBackoff

-----------------------------------------------------------------------------
(* Every field keeps its type: no forward without a port, no retry          *)
(* deadline beyond its delay, nothing desired that is not watched.          *)
LEMMA TypeInit == Init => TypeOK
<1> SUFFICES ASSUME Init PROVE TypeOK OBVIOUS
<1>1. FlagsOK BY DEF Init, FlagsOK
<1>2. TaskOK BY DEF Init, TaskOK, NoTask, Phases
<1>3. ConnOK BY DEF Init, ConnOK, NoConn
<1>4. frames \in Seq(Frame) BY DEF Init
<1> QED BY <1>1, <1>2, <1>3, <1>4, NumberAssumption, PortAssumption
        DEF Init, TypeOK, NoForward, NoRetry

LEMMA TypeStep == TypeOK /\ [Next]_vars => TypeOK'
<1> SUFFICES ASSUME TypeOK, [Next]_vars PROVE TypeOK' OBVIOUS
<1>0. TaskOK /\ ConnOK /\ FlagsOK BY DEF TypeOK
<1>1. CASE Supervisor
  <2>1. FlagsOK'
    BY <1>1 DEF TypeOK, FlagsOK, Supervisor, ConnectOk, ProbeStartFails, ConnectTransient,
                ConnectFatal, SleepDone
  <2>2. UNCHANGED tasks
    BY <1>1 DEF Supervisor, ConnectOk, ProbeStartFails, ConnectTransient, ConnectFatal, SleepDone
  <2>3. TaskOK' /\ ConnOK'
    BY <2>2 DEF TypeOK, TaskOK, ConnOK, tasks
  <2>4. backoff' \in 1 .. MaxBackoff
    BY <1>1, NextBackoffType, NumberAssumption
       DEF TypeOK, Supervisor, ConnectOk, ProbeStartFails, ConnectTransient, ConnectFatal, SleepDone
  <2>5. frames' \in {frames, <<>>}
    BY <1>1
       DEF Supervisor, ConnectOk, ProbeStartFails, ConnectTransient, ConnectFatal, SleepDone
  <2>6. frames' \in Seq(Frame)
    BY <2>5, EmptySeq DEF TypeOK
  <2> QED BY <1>1, <2>1, <2>3, <2>4, <2>6, NumberAssumption
          DEF TypeOK, Supervisor, ConnectOk, ProbeStartFails, ConnectTransient, ConnectFatal,
              SleepDone, NoForward, NoRetry, control, manager, env
<1>2. CASE PollLoop
  <2>1. FlagsOK' /\ TaskOK' /\ ConnOK'
    BY <1>2 DEF PollLoop, ReadFails, ReadFrame, supvars, tasks, TypeOK, FlagsOK, TaskOK, ConnOK
  <2>2. CASE ReadFails
    BY <2>1, <2>2 DEF TypeOK, ReadFails, supvars, manager, env
  <2>3. CASE ReadFrame
    <3>1. frames' \in Seq(Frame)
      BY <2>3, HeadTailProperties DEF ReadFrame, TypeOK
    <3> QED BY <2>1, <2>3, <3>1 DEF TypeOK, ReadFrame, supvars, manager, env
  <2> QED BY <1>2, <2>2, <2>3 DEF PollLoop
<1>3. CASE Reconcile
  <2>1. FlagsOK' /\ ConnOK'
    BY <1>3 DEF Reconcile, Joined, RemoveOne, Scan, AddOne, Reconciled, supvars, tasks, TypeOK,
                FlagsOK, ConnOK
  <2>2. CASE Joined
    BY <2>1, <2>2 DEF TypeOK, TaskOK, Joined, supvars, manager, tasks, env
  <2>3. CASE RemoveOne
    <3>1. Min(removed) \in removed
      BY <2>3, MinInSet, PortAssumption DEF RemoveOne, TypeOK
    <3>2. TaskOK'
      <4>1. forwards[Min(removed)] \in Port \cup {0}
        BY <3>1, PortAssumption DEF TypeOK
      <4> QED BY <1>0, <2>3, <4>1 DEF TaskOK, RemoveOne, StopForward, Phases
    <3>3. Min(removed) \in Port
      BY <3>1, PortAssumption DEF TypeOK
    <3>4. waiting' \in Port \cup {0} /\ forwards' \in [Port -> Port \cup {0}]
      BY <2>3, <3>3 DEF TypeOK, RemoveOne, StopForward
    <3>5. retry' \in [Port -> -1 .. RetryDelay]
      <4>1. retry' = [retry EXCEPT ![Min(removed)] = -1] BY <2>3 DEF RemoveOne, Forget
      <4> QED BY <3>3, <4>1, NumberAssumption DEF TypeOK
    <3>6. skipped' \in SUBSET Port
      BY <2>3 DEF TypeOK, RemoveOne, Forget
    <3> QED BY <2>1, <2>3, <3>2, <3>4, <3>5, <3>6 DEF TypeOK, RemoveOne, supvars, env
  <2>4. CASE Scan
    BY <2>1, <2>4 DEF TypeOK, TaskOK, Scan, Pending, supvars, manager, tasks, env
  <2>5. CASE AddOne
    <3>1. Min(pending) \in pending
      BY <2>5, MinInSet, PortAssumption DEF AddOne, TypeOK
    <3>2. LocalPortFor(Min(pending)) \in Port \cup {0, -1}
      BY <3>1, LocalPortForType, PortAssumption DEF TypeOK
    <3>3. TaskOK'
      <4>1. Min(pending) \in Port
        BY <3>1, PortAssumption DEF TypeOK
      <4> QED BY <1>0, <2>5, <3>2, <4>1 DEF TaskOK, AddOne, Phases
    <3>4. Min(pending) \in Port
      BY <3>1, PortAssumption DEF TypeOK
    <3>5. forwards' \in [Port -> Port \cup {0}] /\ skipped' \in SUBSET Port
      BY <2>5, <3>2, <3>4 DEF TypeOK, AddOne
    <3>6. retry' \in [Port -> -1 .. RetryDelay]
      BY <2>5, <3>4, NumberAssumption DEF TypeOK, AddOne
    <3> QED BY <2>1, <2>5, <3>3, <3>5, <3>6 DEF TypeOK, AddOne, supvars, env
  <2>6. CASE Reconciled
    BY <2>1, <2>6 DEF TypeOK, TaskOK, Reconciled, supvars, tasks, env
  <2> QED BY <1>3, <2>2, <2>3, <2>4, <2>5, <2>6 DEF Reconcile
<1>4. CASE StopAll
  <2>1. FlagsOK' /\ ConnOK'
    BY <1>4 DEF StopAll, StopOne, StopDone, supvars, tasks, TypeOK, FlagsOK, ConnOK
  <2>2. CASE StopOne
    <3>1. TaskOK'
      <4>1. \A p \in Forwarded : forwards[p] \in Port
        BY DEF Forwarded, TypeOK
      <4> QED BY <1>0, <2>2, <4>1 DEF TaskOK, StopOne, StopForward, Phases
    <3> QED BY <2>1, <2>2, <3>1 DEF TypeOK, StopOne, StopForward, Forwarded, supvars, env
  <2>3. CASE StopDone
    <3>1. frames' \in Seq(Frame) /\ TaskOK'
      BY <2>3 DEF TypeOK, TaskOK, StopDone, tasks
    <3>2. retry' \in [Port -> -1 .. RetryDelay]
      BY <2>3, NumberAssumption DEF StopDone, NoRetry
    <3> QED BY <2>1, <2>3, <3>1, <3>2 DEF TypeOK, StopDone, env
  <2> QED BY <1>4, <2>2, <2>3 DEF StopAll
<1>5. CASE World
  <2>1. FlagsOK' /\ TaskOK' /\ ConnOK'
    BY <1>5 DEF World, LinkDies, RemoteChanges, Tick, supvars, tasks, TypeOK, FlagsOK, TaskOK, ConnOK
  <2>2. retry' \in [Port -> -1 .. RetryDelay]
    BY <1>5, NumberAssumption DEF TypeOK, World, LinkDies, RemoteChanges, Tick, manager
  <2> QED BY <1>5, <2>1, <2>2
          DEF TypeOK, World, LinkDies, RemoteChanges, Tick, supvars, control, manager, env
<1>6. ASSUME NEW ok \in BOOLEAN, ProbeFrame(ok) PROVE TypeOK'
  <2>1. FlagsOK' /\ TaskOK' /\ ConnOK'
    BY <1>6 DEF ProbeFrame, supvars, tasks, TypeOK, FlagsOK, TaskOK, ConnOK
  <2>2. [ok |-> ok, ports |-> IF ok THEN remote ELSE {}] \in Frame
    BY DEF TypeOK, Frame
  <2>3. frames' \in Seq(Frame)
    BY <1>6, <2>2, AppendProperties DEF ProbeFrame, TypeOK
  <2> QED BY <1>6, <2>1, <2>3 DEF TypeOK, ProbeFrame, supvars, control, manager, env
<1>7. ASSUME NEW q \in Port, Listener(q) PROVE TypeOK'
  <2>1. FlagsOK' /\ ConnOK'
    BY <1>7 DEF Listener, Break, TaskReturns, supvars, TypeOK, FlagsOK, ConnOK
  <2>2. TaskOK'
    BY <1>0, <1>7 DEF Listener, Break, TaskReturns, TaskOK, NoTask, Phases
  <2> QED BY <1>7, <2>1, <2>2
          DEF TypeOK, Listener, Break, TaskReturns, supvars, control, manager, env
<1>8. ASSUME NEW q \in Port, NEW c \in Conn, Accept(q, c) PROVE TypeOK'
  <2>1. FlagsOK' /\ TaskOK'
    BY <1>8 DEF Accept, supvars, TypeOK, FlagsOK, TaskOK
  <2> QED BY <1>8, <2>1 DEF TypeOK, ConnOK, Accept, supvars, control, manager, env
<1>9. ASSUME NEW c \in Conn, Tunnel(c) PROVE TypeOK'
  <2>1. FlagsOK' /\ TaskOK'
    BY <1>9 DEF Tunnel, ChannelOpens, TunnelEnds, supvars, TypeOK, FlagsOK, TaskOK
  <2>2. ConnOK'
    BY <1>0, <1>9 DEF ConnOK, Tunnel, ChannelOpens, TunnelEnds, NoConn
  <2> QED BY <1>9, <2>1, <2>2
          DEF TypeOK, Tunnel, ChannelOpens, TunnelEnds, supvars, control, manager, env
<1>10. ASSUME NEW q \in Local, OtherBinds(q) \/ OtherReleases(q) PROVE TypeOK'
  <2>1. FlagsOK' /\ TaskOK' /\ ConnOK'
    BY <1>10 DEF OtherBinds, OtherReleases, supvars, tasks, TypeOK, FlagsOK, TaskOK, ConnOK
  <2> QED BY <1>10, <2>1 DEF TypeOK, OtherBinds, OtherReleases, supvars, control, manager
<1>11. CASE UNCHANGED vars
  <2>1. FlagsOK' /\ TaskOK' /\ ConnOK'
    BY <1>11 DEF vars, supvars, tasks, TypeOK, FlagsOK, TaskOK, ConnOK
  <2> QED BY <1>11, <2>1 DEF TypeOK, vars, supvars, control, manager, env
<1> QED BY <1>1, <1>2, <1>3, <1>4, <1>5, <1>6, <1>7, <1>8, <1>9, <1>10, <1>11 DEF Next

(* Every variable keeps its type, in particular the delay before the next   *)
(* attempt to connect its ceiling (main.rs, forward.rs).                    *)
THEOREM TypeCorrect == Spec => []TypeOK
<1> QED BY TypeInit, TypeStep, PTL DEF Spec

-----------------------------------------------------------------------------
(* Ownership.  NoOrphanListener speaks of the tasks there are; it is kept   *)
(* only because, conversely, every forward has a task that accepts for it,  *)
(* every tunnel a task that will join it, and at most one task is awaited.  *)

Named == \A q \in Port : task[q].phase # "none" => task[q].remote \in Port

Owned ==
  \A p \in Port : forwards[p] # 0 =>
    task[forwards[p]].phase = "accept" /\ task[forwards[p]].remote = p

TunnelsServed ==
  \A c \in Conn : conn[c].state # "none" =>
    conn[c].at \in Port /\ task[conn[c].at].phase # "none"

\* poll_loop runs within a session only, Forward::stop is awaited in two
\* places, and the ports reconcile is about to try have no forward.
Sequential ==
  /\ pc = "out" <=> sup # "session"
  /\ pc \in {"out", "read", "add"} => waiting = 0
  /\ pc = "out" => Forwarded = {}
  /\ pc = "add" => \A p \in pending : forwards[p] = 0

Ownership ==
  /\ Named /\ Owned /\ TunnelsServed /\ Sequential
  /\ NoOrphanListener /\ TornDown

LEMMA OwnershipInit == Init => Ownership
<1> USE PortAssumption
<1> QED
  BY DEF Init, Ownership, Named, Owned, TunnelsServed, Sequential, NoOrphanListener, TornDown,
         NoTask, NoConn, NoForward, Forwarded

(* Steps of the world, of probing and of the retry clock touch none of it.  *)
LEMMA OwnershipStutter ==
  ASSUME Ownership, UNCHANGED <<sup, pc, waiting, pending, forwards, tasks>>
  PROVE  Ownership'
BY DEF Ownership, Named, Owned, TunnelsServed, Sequential, NoOrphanListener, TornDown,
       Forwarded, Cancelled, tasks

(* Forward::stop hands its listener from the manager to the awaiting task.  *)
LEMMA OwnershipStop ==
  ASSUME TypeOK, Ownership, NEW p \in Forwarded, StopForward(p), waiting = 0,
         pc \in {"remove", "stop"}, UNCHANGED <<sup, pc, conn>>
  PROVE  Ownership'
<1>1. forwards[p] \in Port /\ p \in Port
  BY DEF TypeOK, Forwarded
<1>2. task[forwards[p]].phase = "accept" /\ task[forwards[p]].remote = p
  BY <1>1 DEF Ownership, Owned, Forwarded
<1>3. /\ forwards' = [forwards EXCEPT ![p] = 0]
      /\ waiting' = forwards[p]
      /\ task' = [task EXCEPT ![forwards[p]].phase = "cancelled"]
  BY DEF StopForward
<1>4. /\ task \in [Port -> [phase : Phases, remote : Port \cup {0}]]
      /\ forwards \in [Port -> Port \cup {0}]
  BY DEF TypeOK, TaskOK
<1>5. \A q \in Port : /\ task'[q].remote = task[q].remote
                      /\ q # forwards[p] => task'[q] = task[q]
                      /\ q = forwards[p] => task'[q].phase = "cancelled"
  BY <1>1, <1>3, <1>4
<1>6. Named' BY <1>1, <1>2, <1>5 DEF Ownership, Named
<1>7. Owned'
  BY <1>1, <1>2, <1>3, <1>4, <1>5 DEF Ownership, Owned
<1>8. TunnelsServed' BY <1>1, <1>5 DEF Ownership, TunnelsServed
<1>9. Sequential' BY DEF Ownership, Sequential
<1>10. NoOrphanListener'
  <2>1. \A q \in Port : task[q].phase # "none" => forwards[task[q].remote] = q /\ ~Cancelled(q)
    BY PortAssumption DEF Ownership, NoOrphanListener
  <2> QED BY <1>1, <1>2, <1>3, <1>4, <1>5, <2>1 DEF NoOrphanListener, Cancelled, Ownership, Named
<1>11. TornDown' BY DEF Ownership, Sequential, TornDown
<1> QED BY <1>6, <1>7, <1>8, <1>9, <1>10, <1>11 DEF Ownership

(* AddOne binds a port no task holds, for a port that had no forward.       *)
LEMMA OwnershipAdd ==
  ASSUME TypeOK, Ownership, AddOne
  PROVE  Ownership'
<1> DEFINE p == Min(pending)
           q == LocalPortFor(p)
<1>1. p \in pending /\ p \in Port /\ forwards[p] = 0
  <2>1. pending # {} /\ pending \subseteq Port /\ Port \subseteq Nat
    BY PortAssumption DEF AddOne, TypeOK
  <2>2. p \in pending BY <2>1, MinInSet
  <2> QED BY <2>1, <2>2 DEF AddOne, Ownership, Sequential
<1>2. /\ pc = "add" /\ waiting = 0 /\ pc' = pc /\ waiting' = 0 /\ sup' = sup
      /\ pending' = pending \ {p} /\ conn' = conn
      /\ pc # "out" /\ sup = "session"
  BY DEF AddOne, Ownership, Sequential, supvars
<1>3. CASE q > 0
  <2>1. q \in Port /\ task[q].phase = "none"
    BY <1>1, <1>3, LocalPortForType DEF TryBind
  <2>2. /\ forwards' = [forwards EXCEPT ![p] = q]
        /\ task' = [task EXCEPT ![q] = [phase |-> "accept", remote |-> p]]
    BY <1>3 DEF AddOne
  <2>3. /\ task \in [Port -> [phase : Phases, remote : Port \cup {0}]]
        /\ forwards \in [Port -> Port \cup {0}]
    BY DEF TypeOK, TaskOK
  <2>4. Named' BY <1>1, <2>2, <2>3 DEF Ownership, Named
  <2>5. Owned' BY <1>1, <2>1, <2>2, <2>3 DEF Ownership, Owned
  <2>6. TunnelsServed' BY <1>2, <2>1, <2>2, <2>3 DEF Ownership, TunnelsServed
  <2>7. Sequential' BY <1>1, <1>2, <2>2, <2>3 DEF Ownership, Sequential, TypeOK, Forwarded
  <2>8. NoOrphanListener'
    <3>1. \A r \in Port : task[r].phase # "none" => forwards[task[r].remote] = r /\ ~Cancelled(r)
      BY <1>2, PortAssumption DEF Ownership, NoOrphanListener
    <3>2. \A r \in Port : task[r].phase # "none" => task[r].remote # p /\ task[r].remote \in Port
      BY <1>1, <3>1, PortAssumption DEF Ownership, Named
    <3> QED BY <1>1, <1>2, <2>1, <2>2, <2>3, <3>1, <3>2 DEF NoOrphanListener, Cancelled
  <2>9. TornDown' BY <1>2 DEF TornDown
  <2> QED BY <2>4, <2>5, <2>6, <2>7, <2>8, <2>9 DEF Ownership
<1>4. CASE ~(q > 0)
  <2>1. UNCHANGED <<forwards, task>> BY <1>4 DEF AddOne
  <2>2. Sequential' BY <1>1, <1>2, <2>1 DEF Ownership, Sequential
  <2> QED BY <1>2, <2>1, <2>2
          DEF Ownership, Named, Owned, TunnelsServed, NoOrphanListener, TornDown, Cancelled
<1> QED BY <1>3, <1>4

(* A session ends only when the last forward was stopped and joined.        *)
LEMMA OwnershipEnd ==
  ASSUME TypeOK, Ownership, StopDone
  PROVE  Ownership'
<1>1. /\ waiting = 0 /\ Forwarded = {} /\ pc' = "out" /\ sup' = "sleep"
      /\ UNCHANGED <<waiting, forwards, task, conn, pending>>
  BY DEF StopDone, tasks
<1>2. \A q \in Port : task[q].phase = "none"
  <2> SUFFICES ASSUME NEW q \in Port, task[q].phase # "none" PROVE FALSE OBVIOUS
  <2>1. forwards[task[q].remote] = q /\ task[q].remote \in Port
    BY <1>1, PortAssumption DEF Ownership, NoOrphanListener, Named
  <2> QED BY <1>1, <2>1, PortAssumption DEF Forwarded
<1>3. \A c \in Conn : conn[c].state = "none"
  BY <1>2 DEF Ownership, TunnelsServed
<1>4. Sequential' BY <1>1 DEF Sequential, Forwarded
<1> QED BY <1>1, <1>2, <1>3, <1>4
        DEF Ownership, Named, Owned, TunnelsServed, NoOrphanListener, TornDown

LEMMA OwnershipStep == TypeOK /\ Ownership /\ [Next]_vars => Ownership'
<1> SUFFICES ASSUME TypeOK, Ownership, [Next]_vars PROVE Ownership' OBVIOUS
<1>1. CASE Supervisor
  <2>1. CASE ConnectOk
    <3>1. /\ sup = "connect" /\ pc = "out" /\ waiting = 0
          /\ \A q \in Port : task[q].phase = "none"
          /\ \A c \in Conn : conn[c].state = "none"
      BY <2>1 DEF ConnectOk, Ownership, Sequential, TornDown
    <3> QED BY <2>1, <3>1
            DEF ConnectOk, Ownership, Named, Owned, TunnelsServed, Sequential, NoOrphanListener,
                TornDown, NoForward, tasks
  <2>2. CASE ProbeStartFails \/ ConnectTransient \/ ConnectFatal \/ SleepDone
    <3>1. /\ sup # "session" /\ sup' # "session"
          /\ UNCHANGED <<pc, waiting, pending, forwards, tasks>>
      BY <2>2 DEF ProbeStartFails, ConnectTransient, ConnectFatal, SleepDone, control, manager
    <3> QED BY <3>1
            DEF Ownership, Named, Owned, TunnelsServed, Sequential, NoOrphanListener,
                TornDown, Forwarded, Cancelled, tasks
  <2> QED BY <1>1, <2>1, <2>2 DEF Supervisor
<1>2. CASE PollLoop \/ Joined \/ Scan \/ Reconciled
  <2>1. /\ pc # "out" /\ pc' # "out"
        /\ pc' \in {"read", "add"} => waiting' = 0
        /\ pc' = "add" => \A p \in pending' : forwards[p] = 0
        /\ sup' = sup /\ UNCHANGED <<forwards, tasks>>
    BY <1>2 DEF PollLoop, ReadFails, ReadFrame, Joined, Scan, Reconciled, Pending, Ownership,
                Sequential, supvars, manager
  <2>2. waiting' = waiting \/ (waiting' = 0 /\ waiting # 0 /\ task[waiting].phase = "none")
    BY <1>2 DEF PollLoop, ReadFails, ReadFrame, Joined, Scan, Reconciled
  <2>3. NoOrphanListener'
    BY <2>1, <2>2 DEF Ownership, NoOrphanListener, Cancelled, tasks
  <2> QED BY <2>1, <2>3
          DEF Ownership, Named, Owned, TunnelsServed, Sequential, TornDown, tasks
<1>3. CASE RemoveOne
  <2>1. pc = "remove" /\ waiting = 0 /\ UNCHANGED <<sup, pc, pending, conn>>
    BY <1>3 DEF RemoveOne, supvars
  <2>2. CASE forwards[Min(removed)] # 0
    <3>1. Min(removed) \in Port
      BY <1>3, MinInSet, PortAssumption DEF RemoveOne, TypeOK
    <3> QED BY <1>3, <2>1, <2>2, <3>1, OwnershipStop DEF RemoveOne, Forwarded
  <2>3. CASE forwards[Min(removed)] = 0
    BY <1>3, <2>1, <2>3, OwnershipStutter DEF RemoveOne, tasks
  <2> QED BY <2>2, <2>3
<1>4. CASE AddOne BY <1>4, OwnershipAdd
<1>5. CASE StopOne
  BY <1>5, OwnershipStop DEF StopOne, supvars
<1>6. CASE StopDone BY <1>6, OwnershipEnd
<1>7. CASE World
  BY <1>7, OwnershipStutter
     DEF World, LinkDies, RemoteChanges, Tick, supvars, control, manager
<1>8. ASSUME NEW ok \in BOOLEAN, ProbeFrame(ok) PROVE Ownership'
  BY <1>8, OwnershipStutter DEF ProbeFrame, supvars, control, manager
<1>9. ASSUME NEW q \in Port, Listener(q) PROVE Ownership'
  <2>1. /\ UNCHANGED <<sup, pc, waiting, pending, forwards, conn>>
        /\ task[q].phase \in {"cancelled", "drain"}
        /\ task'[q].phase \in {"drain", "none"}
        /\ task'[q].phase # "none" => task'[q].remote = task[q].remote
        /\ task'[q].phase = "none" => Serves(q) = {}
        /\ \A r \in Port : r # q => task'[r] = task[r]
    BY <1>9 DEF Listener, Break, TaskReturns, NoTask, TypeOK, TaskOK, supvars, control, manager
  <2>2. Named' BY <2>1 DEF Ownership, Named
  <2>3. Owned' BY <2>1 DEF Ownership, Owned, TypeOK
  <2>4. TunnelsServed' BY <2>1 DEF Ownership, TunnelsServed, Serves
  <2>5. Sequential' BY <2>1 DEF Ownership, Sequential, Forwarded
  <2>6. NoOrphanListener' BY <2>1 DEF Ownership, NoOrphanListener, Cancelled
  <2>7. TornDown' BY <2>1 DEF Ownership, TornDown
  <2> QED BY <2>2, <2>3, <2>4, <2>5, <2>6, <2>7 DEF Ownership
<1>10. ASSUME NEW q \in Port, NEW c \in Conn, Accept(q, c) PROVE Ownership'
  <2>1. /\ UNCHANGED <<sup, pc, waiting, pending, forwards, task>>
        /\ task[q].phase # "none" /\ sup = "session"
        /\ conn'[c].at = q /\ \A d \in Conn : d # c => conn'[d] = conn[d]
    BY <1>10 DEF Accept, Accepting, TypeOK, ConnOK, Ownership, TornDown, supvars, control, manager
  <2> QED BY <2>1
          DEF Ownership, Named, Owned, TunnelsServed, Sequential, NoOrphanListener, TornDown,
              Forwarded, Cancelled
<1>11. ASSUME NEW c \in Conn, Tunnel(c) PROVE Ownership'
  <2>1. /\ UNCHANGED <<sup, pc, waiting, pending, forwards, task>>
        /\ conn[c].state # "none"
        /\ conn'[c].state # "none" => conn'[c].at = conn[c].at
        /\ \A d \in Conn : d # c => conn'[d] = conn[d]
    BY <1>11 DEF Tunnel, ChannelOpens, TunnelEnds, NoConn, TypeOK, ConnOK, supvars, control, manager
  <2> QED BY <2>1
          DEF Ownership, Named, Owned, TunnelsServed, Sequential, NoOrphanListener, TornDown,
              Forwarded, Cancelled
<1>12. ASSUME NEW q \in Local, OtherBinds(q) \/ OtherReleases(q) PROVE Ownership'
  BY <1>12, OwnershipStutter DEF OtherBinds, OtherReleases, supvars, control, manager
<1>13. CASE UNCHANGED vars
  BY <1>13, OwnershipStutter DEF vars, supvars, control, manager
<1> QED BY <1>1, <1>2, <1>3, <1>4, <1>5, <1>6, <1>7, <1>8, <1>9, <1>10, <1>11, <1>12, <1>13
        DEF Next, Reconcile, StopAll

(* No listener is ever without an owner that will cancel and join it.       *)
THEOREM ListenersOwned == Spec => []NoOrphanListener
<1>1. Spec => [](TypeOK /\ Ownership)
  BY TypeInit, TypeStep, OwnershipInit, OwnershipStep, PTL DEF Spec
<1>2. TypeOK /\ Ownership => NoOrphanListener BY DEF Ownership
<1> QED BY <1>1, <1>2, PTL

(* A session that has ended left no listener and no tunnel.                 *)
THEOREM SessionsTornDown == Spec => []TornDown
<1>1. Spec => [](TypeOK /\ Ownership)
  BY TypeInit, TypeStep, OwnershipInit, OwnershipStep, PTL DEF Spec
<1>2. TypeOK /\ Ownership => TornDown BY DEF Ownership
<1> QED BY <1>1, <1>2, PTL

-----------------------------------------------------------------------------
(* The remapped port.  The order in which find_free_near looks at ports is  *)
(* an arithmetic of odd and even probe numbers; it is inverted here.        *)

LEMMA CandidateAt ==
  ASSUME NEW p \in Nat, NEW d \in Nat \ {0}
  PROVE  /\ Candidate(p, 2 * d - 1) = p + d
         /\ Candidate(p, 2 * d) = IF d <= p THEN p - d ELSE 0
<1>1. (2 * d - 1) % 2 = 1 /\ (2 * d - 1 + 1) \div 2 = d OBVIOUS
<1>2. (2 * d) % 2 = 0 /\ (2 * d + 1) \div 2 = d OBVIOUS
<1> QED BY <1>1, <1>2 DEF Candidate

LEMMA ProbeNumber ==
  ASSUME NEW k \in Nat \ {0}
  PROVE  \E d \in Nat \ {0} : k = 2 * d - 1 \/ k = 2 * d
<1>1. CASE k % 2 = 1
  <2>1. (k + 1) \div 2 \in Nat \ {0} /\ k = 2 * ((k + 1) \div 2) - 1 BY <1>1
  <2> QED BY <2>1
<1>2. CASE k % 2 = 0
  <2>1. k \div 2 \in Nat \ {0} /\ k = 2 * (k \div 2) BY <1>2
  <2> QED BY <2>1
<1> QED BY <1>1, <1>2

(* A port nearer than the one probed k-th, or as near and above it, was     *)
(* probed before.                                                           *)
LEMMA NearerIsEarlier ==
  ASSUME NEW p \in Nat, NEW k \in Nat \ {0}, Candidate(p, k) # 0,
         NEW r \in Nat \ {0}, r # p,
         \/ Distance(p, r) < Distance(p, Candidate(p, k))
         \/ Distance(p, r) = Distance(p, Candidate(p, k)) /\ r > Candidate(p, k)
  PROVE  \E j \in 1 .. k - 1 : Candidate(p, j) = r
<1>1. PICK o \in Nat \ {0} : k = 2 * o - 1 \/ k = 2 * o BY ProbeNumber
<1>2. /\ k = 2 * o - 1 => Candidate(p, k) = p + o
      /\ k = 2 * o => Candidate(p, k) = p - o /\ o <= p
  BY <1>1, CandidateAt
<1>3. Distance(p, Candidate(p, k)) = o BY <1>1, <1>2 DEF Distance
<1>4. CASE r > p
  <2>1. Distance(p, r) = r - p /\ r - p \in Nat \ {0} BY <1>4 DEF Distance
  <2>2. Candidate(p, 2 * (r - p) - 1) = r
    <3>1. Candidate(p, 2 * (r - p) - 1) = p + (r - p) BY <2>1, CandidateAt
    <3> QED BY <3>1
  <2>3. 2 * (r - p) - 1 \in 1 .. k - 1 BY <1>1, <1>2, <1>3, <2>1
  <2> QED BY <2>2, <2>3
<1>5. CASE r < p
  <2>1. Distance(p, r) = p - r /\ p - r \in Nat \ {0} BY <1>5 DEF Distance
  <2>2. Candidate(p, 2 * (p - r)) = r BY <2>1, CandidateAt
  <2>3. 2 * (p - r) \in 1 .. k - 1 BY <1>1, <1>2, <1>3, <1>5, <2>1
  <2> QED BY <2>2, <2>3
<1> QED BY <1>4, <1>5

(* find_free_near finds the nearest local port that can be bound.           *)
LEMMA NearestFound ==
  ASSUME NEW p \in Port, LocalPortFor(p) \notin {-1, 0, p}
  PROVE  /\ ~skip /\ TryBind(p) = "inuse"
         /\ \A r \in MinRemapPort .. MaxRemapPort :
              \/ Distance(p, r) < Distance(p, LocalPortFor(p))
              \/ Distance(p, r) = Distance(p, LocalPortFor(p)) /\ r > LocalPortFor(p)
              => TryBind(r) = "inuse"
<1> DEFINE k == Min(Answers(p))
<1>1. /\ TryBind(p) = "inuse" /\ ~skip /\ Answers(p) # {}
      /\ LocalPortFor(p) = Candidate(p, k)
  BY DEF LocalPortFor
<1>2. k \in Answers(p) /\ \A j \in Answers(p) : k <= j
  <2>1. Answers(p) \subseteq Nat BY NumberAssumption DEF Answers
  <2> QED BY <1>1, <2>1, MinInSet
<1>3. k \in 1 .. 2 * RemapSearchRadius /\ p \in Nat /\ Candidate(p, k) # 0
  BY <1>2, NumberAssumption, PortAssumption DEF Answers
<1>4. ASSUME NEW r \in MinRemapPort .. MaxRemapPort,
             \/ Distance(p, r) < Distance(p, LocalPortFor(p))
             \/ Distance(p, r) = Distance(p, LocalPortFor(p)) /\ r > LocalPortFor(p)
      PROVE  TryBind(r) = "inuse"
  <2>1. CASE r = p BY <1>1, <2>1
  <2>2. CASE r # p
    <3>1. PICK j \in 1 .. k - 1 : Candidate(p, j) = r
      BY <1>1, <1>3, <1>4, <2>2, NumberAssumption, NearerIsEarlier
    <3>2. j \notin Answers(p) /\ j \in 1 .. 2 * RemapSearchRadius
      BY <1>2, <1>3, NumberAssumption
    <3> QED BY <3>1, <3>2 DEF Answers
  <2> QED BY <2>1, <2>2
<1> QED BY <1>1, <1>4

(* Whatever port a forward gets that is not its own, no nearer one was free. *)
THEOREM RemapNearest == Spec => RemapIsNearest
<1> DEFINE Remapped(p) == forwards[p] = 0 /\ forwards'[p] \notin {0, p}
           Nearest(p) ==
             /\ ~skip /\ TryBind(p) = "inuse"
             /\ \A q \in MinRemapPort .. MaxRemapPort :
                  \/ Distance(p, q) < Distance(p, forwards'[p])
                  \/ Distance(p, q) = Distance(p, forwards'[p]) /\ q > forwards'[p]
                  => TryBind(q) = "inuse"
<1>1. TypeOK /\ [Next]_vars => \A p \in Port : Remapped(p) => Nearest(p)
  <2> SUFFICES ASSUME TypeOK, [Next]_vars, NEW p \in Port, Remapped(p) PROVE Nearest(p)
    OBVIOUS
  <2>1. AddOne
    <3>1. forwards \in [Port -> Port \cup {0}] BY DEF TypeOK
    <3> QED BY <3>1
        DEF Next, Supervisor, ConnectOk, ProbeStartFails, ConnectTransient, ConnectFatal, SleepDone,
            PollLoop, ReadFails, ReadFrame, Reconcile, Joined, RemoveOne, StopForward, Scan,
            Reconciled, StopAll, StopOne, StopDone, World, LinkDies, RemoteChanges, Tick, ProbeFrame,
            Listener, Break, TaskReturns, Accept, Tunnel, ChannelOpens, TunnelEnds,
            OtherBinds, OtherReleases, NoForward, vars, manager, supvars, control
  <2>2. p = Min(pending) /\ forwards'[p] = LocalPortFor(p) /\ LocalPortFor(p) \notin {-1, 0, p}
    <3>1. Min(pending) \in Port
      BY <2>1, MinInSet, PortAssumption DEF AddOne, TypeOK
    <3>2. LocalPortFor(Min(pending)) \in Port \cup {0, -1} BY <3>1, LocalPortForType
    <3>3. LocalPortFor(Min(pending)) > 0 /\ forwards' = [forwards EXCEPT ![Min(pending)] = LocalPortFor(Min(pending))]
      BY <2>1, <3>2, PortAssumption DEF AddOne
    <3> QED BY <3>1, <3>2, <3>3 DEF TypeOK
  <2> QED BY <2>2, NearestFound
<1> QED BY <1>1, TypeInit, TypeStep, PTL DEF Spec, RemapIsNearest

-----------------------------------------------------------------------------
(* The manager's bookkeeping.  Partition holds between frames; this is what *)
(* reconcile keeps while it works its way from one target to the next.      *)

Known == Forwarded \cup skipped \cup Retrying

Disjoint == Forwarded \cap skipped = {} /\ Retrying \cap (Forwarded \cup skipped) = {}

Accounted ==
  /\ pc \in {"read", "remove", "add"} => Disjoint
  /\ pc = "read" => Known = desired
  /\ pc = "remove" => removed \subseteq desired \ target
                      /\ Known = removed \cup (desired \cap target)
  /\ pc = "add" => pending \cap (Forwarded \cup skipped) = {} /\ Known \cup pending = target

LEMMA AccountedInit == Init => Accounted
BY DEF Init, Accounted

LEMMA AccountedStutter ==
  ASSUME Accounted, UNCHANGED <<pc, target, removed, pending, desired, forwards, skipped>>,
         Retrying' = Retrying
  PROVE  Accounted'
BY DEF Accounted, Disjoint, Known, Forwarded

(* A port that closed is forgotten in all three places.                     *)
LEMMA AccountedRemove ==
  ASSUME TypeOK, Accounted, RemoveOne
  PROVE  Accounted'
<1> DEFINE p == Min(removed)
<1>1. p \in removed /\ p \in Port
  BY MinInSet, PortAssumption DEF RemoveOne, TypeOK
<1>2. Forwarded' = Forwarded \ {p}
  <2>1. forwards' = [forwards EXCEPT ![p] = 0] \/ (forwards[p] = 0 /\ forwards' = forwards)
    BY DEF RemoveOne, StopForward
  <2> QED BY <1>1, <2>1 DEF Forwarded, TypeOK
<1>3. Retrying' = Retrying \ {p}
  <2>1. retry' = [retry EXCEPT ![p] = -1] BY DEF RemoveOne, Forget
  <2> QED BY <1>1, <2>1 DEF Retrying, TypeOK
<1>4. /\ skipped' = skipped \ {p} /\ removed' = removed \ {p}
      /\ pc = "remove" /\ pc' = "remove" /\ UNCHANGED <<desired, target>>
  BY DEF RemoveOne, Forget
<1>5. Disjoint' BY <1>2, <1>3, <1>4 DEF Accounted, Disjoint
<1>6. Known' = Known \ {p} BY <1>2, <1>3, <1>4 DEF Known
<1> QED BY <1>1, <1>4, <1>5, <1>6 DEF Accounted

(* A port that is tried ends in exactly one of the three places.            *)
LEMMA AccountedAdd ==
  ASSUME TypeOK, Accounted, AddOne
  PROVE  Accounted'
<1> DEFINE p == Min(pending)
           q == LocalPortFor(p)
<1>1. p \in pending /\ p \in Port
  BY MinInSet, PortAssumption DEF AddOne, TypeOK
<1>2. q \in Port \cup {0, -1} /\ Port \subseteq Nat \ {0}
  BY <1>1, LocalPortForType, PortAssumption
<1>3. /\ p \notin Forwarded /\ p \notin skipped
      /\ pc = "add" /\ pc' = "add" /\ UNCHANGED target /\ pending' = pending \ {p}
  BY <1>1 DEF AddOne, Accounted
<1>4. Forwarded' = IF q > 0 THEN Forwarded \cup {p} ELSE Forwarded
  <2>1. forwards' = IF q > 0 THEN [forwards EXCEPT ![p] = q] ELSE forwards
    BY DEF AddOne
  <2> QED BY <1>1, <1>2, <2>1 DEF Forwarded, TypeOK
<1>5. Retrying' = IF q = 0 THEN Retrying \cup {p} ELSE Retrying \ {p}
  <2>1. retry' = [retry EXCEPT ![p] = IF q = 0 THEN RetryDelay ELSE -1] BY DEF AddOne
  <2>2. RetryDelay \in Nat BY NumberAssumption
  <2>3. CASE q = 0 BY <1>1, <2>1, <2>2, <2>3 DEF Retrying, TypeOK
  <2>4. CASE q # 0 BY <1>1, <2>1, <2>2, <2>4 DEF Retrying, TypeOK
  <2> QED BY <2>3, <2>4
<1>6. skipped' = IF q = -1 THEN skipped \cup {p} ELSE skipped BY DEF AddOne
<1>7. Disjoint /\ pending \cap (Forwarded \cup skipped) = {} /\ Known \cup pending = target
  BY <1>3 DEF Accounted
<1>8. Disjoint' BY <1>2, <1>3, <1>4, <1>5, <1>6, <1>7 DEF Disjoint
<1>9. (pending \cap (Forwarded \cup skipped) = {})'
  BY <1>3, <1>4, <1>6, <1>7
<1>10. (Known \cup pending = target)'
  <2>1. Known' \cup pending' = Known \cup pending
    <3>1. CASE q > 0 BY <1>1, <1>3, <1>4, <1>5, <1>6, <3>1 DEF Known
    <3>2. CASE q = 0 BY <1>1, <1>3, <1>4, <1>5, <1>6, <3>2 DEF Known
    <3>3. CASE q = -1 BY <1>1, <1>3, <1>4, <1>5, <1>6, <3>3 DEF Known
    <3>4. q > 0 \/ q = 0 \/ q = -1
      <4> HIDE DEF q
      <4> QED BY <1>2
    <3> QED BY <3>1, <3>2, <3>3, <3>4
  <2> QED BY <1>3, <1>7, <2>1
<1> QED BY <1>3, <1>8, <1>9, <1>10 DEF Accounted

LEMMA AccountedStep == TypeOK /\ Accounted /\ [Next]_vars => Accounted'
<1> SUFFICES ASSUME TypeOK, Accounted, [Next]_vars PROVE Accounted' OBVIOUS
<1>1. CASE Supervisor
  <2>1. CASE ConnectOk
    BY <2>1 DEF ConnectOk, Accounted, Disjoint, Known, Forwarded, Retrying, NoForward, NoRetry
  <2>2. CASE ProbeStartFails \/ ConnectTransient \/ ConnectFatal \/ SleepDone
    BY <2>2, AccountedStutter
       DEF ProbeStartFails, ConnectTransient, ConnectFatal, SleepDone, control, manager, Retrying
  <2> QED BY <1>1, <2>1, <2>2 DEF Supervisor
<1>2. CASE ReadFails \/ StopOne \/ StopDone
  BY <1>2 DEF ReadFails, StopOne, StopDone, Accounted
<1>3. CASE ReadFrame
  <2>1. CASE Head(frames).ok
    BY <1>3, <2>1 DEF ReadFrame, Accounted, Disjoint, Known, Forwarded, Retrying, manager
  <2>2. CASE ~Head(frames).ok
    BY <1>3, <2>2 DEF ReadFrame, Accounted, Disjoint, Known, Forwarded, Retrying, manager
  <2> QED BY <2>1, <2>2
<1>4. CASE Joined
  BY <1>4, AccountedStutter DEF Joined, manager, Retrying
<1>5. CASE RemoveOne BY <1>5, AccountedRemove
<1>6. CASE Scan
  <2>1. /\ pc = "remove" /\ removed = {} /\ pc' = "add" /\ pending' = Pending
        /\ UNCHANGED <<target, forwards, skipped, retry>>
    BY <1>6 DEF Scan, manager
  <2>2. Disjoint /\ Known = desired \cap target BY <2>1 DEF Accounted
  <2>3. Pending = {p \in target : p \notin Forwarded /\ p \notin skipped /\ retry[p] <= 0}
    BY PortAssumption DEF Pending, Forwarded, TypeOK
  <2>4. Known \cup Pending = target
    <3>1. \A p \in target : p \in Port /\ retry[p] \in Int
      BY PortAssumption, NumberAssumption DEF TypeOK
    <3>2. \A p \in target : p \in Known \/ p \in Pending
      BY <2>3, <3>1 DEF Known, Retrying
    <3> QED BY <2>2, <2>3, <3>2
  <2> QED BY <2>1, <2>2, <2>3, <2>4
          DEF Accounted, Disjoint, Known, Forwarded, Retrying
<1>7. CASE AddOne BY <1>7, AccountedAdd
<1>8. CASE Reconciled
  BY <1>8 DEF Reconciled, Accounted, Disjoint, Known, Forwarded, Retrying
<1>9. CASE World
  <2>1. CASE Tick
    <3>1. Retrying' = Retrying BY <2>1 DEF Tick, Retrying, TypeOK
    <3> QED BY <2>1, <3>1, AccountedStutter DEF Tick, control
  <2>2. CASE LinkDies \/ RemoteChanges
    BY <2>2, AccountedStutter DEF LinkDies, RemoteChanges, control, manager, Retrying
  <2> QED BY <1>9, <2>1, <2>2 DEF World
<1>10. ASSUME NEW ok \in BOOLEAN, ProbeFrame(ok) PROVE Accounted'
  BY <1>10, AccountedStutter DEF ProbeFrame, control, manager, Retrying
<1>11. ASSUME NEW q \in Port, Listener(q) PROVE Accounted'
  BY <1>11, AccountedStutter DEF Listener, Break, TaskReturns, control, manager, Retrying
<1>12. ASSUME NEW q \in Port, NEW c \in Conn, Accept(q, c) PROVE Accounted'
  BY <1>12, AccountedStutter DEF Accept, control, manager, Retrying
<1>13. ASSUME NEW c \in Conn, Tunnel(c) PROVE Accounted'
  BY <1>13, AccountedStutter DEF Tunnel, ChannelOpens, TunnelEnds, control, manager, Retrying
<1>14. ASSUME NEW q \in Local, OtherBinds(q) \/ OtherReleases(q) PROVE Accounted'
  BY <1>14, AccountedStutter DEF OtherBinds, OtherReleases, control, manager, Retrying
<1>15. CASE UNCHANGED vars
  BY <1>15, AccountedStutter DEF vars, control, manager, Retrying
<1> QED BY <1>1, <1>2, <1>3, <1>4, <1>5, <1>6, <1>7, <1>8, <1>9, <1>10, <1>11, <1>12, <1>13, <1>14,
           <1>15 DEF Next, PollLoop, Reconcile, StopAll

(* Every watched port that is open is forwarded, skipped or retried, and    *)
(* only one of them; no closed port is remembered.                          *)
THEOREM PortsPartitioned == Spec => []Partition
<1>1. Spec => [](TypeOK /\ Accounted)
  BY TypeInit, TypeStep, AccountedInit, AccountedStep, PTL DEF Spec
<1>2. TypeOK /\ Accounted => Partition BY DEF Accounted, Partition, Disjoint, Known
<1> QED BY <1>1, <1>2, PTL
=============================================================================
