---------------------------- MODULE PulseMonitor ----------------------------
(***************************************************************************)
(* pulse-monitor: the main thread, libpulse's threaded-mainloop thread that *)
(* runs the callbacks, the linked list of events between them, and SIGINT.  *)
(*                                                                         *)
(* The PulseAudio server is external: it keeps objects, and everything it   *)
(* sends (subscription events and query replies) arrives in the order sent. *)
(* The eight facilities differ only in what they print, so one is modelled. *)
(* libpulse blocks every signal in its own thread: the handler runs in main.*)
(***************************************************************************)
EXTENDS Naturals, SequencesExt, FiniteSetsExt

CONSTANTS
  Obj,          (* server objects, each created at most once               *)
  Node,         (* heap cells for struct event, 1 .. the number of events  *)
  MayFail       (* whether the context can fail after it was ready         *)

ASSUME NodeAssumption == IsFiniteSet(Node) /\ Node = 1 .. Cardinality(Node) /\ Node # {}
ASSUME MayFailAssumption == MayFail \in BOOLEAN

NULL == 0

VARIABLES
  alive, born,  (* server: objects there are, and objects there ever were  *)
  net,          (* messages from the server under way                      *)
  asked,        (* objects queried and not yet answered                    *)
  ctx,          (* the context: "connecting", "ready" or "failed"          *)
  raised,       (* events the server raised, capped by Cardinality(Node)   *)
  head, tail, next, ev,  (* the event list: ev_head, ev_tail, and the cells *)
  freed,        (* cells given back by free()                              *)
  main,         (* program counter of the main thread                      *)
  cur,          (* the cell process_event works on                         *)
  reply,        (* q.s and q.d of the pending query: "none", "live", "gone" *)
  quit,
  received, printed  (* history: events queued; lines printed              *)

server == <<alive, born, net, asked, raised>>
list   == <<head, tail, next, ev, freed>>
hist   == <<received, printed>>
vars   == <<server, ctx, list, main, cur, reply, quit, hist>>

EventType == {"new", "change", "remove"}
Event == [type : EventType, obj : Obj]
Line == [type : EventType, obj : Obj, detail : {"live", "gone"}]
Message == Event \cup [reply : {"live", "gone"}]

\* The program points of main() where another thread or a signal can act.
\* "gap": both tests of line 834 are made, pthread_cond_wait not yet entered.
Point == {"connect", "subscribe", "subwait", "top", "check", "gap", "wait", "pop", "process", "query",
          "exit", "done", "error"}
\* main holds ev_mtx from the lock to pthread_cond_wait or the unlock.
HoldsMutex == main \in {"check", "gap", "pop"}

TypeOK ==
  /\ alive \in SUBSET Obj /\ born \in SUBSET Obj /\ net \in Seq(Message)
  /\ asked \in SUBSET Obj /\ ctx \in {"connecting", "ready", "failed"}
  /\ raised \in 0 .. Cardinality(Node)
  /\ head \in Node \cup {NULL} /\ tail \in Node \cup {NULL} /\ cur \in Node \cup {NULL}
  /\ next \in [Node -> Node \cup {NULL}] /\ freed \in SUBSET Node
  /\ ev \in Seq(Event) /\ Len(ev) <= Cardinality(Node)
  /\ main \in Point /\ reply \in {"none", "live", "gone"} /\ quit \in BOOLEAN
  /\ received \in Seq(Event) /\ printed \in Seq(Line)
  /\ main = "pop" => head # NULL
  /\ main \in {"process", "query"} => cur # NULL

Init ==
  /\ alive = {} /\ born = {} /\ net = <<>> /\ asked = {} /\ raised = 0
  /\ ctx = "connecting"
  /\ head = NULL /\ tail = NULL /\ next = [n \in Node |-> NULL] /\ ev = <<>> /\ freed = {}
  /\ main = "connect" /\ cur = NULL /\ reply = "none" /\ quit = FALSE
  /\ received = <<>> /\ printed = <<>>

-----------------------------------------------------------------------------
(* The server.                                                              *)

\* Events go to the client once its subscription has reached the server.
Subscribed == main \notin {"connect", "subscribe", "error"}

Raise(type, o) ==
  /\ ctx = "ready" /\ Subscribed /\ raised < Cardinality(Node)
  /\ raised' = raised + 1
  /\ net' = Append(net, [type |-> type, obj |-> o])

ServerNew(o) == o \notin born /\ Raise("new", o) /\ alive' = alive \cup {o} /\ born' = born \cup {o}
ServerChange(o) == o \in alive /\ Raise("change", o) /\ UNCHANGED <<alive, born>>
ServerRemove(o) == o \in alive /\ Raise("remove", o) /\ alive' = alive \ {o} /\ UNCHANGED born

ServerEvent ==
  /\ \E o \in Obj : ServerNew(o) \/ ServerChange(o) \/ ServerRemove(o)
  /\ UNCHANGED <<asked, ctx, list, main, cur, reply, quit, hist>>

ServerAnswers ==
  /\ ctx = "ready"
  /\ \E o \in asked :
       /\ asked' = asked \ {o}
       /\ net' = Append(net, [reply |-> IF o \in alive THEN "live" ELSE "gone"])
  /\ UNCHANGED <<alive, born, raised, ctx, list, main, cur, reply, quit, hist>>

\* The server is there (PA_CONTEXT_NOFAIL waits for it), refuses, or goes away.
\* A failing context drops what is under way and cancels its operations
\* without calling their callbacks.
ContextReady ==
  /\ ctx = "connecting"
  /\ ctx' = "ready"
  /\ UNCHANGED <<server, list, main, cur, reply, quit, hist>>

ContextFails ==
  /\ ctx = "connecting" \/ (ctx = "ready" /\ MayFail)
  /\ ctx' = "failed" /\ net' = <<>> /\ asked' = {}
  /\ UNCHANGED <<alive, born, raised, list, main, cur, reply, quit, hist>>

-----------------------------------------------------------------------------
(* The mainloop thread.                                                     *)

\* The cell calloc returns: fresh ones first, as nothing depends on the address.
Fresh == Len(ev) + 1

\* Append to the list between ev_head and ev_tail.
Enqueue(n) ==
  /\ next' = IF tail # NULL THEN [next EXCEPT ![tail] = n] ELSE next
  /\ head' = IF tail # NULL THEN head ELSE n
  /\ tail' = n

\* Mutant: pthread_cond_signal is left out.
SubCbSilent ==
  /\ net # <<>> /\ "type" \in DOMAIN Head(net) /\ ~HoldsMutex
  /\ net' = Tail(net)
  /\ ev' = Append(ev, Head(net)) /\ received' = Append(received, Head(net))
  /\ Enqueue(Fresh)
  /\ UNCHANGED <<alive, born, asked, raised, ctx, freed, main, cur, reply, quit, printed>>

\* sub_cb, from calloc to unlock; pthread_cond_signal wakes main if it waits.
SubCb ==
  /\ net # <<>> /\ "type" \in DOMAIN Head(net) /\ ~HoldsMutex
  /\ net' = Tail(net)
  /\ ev' = Append(ev, Head(net)) /\ received' = Append(received, Head(net))
  /\ Enqueue(Fresh)
  /\ main' = IF main = "wait" THEN "check" ELSE main
  /\ UNCHANGED <<alive, born, asked, raised, ctx, freed, cur, reply, quit, printed>>

\* The info callback stores the data and sets done; libpulse calls nothing
\* when the operation's object is gone but the error callback.
QueryCb ==
  /\ net # <<>> /\ "reply" \in DOMAIN Head(net)
  /\ net' = Tail(net)
  /\ reply' = Head(net).reply
  /\ UNCHANGED <<alive, born, asked, raised, ctx, list, main, cur, quit, hist>>

-----------------------------------------------------------------------------
(* main()                                                                   *)

\* lines 798-806: wait for state_cb to set ready or failed
Connected ==
  /\ main = "connect" /\ ctx # "connecting"
  /\ main' = IF ctx = "failed" THEN "error" ELSE "subscribe"
  /\ UNCHANGED <<server, ctx, list, cur, reply, quit, hist>>

\* lines 808-818: a context that is no longer ready gives no operation
Subscribe ==
  /\ main = "subscribe"
  /\ main' = IF ctx = "ready" THEN "subwait" ELSE "error"
  /\ UNCHANGED <<server, ctx, list, cur, reply, quit, hist>>

\* lines 819-827: the acknowledgement, which a failing context never gives
Acknowledged ==
  /\ main = "subwait" /\ ctx = "ready"
  /\ \/ main' = "top" /\ UNCHANGED net
     \/ main' = "error" /\ net' = <<>>
  /\ UNCHANGED <<alive, born, asked, raised, ctx, list, cur, reply, quit, hist>>

\* while (!quit), then the lock
Top ==
  /\ main = "top"
  /\ main' = IF quit THEN "exit" ELSE "check"
  /\ UNCHANGED <<server, ctx, list, cur, reply, quit, hist>>

\* while (!ev_head && !quit), and the test after it
Check ==
  /\ main = "check"
  /\ main' = IF quit THEN "exit" ELSE IF head # NULL THEN "pop" ELSE "gap"
  /\ UNCHANGED <<server, ctx, list, cur, reply, quit, hist>>

\* pthread_cond_wait joins the waiters and releases ev_mtx
CondWait ==
  /\ main = "gap"
  /\ main' = "wait"
  /\ UNCHANGED <<server, ctx, list, cur, reply, quit, hist>>

\* Mutants: ev_tail keeps pointing at the cell taken off an emptied list; the
\* whole list is taken for one event.
PopKeepsTail ==
  /\ main = "pop" /\ main' = "process"
  /\ cur' = head /\ head' = next[head] /\ next' = [next EXCEPT ![head] = NULL]
  /\ UNCHANGED <<server, ctx, tail, ev, freed, reply, quit, hist>>

PopDropsRest ==
  /\ main = "pop" /\ main' = "process"
  /\ cur' = head /\ head' = NULL /\ tail' = NULL
  /\ UNCHANGED <<server, ctx, next, ev, freed, reply, quit, hist>>

Pop ==
  /\ main = "pop" /\ main' = "process"
  /\ cur' = head
  /\ head' = next[head]
  /\ tail' = IF next[head] = NULL THEN NULL ELSE tail
  /\ next' = [next EXCEPT ![head] = NULL]
  /\ UNCHANGED <<server, ctx, ev, freed, reply, quit, hist>>

\* the end of process_event, and free(ev)
PrintLine(detail) ==
  /\ printed' = Append(printed, [type |-> ev[cur].type, obj |-> ev[cur].obj, detail |-> detail])
  /\ freed' = freed \cup {cur} /\ cur' = NULL
  /\ main' = "top"

\* process_event: a removal prints "(deleted)"; anything else queries the
\* object, and a context that is not ready gives no operation at all.
ProcessEvent ==
  /\ main = "process"
  /\ IF ev[cur].type = "remove" \/ ctx # "ready"
     THEN PrintLine("gone") /\ UNCHANGED <<asked, reply>>
     ELSE /\ asked' = asked \cup {ev[cur].obj} /\ reply' = "none" /\ main' = "query"
          /\ UNCHANGED <<printed, freed, cur>>
  /\ UNCHANGED <<alive, born, net, raised, ctx, head, tail, next, ev, quit, received>>

\* Mutant: one wait instead of a loop, so an early wakeup passes for no data.
QueryDoneEarly ==
  /\ main = "query"
  /\ PrintLine(IF reply = "none" THEN "gone" ELSE reply)
  /\ reply' = "none"
  /\ UNCHANGED <<server, ctx, head, tail, next, ev, quit, received>>

\* while (!q.s.done) wait: the print, or "(deleted)" when there was no data
QueryDone ==
  /\ main = "query" /\ reply # "none"
  /\ PrintLine(reply)
  /\ reply' = "none"
  /\ UNCHANGED <<server, ctx, head, tail, next, ev, quit, received>>

\* The cells on the list, in order: from ev_head along the links to a NULL.
Links(cells) ==
  IF cells = <<>> THEN head = NULL
  ELSE /\ head = cells[1] /\ next[cells[Len(cells)]] = NULL
       /\ \A k \in 1 .. Len(cells) - 1 : next[cells[k]] = cells[k + 1]
Chain == CHOOSE cells \in SeqOf(Node, Cardinality(Node)) : Links(cells)

\* lines 851-869: disconnect, stop the thread, free what is left on the list
Exit ==
  /\ main = "exit"
  /\ main' = "done" /\ ctx' = "failed" /\ net' = <<>> /\ asked' = {}
  /\ freed' = freed \cup ToSet(Chain)
  /\ head' = NULL /\ tail' = NULL
  /\ UNCHANGED <<alive, born, raised, next, ev, cur, reply, quit, hist>>

\* sighandler, in the main thread: pthread_cond_signal finds main waiting only
\* once pthread_cond_wait has been entered.
Sigint ==
  /\ main \notin {"done", "error"}
  /\ quit' = TRUE
  /\ main' = IF main = "wait" THEN "check" ELSE main
  /\ UNCHANGED <<server, ctx, list, cur, reply, hist>>

Main == Connected \/ Subscribe \/ Acknowledged \/ Top \/ Check \/ CondWait \/ Pop
        \/ ProcessEvent \/ QueryDone \/ Exit
Callback == SubCb \/ QueryCb
World == ServerEvent \/ ServerAnswers \/ ContextReady \/ ContextFails

Next == Main \/ Callback \/ World \/ Sigint

Spec == Init /\ [][Next]_vars

\* Both threads run and a live server answers; it need not raise events, fail
\* or appear, and nobody has to press ^C (twice).
FairSpec == Spec /\ WF_vars(Main) /\ WF_vars(Callback) /\ WF_vars(ServerAnswers)

-----------------------------------------------------------------------------
(* Properties.                                                              *)

EventOf(line) == [type |-> line.type, obj |-> line.obj]
Events(cells) == [k \in DOMAIN cells |-> ev[cells[k]]]
Current == IF cur = NULL THEN <<>> ELSE <<cur>>

\* Between the two threads no event is lost, repeated or overtaken: the lines
\* printed, the event being printed and the list are what sub_cb was given.
NothingLost ==
  main # "done" =>
    received = [k \in DOMAIN printed |-> EventOf(printed[k])] \o Events(Current) \o Events(Chain)

\* Every cell is on the list, in main's hands or freed, and in one of them;
\* ev_tail is the last cell of the list.  Nothing leaks when main returns.
CellsOwned ==
  /\ (head = NULL) = (tail = NULL)
  /\ head # NULL => Last(Chain) = tail
  /\ 1 .. Len(ev) \subseteq ToSet(Chain) \cup {cur} \cup freed
  /\ ToSet(Chain) \cap freed = {} /\ cur \notin ToSet(Chain) \cup freed
  /\ main = "done" => freed = 1 .. Len(ev)

\* "(deleted)" on a line that is not a removal is true: the object is gone from
\* the server, however far the queue of events lags behind it.
DeletedIsTrue ==
  \A k \in DOMAIN printed :
    printed[k].detail = "gone" /\ printed[k].type # "remove" =>
      printed[k].obj \notin alive \/ ctx = "failed"

\* Whatever the callbacks queue is printed, unless the user quits or the
\* connection is lost or refused.
EveryEventPrinted ==
  \A k \in Node : Len(received) >= k ~>
    Len(printed) >= k \/ quit \/ ctx = "failed" \/ main = "error"

\* README: "`^C` to quit."  Once the banner that says so is out, ^C ends the
\* program.
Announced == main \notin {"connect", "subscribe", "subwait", "error"}
QuitStops == quit /\ Announced ~> main = "done"
=============================================================================
