--------------------------- MODULE RemoteTextInput --------------------------
(***************************************************************************)
(* remote-text-input: pages in browsers (web/index.html), a session for    *)
(* each socket and the lock they queue for (main.rs), the thread that is   *)
(* the Wayland input method (wayland.rs), and a compositor.                *)
(*                                                                         *)
(* What a text says and how long it is does not matter, only whether it is *)
(* empty.  Sockets are numbered in the order they are opened, and so are   *)
(* the sends (the pages count their own; an answer never leaves its        *)
(* socket).  The compositor is external: it drops a commit whose serial is *)
(* not the number of done events it has sent, as zwp_input_method_v2 says. *)
(***************************************************************************)
EXTENDS Integers, Sequences, SequencesExt

CONSTANTS
  Browsers,
  MaxTyped,     (* bound: inputs and compositions                          *)
  MaxSends,     (* bound: sends                                            *)
  MaxFocus,     (* bound: changes of the focus                             *)
  MaxOther,     (* bound: done events without a change of the focus, other *)
                (* input methods and Ctrl+C, together                      *)
  MaxSockets    (* bound: sockets opened                                   *)

ASSUME BoundAssumption == {MaxTyped, MaxSends, MaxFocus, MaxOther, MaxSockets} \subseteq Nat

VARIABLES
  page,         (* by browser: sock (0: none), draft, timer, composing, pendingId, target *)
  up, down,     (* by socket: the messages on it                           *)
  session,      (* by socket: what its session is doing                    *)
  unseen,       (* by socket: whether status.changed() would return        *)
  reply,        (* by socket: the oneshot that process awaits              *)
  controller,   (* the queue of the lock; its head holds it                *)
  commands,     (* the calloop channel                                     *)
  im,           (* active, epoch, pending_active, pending_reset, serial, running *)
  events,       (* from the compositor                                     *)
  requests,     (* to it                                                   *)
  desk,         (* the compositor: active, epoch, dones, preedit (0, or the socket it is from), ours *)
  told,         (* history: what a page was told of each send              *)
  landed,       (* history: what was committed, for which epoch and in which *)
  dropped,      (* history: the sends dropped as stale                     *)
  missed,       (* history: a Clear was dropped as stale since the preedit *)
                (* that is shown came                                      *)
  cut,          (* sockets half open: no sign of their end has reached the *)
                (* session                                                 *)
  count         (* of each bounded thing                                   *)

socket   == <<up, down>>
server   == <<session, unseen, reply, controller>>
wayland  == <<im, events, requests, desk>>
lost     == <<landed, dropped, missed, cut>>
vars     == <<page, socket, server, commands, wayland, told, lost, count>>

Sockets == 1 .. MaxSockets
Ids     == 1 .. MaxSends
Epochs  == 0 .. MaxFocus
NoReply == [answer |-> "none", id |-> 0]
Open(s) == \E b \in Browsers : page[b].sock = s

Init ==
  /\ page = [b \in Browsers |-> [sock |-> 0, draft |-> FALSE, timer |-> FALSE,
               composing |-> FALSE, pendingId |-> 0, target |-> [active |-> FALSE, epoch |-> 0]]]
  /\ up = [s \in Sockets |-> <<>>] /\ down = up
  /\ session = [s \in Sockets |-> "none"] /\ unseen = [s \in Sockets |-> FALSE]
  /\ reply = [s \in Sockets |-> NoReply] /\ controller = <<>> /\ commands = <<>>
  /\ im = [active |-> FALSE, epoch |-> 0, pending_active |-> FALSE, pending_reset |-> FALSE,
           serial |-> 0, running |-> TRUE]
  /\ events = <<>> /\ requests = <<>>
  /\ desk = [active |-> FALSE, epoch |-> 0, dones |-> 0, preedit |-> 0, ours |-> TRUE]
  /\ told = [id \in Ids |-> "nothing"] /\ landed = {} /\ dropped = {} /\ missed = FALSE /\ cut = {}
  /\ count = [typed |-> 0, sends |-> 0, focus |-> 0, other |-> 0, sockets |-> 0]

-----------------------------------------------------------------------------
(* The page                                                                *)

Put(q, s, m) == [q EXCEPT ![s] = Append(@, m)]
Told(b, answer) == IF page[b].pendingId = 0 THEN told
                   ELSE [told EXCEPT ![page[b].pendingId] = answer]

\* connect, and the start of the session: it sends "waiting" and queues
Connect(b) ==
  LET s == count.sockets + 1 IN
  /\ page[b].sock = 0 /\ s \in Sockets /\ im.running
  /\ count' = [count EXCEPT !.sockets = s]
  /\ page' = [page EXCEPT ![b].sock = s, ![b].target.active = FALSE]
  /\ session' = [session EXCEPT ![s] = "waiting"] /\ controller' = Append(controller, s)
  /\ down' = Put(down, s, [type |-> "waiting"])
  /\ UNCHANGED <<up, unseen, reply, commands, wayland, told, lost>>

\* The input event, in a composition or not; a pending send locks the text area.
Type(b) ==
  /\ page[b].pendingId = 0 /\ count.typed < MaxTyped
  /\ count' = [count EXCEPT !.typed = @ + 1]
  /\ \E some \in BOOLEAN : page' = [page EXCEPT ![b].draft = some, ![b].timer = TRUE]
  /\ UNCHANGED <<socket, server, commands, wayland, told, lost>>

\* It does not ask whether the browser composes.
SyncDraft(b) ==
  LET p == page[b] IN
  IF p.sock # 0 /\ p.target.active /\ p.pendingId = 0
  THEN up' = Put(up, p.sock, [type |-> "draft", epoch |-> p.target.epoch, some |-> p.draft, id |-> 0])
  ELSE UNCHANGED up

TimerFires(b) ==
  /\ page[b].timer
  /\ page' = [page EXCEPT ![b].timer = FALSE] /\ SyncDraft(b)
  /\ UNCHANGED <<down, server, commands, wayland, told, lost, count>>

CompositionStart(b) ==
  /\ ~page[b].composing /\ page[b].pendingId = 0 /\ count.typed < MaxTyped
  /\ count' = [count EXCEPT !.typed = @ + 1]
  /\ page' = [page EXCEPT ![b].composing = TRUE]
  /\ UNCHANGED <<socket, server, commands, wayland, told, lost>>

CompositionEnd(b) ==
  /\ page[b].composing
  /\ page' = [page EXCEPT ![b].composing = FALSE] /\ SyncDraft(b)
  /\ UNCHANGED <<down, server, commands, wayland, told, lost, count>>

Send(b) ==
  LET p == page[b]
      id == count.sends + 1 IN
  /\ p.sock # 0 /\ p.target.active /\ ~p.composing /\ p.pendingId = 0 /\ p.draft /\ id \in Ids
  /\ count' = [count EXCEPT !.sends = id]
  /\ page' = [page EXCEPT ![b].timer = FALSE, ![b].pendingId = id]
  /\ up' = Put(up, p.sock, [type |-> "send", epoch |-> p.target.epoch, some |-> TRUE, id |-> id])
  /\ UNCHANGED <<down, server, commands, wayland, told, lost>>

\* Mutant: an error ends the pending send, whatever it answers.
OnAnyError(b, m) ==
  IF m.type = "ack" /\ m.id # page[b].pendingId THEN UNCHANGED <<page, told>>
  ELSE /\ page' = [page EXCEPT ![b].pendingId = 0, ![b].draft = @ /\ m.type # "ack"]
       /\ told' = Told(b, m.type)

\* The id of an answer to a draft is null, here 0.
OnAnswer(b, m) ==
  IF m.id = 0 \/ m.id # page[b].pendingId THEN UNCHANGED <<page, told>>
  ELSE /\ page' = [page EXCEPT ![b].pendingId = 0, ![b].draft = @ /\ m.type # "ack"]
       /\ told' = Told(b, m.type)

OnMessage(b) ==
  LET s == page[b].sock IN
  /\ s # 0 /\ down[s] # <<>> /\ down' = [down EXCEPT ![s] = Tail(@)]
  /\ LET m == Head(down[s]) IN
     \/ /\ m.type = "waiting"
        /\ page' = [page EXCEPT ![b].timer = FALSE, ![b].target.active = FALSE]
        /\ UNCHANGED told
     \/ /\ m.type = "state"
        /\ page' = [page EXCEPT ![b].target = [active |-> m.active, epoch |-> m.epoch],
                     ![b].timer = @ /\ m.epoch = page[b].target.epoch]
        /\ UNCHANGED told
     \/ m.type \in {"ack", "error"} /\ OnAnswer(b, m)
  /\ UNCHANGED <<up, server, commands, wayland, lost, count>>

\* The page is closed, the network is cut or the program is gone; a part of
\* what the page sent still arrives.  A network that is cut need not tell the
\* session: the socket is then half open, and recv goes on waiting.
OnClose(b) ==
  LET s == page[b].sock IN
  /\ s # 0
  /\ page' = [page EXCEPT ![b].sock = 0, ![b].timer = FALSE,
                          ![b].target.active = FALSE, ![b].pendingId = 0]
  /\ told' = Told(b, "unknown")
  /\ \E n \in 0 .. Len(up[s]) : up' = [up EXCEPT ![s] = SubSeq(@, 1, n)]
  /\ down' = [down EXCEPT ![s] = <<>>]
  /\ cut' \in {cut, cut \cup {s}}
  /\ UNCHANGED <<server, commands, wayland, landed, dropped, missed, count>>

-----------------------------------------------------------------------------
(* session and process                                                     *)

ToPage(s, m) == IF Open(s) THEN down' = Put(down, s, m) ELSE UNCHANGED down
State(status) == [type |-> "state", active |-> status.active, epoch |-> status.epoch]

\* Mutant: the controller is not sent the state it starts with.
TakeSilently(s) ==
  /\ session[s] = "waiting" /\ Head(controller) = s
  /\ session' = [session EXCEPT ![s] = "control"]
  /\ up' = [up EXCEPT ![s] = <<>>]
  /\ UNCHANGED <<page, down, unseen, reply, controller, commands, wayland, told, lost, count>>

\* What came while it waited was read and ignored.
Take(s) ==
  /\ session[s] = "waiting" /\ Head(controller) = s
  /\ session' = [session EXCEPT ![s] = "control"]
  /\ up' = [up EXCEPT ![s] = <<>>] /\ ToPage(s, State(im))
  /\ UNCHANGED <<page, unseen, reply, controller, commands, wayland, told, lost, count>>

\* Mutant: a change of the state cancels the wait for the thread's reply.
ChangedCancels(s) ==
  /\ session[s] \in {"control", "replying"} /\ unseen[s]
  /\ session' = [session EXCEPT ![s] = "control"] /\ reply' = [reply EXCEPT ![s] = NoReply]
  /\ unseen' = [unseen EXCEPT ![s] = FALSE] /\ ToPage(s, State(im))
  /\ UNCHANGED <<page, up, controller, commands, wayland, told, lost, count>>

Changed(s) ==
  /\ session[s] = "control" /\ unseen[s]
  /\ unseen' = [unseen EXCEPT ![s] = FALSE] /\ ToPage(s, State(im))
  /\ UNCHANGED <<page, up, session, reply, controller, commands, wayland, told, lost, count>>

\* process, up to the await; if the thread is gone the channel takes nothing
Process(s) ==
  /\ session[s] = "control" /\ up[s] # <<>> /\ up' = [up EXCEPT ![s] = Tail(@)]
  /\ LET m == Head(up[s]) IN
     IF im.running
     THEN /\ commands' = Append(commands, [type |-> m.type, by |-> s, epoch |-> m.epoch,
                                           some |-> m.some, id |-> m.id])
          /\ session' = [session EXCEPT ![s] = "replying"]
          /\ reply' = [reply EXCEPT ![s].id = m.id] /\ UNCHANGED down
     ELSE ToPage(s, [type |-> "error", id |-> m.id]) /\ UNCHANGED <<commands, session, reply>>
  /\ UNCHANGED <<page, unseen, controller, wayland, told, lost, count>>

Reply(s) ==
  /\ session[s] = "replying" /\ reply[s].answer # "none"
  /\ session' = [session EXCEPT ![s] = "control"] /\ reply' = [reply EXCEPT ![s] = NoReply]
  /\ ToPage(s, [type |-> reply[s].answer, id |-> reply[s].id])
  /\ UNCHANGED <<page, up, unseen, controller, commands, wayland, told, lost, count>>

ClearOf(s) == [type |-> "clear", by |-> s, epoch |-> 0, some |-> FALSE, id |-> 0]
Leave(s) ==
  /\ session[s] \in {"waiting", "control"} /\ ~Open(s)
  /\ session' = [session EXCEPT ![s] = "none"] /\ unseen' = [unseen EXCEPT ![s] = FALSE]
  /\ \E i \in DOMAIN controller : controller[i] = s /\ controller' = RemoveAt(controller, i)
  /\ up' = [up EXCEPT ![s] = <<>>] /\ cut' = cut \ {s}
  /\ UNCHANGED <<page, down, reply, wayland, told, landed, dropped, missed, count>>

\* Mutant: the controller leaves its preedit behind.
EndSilently(s) == Leave(s) /\ UNCHANGED commands

\* A recv or a send failed: a controller sends Clear and then lets the lock go,
\* a session that waits only leaves the queue.
End(s) ==
  /\ Leave(s)
  /\ IF session[s] = "control" /\ im.running THEN commands' = Append(commands, ClearOf(s))
     ELSE UNCHANGED commands

-----------------------------------------------------------------------------
(* wayland::run, and main's Ctrl+C                                         *)

Other == count.other < MaxOther /\ count' = [count EXCEPT !.other = @ + 1]

CtrlC ==
  /\ im.running /\ \A i \in DOMAIN commands : commands[i].type # "stop"
  /\ Other /\ commands' = Append(commands, [ClearOf(0) EXCEPT !.type = "stop"])
  /\ UNCHANGED <<page, socket, server, wayland, told, lost>>

Request(c) == requests' = Append(requests, [type |-> c.type, by |-> c.by, some |-> c.some,
                                            id |-> c.id, epoch |-> c.epoch, serial |-> im.serial])
Replied(c, answer) == reply' = [reply EXCEPT ![c.by].answer = answer]

\* Mutant: any epoch will do.
UpdateAny(c) ==
  IF im.active THEN Request(c) /\ Replied(c, "ack")
  ELSE Replied(c, "error") /\ UNCHANGED requests

Update(c) ==
  IF im.active /\ c.epoch = im.epoch THEN Request(c) /\ Replied(c, "ack")
  ELSE Replied(c, "error") /\ UNCHANGED requests

Clear(c) == IF im.active THEN Request(c) ELSE UNCHANGED requests

Command ==
  /\ commands # <<>> /\ commands' = Tail(commands)
  /\ LET c == Head(commands) IN
     \/ im.running /\ c.type \in {"draft", "send"} /\ Update(c) /\ UNCHANGED im
     \/ im.running /\ c.type = "clear" /\ Clear(c) /\ UNCHANGED <<reply, im>>
     \/ /\ im.running /\ c.type = "stop" /\ Clear(ClearOf(0))
        /\ im' = [im EXCEPT !.running = FALSE] /\ UNCHANGED reply
     \/ /\ ~im.running        \* the channel is dropped, and the oneshots in it
        /\ IF c.type \in {"draft", "send"} THEN Replied(c, "error") ELSE UNCHANGED reply
        /\ UNCHANGED <<im, requests>>
  /\ UNCHANGED <<page, socket, session, unseen, controller, events, desk, told, lost, count>>

Publish == unseen' = [s \in Sockets |-> session[s] \in {"control", "replying"}]

Event ==
  /\ im.running /\ events # <<>> /\ events' = Tail(events)
  /\ \/ /\ Head(events) \in {"activate", "deactivate"}
        /\ im' = [im EXCEPT !.pending_active = Head(events) = "activate", !.pending_reset = TRUE]
        /\ UNCHANGED unseen
     \/ /\ Head(events) = "done" /\ Publish
        /\ im' = [im EXCEPT !.serial = @ + 1, !.active = im.pending_active,
                            !.epoch = IF im.pending_reset THEN @ + 1 ELSE @,
                            !.pending_reset = FALSE]
     \/ /\ Head(events) = "unavailable" /\ Publish
        /\ im' = [im EXCEPT !.active = FALSE, !.running = FALSE]
  /\ UNCHANGED <<page, socket, session, reply, controller, commands, requests, desk, told, lost, count>>

-----------------------------------------------------------------------------
(* The compositor                                                          *)

\* A field takes the focus, or the one that has it loses it.
Focus(event) ==
  /\ event = "activate" \/ (event = "deactivate" /\ desk.active)
  /\ desk.ours /\ im.running /\ count.focus < MaxFocus /\ count' = [count EXCEPT !.focus = @ + 1]
  /\ desk' = [desk EXCEPT !.active = event = "activate", !.epoch = @ + 1, !.dones = @ + 1,
                          !.preedit = 0]
  /\ events' = events \o <<event, "done">>
  /\ UNCHANGED <<page, socket, server, commands, im, requests, told, lost>>

\* The field tells of its surrounding text.
Touch ==
  /\ desk.active /\ im.running /\ Other
  /\ desk' = [desk EXCEPT !.dones = @ + 1] /\ events' = Append(events, "done")
  /\ UNCHANGED <<page, socket, server, commands, im, requests, told, lost>>

\* Another input method is there.
Refuse ==
  /\ desk.ours /\ im.running /\ Other
  /\ desk' = [desk EXCEPT !.active = FALSE, !.preedit = 0, !.ours = FALSE]
  /\ events' = Append(events, "unavailable")
  /\ UNCHANGED <<page, socket, server, commands, im, requests, told, lost>>

Apply ==
  /\ requests # <<>> /\ requests' = Tail(requests)
  /\ LET r == Head(requests)
         fresh == desk.ours /\ r.serial = desk.dones IN
     /\ desk' = IF fresh THEN [desk EXCEPT !.preedit = IF r.type = "draft" /\ r.some THEN r.by ELSE 0]
                ELSE desk
     /\ landed' = IF fresh /\ r.type = "send"
                  THEN landed \cup {[id |-> r.id, asked |-> r.epoch, field |-> desk.epoch]} ELSE landed
     /\ dropped' = IF ~fresh /\ r.type = "send" THEN dropped \cup {r.id} ELSE dropped
     /\ missed' = (~fresh /\ (missed \/ r.type = "clear"))
  /\ UNCHANGED <<page, socket, server, commands, im, events, told, cut, count>>

-----------------------------------------------------------------------------

Page(b)    == \/ Connect(b) \/ Type(b) \/ TimerFires(b) \/ CompositionStart(b)
              \/ CompositionEnd(b) \/ Send(b) \/ OnMessage(b) \/ OnClose(b)
Session(s) == Take(s) \/ Changed(s) \/ Process(s) \/ Reply(s) \/ End(s)
Thread     == Command \/ Event
Desk       == Focus("activate") \/ Focus("deactivate") \/ Touch \/ Refuse

Next ==
  \/ \E b \in Browsers : Page(b)
  \/ \E s \in Sockets : Session(s)
  \/ Thread \/ CtrlC \/ Desk \/ Apply

\* Pages take their messages, tasks are polled, the thread and the compositor
\* go on; a program that has stopped closes its sockets.  Nothing asks a silent
\* socket for a sign of life or waits for it with a timeout: that a half open one
\* ends is up to a send that fails some day, and is not taken for granted.
Wakes(s) == Take(s) \/ Changed(s) \/ Process(s) \/ Reply(s) \/ (s \notin cut /\ End(s))

Fairness ==
  /\ WF_vars(\E b \in Browsers : OnMessage(b) \/ (~im.running /\ OnClose(b)))
  /\ WF_vars(\E s \in Sockets : Wakes(s))
  /\ WF_vars(Thread) /\ WF_vars(Apply)

Spec == Init /\ [][Next]_vars /\ Fairness

-----------------------------------------------------------------------------
(* Properties                                                              *)

\* The types, and with them what the lock is for: the sessions that are not
\* ended are those in the queue, and only its head is past the wait.
TypeOK ==
  /\ page \in [Browsers -> [sock : 0 .. MaxSockets, draft : BOOLEAN, timer : BOOLEAN,
                            composing : BOOLEAN, pendingId : 0 .. MaxSends,
                            target : [active : BOOLEAN, epoch : Epochs]]]
  /\ session \in [Sockets -> {"none", "waiting", "control", "replying"}]
  /\ unseen \in [Sockets -> BOOLEAN]
  /\ reply \in [Sockets -> [answer : {"none", "ack", "error"}, id : 0 .. MaxSends]]
  /\ IsInjective(controller) /\ Range(controller) = {s \in Sockets : session[s] # "none"}
  /\ \A i \in DOMAIN controller : session[controller[i]] # "waiting" => i = 1
  /\ im \in [active : BOOLEAN, epoch : Epochs, pending_active : BOOLEAN,
             pending_reset : BOOLEAN, serial : 0 .. MaxFocus + MaxOther, running : BOOLEAN]
  /\ told \in [Ids -> {"nothing", "ack", "error", "unknown"}]

\* A text is committed in the field it was sent for, whatever the focus did
\* since the page was last told of it (update, Event::Done).
RightField == \A l \in landed : l.asked = l.field

Underway(id) == \E i \in DOMAIN requests : requests[i].id = id

\* What a page is told of a send is so: of an error nothing comes afterwards,
\* and an ack is of a commit that was made (process, onmessage); any done event on
\* its way, with a change of the focus or without, makes the compositor drop it.
AnswerIsTrue ==
  \A id \in Ids :
    /\ told[id] = "error" =>
         /\ ~Underway(id) /\ id \notin {l.id : l \in landed}
         /\ \A i \in DOMAIN commands : commands[i].id # id
    /\ told[id] = "ack" => Underway(id) \/ id \in dropped \/ id \in {l.id : l \in landed}

ClearAt(q, i, s) == q[i].type = "clear" /\ q[i].by = s

\* A preedit whose session has ended is about to be cleared, unless a Clear that
\* came while it was shown has met a done event on the way; and a Clear never
\* comes after a command of a session that is not cleared itself (session, its
\* last line).
PreeditOwner ==
  /\ desk.preedit # 0 /\ session[desk.preedit] = "none" =>
       \/ missed
       \/ \E i \in DOMAIN commands : ClearAt(commands, i, desk.preedit)
       \/ \E i \in DOMAIN requests : requests[i].type \in {"clear", "stop"}
  /\ \A j \in DOMAIN commands : commands[j].type = "clear" =>
       \A i \in 1 .. j : commands[i].type = "stop" \/ commands[i].by = commands[j].by
                         \/ \E k \in i .. j : ClearAt(commands, k, commands[i].by)

\* A page that sends gets its text area back: an answer, an error, or the end
\* of its socket (Send, process, update, onmessage, onclose).
SendAnswered == []<>(\A b \in Browsers : page[b].pendingId = 0)

Shown(s) == \E b \in Browsers :
  page[b].sock = s /\ page[b].target = [active |-> im.active, epoch |-> im.epoch]

\* The lock passes on from pages whose end the session is told of, and the page
\* that holds it comes to show the state the thread has (session, Event::Done):
\* again and again, unless the socket that holds the lock is half open.
InSync == []<>(im.running /\ controller # <<>> =>
                 Shown(Head(controller)) \/ Head(controller) \in cut)

\* PROMPT.md: while the browser composes nothing is synchronised.
ComposingNotSynced ==
  [][\A b \in Browsers, s \in Sockets :
       page[b].composing /\ page'[b].composing /\ page[b].sock = s
         => Len(up'[s]) <= Len(up[s])]_vars
=============================================================================
