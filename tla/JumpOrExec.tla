----------------------------- MODULE JumpOrExec -----------------------------
(***************************************************************************)
(* jump-or-exec: learns the open windows from the compositor in two round  *)
(* trips, then activates one that matches or, when none does, runs a       *)
(* command.  Windows open, close, change their title and get the focus     *)
(* while requests and events are on their way.  Whether app_id and title   *)
(* match the pattern is a property of the window here.                     *)
(***************************************************************************)
EXTENDS Naturals, SequencesExt

CONSTANTS Windows, MaxChanges   (* bound: changes of windows               *)

Nobody == "none"

ASSUME JumpAssumption ==
  MaxChanges \in Nat /\ IsFiniteSet(Windows) /\ Nobody \notin Windows

VARIABLES
  jump,                     (* where the program is                        *)
  list_only,
  seat, manager,            (* globals bound                               *)
  windows,                  (* the list, the newest window first           *)
  target, spawned,          (* the window asked for; the command runs      *)
  requests, events,         (* on their way                                *)
  globals,                  (* compositor: what it offers                  *)
  open, matching, focused,   (* compositor: its windows                     *)
  told,                     (* compositor: it has a client to tell         *)
  changes,
  steady                    (* history: windows open and matching since    *)
                            (* the program started                         *)

clientVars     == <<list_only, seat, manager, windows, target, spawned>>
compositorVars == <<globals, open, matching, focused, told, changes, steady>>
jumpVars    == <<jump, clientVars, requests, events, compositorVars>>

Window(w)  == [window |-> w, matches |-> FALSE, activated |-> FALSE]
Msg(t)     == [type |-> t, window |-> Nobody, yes |-> FALSE]
About(t, w, y) == [type |-> t, window |-> w, yes |-> y]

Entries  == [window : Windows, matches : BOOLEAN, activated : BOOLEAN]
Requests == [type : {"registry", "sync", "bind", "activate"}, window : Windows \cup {Nobody}, yes : BOOLEAN]
Events   == [type : {"seat", "manager", "done"}, window : {Nobody}, yes : BOOLEAN]
            \cup [type : {"toplevel", "title", "state", "closed"}, window : Windows, yes : BOOLEAN]

JumpTypeOK ==
  /\ jump \in {"off", "first", "second", "choose", "last", "exit", "failed"}
  /\ {list_only, seat, manager, spawned, told} \subseteq BOOLEAN
  /\ windows \in Seq(Entries) /\ requests \in Seq(Requests) /\ events \in Seq(Events)
  /\ target \in Windows \cup {Nobody} /\ globals \subseteq {"seat", "manager"}
  /\ matching \subseteq Windows /\ open \subseteq Windows /\ focused \subseteq open /\ steady \subseteq open
  /\ changes \in 0 .. MaxChanges

JumpInit ==
  /\ jump = "off" /\ list_only = FALSE /\ seat = FALSE /\ manager = FALSE /\ windows = <<>>
  /\ target = Nobody /\ spawned = FALSE /\ requests = <<>> /\ events = <<>>
  /\ globals = {} /\ open = {} /\ matching = {} /\ focused = {} /\ told = FALSE /\ changes = 0 /\ steady = {}

-----------------------------------------------------------------------------
(* The program                                                             *)

\* getopt, wl_display_connect, wl_display_get_registry and a first roundtrip, to
\* a compositor in any state
Connect ==
  /\ jump = "off"
  /\ globals' \in SUBSET {"seat", "manager"} /\ open' \in SUBSET Windows /\ matching' \in SUBSET open'
  /\ focused' \in {{}} \cup {{w} : w \in open'} /\ steady' = matching'
  /\ jump' = "first" /\ list_only' \in BOOLEAN /\ requests' = <<Msg("registry"), Msg("sync")>>
  /\ UNCHANGED <<seat, manager, windows, target, spawned, events, told, changes>>

\* Mutant: one roundtrip has to do.
OneRoundtrip(j) == IF j = "last" THEN "exit" ELSE "choose"

\* What follows the roundtrip j: the first tells the globals, the second, after
\* the manager is bound, the windows.
AfterRoundtrip(j) == CASE j = "first" -> "second" [] j = "second" -> "choose" [] OTHER -> "exit"

\* wl_display_roundtrip: its sync is answered.
RoundtripDone ==
  /\ events # <<>> /\ Head(events).type = "done" /\ events' = Tail(events)
  /\ jump \in {"first", "second", "last"} /\ jump' = AfterRoundtrip(jump)
  /\ requests' = IF jump' = "second" THEN Append(requests, Msg("sync")) ELSE requests
  /\ UNCHANGED <<clientVars, compositorVars>>

\* global_handler: the request to bind goes out before the next sync
Global ==
  LET e == Head(events)
  IN  /\ e.type \in {"seat", "manager"}
      /\ seat' = (seat \/ e.type = "seat") /\ manager' = (manager \/ e.type = "manager")
      /\ requests' = IF e.type = "manager" THEN Append(requests, Msg("bind")) ELSE requests
      /\ UNCHANGED windows

\* The list with what is new about w.
Titled(w, yes) ==
  [i \in DOMAIN windows |->
     IF windows[i].window = w THEN [windows[i] EXCEPT !.matches = yes] ELSE windows[i]]
Stated(w, yes) ==
  [i \in DOMAIN windows |->
     IF windows[i].window = w THEN [windows[i] EXCEPT !.activated = yes] ELSE windows[i]]

\* manager_toplevel, toplevel_title, toplevel_app_id, toplevel_state, toplevel_closed
Toplevel ==
  LET e == Head(events)
  IN  /\ \/ e.type = "toplevel" /\ windows' = <<Window(e.window)>> \o windows
         \/ e.type = "title" /\ windows' = Titled(e.window, e.yes)
         \/ e.type = "state" /\ windows' = Stated(e.window, e.yes)
         \/ /\ e.type = "closed"
            /\ \E i \in DOMAIN windows :
                 windows[i].window = e.window /\ windows' = RemoveAt(windows, i)
      /\ UNCHANGED <<seat, manager, requests>>

\* Events that came with the answer are handled too before the program goes on.
Dispatch ==
  /\ jump \in {"first", "second", "choose", "last"} /\ events # <<>> /\ events' = Tail(events)
  /\ Global \/ Toplevel
  /\ UNCHANGED <<jump, list_only, target, spawned, compositorVars>>

\* The connection breaks; in the last roundtrip nobody looks.
ConnectionLost ==
  /\ \/ jump \in {"first", "second"} /\ jump' = "failed"
     \/ jump = "last" /\ jump' = "exit"
  /\ UNCHANGED <<clientVars, requests, events, compositorVars>>

\* select_window: the active window if it matches, else the first that does
Selected ==
  LET matches == {i \in DOMAIN windows : windows[i].matches}
      best    == IF \E i \in matches : windows[i].activated
                 THEN {i \in matches : windows[i].activated} ELSE matches
  IN  IF best = {} THEN Nobody ELSE windows[Min(best)].window

Choosing == jump = "choose" /\ seat /\ manager

MissingProtocols ==
  /\ jump = "choose" /\ ~(seat /\ manager) /\ jump' = "failed"
  /\ UNCHANGED <<clientVars, requests, events, compositorVars>>

ListWindows ==
  /\ Choosing /\ list_only /\ jump' = "exit"
  /\ UNCHANGED <<clientVars, requests, events, compositorVars>>

Activate ==
  /\ Choosing /\ ~list_only /\ Selected # Nobody
  /\ target' = Selected /\ jump' = "last"
  /\ requests' = requests \o <<About("activate", Selected, TRUE), Msg("sync")>>
  /\ UNCHANGED <<list_only, seat, manager, windows, spawned, events, compositorVars>>

SpawnCommand ==
  /\ Choosing /\ ~list_only /\ Selected = Nobody
  /\ spawned' = TRUE /\ jump' = "exit"
  /\ UNCHANGED <<list_only, seat, manager, windows, target, requests, events, compositorVars>>

-----------------------------------------------------------------------------
(* The compositor                                                          *)

Announce(w, m, a) == <<About("toplevel", w, TRUE), About("title", w, m), About("state", w, a)>>

Offer == (IF "seat" \in globals THEN <<Msg("seat")>> ELSE <<>>)
         \o (IF "manager" \in globals THEN <<Msg("manager")>> ELSE <<>>)

\* An event about each open window, of those in S that it is so
Each(t, S) == [i \in 1 .. Cardinality(open) |-> About(t, SetToSeq(open)[i], SetToSeq(open)[i] \in S)]

\* After a bind all windows, then what they are
AnnounceAll == Each("toplevel", open) \o Each("title", matching) \o Each("state", focused)

ServeRequest ==
  LET r == Head(requests)
  IN  /\ requests # <<>> /\ requests' = Tail(requests)
      /\ \/ r.type = "registry" /\ events' = events \o Offer /\ UNCHANGED <<told, focused>>
         \/ r.type = "sync" /\ events' = Append(events, Msg("done")) /\ UNCHANGED <<told, focused>>
         \/ /\ r.type = "bind" /\ told' = TRUE /\ UNCHANGED focused
            /\ events' = events \o AnnounceAll
         \/ /\ r.type = "activate" /\ UNCHANGED told
            /\ focused' = (IF r.window \in open THEN {r.window} ELSE focused)
            /\ events' = events \o Each("state", focused')
      /\ UNCHANGED <<jump, clientVars, globals, open, matching, changes, steady>>

Tell(es) == events' = IF told THEN events \o es ELSE events

\* The user and the other clients, while the program runs
WindowsChange ==
  /\ jump \in {"first", "second", "choose"} /\ changes < MaxChanges /\ changes' = changes + 1
  /\ \E w \in Windows :
       \/ /\ w \notin open /\ open' = open \cup {w} /\ UNCHANGED <<focused, steady>>
          /\ matching' \in {matching, matching \cup {w}}
          /\ Tell(Announce(w, w \in matching', FALSE))
       \/ /\ w \in open /\ open' = open \ {w} /\ focused' = focused \ {w}
          /\ matching' = matching \ {w} /\ steady' = steady \ {w}
          /\ Tell(<<About("closed", w, TRUE)>>)
       \/ /\ w \in open /\ UNCHANGED <<open, focused>>
          /\ matching' = (IF w \in matching THEN matching \ {w} ELSE matching \cup {w})
          /\ steady' = steady \cap matching'
          /\ Tell(<<About("title", w, w \in matching')>>)
       \/ /\ w \in open \ focused /\ focused' = {w} /\ UNCHANGED <<open, matching, steady>>
          /\ Tell(Each("state", {w}))
  /\ UNCHANGED <<jump, clientVars, requests, globals, told>>

JumpNext ==
  \/ Connect \/ RoundtripDone \/ Dispatch \/ ConnectionLost \/ MissingProtocols \/ ListWindows
  \/ Activate \/ SpawnCommand \/ ServeRequest \/ WindowsChange

JumpSpec == JumpInit /\ [][JumpNext]_jumpVars

-----------------------------------------------------------------------------
(* Properties.                                                             *)

\* The command runs only if no window was open and matching ever since the
\* program started, whatever opened, closed or was renamed meanwhile; a window is
\* asked for only as the last news of it matched; and one run does not do both.
\* While the active window matches no other is asked for: what happens to it
\* then is OnlyInactiveActivated's question.
JumpsIfItCan ==
  [][/\ spawned' /\ ~spawned => steady = {} /\ target = Nobody
     /\ target' # target =>
          \E i \in DOMAIN windows :
            /\ windows[i].window = target' /\ windows[i].matches /\ ~spawned'
            /\ \A j \in DOMAIN windows : windows[j].matches /\ windows[j].activated => windows[i].activated
    ]_jumpVars

\* README.md:42 of jump-or-exec: a matching window is activated if it is "not
\* currently active; otherwise, it spawns the specified command".  select_window
\* returns the active one first of all.
OnlyInactiveActivated ==
  [][target' # target => \E i \in DOMAIN windows : windows[i].window = target' /\ ~windows[i].activated
    ]_jumpVars

=============================================================================
