------------------------------- MODULE ImChat -------------------------------
(***************************************************************************)
(* im-wl-protocol: the chat server (server.c, one thread, one request at a *)
(* time) and its clients (client.c), joined by the two FIFO directions of  *)
(* a Wayland socket each.                                                  *)
(*                                                                         *)
(* log and seen are history variables: the broadcasts in the order the     *)
(* server made them, and the last broadcast each client printed.           *)
(***************************************************************************)
EXTENDS Naturals, SequencesExt

CONSTANTS
  Client,
  Nick,         (* nicknames the server takes                              *)
  BadNick,      (* a nickname that is empty or too long                    *)
  NoNick,       (* nickname[0] = '\0'                                      *)
  Content,
  MaxReqs,      (* bound: a client's requests and answers under way        *)
  MaxLog        (* bound: broadcasts of a behaviour                        *)

ASSUME NickAssumption == BadNick \notin Nick /\ NoNick \notin Nick \cup {BadNick}
ASSUME BoundAssumption == MaxReqs \in Nat /\ MaxLog \in Nat

VARIABLES
  conn,         (* client.c: "out", "open", or "leaving" after the loop    *)
  has,          (* app.has_nickname                                        *)
  reqs, evs,    (* the socket: requests and events under way               *)
  clients,      (* server.clients                                          *)
  nick,         (* im_client.nickname                                      *)
  log, seen

vars == <<conn, has, reqs, evs, clients, nick, log, seen>>

Joined(n) == [type |-> "joined", nick |-> n]
Left(n)   == [type |-> "left", nick |-> n]
Says(n, m) == [type |-> "message", nick |-> n, content |-> m]
Accepted(n) == [type |-> "accepted", nick |-> n]
Rejected == [type |-> "rejected"]

Public == {Joined(n) : n \in Nick} \cup {Left(n) : n \in Nick}
          \cup {Says(n, m) : n \in Nick, m \in Content}
Event == Public \cup {Accepted(n) : n \in Nick} \cup {Rejected}
Request == {[type |-> "bind"], [type |-> "destroy"]}
           \cup {[type |-> "nick", nick |-> n] : n \in Nick \cup {BadNick}}
           \cup {[type |-> "say", content |-> m] : m \in Content}

TypeOK ==
  /\ conn \in [Client -> {"out", "open", "leaving"}] /\ has \in [Client -> BOOLEAN]
  /\ reqs \in [Client -> Seq(Request)] /\ evs \in [Client -> Seq(Event)]
  /\ clients \in SUBSET Client /\ nick \in [Client -> Nick \cup {NoNick}]
  /\ log \in Seq(Public) /\ seen \in [Client -> Public \cup {<<>>}]

Init ==
  /\ conn = [c \in Client |-> "out"] /\ has = [c \in Client |-> FALSE]
  /\ reqs = [c \in Client |-> <<>>] /\ evs = [c \in Client |-> <<>>]
  /\ clients = {} /\ nick = [c \in Client |-> NoNick]
  /\ log = <<>> /\ seen = [c \in Client |-> <<>>]

-----------------------------------------------------------------------------
(* client.c                                                                 *)

Send(c, r) == reqs' = [reqs EXCEPT ![c] = Append(@, r)]

UnderWay(c) == Len(reqs[c]) + Len(SelectSeq(evs[c], LAMBDA e : e \notin Public))

\* connect, roundtrip, and the bind of registry_global
Connect(c) ==
  /\ conn[c] = "out" /\ c \notin clients /\ reqs[c] = <<>>
  /\ conn' = [conn EXCEPT ![c] = "open"]
  /\ reqs' = [reqs EXCEPT ![c] = <<[type |-> "bind"]>>]
  /\ UNCHANGED <<has, evs, clients, nick, log, seen>>

\* process_input: "/nick <name>"
InputNick(c, n) ==
  /\ conn[c] = "open" /\ UnderWay(c) < MaxReqs
  /\ Send(c, [type |-> "nick", nick |-> n])
  /\ UNCHANGED <<conn, has, evs, clients, nick, log, seen>>

\* process_input: a line of text, sent only once a nickname was accepted
InputText(c, m) ==
  /\ conn[c] = "open" /\ UnderWay(c) < MaxReqs /\ has[c]
  /\ Send(c, [type |-> "say", content |-> m])
  /\ UNCHANGED <<conn, has, evs, clients, nick, log, seen>>

\* "/quit" or end of input: destroy the binding and wait for the roundtrip
Quit(c) ==
  /\ conn[c] = "open"
  /\ conn' = [conn EXCEPT ![c] = "leaving"]
  /\ Send(c, [type |-> "destroy"])
  /\ UNCHANGED <<has, evs, clients, nick, log, seen>>

\* Dispatch one event.  Those for a destroyed binding are dropped unseen.
Dispatch(c) ==
  /\ conn[c] = "open" /\ evs[c] # <<>>
  /\ LET e == Head(evs[c]) IN
       /\ has' = [has EXCEPT ![c] = @ \/ e.type = "accepted"]
       /\ seen' = IF e \in Public THEN [seen EXCEPT ![c] = e] ELSE seen
  /\ evs' = [evs EXCEPT ![c] = Tail(@)]
  /\ UNCHANGED <<conn, reqs, clients, nick, log>>

\* The roundtrip is answered: everything sent was handled.
Disconnect(c) ==
  /\ conn[c] = "leaving" /\ reqs[c] = <<>>
  /\ conn' = [conn EXCEPT ![c] = "out"]
  /\ has' = [has EXCEPT ![c] = FALSE]
  /\ UNCHANGED <<reqs, evs, clients, nick, log, seen>>

-----------------------------------------------------------------------------
(* server.c                                                                 *)

\* Broadcast `first` to every client of the list `to`, answer c alone with
\* `own`, then broadcast `second`.
Broadcast(to, c, first, own, second) ==
  /\ Len(log) + Len(first) + Len(second) <= MaxLog
  /\ log' = log \o first \o second
  /\ evs' = [d \in Client |-> evs[d] \o (IF d \in to THEN first ELSE <<>>)
                                     \o (IF d = c THEN own ELSE <<>>)
                                     \o (IF d \in to THEN second ELSE <<>>)]

NextRequest(c, type) == reqs[c] # <<>> /\ Head(reqs[c]).type = type
Served(c) == reqs' = [reqs EXCEPT ![c] = Tail(@)]

ChatBind(c) ==
  /\ NextRequest(c, "bind") /\ Served(c)
  /\ clients' = clients \cup {c}
  /\ UNCHANGED <<conn, has, evs, nick, log, seen>>

Farewell(c) == IF nick[c] = NoNick THEN <<>> ELSE <<Left(nick[c])>>

\* Mutant: a name is not checked against the others.
SetNicknameUnchecked(c, n) ==
  /\ nick' = [nick EXCEPT ![c] = n]
  /\ Broadcast(clients, c, Farewell(c), <<Accepted(n)>>, <<Joined(n)>>)

TakeNickname(c, n) ==
  /\ n # BadNick
  /\ \A d \in clients \ {c} : nick[d] # n
  /\ nick' = [nick EXCEPT ![c] = n]
  /\ Broadcast(clients, c, Farewell(c), <<Accepted(n)>>, <<Joined(n)>>)

\* Mutant: a refused name is answered as an accepted one.
RefuseAsAccepted(c, n) ==
  /\ n = BadNick \/ \E d \in clients \ {c} : nick[d] = n
  /\ evs' = [evs EXCEPT ![c] = Append(@, Accepted(n))]
  /\ UNCHANGED <<nick, log>>

RefuseNickname(c, n) ==
  /\ n = BadNick \/ \E d \in clients \ {c} : nick[d] = n
  /\ evs' = [evs EXCEPT ![c] = Append(@, Rejected)]
  /\ UNCHANGED <<nick, log>>

HandleSetNickname(c) ==
  /\ NextRequest(c, "nick") /\ Served(c)
  /\ LET n == Head(reqs[c]).nick IN
       RefuseNickname(c, n) \/ TakeNickname(c, n)
  /\ UNCHANGED <<conn, has, clients, seen>>

\* Mutant: the sender does not get its own message.
SayToOthers(c, m) == Broadcast(clients \ {c}, c, <<>>, <<>>, <<Says(nick[c], m)>>)

SayToAll(c, m) == Broadcast(clients, c, <<>>, <<>>, <<Says(nick[c], m)>>)

HandleSendMessage(c) ==
  /\ NextRequest(c, "say") /\ Served(c)
  /\ IF nick[c] = NoNick THEN UNCHANGED <<evs, log>> ELSE SayToAll(c, Head(reqs[c]).content)
  /\ UNCHANGED <<conn, has, clients, nick, seen>>

\* client_resource_destroy: off the list, then announced to those on it.
ClientResourceDestroy(c) ==
  /\ clients' = clients \ {c}
  /\ Len(log) + Len(Farewell(c)) <= MaxLog
  /\ log' = log \o Farewell(c)
  /\ evs' = [d \in Client |-> IF d = c THEN <<>>
                              ELSE IF d \in clients THEN evs[d] \o Farewell(c) ELSE evs[d]]
  /\ nick' = [nick EXCEPT ![c] = NoNick]
  /\ seen' = [seen EXCEPT ![c] = <<>>]

HandleDestroy(c) ==
  /\ NextRequest(c, "destroy") /\ Served(c)
  /\ ClientResourceDestroy(c)
  /\ UNCHANGED <<conn, has>>

-----------------------------------------------------------------------------
(* The connection.                                                          *)

\* The client process dies, in or out of its loop.
Crash(c) ==
  /\ conn[c] # "out"
  /\ conn' = [conn EXCEPT ![c] = "out"]
  /\ has' = [has EXCEPT ![c] = FALSE]
  /\ UNCHANGED <<reqs, evs, clients, nick, log, seen>>

\* The server sees the hangup: what it has not read of the client is lost.
Hangup(c) ==
  /\ conn[c] = "out"
  /\ \/ c \in clients /\ ClientResourceDestroy(c)
     \/ c \notin clients /\ reqs[c] # <<>> /\ UNCHANGED <<evs, clients, nick, log, seen>>
  /\ reqs' = [reqs EXCEPT ![c] = <<>>]
  /\ UNCHANGED <<conn, has>>

Server(c) == \/ ChatBind(c) \/ HandleSetNickname(c) \/ HandleSendMessage(c)
             \/ HandleDestroy(c) \/ Hangup(c)

User(c) == \/ Connect(c) \/ Quit(c) \/ Crash(c) \/ Disconnect(c)
           \/ \E n \in Nick \cup {BadNick} : InputNick(c, n)
           \/ \E m \in Content : InputText(c, m)

Next == \E c \in Client : Server(c) \/ User(c) \/ Dispatch(c)

Spec == Init /\ [][Next]_vars

-----------------------------------------------------------------------------
(* Properties.                                                              *)

\* find_client_by_nickname with its existing != client test keeps the names
\* of the connected clients distinct, whatever is requested in any order.
NicknamesUnique ==
  \A c, d \in clients : c # d /\ nick[c] # NoNick => nick[c] # nick[d]

\* The client's own has_nickname check agrees with the server: no text the
\* client lets through is silently ignored as coming from an unnamed client.
NoTextIgnored ==
  \A c \in Client : conn[c] = "open" /\ NextRequest(c, "say") => nick[c] # NoNick

\* Where a member stands in the log, by what is still on its way to it.
Unread(c) == Cardinality({i \in DOMAIN evs[c] : evs[c][i] \in Public})
Position == [c \in Client |-> IF c \in clients THEN Len(log) - Unread(c) ELSE 0]

\* The server and its sockets are the room of ChatRoom: every member sees the
\* one log in order and whole, from the moment it bound.
Room == INSTANCE ChatRoom WITH members <- clients, pos <- Position
ImplementsRoom == Room!RoomSpec
=============================================================================
