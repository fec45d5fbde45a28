------------------------------ MODULE ChatRoom ------------------------------
(***************************************************************************)
(* What im_chat_manager_v1 promises: a room of members with distinct names *)
(* and one public log.  Every member reads the log in order, without gaps, *)
(* from the moment it entered; what it reads next is the next entry.       *)
(***************************************************************************)
EXTENDS Naturals, Sequences

CONSTANTS Client, Nick, NoNick, Content

VARIABLES
  members,   (* clients in the room                                        *)
  nick,      (* their names, NoNick before the first                       *)
  log,       (* public events, oldest first                                *)
  pos,       (* entries of the log each member is past                     *)
  seen       (* the last entry each client read                            *)

room == <<members, nick, log, pos, seen>>

Joined(n) == [type |-> "joined", nick |-> n]
Left(n)   == [type |-> "left", nick |-> n]
Says(n, m) == [type |-> "message", nick |-> n, content |-> m]

RoomInit ==
  /\ members = {} /\ nick = [c \in Client |-> NoNick]
  /\ log = <<>> /\ pos = [c \in Client |-> 0] /\ seen = [c \in Client |-> <<>>]

Enter(c) ==
  /\ c \notin members
  /\ members' = members \cup {c}
  /\ pos' = [pos EXCEPT ![c] = Len(log)]
  /\ UNCHANGED <<nick, log, seen>>

\* the entry a named member leaves behind when its name is given up
Farewell(c) == IF nick[c] = NoNick THEN <<>> ELSE <<Left(nick[c])>>

TakeName(c, n) ==
  /\ c \in members
  /\ \A d \in members \ {c} : nick[d] # n
  /\ nick' = [nick EXCEPT ![c] = n]
  /\ log' = log \o Farewell(c) \o <<Joined(n)>>
  /\ UNCHANGED <<members, pos, seen>>

Say(c, m) ==
  /\ c \in members /\ nick[c] # NoNick
  /\ log' = Append(log, Says(nick[c], m))
  /\ UNCHANGED <<members, nick, pos, seen>>

ReadNext(c) ==
  /\ c \in members /\ pos[c] < Len(log)
  /\ pos' = [pos EXCEPT ![c] = @ + 1]
  /\ seen' = [seen EXCEPT ![c] = log[pos[c] + 1]]
  /\ UNCHANGED <<members, nick, log>>

\* A member leaves, whatever it has not read.
Leave(c) ==
  /\ c \in members
  /\ members' = members \ {c}
  /\ nick' = [nick EXCEPT ![c] = NoNick]
  /\ log' = log \o Farewell(c)
  /\ pos' = [pos EXCEPT ![c] = 0] /\ seen' = [seen EXCEPT ![c] = <<>>]

RoomNext ==
  \E c \in Client :
    \/ Enter(c) \/ ReadNext(c) \/ Leave(c)
    \/ \E n \in Nick : TakeName(c, n)
    \/ \E m \in Content : Say(c, m)

RoomSpec == RoomInit /\ [][RoomNext]_room
=============================================================================
