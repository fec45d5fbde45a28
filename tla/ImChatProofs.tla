---------------------------- MODULE ImChatProofs ----------------------------
(***************************************************************************)
(* Proofs about ImChat, for any number of clients, names and texts: names  *)
(* are unique, no text is ignored, and the server with its sockets         *)
(* implements ChatRoom.                                                    *)
(***************************************************************************)
EXTENDS ImChat, SequenceTheorems, FiniteSetTheorems, TLAPS

-----------------------------------------------------------------------------
(* Messages.                                                                *)

\* What a request carries follows from its type.
LEMMA RequestFields ==
  ASSUME NEW r \in Request
  PROVE  /\ r.type \in {"bind", "destroy", "nick", "say"}
         /\ r.type = "nick" => r.nick \in Nick \cup {BadNick}
         /\ r.type = "say" => r.content \in Content
BY DEF Request

\* Answers to one client are no broadcasts, and only Accepted has its type.
LEMMA EventKinds ==
  /\ Public \subseteq Event
  /\ Rejected \in Event /\ Rejected \notin Public /\ Rejected.type # "accepted"
  /\ \A n \in Nick : /\ Joined(n) \in Public /\ Left(n) \in Public
                     /\ Accepted(n) \in Event /\ Accepted(n) \notin Public
                     /\ \A m \in Content : Says(n, m) \in Public
  /\ \A e \in Public : e.type # "accepted"
<1>1. \A e \in Public : e.type \in {"joined", "left", "message"}
  BY DEF Public, Joined, Left, Says
<1>2. \A n \in Nick : Accepted(n).type = "accepted" BY DEF Accepted
<1>3. Rejected.type = "rejected" BY DEF Rejected
<1>4. Public \subseteq Event /\ Rejected \in Event BY DEF Event
<1>5. \A n \in Nick : Joined(n) \in Public /\ Left(n) \in Public /\ Accepted(n) \in Event
  BY DEF Public, Event
<1>6. \A n \in Nick, m \in Content : Says(n, m) \in Public BY DEF Public
<1> QED BY <1>1, <1>2, <1>3, <1>4, <1>5, <1>6

Silent(s) == \A i \in 1..Len(s) : s[i].type # "accepted"

\* A sequence without an acceptance stays so when it is read, and when
\* another such sequence is put behind it.
LEMMA SilentParts ==
  ASSUME NEW s \in Seq(Event), NEW t \in Seq(Event), Silent(s)
  PROVE  /\ s # <<>> => Silent(Tail(s)) /\ Head(s).type # "accepted"
         /\ Silent(t) => Silent(s \o t)
<1>1. ASSUME s # <<>> PROVE Silent(Tail(s)) /\ Head(s).type # "accepted"
  <2>1. Len(s) \in Nat \ {0} /\ Len(Tail(s)) = Len(s) - 1
    BY <1>1, EmptySeq, HeadTailProperties
  <2>2. \A i \in 1..Len(Tail(s)) : Tail(s)[i] = s[i+1] BY <1>1, HeadTailProperties
  <2>3. Head(s) = s[1] BY <1>1
  <2> QED BY <2>1, <2>2, <2>3 DEF Silent
<1>2. ASSUME Silent(t) PROVE Silent(s \o t)
  <2>1. Len(s) \in Nat /\ Len(t) \in Nat BY LenProperties
  <2>2. Len(s \o t) = Len(s) + Len(t)
        /\ \A i \in 1..Len(s) + Len(t) : (s \o t)[i] = IF i <= Len(s) THEN s[i] ELSE t[i - Len(s)]
    BY ConcatProperties
  <2> QED BY <1>2, <2>1, <2>2 DEF Silent
<1> QED BY <1>1, <1>2

\* What is broadcast is no acceptance.
LEMMA PublicIsSilent ==
  ASSUME NEW s \in Seq(Public)
  PROVE  s \in Seq(Event) /\ Silent(s)
<1>1. s \in Seq(Event) BY EventKinds, SeqMonotonic
<1>2. \A i \in 1..Len(s) : s[i] \in Public BY ElementOfSeq
<1> QED BY <1>1, <1>2, EventKinds DEF Silent

\* Reading the head of a client's requests.
LEMMA HeadRequest ==
  ASSUME NEW s \in Seq(Request), s # <<>>
  PROVE  /\ Len(s) \in Nat \ {0}
         /\ Head(s) = s[1] /\ Head(s) \in Request
         /\ Tail(s) \in Seq(Request) /\ Len(Tail(s)) = Len(s) - 1
         /\ \A i \in 1..Len(Tail(s)) : Tail(s)[i] = s[i + 1]
BY EmptySeq, HeadTailProperties

\* Putting one behind them.
LEMMA OneMoreRequest ==
  ASSUME NEW s \in Seq(Request), NEW r \in Request
  PROVE  /\ Len(s) \in Nat
         /\ Append(s, r) \in Seq(Request) /\ Append(s, r) # <<>>
         /\ Len(Append(s, r)) = Len(s) + 1
         /\ \A i \in 1..Len(s) : Append(s, r)[i] = s[i]
         /\ Append(s, r)[Len(s) + 1] = r
BY AppendProperties, LenProperties

-----------------------------------------------------------------------------
(* Types.                                                                   *)

\* What a broadcast does to one socket, and to the log.
LEMMA BroadcastIsTyped ==
  ASSUME TypeOK, NEW to \in SUBSET Client, NEW c \in Client,
         NEW first \in Seq(Public), NEW own \in Seq(Event), NEW second \in Seq(Public),
         Broadcast(to, c, first, own, second)
  PROVE  /\ log' \in Seq(Public) /\ log' = log \o first \o second
         /\ evs' \in [Client -> Seq(Event)]
         /\ \A d \in Client : d \notin to \cup {c} => evs'[d] = evs[d]
         /\ \A d \in Client : Silent(evs[d]) /\ (d = c => Silent(own)) => Silent(evs'[d])
<1> DEFINE f(d) == IF d \in to THEN first ELSE <<>>
           o(d) == IF d = c THEN own ELSE <<>>
           g(d) == IF d \in to THEN second ELSE <<>>
<1>1. first \in Seq(Event) /\ second \in Seq(Event) /\ Silent(first) /\ Silent(second)
  BY PublicIsSilent
<1>2. <<>> \in Seq(Event) /\ Silent(<<>>) BY EmptySeq DEF Silent
<1>3. \A d \in Client : f(d) \in Seq(Event) /\ o(d) \in Seq(Event) /\ g(d) \in Seq(Event)
  BY <1>1, <1>2
<1>4. \A d \in Client : Silent(f(d)) /\ Silent(g(d)) /\ ((d = c => Silent(own)) => Silent(o(d)))
  BY <1>1, <1>2
<1>5. evs' = [d \in Client |-> evs[d] \o f(d) \o o(d) \o g(d)] BY DEF Broadcast
<1>6. \A d \in Client : evs[d] \in Seq(Event) BY DEF TypeOK
<1>n. \A d \in Client : d \notin to \cup {c} => f(d) = <<>> /\ o(d) = <<>> /\ g(d) = <<>>
  OBVIOUS
<1> HIDE DEF f, o, g
<1>7. ASSUME NEW d \in Client
      PROVE  /\ evs[d] \o f(d) \o o(d) \o g(d) \in Seq(Event)
             /\ Silent(evs[d]) /\ Silent(f(d)) /\ Silent(o(d)) /\ Silent(g(d))
                => Silent(evs[d] \o f(d) \o o(d) \o g(d))
             /\ f(d) = <<>> /\ o(d) = <<>> /\ g(d) = <<>>
                => evs[d] \o f(d) \o o(d) \o g(d) = evs[d]
  <2>1. evs[d] \in Seq(Event) /\ f(d) \in Seq(Event) /\ o(d) \in Seq(Event) /\ g(d) \in Seq(Event)
    BY <1>3, <1>6
  <2>2. /\ evs[d] \o f(d) \in Seq(Event)
        /\ Silent(evs[d]) /\ Silent(f(d)) => Silent(evs[d] \o f(d))
        /\ f(d) = <<>> => evs[d] \o f(d) = evs[d]
    BY <2>1, ConcatProperties, SilentParts, ConcatEmptySeq
  <2>3. /\ evs[d] \o f(d) \o o(d) \in Seq(Event)
        /\ Silent(evs[d] \o f(d)) /\ Silent(o(d)) => Silent(evs[d] \o f(d) \o o(d))
        /\ o(d) = <<>> => evs[d] \o f(d) \o o(d) = evs[d] \o f(d)
    BY <2>1, <2>2, ConcatProperties, SilentParts, ConcatEmptySeq
  <2>4. /\ evs[d] \o f(d) \o o(d) \o g(d) \in Seq(Event)
        /\ Silent(evs[d] \o f(d) \o o(d)) /\ Silent(g(d)) => Silent(evs[d] \o f(d) \o o(d) \o g(d))
        /\ g(d) = <<>> => evs[d] \o f(d) \o o(d) \o g(d) = evs[d] \o f(d) \o o(d)
    BY <2>1, <2>3, ConcatProperties, SilentParts, ConcatEmptySeq
  <2> QED BY <2>2, <2>3, <2>4
<1>8. log' = log \o first \o second /\ log \in Seq(Public) BY DEF Broadcast, TypeOK
<1>9. log' \in Seq(Public) BY <1>8, ConcatProperties
<1>10. evs' \in [Client -> Seq(Event)] BY <1>5, <1>7
<1>11. \A d \in Client : Silent(evs[d]) /\ (d = c => Silent(own)) => Silent(evs'[d])
  BY <1>4, <1>5, <1>7
<1>12. \A d \in Client : d \notin to \cup {c} => evs'[d] = evs[d] BY <1>5, <1>7, <1>n
<1> QED BY <1>8, <1>9, <1>10, <1>11, <1>12

\* A broadcast of one event, or of none.
LEMMA OneElement ==
  ASSUME NEW S, NEW e \in S
  PROVE  <<e>> \in Seq(S) /\ Len(<<e>>) = 1 /\ <<e>>[1] = e
OBVIOUS

LEMMA FarewellIsPublic ==
  ASSUME TypeOK, NEW c \in Client
  PROVE  Farewell(c) \in Seq(Public)
<1>1. nick[c] \in Nick \cup {NoNick} BY DEF TypeOK
<1>2. ASSUME nick[c] # NoNick PROVE <<Left(nick[c])>> \in Seq(Public)
  BY <1>1, <1>2, EventKinds, OneElement
<1> QED BY <1>2, EmptySeq DEF Farewell

-----------------------------------------------------------------------------
(* The order of a client's requests, and what its name tells.               *)

\* bind comes first and only to those outside, destroy last and only from
\* those who left; texts under way are from clients with a name.
Ordered(c) ==
  /\ \A i \in 1..Len(reqs[c]) :
       /\ reqs[c][i].type = "bind" <=> c \notin clients /\ i = 1
       /\ reqs[c][i].type = "destroy" => i = Len(reqs[c]) /\ conn[c] # "open"
       /\ reqs[c][i].type = "say" /\ conn[c] = "open" => nick[c] # NoNick
  /\ conn[c] = "open" /\ c \notin clients => reqs[c] # <<>>
  /\ c \notin clients => nick[c] = NoNick /\ evs[c] = <<>>

\* A client that holds itself named, or is about to, has a name.
Named(c) ==
  /\ nick[c] = NoNick => Silent(evs[c])
  /\ conn[c] = "open" /\ has[c] => nick[c] # NoNick
  /\ conn[c] = "out" => ~has[c]

Orderly == \A c \in Client : Ordered(c) /\ Named(c)

Same(d) ==
  /\ reqs'[d] = reqs[d] /\ conn'[d] = conn[d] /\ has'[d] = has[d]
  /\ nick'[d] = nick[d] /\ (d \in clients' <=> d \in clients)

\* Clients an action does not serve are at most told something public.
LEMMA OthersKeep ==
  ASSUME NEW d \in Client, Ordered(d), Named(d), Same(d),
         evs'[d] = evs[d] \/ (d \in clients /\ (Silent(evs[d]) => Silent(evs'[d])))
  PROVE  Ordered(d)' /\ Named(d)'
<1>1. Ordered(d)' BY DEF Ordered, Same
<1>2. Named(d)'
  <2>1. (evs[d])' = evs'[d] /\ (nick[d])' = nick[d] /\ (conn[d])' = conn[d] /\ (has[d])' = has[d]
    BY DEF Same
  <2>2. nick[d] = NoNick => Silent(evs'[d]) BY DEF Named
  <2> QED BY <2>1, <2>2, Zenon DEF Named
<1> QED BY <1>1, <1>2

LEMMA InitIsOrderly == Init => TypeOK /\ Orderly
<1> SUFFICES ASSUME Init PROVE TypeOK /\ Orderly OBVIOUS
<1>1. TypeOK BY EmptySeq DEF Init, TypeOK
<1>2. ASSUME NEW c \in Client PROVE Ordered(c) /\ Named(c)
  <2>1. Silent(<<>>) BY DEF Silent
  <2> QED BY <2>1 DEF Init, Ordered, Named
<1> QED BY <1>1, <1>2 DEF Orderly

\* A request put behind the others of a client in its loop.
LEMMA SendKeepsOrder ==
  ASSUME NEW c \in Client, NEW r \in Request, Ordered(c), reqs[c] \in Seq(Request),
         conn[c] = "open", conn'[c] = "open" \/ conn'[c] = "leaving",
         UNCHANGED <<evs, clients, nick>>,
         reqs'[c] = Append(reqs[c], r), r.type # "bind",
         r.type = "destroy" => conn'[c] = "leaving",
         r.type = "say" => nick[c] # NoNick
  PROVE  Ordered(c)'
<1> DEFINE s == reqs[c]
           t == reqs'[c]
<1>1. /\ Len(s) \in Nat /\ Len(t) = Len(s) + 1 /\ t # <<>>
      /\ \A i \in 1..Len(s) : t[i] = s[i]
      /\ t[Len(s) + 1] = r
  BY OneMoreRequest
<1>2. c \notin clients => Len(s) # 0 BY DEF Ordered
<1>3. \A i \in 1..Len(s) : s[i].type # "destroy"  BY DEF Ordered
<1>4. \A i \in 1..Len(s) : s[i].type = "bind" <=> c \notin clients /\ i = 1  BY DEF Ordered
<1>5. \A i \in 1..Len(s) : s[i].type = "say" => nick[c] # NoNick BY DEF Ordered
<1>6. c \notin clients => nick[c] = NoNick /\ evs[c] = <<>> BY DEF Ordered
<1> HIDE DEF s, t
<1>7. ASSUME NEW i \in 1..Len(t)
      PROVE  /\ t[i].type = "bind" <=> c \notin clients /\ i = 1
             /\ t[i].type = "destroy" => i = Len(t) /\ conn'[c] # "open"
             /\ t[i].type = "say" => nick[c] # NoNick
  <2>1. CASE i \in 1..Len(s) BY <1>1, <1>3, <1>4, <1>5, <2>1
  <2>2. CASE i = Len(s) + 1
    <3>1. t[i] = r /\ i = Len(t) BY <1>1, <2>2
    <3>2. c \notin clients => i # 1 BY <1>1, <1>2, <2>2
    <3> QED BY <3>1, <3>2
  <2> QED BY <1>1, <2>1, <2>2
<1>8. (clients' = clients /\ nick'[c] = nick[c] /\ evs'[c] = evs[c]) OBVIOUS
<1>9. t = reqs'[c] BY DEF t
<1> QED BY <1>1, <1>6, <1>7, <1>8, <1>9 DEF Ordered

-----------------------------------------------------------------------------
(* The client's steps.                                                      *)

LEMMA UserSteps ==
  ASSUME TypeOK, Orderly, NEW c \in Client, User(c)
  PROVE  TypeOK' /\ Orderly'
<1>t. /\ conn \in [Client -> {"out", "open", "leaving"}] /\ has \in [Client -> BOOLEAN]
      /\ reqs \in [Client -> Seq(Request)] /\ evs \in [Client -> Seq(Event)]
      /\ clients \in SUBSET Client /\ nick \in [Client -> Nick \cup {NoNick}]
      /\ log \in Seq(Public) /\ seen \in [Client -> Public \cup {<<>>}]
  BY DEF TypeOK
<1>o. Ordered(c) /\ Named(c) BY DEF Orderly
<1>r. reqs[c] \in Seq(Request) BY <1>t
<1>b. [type |-> "bind"] \in Request /\ [type |-> "destroy"] \in Request
      /\ \A n \in Nick \cup {BadNick} : [type |-> "nick", nick |-> n] \in Request
      /\ \A m \in Content : [type |-> "say", content |-> m] \in Request
  BY DEF Request
<1> DEFINE UserFrame ==
      /\ UNCHANGED <<evs, clients, nick, log, seen>>
      /\ conn' \in [Client -> {"out", "open", "leaving"}] /\ has' \in [Client -> BOOLEAN]
      /\ reqs' \in [Client -> Seq(Request)]
      /\ \A d \in Client \ {c} : reqs'[d] = reqs[d] /\ conn'[d] = conn[d] /\ has'[d] = has[d]
<1>w. UserFrame
  <2>1. CASE Connect(c)
    <3>1. <<[type |-> "bind"]>> \in Seq(Request) BY <1>b, OneElement
    <3> QED BY <1>t, <2>1, <3>1 DEF Connect
  <2>2. CASE Quit(c)
    <3>1. Append(reqs[c], [type |-> "destroy"]) \in Seq(Request) BY <1>b, <1>r, AppendProperties
    <3> QED BY <1>t, <2>2, <3>1 DEF Quit, Send
  <2>3. CASE Crash(c) BY <1>t, <2>3 DEF Crash
  <2>4. CASE Disconnect(c) BY <1>t, <2>4 DEF Disconnect
  <2>5. ASSUME NEW n \in Nick \cup {BadNick}, InputNick(c, n) PROVE UserFrame
    <3>1. Append(reqs[c], [type |-> "nick", nick |-> n]) \in Seq(Request)
      BY <1>b, <1>r, AppendProperties
    <3> QED BY <1>t, <2>5, <3>1 DEF InputNick, Send
  <2>6. ASSUME NEW m \in Content, InputText(c, m) PROVE UserFrame
    <3>1. Append(reqs[c], [type |-> "say", content |-> m]) \in Seq(Request)
      BY <1>b, <1>r, AppendProperties
    <3> QED BY <1>t, <2>6, <3>1 DEF InputText, Send
  <2> QED BY <2>1, <2>2, <2>3, <2>4, <2>5, <2>6 DEF User
<1>1. TypeOK' BY <1>t, <1>w DEF TypeOK
<1>2. ASSUME NEW d \in Client, d # c PROVE Ordered(d)' /\ Named(d)'
  <2>1. Same(d) /\ evs'[d] = evs[d] BY <1>w, <1>2 DEF Same
  <2> QED BY <2>1, OthersKeep DEF Orderly
<1>3. Ordered(c)'
  <2>1. CASE Connect(c)
    <3>1. /\ Len(reqs'[c]) = 1 /\ reqs'[c][1].type = "bind" /\ reqs'[c] # <<>>
          /\ c \notin clients /\ conn'[c] = "open"
      BY <1>t, <2>1, OneElement, <1>b DEF Connect
    <3> QED BY <1>o, <1>w, <3>1 DEF Ordered
  <2>2. CASE Quit(c)
    <3>1. reqs'[c] = Append(reqs[c], [type |-> "destroy"]) /\ conn[c] = "open" /\ conn'[c] = "leaving"
      BY <1>t, <2>2 DEF Quit, Send
    <3>2. ASSUME NEW r \in Request, r.type = "destroy", reqs'[c] = Append(reqs[c], r)
          PROVE  Ordered(c)'
      BY <1>o, <1>r, <1>w, <3>1, <3>2, SendKeepsOrder
    <3>3. [type |-> "destroy"].type = "destroy" OBVIOUS
    <3> QED BY <1>b, <3>1, <3>2, <3>3, Zenon
  <2>3. CASE Crash(c)
    <3>1. reqs'[c] = reqs[c] /\ conn'[c] = "out" BY <1>t, <2>3 DEF Crash
    <3> QED BY <1>o, <1>w, <3>1 DEF Ordered
  <2>4. CASE Disconnect(c)
    <3>1. reqs'[c] = reqs[c] /\ conn'[c] = "out" BY <1>t, <2>4 DEF Disconnect
    <3> QED BY <1>o, <1>w, <3>1 DEF Ordered
  <2>5. ASSUME NEW n \in Nick \cup {BadNick}, InputNick(c, n) PROVE Ordered(c)'
    <3>1. reqs'[c] = Append(reqs[c], [type |-> "nick", nick |-> n])
          /\ conn[c] = "open" /\ conn'[c] = "open"
      BY <1>t, <2>5 DEF InputNick, Send
    <3>2. ASSUME NEW r \in Request, r.type = "nick", reqs'[c] = Append(reqs[c], r)
          PROVE  Ordered(c)'
      BY <1>o, <1>r, <1>w, <3>1, <3>2, SendKeepsOrder
    <3>3. [type |-> "nick", nick |-> n].type = "nick" OBVIOUS
    <3> QED BY <1>b, <3>1, <3>2, <3>3, Zenon
  <2>6. ASSUME NEW m \in Content, InputText(c, m) PROVE Ordered(c)'
    <3>1. reqs'[c] = Append(reqs[c], [type |-> "say", content |-> m])
          /\ conn[c] = "open" /\ conn'[c] = "open"
      BY <1>t, <2>6 DEF InputText, Send
    <3>2. nick[c] # NoNick
      <4>1. conn[c] = "open" /\ has[c] BY <2>6, Zenon DEF InputText
      <4> QED BY <1>o, <4>1, Zenon DEF Named
    <3>3. ASSUME NEW r \in Request, r.type = "say", reqs'[c] = Append(reqs[c], r)
          PROVE  Ordered(c)'
      BY <1>o, <1>r, <1>w, <3>1, <3>2, <3>3, SendKeepsOrder
    <3>4. [type |-> "say", content |-> m].type = "say" OBVIOUS
    <3> QED BY <1>b, <3>1, <3>3, <3>4, Zenon
  <2> QED BY <2>1, <2>2, <2>3, <2>4, <2>5, <2>6 DEF User
<1>4. Named(c)'
  <2>1. (nick[c] = NoNick => Silent(evs[c]))' BY <1>o, <1>w DEF Named
  <2>2. (conn[c] = "open" /\ has[c] => nick[c] # NoNick)' /\ (conn[c] = "out" => ~has[c])'
    <3>1. CASE Connect(c)
      <4>1. ~has[c] /\ has'[c] = has[c] BY <1>o, <3>1 DEF Connect, Named
      <4>2. conn'[c] = "open" BY <1>t, <3>1 DEF Connect
      <4> QED BY <4>1, <4>2
    <3>2. CASE Quit(c)
      <4>1. conn'[c] = "leaving" BY <1>t, <3>2 DEF Quit
      <4> QED BY <4>1
    <3>3. CASE Crash(c)
      <4>1. ~has'[c] BY <1>t, <3>3 DEF Crash
      <4> QED BY <4>1
    <3>4. CASE Disconnect(c)
      <4>1. ~has'[c] BY <1>t, <3>4 DEF Disconnect
      <4> QED BY <4>1
    <3>5. CASE UNCHANGED <<conn, has>>
      <4>1. conn[c] = "open" /\ has[c] => nick[c] # NoNick BY <1>o, Zenon DEF Named
      <4>2. conn[c] = "out" => ~has[c] BY <1>o, Zenon DEF Named
      <4> QED BY <1>w, <3>5, <4>1, <4>2, Zenon
    <3>6. Connect(c) \/ Quit(c) \/ Crash(c) \/ Disconnect(c) \/ UNCHANGED <<conn, has>>
      BY DEF User, InputNick, InputText
    <3> QED BY <3>1, <3>2, <3>3, <3>4, <3>5, <3>6
  <2> QED BY <2>1, <2>2 DEF Named
<1> QED BY <1>1, <1>2, <1>3, <1>4 DEF Orderly

-----------------------------------------------------------------------------
(* The server's steps.                                                      *)

\* The server takes the first request of a client.
LEMMA TakenInOrder ==
  ASSUME NEW c \in Client, Ordered(c), reqs[c] \in Seq(Request), reqs[c] # <<>>
  PROVE  /\ Head(reqs[c]).type = "bind" <=> c \notin clients
         /\ Head(reqs[c]).type = "destroy" => conn[c] # "open" /\ Tail(reqs[c]) = <<>>
         /\ \A i \in 1..Len(Tail(reqs[c])) :
              /\ Tail(reqs[c])[i].type # "bind"
              /\ Tail(reqs[c])[i].type = "destroy" => i = Len(Tail(reqs[c])) /\ conn[c] # "open"
              /\ Tail(reqs[c])[i].type = "say" /\ conn[c] = "open" => nick[c] # NoNick
<1> DEFINE s == reqs[c]
           t == Tail(reqs[c])
<1>1. /\ Len(s) \in Nat \ {0} /\ Head(s) = s[1]
      /\ t \in Seq(Request) /\ Len(t) = Len(s) - 1 /\ \A i \in 1..Len(t) : t[i] = s[i + 1]
  BY HeadRequest
<1>2. \A i \in 1..Len(s) :
        /\ s[i].type = "bind" <=> c \notin clients /\ i = 1
        /\ s[i].type = "destroy" => i = Len(s) /\ conn[c] # "open"
        /\ s[i].type = "say" /\ conn[c] = "open" => nick[c] # NoNick
  BY DEF Ordered
<1> HIDE DEF s, t
<1>3. 1 \in 1..Len(s) BY <1>1
<1>4. \A i \in 1..Len(t) : i + 1 \in 1..Len(s) /\ i + 1 # 1 /\ (i + 1 = Len(s) => i = Len(t))
  BY <1>1
<1>5. Head(s).type = "bind" <=> c \notin clients BY <1>1, <1>2, <1>3
<1>6. ASSUME Head(s).type = "destroy" PROVE conn[c] # "open" /\ t = <<>>
  <2>1. conn[c] # "open" /\ 1 = Len(s) BY <1>1, <1>2, <1>3, <1>6
  <2>2. ASSUME t # <<>> PROVE FALSE
    <3>1. Len(t) \in Nat \ {0} BY <1>1, <2>2, EmptySeq
    <3>2. Len(s) = Len(t) + 1 BY <1>1, <3>1
    <3> QED BY <2>1, <3>1, <3>2
  <2> QED BY <2>1, <2>2
<1>7. \A i \in 1..Len(t) :
        /\ t[i].type # "bind"
        /\ t[i].type = "destroy" => i = Len(t) /\ conn[c] # "open"
        /\ t[i].type = "say" /\ conn[c] = "open" => nick[c] # NoNick
  BY <1>1, <1>2, <1>4
<1> QED BY <1>5, <1>6, <1>7 DEF s, t

\* A request of a member, other than its last, is served.
LEMMA ServeKeepsOrder ==
  ASSUME NEW c \in Client, Ordered(c), Named(c), reqs[c] \in Seq(Request), reqs[c] # <<>>,
         Head(reqs[c]).type # "destroy",
         reqs'[c] = Tail(reqs[c]), UNCHANGED <<conn, has>>,
         Head(reqs[c]).type # "bind" => c \in clients,
         c \in clients',
         nick'[c] = nick[c] \/ nick'[c] # NoNick,
         nick'[c] = NoNick => Silent(evs'[c])
  PROVE  Ordered(c)' /\ Named(c)'
<1>1. Ordered(c)' BY TakenInOrder DEF Ordered
<1>2. Named(c)'
  <2>1. (conn[c] = "open" /\ has[c] => nick[c] # NoNick) /\ (conn[c] = "out" => ~has[c])
    BY Zenon DEF Named
  <2>2. conn' = conn /\ has' = has OBVIOUS
  <2>3. (conn'[c] = "open" /\ has'[c] => nick'[c] # NoNick) /\ (conn'[c] = "out" => ~has'[c])
    BY <2>1, <2>2, Zenon
  <2> QED BY <2>3, Zenon DEF Named
<1> QED BY <1>1, <1>2

\* A client is taken off the list: its end is announced to the others.
LEMMA DestroyKeeps ==
  ASSUME TypeOK, Orderly, NEW c \in Client, ClientResourceDestroy(c),
         conn[c] # "open", UNCHANGED <<conn, has>>, reqs' = [reqs EXCEPT ![c] = <<>>]
  PROVE  TypeOK' /\ Orderly'
<1>1. Farewell(c) \in Seq(Public) BY FarewellIsPublic
<1>2. Farewell(c) \in Seq(Event) /\ Silent(Farewell(c)) BY <1>1, PublicIsSilent
<1>3. evs \in [Client -> Seq(Event)] /\ log \in Seq(Public) /\ reqs \in [Client -> Seq(Request)]
  BY DEF TypeOK
<1>4. \A d \in Client : /\ evs[d] \o Farewell(c) \in Seq(Event)
                        /\ Silent(evs[d]) => Silent(evs[d] \o Farewell(c))
  BY <1>2, <1>3, ConcatProperties, SilentParts
<1>5. log' \in Seq(Public) BY <1>1, <1>3, ConcatProperties DEF ClientResourceDestroy
<1>6. evs' \in [Client -> Seq(Event)] BY <1>3, <1>4, EmptySeq DEF ClientResourceDestroy
<1>7. reqs' \in [Client -> Seq(Request)] BY <1>3, EmptySeq
<1>8. TypeOK' BY <1>5, <1>6, <1>7 DEF TypeOK, ClientResourceDestroy
<1>9. ASSUME NEW d \in Client, d # c PROVE Ordered(d)' /\ Named(d)'
  <2>1. Same(d) BY <1>9 DEF Same, ClientResourceDestroy, TypeOK
  <2>2. evs'[d] = evs[d] \/ (d \in clients /\ (Silent(evs[d]) => Silent(evs'[d])))
    BY <1>4, <1>9 DEF ClientResourceDestroy
  <2> QED BY <2>1, <2>2, OthersKeep DEF Orderly
<1>10. Ordered(c)' /\ Named(c)'
  <2>1. reqs'[c] = <<>> /\ evs'[c] = <<>> /\ c \notin clients' /\ nick'[c] = NoNick /\ conn'[c] # "open"
    BY <1>3 DEF ClientResourceDestroy, TypeOK
  <2>2. Ordered(c)' BY <2>1 DEF Ordered
  <2>3. Silent(<<>>) BY DEF Silent
  <2>4. conn[c] = "out" => ~has[c] BY Zenon DEF Orderly, Named
  <2>5. conn'[c] = "out" => ~has'[c] BY <2>4, Zenon
  <2>6. Named(c)' BY <2>1, <2>3, <2>5, Zenon DEF Named
  <2> QED BY <2>2, <2>6
<1> QED BY <1>8, <1>9, <1>10 DEF Orderly

LEMMA ServerSteps ==
  ASSUME TypeOK, Orderly, NEW c \in Client, Server(c)
  PROVE  TypeOK' /\ Orderly'
<1>t. /\ reqs \in [Client -> Seq(Request)] /\ evs \in [Client -> Seq(Event)]
      /\ nick \in [Client -> Nick \cup {NoNick}] /\ log \in Seq(Public)
  BY DEF TypeOK
<1>o. Ordered(c) /\ Named(c) /\ reqs[c] \in Seq(Request) BY <1>t DEF Orderly
<1>s. ASSUME reqs[c] # <<>>, Served(c)
      PROVE  /\ reqs' \in [Client -> Seq(Request)] /\ reqs'[c] = Tail(reqs[c])
             /\ \A d \in Client \ {c} : reqs'[d] = reqs[d]
  BY <1>t, <1>s, HeadRequest DEF Served
<1>1. CASE ChatBind(c)
  <2>1. reqs[c] # <<>> /\ Head(reqs[c]).type = "bind" /\ Served(c) /\ clients' = clients \cup {c}
        /\ UNCHANGED <<conn, has, evs, nick, log, seen>>
    BY <1>1 DEF ChatBind, NextRequest
  <2>2. TypeOK' BY <1>s, <2>1 DEF TypeOK
  <2>3. ASSUME NEW d \in Client, d # c PROVE Ordered(d)' /\ Named(d)'
    <3>1. Same(d) /\ evs'[d] = evs[d] BY <1>s, <2>1, <2>3 DEF Same
    <3> QED BY <3>1, OthersKeep DEF Orderly
  <2>4. nick'[c] = nick[c] /\ evs'[c] = evs[c] /\ (nick[c] = NoNick => Silent(evs[c]))
    BY <1>o, <2>1 DEF Named
  <2>5. Ordered(c)' /\ Named(c)' BY <1>o, <1>s, <2>1, <2>4, ServeKeepsOrder
  <2> QED BY <2>2, <2>3, <2>5 DEF Orderly
<1>2. CASE HandleSetNickname(c)
  <2> DEFINE n == Head(reqs[c]).nick
  <2>1. reqs[c] # <<>> /\ Head(reqs[c]).type = "nick" /\ Served(c) /\ UNCHANGED <<conn, has, clients, seen>>
        /\ (RefuseNickname(c, n) \/ TakeNickname(c, n))
    BY <1>2 DEF HandleSetNickname, NextRequest
  <2>2. n \in Nick \cup {BadNick} BY <1>o, <2>1, HeadRequest, RequestFields
  <2>3. c \in clients BY <1>o, <2>1, TakenInOrder
  <2> HIDE DEF n
  <2>4. CASE RefuseNickname(c, n)
    <3>1. Append(evs[c], Rejected) = evs[c] \o <<Rejected>>
          /\ Append(evs[c], Rejected) \in Seq(Event)
          /\ <<Rejected>> \in Seq(Event) /\ Silent(<<Rejected>>)
      BY <1>t, AppendIsConcat, AppendProperties, EventKinds, OneElement DEF Silent
    <3>2. Silent(evs[c]) => Silent(Append(evs[c], Rejected)) BY <1>t, <3>1, SilentParts
    <3>3. evs'[c] = Append(evs[c], Rejected) /\ (\A d \in Client \ {c} : evs'[d] = evs[d])
          /\ nick' = nick /\ log' = log /\ evs' \in [Client -> Seq(Event)]
      BY <1>t, <2>4, <3>1 DEF RefuseNickname
    <3>4. TypeOK' BY <1>s, <2>1, <3>3 DEF TypeOK
    <3>5. ASSUME NEW d \in Client, d # c PROVE Ordered(d)' /\ Named(d)'
      <4>1. Same(d) /\ evs'[d] = evs[d] BY <1>s, <2>1, <3>3, <3>5 DEF Same
      <4> QED BY <4>1, OthersKeep DEF Orderly
    <3>6. nick'[c] = NoNick => Silent(evs'[c]) BY <1>o, <3>2, <3>3 DEF Named
    <3>7. Ordered(c)' /\ Named(c)' BY <1>o, <1>s, <2>1, <2>3, <3>3, <3>6, ServeKeepsOrder
    <3> QED BY <3>4, <3>5, <3>7 DEF Orderly
  <2>5. CASE TakeNickname(c, n)
    <3>1. n \in Nick /\ n # NoNick BY <2>2, <2>5, NickAssumption DEF TakeNickname
    <3>2. nick' = [nick EXCEPT ![c] = n]
          /\ Broadcast(clients, c, Farewell(c), <<Accepted(n)>>, <<Joined(n)>>)
      BY <2>5 DEF TakeNickname
    <3>3. Farewell(c) \in Seq(Public) /\ <<Accepted(n)>> \in Seq(Event) /\ <<Joined(n)>> \in Seq(Public)
      BY <3>1, FarewellIsPublic, EventKinds, OneElement
    <3>4. clients \in SUBSET Client BY DEF TypeOK
    <3>5. /\ log' \in Seq(Public) /\ evs' \in [Client -> Seq(Event)]
          /\ \A d \in Client : d \notin clients \cup {c} => evs'[d] = evs[d]
          /\ \A d \in Client : d # c /\ Silent(evs[d]) => Silent(evs'[d])
      BY <3>2, <3>3, <3>4, BroadcastIsTyped
    <3>6. nick' \in [Client -> Nick \cup {NoNick}] /\ nick'[c] = n
          /\ \A d \in Client \ {c} : nick'[d] = nick[d]
      BY <1>t, <3>1, <3>2
    <3>7. TypeOK' BY <1>s, <2>1, <3>5, <3>6 DEF TypeOK
    <3>8. ASSUME NEW d \in Client, d # c PROVE Ordered(d)' /\ Named(d)'
      <4>1. Same(d) BY <1>s, <2>1, <3>6, <3>8 DEF Same
      <4> QED BY <3>5, <3>8, <4>1, OthersKeep DEF Orderly
    <3>9. Ordered(c)' /\ Named(c)' BY <1>o, <1>s, <2>1, <2>3, <3>1, <3>6, ServeKeepsOrder
    <3> QED BY <3>7, <3>8, <3>9 DEF Orderly
  <2> QED BY <2>1, <2>4, <2>5
<1>3. CASE HandleSendMessage(c)
  <2> DEFINE m == Head(reqs[c]).content
  <2>1. reqs[c] # <<>> /\ Head(reqs[c]).type = "say" /\ Served(c) /\ UNCHANGED <<conn, has, clients, nick, seen>>
        /\ IF nick[c] = NoNick THEN UNCHANGED <<evs, log>> ELSE SayToAll(c, m)
    BY <1>3 DEF HandleSendMessage, NextRequest
  <2>2. m \in Content BY <1>o, <2>1, HeadRequest, RequestFields
  <2>3. c \in clients BY <1>o, <2>1, TakenInOrder
  <2> HIDE DEF m
  <2>4. /\ log' \in Seq(Public) /\ evs' \in [Client -> Seq(Event)]
        /\ \A d \in Client : d \notin clients => evs'[d] = evs[d]
        /\ \A d \in Client : Silent(evs[d]) => Silent(evs'[d])
    <3>1. CASE UNCHANGED <<evs, log>> BY <1>t, <3>1
    <3>2. CASE nick[c] # NoNick /\ SayToAll(c, m)
      <4>1. <<Says(nick[c], m)>> \in Seq(Public) BY <1>t, <2>2, <3>2, EventKinds, OneElement
      <4>2. <<>> \in Seq(Public) /\ <<>> \in Seq(Event) /\ Silent(<<>>) BY EmptySeq DEF Silent
      <4>3. clients \in SUBSET Client BY DEF TypeOK
      <4>4. Broadcast(clients, c, <<>>, <<>>, <<Says(nick[c], m)>>) BY <3>2 DEF SayToAll
      <4>5. /\ log' \in Seq(Public) /\ evs' \in [Client -> Seq(Event)]
            /\ \A d \in Client : d \notin clients \cup {c} => evs'[d] = evs[d]
            /\ \A d \in Client : Silent(evs[d]) /\ (d = c => Silent(<<>>)) => Silent(evs'[d])
        BY <4>1, <4>2, <4>3, <4>4, BroadcastIsTyped
      <4>6. \A d \in Client : d \notin clients => evs'[d] = evs[d] BY <2>3, <4>5
      <4>7. \A d \in Client : Silent(evs[d]) => Silent(evs'[d]) BY <4>2, <4>5
      <4> QED BY <4>5, <4>6, <4>7
    <3> QED BY <2>1, <3>1, <3>2
  <2>5. TypeOK' BY <1>s, <2>1, <2>4 DEF TypeOK
  <2>6. ASSUME NEW d \in Client, d # c PROVE Ordered(d)' /\ Named(d)'
    <3>1. Same(d) BY <1>s, <2>1, <2>6 DEF Same
    <3> QED BY <2>4, <3>1, OthersKeep DEF Orderly
  <2>7. nick'[c] = NoNick => Silent(evs'[c]) BY <1>o, <2>1, <2>4 DEF Named
  <2>8. Ordered(c)' /\ Named(c)' BY <1>o, <1>s, <2>1, <2>3, <2>7, ServeKeepsOrder
  <2> QED BY <2>5, <2>6, <2>8 DEF Orderly
<1>4. CASE HandleDestroy(c)
  <2>1. reqs[c] # <<>> /\ Head(reqs[c]).type = "destroy" /\ Served(c)
        /\ ClientResourceDestroy(c) /\ UNCHANGED <<conn, has>>
    BY <1>4 DEF HandleDestroy, NextRequest
  <2>2. conn[c] # "open" /\ Tail(reqs[c]) = <<>> BY <1>o, <2>1, TakenInOrder
  <2>3. reqs' = [reqs EXCEPT ![c] = <<>>] BY <2>1, <2>2 DEF Served
  <2> QED BY <2>1, <2>2, <2>3, DestroyKeeps
<1>5. CASE Hangup(c)
  <2>1. conn[c] # "open" /\ reqs' = [reqs EXCEPT ![c] = <<>>] /\ UNCHANGED <<conn, has>>
    BY <1>5 DEF Hangup
  <2>2. CASE ClientResourceDestroy(c) BY <2>1, <2>2, DestroyKeeps
  <2>3. CASE UNCHANGED <<evs, clients, nick, log, seen>>
    <3>1. reqs' \in [Client -> Seq(Request)] BY <1>t, <2>1, EmptySeq
    <3>2. TypeOK' BY <2>1, <2>3, <3>1 DEF TypeOK
    <3>3. ASSUME NEW d \in Client, d # c PROVE Ordered(d)' /\ Named(d)'
      <4>1. Same(d) /\ evs'[d] = evs[d] BY <1>t, <2>1, <2>3, <3>3 DEF Same
      <4> QED BY <4>1, OthersKeep DEF Orderly
    <3>4. Ordered(c)'
      <4>1. reqs'[c] = <<>> /\ conn'[c] # "open" BY <1>t, <2>1
      <4> QED BY <1>o, <2>3, <4>1 DEF Ordered
    <3>5. Named(c)'
      <4>1. (nick[c] = NoNick => Silent(evs[c])) /\ (conn[c] = "open" /\ has[c] => nick[c] # NoNick)
            /\ (conn[c] = "out" => ~has[c])
        BY <1>o, Zenon DEF Named
      <4> QED BY <2>1, <2>3, <4>1, Zenon DEF Named
    <3> QED BY <3>2, <3>3, <3>4, <3>5 DEF Orderly
  <2> QED BY <1>5, <2>2, <2>3 DEF Hangup
<1> QED BY <1>1, <1>2, <1>3, <1>4, <1>5 DEF Server

LEMMA DispatchSteps ==
  ASSUME TypeOK, Orderly, NEW c \in Client, Dispatch(c)
  PROVE  TypeOK' /\ Orderly'
<1> DEFINE e == Head(evs[c])
<1>1. evs \in [Client -> Seq(Event)] /\ has \in [Client -> BOOLEAN]
      /\ seen \in [Client -> Public \cup {<<>>}]
  BY DEF TypeOK
<1>2. conn[c] = "open" /\ evs[c] # <<>> /\ evs' = [evs EXCEPT ![c] = Tail(@)]
      /\ UNCHANGED <<conn, reqs, clients, nick, log>>
  BY DEF Dispatch
<1>3. e \in Event /\ Tail(evs[c]) \in Seq(Event) BY <1>1, <1>2, HeadTailProperties
<1>4. has' = [has EXCEPT ![c] = @ \/ e.type = "accepted"]
      /\ seen' = IF e \in Public THEN [seen EXCEPT ![c] = e] ELSE seen
  BY DEF Dispatch
<1>5. evs' \in [Client -> Seq(Event)] /\ evs'[c] = Tail(evs[c])
      /\ \A d \in Client \ {c} : evs'[d] = evs[d]
  BY <1>1, <1>2, <1>3
<1> HIDE DEF e
<1>6. has' \in [Client -> BOOLEAN] /\ (has'[c] <=> has[c] \/ e.type = "accepted")
  BY <1>1, <1>4, Zenon
<1>7. \A d \in Client \ {c} : has'[d] = has[d] BY <1>1, <1>4
<1>8. seen' \in [Client -> Public \cup {<<>>}] BY <1>1, <1>4
<1>9. TypeOK' BY <1>2, <1>5, <1>6, <1>8 DEF TypeOK
<1>10. ASSUME NEW d \in Client, d # c PROVE Ordered(d)' /\ Named(d)'
  <2>1. Same(d) /\ evs'[d] = evs[d] BY <1>2, <1>5, <1>7, <1>10 DEF Same
  <2> QED BY <2>1, OthersKeep DEF Orderly
<1>11. Ordered(c)'
  <2>1. Ordered(c) BY DEF Orderly
  <2>2. c \in clients BY <1>2, <2>1 DEF Ordered
  <2> QED BY <1>2, <2>1, <2>2 DEF Ordered
<1>12. Named(c)'
  <2>1. (nick[c] = NoNick => Silent(evs[c])) /\ (conn[c] = "open" /\ has[c] => nick[c] # NoNick)
    BY Zenon DEF Orderly, Named
  <2>2. Silent(evs[c]) => Silent(Tail(evs[c])) /\ e.type # "accepted"
    BY <1>1, <1>2, SilentParts DEF e
  <2>3. e.type = "accepted" => nick[c] # NoNick BY <2>1, <2>2
  <2>4. has'[c] => nick[c] # NoNick BY <1>2, <1>6, <2>1, <2>3, Zenon
  <2>5. nick' = nick /\ conn'[c] = "open" BY <1>2
  <2>6. nick[c] = NoNick => Silent(evs'[c]) BY <1>5, <2>1, <2>2
  <2>7. conn'[c] # "out" BY <2>5
  <2> QED BY <2>4, <2>5, <2>6, <2>7, Zenon DEF Named
<1> QED BY <1>9, <1>10, <1>11, <1>12 DEF Orderly

LEMMA StepIsOrderly == TypeOK /\ Orderly /\ [Next]_vars => TypeOK' /\ Orderly'
<1> SUFFICES ASSUME TypeOK, Orderly, [Next]_vars PROVE TypeOK' /\ Orderly' OBVIOUS
<1>1. ASSUME NEW c \in Client, Server(c) \/ User(c) \/ Dispatch(c) PROVE TypeOK' /\ Orderly'
  BY <1>1, ServerSteps, UserSteps, DispatchSteps
<1>2. CASE UNCHANGED vars
  <2>1. TypeOK' BY <1>2 DEF TypeOK, vars
  <2>2. ASSUME NEW c \in Client PROVE Ordered(c)' /\ Named(c)'
    <3>1. Same(c) /\ evs'[c] = evs[c] BY <1>2 DEF Same, vars
    <3> QED BY <3>1, OthersKeep DEF Orderly
  <2> QED BY <2>1, <2>2 DEF Orderly
<1> QED BY <1>1, <1>2 DEF Next

\* The variables keep their types, bind is the first request and destroy the
\* last, and whoever is, or will be told to be, named has a name.
THEOREM RequestsAreOrderly == Spec => [](TypeOK /\ Orderly)
<1>1. Init => TypeOK /\ Orderly BY InitIsOrderly
<1>2. TypeOK /\ Orderly /\ [Next]_vars => (TypeOK /\ Orderly)' BY StepIsOrderly
<1> QED BY <1>1, <1>2, PTL DEF Spec

\* No text that the client lets through is from a client without a name.
THEOREM TextsAreHeard == Spec => []NoTextIgnored
<1>1. TypeOK /\ Orderly => NoTextIgnored
  <2> SUFFICES ASSUME TypeOK, Orderly, NEW c \in Client, conn[c] = "open", NextRequest(c, "say")
               PROVE  nick[c] # NoNick
    BY DEF NoTextIgnored
  <2>1. reqs[c] \in Seq(Request) /\ reqs[c] # <<>> /\ Head(reqs[c]).type = "say"
    BY DEF TypeOK, NextRequest
  <2>2. 1 \in 1..Len(reqs[c]) /\ Head(reqs[c]) = reqs[c][1] BY <2>1, HeadRequest
  <2> QED BY <2>1, <2>2 DEF Orderly, Ordered
<1> QED BY <1>1, RequestsAreOrderly, PTL

-----------------------------------------------------------------------------
(* Names are unique.                                                        *)

\* Stronger than NicknamesUnique, which is about the clients on the list:
\* whoever is not on it has given its name up.
NamesApart == \A c, d \in Client : c # d /\ nick[c] # NoNick => nick[c] # nick[d]

LEMMA NamesStayApart ==
  ASSUME TypeOK, Orderly, NamesApart, [Next]_vars
  PROVE  NamesApart'
<1>1. nick \in [Client -> Nick \cup {NoNick}] BY DEF TypeOK
<1>2. CASE UNCHANGED nick BY <1>2 DEF NamesApart
<1>3. ASSUME NEW c \in Client, nick' = [nick EXCEPT ![c] = NoNick] PROVE NamesApart'
  BY <1>1, <1>3 DEF NamesApart
<1>4. ASSUME NEW c \in Client, NEW n, TakeNickname(c, n) PROVE NamesApart'
  <2>1. \A d \in Client \ {c} : nick[d] # NoNick => nick[d] # n
    <3>1. \A d \in Client : d \notin clients => nick[d] = NoNick BY DEF Orderly, Ordered
    <3> QED BY <1>4, <3>1 DEF TakeNickname
  <2>2. nick' = [nick EXCEPT ![c] = n] BY <1>4 DEF TakeNickname
  <2>3. ASSUME NEW a \in Client, NEW b \in Client, a # b, nick'[a] # NoNick PROVE nick'[a] # nick'[b]
    <3>1. CASE a # c /\ b # c BY <1>1, <2>2, <2>3, <3>1 DEF NamesApart
    <3>2. CASE a = c /\ nick[b] # NoNick BY <1>1, <2>1, <2>2, <2>3, <3>2
    <3>3. CASE a = c /\ nick[b] = NoNick BY <1>1, <2>2, <2>3, <3>3
    <3>4. CASE b = c BY <1>1, <2>1, <2>2, <2>3, <3>4
    <3> QED BY <3>1, <3>2, <3>3, <3>4
  <2> QED BY <2>3 DEF NamesApart
<1>5. ASSUME NEW c \in Client, Server(c) PROVE NamesApart'
  <2>1. CASE ChatBind(c) BY <1>2, <2>1 DEF ChatBind
  <2>2. CASE HandleSetNickname(c)
    BY <1>2, <1>4, <2>2 DEF HandleSetNickname, RefuseNickname
  <2>3. CASE HandleSendMessage(c) BY <1>2, <2>3 DEF HandleSendMessage
  <2>4. CASE HandleDestroy(c) BY <1>3, <2>4 DEF HandleDestroy, ClientResourceDestroy
  <2>5. CASE Hangup(c) BY <1>2, <1>3, <2>5 DEF Hangup, ClientResourceDestroy
  <2> QED BY <1>5, <2>1, <2>2, <2>3, <2>4, <2>5 DEF Server
<1>6. ASSUME NEW c \in Client, User(c) PROVE UNCHANGED nick
  BY <1>6 DEF User, Connect, Quit, Crash, Disconnect, InputNick, InputText
<1>7. ASSUME NEW c \in Client, Dispatch(c) PROVE UNCHANGED nick BY <1>7 DEF Dispatch
<1> QED BY <1>2, <1>5, <1>6, <1>7 DEF Next, vars

\* find_client_by_nickname keeps the names of the clients distinct, through
\* renames, refusals, quits and crashes in any order.
THEOREM NamesAreUnique == Spec => []NicknamesUnique
<1>1. Init => NamesApart BY DEF Init, NamesApart
<1>2. TypeOK /\ Orderly /\ NamesApart /\ [Next]_vars => NamesApart' BY NamesStayApart
<1>3. TypeOK /\ NamesApart => NicknamesUnique BY DEF TypeOK, NamesApart, NicknamesUnique
<1> QED BY <1>1, <1>2, <1>3, RequestsAreOrderly, PTL DEF Spec

-----------------------------------------------------------------------------
(* What is on its way to a member is the end of the log.                    *)

\* The broadcasts of s from its i-th event on.
PublicFrom(s, i) == {j \in i..Len(s) : s[j] \in Public}

UnreadOf(s) == Cardinality(PublicFrom(s, 1))

\* Each broadcast of s is where it is in the log, counted from the end.
Follows(s, l) ==
  \A i \in 1..Len(s) : s[i] \in Public =>
    /\ Cardinality(PublicFrom(s, i)) <= Len(l)
    /\ s[i] = l[Len(l) - Cardinality(PublicFrom(s, i)) + 1]

LEMMA CountIsNat ==
  ASSUME NEW s \in Seq(Event), NEW i \in Nat
  PROVE  /\ IsFiniteSet(PublicFrom(s, i)) /\ Cardinality(PublicFrom(s, i)) \in Nat
         /\ i \in 1..Len(s) /\ s[i] \in Public => Cardinality(PublicFrom(s, i)) >= 1
<1>1. Len(s) \in Nat BY LenProperties
<1>2. IsFiniteSet(i..Len(s)) BY <1>1, FS_Interval
<1>3. PublicFrom(s, i) \in SUBSET (i..Len(s)) BY DEF PublicFrom
<1>4. IsFiniteSet(PublicFrom(s, i)) BY <1>2, <1>3, FS_Subset
<1>5. Cardinality(PublicFrom(s, i)) \in Nat BY <1>4, FS_CardinalityType
<1>6. ASSUME i \in 1..Len(s), s[i] \in Public PROVE Cardinality(PublicFrom(s, i)) >= 1
  <2>1. i \in PublicFrom(s, i) BY <1>1, <1>6 DEF PublicFrom
  <2>2. Cardinality(PublicFrom(s, i)) # 0 BY <1>4, <2>1, FS_EmptySet
  <2> QED BY <1>5, <2>2
<1> QED BY <1>4, <1>5, <1>6

LEMMA NothingFollows ==
  ASSUME NEW l
  PROVE  Follows(<<>>, l) /\ UnreadOf(<<>>) = 0
<1>1. Len(<<>>) = 0 BY EmptySeq
<1>2. PublicFrom(<<>>, 1) = {} BY <1>1 DEF PublicFrom
<1> QED BY <1>1, <1>2, FS_EmptySet DEF Follows, UnreadOf

\* An event that is no broadcast changes nothing of that.
LEMMA FollowsAlone ==
  ASSUME NEW s \in Seq(Event), NEW l, NEW e \in Event \ Public, Follows(s, l)
  PROVE  Follows(Append(s, e), l) /\ UnreadOf(Append(s, e)) = UnreadOf(s)
<1> DEFINE t == Append(s, e)
<1>1. /\ Len(s) \in Nat /\ Len(t) = Len(s) + 1
      /\ \A i \in 1..Len(s) : t[i] = s[i]
      /\ t[Len(s) + 1] = e
  BY AppendProperties, LenProperties
<1> HIDE DEF t
<1>2. ASSUME NEW i \in Nat, i >= 1 PROVE PublicFrom(t, i) = PublicFrom(s, i)
  <2>1. ASSUME NEW j \in i..Len(t) PROVE t[j] \in Public <=> j \in i..Len(s) /\ s[j] \in Public
    <3>1. CASE j = Len(s) + 1 BY <1>1, <2>1, <3>1
    <3>2. CASE j # Len(s) + 1
      <4>1. j \in 1..Len(s) /\ j \in i..Len(s) BY <1>1, <1>2, <2>1, <3>2
      <4> QED BY <1>1, <4>1
    <3> QED BY <3>1, <3>2
  <2>2. \A j : j \in i..Len(s) => j \in i..Len(t) BY <1>1
  <2> QED BY <2>1, <2>2 DEF PublicFrom
<1>3. \A i \in 1..Len(t) : t[i] \in Public => i \in 1..Len(s) /\ t[i] = s[i] BY <1>1
<1>4. \A i \in 1..Len(s) : PublicFrom(t, i) = PublicFrom(s, i) BY <1>2
<1>5. Follows(t, l) BY <1>3, <1>4 DEF Follows
<1>6. UnreadOf(t) = UnreadOf(s)
  <2>1. PublicFrom(t, 1) = PublicFrom(s, 1) BY <1>2
  <2> QED BY <2>1 DEF UnreadOf
<1> QED BY <1>5, <1>6 DEF t

\* A broadcast is put behind both.
LEMMA FollowsTogether ==
  ASSUME NEW s \in Seq(Event), NEW l \in Seq(Public), NEW e \in Public, Follows(s, l)
  PROVE  Follows(Append(s, e), Append(l, e)) /\ UnreadOf(Append(s, e)) = UnreadOf(s) + 1
<1> DEFINE t == Append(s, e)
           m == Append(l, e)
<1>0. e \in Event BY EventKinds
<1>1. /\ Len(s) \in Nat /\ Len(t) = Len(s) + 1 /\ t \in Seq(Event)
      /\ \A i \in 1..Len(s) : t[i] = s[i]
      /\ t[Len(s) + 1] = e
  BY <1>0, AppendProperties, LenProperties
<1>2. /\ Len(l) \in Nat /\ Len(m) = Len(l) + 1
      /\ \A i \in 1..Len(l) : m[i] = l[i]
      /\ m[Len(l) + 1] = e
  BY AppendProperties, LenProperties
<1> HIDE DEF t, m
<1>3. ASSUME NEW i \in Nat, i >= 1, i <= Len(s) + 1
      PROVE  Cardinality(PublicFrom(t, i)) = Cardinality(PublicFrom(s, i)) + 1
  <2>1. ASSUME NEW j \in i..Len(t)
        PROVE  t[j] \in Public <=> (j \in i..Len(s) /\ s[j] \in Public) \/ j = Len(s) + 1
    <3>1. CASE j = Len(s) + 1 BY <1>1, <2>1, <3>1
    <3>2. CASE j # Len(s) + 1
      <4>1. j \in 1..Len(s) /\ j \in i..Len(s) BY <1>1, <1>3, <2>1, <3>2
      <4> QED BY <1>1, <3>2, <4>1
    <3> QED BY <3>1, <3>2
  <2>2. \A j : j \in i..Len(s) \/ j = Len(s) + 1 => j \in i..Len(t) BY <1>1, <1>3
  <2>3. PublicFrom(t, i) = PublicFrom(s, i) \cup {Len(s) + 1} BY <2>1, <2>2 DEF PublicFrom
  <2>4. Len(s) + 1 \notin PublicFrom(s, i) BY <1>1 DEF PublicFrom
  <2>5. IsFiniteSet(PublicFrom(s, i)) BY CountIsNat
  <2> QED BY <2>3, <2>4, <2>5, FS_AddElement
<1>4. ASSUME NEW i \in 1..Len(t), t[i] \in Public
      PROVE  /\ Cardinality(PublicFrom(t, i)) <= Len(m)
             /\ t[i] = m[Len(m) - Cardinality(PublicFrom(t, i)) + 1]
  <2> DEFINE k == Cardinality(PublicFrom(s, i))
  <2>1. k \in Nat /\ Cardinality(PublicFrom(t, i)) = k + 1
    <3>1. i \in Nat /\ i >= 1 /\ i <= Len(s) + 1 BY <1>1
    <3> QED BY <1>3, <3>1, CountIsNat
  <2>2. CASE i \in 1..Len(s)
    <3>1. t[i] = s[i] /\ s[i] \in Public BY <1>1, <1>4, <2>2
    <3>2. k <= Len(l) /\ s[i] = l[Len(l) - k + 1] BY <2>2, <3>1 DEF Follows
    <3>n. i \in Nat BY <2>2
    <3>3. k >= 1 BY <2>2, <3>n, <3>1, CountIsNat
    <3> HIDE DEF k
    <3>4. Len(l) - k + 1 \in 1..Len(l) /\ Len(m) - (k + 1) + 1 = Len(l) - k + 1 /\ k + 1 <= Len(m)
      BY <1>2, <2>1, <3>2, <3>3
    <3> QED BY <1>2, <2>1, <3>1, <3>2, <3>4
  <2>3. CASE i = Len(s) + 1
    <3>1. PublicFrom(s, i) = {} BY <1>1, <2>3 DEF PublicFrom
    <3>2. k = 0 BY <3>1, FS_EmptySet
    <3> HIDE DEF k
    <3>3. Cardinality(PublicFrom(t, i)) = 1 BY <2>1, <3>2
    <3>4. Len(m) - 1 + 1 = Len(l) + 1 /\ 1 <= Len(m) BY <1>2
    <3> QED BY <1>1, <1>2, <2>3, <3>3, <3>4
  <2> QED BY <1>1, <2>2, <2>3
<1>5. Follows(t, m) BY <1>4 DEF Follows
<1>6. UnreadOf(t) = UnreadOf(s) + 1
  <2>1. 1 <= Len(s) + 1 BY <1>1
  <2> QED BY <1>3, <2>1 DEF UnreadOf
<1> QED BY <1>5, <1>6 DEF t, m

\* Reading the head: a broadcast is the next entry of the log.
LEMMA FollowsOn ==
  ASSUME NEW s \in Seq(Event), NEW l \in Seq(Public), Follows(s, l), s # <<>>
  PROVE  /\ Follows(Tail(s), l)
         /\ Head(s) \notin Public => UnreadOf(Tail(s)) = UnreadOf(s)
         /\ Head(s) \in Public => /\ UnreadOf(s) = UnreadOf(Tail(s)) + 1
                                  /\ UnreadOf(s) <= Len(l)
                                  /\ Head(s) = l[Len(l) - UnreadOf(s) + 1]
<1> DEFINE t == Tail(s)
<1>1. /\ Len(s) \in Nat \ {0} /\ t \in Seq(Event) /\ Len(t) = Len(s) - 1
      /\ \A i \in 1..Len(t) : t[i] = s[i + 1]
      /\ Head(s) = s[1]
  BY EmptySeq, HeadTailProperties
<1> HIDE DEF t
<1>2. ASSUME NEW i \in Nat, i >= 1
      PROVE  /\ Cardinality(PublicFrom(t, i)) = Cardinality(PublicFrom(s, i + 1))
             /\ IsFiniteSet(PublicFrom(s, i + 1))
  <2> DEFINE A == PublicFrom(t, i)
             B == PublicFrom(s, i + 1)
             f == [j \in A |-> j + 1]
  <2>1. IsFiniteSet(A) BY <1>1, CountIsNat
  <2>2. \A j \in A : j \in 1..Len(t) /\ j + 1 \in (i + 1)..Len(s) /\ s[j + 1] \in Public
    BY <1>1, <1>2 DEF PublicFrom
  <2>3. f \in [A -> B] BY <2>2 DEF PublicFrom
  <2>4. \A j, k \in A : f[j] = f[k] => j = k BY <2>2
  <2>5. ASSUME NEW k \in B PROVE \E j \in A : f[j] = k
    <3>1. k \in (i + 1)..Len(s) /\ s[k] \in Public BY DEF PublicFrom
    <3>2. k - 1 \in i..Len(t) /\ k - 1 \in 1..Len(t) /\ (k - 1) + 1 = k BY <1>1, <1>2, <3>1
    <3>3. t[k - 1] = s[k] BY <1>1, <3>2
    <3>4. k - 1 \in A BY <3>1, <3>2, <3>3 DEF PublicFrom
    <3> QED BY <3>2, <3>4
  <2> HIDE DEF A, B, f
  <2>6. f \in Bijection(A, B)
    BY <2>3, <2>4, <2>5 DEF Bijection, Injection, Surjection, IsInjective
  <2>7. ExistsBijection(A, B) BY <2>6 DEF ExistsBijection
  <2>8. IsFiniteSet(B) /\ Cardinality(B) = Cardinality(A) BY <2>1, <2>7, FS_Bijection
  <2> QED BY <2>8 DEF A, B
<1>3. Follows(t, l)
  <2>1. ASSUME NEW i \in 1..Len(t), t[i] \in Public
        PROVE  /\ Cardinality(PublicFrom(t, i)) <= Len(l)
               /\ t[i] = l[Len(l) - Cardinality(PublicFrom(t, i)) + 1]
    <3>1. i + 1 \in 1..Len(s) /\ i \in Nat /\ i >= 1 BY <1>1
    <3>2. s[i + 1] = t[i] BY <1>1
    <3>3. /\ Cardinality(PublicFrom(s, i + 1)) <= Len(l)
          /\ s[i + 1] = l[Len(l) - Cardinality(PublicFrom(s, i + 1)) + 1]
      BY <2>1, <3>1, <3>2 DEF Follows
    <3>4. Cardinality(PublicFrom(t, i)) = Cardinality(PublicFrom(s, i + 1)) BY <1>2, <3>1
    <3> QED BY <3>2, <3>3, <3>4
  <2> QED BY <2>1 DEF Follows
<1>4. 1 \in 1..Len(s) BY <1>1
<1>5. Cardinality(PublicFrom(t, 1)) = Cardinality(PublicFrom(s, 2)) /\ IsFiniteSet(PublicFrom(s, 2))
  <2>1. 1 + 1 = 2 OBVIOUS
  <2> QED BY <1>2, <2>1
<1>6. ASSUME Head(s) \notin Public PROVE UnreadOf(t) = UnreadOf(s)
  <2>1. PublicFrom(s, 1) = PublicFrom(s, 2) BY <1>1, <1>6 DEF PublicFrom
  <2> QED BY <1>5, <2>1 DEF UnreadOf
<1>7. ASSUME Head(s) \in Public
      PROVE  /\ UnreadOf(s) = UnreadOf(t) + 1 /\ UnreadOf(s) <= Len(l)
             /\ Head(s) = l[Len(l) - UnreadOf(s) + 1]
  <2>1. PublicFrom(s, 1) = PublicFrom(s, 2) \cup {1} BY <1>1, <1>7 DEF PublicFrom
  <2>2. 1 \notin PublicFrom(s, 2) BY DEF PublicFrom
  <2>3. UnreadOf(s) = UnreadOf(t) + 1 BY <1>5, <2>1, <2>2, FS_AddElement DEF UnreadOf
  <2>4. UnreadOf(s) <= Len(l) /\ Head(s) = l[Len(l) - UnreadOf(s) + 1]
    BY <1>1, <1>4, <1>7 DEF Follows, UnreadOf
  <2> QED BY <2>3, <2>4
<1> QED BY <1>3, <1>6, <1>7 DEF t

\* None or one broadcast, and none or one answer, put behind a socket.
LEMMA FollowsBroadcast ==
  ASSUME NEW s \in Seq(Event), NEW l \in Seq(Public), NEW t \in Seq(Public),
         t = <<>> \/ (\E e \in Public : t = <<e>>), Follows(s, l)
  PROVE  /\ s \o t \in Seq(Event) /\ l \o t \in Seq(Public)
         /\ Follows(s \o t, l \o t) /\ UnreadOf(s \o t) = UnreadOf(s) + Len(t)
         /\ Len(l \o t) = Len(l) + Len(t)
<1>1. t \in Seq(Event) BY PublicIsSilent
<1>2. s \o t \in Seq(Event) /\ l \o t \in Seq(Public) /\ Len(l \o t) = Len(l) + Len(t)
  BY <1>1, ConcatProperties
<1>3. CASE t = <<>>
  <2>1. s \o t = s /\ l \o t = l /\ Len(t) = 0 BY <1>3, ConcatEmptySeq, EmptySeq
  <2>2. UnreadOf(s) \in Nat BY CountIsNat DEF UnreadOf
  <2> QED BY <1>2, <2>1, <2>2
<1>4. ASSUME NEW e \in Public, t = <<e>> PROVE Follows(s \o t, l \o t) /\ UnreadOf(s \o t) = UnreadOf(s) + Len(t)
  <2>1. e \in Event BY EventKinds
  <2>2. Append(s, e) = s \o t /\ Append(l, e) = l \o t BY <1>4, <2>1, AppendIsConcat
  <2>3. Len(t) = 1 BY <1>4, OneElement
  <2>4. Follows(Append(s, e), Append(l, e)) /\ UnreadOf(Append(s, e)) = UnreadOf(s) + 1
    BY FollowsTogether
  <2> QED BY <2>2, <2>3, <2>4
<1> QED BY <1>2, <1>3, <1>4

LEMMA FollowsAnswer ==
  ASSUME NEW s \in Seq(Event), NEW l, NEW t \in Seq(Event),
         t = <<>> \/ (\E e \in Event \ Public : t = <<e>>), Follows(s, l)
  PROVE  s \o t \in Seq(Event) /\ Follows(s \o t, l) /\ UnreadOf(s \o t) = UnreadOf(s)
<1>1. s \o t \in Seq(Event) BY ConcatProperties
<1>2. CASE t = <<>> BY <1>2, ConcatEmptySeq
<1>3. ASSUME NEW e \in Event \ Public, t = <<e>> PROVE Follows(s \o t, l) /\ UnreadOf(s \o t) = UnreadOf(s)
  <2>1. Append(s, e) = s \o t BY <1>3, AppendIsConcat
  <2> QED BY <2>1, FollowsAlone
<1> QED BY <1>1, <1>2, <1>3

\* A member is past all of the log but what is on its way to it.
EverybodyFollows == \A c \in clients : Follows(evs[c], log)

LEMMA UnreadIs ==
  ASSUME TypeOK, NEW c \in Client
  PROVE  Unread(c) = UnreadOf(evs[c]) /\ UnreadOf(evs[c]) \in Nat
<1>1. evs[c] \in Seq(Event) BY DEF TypeOK
<1>2. DOMAIN evs[c] = 1..Len(evs[c]) BY <1>1, LenProperties
<1>3. UnreadOf(evs[c]) \in Nat BY <1>1, CountIsNat DEF UnreadOf
<1>4. {i \in DOMAIN evs[c] : evs[c][i] \in Public} = PublicFrom(evs[c], 1)
  BY <1>2 DEF PublicFrom
<1> QED BY <1>3, <1>4 DEF Unread, UnreadOf

LEMMA PositionIs ==
  ASSUME TypeOK, TypeOK'
  PROVE  /\ Position = [d \in Client |-> IF d \in clients THEN Len(log) - UnreadOf(evs[d]) ELSE 0]
         /\ Position' = [d \in Client |-> IF d \in clients' THEN Len(log') - UnreadOf(evs'[d]) ELSE 0]
<1>1. \A d \in Client : Unread(d) = UnreadOf(evs[d]) BY UnreadIs
<1>2. ASSUME NEW d \in Client PROVE Unread(d)' = UnreadOf(evs'[d])
  <2>1. evs'[d] \in Seq(Event) BY DEF TypeOK
  <2>2. DOMAIN evs'[d] = 1..Len(evs'[d]) BY <2>1, LenProperties
  <2> QED BY <2>2 DEF Unread, UnreadOf, PublicFrom
<1> QED BY <1>1, <1>2 DEF Position

\* A broadcast to all members moves none of them: log and unread grow alike.
LEMMA BroadcastKeepsPositions ==
  ASSUME TypeOK, TypeOK', EverybodyFollows, NEW c \in Client,
         NEW first \in Seq(Public), NEW own \in Seq(Event), NEW second \in Seq(Public),
         first = <<>> \/ (\E e \in Public : first = <<e>>),
         own = <<>> \/ (\E e \in Event \ Public : own = <<e>>),
         second = <<>> \/ (\E e \in Public : second = <<e>>),
         Broadcast(clients, c, first, own, second), UNCHANGED clients
  PROVE  EverybodyFollows' /\ Position' = Position
<1>1. log \in Seq(Public) /\ evs \in [Client -> Seq(Event)] /\ clients \in SUBSET Client
  BY DEF TypeOK
<1>2. /\ log' = log \o first \o second
      /\ evs' = [d \in Client |-> evs[d] \o (IF d \in clients THEN first ELSE <<>>)
                                         \o (IF d = c THEN own ELSE <<>>)
                                         \o (IF d \in clients THEN second ELSE <<>>)]
  BY DEF Broadcast
<1>3. ASSUME NEW d \in clients
      PROVE  Follows(evs'[d], log') /\ Len(log') - UnreadOf(evs'[d]) = Len(log) - UnreadOf(evs[d])
  <2> DEFINE o == IF d = c THEN own ELSE <<>>
             s1 == evs[d] \o first
             s2 == s1 \o o
             l1 == log \o first
  <2>1. d \in Client /\ evs[d] \in Seq(Event) /\ Follows(evs[d], log) BY <1>1 DEF EverybodyFollows
  <2>2. evs'[d] = s2 \o second /\ log' = l1 \o second BY <1>2, <2>1
  <2>3. o \in Seq(Event) /\ (o = <<>> \/ \E e \in Event \ Public : o = <<e>>) BY EmptySeq
  <2>4. /\ s1 \in Seq(Event) /\ l1 \in Seq(Public) /\ Follows(s1, l1)
        /\ UnreadOf(s1) = UnreadOf(evs[d]) + Len(first) /\ Len(l1) = Len(log) + Len(first)
    BY <1>1, <2>1, FollowsBroadcast
  <2> HIDE DEF o, s1, l1
  <2>5. s2 \in Seq(Event) /\ Follows(s2, l1) /\ UnreadOf(s2) = UnreadOf(s1)
    BY <2>3, <2>4, FollowsAnswer
  <2> HIDE DEF s2
  <2>6. /\ Follows(s2 \o second, l1 \o second)
        /\ UnreadOf(s2 \o second) = UnreadOf(s2) + Len(second)
        /\ Len(l1 \o second) = Len(l1) + Len(second)
    BY <2>4, <2>5, FollowsBroadcast
  <2>7. Len(first) \in Nat /\ Len(second) \in Nat /\ Len(log) \in Nat /\ UnreadOf(evs[d]) \in Nat
    BY <1>1, <2>1, LenProperties, CountIsNat DEF UnreadOf
  <2>8. \A a, b, x, y \in Nat : (a + x + y) - (b + x + y) = a - b OBVIOUS
  <2>9. Len(log') - UnreadOf(evs'[d]) = (Len(log) + Len(first) + Len(second))
                                        - (UnreadOf(evs[d]) + Len(first) + Len(second))
    BY <2>2, <2>4, <2>5, <2>6
  <2> QED BY <2>2, <2>6, <2>7, <2>8, <2>9
<1>4. EverybodyFollows' BY <1>3 DEF EverybodyFollows
<1>5. \A d \in Client : (IF d \in clients THEN Len(log') - UnreadOf(evs'[d]) ELSE 0)
                        = (IF d \in clients THEN Len(log) - UnreadOf(evs[d]) ELSE 0)
  BY <1>3
<1> QED BY <1>4, <1>5, PositionIs

LEMMA FarewellIsOne ==
  ASSUME TypeOK, NEW c \in Client
  PROVE  Farewell(c) = <<>> \/ (\E e \in Public : Farewell(c) = <<e>>)
<1>1. CASE nick[c] = NoNick BY <1>1 DEF Farewell
<1>2. CASE nick[c] # NoNick
  <2>1. Left(nick[c]) \in Public BY <1>2, EventKinds DEF TypeOK
  <2>2. Farewell(c) = <<Left(nick[c])>> BY <1>2 DEF Farewell
  <2> QED BY <2>1, <2>2
<1> QED BY <1>1, <1>2

-----------------------------------------------------------------------------
(* The server and its sockets implement the room.                           *)

\* A step that neither the log nor a socket of a member takes part in.
LEMMA QuietStep ==
  ASSUME TypeOK, TypeOK', EverybodyFollows, UNCHANGED <<evs, clients, nick, log, seen>>
  PROVE  EverybodyFollows' /\ UNCHANGED Room!room
<1>1. EverybodyFollows' BY DEF EverybodyFollows, Follows, PublicFrom
<1>2. Position' = Position BY PositionIs
<1> QED BY <1>1, <1>2 DEF Room!room

LEMMA BindIsEnter ==
  ASSUME TypeOK, TypeOK', Orderly, EverybodyFollows, NEW c \in Client, ChatBind(c)
  PROVE  EverybodyFollows' /\ Room!Enter(c)
<1>1. reqs[c] # <<>> /\ Head(reqs[c]).type = "bind" /\ clients' = clients \cup {c}
      /\ UNCHANGED <<evs, nick, log, seen>>
  BY DEF ChatBind, NextRequest
<1>2. Ordered(c) /\ reqs[c] \in Seq(Request) BY DEF Orderly, TypeOK
<1>3. c \notin clients BY <1>1, <1>2, TakenInOrder
<1>4. evs[c] = <<>> BY <1>2, <1>3 DEF Ordered
<1>5. Follows(evs[c], log) /\ UnreadOf(evs[c]) = 0 BY <1>4, NothingFollows
<1>6. EverybodyFollows'
  <2>1. \A d \in clients' : Follows(evs[d], log) BY <1>1, <1>5 DEF EverybodyFollows
  <2>2. evs' = evs /\ log' = log BY <1>1
  <2> QED BY <2>1, <2>2 DEF EverybodyFollows
<1>7. Len(log) \in Nat BY LenProperties DEF TypeOK
<1>8. Len(log) - 0 = Len(log) BY <1>7
<1>9. Position' = [Position EXCEPT ![c] = Len(log)]
  <2>1. Position' = [d \in Client |-> IF d \in clients \cup {c} THEN Len(log) - UnreadOf(evs[d]) ELSE 0]
    BY <1>1, PositionIs
  <2>2. \A d \in Client \ {c} : (IF d \in clients \cup {c} THEN Len(log) - UnreadOf(evs[d]) ELSE 0)
                                = (IF d \in clients THEN Len(log) - UnreadOf(evs[d]) ELSE 0)
    OBVIOUS
  <2>3. (IF c \in clients \cup {c} THEN Len(log) - UnreadOf(evs[c]) ELSE 0) = Len(log)
    BY <1>5, <1>8
  <2> QED BY <2>1, <2>2, <2>3, PositionIs
<1> QED BY <1>1, <1>3, <1>6, <1>9 DEF Room!Enter

LEMMA TakeIsTakeName ==
  ASSUME TypeOK, TypeOK', EverybodyFollows, NEW c \in clients, NEW n \in Nick,
         TakeNickname(c, n), UNCHANGED <<clients, seen>>
  PROVE  EverybodyFollows' /\ Room!TakeName(c, n)
<1>1. c \in Client BY DEF TypeOK
<1>2. /\ \A d \in clients \ {c} : nick[d] # n
      /\ nick' = [nick EXCEPT ![c] = n]
      /\ Broadcast(clients, c, Farewell(c), <<Accepted(n)>>, <<Joined(n)>>)
  BY DEF TakeNickname
<1>3. /\ Accepted(n) \in Event \ Public /\ Joined(n) \in Public
      /\ <<Accepted(n)>> \in Seq(Event) /\ <<Joined(n)>> \in Seq(Public)
      /\ Farewell(c) \in Seq(Public)
  BY <1>1, EventKinds, OneElement, FarewellIsPublic
<1>4. Farewell(c) = <<>> \/ (\E e \in Public : Farewell(c) = <<e>>) BY <1>1, FarewellIsOne
<1>5. EverybodyFollows' /\ Position' = Position
  BY <1>1, <1>2, <1>3, <1>4, BroadcastKeepsPositions
<1>6. log' = log \o Room!Farewell(c) \o <<Room!Joined(n)>>
  BY <1>2 DEF Broadcast, Farewell, Joined, Left, Room!Farewell, Room!Joined, Room!Left
<1> QED BY <1>2, <1>5, <1>6 DEF Room!TakeName

LEMMA SayToAllIsSay ==
  ASSUME TypeOK, TypeOK', EverybodyFollows, NEW c \in clients, NEW m \in Content,
         nick[c] # NoNick, SayToAll(c, m), UNCHANGED <<clients, nick, seen>>
  PROVE  EverybodyFollows' /\ Room!Say(c, m)
<1> DEFINE e == Says(nick[c], m)
<1>1. c \in Client /\ nick[c] \in Nick /\ log \in Seq(Public) BY DEF TypeOK
<1>2. e \in Public /\ <<e>> \in Seq(Public) BY <1>1, EventKinds, OneElement
<1>3. Broadcast(clients, c, <<>>, <<>>, <<e>>) BY DEF SayToAll
<1>4. e = Room!Says(nick[c], m) BY DEF Says, Room!Says
<1> HIDE DEF e
<1>5. <<>> \in Seq(Public) /\ <<>> \in Seq(Event) BY EmptySeq
<1>6. EverybodyFollows' /\ Position' = Position
  BY <1>1, <1>2, <1>3, <1>5, BroadcastKeepsPositions
<1>7. log' = log \o <<>> \o <<e>> BY <1>3 DEF Broadcast
<1>8. log' = Append(log, e) BY <1>1, <1>2, <1>7, ConcatEmptySeq, AppendIsConcat
<1> QED BY <1>4, <1>6, <1>8 DEF Room!Say

LEMMA RefusalIsSilent ==
  ASSUME TypeOK, TypeOK', EverybodyFollows, NEW c \in clients, NEW n,
         RefuseNickname(c, n), UNCHANGED <<clients, seen>>
  PROVE  EverybodyFollows' /\ UNCHANGED Room!room
<1>1. c \in Client /\ evs \in [Client -> Seq(Event)] BY DEF TypeOK
<1>2. evs' = [evs EXCEPT ![c] = Append(@, Rejected)] /\ UNCHANGED <<nick, log>>
  BY DEF RefuseNickname
<1>3. Rejected \in Event \ Public BY EventKinds
<1>4. ASSUME NEW d \in clients PROVE Follows(evs'[d], log) /\ UnreadOf(evs'[d]) = UnreadOf(evs[d])
  <2>1. d \in Client /\ evs[d] \in Seq(Event) /\ Follows(evs[d], log)
    BY DEF TypeOK, EverybodyFollows
  <2>2. CASE d = c
    <3>1. evs'[d] = Append(evs[d], Rejected) BY <1>1, <1>2, <2>2
    <3> QED BY <1>3, <2>1, <3>1, FollowsAlone
  <2>3. CASE d # c
    <3>1. evs'[d] = evs[d] BY <1>1, <1>2, <2>1, <2>3
    <3> QED BY <2>1, <3>1
  <2> QED BY <2>2, <2>3
<1>5. EverybodyFollows' BY <1>2, <1>4 DEF EverybodyFollows
<1>6. Position' = Position BY <1>2, <1>4, PositionIs
<1> QED BY <1>2, <1>5, <1>6 DEF Room!room

LEMMA DispatchIsRead ==
  ASSUME TypeOK, TypeOK', Orderly, EverybodyFollows, NEW c \in Client, Dispatch(c)
  PROVE  EverybodyFollows' /\ (Room!ReadNext(c) \/ UNCHANGED Room!room)
<1> DEFINE e == Head(evs[c])
<1>1. /\ evs[c] # <<>> /\ evs' = [evs EXCEPT ![c] = Tail(@)]
      /\ seen' = IF e \in Public THEN [seen EXCEPT ![c] = e] ELSE seen
      /\ UNCHANGED <<clients, nick, log>>
  BY DEF Dispatch
<1>2. c \in clients BY <1>1 DEF Orderly, Ordered
<1>3. evs \in [Client -> Seq(Event)] /\ log \in Seq(Public) BY DEF TypeOK
<1>4. evs[c] \in Seq(Event) /\ Follows(evs[c], log) BY <1>2, <1>3 DEF EverybodyFollows
<1>5. evs'[c] = Tail(evs[c]) /\ \A d \in Client \ {c} : evs'[d] = evs[d] BY <1>1, <1>3
<1>6. /\ Follows(Tail(evs[c]), log)
      /\ e \notin Public => UnreadOf(Tail(evs[c])) = UnreadOf(evs[c])
      /\ e \in Public => /\ UnreadOf(evs[c]) = UnreadOf(Tail(evs[c])) + 1
                         /\ UnreadOf(evs[c]) <= Len(log)
                         /\ e = log[Len(log) - UnreadOf(evs[c]) + 1]
  BY <1>1, <1>3, <1>4, FollowsOn
<1> HIDE DEF e
<1>7. EverybodyFollows'
  <2>1. ASSUME NEW d \in clients PROVE Follows(evs'[d], log)
    <3>1. CASE d = c BY <1>5, <1>6, <3>1
    <3>2. CASE d # c
      <4>1. d \in Client BY DEF TypeOK
      <4> QED BY <1>5, <3>2, <4>1 DEF EverybodyFollows
    <3> QED BY <3>1, <3>2
  <2> QED BY <1>1, <2>1 DEF EverybodyFollows
<1>8. CASE e \notin Public
  <2>1. UnreadOf(evs'[c]) = UnreadOf(evs[c]) BY <1>5, <1>6, <1>8
  <2>2. \A d \in Client : UnreadOf(evs'[d]) = UnreadOf(evs[d]) BY <1>5, <2>1
  <2>3. Position' = Position BY <1>1, <2>2, PositionIs
  <2>4. seen' = seen BY <1>1, <1>8
  <2> QED BY <1>1, <1>7, <2>3, <2>4 DEF Room!room
<1>9. CASE e \in Public
  <2> DEFINE u == UnreadOf(evs[c])
             v == UnreadOf(evs'[c])
  <2>1. u = v + 1 /\ u <= Len(log) /\ e = log[Len(log) - u + 1] BY <1>5, <1>6, <1>9
  <2>2. v \in Nat /\ Len(log) \in Nat
    <3>1. Tail(evs[c]) \in Seq(Event) BY <1>1, <1>4, HeadTailProperties
    <3> QED BY <1>3, <1>5, <3>1, CountIsNat, LenProperties DEF UnreadOf
  <2>3. Position[c] = Len(log) - u BY <1>2, PositionIs
  <2>4. Position' = [Position EXCEPT ![c] = Len(log) - v]
    <3>1. Position' = [d \in Client |-> IF d \in clients THEN Len(log) - UnreadOf(evs'[d]) ELSE 0]
      BY <1>1, PositionIs
    <3> QED BY <1>2, <1>5, <3>1, PositionIs
  <2> HIDE DEF u, v
  <2>5. Len(log) - v = (Len(log) - u) + 1 /\ Len(log) - u < Len(log) BY <2>1, <2>2
  <2>6. Position' = [Position EXCEPT ![c] = Position[c] + 1] /\ Position[c] < Len(log)
    BY <2>3, <2>4, <2>5
  <2>7. seen' = [seen EXCEPT ![c] = log[Position[c] + 1]] BY <1>1, <1>9, <2>1, <2>3
  <2> QED BY <1>1, <1>2, <1>7, <2>6, <2>7 DEF Room!ReadNext
<1> QED BY <1>8, <1>9

LEMMA DestroyIsLeave ==
  ASSUME TypeOK, TypeOK', EverybodyFollows, NEW c \in clients, ClientResourceDestroy(c)
  PROVE  EverybodyFollows' /\ Room!Leave(c)
<1>1. c \in Client /\ evs \in [Client -> Seq(Event)] /\ log \in Seq(Public) BY DEF TypeOK
<1>2. /\ clients' = clients \ {c} /\ log' = log \o Farewell(c)
      /\ evs' = [d \in Client |-> IF d = c THEN <<>>
                                  ELSE IF d \in clients THEN evs[d] \o Farewell(c) ELSE evs[d]]
      /\ nick' = [nick EXCEPT ![c] = NoNick] /\ seen' = [seen EXCEPT ![c] = <<>>]
  BY DEF ClientResourceDestroy
<1>3. Farewell(c) \in Seq(Public) /\ (Farewell(c) = <<>> \/ \E e \in Public : Farewell(c) = <<e>>)
  BY <1>1, FarewellIsPublic, FarewellIsOne
<1>4. ASSUME NEW d \in clients \ {c}
      PROVE  Follows(evs'[d], log') /\ Len(log') - UnreadOf(evs'[d]) = Len(log) - UnreadOf(evs[d])
  <2> DEFINE t == Farewell(c)
  <2>1. d \in Client /\ evs[d] \in Seq(Event) /\ Follows(evs[d], log) BY DEF TypeOK, EverybodyFollows
  <2>2. evs'[d] = evs[d] \o t /\ log' = log \o t BY <1>2, <2>1
  <2>3. t \in Seq(Public) /\ (t = <<>> \/ \E e \in Public : t = <<e>>) BY <1>3
  <2> HIDE DEF t
  <2>4. /\ Follows(evs[d] \o t, log \o t)
        /\ UnreadOf(evs[d] \o t) = UnreadOf(evs[d]) + Len(t)
        /\ Len(log \o t) = Len(log) + Len(t)
    BY <1>1, <2>1, <2>3, FollowsBroadcast
  <2>5. Len(t) \in Nat /\ Len(log) \in Nat /\ UnreadOf(evs[d]) \in Nat
    BY <1>1, <2>1, <2>3, LenProperties, CountIsNat DEF UnreadOf
  <2>6. \A a, b, x \in Nat : (a + x) - (b + x) = a - b OBVIOUS
  <2> QED BY <2>2, <2>4, <2>5, <2>6
<1>5. EverybodyFollows' BY <1>2, <1>4 DEF EverybodyFollows
<1>6. Position' = [Position EXCEPT ![c] = 0]
  <2>1. Position' = [d \in Client |-> IF d \in clients \ {c} THEN Len(log') - UnreadOf(evs'[d]) ELSE 0]
    BY <1>2, PositionIs
  <2>2. \A d \in Client \ {c} : (IF d \in clients \ {c} THEN Len(log') - UnreadOf(evs'[d]) ELSE 0)
                                = (IF d \in clients THEN Len(log) - UnreadOf(evs[d]) ELSE 0)
    BY <1>4
  <2>3. (IF c \in clients \ {c} THEN Len(log') - UnreadOf(evs'[c]) ELSE 0) = 0 OBVIOUS
  <2> QED BY <2>1, <2>2, <2>3, PositionIs
<1>7. log' = log \o Room!Farewell(c) BY <1>2 DEF Farewell, Left, Room!Farewell, Room!Left
<1> QED BY <1>2, <1>5, <1>6, <1>7 DEF Room!Leave

LEMMA ServerRefines ==
  ASSUME TypeOK, TypeOK', Orderly, EverybodyFollows, NEW c \in Client, Server(c)
  PROVE  EverybodyFollows' /\ [Room!RoomNext]_(Room!room)
<1>1. Ordered(c) /\ reqs[c] \in Seq(Request) BY DEF Orderly, TypeOK
<1>2. CASE ChatBind(c)
  <2>1. EverybodyFollows' /\ Room!Enter(c) BY <1>2, BindIsEnter
  <2> QED BY <2>1 DEF Room!RoomNext
<1>3. CASE HandleSetNickname(c)
  <2> DEFINE n == Head(reqs[c]).nick
  <2>1. reqs[c] # <<>> /\ Head(reqs[c]).type = "nick" /\ UNCHANGED <<conn, has, clients, seen>>
        /\ (RefuseNickname(c, n) \/ TakeNickname(c, n))
    BY <1>3 DEF HandleSetNickname, NextRequest
  <2>2. n \in Nick \cup {BadNick} /\ c \in clients
    BY <1>1, <2>1, HeadRequest, RequestFields, TakenInOrder
  <2> HIDE DEF n
  <2>3. CASE RefuseNickname(c, n) BY <2>1, <2>2, <2>3, RefusalIsSilent
  <2>4. CASE TakeNickname(c, n)
    <3>1. n \in Nick BY <2>2, <2>4 DEF TakeNickname
    <3>2. EverybodyFollows' /\ Room!TakeName(c, n) BY <2>1, <2>2, <2>4, <3>1, TakeIsTakeName
    <3> QED BY <3>1, <3>2 DEF Room!RoomNext
  <2> QED BY <2>1, <2>3, <2>4
<1>4. CASE HandleSendMessage(c)
  <2> DEFINE m == Head(reqs[c]).content
  <2>1. reqs[c] # <<>> /\ Head(reqs[c]).type = "say" /\ UNCHANGED <<conn, has, clients, nick, seen>>
        /\ IF nick[c] = NoNick THEN UNCHANGED <<evs, log>> ELSE SayToAll(c, m)
    BY <1>4 DEF HandleSendMessage, NextRequest
  <2>2. m \in Content /\ c \in clients BY <1>1, <2>1, HeadRequest, RequestFields, TakenInOrder
  <2> HIDE DEF m
  <2>3. CASE nick[c] = NoNick BY <2>1, <2>3, QuietStep
  <2>4. CASE nick[c] # NoNick
    <3>1. EverybodyFollows' /\ Room!Say(c, m) BY <2>1, <2>2, <2>4, SayToAllIsSay
    <3> QED BY <2>2, <3>1 DEF Room!RoomNext
  <2> QED BY <2>3, <2>4
<1>5. ASSUME c \in clients, ClientResourceDestroy(c)
      PROVE  EverybodyFollows' /\ [Room!RoomNext]_(Room!room)
  <2>1. EverybodyFollows' /\ Room!Leave(c) BY <1>5, DestroyIsLeave
  <2> QED BY <2>1 DEF Room!RoomNext
<1>6. CASE HandleDestroy(c)
  <2>1. reqs[c] # <<>> /\ Head(reqs[c]).type = "destroy" /\ ClientResourceDestroy(c)
    BY <1>6 DEF HandleDestroy, NextRequest
  <2>2. c \in clients BY <1>1, <2>1, TakenInOrder
  <2> QED BY <1>5, <2>1, <2>2
<1>7. CASE Hangup(c)
  <2>1. (c \in clients /\ ClientResourceDestroy(c)) \/ UNCHANGED <<evs, clients, nick, log, seen>>
    BY <1>7 DEF Hangup
  <2> QED BY <1>5, <2>1, QuietStep
<1> QED BY <1>2, <1>3, <1>4, <1>6, <1>7 DEF Server

\* The server and its sockets are the room: whatever the clients do, and
\* whenever they die, every member reads one log, in order and whole, from
\* the moment it bound.
THEOREM ChatIsRoom == Spec => ImplementsRoom
<1> DEFINE Inv == TypeOK /\ Orderly /\ EverybodyFollows
<1>1. Init => Inv /\ Room!RoomInit
  <2> SUFFICES ASSUME Init PROVE Inv /\ Room!RoomInit OBVIOUS
  <2>1. TypeOK /\ Orderly BY InitIsOrderly
  <2>2. EverybodyFollows BY DEF Init, EverybodyFollows
  <2>3. Position = [c \in Client |-> 0] BY DEF Init, Position
  <2> QED BY <2>1, <2>2, <2>3 DEF Init, Room!RoomInit
<1>2. Inv /\ [Next]_vars => Inv' /\ [Room!RoomNext]_(Room!room)
  <2> SUFFICES ASSUME Inv, [Next]_vars PROVE Inv' /\ [Room!RoomNext]_(Room!room) OBVIOUS
  <2>1. TypeOK' /\ Orderly' BY StepIsOrderly
  <2>2. ASSUME NEW c \in Client, Server(c) PROVE EverybodyFollows' /\ [Room!RoomNext]_(Room!room)
    BY <2>1, <2>2, ServerRefines
  <2>3. ASSUME NEW c \in Client, User(c) PROVE UNCHANGED <<evs, clients, nick, log, seen>>
    BY <2>3 DEF User, Connect, Quit, Crash, Disconnect, InputNick, InputText
  <2>4. ASSUME NEW c \in Client, Dispatch(c) PROVE EverybodyFollows' /\ [Room!RoomNext]_(Room!room)
    <3>1. EverybodyFollows' /\ (Room!ReadNext(c) \/ UNCHANGED Room!room) BY <2>1, <2>4, DispatchIsRead
    <3> QED BY <3>1 DEF Room!RoomNext
  <2>5. CASE UNCHANGED <<evs, clients, nick, log, seen>>
    BY <2>1, <2>5, QuietStep
  <2>6. UNCHANGED vars => UNCHANGED <<evs, clients, nick, log, seen>> BY DEF vars
  <2> QED BY <2>1, <2>2, <2>3, <2>4, <2>5, <2>6 DEF Next
<1> QED BY <1>1, <1>2, PTL DEF Spec, ImplementsRoom, Room!RoomSpec
=============================================================================
