------------------------ MODULE RemoteTextInputProofs -----------------------
(***************************************************************************)
(* Proofs about RemoteTextInput, for any number of pages and sockets and   *)
(* whatever the bounds: the lock, where a text lands, what a page is told  *)
(* of it, and what is left on the screen when a page is gone.              *)
(***************************************************************************)
EXTENDS RemoteTextInput, SequenceTheorems, FiniteSetTheorems, TLAPS

-----------------------------------------------------------------------------
(* Types.                                                                   *)

PageRecord == [sock : 0 .. MaxSockets, draft : BOOLEAN, timer : BOOLEAN,
               composing : BOOLEAN, pendingId : 0 .. MaxSends,
               target : [active : BOOLEAN, epoch : Epochs]]
Input   == [type : {"draft", "send"}, epoch : Epochs, some : BOOLEAN, id : 0 .. MaxSends]
Output  == {[type |-> "waiting"]} \cup [type : {"state"}, active : BOOLEAN, epoch : Epochs]
           \cup [type : {"ack", "error"}, id : 0 .. MaxSends]
Order   == [type : {"draft", "send", "clear", "stop"}, by : 0 .. MaxSockets, epoch : Epochs,
            some : BOOLEAN, id : 0 .. MaxSends]
Commit  == [type : {"draft", "send", "clear"}, by : 0 .. MaxSockets, some : BOOLEAN,
            id : 0 .. MaxSends, epoch : Epochs, serial : Nat]
Signal  == {"activate", "deactivate", "done", "unavailable"}

PageTypes == page \in [Browsers -> PageRecord]
             /\ up \in [Sockets -> Seq(Input)] /\ down \in [Sockets -> Seq(Output)]
             /\ told \in [Ids -> {"nothing", "ack", "error", "unknown"}]
SessionTypes ==
  /\ session \in [Sockets -> {"none", "waiting", "control", "replying"}]
  /\ unseen \in [Sockets -> BOOLEAN]
  /\ reply \in [Sockets -> [answer : {"none", "ack", "error"}, id : 0 .. MaxSends]]
  /\ controller \in Seq(Sockets) /\ commands \in Seq(Order)
WaylandTypes ==
  /\ im \in [active : BOOLEAN, epoch : Nat, pending_active : BOOLEAN,
             pending_reset : BOOLEAN, serial : Nat, running : BOOLEAN]
  /\ events \in Seq(Signal) /\ requests \in Seq(Commit)
  /\ desk \in [active : BOOLEAN, epoch : Nat, dones : Nat, preedit : 0 .. MaxSockets, ours : BOOLEAN]
CountRecord == [typed : Nat, sends : 0 .. MaxSends, focus : 0 .. MaxFocus,
                other : 0 .. MaxOther, sockets : 0 .. MaxSockets]
HistoryTypes ==
  /\ landed \in SUBSET [id : 0 .. MaxSends, asked : Epochs, field : Nat]
  /\ dropped \in SUBSET (0 .. MaxSends) /\ missed \in BOOLEAN
  /\ count \in CountRecord
Types == PageTypes /\ SessionTypes /\ WaylandTypes /\ HistoryTypes

\* The five bounds are numbers.
LEMMA Bounds == MaxTyped \in Nat /\ MaxSends \in Nat /\ MaxFocus \in Nat
                /\ MaxOther \in Nat /\ MaxSockets \in Nat
BY BoundAssumption

LEMMA InitTypes == Init => Types
<1> SUFFICES ASSUME Init PROVE Types OBVIOUS
<1> USE Bounds DEF Init, Sockets, Ids, Epochs
<1>1. 0 \in 0..MaxSockets /\ 0 \in 0..MaxSends /\ 0 \in 0..MaxFocus /\ 0 \in 0..MaxOther OBVIOUS
<1>2. <<>> \in Seq(Input) /\ <<>> \in Seq(Output) /\ <<>> \in Seq(Order) /\ <<>> \in Seq(Commit)
      /\ <<>> \in Seq(Signal) /\ <<>> \in Seq(1..MaxSockets)
  BY EmptySeq
<1>3. PageTypes BY <1>1, <1>2 DEF PageTypes, PageRecord
<1>4. SessionTypes BY <1>1, <1>2 DEF SessionTypes, NoReply
<1>5. WaylandTypes BY <1>1, <1>2 DEF WaylandTypes
<1>6. HistoryTypes BY <1>1 DEF HistoryTypes, CountRecord
<1> QED BY <1>3, <1>4, <1>5, <1>6 DEF Types

\* Putting a message behind a queue and taking one from its head.
LEMMA PutIsTyped ==
  ASSUME NEW S, NEW q \in [Sockets -> Seq(S)], NEW s \in Sockets, NEW m \in S
  PROVE  Put(q, s, m) \in [Sockets -> Seq(S)]
BY AppendProperties DEF Put

LEMMA TailIsTyped ==
  ASSUME NEW S, NEW q \in Seq(S), q # <<>>
  PROVE  Head(q) \in S /\ Tail(q) \in Seq(S)
BY HeadTailProperties

-----------------------------------------------------------------------------
(* What each group of steps does to the types.                              *)

LEMMA SyncDraftIsTyped ==
  ASSUME Types, NEW b \in Browsers, SyncDraft(b)
  PROVE  up' \in [Sockets -> Seq(Input)]
<1> USE DEF Types, PageTypes
<1>1. CASE page[b].sock # 0 /\ page[b].target.active /\ page[b].pendingId = 0
  <2>1. page[b].sock \in Sockets BY <1>1, Bounds DEF PageRecord, Sockets
  <2>2. [type |-> "draft", epoch |-> page[b].target.epoch, some |-> page[b].draft, id |-> 0] \in Input
    BY Bounds DEF PageRecord, Input
  <2>3. up' = Put(up, page[b].sock,
                  [type |-> "draft", epoch |-> page[b].target.epoch, some |-> page[b].draft, id |-> 0])
    BY <1>1 DEF SyncDraft
  <2> QED BY <2>1, <2>2, <2>3, PutIsTyped
<1>2. CASE ~(page[b].sock # 0 /\ page[b].target.active /\ page[b].pendingId = 0)
  BY <1>2 DEF SyncDraft
<1> QED BY <1>1, <1>2

LEMMA TypeTypes == ASSUME Types, NEW b \in Browsers, Type(b) PROVE Types'
<1>t. page \in [Browsers -> PageRecord] BY DEF Types, PageTypes
<1>1. PICK some \in BOOLEAN : page' = [page EXCEPT ![b].draft = some, ![b].timer = TRUE] BY DEF Type
<1>3. page' \in [Browsers -> PageRecord] BY <1>t, <1>1 DEF PageRecord
<1>4. PageTypes' BY <1>3 DEF Types, PageTypes, Type, socket
<1>2. HistoryTypes' BY DEF Types, HistoryTypes, CountRecord, Type, lost
<1> QED BY <1>2, <1>4 DEF Types, SessionTypes, WaylandTypes, Type, server, wayland

LEMMA ComposeTypes ==
  ASSUME Types, NEW b \in Browsers, CompositionStart(b) \/ CompositionEnd(b) \/ TimerFires(b)
  PROVE  Types'
<1>t. page \in [Browsers -> PageRecord] BY DEF Types, PageTypes
<1>1. page' \in [Browsers -> PageRecord]
  <2>1. \/ page' = [page EXCEPT ![b].composing = TRUE]
        \/ page' = [page EXCEPT ![b].composing = FALSE]
        \/ page' = [page EXCEPT ![b].timer = FALSE]
    BY DEF CompositionStart, CompositionEnd, TimerFires
  <2>2. [page EXCEPT ![b].composing = TRUE] \in [Browsers -> PageRecord] BY <1>t DEF PageRecord
  <2>3. [page EXCEPT ![b].composing = FALSE] \in [Browsers -> PageRecord] BY <1>t DEF PageRecord
  <2>4. [page EXCEPT ![b].timer = FALSE] \in [Browsers -> PageRecord] BY <1>t DEF PageRecord
  <2> QED BY <2>1, <2>2, <2>3, <2>4
<1>2. up' \in [Sockets -> Seq(Input)]
  BY SyncDraftIsTyped DEF Types, PageTypes, CompositionStart, CompositionEnd, TimerFires, socket
<1>3. PageTypes' BY <1>1, <1>2 DEF Types, PageTypes, CompositionStart, CompositionEnd, TimerFires, socket
<1>4. HistoryTypes' BY DEF Types, HistoryTypes, CountRecord, CompositionStart, CompositionEnd, TimerFires, lost
<1> QED BY <1>3, <1>4 DEF Types, SessionTypes, WaylandTypes, CompositionStart, CompositionEnd,
                         TimerFires, server, wayland

LEMMA SendTypes == ASSUME Types, NEW b \in Browsers, Send(b) PROVE Types'
<1> DEFINE id == count.sends + 1
<1>1. id \in 0..MaxSends /\ id \in Ids BY Bounds DEF Send, Ids
<1>2. page[b].sock \in Sockets BY Bounds DEF Types, PageTypes, PageRecord, Send, Sockets
<1>3. [type |-> "send", epoch |-> page[b].target.epoch, some |-> TRUE, id |-> id] \in Input
  BY <1>1 DEF Types, PageTypes, PageRecord, Input
<1>4. up' \in [Sockets -> Seq(Input)]
  BY <1>2, <1>3, PutIsTyped DEF Types, PageTypes, Send
<1> HIDE DEF id
<1>5. page' \in [Browsers -> PageRecord]
  <2>1. page' = [page EXCEPT ![b].timer = FALSE, ![b].pendingId = id] BY DEF Send, id
  <2>2. page \in [Browsers -> PageRecord] BY DEF Types, PageTypes
  <2> QED BY <1>1, <2>1, <2>2 DEF PageRecord
<1>6. PageTypes' BY <1>4, <1>5 DEF Types, PageTypes, Send
<1>7. HistoryTypes' BY <1>1 DEF Types, HistoryTypes, CountRecord, Send, lost, id
<1> QED BY <1>6, <1>7 DEF Types, SessionTypes, WaylandTypes, Send, server, wayland

LEMMA ToldIsTyped ==
  ASSUME Types, NEW b \in Browsers, NEW answer \in {"ack", "error", "unknown"}
  PROVE  Told(b, answer) \in [Ids -> {"nothing", "ack", "error", "unknown"}]
BY DEF Told, Types, PageTypes

LEMMA OnMessageTypes == ASSUME Types, NEW b \in Browsers, OnMessage(b) PROVE Types'
<1> DEFINE s == page[b].sock
           m == Head(down[s])
<1>1. s \in Sockets BY Bounds DEF Types, PageTypes, PageRecord, OnMessage, Sockets
<1>2. down[s] \in Seq(Output) /\ down[s] # <<>> BY <1>1 DEF Types, PageTypes, OnMessage
<1>3. m \in Output /\ Tail(down[s]) \in Seq(Output) BY <1>2, TailIsTyped
<1>4. down' = [down EXCEPT ![s] = Tail(@)] BY DEF OnMessage
<1>5. down' \in [Sockets -> Seq(Output)] BY <1>1, <1>3, <1>4 DEF Types, PageTypes
<1>6. page \in [Browsers -> PageRecord] /\ page[b] \in PageRecord BY DEF Types, PageTypes
<1>7. page' \in [Browsers -> PageRecord] /\ told' \in [Ids -> {"nothing", "ack", "error", "unknown"}]
  <2>1. CASE m.type = "waiting" /\ page' = [page EXCEPT ![b].timer = FALSE, ![b].target.active = FALSE]
             /\ UNCHANGED told
    BY <1>6, <2>1 DEF PageRecord, Types, PageTypes
  <2>2. CASE /\ m.type = "state"
             /\ page' = [page EXCEPT ![b].target = [active |-> m.active, epoch |-> m.epoch],
                                     ![b].timer = @ /\ m.epoch = page[b].target.epoch]
             /\ UNCHANGED told
    <3>1. m.active \in BOOLEAN /\ m.epoch \in Epochs BY <1>3, <2>2 DEF Output
    <3>2. (page[b].timer /\ m.epoch = page[b].target.epoch) \in BOOLEAN OBVIOUS
    <3> DEFINE t == page[b].timer /\ m.epoch = page[b].target.epoch
    <3>3. page' = [page EXCEPT ![b].target = [active |-> m.active, epoch |-> m.epoch], ![b].timer = t]
      BY <2>2
    <3>4. t \in BOOLEAN OBVIOUS
    <3> HIDE DEF t
    <3>5. page' \in [Browsers -> PageRecord] BY <1>6, <3>1, <3>3, <3>4 DEF PageRecord
    <3> QED BY <2>2, <3>5 DEF Types, PageTypes
  <2>3. CASE m.type \in {"ack", "error"} /\ OnAnswer(b, m)
    <3>1. CASE UNCHANGED <<page, told>> BY <3>1 DEF Types, PageTypes
    <3>2. CASE page' = [page EXCEPT ![b].pendingId = 0, ![b].draft = @ /\ m.type # "ack"]
               /\ told' = Told(b, m.type)
      <4> DEFINE d == page[b].draft /\ m.type # "ack"
      <4>1. page' = [page EXCEPT ![b].pendingId = 0, ![b].draft = d] BY <3>2
      <4>2. d \in BOOLEAN /\ 0 \in 0..MaxSends BY Bounds
      <4> HIDE DEF d
      <4>3. page' \in [Browsers -> PageRecord] BY <1>6, <4>1, <4>2 DEF PageRecord
      <4> QED BY <2>3, <3>2, <4>3, ToldIsTyped
    <3> QED BY <2>3, <3>1, <3>2 DEF OnAnswer
  <2> QED BY <2>1, <2>2, <2>3 DEF OnMessage
<1>8. PageTypes' BY <1>5, <1>7 DEF Types, PageTypes, OnMessage
<1> QED BY <1>8 DEF Types, SessionTypes, WaylandTypes, HistoryTypes, OnMessage, server, wayland, lost

LEMMA OnCloseTypes == ASSUME Types, NEW b \in Browsers, OnClose(b) PROVE Types'
<1> DEFINE s == page[b].sock
<1>1. s \in Sockets BY Bounds DEF Types, PageTypes, PageRecord, OnClose, Sockets
<1>2. up[s] \in Seq(Input) BY <1>1 DEF Types, PageTypes
<1>3. PICK n \in 0..Len(up[s]) : up' = [up EXCEPT ![s] = SubSeq(@, 1, n)] BY DEF OnClose
<1>4. SubSeq(up[s], 1, n) \in Seq(Input)
  <2>1. n \in Nat /\ n <= Len(up[s]) BY <1>2, LenProperties
  <2>2. \A i \in 1..n : i \in 1..Len(up[s]) BY <1>2, <2>1, LenProperties
  <2>3. \A i \in 1..n : up[s][i] \in Input BY <1>2, <2>2, ElementOfSeq
  <2> QED BY <2>1, <2>3, SubSeqProperties
<1>5. up' \in [Sockets -> Seq(Input)] BY <1>1, <1>3, <1>4 DEF Types, PageTypes
<1>6. down' \in [Sockets -> Seq(Output)] BY EmptySeq DEF Types, PageTypes, OnClose
<1>7. page' \in [Browsers -> PageRecord]
  <2>1. page' = [page EXCEPT ![b].sock = 0, ![b].timer = FALSE,
                             ![b].target.active = FALSE, ![b].pendingId = 0]
    BY DEF OnClose
  <2>2. page \in [Browsers -> PageRecord] BY DEF Types, PageTypes
  <2>3. 0 \in 0..MaxSockets /\ 0 \in 0..MaxSends BY Bounds
  <2> DEFINE closed == [page[b] EXCEPT !.sock = 0, !.timer = FALSE]
             gone == [closed EXCEPT !.target.active = FALSE, !.pendingId = 0]
  <2>4. page[b] \in PageRecord BY <2>2
  <2>5. closed \in PageRecord BY <2>3, <2>4 DEF PageRecord
  <2>6. page' = [page EXCEPT ![b] = gone] BY <2>1, <2>2
  <2> HIDE DEF closed
  <2>7. gone \in PageRecord BY <2>3, <2>5 DEF PageRecord
  <2> QED BY <2>2, <2>6, <2>7
<1>8. told' \in [Ids -> {"nothing", "ack", "error", "unknown"}] BY ToldIsTyped DEF OnClose
<1>9. PageTypes' BY <1>5, <1>6, <1>7, <1>8 DEF PageTypes
<1> QED BY <1>9 DEF Types, SessionTypes, WaylandTypes, HistoryTypes, OnClose, server, wayland, lost

LEMMA ConnectTypes == ASSUME Types, NEW b \in Browsers, Connect(b) PROVE Types'
<1> DEFINE s == count.sockets + 1
<1>1. s \in Sockets /\ s \in 0..MaxSockets BY Bounds DEF Connect, Sockets
<1>2. [type |-> "waiting"] \in Output BY DEF Output
<1> HIDE DEF s
<1>3. down' \in [Sockets -> Seq(Output)] BY <1>1, <1>2, PutIsTyped DEF Types, PageTypes, Connect, s
<1>4. page' \in [Browsers -> PageRecord]
  <2>1. page' = [page EXCEPT ![b].sock = s, ![b].target.active = FALSE] BY DEF Connect, s
  <2>2. page \in [Browsers -> PageRecord] BY DEF Types, PageTypes
  <2>3. page[b] \in PageRecord /\ page[b].target \in [active : BOOLEAN, epoch : Epochs]
    BY <2>2 DEF PageRecord
  <2>4. [page[b].target EXCEPT !.active = FALSE] \in [active : BOOLEAN, epoch : Epochs]
    BY <2>3
  <2> DEFINE g == [page[b].target EXCEPT !.active = FALSE]
  <2>5. page' = [page EXCEPT ![b] = [page[b] EXCEPT !.sock = s, !.target = g]]
    BY <2>1, <2>2, <2>3 DEF PageRecord
  <2> HIDE DEF g
  <2>6. [page[b] EXCEPT !.sock = s, !.target = g] \in PageRecord
    BY <1>1, <2>3, <2>4 DEF PageRecord, g
  <2> QED BY <2>2, <2>5, <2>6
<1>5. PageTypes' BY <1>3, <1>4 DEF Types, PageTypes, Connect
<1>6. controller' \in Seq(Sockets) BY <1>1, AppendProperties DEF Types, SessionTypes, Connect, s
<1>7. SessionTypes' BY <1>1, <1>6 DEF Types, SessionTypes, Connect, s
<1>8. HistoryTypes' BY <1>1 DEF Types, HistoryTypes, CountRecord, Connect, lost, s
<1> QED BY <1>5, <1>7, <1>8 DEF Types, WaylandTypes, Connect, wayland

LEMMA ToPageIsTyped ==
  ASSUME Types, NEW s \in Sockets, NEW m \in Output, ToPage(s, m)
  PROVE  down' \in [Sockets -> Seq(Output)]
<1>1. down \in [Sockets -> Seq(Output)] BY DEF Types, PageTypes
<1>2. Put(down, s, m) \in [Sockets -> Seq(Output)] BY <1>1, PutIsTyped
<1> QED BY <1>1, <1>2 DEF ToPage

LEMMA StateIsOutput ==
  ASSUME Types, im.epoch \in Epochs
  PROVE  State(im) \in Output
BY DEF State, Output, Types, WaylandTypes

LEMMA AnswerIsOutput ==
  ASSUME NEW answer \in {"ack", "error"}, NEW id \in 0..MaxSends
  PROVE  [type |-> answer, id |-> id] \in Output
BY DEF Output

LEMMA TakeTypes ==
  ASSUME Types, im.epoch \in Epochs, NEW s \in Sockets, Take(s) \/ Changed(s)
  PROVE  Types'
<1>1. ToPage(s, State(im)) BY DEF Take, Changed
<1>2. down' \in [Sockets -> Seq(Output)] BY <1>1, StateIsOutput, ToPageIsTyped
<1>3. up' \in [Sockets -> Seq(Input)] BY EmptySeq DEF Types, PageTypes, Take, Changed
<1>4. PageTypes' BY <1>2, <1>3 DEF Types, PageTypes, Take, Changed
<1>5. SessionTypes' BY DEF Types, SessionTypes, Take, Changed
<1> QED BY <1>4, <1>5 DEF Types, WaylandTypes, HistoryTypes, Take, Changed, wayland, lost

LEMMA OrderIsTyped ==
  ASSUME NEW t \in {"draft", "send", "clear", "stop"}, NEW by \in 0..MaxSockets, NEW e \in Epochs,
         NEW some \in BOOLEAN, NEW id \in 0..MaxSends
  PROVE  [type |-> t, by |-> by, epoch |-> e, some |-> some, id |-> id] \in Order
BY DEF Order

LEMMA ProcessTypes == ASSUME Types, NEW s \in Sockets, Process(s) PROVE Types'
<1> DEFINE m == Head(up[s])
           c == [type |-> m.type, by |-> s, epoch |-> m.epoch, some |-> m.some, id |-> m.id]
<1>1. up[s] \in Seq(Input) /\ up[s] # <<>> /\ up' = [up EXCEPT ![s] = Tail(@)]
  BY DEF Types, PageTypes, Process
<1>2. m \in Input /\ Tail(up[s]) \in Seq(Input) BY <1>1, TailIsTyped
<1>3. up' \in [Sockets -> Seq(Input)] BY <1>1, <1>2 DEF Types, PageTypes
<1>4. m.id \in 0..MaxSends BY <1>2 DEF Input
<1>5. \/ /\ commands' = Append(commands, c) /\ session' = [session EXCEPT ![s] = "replying"]
         /\ reply' = [reply EXCEPT ![s].id = m.id] /\ UNCHANGED down
      \/ ToPage(s, [type |-> "error", id |-> m.id]) /\ UNCHANGED <<commands, session, reply>>
  BY DEF Process
<1>6. [type |-> "error", id |-> m.id] \in Output BY <1>4, AnswerIsOutput
<1>7. down' \in [Sockets -> Seq(Output)] BY <1>5, <1>6, ToPageIsTyped DEF Types, PageTypes
<1>m. /\ m.type \in {"draft", "send"} /\ m.epoch \in Epochs /\ m.some \in BOOLEAN
      /\ m.id \in 0..MaxSends /\ s \in 0..MaxSockets
  BY <1>2, Bounds DEF Input, Sockets
<1> HIDE DEF m
<1>8. c \in Order BY <1>m, OrderIsTyped
<1> HIDE DEF c
<1>c. commands \in Seq(Order) BY DEF Types, SessionTypes
<1>a. Append(commands, c) \in Seq(Order) BY <1>8, <1>c, AppendProperties
<1>9. commands' \in Seq(Order) BY <1>5, <1>a, <1>c
<1>b. unseen' = unseen /\ controller' = controller BY DEF Process
<1>d. /\ \/ session' = [session EXCEPT ![s] = "replying"] \/ session' = session
      /\ \/ reply' = [reply EXCEPT ![s].id = m.id] \/ reply' = reply
  BY <1>5
<1>10. SessionTypes'
  <2>1. session' \in [Sockets -> {"none", "waiting", "control", "replying"}]
    BY <1>d DEF Types, SessionTypes
  <2>2. reply' \in [Sockets -> [answer : {"none", "ack", "error"}, id : 0 .. MaxSends]]
    BY <1>4, <1>d DEF Types, SessionTypes
  <2> QED BY <1>9, <1>b, <2>1, <2>2 DEF Types, SessionTypes
<1>11. PageTypes' BY <1>3, <1>7 DEF Types, PageTypes, Process
<1> QED BY <1>10, <1>11 DEF Types, WaylandTypes, HistoryTypes, Process, wayland, lost

LEMMA ReplyTypes == ASSUME Types, NEW s \in Sockets, Reply(s) PROVE Types'
<1>1. reply[s].answer \in {"ack", "error"} /\ reply[s].id \in 0..MaxSends
  BY DEF Types, SessionTypes, Reply
<1>2. down' \in [Sockets -> Seq(Output)]
  BY <1>1, AnswerIsOutput, ToPageIsTyped DEF Reply
<1>3. PageTypes' BY <1>2 DEF Types, PageTypes, Reply
<1>4. SessionTypes' BY Bounds DEF Types, SessionTypes, Reply, NoReply
<1> QED BY <1>3, <1>4 DEF Types, WaylandTypes, HistoryTypes, Reply, wayland, lost

LEMMA OtherIsCounted ==
  ASSUME Types, Other
  PROVE  count' \in CountRecord
<1>1. count \in CountRecord BY DEF Types, HistoryTypes
<1>2. count.other + 1 \in 0..MaxOther BY <1>1, Bounds DEF CountRecord, Other
<1>3. count' = [count EXCEPT !.other = count.other + 1] BY DEF Other
<1> QED BY <1>1, <1>2, <1>3 DEF CountRecord

\* RemoveAt, of the community modules, closes the gap.
LEMMA RemoveAtProperties ==
  ASSUME NEW S, NEW q \in Seq(S), NEW i \in 1..Len(q)
  PROVE  /\ RemoveAt(q, i) \in Seq(S) /\ Len(RemoveAt(q, i)) = Len(q) - 1
         /\ \A j \in 1..Len(q) - 1 : RemoveAt(q, i)[j] = IF j < i THEN q[j] ELSE q[j + 1]
<1> DEFINE n == Len(q)
           a == SubSeq(q, 1, i - 1)
           b == SubSeq(q, i + 1, n)
<1>1. n \in Nat /\ i \in 1..n /\ \A j \in 1..n : q[j] \in S BY LenProperties, ElementOfSeq
<1>2. a \in Seq(S) /\ Len(a) = i - 1 /\ \A j \in 1..i - 1 : a[j] = q[j]
  <2>1. i - 1 \in Int /\ \A j \in 1..i - 1 : q[j] \in S BY <1>1
  <2>2. /\ a \in Seq(S) /\ Len(a) = (IF 1 <= i - 1 THEN i - 1 - 1 + 1 ELSE 0)
        /\ \A j \in 1..i - 1 - 1 + 1 : a[j] = q[1 + j - 1]
    BY <2>1, SubSeqProperties
  <2> HIDE DEF a
  <2> QED BY <1>1, <2>2
<1>3. b \in Seq(S) /\ Len(b) = n - i /\ \A j \in 1..n - i : b[j] = q[i + j]
  <2>1. i + 1 \in Int /\ n \in Int /\ \A j \in i + 1..n : q[j] \in S BY <1>1
  <2>2. /\ b \in Seq(S) /\ Len(b) = (IF i + 1 <= n THEN n - (i + 1) + 1 ELSE 0)
        /\ \A j \in 1..n - (i + 1) + 1 : b[j] = q[(i + 1) + j - 1]
    BY <2>1, SubSeqProperties
  <2> HIDE DEF b
  <2> QED BY <1>1, <2>2
<1>4. RemoveAt(q, i) = a \o b BY DEF RemoveAt
<1> HIDE DEF a, b, n
<1>5. /\ a \o b \in Seq(S) /\ Len(a \o b) = Len(a) + Len(b)
      /\ \A j \in 1..Len(a) + Len(b) : (a \o b)[j] = IF j <= Len(a) THEN a[j] ELSE b[j - Len(a)]
  BY <1>2, <1>3, ConcatProperties
<1>6. Len(a) + Len(b) = n - 1 BY <1>1, <1>2, <1>3
<1>7. ASSUME NEW j \in 1..n - 1 PROVE (a \o b)[j] = IF j < i THEN q[j] ELSE q[j + 1]
  <2>1. CASE j < i
    <3>1. j \in 1..i - 1 /\ j <= i - 1 /\ j \in 1..Len(a) + Len(b) BY <1>1, <1>6, <2>1
    <3> QED BY <1>2, <1>5, <2>1, <3>1
  <2>2. CASE ~(j < i)
    <3>1. j - (i - 1) \in 1..n - i /\ i + (j - (i - 1)) = j + 1 /\ ~(j <= i - 1)
      BY <1>1, <2>2
    <3>2. j \in 1..Len(a) + Len(b) /\ Len(a) = i - 1 BY <1>2, <1>6
    <3>3. (a \o b)[j] = b[j - (i - 1)] BY <1>5, <3>1, <3>2
    <3> QED BY <1>3, <2>2, <3>1, <3>3
  <2> QED BY <2>1, <2>2
<1> QED BY <1>4, <1>5, <1>6, <1>7 DEF n

LEMMA EndTypes == ASSUME Types, NEW s \in Sockets, End(s) PROVE Types'
<1>1. ClearOf(s) \in Order BY Bounds DEF ClearOf, Order, Epochs, Sockets
<1>c. commands \in Seq(Order) BY DEF Types, SessionTypes
<1>a. Append(commands, ClearOf(s)) \in Seq(Order) BY <1>1, <1>c, AppendProperties
<1>2. commands' \in Seq(Order) BY <1>a, <1>c DEF End
<1>3. controller' \in Seq(Sockets)
  <2>1. controller \in Seq(Sockets) BY DEF Types, SessionTypes
  <2>2. PICK i \in DOMAIN controller : controller' = RemoveAt(controller, i) BY DEF End, Leave
  <2>3. i \in 1..Len(controller) BY <2>1, LenProperties
  <2> QED BY <2>1, <2>2, <2>3, RemoveAtProperties
<1>4. SessionTypes' BY <1>2, <1>3 DEF Types, SessionTypes, End, Leave
<1>5. PageTypes' BY EmptySeq DEF Types, PageTypes, End, Leave
<1> QED BY <1>4, <1>5 DEF Types, WaylandTypes, HistoryTypes, End, Leave, wayland, lost

LEMMA CtrlCTypes == ASSUME Types, CtrlC PROVE Types'
<1>1. [ClearOf(0) EXCEPT !.type = "stop"] \in Order
  <2>1. ClearOf(0) \in Order BY Bounds DEF ClearOf, Order, Epochs
  <2>2. \A c \in Order : [c EXCEPT !.type = "stop"] \in Order BY DEF Order
  <2> QED BY <2>1, <2>2
<1>c. commands \in Seq(Order) BY DEF Types, SessionTypes
<1>a. Append(commands, [ClearOf(0) EXCEPT !.type = "stop"]) \in Seq(Order)
  BY <1>1, <1>c, AppendProperties
<1>2. SessionTypes' BY <1>a DEF Types, SessionTypes, CtrlC, server
<1>3. HistoryTypes' BY OtherIsCounted DEF Types, HistoryTypes, CtrlC, lost
<1> QED BY <1>2, <1>3 DEF Types, PageTypes, WaylandTypes, CtrlC, socket, wayland

\* The commands the thread takes: what it asks of the compositor is a commit.
LEMMA RequestIsTyped ==
  ASSUME Types, NEW c \in Order, c.type # "stop", Request(c)
  PROVE  requests' \in Seq(Commit)
<1>1. [type |-> c.type, by |-> c.by, some |-> c.some, id |-> c.id, epoch |-> c.epoch,
       serial |-> im.serial] \in Commit
  BY DEF Order, Commit, Types, WaylandTypes
<1> QED BY <1>1, AppendProperties DEF Request, Types, WaylandTypes

LEMMA CommandTypes == ASSUME Types, Command PROVE Types'
<1> DEFINE c == Head(commands)
<1>1. commands \in Seq(Order) /\ commands # <<>> /\ commands' = Tail(commands)
  BY DEF Types, SessionTypes, Command
<1>2. c \in Order /\ commands' \in Seq(Order) BY <1>1, TailIsTyped
<1>3. UNCHANGED <<page, socket, session, unseen, controller, events, desk, told, lost, count>>
  BY DEF Command
<1>4. ASSUME NEW d \in Order, NEW answer \in {"ack", "error"}, Replied(d, answer)
      PROVE  reply' \in [Sockets -> [answer : {"none", "ack", "error"}, id : 0 .. MaxSends]]
  BY <1>4 DEF Replied, Types, SessionTypes
<1>5. ClearOf(0) \in Order /\ ClearOf(0).type # "stop" BY Bounds DEF ClearOf, Order, Epochs
<1>6. /\ reply' \in [Sockets -> [answer : {"none", "ack", "error"}, id : 0 .. MaxSends]]
      /\ requests' \in Seq(Commit) /\ (im' = im \/ im' = [im EXCEPT !.running = FALSE])
  <2> HIDE DEF c
  <2>r. reply \in [Sockets -> [answer : {"none", "ack", "error"}, id : 0 .. MaxSends]]
        /\ requests \in Seq(Commit)
    BY DEF Types, SessionTypes, WaylandTypes
  <2>1. CASE im.running /\ c.type \in {"draft", "send"} /\ Update(c) /\ UNCHANGED im
    BY <1>2, <1>4, <2>1, <2>r, RequestIsTyped DEF Update
  <2>2. CASE im.running /\ c.type = "clear" /\ Clear(c) /\ UNCHANGED <<reply, im>>
    BY <1>2, <2>2, <2>r, RequestIsTyped DEF Clear
  <2>3. CASE im.running /\ c.type = "stop" /\ Clear(ClearOf(0))
             /\ im' = [im EXCEPT !.running = FALSE] /\ UNCHANGED reply
    BY <1>5, <2>3, <2>r, RequestIsTyped DEF Clear
  <2>4. CASE /\ ~im.running
             /\ IF c.type \in {"draft", "send"} THEN Replied(c, "error") ELSE UNCHANGED reply
             /\ UNCHANGED <<im, requests>>
    BY <1>2, <1>4, <2>4, <2>r
  <2> QED BY <2>1, <2>2, <2>3, <2>4 DEF Command, c
<1>7. SessionTypes' BY <1>2, <1>3, <1>6 DEF Types, SessionTypes
<1>8. WaylandTypes' BY <1>3, <1>6 DEF Types, WaylandTypes
<1> QED BY <1>3, <1>7, <1>8 DEF Types, PageTypes, HistoryTypes, socket, lost

LEMMA EventTypes == ASSUME Types, Event PROVE Types'
<1>1. events \in Seq(Signal) /\ events # <<>> /\ events' = Tail(events)
  BY DEF Types, WaylandTypes, Event
<1>2. events' \in Seq(Signal) BY <1>1, TailIsTyped
<1>3. unseen' \in [Sockets -> BOOLEAN]
  <2>1. CASE UNCHANGED unseen BY <2>1 DEF Types, SessionTypes
  <2>2. CASE Publish
    <3>1. \A s \in Sockets : (session[s] \in {"control", "replying"}) \in BOOLEAN OBVIOUS
    <3> QED BY <2>2, <3>1, Zenon DEF Publish
  <2> QED BY <2>1, <2>2 DEF Event
<1>4. im' \in [active : BOOLEAN, epoch : Nat, pending_active : BOOLEAN,
               pending_reset : BOOLEAN, serial : Nat, running : BOOLEAN]
  <2>t. im \in [active : BOOLEAN, epoch : Nat, pending_active : BOOLEAN,
                pending_reset : BOOLEAN, serial : Nat, running : BOOLEAN]
    BY DEF Types, WaylandTypes
  <2>1. CASE im' = [im EXCEPT !.pending_active = Head(events) = "activate", !.pending_reset = TRUE]
    <3> DEFINE a == Head(events) = "activate"
    <3>1. a \in BOOLEAN /\ im' = [im EXCEPT !.pending_active = a, !.pending_reset = TRUE]
      BY <2>1
    <3> HIDE DEF a
    <3> QED BY <2>t, <3>1
  <2>2. CASE im' = [im EXCEPT !.serial = @ + 1, !.active = im.pending_active,
                              !.epoch = IF im.pending_reset THEN @ + 1 ELSE @,
                              !.pending_reset = FALSE]
    <3> DEFINE e == IF im.pending_reset THEN im.epoch + 1 ELSE im.epoch
               n == im.serial + 1
    <3>1. e \in Nat /\ n \in Nat BY <2>t
    <3>2. im' = [im EXCEPT !.serial = n, !.active = im.pending_active, !.epoch = e, !.pending_reset = FALSE]
      BY <2>2
    <3> HIDE DEF e, n
    <3> QED BY <2>t, <3>1, <3>2
  <2>3. CASE im' = [im EXCEPT !.active = FALSE, !.running = FALSE] BY <2>t, <2>3
  <2> QED BY <2>1, <2>2, <2>3 DEF Event
<1>5. SessionTypes' BY <1>3 DEF Types, SessionTypes, Event
<1>6. WaylandTypes' BY <1>2, <1>4 DEF Types, WaylandTypes, Event
<1> QED BY <1>5, <1>6 DEF Types, PageTypes, HistoryTypes, Event, socket, lost

LEMMA DeskTypes == ASSUME Types, Desk PROVE Types'
<1> DEFINE D == [active : BOOLEAN, epoch : Nat, dones : Nat, preedit : 0 .. MaxSockets, ours : BOOLEAN]
<1>t. desk \in D /\ events \in Seq(Signal) /\ 0 \in 0..MaxSockets
  BY Bounds DEF Types, WaylandTypes
<1>1. ASSUME NEW event \in {"activate", "deactivate"}, Focus(event) PROVE Types'
  <2> DEFINE a == event = "activate"
             e == desk.epoch + 1
             n == desk.dones + 1
  <2>1. desk' = [desk EXCEPT !.active = a, !.epoch = e, !.dones = n, !.preedit = 0]
    BY <1>1 DEF Focus
  <2>2. a \in BOOLEAN /\ e \in Nat /\ n \in Nat BY <1>t
  <2> HIDE DEF a, e, n
  <2>3. desk' \in D BY <1>t, <2>1, <2>2
  <2>4. <<event, "done">> \in Seq(Signal) BY DEF Signal
  <2>5. events' \in Seq(Signal) BY <1>1, <1>t, <2>4, ConcatProperties DEF Focus
  <2>c. count \in CountRecord /\ count.focus + 1 \in 0..MaxFocus
        /\ count' = [count EXCEPT !.focus = count.focus + 1]
    BY <1>1, Bounds DEF Types, HistoryTypes, CountRecord, Focus
  <2>d. count' \in CountRecord BY <2>c DEF CountRecord
  <2>6. HistoryTypes' BY <1>1, <2>d DEF Types, HistoryTypes, Focus, lost
  <2>7. WaylandTypes' BY <1>1, <2>3, <2>5 DEF Types, WaylandTypes, Focus
  <2> QED BY <1>1, <2>6, <2>7 DEF Types, PageTypes, SessionTypes, Focus, socket, server
<1>2. CASE Touch
  <2>1. desk' \in D BY <1>2, <1>t DEF Touch
  <2>2. events' \in Seq(Signal) BY <1>2, <1>t, AppendProperties DEF Touch, Signal
  <2>3. HistoryTypes' BY <1>2, OtherIsCounted DEF Types, HistoryTypes, Touch, lost
  <2>4. WaylandTypes' BY <1>2, <2>1, <2>2 DEF Types, WaylandTypes, Touch
  <2> QED BY <1>2, <2>3, <2>4 DEF Types, PageTypes, SessionTypes, Touch, socket, server
<1>3. CASE Refuse
  <2>1. desk' = [desk EXCEPT !.active = FALSE, !.preedit = 0, !.ours = FALSE] BY <1>3 DEF Refuse
  <2>2. desk' \in D BY <1>t, <2>1
  <2>3. events' \in Seq(Signal) BY <1>3, <1>t, AppendProperties DEF Refuse, Signal
  <2>4. HistoryTypes' BY <1>3, OtherIsCounted DEF Types, HistoryTypes, Refuse, lost
  <2>5. WaylandTypes' BY <1>3, <2>2, <2>3 DEF Types, WaylandTypes, Refuse
  <2> QED BY <1>3, <2>4, <2>5 DEF Types, PageTypes, SessionTypes, Refuse, socket, server
<1> QED BY <1>1, <1>2, <1>3 DEF Desk

LEMMA ApplyTypes == ASSUME Types, Apply PROVE Types'
<1> DEFINE r == Head(requests)
           fresh == desk.ours /\ r.serial = desk.dones
           p == IF r.type = "draft" /\ r.some THEN r.by ELSE 0
<1>1. requests \in Seq(Commit) /\ requests # <<>> /\ requests' = Tail(requests)
  BY DEF Types, WaylandTypes, Apply
<1>2. r \in Commit /\ requests' \in Seq(Commit) BY <1>1, TailIsTyped
<1>3. desk' = IF fresh THEN [desk EXCEPT !.preedit = p] ELSE desk BY DEF Apply
<1>4. p \in 0..MaxSockets BY <1>2, Bounds DEF Commit
<1>5. WaylandTypes' BY <1>2, <1>3, <1>4 DEF Types, WaylandTypes, Apply
<1>6. HistoryTypes'
  <2>1. [id |-> r.id, asked |-> r.epoch, field |-> desk.epoch]
          \in [id : 0 .. MaxSends, asked : Epochs, field : Nat]
    BY <1>2 DEF Commit, Types, WaylandTypes
  <2>2. landed' \in SUBSET [id : 0 .. MaxSends, asked : Epochs, field : Nat]
    BY <2>1 DEF Types, HistoryTypes, Apply
  <2>3. dropped' \in SUBSET (0 .. MaxSends) BY <1>2 DEF Commit, Types, HistoryTypes, Apply
  <2>4. missed' \in BOOLEAN
    <3>1. missed' = (~fresh /\ (missed \/ r.type = "clear")) BY DEF Apply
    <3> QED BY <3>1, Zenon
  <2> QED BY <2>2, <2>3, <2>4 DEF Types, HistoryTypes, Apply
<1> QED BY <1>5, <1>6 DEF Types, PageTypes, SessionTypes, Apply, socket, server

-----------------------------------------------------------------------------
(* What the thread knows lags behind the compositor by the events on their  *)
(* way, and what it asked for carries what it knew then.                    *)

\* The elements of s that are in K.
Count(s, K) == Cardinality({i \in 1..Len(s) : s[i] \in K})

LEMMA CountType == ASSUME NEW S, NEW s \in Seq(S), NEW K PROVE Count(s, K) \in Nat
<1>1. IsFiniteSet(1..Len(s)) BY LenProperties, FS_Interval
<1>2. IsFiniteSet({i \in 1..Len(s) : s[i] \in K}) BY <1>1, FS_Subset
<1> QED BY <1>2, FS_CardinalityType DEF Count

LEMMA CountAppend ==
  ASSUME NEW S, NEW s \in Seq(S), NEW e \in S, NEW K
  PROVE  /\ Count(s, K) \in Nat
         /\ Count(Append(s, e), K) = IF e \in K THEN Count(s, K) + 1 ELSE Count(s, K)
<1> DEFINE A == {i \in 1..Len(s) : s[i] \in K}
           t == Append(s, e)
           B == {i \in 1..Len(t) : t[i] \in K}
<1>1. /\ Len(s) \in Nat /\ Len(t) = Len(s) + 1
      /\ \A i \in 1..Len(s) : t[i] = s[i]
      /\ t[Len(s) + 1] = e
  BY AppendProperties, LenProperties
<1>2. IsFiniteSet(A) /\ Cardinality(A) \in Nat
  <2>1. IsFiniteSet(1..Len(s)) BY <1>1, FS_Interval
  <2> QED BY <2>1, FS_Subset, FS_CardinalityType
<1> HIDE DEF t
<1>3. \A i \in 1..Len(t) : i = Len(s) + 1 \/ i \in 1..Len(s) BY <1>1
<1>4. Len(s) + 1 \in 1..Len(t) /\ \A i \in 1..Len(s) : i \in 1..Len(t) BY <1>1
<1>5. Len(s) + 1 \notin A BY <1>1
<1>6. CASE e \in K
  <2>1. B = A \cup {Len(s) + 1} BY <1>1, <1>3, <1>4, <1>6
  <2> HIDE DEF A, B
  <2>2. Cardinality(B) = Cardinality(A) + 1 BY <1>2, <1>5, <2>1, FS_AddElement
  <2> QED BY <1>2, <1>6, <2>2 DEF Count, A, B, t
<1>7. CASE e \notin K
  <2>1. B = A BY <1>1, <1>3, <1>4, <1>7
  <2> QED BY <1>2, <1>7, <2>1 DEF Count, t
<1> QED BY <1>6, <1>7

LEMMA CountTail ==
  ASSUME NEW S, NEW s \in Seq(S), s # <<>>, NEW K
  PROVE  /\ Count(s, K) \in Nat /\ Count(Tail(s), K) \in Nat
         /\ Count(s, K) = IF Head(s) \in K THEN Count(Tail(s), K) + 1 ELSE Count(Tail(s), K)
<1> DEFINE t == Tail(s)
           A == {i \in 1..Len(t) : t[i] \in K}
           B == {i \in 2..Len(s) : s[i] \in K}
           C == {i \in 1..Len(s) : s[i] \in K}
           f == [j \in A |-> j + 1]
<1>1. /\ Len(s) \in Nat \ {0} /\ t \in Seq(S) /\ Len(t) = Len(s) - 1
      /\ \A i \in 1..Len(t) : t[i] = s[i + 1]
      /\ Head(s) = s[1]
  BY EmptySeq, HeadTailProperties
<1> HIDE DEF t
<1>2. IsFiniteSet(A) /\ Cardinality(A) \in Nat
  <2>1. Len(t) \in Int BY <1>1
  <2>2. IsFiniteSet(1..Len(t)) BY <2>1, FS_Interval
  <2> QED BY <2>2, FS_Subset, FS_CardinalityType
<1>3. IsFiniteSet(B) /\ Cardinality(B) = Cardinality(A)
  <2>2. \A j \in A : j \in 1..Len(t) /\ j + 1 \in 2..Len(s) /\ s[j + 1] \in K BY <1>1
  <2>3. f \in [A -> B] BY <2>2
  <2>4. \A j, k \in A : f[j] = f[k] => j = k BY <2>2
  <2>5. ASSUME NEW k \in B PROVE \E j \in A : f[j] = k
    <3>1. k \in 2..Len(s) /\ s[k] \in K OBVIOUS
    <3>2. k - 1 \in 1..Len(t) /\ (k - 1) + 1 = k BY <1>1, <3>1
    <3>3. t[k - 1] = s[k] BY <1>1, <3>2
    <3>4. k - 1 \in A BY <3>1, <3>2, <3>3
    <3> QED BY <3>2, <3>4
  <2> HIDE DEF A, B, f
  <2>6. f \in Bijection(A, B)
    BY <2>3, <2>4, <2>5 DEF Bijection, Injection, Surjection, IsInjective
  <2>7. ExistsBijection(A, B) BY <2>6 DEF ExistsBijection
  <2> QED BY <1>2, <2>7, FS_Bijection
<1>4. 1 \notin B OBVIOUS
<1>5. C = IF Head(s) \in K THEN B \cup {1} ELSE B BY <1>1
<1> HIDE DEF A, B, C
<1>6. Cardinality(C) = IF Head(s) \in K THEN Cardinality(A) + 1 ELSE Cardinality(A)
  BY <1>3, <1>4, <1>5, FS_AddElement
<1>7. Count(t, K) = Cardinality(A) BY DEF Count, A
<1>8. Count(s, K) = Cardinality(C) BY DEF Count, C
<1>9. Cardinality(A) + 1 \in Nat BY <1>2
<1>10. Count(s, K) \in Nat BY <1>2, <1>6, <1>8, <1>9
<1> QED BY <1>2, <1>6, <1>7, <1>8, <1>10 DEF t

\* Nothing of K in s.
LEMMA CountNone ==
  ASSUME NEW S, NEW s \in Seq(S), NEW K
  PROVE  Count(s, K) = 0 <=> \A i \in 1..Len(s) : s[i] \notin K
<1>1. IsFiniteSet(1..Len(s)) BY LenProperties, FS_Interval
<1>2. IsFiniteSet({i \in 1..Len(s) : s[i] \in K}) BY <1>1, FS_Subset
<1> DEFINE A == {i \in 1..Len(s) : s[i] \in K}
<1>3. Cardinality(A) = 0 <=> A = {} BY <1>2, FS_EmptySet
<1>4. A = {} <=> \A i \in 1..Len(s) : s[i] \notin K OBVIOUS
<1>5. Count(s, K) = Cardinality(A) BY DEF Count
<1> QED BY <1>3, <1>4, <1>5

Changes == {"activate", "deactivate"}

\* Every change of the focus is followed by its done event, and the thread
\* has counted all done events and all changes but those under way.
Lag ==
  /\ \A i \in 1..Len(events) : events[i] \in Changes => i < Len(events) /\ events[i + 1] = "done"
  /\ im.pending_reset => events # <<>> /\ Head(events) = "done"
  /\ desk.dones = im.serial + Count(events, {"done"})
  /\ desk.epoch = im.epoch + Count(events, Changes) + (IF im.pending_reset THEN 1 ELSE 0)
  /\ desk.epoch = count.focus /\ desk.dones <= count.focus + count.other

\* A commit on its way is for the epoch of its serial.
Stamped ==
  \A i \in 1..Len(requests) :
    /\ requests[i].serial <= im.serial
    /\ requests[i].serial = im.serial /\ requests[i].type \in {"draft", "send"}
         => requests[i].epoch = im.epoch

\* The thread knows of no more changes than there were.
LEMMA ThreadIsBehind ==
  ASSUME Types, Lag
  PROVE  /\ im.epoch \in Epochs /\ im.serial \in 0..MaxFocus + MaxOther
         /\ im.serial <= desk.dones
         /\ im.serial = desk.dones => im.epoch = desk.epoch /\ ~im.pending_reset
                                      /\ \A i \in 1..Len(events) : events[i] = "unavailable"
<1>1. /\ im.epoch \in Nat /\ im.serial \in Nat /\ desk.epoch \in Nat /\ desk.dones \in Nat
      /\ events \in Seq(Signal)
      /\ count.focus \in 0..MaxFocus /\ count.other \in 0..MaxOther
  BY DEF Types, WaylandTypes, HistoryTypes, CountRecord
<1>2. Count(events, {"done"}) \in Nat /\ Count(events, Changes) \in Nat
  BY <1>1, CountType
<1> DEFINE p == IF im.pending_reset THEN 1 ELSE 0
           d == Count(events, {"done"})
           c == Count(events, Changes)
<1>3. desk.dones = im.serial + d /\ desk.epoch = im.epoch + c + p
      /\ desk.epoch = count.focus /\ desk.dones <= count.focus + count.other
  BY DEF Lag
<1>4. p \in {0, 1} OBVIOUS
<1>n. (p = 0 <=> ~im.pending_reset) /\ d \in Nat /\ c \in Nat BY <1>2
<1> HIDE DEF p, d, c
<1>5. im.epoch \in Epochs /\ im.serial \in 0..MaxFocus + MaxOther /\ im.serial <= desk.dones
  <2>1. \A a, b, x, k, m : /\ a \in Nat /\ b \in Nat /\ x \in Nat /\ k \in 0..m /\ m \in Nat
                            /\ k = a + b + x => a \in 0..m
    OBVIOUS
  <2>2. \A a, b, k, l, m, o : /\ a \in Nat /\ b \in Nat /\ k \in 0..m /\ m \in Nat
                              /\ l \in 0..o /\ o \in Nat /\ a + b <= k + l
                              => a \in 0..m + o /\ a <= a + b
    OBVIOUS
  <2>3. MaxFocus \in Nat /\ MaxOther \in Nat /\ p \in Nat BY <1>4, Bounds
  <2>4. im.epoch \in 0..MaxFocus BY <1>1, <1>n, <1>3, <2>1, <2>3
  <2>5. im.serial + d <= count.focus + count.other BY <1>3
  <2>6. im.serial \in 0..MaxFocus + MaxOther /\ im.serial <= im.serial + d
    BY <1>1, <1>n, <2>2, <2>3, <2>5
  <2> QED BY <1>3, <2>4, <2>6 DEF Epochs
<1>6. ASSUME im.serial = desk.dones
      PROVE  im.epoch = desk.epoch /\ ~im.pending_reset
             /\ \A i \in 1..Len(events) : events[i] = "unavailable"
  <2>1. d = 0 BY <1>1, <1>n, <1>3, <1>6
  <2>2. \A i \in 1..Len(events) : events[i] # "done" BY <1>1, <2>1, CountNone DEF d
  <2>3. Len(events) \in Nat BY <1>1, LenProperties
  <2>4. \A i \in 1..Len(events) : events[i] \notin Changes
    <3>1. \A i \in 1..Len(events) : i < Len(events) => i + 1 \in 1..Len(events) BY <2>3
    <3> QED BY <2>2, <3>1 DEF Lag
  <2>5. c = 0 BY <1>1, <2>4, CountNone DEF c
  <2>6. ~im.pending_reset
    <3>1. SUFFICES ASSUME events # <<>>, Head(events) = "done" PROVE FALSE BY DEF Lag
    <3>2. 1 \in 1..Len(events) /\ Head(events) = events[1] BY <1>1, <3>1, EmptySeq
    <3> QED BY <2>2, <3>1, <3>2
  <2>7. im.epoch = desk.epoch BY <1>1, <1>n, <1>3, <2>5, <2>6
  <2>8. \A i \in 1..Len(events) : events[i] \in Signal BY <1>1, ElementOfSeq
  <2> QED BY <2>2, <2>4, <2>6, <2>7, <2>8 DEF Signal, Changes
<1> QED BY <1>5, <1>6

LEMMA EventKeepsLag == ASSUME Types, Lag, Event PROVE Lag'
<1> DEFINE t == Tail(events)
<1>t. /\ im.epoch \in Nat /\ im.serial \in Nat /\ desk.epoch \in Nat /\ desk.dones \in Nat
      /\ events \in Seq(Signal)
      /\ im \in [active : BOOLEAN, epoch : Nat, pending_active : BOOLEAN,
                 pending_reset : BOOLEAN, serial : Nat, running : BOOLEAN]
  BY DEF Types, WaylandTypes
<1>1. events # <<>> /\ events' = t /\ desk' = desk /\ count' = count BY DEF Event
<1>2. /\ Len(events) \in Nat \ {0} /\ t \in Seq(Signal) /\ Len(t) = Len(events) - 1
      /\ \A i \in 1..Len(t) : t[i] = events[i + 1]
      /\ Head(events) = events[1]
  BY <1>1, <1>t, EmptySeq, HeadTailProperties
<1> DEFINE d == Count(events, {"done"})
           c == Count(events, Changes)
           d1 == Count(t, {"done"})
           c1 == Count(t, Changes)
<1>3. /\ d \in Nat /\ c \in Nat /\ d1 \in Nat /\ c1 \in Nat
      /\ d = IF Head(events) = "done" THEN d1 + 1 ELSE d1
      /\ c = IF Head(events) \in Changes THEN c1 + 1 ELSE c1
  BY <1>1, <1>t, CountTail
<1> HIDE DEF t, d, c, d1, c1
<1>4. /\ desk.dones = im.serial + d
      /\ desk.epoch = im.epoch + c + (IF im.pending_reset THEN 1 ELSE 0)
      /\ desk.epoch = count.focus /\ desk.dones <= count.focus + count.other
      /\ im.pending_reset => Head(events) = "done"
  BY DEF Lag, d, c
<1>5. \A i \in 1..Len(t) : t[i] \in Changes => i < Len(t) /\ t[i + 1] = "done"
  <2> SUFFICES ASSUME NEW i \in 1..Len(t), t[i] \in Changes PROVE i < Len(t) /\ t[i + 1] = "done"
    OBVIOUS
  <2>1. i + 1 \in 1..Len(events) /\ events[i + 1] \in Changes BY <1>2
  <2>2. i + 1 < Len(events) /\ events[i + 1 + 1] = "done" BY <2>1 DEF Lag
  <2>3. i < Len(t) /\ i + 1 \in 1..Len(t) BY <1>2, <2>2
  <2> QED BY <1>2, <2>2, <2>3
<1>6. Head(events) \in Changes => t # <<>> /\ Head(t) = "done"
  <2> SUFFICES ASSUME Head(events) \in Changes PROVE t # <<>> /\ Head(t) = "done" OBVIOUS
  <2>1. 1 \in 1..Len(events) BY <1>2
  <2>2. 1 < Len(events) /\ events[1 + 1] = "done" BY <1>2, <2>1 DEF Lag
  <2>3. Len(t) >= 1 BY <1>2, <2>2
  <2>4. 1 \in 1..Len(t) /\ t[1] = "done" BY <1>2, <2>2, <2>3
  <2>5. t # <<>> BY <2>3, EmptySeq
  <2> QED BY <1>2, <2>4, <2>5
<1> DEFINE p == IF im.pending_reset THEN 1 ELSE 0
           p1 == IF im'.pending_reset THEN 1 ELSE 0
<1>7. CASE Head(events) \in Changes
           /\ im' = [im EXCEPT !.pending_active = Head(events) = "activate", !.pending_reset = TRUE]
  <2>1. im'.serial = im.serial /\ im'.epoch = im.epoch /\ im'.pending_reset BY <1>t, <1>7
  <2>2. Head(events) # "done" BY <1>7 DEF Changes
  <2>3. ~im.pending_reset BY <1>4, <2>2
  <2>4. p = 0 /\ p1 = 1 BY <2>1, <2>3
  <2> HIDE DEF p, p1
  <2>5. desk.epoch = im.epoch + c + p BY <1>4 DEF p
  <2>6. desk.dones = im.serial + d1 /\ desk.epoch = im.epoch + c1 + p1
    BY <1>t, <1>3, <1>4, <1>7, <2>2, <2>4, <2>5
  <2> QED BY <1>1, <1>4, <1>5, <1>6, <1>7, <2>1, <2>6 DEF Lag, d1, c1, p1
<1>8. CASE Head(events) = "done"
           /\ im' = [im EXCEPT !.serial = @ + 1, !.active = im.pending_active,
                               !.epoch = IF im.pending_reset THEN @ + 1 ELSE @,
                               !.pending_reset = FALSE]
  <2>1. im'.serial = im.serial + 1 /\ im'.epoch = im.epoch + p /\ ~im'.pending_reset
    BY <1>t, <1>8
  <2>2. Head(events) \notin Changes BY <1>8 DEF Changes
  <2>4. p \in Nat /\ p1 = 0 BY <2>1
  <2>5. desk.epoch = im.epoch + c + p BY <1>4
  <2> HIDE DEF p, p1
  <2>7. d1 \in Nat /\ d1 + 1 = d /\ c1 \in Nat /\ c1 = c BY <1>3, <1>8, <2>2
  <2>8. desk.dones = im'.serial + d1 BY <1>t, <1>4, <2>1, <2>7
  <2>9. desk.epoch = im'.epoch + c1 + p1 BY <1>t, <2>1, <2>4, <2>5, <2>7
  <2>6. desk.dones = im'.serial + d1 /\ desk.epoch = im'.epoch + c1 + p1 BY <2>8, <2>9
  <2> QED BY <1>1, <1>4, <1>5, <2>1, <2>6 DEF Lag, d1, c1, p1
<1>9. CASE Head(events) = "unavailable" /\ im' = [im EXCEPT !.active = FALSE, !.running = FALSE]
  <2>1. im'.serial = im.serial /\ im'.epoch = im.epoch /\ im'.pending_reset = im.pending_reset
    BY <1>t, <1>9
  <2>2. Head(events) \notin Changes /\ Head(events) # "done" BY <1>9 DEF Changes
  <2>3. ~im.pending_reset BY <1>4, <2>2
  <2>4. d = d1 /\ c = c1 BY <1>3, <2>2
  <2> QED BY <1>1, <1>4, <1>5, <2>1, <2>3, <2>4 DEF Lag, d1, c1
<1>10. Head(events) \in {"activate", "deactivate"} => Head(events) \in Changes BY DEF Changes
<1> QED BY <1>7, <1>8, <1>9, <1>10 DEF Event

LEMMA OneMore == /\ \A s, n \in Nat : (s + n) + 1 = s + (n + 1)
                 /\ \A e, x, y \in Nat : (e + x + y) + 1 = e + (x + 1) + y
                 /\ \A s, f, o \in Nat : s <= f + o => s + 1 <= (f + 1) + o
OBVIOUS

LEMMA DeskKeepsLag == ASSUME Types, Lag, Desk PROVE Lag'
<1>t. /\ im.epoch \in Nat /\ im.serial \in Nat /\ desk.epoch \in Nat /\ desk.dones \in Nat
      /\ events \in Seq(Signal) /\ Len(events) \in Nat
      /\ desk \in [active : BOOLEAN, epoch : Nat, dones : Nat, preedit : 0 .. MaxSockets, ours : BOOLEAN]
      /\ count \in CountRecord /\ count.focus \in Nat /\ count.other \in Nat
  BY Bounds, LenProperties DEF Types, WaylandTypes, HistoryTypes, CountRecord
<1> DEFINE d == Count(events, {"done"})
           c == Count(events, Changes)
           p == IF im.pending_reset THEN 1 ELSE 0
<1>4. /\ desk.dones = im.serial + d
      /\ desk.epoch = im.epoch + c + p
      /\ desk.epoch = count.focus /\ desk.dones <= count.focus + count.other
      /\ im.pending_reset => events # <<>> /\ Head(events) = "done"
      /\ \A i \in 1..Len(events) : events[i] \in Changes => i < Len(events) /\ events[i + 1] = "done"
  BY DEF Lag
<1>d. d \in Nat /\ c \in Nat /\ p \in Nat BY <1>t, CountType
<1>h. ASSUME NEW e \in Signal PROVE events # <<>> => Append(events, e) # <<>> /\ Head(Append(events, e)) = Head(events)
  BY <1>t, HeadTailAppend, AppendProperties
<1>a. ASSUME NEW e \in Signal
      PROVE  /\ Append(events, e) \in Seq(Signal)
             /\ Count(Append(events, e), {"done"}) = IF e = "done" THEN d + 1 ELSE d
             /\ Count(Append(events, e), Changes) = IF e \in Changes THEN c + 1 ELSE c
             /\ Len(Append(events, e)) = Len(events) + 1
             /\ \A i \in 1..Len(events) : Append(events, e)[i] = events[i]
             /\ Append(events, e)[Len(events) + 1] = e
  BY <1>t, CountAppend, AppendProperties
<1> HIDE DEF d, c, p
<1>1. ASSUME NEW event \in Changes, Focus(event) PROVE Lag'
  <2> DEFINE t1 == Append(events, event)
             t == Append(t1, "done")
  <2>1. event \in Signal /\ "done" \in Signal BY DEF Changes, Signal
  <2>2. /\ t1 \in Seq(Signal) /\ Count(t1, {"done"}) = d /\ Count(t1, Changes) = c + 1
        /\ Len(t1) = Len(events) + 1
        /\ \A i \in 1..Len(events) : t1[i] = events[i]
        /\ t1[Len(events) + 1] = event
    BY <1>a, <2>1 DEF Changes
  <2>h. events # <<>> => t1 # <<>> /\ Head(t1) = Head(events) BY <1>h, <2>1
  <2> HIDE DEF t1
  <2>3. /\ t \in Seq(Signal) /\ Count(t, {"done"}) = d + 1 /\ Count(t, Changes) = c + 1
        /\ Len(t) = Len(t1) + 1
        /\ \A i \in 1..Len(t1) : t[i] = t1[i]
        /\ t[Len(t1) + 1] = "done"
        /\ events # <<>> => t # <<>> /\ Head(t) = Head(events)
    <3>1. t \in Seq(Signal) /\ Len(t) = Len(t1) + 1 /\ t[Len(t1) + 1] = "done"
          /\ \A i \in 1..Len(t1) : t[i] = t1[i]
      BY <2>1, <2>2, AppendProperties
    <3>2. Count(t, {"done"}) = d + 1 BY <2>1, <2>2, CountAppend
    <3>3. "done" \notin Changes BY DEF Changes
    <3>4. Count(t, Changes) = c + 1 BY <2>1, <2>2, <3>3, CountAppend
    <3>5. events # <<>> => t # <<>> /\ Head(t) = Head(events)
      BY <2>1, <2>2, <2>h, HeadTailAppend, AppendProperties
    <3> QED BY <3>1, <3>2, <3>4, <3>5
  <2>4. events' = t
    <3>1. events' = events \o <<event, "done">> BY <1>1 DEF Focus
    <3>2. <<event, "done">> = <<event>> \o <<"done">> OBVIOUS
    <3>3. <<event>> \in Seq(Signal) /\ <<"done">> \in Seq(Signal) BY <2>1
    <3> HIDE DEF t, t1
    <3>7. events \o (<<event>> \o <<"done">>) = (events \o <<event>>) \o <<"done">>
      BY <1>t, <3>3, ConcatAssociative
    <3>4. events' = (events \o <<event>>) \o <<"done">> BY <3>1, <3>2, <3>7
    <3>5. events \o <<event>> = t1 BY <1>t, <2>1, AppendIsConcat DEF t1
    <3>6. t1 \o <<"done">> = t BY <2>1, <2>2, AppendIsConcat DEF t
    <3> QED BY <3>4, <3>5, <3>6
  <2> HIDE DEF t
  <2>5. \A i \in 1..Len(t) : t[i] \in Changes => i < Len(t) /\ t[i + 1] = "done"
    <3> SUFFICES ASSUME NEW i \in 1..Len(t), t[i] \in Changes PROVE i < Len(t) /\ t[i + 1] = "done"
      OBVIOUS
    <3>1. CASE i \in 1..Len(events)
      <4>1. i \in 1..Len(t1) /\ t[i] = events[i] BY <1>t, <2>2, <2>3, <3>1
      <4>2. i < Len(events) /\ events[i + 1] = "done" BY <1>4, <3>1, <4>1
      <4>3. i + 1 \in 1..Len(events) /\ i + 1 \in 1..Len(t1) BY <1>t, <2>2, <3>1, <4>2
      <4>4. t[i + 1] = "done" BY <2>2, <2>3, <4>2, <4>3
      <4> QED BY <1>t, <2>2, <2>3, <4>2, <4>4
    <3>2. CASE i = Len(events) + 1 BY <1>t, <2>2, <2>3, <3>2
    <3>3. CASE i = Len(t1) + 1
      <4>1. t[i] = "done" BY <2>3, <3>3
      <4> QED BY <4>1 DEF Changes
    <3> QED BY <1>t, <2>2, <2>3, <3>1, <3>2, <3>3
  <2>6. /\ desk'.epoch = desk.epoch + 1 /\ desk'.dones = desk.dones + 1
        /\ count'.focus = count.focus + 1 /\ count'.other = count.other /\ im' = im
    BY <1>t, <1>1 DEF Focus, CountRecord
  <2>7. /\ desk'.dones = im.serial + (d + 1) /\ desk'.epoch = im.epoch + (c + 1) + p
        /\ desk'.epoch = count'.focus /\ desk'.dones <= count'.focus + count'.other
    <3>a. im.serial \in Nat /\ im.epoch \in Nat BY <1>t
    <3>b. desk.dones = im.serial + d /\ desk.epoch = im.epoch + c + p BY <1>4
    <3>c. desk'.dones = (im.serial + d) + 1 /\ desk'.epoch = (im.epoch + c + p) + 1 BY <2>6, <3>b
    <3>1. desk'.dones = im.serial + (d + 1) BY <1>d, <3>a, <3>c, OneMore
    <3>2. desk'.epoch = im.epoch + (c + 1) + p BY <1>d, <3>a, <3>c, OneMore
    <3>3. desk'.dones <= count'.focus + count'.other BY <1>t, <1>4, <2>6, OneMore
    <3> QED BY <1>4, <2>6, <3>1, <3>2, <3>3
  <2> QED BY <1>4, <2>3, <2>4, <2>5, <2>6, <2>7 DEF Lag, p
<1>2. ASSUME NEW e \in {"done", "unavailable"}, events' = Append(events, e), im' = im,
             desk'.epoch = desk.epoch, count'.focus = count.focus, count'.other = count.other + 1,
             desk'.dones = desk.dones + (IF e = "done" THEN 1 ELSE 0)
      PROVE  Lag'
  <2> DEFINE t == Append(events, e)
             k == IF e = "done" THEN 1 ELSE 0
  <2>1. e \in Signal /\ e \notin Changes BY DEF Changes, Signal
  <2>2. /\ t \in Seq(Signal) /\ Count(t, {"done"}) = d + k /\ Count(t, Changes) = c
        /\ Len(t) = Len(events) + 1
        /\ \A i \in 1..Len(events) : t[i] = events[i]
        /\ t[Len(events) + 1] = e
        /\ events # <<>> => t # <<>> /\ Head(t) = Head(events)
    BY <1>a, <1>d, <1>h, <2>1
  <2>k. k \in Nat /\ k <= 1 /\ desk'.dones = desk.dones + k BY <1>2
  <2>t. events' = t BY <1>2
  <2> HIDE DEF t, k
  <2>3. \A i \in 1..Len(t) : t[i] \in Changes => i < Len(t) /\ t[i + 1] = "done"
    <3> SUFFICES ASSUME NEW i \in 1..Len(t), t[i] \in Changes PROVE i < Len(t) /\ t[i + 1] = "done"
      OBVIOUS
    <3>1. i \in 1..Len(events) BY <1>t, <2>1, <2>2
    <3>2. i < Len(events) /\ events[i + 1] = "done" BY <1>4, <2>2, <3>1
    <3>3. i + 1 \in 1..Len(events) BY <1>t, <3>1, <3>2
    <3> QED BY <1>t, <2>2, <3>2, <3>3
  <2>4. /\ desk'.dones = im.serial + (d + k) /\ desk'.epoch = im.epoch + c + p
        /\ desk'.epoch = count'.focus /\ desk'.dones <= count'.focus + count'.other
    <3>1. \A s, n, f, o \in Nat : \A x \in 0..1 :
             (s + n) + x = s + (n + x) /\ (s <= f + o => s + x <= f + (o + 1))
      OBVIOUS
    <3>2. k \in 0..1 BY <2>k
    <3>7. im.serial \in Nat /\ d \in Nat /\ k \in Nat BY <1>t, <1>d, <2>k
    <3>5. (im.serial + d) + k = im.serial + (d + k) BY <3>7
    <3>6. desk'.dones = desk.dones + k /\ desk.dones = im.serial + d BY <1>4, <2>k
    <3>3. desk'.dones = im.serial + (d + k) BY <3>5, <3>6
    <3>4. desk'.dones <= count'.focus + count'.other BY <1>t, <1>2, <1>4, <2>k, <3>1, <3>2
    <3> QED BY <1>2, <1>4, <3>3, <3>4
  <2> QED BY <1>2, <1>4, <2>2, <2>3, <2>4, <2>t DEF Lag, p
<1>3. CASE Touch
  <2>1. /\ events' = Append(events, "done") /\ im' = im /\ desk'.epoch = desk.epoch
        /\ count'.focus = count.focus /\ count'.other = count.other + 1
        /\ desk'.dones = desk.dones + 1
    BY <1>3, <1>t DEF Touch, Other, CountRecord
  <2> QED BY <1>2, <2>1
<1>4a. CASE Refuse
  <2>1. /\ events' = Append(events, "unavailable") /\ im' = im /\ desk'.epoch = desk.epoch
        /\ count'.focus = count.focus /\ count'.other = count.other + 1
        /\ desk'.dones = desk.dones
    BY <1>4a, <1>t DEF Refuse, Other, CountRecord
  <2>2. desk'.dones = desk.dones + 0 BY <1>t, <2>1
  <2> QED BY <1>2, <2>1, <2>2
<1> QED BY <1>1, <1>3, <1>4a DEF Desk, Changes

\* The steps that touch neither the events nor what both sides have counted.
LEMMA OthersKeepLag ==
  ASSUME Types, Lag, events' = events, im'.serial = im.serial, im'.epoch = im.epoch,
         im'.pending_reset = im.pending_reset, desk'.dones = desk.dones, desk'.epoch = desk.epoch,
         count'.focus = count.focus, count'.other \in {count.other, count.other + 1}
  PROVE  Lag'
<1>1. count.focus \in Nat /\ count.other \in Nat /\ desk.dones \in Nat
  BY Bounds DEF Types, WaylandTypes, HistoryTypes, CountRecord
<1>2. desk.dones <= count.focus + count.other BY DEF Lag
<1>3. desk'.dones <= count'.focus + count'.other BY <1>1, <1>2
<1> QED BY <1>3 DEF Lag

LEMMA InitLag == Init => Lag /\ Stamped
<1> SUFFICES ASSUME Init PROVE Lag /\ Stamped OBVIOUS
<1>1. <<>> \in Seq(Signal) /\ Len(<<>>) = 0 BY EmptySeq
<1>2. \A i \in 1..0 : FALSE OBVIOUS
<1>3. Count(<<>>, {"done"}) = 0 /\ Count(<<>>, Changes) = 0 BY <1>1, <1>2, CountNone
<1>4. /\ events = <<>> /\ requests = <<>> /\ ~im.pending_reset /\ im.serial = 0 /\ im.epoch = 0
      /\ desk.dones = 0 /\ desk.epoch = 0 /\ count.focus = 0 /\ count.other = 0
  BY DEF Init
<1>5. Stamped BY <1>1, <1>2, <1>4 DEF Stamped
<1> QED BY <1>1, <1>2, <1>3, <1>4, <1>5 DEF Lag

\* A step of a page or of a session.
LEMMA TheRestIsStill ==
  ASSUME Types, (\E b \in Browsers : Page(b)) \/ (\E s \in Sockets : Session(s)) \/ CtrlC
  PROVE  /\ im' = im /\ events' = events /\ requests' = requests /\ desk' = desk
         /\ landed' = landed /\ dropped' = dropped /\ missed' = missed
         /\ count'.focus = count.focus /\ count'.other \in {count.other, count.other + 1}
<1>t. count \in CountRecord BY DEF Types, HistoryTypes
<1>1. ASSUME NEW b \in Browsers, Page(b)
      PROVE  /\ im' = im /\ events' = events /\ requests' = requests /\ desk' = desk
             /\ landed' = landed /\ dropped' = dropped /\ missed' = missed
             /\ count'.focus = count.focus /\ count'.other = count.other
  BY <1>t, <1>1 DEF Page, Connect, Type, TimerFires, CompositionStart, CompositionEnd, Send, OnMessage,
                    OnClose, wayland, lost, CountRecord
<1>2. ASSUME NEW s \in Sockets, Session(s)
      PROVE  /\ im' = im /\ events' = events /\ requests' = requests /\ desk' = desk
             /\ landed' = landed /\ dropped' = dropped /\ missed' = missed /\ count' = count
  BY <1>2 DEF Session, Take, Changed, Process, Reply, End, Leave, wayland, lost
<1>3. CASE CtrlC
  BY <1>t, <1>3 DEF CtrlC, Other, wayland, lost, CountRecord
<1> QED BY <1>1, <1>2, <1>3

LEMMA LagStep == ASSUME Types, Lag, [Next]_vars PROVE Lag'
<1>t. im \in [active : BOOLEAN, epoch : Nat, pending_active : BOOLEAN,
              pending_reset : BOOLEAN, serial : Nat, running : BOOLEAN]
      /\ desk \in [active : BOOLEAN, epoch : Nat, dones : Nat, preedit : 0 .. MaxSockets, ours : BOOLEAN]
  BY DEF Types, WaylandTypes
<1>1. CASE (\E b \in Browsers : Page(b)) \/ (\E s \in Sockets : Session(s)) \/ CtrlC
  BY <1>1, TheRestIsStill, OthersKeepLag
<1>2. CASE Command
  <2>1. /\ events' = events /\ desk' = desk /\ count' = count
        /\ im' = im \/ im' = [im EXCEPT !.running = FALSE]
    BY <1>2 DEF Command
  <2>2. im'.serial = im.serial /\ im'.epoch = im.epoch /\ im'.pending_reset = im.pending_reset
    BY <1>t, <2>1
  <2> QED BY <2>1, <2>2, OthersKeepLag
<1>3. CASE Event BY <1>3, EventKeepsLag
<1>4. CASE Desk BY <1>4, DeskKeepsLag
<1>5. CASE Apply
  <2>1. /\ events' = events /\ count' = count /\ im' = im
        /\ \E p : desk' = desk \/ desk' = [desk EXCEPT !.preedit = p]
    BY <1>5 DEF Apply
  <2>2. desk'.dones = desk.dones /\ desk'.epoch = desk.epoch BY <1>t, <2>1
  <2> QED BY <2>1, <2>2, OthersKeepLag
<1>6. CASE UNCHANGED vars BY <1>6 DEF vars, wayland, Lag
<1> QED BY <1>1, <1>2, <1>3, <1>4, <1>5, <1>6 DEF Next, Thread

LEMMA TypesStep == ASSUME Types, Lag, [Next]_vars PROVE Types'
<1>1. im.epoch \in Epochs BY ThreadIsBehind
<1>2. ASSUME NEW b \in Browsers, Page(b) PROVE Types'
  BY <1>2, ConnectTypes, TypeTypes, ComposeTypes, SendTypes, OnMessageTypes, OnCloseTypes DEF Page
<1>3. ASSUME NEW s \in Sockets, Session(s) PROVE Types'
  BY <1>1, <1>3, TakeTypes, ProcessTypes, ReplyTypes, EndTypes DEF Session
<1>4. CASE UNCHANGED vars
  BY <1>4 DEF vars, socket, server, wayland, lost, Types, PageTypes, SessionTypes, WaylandTypes, HistoryTypes
<1> QED BY <1>2, <1>3, <1>4, CommandTypes, EventTypes, CtrlCTypes, DeskTypes, ApplyTypes DEF Next, Thread

LEMMA StampedStep == ASSUME Types, Lag, Stamped, [Next]_vars PROVE Stamped'
<1>t. im \in [active : BOOLEAN, epoch : Nat, pending_active : BOOLEAN,
              pending_reset : BOOLEAN, serial : Nat, running : BOOLEAN]
      /\ requests \in Seq(Commit)
  BY DEF Types, WaylandTypes
<1>n. im.serial \in Nat /\ \A i \in 1..Len(requests) : requests[i].serial \in Nat
  <2>1. \A i \in 1..Len(requests) : requests[i] \in Commit BY <1>t, ElementOfSeq
  <2> QED BY <1>t, <2>1 DEF Commit
<1>1. CASE requests' = requests /\ im'.serial = im.serial /\ im'.epoch = im.epoch
  BY <1>1 DEF Stamped
<1>2. CASE Command
  <2> DEFINE c == Head(commands)
  <2>0. c \in Order BY <1>2, HeadTailProperties DEF Command, Types, SessionTypes
  <2>4. ClearOf(0) \in Order /\ ClearOf(0).type = "clear" BY Bounds DEF ClearOf, Order, Epochs
  <2>1. /\ im' = im \/ im' = [im EXCEPT !.running = FALSE]
        /\ \/ requests' = requests
           \/ Request(c) /\ c.type # "stop" /\ (c.type \in {"draft", "send"} => c.epoch = im.epoch)
           \/ Request(ClearOf(0))
    BY <1>2 DEF Command, Update, Clear
  <2>2. im'.serial = im.serial /\ im'.epoch = im.epoch BY <1>t, <2>1
  <2>3. ASSUME NEW d \in Order, Request(d), d.type # "stop",
               d.type \in {"draft", "send"} => d.epoch = im.epoch
        PROVE  Stamped'
    <3> DEFINE r == [type |-> d.type, by |-> d.by, some |-> d.some,
                     id |-> d.id, epoch |-> d.epoch, serial |-> im.serial]
    <3>1. r \in Commit BY <1>n, <2>3 DEF Order, Commit
    <3>2. r.serial = im.serial /\ r.type = d.type /\ r.epoch = d.epoch OBVIOUS
    <3>3. requests' = Append(requests, r) BY <2>3 DEF Request
    <3> HIDE DEF r
    <3>4. /\ Len(requests) \in Nat /\ Len(requests') = Len(requests) + 1
          /\ \A i \in 1..Len(requests) : requests'[i] = requests[i]
          /\ requests'[Len(requests) + 1] = r
      BY <1>t, <3>1, <3>3, AppendProperties, LenProperties
    <3> SUFFICES ASSUME NEW i \in 1..Len(requests')
                 PROVE  /\ requests'[i].serial <= im.serial
                        /\ requests'[i].serial = im.serial /\ requests'[i].type \in {"draft", "send"}
                             => requests'[i].epoch = im.epoch
      BY <2>2 DEF Stamped
    <3>5. CASE i \in 1..Len(requests) BY <3>4, <3>5 DEF Stamped
    <3>6. CASE i = Len(requests) + 1 BY <1>n, <2>3, <3>2, <3>4, <3>6
    <3> QED BY <3>4, <3>5, <3>6
  <2>6. CASE Request(c) /\ (c.type \in {"draft", "send"} => c.epoch = im.epoch) /\ c.type # "stop"
    BY <2>0, <2>3, <2>6
  <2>7. CASE Request(ClearOf(0)) BY <2>3, <2>4, <2>7
  <2>8. CASE requests' = requests BY <1>1, <2>2, <2>8
  <2> QED BY <2>1, <2>6, <2>7, <2>8
<1>3. CASE Event
  <2>1. requests' = requests BY <1>3 DEF Event
  <2>2. CASE im'.serial = im.serial + 1
    <3>1. \A i \in 1..Len(requests) : requests[i].serial <= im.serial BY DEF Stamped
    <3>2. \A i \in 1..Len(requests) : requests[i].serial <= im'.serial /\ requests[i].serial # im'.serial
      BY <1>n, <2>2, <3>1
    <3> QED BY <2>1, <3>2 DEF Stamped
  <2>3. im'.serial = im.serial + 1 \/ (im'.serial = im.serial /\ im'.epoch = im.epoch)
    BY <1>3, <1>t DEF Event
  <2> QED BY <1>1, <2>1, <2>2, <2>3
<1>4. CASE Desk BY <1>1, <1>4 DEF Desk, Focus, Touch, Refuse
<1>5. CASE Apply
  <2>1. requests # <<>> /\ requests' = Tail(requests) /\ im' = im BY <1>5 DEF Apply
  <2>2. /\ Len(requests) \in Nat /\ Len(requests') = Len(requests) - 1
        /\ \A i \in 1..Len(requests') : requests'[i] = requests[i + 1]
    BY <1>t, <2>1, HeadTailProperties, LenProperties
  <2>3. \A i \in 1..Len(requests') : i + 1 \in 1..Len(requests) BY <2>2
  <2> QED BY <2>1, <2>2, <2>3 DEF Stamped
<1>6. CASE UNCHANGED vars BY <1>1, <1>6 DEF vars, wayland
<1>7. CASE (\E b \in Browsers : Page(b)) \/ (\E s \in Sockets : Session(s)) \/ CtrlC
  BY <1>1, <1>7, TheRestIsStill
<1> QED BY <1>2, <1>3, <1>4, <1>5, <1>6, <1>7 DEF Next, Thread

LEMMA RightFieldStep ==
  ASSUME Types, Lag, Stamped, RightField, [Next]_vars PROVE RightField'
<1>1. CASE landed' = landed BY <1>1 DEF RightField
<1>2. CASE Apply
  <2> DEFINE r == Head(requests)
  <2>1. requests \in Seq(Commit) /\ requests # <<>> BY <1>2 DEF Types, WaylandTypes, Apply
  <2>2. r = requests[1] /\ 1 \in 1..Len(requests) /\ r \in Commit
    BY <2>1, EmptySeq, HeadTailProperties
  <2>3. CASE desk.ours /\ r.serial = desk.dones /\ r.type = "send"
    <3>1. r.serial <= im.serial /\ (r.serial = im.serial => r.epoch = im.epoch)
      BY <2>2, <2>3 DEF Stamped
    <3>2. r.serial = im.serial
      <4>1. im.serial <= desk.dones BY ThreadIsBehind
      <4>2. im.serial \in Nat /\ desk.dones \in Nat BY DEF Types, WaylandTypes
      <4> QED BY <2>3, <3>1, <4>1, <4>2
    <3>3. r.epoch = desk.epoch BY <2>3, <3>1, <3>2, ThreadIsBehind
    <3>4. landed' = landed \cup {[id |-> r.id, asked |-> r.epoch, field |-> desk.epoch]}
      BY <1>2, <2>3 DEF Apply
    <3> QED BY <3>3, <3>4 DEF RightField
  <2>4. CASE ~(desk.ours /\ r.serial = desk.dones /\ r.type = "send")
    BY <1>1, <1>2, <2>4 DEF Apply
  <2> QED BY <2>3, <2>4
<1>3. CASE Thread \/ Desk
  BY <1>1, <1>3 DEF Thread, Command, Event, Desk, Focus, Touch, Refuse, lost
<1>4. CASE UNCHANGED vars BY <1>1, <1>4 DEF vars, lost
<1>5. CASE (\E b \in Browsers : Page(b)) \/ (\E s \in Sockets : Session(s)) \/ CtrlC
  BY <1>1, <1>5, TheRestIsStill
<1> QED BY <1>2, <1>3, <1>4, <1>5 DEF Next

\* Whatever the focus does while a text is on its way, it is committed only in
\* the field it was sent for: the thread drops what has an old epoch, and the
\* compositor what has an old serial.
THEOREM LandsInItsField == Spec => []RightField
<1>1. Init => Types /\ Lag /\ Stamped /\ RightField
  <2>1. Init => RightField BY DEF Init, RightField
  <2> QED BY <2>1, InitTypes, InitLag
<1>2. Types /\ Lag /\ Stamped /\ RightField /\ [Next]_vars
        => (Types /\ Lag /\ Stamped /\ RightField)'
  BY TypesStep, LagStep, StampedStep, RightFieldStep
<1> QED BY <1>1, <1>2, PTL DEF Spec

-----------------------------------------------------------------------------
(* The lock.                                                                *)

\* The queue holds the sessions that have not ended, each once, and only its
\* head is past the wait.
Lock ==
  /\ IsInjective(controller)
  /\ \A i \in 1..Len(controller) : /\ session[controller[i]] # "none"
                                   /\ session[controller[i]] # "waiting" => i = 1
  /\ \A s \in Sockets : session[s] # "none" => \E i \in 1..Len(controller) : controller[i] = s
  /\ \A s \in Sockets : s > count.sockets => session[s] = "none"

\* The one that is past the wait is the head, and there is no other.
LEMMA OneController ==
  ASSUME Types, Lock, NEW s \in Sockets, NEW t \in Sockets,
         session[s] \in {"control", "replying"}, session[t] \in {"control", "replying"}
  PROVE  s = t
<1>1. PICK i \in 1..Len(controller) : controller[i] = s BY DEF Lock
<1>2. PICK j \in 1..Len(controller) : controller[j] = t BY DEF Lock
<1>3. i = 1 BY <1>1 DEF Lock
<1>4. j = 1 BY <1>2 DEF Lock
<1> QED BY <1>1, <1>2, <1>3, <1>4

\* A session that takes its turn, or goes on with it, moves no one else.
LEMMA TurnKeepsLock ==
  ASSUME Types, Lock, NEW s \in Sockets, session[s] # "none", NEW state \in {"control", "replying"},
         session[s] # "waiting" \/ Head(controller) = s,
         session' = [session EXCEPT ![s] = state], controller' = controller,
         count'.sockets = count.sockets
  PROVE  Lock'
<1>t. controller \in Seq(Sockets) /\ session \in [Sockets -> {"none", "waiting", "control", "replying"}]
  BY DEF Types, SessionTypes
<1>1. /\ session'[s] = state
      /\ \A t \in Sockets : t # s => session'[t] = session[t]
  BY <1>t
<1>2. \A i \in 1..Len(controller) : controller[i] \in Sockets BY <1>t, ElementOfSeq
<1>3. PICK k \in 1..Len(controller) : controller[k] = s BY DEF Lock
<1>4. Head(controller) = controller[1] /\ 1 \in 1..Len(controller) 
  <2>1. Len(controller) \in Nat /\ Len(controller) >= 1 BY <1>t, <1>3, LenProperties
  <2>2. controller # <<>> BY <2>1, EmptySeq
  <2> QED BY <1>t, <2>1, <2>2, HeadTailProperties
<1>5. k = 1
  <2>1. CASE session[s] # "waiting" BY <1>3, <2>1 DEF Lock
  <2>2. CASE Head(controller) = s
    <3>1. controller[1] = controller[k] BY <1>3, <1>4, <2>2
    <3> QED BY <1>t, <1>3, <1>4, <3>1, LenProperties DEF Lock, IsInjective
  <2> QED BY <2>1, <2>2
<1>6. \A i \in 1..Len(controller) : controller[i] = s => i = 1
  BY <1>t, <1>3, <1>5, LenProperties DEF Lock, IsInjective
<1>7. \A i \in 1..Len(controller) : session'[controller[i]] # "none"
                                    /\ (session'[controller[i]] # "waiting" => i = 1)
  BY <1>1, <1>2, <1>6 DEF Lock
<1>8. \A t \in Sockets : session'[t] # "none" => session[t] # "none" BY <1>1
<1>9. \A t \in Sockets : t > count.sockets => session'[t] = "none"
  BY <1>1 DEF Lock
<1> QED BY <1>7, <1>8, <1>9 DEF Lock

LEMMA LockUnchanged ==
  ASSUME Lock, session' = session, controller' = controller, count'.sockets = count.sockets
  PROVE  Lock'
BY DEF Lock

LEMMA ConnectKeepsLock == ASSUME Types, Lock, NEW b \in Browsers, Connect(b) PROVE Lock'
<1> DEFINE s == count.sockets + 1
<1>t. /\ controller \in Seq(Sockets) /\ session \in [Sockets -> {"none", "waiting", "control", "replying"}]
      /\ Len(controller) \in Nat /\ count.sockets \in Nat
  BY Bounds, LenProperties DEF Types, SessionTypes, HistoryTypes, CountRecord
<1>1. /\ s \in Sockets /\ session' = [session EXCEPT ![s] = "waiting"]
      /\ controller' = Append(controller, s) /\ count'.sockets = s
  BY DEF Connect, Types, HistoryTypes, CountRecord
<1>2. s > count.sockets /\ s \in Nat BY <1>t
<1>3. session[s] = "none" BY <1>1, <1>2 DEF Lock
<1> HIDE DEF s
<1>4. /\ session'[s] = "waiting" /\ \A t \in Sockets : t # s => session'[t] = session[t] BY <1>t, <1>1
<1>5. \A i \in 1..Len(controller) : controller[i] \in Sockets /\ controller[i] # s
  <2>1. \A i \in 1..Len(controller) : controller[i] \in Sockets BY <1>t, ElementOfSeq
  <2>2. \A i \in 1..Len(controller) : session[controller[i]] # "none" BY DEF Lock
  <2> QED BY <1>3, <2>1, <2>2
<1>6. /\ Len(controller') = Len(controller) + 1 /\ DOMAIN controller' = 1..Len(controller) + 1
      /\ \A i \in 1..Len(controller) : controller'[i] = controller[i]
      /\ controller'[Len(controller) + 1] = s
  BY <1>t, <1>1, AppendProperties, LenProperties
<1>7. \A i \in DOMAIN controller' : i \in 1..Len(controller) \/ i = Len(controller) + 1 BY <1>t, <1>6
<1>8. IsInjective(controller')
  <2> SUFFICES ASSUME NEW i \in DOMAIN controller', NEW j \in DOMAIN controller',
                      controller'[i] = controller'[j]
               PROVE  i = j
    BY DEF IsInjective
  <2>1. CASE i \in 1..Len(controller) /\ j \in 1..Len(controller)
    BY <1>t, <1>6, <2>1, LenProperties DEF Lock, IsInjective
  <2>2. CASE i \in 1..Len(controller) /\ j = Len(controller) + 1 BY <1>5, <1>6, <2>2
  <2>3. CASE i = Len(controller) + 1 /\ j \in 1..Len(controller) BY <1>5, <1>6, <2>3
  <2>4. CASE i = Len(controller) + 1 /\ j = Len(controller) + 1 BY <2>4
  <2> QED BY <1>7, <2>1, <2>2, <2>3, <2>4
<1>9. \A i \in 1..Len(controller') : session'[controller'[i]] # "none"
                                     /\ (session'[controller'[i]] # "waiting" => i = 1)
  <2> SUFFICES ASSUME NEW i \in 1..Len(controller')
               PROVE  session'[controller'[i]] # "none" /\ (session'[controller'[i]] # "waiting" => i = 1)
    OBVIOUS
  <2>1. CASE i \in 1..Len(controller) BY <1>4, <1>5, <1>6, <2>1 DEF Lock
  <2>2. CASE i = Len(controller) + 1 BY <1>4, <1>6, <2>2
  <2> QED BY <1>6, <1>7, <2>1, <2>2
<1>10. \A t \in Sockets : session'[t] # "none" => \E i \in 1..Len(controller') : controller'[i] = t
  <2> SUFFICES ASSUME NEW t \in Sockets, session'[t] # "none"
               PROVE  \E i \in 1..Len(controller') : controller'[i] = t
    OBVIOUS
  <2>1. CASE t = s
    <3>1. Len(controller) + 1 \in 1..Len(controller') BY <1>t, <1>6
    <3> QED BY <1>6, <2>1, <3>1
  <2>2. CASE t # s
    <3>1. PICK i \in 1..Len(controller) : controller[i] = t BY <1>4, <2>2 DEF Lock
    <3>2. i \in 1..Len(controller') BY <1>t, <1>6
    <3> QED BY <1>6, <3>1, <3>2
  <2> QED BY <2>1, <2>2
<1>11. \A t \in Sockets : t > count'.sockets => session'[t] = "none"
  <2>1. \A t \in Sockets : t > s => t > count.sockets /\ t # s BY <1>t DEF Sockets, s
  <2> QED BY <1>1, <1>4, <2>1 DEF Lock
<1> QED BY <1>8, <1>9, <1>10, <1>11 DEF Lock

LEMMA LeaveKeepsLock == ASSUME Types, Lock, NEW s \in Sockets, Leave(s) PROVE Lock'
<1>t. /\ controller \in Seq(Sockets) /\ session \in [Sockets -> {"none", "waiting", "control", "replying"}]
      /\ Len(controller) \in Nat
  BY LenProperties DEF Types, SessionTypes
<1>d. DOMAIN controller = 1..Len(controller) BY <1>t, LenProperties
<1>1. PICK k \in 1..Len(controller) : controller[k] = s /\ controller' = RemoveAt(controller, k)
  BY <1>d DEF Leave
<1>2. /\ controller' \in Seq(Sockets) /\ Len(controller') = Len(controller) - 1
      /\ \A j \in 1..Len(controller) - 1 : controller'[j] = IF j < k THEN controller[j] ELSE controller[j + 1]
  BY <1>t, <1>1, RemoveAtProperties
<1>d2. DOMAIN controller' = 1..Len(controller') BY <1>2, LenProperties
<1> DEFINE old(j) == IF j < k THEN j ELSE j + 1
<1>3. \A j \in 1..Len(controller') : /\ old(j) \in 1..Len(controller) /\ old(j) # k
                                     /\ controller'[j] = controller[old(j)]
                                     /\ (old(j) = 1 => j = 1)
  BY <1>t, <1>2
<1>4. \A i, j \in 1..Len(controller') : old(i) = old(j) => i = j BY <1>t, <1>2
<1>5. \A i \in 1..Len(controller) : i # k => \E j \in 1..Len(controller') : i = old(j)
  <2> SUFFICES ASSUME NEW i \in 1..Len(controller), i # k
               PROVE  \E j \in 1..Len(controller') : i = old(j)
    OBVIOUS
  <2>1. CASE i < k
    <3>1. i \in 1..Len(controller') /\ i = old(i) BY <1>t, <1>2, <2>1
    <3> QED BY <3>1
  <2>2. CASE i > k
    <3>1. i - 1 \in 1..Len(controller') /\ i = old(i - 1) BY <1>t, <1>2, <2>2
    <3> QED BY <3>1
  <2> QED BY <2>1, <2>2
<1> HIDE DEF old
<1>6. /\ session'[s] = "none" /\ \A t \in Sockets : t # s => session'[t] = session[t]
      /\ count' = count
  BY <1>t DEF Leave
<1>7. \A i \in 1..Len(controller) : controller[i] = s => i = k BY <1>d, <1>1 DEF Lock, IsInjective
<1>8. \A i \in 1..Len(controller) : controller[i] \in Sockets BY <1>t, ElementOfSeq
<1>9. IsInjective(controller')
  <2> SUFFICES ASSUME NEW i \in 1..Len(controller'), NEW j \in 1..Len(controller'),
                      controller'[i] = controller'[j]
               PROVE  i = j
    BY <1>d2 DEF IsInjective
  <2>1. old(i) = old(j) BY <1>3, <1>d DEF Lock, IsInjective
  <2> QED BY <1>4, <2>1
<1>10. \A i \in 1..Len(controller') : session'[controller'[i]] # "none"
                                      /\ (session'[controller'[i]] # "waiting" => i = 1)
  <2> SUFFICES ASSUME NEW i \in 1..Len(controller')
               PROVE  session'[controller'[i]] # "none" /\ (session'[controller'[i]] # "waiting" => i = 1)
    OBVIOUS
  <2>1. session'[controller'[i]] = session[controller[old(i)]] BY <1>3, <1>6, <1>7, <1>8
  <2> QED BY <1>3, <2>1 DEF Lock
<1>11. \A t \in Sockets : session'[t] # "none" => \E i \in 1..Len(controller') : controller'[i] = t
  <2> SUFFICES ASSUME NEW t \in Sockets, session'[t] # "none"
               PROVE  \E i \in 1..Len(controller') : controller'[i] = t
    OBVIOUS
  <2>1. PICK i \in 1..Len(controller) : controller[i] = t BY <1>6 DEF Lock
  <2>2. i # k BY <1>1, <1>6, <2>1
  <2>3. PICK j \in 1..Len(controller') : i = old(j) BY <1>5, <2>2
  <2> QED BY <1>3, <2>1, <2>3
<1>12. \A t \in Sockets : t > count'.sockets => session'[t] = "none" BY <1>6 DEF Lock
<1> QED BY <1>9, <1>10, <1>11, <1>12 DEF Lock

LEMMA LockStep == ASSUME Types, Lock, [Next]_vars PROVE Lock'
<1>t. /\ session \in [Sockets -> {"none", "waiting", "control", "replying"}]
      /\ count \in CountRecord
  BY DEF Types, SessionTypes, HistoryTypes
<1>1. ASSUME NEW b \in Browsers, Page(b) PROVE Lock'
  <2>1. CASE Connect(b) BY <2>1, ConnectKeepsLock
  <2>2. CASE ~Connect(b)
    BY <1>t, <1>1, <2>2, LockUnchanged
       DEF Page, Type, TimerFires, CompositionStart, CompositionEnd, Send, OnMessage, OnClose,
           server, CountRecord
  <2> QED BY <2>1, <2>2
<1>2. ASSUME NEW s \in Sockets, Session(s) PROVE Lock'
  <2>1. CASE Take(s) BY <2>1, TurnKeepsLock DEF Take
  <2>2. CASE Changed(s) BY <2>2, LockUnchanged DEF Changed
  <2>3. CASE Process(s)
    <3>1. CASE session' = [session EXCEPT ![s] = "replying"]
      BY <2>3, <3>1, TurnKeepsLock DEF Process
    <3>2. CASE session' = session BY <2>3, <3>2, LockUnchanged DEF Process
    <3> QED BY <2>3, <3>1, <3>2 DEF Process
  <2>4. CASE Reply(s) BY <2>4, TurnKeepsLock DEF Reply
  <2>5. CASE End(s) BY <2>5, LeaveKeepsLock DEF End
  <2> QED BY <1>2, <2>1, <2>2, <2>3, <2>4, <2>5 DEF Session
<1>3. CASE Thread \/ Apply BY <1>3, LockUnchanged DEF Thread, Command, Event, Apply, server
<1>4. CASE Desk \/ CtrlC
  BY <1>t, <1>4, LockUnchanged DEF Desk, Focus, Touch, Refuse, CtrlC, Other, server, CountRecord
<1>5. CASE UNCHANGED vars BY <1>5, LockUnchanged DEF vars, server
<1> QED BY <1>1, <1>2, <1>3, <1>4, <1>5 DEF Next

LEMMA InitLock == Init => Lock
<1> SUFFICES ASSUME Init PROVE Lock OBVIOUS
<1>1. controller = <<>> /\ Len(controller) = 0 /\ DOMAIN controller = {} BY EmptySeq DEF Init
<1>2. \A s \in Sockets : session[s] = "none" BY DEF Init
<1> QED BY <1>1, <1>2 DEF Lock, IsInjective

\* The types, and with them the lock: at most one session is past the wait, it
\* is the head of the queue, and a session leaves the queue exactly by ending.
THEOREM OneAtATime == Spec => []TypeOK
<1>1. Init => Types /\ Lag /\ Lock BY InitTypes, InitLag, InitLock
<1>2. Types /\ Lag /\ Lock /\ [Next]_vars => (Types /\ Lag /\ Lock)'
  BY TypesStep, LagStep, LockStep
<1>3. Types /\ Lag /\ Lock => TypeOK
  <2> SUFFICES ASSUME Types, Lag, Lock PROVE TypeOK OBVIOUS
  <2>t. controller \in Seq(Sockets) BY DEF Types, SessionTypes
  <2>d. DOMAIN controller = 1..Len(controller) BY <2>t, LenProperties
  <2>e. \A i \in 1..Len(controller) : controller[i] \in Sockets BY <2>t, ElementOfSeq
  <2>1. Range(controller) = {s \in Sockets : session[s] # "none"}
    BY <2>d, <2>e DEF Lock, Range
  <2>2. im \in [active : BOOLEAN, epoch : Epochs, pending_active : BOOLEAN, pending_reset : BOOLEAN,
                serial : 0 .. MaxFocus + MaxOther, running : BOOLEAN]
    <3>1. im.epoch \in Epochs /\ im.serial \in 0..MaxFocus + MaxOther BY ThreadIsBehind
    <3>2. im \in [active : BOOLEAN, epoch : Nat, pending_active : BOOLEAN,
                  pending_reset : BOOLEAN, serial : Nat, running : BOOLEAN]
      BY DEF Types, WaylandTypes
    <3> QED BY <3>1, <3>2
  <2> QED BY <2>1, <2>2, <2>d DEF Types, PageTypes, PageRecord, SessionTypes, Lock, TypeOK
<1> QED BY <1>1, <1>2, <1>3, PTL DEF Spec

-----------------------------------------------------------------------------
(* The way of a send: on its socket, in the channel, passed to the          *)
(* compositor; and the answer that comes back.                              *)

InUp(id)    == \E s \in Sockets : \E i \in 1..Len(up[s]) : up[s][i].id = id
Ordered(id) == \E i \in 1..Len(commands) : commands[i].id = id
Passed(id)  == \/ \E i \in 1..Len(requests) : requests[i].id = id
               \/ id \in dropped \/ \E l \in landed : l.id = id
Refused(id) == id <= count.sends /\ ~InUp(id) /\ ~Ordered(id) /\ ~Passed(id)
Answered(kind, id) ==
  \/ \E s \in Sockets : reply[s].answer = kind /\ reply[s].id = id
  \/ \E s \in Sockets : \E i \in 1..Len(down[s]) : down[s][i].type = kind /\ down[s][i].id = id
  \/ told[id] = kind

Texts == {"draft", "send"}

\* A send is in one place, and once in it.
OneWay ==
  /\ \A id \in Ids : InUp(id) => id <= count.sends /\ ~Ordered(id) /\ ~Passed(id)
  /\ \A id \in Ids : Ordered(id) => id <= count.sends /\ ~Passed(id)
  /\ \A id \in Ids : Passed(id) => id <= count.sends
  /\ \A s, t \in Sockets : \A i \in 1..Len(up[s]), j \in 1..Len(up[t]) :
       up[s][i].id = up[t][j].id => up[s][i].id = 0 \/ (s = t /\ i = j)
  /\ \A i, j \in 1..Len(commands) : commands[i].id = commands[j].id => commands[i].id = 0 \/ i = j
Numbered ==
  /\ \A s \in Sockets : \A i \in 1..Len(up[s]) : up[s][i].type # "send" => up[s][i].id = 0
  /\ \A i \in 1..Len(commands) : commands[i].type # "send" => commands[i].id = 0
  /\ \A i \in 1..Len(requests) : requests[i].type # "send" => requests[i].id = 0

\* A session waits for the answer to the one text it has in the channel.
Awaited ==
  /\ \A i \in 1..Len(commands) : commands[i].type \in Texts =>
       /\ commands[i].by \in Sockets /\ session[commands[i].by] = "replying"
       /\ reply[commands[i].by].answer = "none" /\ reply[commands[i].by].id = commands[i].id
  /\ \A i, j \in 1..Len(commands) :
       commands[i].type \in Texts /\ commands[j].type \in Texts /\ commands[i].by = commands[j].by => i = j
  /\ \A s \in Sockets : session[s] # "replying" => reply[s].answer = "none"

\* An error is of a send that went nowhere, an ack of one that was passed on.
Answers == \A id \in Ids : /\ Answered("error", id) => Refused(id)
                           /\ Answered("ack", id) => Passed(id)

\* A send only goes on.
Onward(id) ==
  /\ InUp(id)' => InUp(id) \/ count.sends < id
  /\ Ordered(id)' => Ordered(id) \/ InUp(id)
  /\ Passed(id)' => Passed(id) \/ Ordered(id)
  /\ Passed(id) => Passed(id)'
  /\ count.sends <= count'.sends

\* What is true of a send when it is answered stays true.
LEMMA AnswersStay ==
  ASSUME Types, Types', Answers,
         \A id \in Ids : Onward(id),
         \A id \in Ids, kind \in {"error", "ack"} :
            Answered(kind, id)' => \/ Answered(kind, id)
                                   \/ kind = "error" /\ Refused(id)'
                                   \/ kind = "ack" /\ Passed(id)'
  PROVE  Answers'
<1> SUFFICES ASSUME NEW id \in Ids
             PROVE  /\ Answered("error", id)' => Refused(id)'
                    /\ Answered("ack", id)' => Passed(id)'
  BY DEF Answers
<1>1. Onward(id) OBVIOUS
<1>2. Refused(id) => Refused(id)'
  <2>1. id \in Nat /\ count.sends \in Nat /\ count'.sends \in Nat
    BY Bounds DEF Ids, Types, HistoryTypes, CountRecord
  <2>2. id <= count.sends => ~(count.sends < id) BY <2>1
  <2>3. id <= count.sends /\ count.sends <= count'.sends => id <= count'.sends BY <2>1
  <2> QED BY <1>1, <2>2, <2>3 DEF Refused, Onward
<1>3. Passed(id) => Passed(id)' BY <1>1 DEF Onward
<1>4. Answered("error", id) => Refused(id) BY DEF Answers
<1>5. Answered("ack", id) => Passed(id) BY DEF Answers
<1> QED BY <1>2, <1>3, <1>4, <1>5

\* The steps that take nothing from the socket or the channel: what is on a
\* socket may get lost from its end on, and what is not a text may be queued.
LEMMA NothingTaken ==
  ASSUME Types, OneWay, Numbered,
         \A s \in Sockets : \A i \in 1..Len(up'[s]) : i \in 1..Len(up[s]) /\ up'[s][i] = up[s][i],
         commands' = commands \/ \E d \in Order : d.id = 0 /\ d.type \notin Texts
                                                  /\ commands' = Append(commands, d),
         requests' = requests, landed' = landed, dropped' = dropped, count'.sends = count.sends
  PROVE  OneWay' /\ Numbered' /\ \A id \in Ids : Onward(id)
<1>t. commands \in Seq(Order) /\ Len(commands) \in Nat /\ count.sends \in Nat
  BY LenProperties DEF Types, SessionTypes, HistoryTypes, CountRecord
<1>0. \A id \in Ids : id # 0 BY DEF Ids
<1>1. \A id \in Ids : InUp(id)' => InUp(id) BY DEF InUp
<1>2. \A id : Passed(id)' <=> Passed(id) BY DEF Passed
<1>3. \A i \in 1..Len(commands') :
        \/ i \in 1..Len(commands) /\ commands'[i] = commands[i]
        \/ commands'[i].id = 0 /\ commands'[i].type \notin Texts
  <2>1. ASSUME NEW d \in Order, d.id = 0, d.type \notin Texts, commands' = Append(commands, d),
               NEW i \in 1..Len(commands')
        PROVE  \/ i \in 1..Len(commands) /\ commands'[i] = commands[i]
               \/ commands'[i].id = 0 /\ commands'[i].type \notin Texts
    <3>1. /\ Len(commands') = Len(commands) + 1
          /\ \A j \in 1..Len(commands) : commands'[j] = commands[j]
          /\ commands'[Len(commands) + 1] = d
      BY <1>t, <2>1, AppendProperties
    <3>2. i \in 1..Len(commands) \/ i = Len(commands) + 1 BY <1>t, <3>1
    <3> QED BY <2>1, <3>1, <3>2
  <2> QED BY <2>1
<1>4. \A id \in Ids : Ordered(id)' => Ordered(id) BY <1>0, <1>3 DEF Ordered
<1>5. \A i, j \in 1..Len(commands') : commands'[i].id = commands'[j].id => commands'[i].id = 0 \/ i = j
  BY <1>3 DEF OneWay
<1>6. \A s, t \in Sockets : \A i \in 1..Len(up'[s]), j \in 1..Len(up'[t]) :
        up'[s][i].id = up'[t][j].id => up'[s][i].id = 0 \/ (s = t /\ i = j)
  <2> SUFFICES ASSUME NEW s \in Sockets, NEW t \in Sockets, NEW i \in 1..Len(up'[s]),
                      NEW j \in 1..Len(up'[t]), up'[s][i].id = up'[t][j].id
               PROVE  up'[s][i].id = 0 \/ (s = t /\ i = j)
    OBVIOUS
  <2>1. i \in 1..Len(up[s]) /\ up'[s][i] = up[s][i] OBVIOUS
  <2>2. j \in 1..Len(up[t]) /\ up'[t][j] = up[t][j] OBVIOUS
  <2> QED BY <2>1, <2>2 DEF OneWay
<1>7. OneWay' BY <1>1, <1>2, <1>4, <1>5, <1>6 DEF OneWay
<1>8. Numbered' BY <1>3 DEF Numbered, Texts
<1>9. count.sends <= count'.sends BY <1>t
<1> QED BY <1>1, <1>2, <1>4, <1>7, <1>8, <1>9 DEF Onward

\* Nothing moves.
LEMMA NothingMoves ==
  ASSUME Types, OneWay, Numbered, up' = up, commands' = commands, requests' = requests,
         landed' = landed, dropped' = dropped, count'.sends = count.sends
  PROVE  OneWay' /\ Numbered' /\ \A id \in Ids : Onward(id)
BY NothingTaken

\* A page sends: a draft, or a text that was never sent.
LEMMA PageSends ==
  ASSUME Types, OneWay, Numbered, NEW s \in Sockets, NEW m \in Input, up' = Put(up, s, m),
         commands' = commands, requests' = requests, landed' = landed, dropped' = dropped,
         \/ m.id = 0 /\ count'.sends = count.sends
         \/ m.type = "send" /\ m.id = count.sends + 1 /\ count'.sends = count.sends + 1
  PROVE  OneWay' /\ Numbered' /\ \A id \in Ids : Onward(id)
<1>t. /\ up \in [Sockets -> Seq(Input)] /\ count.sends \in Nat /\ m.id \in Nat
      /\ up[s] \in Seq(Input) /\ Len(up[s]) \in Nat
  <2>1. up \in [Sockets -> Seq(Input)] /\ count.sends \in Nat
    BY Bounds DEF Types, PageTypes, HistoryTypes, CountRecord
  <2>2. m.id \in Nat BY Bounds DEF Input
  <2>3. up[s] \in Seq(Input) BY <2>1
  <2> QED BY <2>1, <2>2, <2>3, LenProperties
<1>0. \A id \in Ids : id # 0 /\ id \in Nat BY Bounds DEF Ids
<1>1. /\ \A t \in Sockets : t # s => up'[t] = up[t]
      /\ up'[s] = Append(up[s], m)
  BY <1>t DEF Put
<1>2. /\ Len(up'[s]) = Len(up[s]) + 1
      /\ \A i \in 1..Len(up[s]) : up'[s][i] = up[s][i]
      /\ up'[s][Len(up[s]) + 1] = m
  BY <1>t, <1>1, AppendProperties
<1>3. \A t \in Sockets : \A i \in 1..Len(up'[t]) :
        \/ i \in 1..Len(up[t]) /\ up'[t][i] = up[t][i]
        \/ t = s /\ i = Len(up[s]) + 1 /\ up'[t][i] = m
  <2> SUFFICES ASSUME NEW t \in Sockets, NEW i \in 1..Len(up'[t])
               PROVE  \/ i \in 1..Len(up[t]) /\ up'[t][i] = up[t][i]
                      \/ t = s /\ i = Len(up[s]) + 1 /\ up'[t][i] = m
    OBVIOUS
  <2>1. CASE t # s BY <1>1, <2>1
  <2>2. CASE t = s
    <3>1. i \in 1..Len(up[s]) \/ i = Len(up[s]) + 1 BY <1>t, <1>2, <2>2
    <3> QED BY <1>2, <2>2, <3>1
  <2> QED BY <2>1, <2>2
<1>4. \A id \in Ids : InUp(id)' => InUp(id) \/ id = m.id BY <1>3 DEF InUp
<1>5. \A id : (Passed(id)' <=> Passed(id)) /\ (Ordered(id)' <=> Ordered(id)) BY DEF Passed, Ordered
<1>6. m.id # 0 => count'.sends = count.sends + 1 /\ m.id = count'.sends OBVIOUS
<1>7. count.sends <= count'.sends /\ (m.id # 0 => ~(m.id <= count.sends)) BY <1>t, <1>6
<1>8. \A t \in Sockets : \A i \in 1..Len(up[t]) : up[t][i].id = 0 \/ up[t][i].id <= count.sends
  <2> SUFFICES ASSUME NEW t \in Sockets, NEW i \in 1..Len(up[t])
               PROVE  up[t][i].id = 0 \/ up[t][i].id <= count.sends
    OBVIOUS
  <2>1. up[t][i] \in Input BY <1>t, ElementOfSeq
  <2>2. up[t][i].id = 0 \/ up[t][i].id \in Ids BY <2>1, Bounds DEF Input, Ids
  <2>3. up[t][i].id \in Ids => InUp(up[t][i].id) BY DEF InUp
  <2> QED BY <2>2, <2>3 DEF OneWay
<1>9. \A t, u \in Sockets : \A i \in 1..Len(up'[t]), j \in 1..Len(up'[u]) :
        up'[t][i].id = up'[u][j].id => up'[t][i].id = 0 \/ (t = u /\ i = j)
  <2> SUFFICES ASSUME NEW t \in Sockets, NEW u \in Sockets, NEW i \in 1..Len(up'[t]),
                      NEW j \in 1..Len(up'[u]), up'[t][i].id = up'[u][j].id, up'[t][i].id # 0
               PROVE  t = u /\ i = j
    OBVIOUS
  <2>1. CASE i \in 1..Len(up[t]) /\ up'[t][i] = up[t][i] /\ j \in 1..Len(up[u]) /\ up'[u][j] = up[u][j]
    BY <2>1 DEF OneWay
  <2>2. CASE i \in 1..Len(up[t]) /\ up'[t][i] = up[t][i] /\ up'[u][j] = m
    <3>1. up[t][i].id = m.id /\ m.id # 0 BY <2>2
    <3> QED BY <1>7, <1>8, <2>2, <3>1
  <2>3. CASE j \in 1..Len(up[u]) /\ up'[u][j] = up[u][j] /\ up'[t][i] = m
    <3>1. up[u][j].id = m.id /\ m.id # 0 BY <2>3
    <3> QED BY <1>7, <1>8, <2>3, <3>1
  <2>4. CASE t = s /\ i = Len(up[s]) + 1 /\ u = s /\ j = Len(up[s]) + 1 BY <2>4
  <2> QED BY <1>3, <2>1, <2>2, <2>3, <2>4
<1>10. \A id \in Ids : id = m.id => ~Ordered(id) /\ ~Passed(id) /\ id <= count'.sends /\ count.sends < id
  <2> SUFFICES ASSUME NEW id \in Ids, id = m.id
               PROVE  ~Ordered(id) /\ ~Passed(id) /\ id <= count'.sends /\ count.sends < id
    OBVIOUS
  <2>1. m.id # 0 BY <1>0
  <2>2. id <= count'.sends /\ count.sends < id BY <1>t, <1>6, <2>1
  <2> QED BY <1>7, <2>1, <2>2 DEF OneWay
<1>11. \A id \in Ids : id <= count.sends => id <= count'.sends BY <1>0, <1>6, <1>t
<1>12. OneWay' BY <1>4, <1>5, <1>9, <1>10, <1>11 DEF OneWay
<1>13. Numbered'
  <2>1. m.type # "send" => m.id = 0 OBVIOUS
  <2>2. \A t \in Sockets : \A i \in 1..Len(up'[t]) : up'[t][i].type # "send" => up'[t][i].id = 0
    BY <1>3, <2>1 DEF Numbered
  <2> QED BY <2>2 DEF Numbered
<1> QED BY <1>4, <1>5, <1>7, <1>10, <1>12, <1>13 DEF Onward

LEMMA TailShifts ==
  ASSUME NEW S, NEW q \in Seq(S), q # <<>>
  PROVE  /\ Len(q) \in Nat \ {0} /\ Len(Tail(q)) = Len(q) - 1
         /\ \A i \in 1..Len(Tail(q)) : Tail(q)[i] = q[i + 1]
         /\ Head(q) = q[1] /\ 1 \in 1..Len(q)
         /\ \A i \in 1..Len(Tail(q)) : i + 1 \in 1..Len(q) /\ i + 1 # 1
<1>1. /\ Len(q) \in Nat \ {0} /\ Len(Tail(q)) = Len(q) - 1
      /\ \A i \in 1..Len(Tail(q)) : Tail(q)[i] = q[i + 1]
      /\ Head(q) = q[1]
  BY EmptySeq, HeadTailProperties
<1> QED BY <1>1

\* Where on a socket t message i was before the first was taken from s.
Old(s, t, i) == IF t = s THEN i + 1 ELSE i

LEMMA SocketShifts ==
  ASSUME Types, NEW s \in Sockets, up[s] # <<>>, up' = [up EXCEPT ![s] = Tail(@)]
  PROVE  /\ 1 \in 1..Len(up[s]) /\ Head(up[s]) = up[s][1]
         /\ \A t \in Sockets : \A i \in 1..Len(up'[t]) :
              /\ Old(s, t, i) \in 1..Len(up[t]) /\ up'[t][i] = up[t][Old(s, t, i)]
              /\ t = s => Old(s, t, i) # 1
<1>s. up \in [Sockets -> Seq(Input)] /\ up[s] \in Seq(Input) BY DEF Types, PageTypes
<1>1. /\ \A t \in Sockets : t # s => up'[t] = up[t]
      /\ up'[s] = Tail(up[s])
  BY <1>s
<1>2. /\ \A i \in 1..Len(up'[s]) : up'[s][i] = up[s][i + 1]
      /\ Head(up[s]) = up[s][1]
      /\ 1 \in 1..Len(up[s]) /\ \A i \in 1..Len(up'[s]) : i + 1 \in 1..Len(up[s]) /\ i + 1 # 1
  <2> DEFINE q == up[s]
             r == up'[s]
  <2>1. q \in Seq(Input) /\ q # <<>> /\ r = Tail(q) BY <1>s, <1>1
  <2> HIDE DEF q, r
  <2>2. /\ \A i \in 1..Len(r) : r[i] = q[i + 1]
        /\ Head(q) = q[1] /\ 1 \in 1..Len(q) /\ \A i \in 1..Len(r) : i + 1 \in 1..Len(q) /\ i + 1 # 1
    BY <2>1, TailShifts
  <2> QED BY <2>2 DEF q, r
<1> QED BY <1>1, <1>2 DEF Old

\* The first message is taken from a socket: it was there once.
LEMMA HeadTaken ==
  ASSUME OneWay, NEW s \in Sockets, NEW id, 1 \in 1..Len(up[s]), up[s][1].id = id,
         \A t \in Sockets : \A i \in 1..Len(up'[t]) :
           /\ Old(s, t, i) \in 1..Len(up[t]) /\ up'[t][i] = up[t][Old(s, t, i)]
           /\ t = s => Old(s, t, i) # 1
  PROVE  /\ InUp(id) /\ (id # 0 => ~InUp(id)')
         /\ \A k : InUp(k)' => InUp(k)
         /\ \A t \in Sockets : \A i \in 1..Len(up'[t]) : \E j \in 1..Len(up[t]) : up'[t][i] = up[t][j]
         /\ \A t, u \in Sockets : \A i \in 1..Len(up'[t]), j \in 1..Len(up'[u]) :
              up'[t][i].id = up'[u][j].id => up'[t][i].id = 0 \/ (t = u /\ i = j)
<1>3. \A u, t \in Sockets : \A i \in 1..Len(up[u]), j \in 1..Len(up[t]) :
        up[u][i].id = up[t][j].id => up[u][i].id = 0 \/ (u = t /\ i = j)
  BY Zenon DEF OneWay
<1>5. \A t \in Sockets : \A i, j \in 1..Len(up'[t]) : Old(s, t, i) = Old(s, t, j) => i = j BY DEF Old
<1>e. 1 \in 1..Len(up[s]) /\ up[s][1].id = id OBVIOUS
<1>6. InUp(id) BY <1>e DEF InUp
<1>7. ASSUME id # 0, NEW t \in Sockets, NEW i \in 1..Len(up'[t]), up'[t][i].id = id
      PROVE  FALSE
  <2>1. up[t][Old(s, t, i)].id = up[s][1].id /\ up[s][1].id # 0 BY <1>7
  <2>2. t = s /\ Old(s, t, i) = 1 BY <1>3, <2>1
  <2> QED BY <2>2
<1>8. \A k : InUp(k)' => InUp(k) BY DEF InUp
<1>9. \A t, u \in Sockets : \A i \in 1..Len(up'[t]), j \in 1..Len(up'[u]) :
        up'[t][i].id = up'[u][j].id => up'[t][i].id = 0 \/ (t = u /\ i = j)
  <2> SUFFICES ASSUME NEW t \in Sockets, NEW u \in Sockets, NEW i \in 1..Len(up'[t]),
                      NEW j \in 1..Len(up'[u]), up'[t][i].id = up'[u][j].id, up'[t][i].id # 0
               PROVE  t = u /\ i = j
    OBVIOUS
  <2>1. up[t][Old(s, t, i)].id = up[u][Old(s, u, j)].id /\ up[t][Old(s, t, i)].id # 0 OBVIOUS
  <2>3. Old(s, t, i) \in 1..Len(up[t]) /\ Old(s, u, j) \in 1..Len(up[u]) OBVIOUS
  <2>2. t = u /\ Old(s, t, i) = Old(s, u, j) BY <1>3, <2>1, <2>3, SMTT(30)
  <2> QED BY <1>5, <2>2
<1>10. \A t \in Sockets : \A i \in 1..Len(up'[t]) : \E j \in 1..Len(up[t]) : up'[t][i] = up[t][j]
  OBVIOUS
<1>12. id # 0 => ~InUp(id)' BY <1>7 DEF InUp
<1> QED BY <1>6, <1>8, <1>9, <1>10, <1>12

\* process, with a thread that runs: the message goes from the socket to the
\* channel.
LEMMA ProcessMoves ==
  ASSUME Types, OneWay, Numbered, NEW s \in Sockets, up[s] # <<>>, up' = [up EXCEPT ![s] = Tail(@)],
         NEW c \in Order, c.id = Head(up[s]).id, c.type = Head(up[s]).type,
         commands' = Append(commands, c),
         requests' = requests, landed' = landed, dropped' = dropped, count'.sends = count.sends
  PROVE  OneWay' /\ Numbered' /\ \A id \in Ids : Onward(id)
<1>t. /\ count.sends \in Nat /\ commands \in Seq(Order) /\ Len(commands) \in Nat
  BY LenProperties, Bounds DEF Types, SessionTypes, HistoryTypes, CountRecord
<1>0. \A id \in Ids : id # 0 BY DEF Ids
<1> DEFINE h == c.id
<1>h. h = Head(up[s]).id OBVIOUS
<1> HIDE DEF h
<1>1. /\ InUp(h) /\ (h # 0 => ~InUp(h)')
      /\ \A k : InUp(k)' => InUp(k)
      /\ \A t \in Sockets : \A i \in 1..Len(up'[t]) : \E j \in 1..Len(up[t]) : up'[t][i] = up[t][j]
      /\ \A t, u \in Sockets : \A i \in 1..Len(up'[t]), j \in 1..Len(up'[u]) :
           up'[t][i].id = up'[u][j].id => up'[t][i].id = 0 \/ (t = u /\ i = j)
  BY <1>h, SocketShifts, HeadTaken
<1>8. /\ Len(commands') = Len(commands) + 1
      /\ \A i \in 1..Len(commands) : commands'[i] = commands[i]
      /\ commands'[Len(commands) + 1] = c
  BY <1>t, AppendProperties
<1>9. \A i \in 1..Len(commands') :
        \/ i \in 1..Len(commands) /\ commands'[i] = commands[i]
        \/ i = Len(commands) + 1 /\ commands'[i] = c
  BY <1>t, <1>8
<1>10. \A id : Ordered(id)' => Ordered(id) \/ id = h BY <1>9 DEF Ordered, h
<1>11. \A id : Passed(id)' <=> Passed(id) BY DEF Passed
<1>12. \A i \in 1..Len(commands) : commands[i].id = h => h = 0
  <2> SUFFICES ASSUME NEW i \in 1..Len(commands), commands[i].id = h, h # 0 PROVE FALSE OBVIOUS
  <2>1. Ordered(h) BY DEF Ordered
  <2>2. h \in Ids BY Bounds DEF Order, Ids, h
  <2> QED BY <1>1, <2>1, <2>2 DEF OneWay
<1>13. \A i, j \in 1..Len(commands') : commands'[i].id = commands'[j].id => commands'[i].id = 0 \/ i = j
  <2> SUFFICES ASSUME NEW i \in 1..Len(commands'), NEW j \in 1..Len(commands'),
                      commands'[i].id = commands'[j].id, commands'[i].id # 0
               PROVE  i = j
    OBVIOUS
  <2>1. CASE /\ i \in 1..Len(commands) /\ commands'[i] = commands[i]
             /\ j \in 1..Len(commands) /\ commands'[j] = commands[j]
    BY <2>1 DEF OneWay
  <2>2. CASE i \in 1..Len(commands) /\ commands'[i] = commands[i] /\ commands'[j] = c
    BY <1>12, <2>2 DEF h
  <2>3. CASE j \in 1..Len(commands) /\ commands'[j] = commands[j] /\ commands'[i] = c
    BY <1>12, <2>3 DEF h
  <2>4. CASE i = Len(commands) + 1 /\ j = Len(commands) + 1 BY <2>4
  <2> QED BY <1>9, <2>1, <2>2, <2>3, <2>4
<1>15. \A id \in Ids : id = h => id <= count.sends /\ ~Passed(id) BY <1>1 DEF OneWay
<1>16. \A id \in Ids : InUp(id)' => ~Ordered(id)'
  BY <1>0, <1>1, <1>10 DEF OneWay
<1>17. OneWay' BY <1>1, <1>10, <1>11, <1>13, <1>15, <1>16 DEF OneWay
<1>18. Numbered'
  <2>1. c.type # "send" => c.id = 0 BY SocketShifts DEF Numbered
  <2>2. \A t \in Sockets : \A i \in 1..Len(up'[t]) : up'[t][i].type # "send" => up'[t][i].id = 0
    BY <1>1 DEF Numbered
  <2>3. \A i \in 1..Len(commands') : commands'[i].type # "send" => commands'[i].id = 0
    BY <1>9, <2>1 DEF Numbered
  <2> QED BY <2>2, <2>3 DEF Numbered
<1>19. count.sends <= count'.sends BY <1>t
<1> QED BY <1>1, <1>10, <1>11, <1>17, <1>18, <1>19 DEF Onward

\* process, with a thread that is gone: the message is taken and refused.
LEMMA ProcessRefuses ==
  ASSUME Types, OneWay, Numbered, NEW s \in Sockets, up[s] # <<>>, up' = [up EXCEPT ![s] = Tail(@)],
         commands' = commands, requests' = requests, landed' = landed, dropped' = dropped,
         count'.sends = count.sends, NEW h, h = Head(up[s]).id
  PROVE  /\ OneWay' /\ Numbered' /\ \A id \in Ids : Onward(id)
         /\ h \in Ids => Refused(h)'
<1>0. \A id \in Ids : id # 0 BY DEF Ids
<1>1. /\ InUp(h) /\ (h # 0 => ~InUp(h)')
      /\ \A k : InUp(k)' => InUp(k)
      /\ \A t \in Sockets : \A i \in 1..Len(up'[t]) : \E j \in 1..Len(up[t]) : up'[t][i] = up[t][j]
      /\ \A t, u \in Sockets : \A i \in 1..Len(up'[t]), j \in 1..Len(up'[u]) :
           up'[t][i].id = up'[u][j].id => up'[t][i].id = 0 \/ (t = u /\ i = j)
  BY SocketShifts, HeadTaken
<1>2. \A id : (Ordered(id)' <=> Ordered(id)) /\ (Passed(id)' <=> Passed(id)) BY DEF Ordered, Passed
<1>3. OneWay' BY <1>1, <1>2 DEF OneWay
<1>4. Numbered'
  <2>1. \A t \in Sockets : \A i \in 1..Len(up'[t]) : up'[t][i].type # "send" => up'[t][i].id = 0
    BY <1>1 DEF Numbered
  <2> QED BY <2>1 DEF Numbered
<1>5. count.sends <= count'.sends BY Bounds DEF Types, HistoryTypes, CountRecord
<1>6. h \in Ids => Refused(h)'
  <2> SUFFICES ASSUME h \in Ids PROVE Refused(h)' OBVIOUS
  <2>1. h <= count.sends /\ ~Ordered(h) /\ ~Passed(h) BY <1>1 DEF OneWay
  <2> QED BY <1>0, <1>1, <1>2, <2>1 DEF Refused
<1> QED BY <1>1, <1>2, <1>3, <1>4, <1>5, <1>6 DEF Onward

\* The thread takes a command and asks the compositor for it, or for nothing.
LEMMA OrderTaken ==
  ASSUME Types, OneWay, Numbered, commands # <<>>, commands' = Tail(commands), up' = up,
         landed' = landed, dropped' = dropped, count'.sends = count.sends,
         NEW h, h = Head(commands).id,
         \/ requests' = requests
         \/ \E r \in Commit : /\ requests' = Append(requests, r) /\ r.id \in {0, h}
                              /\ r.type # "send" => r.id = 0
  PROVE  /\ OneWay' /\ Numbered' /\ \A id \in Ids : Onward(id)
         /\ requests' = requests /\ h \in Ids => Refused(h)'
<1>t. /\ count.sends \in Nat /\ requests \in Seq(Commit) /\ Len(requests) \in Nat
      /\ commands \in Seq(Order)
  BY LenProperties, Bounds DEF Types, SessionTypes, WaylandTypes, HistoryTypes, CountRecord
<1>0. \A id \in Ids : id # 0 BY DEF Ids
<1>1. /\ \A i \in 1..Len(commands') : /\ commands'[i] = commands[i + 1]
                                      /\ i + 1 \in 1..Len(commands) /\ i + 1 # 1
      /\ commands[1].id = h /\ 1 \in 1..Len(commands)
  BY <1>t, TailShifts
<1>2. \A i, j \in 1..Len(commands) : commands[i].id = commands[j].id => commands[i].id = 0 \/ i = j
  BY Zenon DEF OneWay
<1>3. Ordered(h) BY <1>1 DEF Ordered
<1>4. \A id : Ordered(id)' => Ordered(id) BY <1>1 DEF Ordered
<1>5. h # 0 => ~Ordered(h)'
  <2> SUFFICES ASSUME h # 0, NEW i \in 1..Len(commands'), commands'[i].id = h PROVE FALSE
    BY DEF Ordered
  <2>1. commands[i + 1].id = commands[1].id /\ commands[i + 1].id # 0 BY <1>1
  <2>2. i + 1 = 1 BY <1>1, <1>2, <2>1
  <2> QED BY <1>1, <2>2
<1>6. \A i \in 1..Len(requests') :
        \/ i \in 1..Len(requests) /\ requests'[i] = requests[i]
        \/ requests'[i].id \in {0, h} /\ (requests'[i].type # "send" => requests'[i].id = 0)
  <2>1. ASSUME NEW r \in Commit, requests' = Append(requests, r), r.id \in {0, h},
               r.type # "send" => r.id = 0, NEW i \in 1..Len(requests')
        PROVE  \/ i \in 1..Len(requests) /\ requests'[i] = requests[i]
               \/ requests'[i].id \in {0, h} /\ (requests'[i].type # "send" => requests'[i].id = 0)
    <3>1. /\ Len(requests') = Len(requests) + 1
          /\ \A j \in 1..Len(requests) : requests'[j] = requests[j]
          /\ requests'[Len(requests) + 1] = r
      BY <1>t, <2>1, AppendProperties
    <3>2. i \in 1..Len(requests) \/ i = Len(requests) + 1 BY <1>t, <3>1
    <3> QED BY <2>1, <3>1, <3>2
  <2> QED BY <2>1
<1>7. \A i \in 1..Len(requests) : i \in 1..Len(requests') /\ requests'[i] = requests[i]
  <2>1. ASSUME NEW r \in Commit, requests' = Append(requests, r), NEW i \in 1..Len(requests)
        PROVE  i \in 1..Len(requests') /\ requests'[i] = requests[i]
    BY <1>t, <2>1, AppendProperties
  <2> QED BY <2>1
<1>8. \A id \in Ids : Passed(id)' => Passed(id) \/ id = h BY <1>0, <1>6 DEF Passed
<1>9. \A id : Passed(id) => Passed(id)' BY <1>7 DEF Passed
<1>10. \A id : InUp(id)' <=> InUp(id) BY DEF InUp
<1>11. \A i, j \in 1..Len(commands') : commands'[i].id = commands'[j].id => commands'[i].id = 0 \/ i = j
  <2> SUFFICES ASSUME NEW i \in 1..Len(commands'), NEW j \in 1..Len(commands'),
                      commands'[i].id = commands'[j].id, commands'[i].id # 0
               PROVE  i = j
    OBVIOUS
  <2>1. i + 1 = j + 1 BY <1>1, <1>2
  <2> QED BY <2>1
<1>12. \A id \in Ids : id = h => id <= count.sends /\ ~InUp(id) /\ ~Passed(id) BY <1>3 DEF OneWay
<1>13. OneWay'
  <2>1. \A id \in Ids : InUp(id)' => ~Passed(id)' BY <1>8, <1>10, <1>12 DEF OneWay
  <2>2. \A id \in Ids : Ordered(id)' => ~Passed(id)' BY <1>0, <1>4, <1>5, <1>8 DEF OneWay
  <2>3. \A id \in Ids : InUp(id)' => id <= count.sends /\ ~Ordered(id)' BY <1>4, <1>10 DEF OneWay
  <2>4. \A id \in Ids : Ordered(id)' => id <= count.sends BY <1>4 DEF OneWay
  <2>5. \A id \in Ids : Passed(id)' => id <= count.sends BY <1>8, <1>12 DEF OneWay
  <2>6. \A s, t \in Sockets : \A i \in 1..Len(up'[s]), j \in 1..Len(up'[t]) :
          up'[s][i].id = up'[t][j].id => up'[s][i].id = 0 \/ (s = t /\ i = j)
    BY DEF OneWay
  <2> QED BY <1>11, <2>1, <2>2, <2>3, <2>4, <2>5, <2>6 DEF OneWay
<1>14. Numbered' BY <1>1, <1>6 DEF Numbered
<1>15. count.sends <= count'.sends BY <1>t
<1>16. requests' = requests /\ h \in Ids => Refused(h)'
  <2> SUFFICES ASSUME requests' = requests, h \in Ids PROVE Refused(h)' OBVIOUS
  <2>1. Passed(h)' => Passed(h) BY DEF Passed
  <2> QED BY <1>0, <1>5, <1>10, <1>12, <2>1 DEF Refused
<1> QED BY <1>3, <1>4, <1>8, <1>9, <1>10, <1>13, <1>14, <1>15, <1>16 DEF Onward

\* The compositor takes a request: a text lands or is dropped.
LEMMA RequestTaken ==
  ASSUME Types, OneWay, Numbered, Apply
  PROVE  OneWay' /\ Numbered' /\ \A id \in Ids : Onward(id)
<1>t. count.sends \in Nat /\ requests \in Seq(Commit)
  BY Bounds DEF Types, WaylandTypes, HistoryTypes, CountRecord
<1>0. \A id \in Ids : id # 0 BY DEF Ids
<1>1. /\ requests # <<>> /\ requests' = Tail(requests) /\ up' = up /\ commands' = commands
      /\ count' = count
  BY DEF Apply, socket
<1>2. /\ \A i \in 1..Len(requests') : /\ requests'[i] = requests[i + 1]
                                      /\ i + 1 \in 1..Len(requests)
      /\ Head(requests) = requests[1] /\ 1 \in 1..Len(requests) /\ Len(requests) \in Nat \ {0}
      /\ Len(requests') = Len(requests) - 1
  BY <1>t, <1>1, TailShifts
<1> DEFINE r == requests[1]
           fresh == desk.ours /\ r.serial = desk.dones
<1>3. /\ landed' = IF fresh /\ r.type = "send"
                   THEN landed \cup {[id |-> r.id, asked |-> r.epoch, field |-> desk.epoch]} ELSE landed
      /\ dropped' = IF ~fresh /\ r.type = "send" THEN dropped \cup {r.id} ELSE dropped
  BY <1>2 DEF Apply
<1>4. r.type # "send" => r.id = 0 BY <1>2 DEF Numbered
<1> HIDE DEF fresh
<1>5. \A id : Passed(id)' => Passed(id)
  <2> SUFFICES ASSUME NEW id, Passed(id)' PROVE Passed(id) OBVIOUS
  <2>1. CASE \E i \in 1..Len(requests') : requests'[i].id = id BY <1>2, <2>1 DEF Passed
  <2>2. CASE id \in dropped'
    <3>1. id \in dropped \/ id = r.id BY <1>3, <2>2
    <3> QED BY <1>2, <3>1 DEF Passed
  <2>3. CASE \E l \in landed' : l.id = id
    <3>1. (\E l \in landed : l.id = id) \/ id = r.id BY <1>3, <2>3
    <3> QED BY <1>2, <3>1 DEF Passed
  <2> QED BY <2>1, <2>2, <2>3 DEF Passed
<1>6. \A id \in Ids : Passed(id) => Passed(id)'
  <2> SUFFICES ASSUME NEW id \in Ids, Passed(id) PROVE Passed(id)' OBVIOUS
  <2>1. CASE id \in dropped \/ \E l \in landed : l.id = id
    <3>1. dropped \subseteq dropped' /\ landed \subseteq landed' BY <1>3
    <3> QED BY <2>1, <3>1 DEF Passed
  <2>2. ASSUME NEW i \in 1..Len(requests), requests[i].id = id, i # 1 PROVE Passed(id)'
    <3>1. i - 1 \in 1..Len(requests') /\ (i - 1) + 1 = i BY <1>2, <2>2
    <3>2. requests'[i - 1].id = id BY <1>2, <2>2, <3>1
    <3> QED BY <3>1, <3>2 DEF Passed
  <2>3. CASE r.id = id
    <3>1. r.type = "send" BY <1>0, <1>4, <2>3
    <3>2. CASE fresh
      <4> DEFINE l == [id |-> r.id, asked |-> r.epoch, field |-> desk.epoch]
      <4>1. l \in landed' /\ l.id = id BY <1>3, <2>3, <3>1, <3>2
      <4> QED BY <4>1 DEF Passed
    <3>3. CASE ~fresh
      <4>1. id \in dropped' BY <1>3, <2>3, <3>1, <3>3
      <4> QED BY <4>1 DEF Passed
    <3> QED BY <3>2, <3>3
  <2> QED BY <2>1, <2>2, <2>3 DEF Passed
<1>7. \A id : (InUp(id)' <=> InUp(id)) /\ (Ordered(id)' <=> Ordered(id)) BY <1>1 DEF InUp, Ordered
<1>8. OneWay' BY <1>1, <1>5, <1>7 DEF OneWay
<1>9. Numbered' BY <1>1, <1>2 DEF Numbered
<1>10. count.sends <= count'.sends BY <1>t, <1>1
<1> QED BY <1>5, <1>6, <1>7, <1>8, <1>9, <1>10 DEF Onward

\* What the steps do that neither take a message from a socket nor a command:
\* PageSends, or NothingTaken.
LEMMA SyncDraftMoves ==
  ASSUME Types, OneWay, Numbered, NEW b \in Browsers, SyncDraft(b), commands' = commands,
         requests' = requests, landed' = landed, dropped' = dropped, count' = count
  PROVE  OneWay' /\ Numbered' /\ \A id \in Ids : Onward(id)
<1>1. CASE page[b].sock # 0 /\ page[b].target.active /\ page[b].pendingId = 0
  <2> DEFINE s == page[b].sock
             m == [type |-> "draft", epoch |-> page[b].target.epoch, some |-> page[b].draft, id |-> 0]
  <2>1. s \in Sockets BY <1>1, Bounds DEF Types, PageTypes, PageRecord, Sockets
  <2>2. m \in Input /\ m.id = 0 BY Bounds DEF Types, PageTypes, PageRecord, Input
  <2>3. up' = Put(up, s, m) BY <1>1 DEF SyncDraft
  <2> HIDE DEF s, m
  <2> QED BY <2>1, <2>2, <2>3, PageSends
<1>2. CASE ~(page[b].sock # 0 /\ page[b].target.active /\ page[b].pendingId = 0)
  BY <1>2, NothingMoves DEF SyncDraft
<1> QED BY <1>1, <1>2

LEMMA PageWay ==
  ASSUME Types, OneWay, Numbered, NEW b \in Browsers, Page(b)
  PROVE  OneWay' /\ Numbered' /\ \A id \in Ids : Onward(id)
<1>t. up \in [Sockets -> Seq(Input)] BY DEF Types, PageTypes
<1>c. count \in CountRecord BY DEF Types, HistoryTypes
<1>1. CASE Connect(b) \/ Type(b) \/ CompositionStart(b) \/ OnMessage(b)
  <2>1. /\ up' = up /\ commands' = commands /\ requests' = requests
        /\ landed' = landed /\ dropped' = dropped /\ count'.sends = count.sends
    BY <1>1, <1>c DEF Connect, Type, CompositionStart, OnMessage, socket, wayland, lost, CountRecord
  <2> QED BY <2>1, NothingMoves
<1>2. CASE TimerFires(b) \/ CompositionEnd(b)
  BY <1>2, SyncDraftMoves DEF TimerFires, CompositionEnd, wayland, lost
<1>3. CASE Send(b)
  <2> DEFINE s == page[b].sock
             m == [type |-> "send", epoch |-> page[b].target.epoch, some |-> TRUE, id |-> count.sends + 1]
  <2>1. s \in Sockets BY <1>3, Bounds DEF Types, PageTypes, PageRecord, Sockets, Send
  <2>2. m \in Input /\ m.type = "send" /\ m.id = count.sends + 1
    <3>1. count.sends + 1 \in 0..MaxSends BY <1>3, Bounds DEF Send, Ids
    <3> QED BY <3>1 DEF Types, PageTypes, PageRecord, Input
  <2>3. /\ up' = Put(up, s, m) /\ commands' = commands /\ requests' = requests
        /\ landed' = landed /\ dropped' = dropped /\ count'.sends = count.sends + 1
    BY <1>3, <1>c DEF Send, wayland, lost, CountRecord
  <2> HIDE DEF s, m
  <2> QED BY <2>1, <2>2, <2>3, PageSends
<1>4. CASE OnClose(b)
  <2> DEFINE s == page[b].sock
  <2>1. s \in Sockets BY <1>4, Bounds DEF Types, PageTypes, PageRecord, Sockets, OnClose
  <2>2. PICK n \in 0..Len(up[s]) : up' = [up EXCEPT ![s] = SubSeq(@, 1, n)] BY <1>4 DEF OnClose
  <2>3. up[s] \in Seq(Input) BY <1>t, <2>1
  <2> HIDE DEF s
  <2>4. up'[s] = SubSeq(up[s], 1, n) /\ \A t \in Sockets : t # s => up'[t] = up[t] BY <1>t, <2>1, <2>2
  <2>5. \A i \in 1..Len(up'[s]) : i \in 1..Len(up[s]) /\ up'[s][i] = up[s][i]
    <3> DEFINE q == up[s]
               r == SubSeq(q, 1, n)
    <3>1. q \in Seq(Input) /\ n \in 0..Len(q) BY <2>3
    <3> HIDE DEF q
    <3>2. \A i \in 1..Len(r) : i \in 1..Len(q) /\ r[i] = q[i]
      <4>1. Len(q) \in Nat BY <3>1, LenProperties
      <4>2. CASE n = 0 BY <4>2, <3>1, <4>1, SubSeqProperties
      <4>3. CASE n # 0 BY <4>3, <3>1, <4>1, SubSeqProperties
      <4> QED BY <4>2, <4>3
    <3> QED BY <2>4, <3>2 DEF q
  <2>6. \A t \in Sockets : \A i \in 1..Len(up'[t]) : i \in 1..Len(up[t]) /\ up'[t][i] = up[t][i]
    BY <2>4, <2>5
  <2>7. /\ commands' = commands /\ requests' = requests
        /\ landed' = landed /\ dropped' = dropped /\ count'.sends = count.sends
    BY <1>4 DEF OnClose, wayland, lost
  <2> QED BY <2>6, <2>7, NothingTaken
<1> QED BY <1>1, <1>2, <1>3, <1>4 DEF Page

LEMMA SessionWay ==
  ASSUME Types, OneWay, Numbered, NEW s \in Sockets, Session(s)
  PROVE  OneWay' /\ Numbered' /\ \A id \in Ids : Onward(id)
<1>t. up \in [Sockets -> Seq(Input)] BY DEF Types, PageTypes
<1>e. /\ requests' = requests /\ landed' = landed /\ dropped' = dropped /\ count'.sends = count.sends
  BY DEF Session, Take, Changed, Process, Reply, End, Leave, wayland, lost
<1>1. CASE Changed(s) \/ Reply(s)
  BY <1>1, <1>e, NothingMoves DEF Changed, Reply
<1>2. CASE Take(s) \/ End(s)
  <2>1. up' = [up EXCEPT ![s] = <<>>] BY <1>2 DEF Take, End, Leave
  <2>2. up'[s] = <<>> /\ \A t \in Sockets : t # s => up'[t] = up[t] BY <1>t, <2>1
  <2>3. \A i \in 1..Len(<<>>) : FALSE BY EmptySeq
  <2>4. \A t \in Sockets : \A i \in 1..Len(up'[t]) : i \in 1..Len(up[t]) /\ up'[t][i] = up[t][i]
    BY <2>2, <2>3
  <2>5. commands' = commands \/ commands' = Append(commands, ClearOf(s)) BY <1>2 DEF Take, End
  <2>6. ClearOf(s) \in Order /\ ClearOf(s).id = 0 /\ ClearOf(s).type \notin Texts
    BY Bounds DEF ClearOf, Order, Epochs, Sockets, Texts
  <2> QED BY <1>e, <2>4, <2>5, <2>6, NothingTaken
<1>3. CASE Process(s) /\ im.running
  <2> DEFINE m == Head(up[s])
             c == [type |-> m.type, by |-> s, epoch |-> m.epoch, some |-> m.some, id |-> m.id]
  <2>1. up[s] # <<>> /\ up' = [up EXCEPT ![s] = Tail(@)] /\ commands' = Append(commands, c)
    BY <1>3 DEF Process
  <2>2. m \in Input BY <1>t, <2>1, HeadTailProperties
  <2>3. c \in Order /\ c.id = Head(up[s]).id /\ c.type = Head(up[s]).type
    BY <2>2, Bounds DEF Input, Order, Sockets
  <2> HIDE DEF c
  <2> QED BY <1>e, <2>1, <2>3, ProcessMoves
<1>4. CASE Process(s) /\ ~im.running
  <2>1. up[s] # <<>> /\ up' = [up EXCEPT ![s] = Tail(@)] /\ commands' = commands
    BY <1>4 DEF Process
  <2>2. PICK h : h = Head(up[s]).id OBVIOUS
  <2> QED BY <1>e, <2>1, <2>2, ProcessRefuses
<1> QED BY <1>1, <1>2, <1>3, <1>4 DEF Session

\* What the thread asks for with a command.
LEMMA CommandAsks ==
  ASSUME Types, Numbered, Command, NEW h, h = Head(commands).id
  PROVE  \/ requests' = requests
         \/ \E r \in Commit : /\ requests' = Append(requests, r) /\ r.id \in {0, h}
                              /\ r.type # "send" => r.id = 0
<1> DEFINE c == Head(commands)
<1>t. commands \in Seq(Order) /\ commands # <<>> BY DEF Types, SessionTypes, Command
<1>1. c \in Order /\ c = commands[1] /\ 1 \in 1..Len(commands) BY <1>t, TailShifts, HeadTailProperties
<1>2. c.type # "send" => c.id = 0 BY <1>1 DEF Numbered
<1>3. ClearOf(0) \in Order /\ ClearOf(0).id = 0 /\ ClearOf(0).type = "clear"
  BY Bounds DEF ClearOf, Order, Epochs
<1>4. ASSUME NEW d \in Order, d.type # "stop", Request(d), d.id \in {0, h}, d.type # "send" => d.id = 0
      PROVE  \E r \in Commit : /\ requests' = Append(requests, r) /\ r.id \in {0, h}
                               /\ r.type # "send" => r.id = 0
  <2> DEFINE r == [type |-> d.type, by |-> d.by, some |-> d.some, id |-> d.id,
                   epoch |-> d.epoch, serial |-> im.serial]
  <2>1. r \in Commit BY <1>4 DEF Order, Commit, Types, WaylandTypes
  <2>2. requests' = Append(requests, r) BY <1>4 DEF Request
  <2>3. r.id = d.id /\ r.type = d.type OBVIOUS
  <2> QED BY <1>4, <2>1, <2>2, <2>3
<1>5. \/ requests' = requests
      \/ Request(c) /\ c.type # "stop"
      \/ Request(ClearOf(0))
  BY DEF Command, Update, Clear
<1>6. CASE Request(c) /\ c.type # "stop" BY <1>1, <1>2, <1>4, <1>6
<1>7. CASE Request(ClearOf(0)) BY <1>3, <1>4, <1>7
<1> QED BY <1>5, <1>6, <1>7

LEMMA WayStep ==
  ASSUME Types, OneWay, Numbered, [Next]_vars
  PROVE  OneWay' /\ Numbered' /\ \A id \in Ids : Onward(id)
<1>c. count \in CountRecord BY DEF Types, HistoryTypes
<1>1. CASE Command
  <2>1. PICK h : h = Head(commands).id OBVIOUS
  <2>2. /\ commands # <<>> /\ commands' = Tail(commands) /\ up' = up
        /\ landed' = landed /\ dropped' = dropped /\ count'.sends = count.sends
    BY <1>1 DEF Command, socket, lost
  <2> QED BY <1>1, <2>1, <2>2, CommandAsks, OrderTaken
<1>2. CASE CtrlC
  <2> DEFINE d == [ClearOf(0) EXCEPT !.type = "stop"]
  <2>0. ClearOf(0) \in Order /\ ClearOf(0).id = 0 BY Bounds DEF ClearOf, Order, Epochs
  <2>1. d \in Order /\ d.id = 0 /\ d.type \notin Texts BY <2>0 DEF Order, Texts
  <2>2. /\ commands' = Append(commands, d) /\ up' = up /\ requests' = requests
        /\ landed' = landed /\ dropped' = dropped /\ count'.sends = count.sends
    BY <1>2, <1>c DEF CtrlC, Other, socket, wayland, lost, CountRecord
  <2> HIDE DEF d
  <2> QED BY <2>1, <2>2, NothingTaken
<1>3. CASE Event \/ Desk \/ UNCHANGED vars
  <2>1. /\ commands' = commands /\ up' = up /\ requests' = requests
        /\ landed' = landed /\ dropped' = dropped /\ count'.sends = count.sends
    BY <1>3, <1>c DEF Event, Desk, Focus, Touch, Refuse, Other, vars, socket, wayland, lost, CountRecord
  <2> QED BY <2>1, NothingMoves
<1> QED BY <1>1, <1>2, <1>3, PageWay, SessionWay, RequestTaken DEF Next, Thread

\* No session starts or ends to wait, and no text is queued.
LEMMA AwaitedStays ==
  ASSUME Types, Awaited, reply' = reply,
         \A s \in Sockets : session'[s] = "replying" <=> session[s] = "replying",
         commands' = commands \/ \E d \in Order : d.type \notin Texts /\ commands' = Append(commands, d)
  PROVE  Awaited'
<1>t. commands \in Seq(Order) /\ Len(commands) \in Nat BY LenProperties DEF Types, SessionTypes
<1>1. \A i \in 1..Len(commands') :
        \/ i \in 1..Len(commands) /\ commands'[i] = commands[i]
        \/ commands'[i].type \notin Texts
  <2>1. ASSUME NEW d \in Order, d.type \notin Texts, commands' = Append(commands, d),
               NEW i \in 1..Len(commands')
        PROVE  \/ i \in 1..Len(commands) /\ commands'[i] = commands[i]
               \/ commands'[i].type \notin Texts
    <3>1. /\ Len(commands') = Len(commands) + 1
          /\ \A j \in 1..Len(commands) : commands'[j] = commands[j]
          /\ commands'[Len(commands) + 1] = d
      BY <1>t, <2>1, AppendProperties
    <3>2. i \in 1..Len(commands) \/ i = Len(commands) + 1 BY <1>t, <3>1
    <3> QED BY <2>1, <3>1, <3>2
  <2> QED BY <2>1
<1>2. \A i \in 1..Len(commands') : commands'[i].type \in Texts =>
        /\ commands'[i].by \in Sockets /\ session'[commands'[i].by] = "replying"
        /\ reply'[commands'[i].by].answer = "none" /\ reply'[commands'[i].by].id = commands'[i].id
  BY <1>1 DEF Awaited
<1>3. \A i, j \in 1..Len(commands') :
        commands'[i].type \in Texts /\ commands'[j].type \in Texts
        /\ commands'[i].by = commands'[j].by => i = j
  BY <1>1 DEF Awaited
<1>4. \A s \in Sockets : session'[s] # "replying" => reply'[s].answer = "none" BY DEF Awaited
<1> QED BY <1>2, <1>3, <1>4 DEF Awaited

LEMMA ProcessAwaits ==
  ASSUME Types, Awaited, NEW s \in Sockets, NEW c \in Order, c.by = s, session[s] = "control",
         commands' = Append(commands, c), session' = [session EXCEPT ![s] = "replying"],
         reply' = [reply EXCEPT ![s].id = c.id]
  PROVE  Awaited'
<1>t. /\ commands \in Seq(Order) /\ Len(commands) \in Nat
      /\ session \in [Sockets -> {"none", "waiting", "control", "replying"}]
      /\ reply \in [Sockets -> [answer : {"none", "ack", "error"}, id : 0 .. MaxSends]]
  BY LenProperties DEF Types, SessionTypes
<1>1. /\ session'[s] = "replying" /\ reply'[s].answer = reply[s].answer /\ reply'[s].id = c.id
      /\ \A t \in Sockets : t # s => session'[t] = session[t] /\ reply'[t] = reply[t]
  BY <1>t
<1>2. reply'[s].answer = "none" BY <1>1 DEF Awaited
<1>3. \A i \in 1..Len(commands) : commands[i].type \in Texts => commands[i].by # s
  BY DEF Awaited
<1>4. /\ Len(commands') = Len(commands) + 1
      /\ \A j \in 1..Len(commands) : commands'[j] = commands[j]
      /\ commands'[Len(commands) + 1] = c
  BY <1>t, AppendProperties
<1>5. \A i \in 1..Len(commands') :
        \/ i \in 1..Len(commands) /\ commands'[i] = commands[i]
        \/ i = Len(commands) + 1 /\ commands'[i] = c
  BY <1>t, <1>4
<1>6. ASSUME NEW i \in 1..Len(commands'), commands'[i].type \in Texts
      PROVE  /\ commands'[i].by \in Sockets /\ session'[commands'[i].by] = "replying"
             /\ reply'[commands'[i].by].answer = "none" /\ reply'[commands'[i].by].id = commands'[i].id
  <2>1. CASE i \in 1..Len(commands) /\ commands'[i] = commands[i]
    BY <1>1, <1>3, <1>6, <2>1 DEF Awaited
  <2>2. CASE commands'[i] = c BY <1>1, <1>2, <2>2
  <2> QED BY <1>5, <2>1, <2>2
<1>7. ASSUME NEW i \in 1..Len(commands'), NEW j \in 1..Len(commands'), commands'[i].type \in Texts,
             commands'[j].type \in Texts, commands'[i].by = commands'[j].by
      PROVE  i = j
  <2>1. CASE /\ i \in 1..Len(commands) /\ commands'[i] = commands[i]
             /\ j \in 1..Len(commands) /\ commands'[j] = commands[j]
    BY <1>7, <2>1 DEF Awaited
  <2>2. CASE i \in 1..Len(commands) /\ commands'[i] = commands[i] /\ commands'[j] = c
    BY <1>3, <1>7, <2>2
  <2>3. CASE j \in 1..Len(commands) /\ commands'[j] = commands[j] /\ commands'[i] = c
    BY <1>3, <1>7, <2>3
  <2>4. CASE i = Len(commands) + 1 /\ j = Len(commands) + 1 BY <2>4
  <2> QED BY <1>5, <2>1, <2>2, <2>3, <2>4
<1>8. \A t \in Sockets : session'[t] # "replying" => reply'[t].answer = "none" BY <1>1 DEF Awaited
<1> QED BY <1>6, <1>7, <1>8 DEF Awaited

LEMMA CommandAwaits ==
  ASSUME Types, Awaited, NEW c \in Order, commands # <<>>, c = Head(commands), commands' = Tail(commands),
         session' = session,
         \/ c.type \in Texts /\ \E answer : reply' = [reply EXCEPT ![c.by].answer = answer]
         \/ c.type \notin Texts /\ reply' = reply
  PROVE  Awaited'
<1>t. /\ commands \in Seq(Order)
      /\ reply \in [Sockets -> [answer : {"none", "ack", "error"}, id : 0 .. MaxSends]]
  BY DEF Types, SessionTypes
<1>1. /\ \A i \in 1..Len(commands') : /\ commands'[i] = commands[i + 1]
                                      /\ i + 1 \in 1..Len(commands) /\ i + 1 # 1
      /\ commands[1] = c /\ 1 \in 1..Len(commands)
  BY <1>t, TailShifts
<1>2. \A t \in Sockets : c.type \notin Texts \/ t # c.by => reply'[t] = reply[t] BY <1>t
<1>3. \A i \in 1..Len(commands') : commands'[i].type \in Texts /\ c.type \in Texts => commands'[i].by # c.by
  BY <1>1 DEF Awaited
<1>4. ASSUME NEW i \in 1..Len(commands'), commands'[i].type \in Texts
      PROVE  /\ commands'[i].by \in Sockets /\ session'[commands'[i].by] = "replying"
             /\ reply'[commands'[i].by].answer = "none" /\ reply'[commands'[i].by].id = commands'[i].id
  <2>1. /\ commands'[i].by \in Sockets /\ session[commands'[i].by] = "replying"
        /\ reply[commands'[i].by].answer = "none" /\ reply[commands'[i].by].id = commands'[i].id
    BY <1>1, <1>4 DEF Awaited
  <2>2. reply'[commands'[i].by] = reply[commands'[i].by] BY <1>2, <1>3, <1>4, <2>1
  <2> QED BY <2>1, <2>2
<1>5. ASSUME NEW i \in 1..Len(commands'), NEW j \in 1..Len(commands'), commands'[i].type \in Texts,
             commands'[j].type \in Texts, commands'[i].by = commands'[j].by
      PROVE  i = j
  <2>1. i + 1 = j + 1 BY <1>1, <1>5 DEF Awaited
  <2> QED BY <2>1
<1>6. ASSUME NEW t \in Sockets, session'[t] # "replying" PROVE reply'[t].answer = "none"
  <2>1. c.type \in Texts => session[c.by] = "replying" BY <1>1 DEF Awaited
  <2>2. reply'[t] = reply[t] BY <1>2, <1>6, <2>1
  <2> QED BY <1>6, <2>2 DEF Awaited
<1> QED BY <1>4, <1>5, <1>6 DEF Awaited

LEMMA AwaitedStep == ASSUME Types, Lock, Awaited, [Next]_vars PROVE Awaited'
<1>t. /\ session \in [Sockets -> {"none", "waiting", "control", "replying"}]
      /\ reply \in [Sockets -> [answer : {"none", "ack", "error"}, id : 0 .. MaxSends]]
      /\ up \in [Sockets -> Seq(Input)] /\ commands \in Seq(Order) /\ count.sockets \in Nat
  BY Bounds DEF Types, SessionTypes, PageTypes, HistoryTypes, CountRecord
<1>1. ASSUME NEW b \in Browsers, Connect(b) PROVE Awaited'
  <2> DEFINE s == count.sockets + 1
  <2>1. /\ s \in Sockets /\ session' = [session EXCEPT ![s] = "waiting"]
        /\ reply' = reply /\ commands' = commands
    BY <1>1 DEF Connect
  <2>2. s > count.sockets BY <1>t
  <2>3. session[s] = "none" BY <2>1, <2>2 DEF Lock
  <2> HIDE DEF s
  <2>4. \A t \in Sockets : session'[t] = "replying" <=> session[t] = "replying" BY <1>t, <2>1, <2>3
  <2> QED BY <2>1, <2>4, AwaitedStays
<1>2. CASE reply' = reply /\ session' = session /\ commands' = commands BY <1>2, AwaitedStays
<1>3. ASSUME NEW b \in Browsers, Page(b) PROVE Awaited'
  <2>1. CASE Connect(b) BY <1>1, <2>1
  <2>2. CASE ~Connect(b)
    BY <1>2, <1>3, <2>2 DEF Page, Type, TimerFires, CompositionStart, CompositionEnd, Send,
                            OnMessage, OnClose, server
  <2> QED BY <2>1, <2>2
<1>4. ASSUME NEW s \in Sockets, Session(s) PROVE Awaited'
  <2>1. CASE Take(s)
    <3>1. \A t \in Sockets : session'[t] = "replying" <=> session[t] = "replying"
      BY <1>t, <2>1 DEF Take
    <3> QED BY <2>1, <3>1, AwaitedStays DEF Take
  <2>2. CASE Changed(s) BY <1>2, <2>2 DEF Changed
  <2>3. CASE Process(s) /\ im.running
    <3> DEFINE m == Head(up[s])
               c == [type |-> m.type, by |-> s, epoch |-> m.epoch, some |-> m.some, id |-> m.id]
    <3>1. /\ up[s] # <<>> /\ session[s] = "control" /\ commands' = Append(commands, c)
          /\ session' = [session EXCEPT ![s] = "replying"] /\ reply' = [reply EXCEPT ![s].id = m.id]
      BY <2>3 DEF Process
    <3>2. m \in Input BY <1>t, <3>1, HeadTailProperties
    <3>3. c \in Order /\ c.by = s /\ c.id = m.id BY <3>2, Bounds DEF Input, Order, Sockets
    <3> HIDE DEF c, m
    <3> QED BY <3>1, <3>3, ProcessAwaits
  <2>4. CASE Process(s) /\ ~im.running BY <1>2, <2>4 DEF Process
  <2>5. CASE Reply(s)
    <3>1. /\ session' = [session EXCEPT ![s] = "control"] /\ reply' = [reply EXCEPT ![s] = NoReply]
          /\ commands' = commands /\ reply[s].answer # "none"
      BY <2>5 DEF Reply
    <3>2. /\ reply'[s].answer = "none"
          /\ \A t \in Sockets : t # s => session'[t] = session[t] /\ reply'[t] = reply[t]
      BY <1>t, <3>1 DEF NoReply
    <3>3. \A i \in 1..Len(commands) : commands[i].type \in Texts => commands[i].by # s
      BY <3>1 DEF Awaited
    <3> QED BY <3>1, <3>2, <3>3 DEF Awaited
  <2>6. CASE End(s)
    <3>1. \A t \in Sockets : session'[t] = "replying" <=> session[t] = "replying"
      BY <1>t, <2>6 DEF End, Leave
    <3>2. ClearOf(s) \in Order /\ ClearOf(s).type \notin Texts
      BY Bounds DEF ClearOf, Order, Epochs, Sockets, Texts
    <3>3. reply' = reply /\ (commands' = commands \/ commands' = Append(commands, ClearOf(s)))
      BY <2>6 DEF End, Leave
    <3> QED BY <3>1, <3>2, <3>3, AwaitedStays
  <2> QED BY <1>4, <2>1, <2>2, <2>3, <2>4, <2>5, <2>6 DEF Session
<1>5. CASE Command
  <2> DEFINE c == Head(commands)
  <2>1. commands # <<>> /\ commands' = Tail(commands) /\ session' = session BY <1>5 DEF Command
  <2>2. c \in Order BY <1>t, <2>1, HeadTailProperties
  <2>3. \/ c.type \in Texts /\ \E answer : reply' = [reply EXCEPT ![c.by].answer = answer]
        \/ c.type \notin Texts /\ reply' = reply
    BY <1>5 DEF Command, Update, Clear, Replied, Texts
  <2> HIDE DEF c
  <2>4. c = Head(commands) BY DEF c
  <2> QED BY <2>1, <2>2, <2>3, <2>4, CommandAwaits
<1>6. CASE CtrlC
  <2> DEFINE d == [ClearOf(0) EXCEPT !.type = "stop"]
  <2>0. ClearOf(0) \in Order BY Bounds DEF ClearOf, Order, Epochs
  <2>1. d \in Order /\ d.type \notin Texts BY <2>0 DEF Order, Texts
  <2>2. commands' = Append(commands, d) /\ session' = session /\ reply' = reply
    BY <1>6 DEF CtrlC, server
  <2> HIDE DEF d
  <2> QED BY <2>1, <2>2, AwaitedStays
<1>7. CASE Event \/ Desk \/ Apply \/ UNCHANGED vars
  BY <1>2, <1>7 DEF Event, Desk, Focus, Touch, Refuse, Apply, vars, server
<1> QED BY <1>3, <1>4, <1>5, <1>6, <1>7 DEF Next, Thread

\* What is new in a queue is what was put there.
LEMMA PutElements ==
  ASSUME NEW q \in [Sockets -> Seq(Output)], NEW s \in Sockets, NEW m \in Output, NEW p, p = Put(q, s, m),
         NEW t \in Sockets, NEW i \in 1..Len(p[t])
  PROVE  p[t][i] = m \/ \E j \in 1..Len(q[t]) : p[t][i] = q[t][j]
<1>1. CASE t # s BY <1>1 DEF Put
<1>2. CASE t = s
  <2>1. p[s] = Append(q[s], m) /\ q[s] \in Seq(Output) BY DEF Put
  <2>2. /\ Len(q[s]) \in Nat /\ Len(p[s]) = Len(q[s]) + 1
        /\ \A j \in 1..Len(q[s]) : p[s][j] = q[s][j]
        /\ p[s][Len(q[s]) + 1] = m
    BY <2>1, AppendProperties, LenProperties
  <2>3. i \in 1..Len(q[s]) \/ i = Len(q[s]) + 1 BY <1>2, <2>2
  <2>4. CASE i \in 1..Len(q[s]) BY <1>2, <2>2, <2>4
  <2>5. CASE i = Len(q[s]) + 1 BY <1>2, <2>2, <2>5
  <2> QED BY <2>3, <2>4, <2>5
<1> QED BY <1>1, <1>2

LEMMA ToPageElements ==
  ASSUME Types, NEW s \in Sockets, NEW m \in Output, ToPage(s, m),
         NEW t \in Sockets, NEW i \in 1..Len(down'[t])
  PROVE  down'[t][i] = m \/ \E j \in 1..Len(down[t]) : down'[t][i] = down[t][j]
<1>1. down \in [Sockets -> Seq(Output)] BY DEF Types, PageTypes
<1>2. CASE down' = Put(down, s, m) BY <1>1, <1>2, PutElements
<1>3. CASE down' = down BY <1>3
<1> QED BY <1>2, <1>3 DEF ToPage

\* No one is answered by a step that puts on the sockets only what answers
\* nothing and leaves the replies and the pages alone.
LEMMA NoAnswer ==
  ASSUME NEW kind \in {"error", "ack"}, NEW id \in Ids, Answered(kind, id)',
         told'[id] = told[id] \/ told'[id] # kind,
         \A s \in Sockets : reply'[s] = reply[s] \/ reply'[s].answer # kind,
         \A s \in Sockets : \A i \in 1..Len(down'[s]) :
           \/ down'[s][i].type # kind
           \/ \E j \in 1..Len(down[s]) : down'[s][i] = down[s][j]
  PROVE  Answered(kind, id)
BY DEF Answered

\* A page is told what came down its socket.
LEMMA PageTold ==
  ASSUME Types, NEW b \in Browsers, Page(b), NEW kind \in {"error", "ack"}, NEW id \in Ids,
         Answered(kind, id)'
  PROVE  Answered(kind, id)
<1>t. down \in [Sockets -> Seq(Output)] /\ told \in [Ids -> {"nothing", "ack", "error", "unknown"}]
  BY DEF Types, PageTypes
<1>1. CASE Connect(b)
  <2> DEFINE s == count.sockets + 1
             m == [type |-> "waiting"]
  <2>1. s \in Sockets /\ down' = Put(down, s, m) /\ reply' = reply /\ told' = told
    BY <1>1 DEF Connect
  <2>2. m \in Output /\ m.type # kind BY DEF Output
  <2> HIDE DEF m, s
  <2>3. \A t \in Sockets : \A i \in 1..Len(down'[t]) :
          down'[t][i].type # kind \/ \E j \in 1..Len(down[t]) : down'[t][i] = down[t][j]
    <3>1. ASSUME NEW t \in Sockets, NEW i \in 1..Len(down'[t])
          PROVE  down'[t][i] = m \/ \E j \in 1..Len(down[t]) : down'[t][i] = down[t][j]
      <4>1. down \in [Sockets -> Seq(Output)] /\ m \in Output /\ down' = Put(down, s, m) /\ s \in Sockets
        BY <1>t, <2>1, <2>2
      <4> DEFINE p == down'
      <4>2. p = Put(down, s, m) /\ i \in 1..Len(p[t]) BY <3>1, <4>1
      <4> HIDE DEF p
      <4>3. p[t][i] = m \/ \E j \in 1..Len(down[t]) : p[t][i] = down[t][j]
        BY <4>1, <4>2, PutElements
      <4> QED BY <4>3 DEF p
    <3> QED BY <2>2, <3>1
  <2> QED BY <2>1, <2>3, NoAnswer
<1>2. CASE Type(b) \/ TimerFires(b) \/ CompositionStart(b) \/ CompositionEnd(b) \/ Send(b)
  <2>1. down' = down /\ reply' = reply /\ told' = told
    BY <1>2 DEF Type, TimerFires, CompositionStart, CompositionEnd, Send, socket, server
  <2> QED BY <2>1, NoAnswer
<1>3. CASE OnMessage(b)
  <2> DEFINE s == page[b].sock
             m == Head(down[s])
  <2>1. s \in Sockets BY <1>3, Bounds DEF Types, PageTypes, PageRecord, OnMessage, Sockets
  <2>2. down[s] # <<>> /\ down' = [down EXCEPT ![s] = Tail(@)] /\ reply' = reply
    BY <1>3 DEF OnMessage, server
  <2>3. down[s] \in Seq(Output) BY <1>t, <2>1
  <2>4. /\ \A i \in 1..Len(Tail(down[s])) : /\ Tail(down[s])[i] = down[s][i + 1]
                                            /\ i + 1 \in 1..Len(down[s])
        /\ m = down[s][1] /\ 1 \in 1..Len(down[s])
    BY <2>2, <2>3, TailShifts
  <2>5. \A t \in Sockets : \A i \in 1..Len(down'[t]) : \E j \in 1..Len(down[t]) : down'[t][i] = down[t][j]
    <3>1. down'[s] = Tail(down[s]) /\ \A t \in Sockets : t # s => down'[t] = down[t]
      BY <1>t, <2>1, <2>2
    <3> SUFFICES ASSUME NEW t \in Sockets, NEW i \in 1..Len(down'[t])
                 PROVE  \E j \in 1..Len(down[t]) : down'[t][i] = down[t][j]
      OBVIOUS
    <3>2. CASE t # s BY <3>1, <3>2
    <3>3. CASE t = s
      <4>1. i \in 1..Len(Tail(down[s])) /\ down'[t][i] = Tail(down[s])[i] BY <3>1, <3>3
      <4>2. i + 1 \in 1..Len(down[t]) /\ down'[t][i] = down[t][i + 1] BY <2>4, <3>3, <4>1
      <4> QED BY <4>2
    <3> QED BY <3>2, <3>3
  <2>6. told' = told \/ (page[b].pendingId = m.id /\ told' = [told EXCEPT ![page[b].pendingId] = m.type])
    BY <1>3 DEF OnMessage, OnAnswer, Told
  <2>7. told'[id] = told[id] \/ (m.id = id /\ told'[id] = m.type) BY <1>t, <2>6
  <2>8. CASE told'[id] = told[id] \/ told'[id] # kind BY <2>2, <2>5, <2>8, NoAnswer
  <2>9. CASE m.id = id /\ m.type = kind BY <2>1, <2>4, <2>9 DEF Answered
  <2> QED BY <2>7, <2>8, <2>9
<1>4. CASE OnClose(b)
  <2> DEFINE s == page[b].sock
  <2>2. down' = [down EXCEPT ![s] = <<>>] /\ reply' = reply /\ told' = Told(b, "unknown")
    BY <1>4 DEF OnClose, server
  <2>3. \A i \in 1..Len(<<>>) : FALSE BY EmptySeq
  <2>4. \A t \in Sockets : \A i \in 1..Len(down'[t]) : \E j \in 1..Len(down[t]) : down'[t][i] = down[t][j]
    <3>1. \A t \in Sockets : down'[t] = down[t] \/ down'[t] = <<>> BY <1>t, <2>2
    <3> QED BY <2>3, <3>1
  <2>5. told'[id] = told[id] \/ told'[id] = "unknown" BY <1>t, <2>2 DEF Told
  <2> QED BY <2>2, <2>4, <2>5, NoAnswer
<1> QED BY <1>1, <1>2, <1>3, <1>4 DEF Page

LEMMA SessionTells ==
  ASSUME Types, Lag, OneWay, Numbered, Awaited, NEW s \in Sockets, Session(s),
         NEW kind \in {"error", "ack"}, NEW id \in Ids, Answered(kind, id)'
  PROVE  Answered(kind, id) \/ (kind = "error" /\ Refused(id)')
<1>t. /\ up \in [Sockets -> Seq(Input)] /\ down \in [Sockets -> Seq(Output)]
      /\ reply \in [Sockets -> [answer : {"none", "ack", "error"}, id : 0 .. MaxSends]]
  BY DEF Types, PageTypes, SessionTypes
<1>told. told' = told BY DEF Session, Take, Changed, Process, Reply, End, Leave
<1>e. /\ requests' = requests /\ landed' = landed /\ dropped' = dropped /\ count'.sends = count.sends
  BY DEF Session, Take, Changed, Process, Reply, End, Leave, wayland, lost
<1>1. ASSUME NEW m \in Output, ToPage(s, m),
             \A t \in Sockets : reply'[t] = reply[t] \/ reply'[t].answer # kind,
             m.type = kind /\ m.id = id => Answered(kind, id) \/ (kind = "error" /\ Refused(id)')
      PROVE  Answered(kind, id) \/ (kind = "error" /\ Refused(id)')
  <2>1. CASE m.type = kind /\ m.id = id BY <1>1, <2>1
  <2>2. CASE ~(m.type = kind /\ m.id = id)
    <3>1. \A t \in Sockets : \A i \in 1..Len(down'[t]) :
            down'[t][i] = m \/ \E j \in 1..Len(down[t]) : down'[t][i] = down[t][j]
      BY <1>1, ToPageElements
    <3> QED BY <1>1, <1>told, <2>2, <3>1 DEF Answered
  <2> QED BY <2>1, <2>2
<1>2. CASE Take(s) \/ Changed(s)
  <2>1. ToPage(s, State(im)) /\ reply' = reply BY <1>2 DEF Take, Changed
  <2>2. State(im) \in Output BY StateIsOutput, ThreadIsBehind
  <2>3. State(im).type # kind BY DEF State
  <2> QED BY <1>1, <2>1, <2>2, <2>3
<1>3. CASE Process(s) /\ im.running
  <2> DEFINE h == Head(up[s]).id
  <2>1. down' = down /\ session[s] = "control" /\ reply' = [reply EXCEPT ![s].id = h]
    BY <1>3 DEF Process
  <2>2. reply[s].answer = "none" BY <2>1 DEF Awaited
  <2> HIDE DEF h
  <2>3. reply'[s].answer = "none" /\ \A t \in Sockets : t # s => reply'[t] = reply[t]
    BY <1>t, <2>1, <2>2
  <2>4. \A t \in Sockets : reply'[t] = reply[t] \/ reply'[t].answer # kind BY <2>3
  <2> QED BY <1>told, <2>1, <2>4, NoAnswer
<1>4. CASE Process(s) /\ ~im.running
  <2> DEFINE n == Head(up[s]).id
             m == [type |-> "error", id |-> n]
  <2>1. /\ up[s] # <<>> /\ up' = [up EXCEPT ![s] = Tail(@)] /\ commands' = commands
        /\ reply' = reply /\ ToPage(s, m)
    BY <1>4 DEF Process
  <2>2. Head(up[s]) \in Input BY <1>t, <2>1, HeadTailProperties
  <2>3. m \in Output /\ m.type = "error" /\ m.id = n BY <2>2, AnswerIsOutput DEF Input
  <2>4. id = n => Refused(id)' BY <1>e, <2>1, ProcessRefuses
  <2> HIDE DEF m, n
  <2> QED BY <1>1, <2>1, <2>3, <2>4
<1>5. CASE Reply(s)
  <2> DEFINE m == [type |-> reply[s].answer, id |-> reply[s].id]
  <2>1. reply' = [reply EXCEPT ![s] = NoReply] /\ ToPage(s, m) /\ reply[s].answer # "none"
    BY <1>5 DEF Reply
  <2>2. m \in Output BY <1>t, <2>1, AnswerIsOutput
  <2>3. \A t \in Sockets : reply'[t] = reply[t] \/ reply'[t].answer # kind BY <1>t, <2>1 DEF NoReply
  <2>4. m.type = kind /\ m.id = id => Answered(kind, id) BY DEF Answered
  <2> HIDE DEF m
  <2> QED BY <1>1, <2>1, <2>2, <2>3, <2>4
<1>6. CASE End(s)
  <2>1. down' = down /\ reply' = reply BY <1>6 DEF End, Leave
  <2> QED BY <1>told, <2>1, NoAnswer
<1> QED BY <1>2, <1>3, <1>4, <1>5, <1>6 DEF Session

LEMMA ThreadAnswers ==
  ASSUME Types, OneWay, Numbered, Awaited, Command,
         NEW kind \in {"error", "ack"}, NEW id \in Ids, Answered(kind, id)'
  PROVE  \/ Answered(kind, id)
         \/ kind = "error" /\ Refused(id)'
         \/ kind = "ack" /\ Passed(id)'
<1> DEFINE c == Head(commands)
<1>t. /\ reply \in [Sockets -> [answer : {"none", "ack", "error"}, id : 0 .. MaxSends]]
      /\ commands \in Seq(Order) /\ requests \in Seq(Commit)
  BY DEF Types, WaylandTypes, SessionTypes
<1>1. /\ commands # <<>> /\ commands' = Tail(commands) /\ up' = up /\ down' = down /\ told' = told
      /\ landed' = landed /\ dropped' = dropped /\ count'.sends = count.sends
  BY DEF Command, socket, lost
<1>2. c = commands[1] /\ 1 \in 1..Len(commands) /\ c \in Order BY <1>t, <1>1, TailShifts, HeadTailProperties
<1>3. \/ reply' = reply
      \/ c.type \in Texts /\ Replied(c, "error") /\ requests' = requests
      \/ c.type \in Texts /\ Replied(c, "ack") /\ Request(c)
  BY DEF Command, Update, Clear, Texts
<1>4. CASE reply' = reply BY <1>1, <1>4, NoAnswer
<1>5. ASSUME c.type \in Texts, NEW answer, Replied(c, answer), ~(answer = kind /\ c.id = id)
      PROVE  Answered(kind, id)
  <2>1. c.by \in Sockets /\ reply[c.by].id = c.id BY <1>2, <1>5 DEF Awaited
  <2>2. \A t \in Sockets : reply'[t].answer = kind /\ reply'[t].id = id
                             => reply[t].answer = kind /\ reply[t].id = id
    <3>1. reply'[c.by].id = c.id /\ reply'[c.by].answer = answer BY <1>t, <1>5, <2>1 DEF Replied
    <3>2. \A t \in Sockets : t # c.by => reply'[t] = reply[t] BY <1>t, <1>5, <2>1 DEF Replied
    <3> QED BY <1>5, <3>1, <3>2
  <2> HIDE DEF c
  <2> QED BY <1>1, <2>2 DEF Answered
<1>6. CASE c.type \in Texts /\ Replied(c, "error") /\ requests' = requests
  <2>1. CASE kind = "error" /\ c.id = id
    <3>1. id = Head(commands).id BY <2>1
    <3> QED BY <1>1, <1>6, <2>1, <3>1, OrderTaken
  <2>2. CASE ~("error" = kind /\ c.id = id) BY <1>5, <1>6, <2>2
  <2> QED BY <2>1, <2>2
<1>7. CASE c.type \in Texts /\ Replied(c, "ack") /\ Request(c)
  <2>1. CASE kind = "ack" /\ c.id = id
    <3> DEFINE r == [type |-> c.type, by |-> c.by, some |-> c.some, id |-> c.id,
                     epoch |-> c.epoch, serial |-> im.serial]
    <3>1. requests' = Append(requests, r) BY <1>7 DEF Request
    <3>2. r \in Commit BY <1>2, <1>7 DEF Order, Commit, Types, WaylandTypes, Texts
    <3>3. r.id = id BY <2>1
    <3> HIDE DEF r
    <3>4. /\ Len(requests) + 1 \in 1..Len(requests')
          /\ requests'[Len(requests) + 1].id = id
      BY <1>t, <3>1, <3>2, <3>3, AppendProperties, LenProperties
    <3> QED BY <2>1, <3>4 DEF Passed
  <2>2. CASE ~("ack" = kind /\ c.id = id) BY <1>5, <1>7, <2>2
  <2> QED BY <2>1, <2>2
<1> QED BY <1>3, <1>4, <1>6, <1>7

LEMMA AnswersStep ==
  ASSUME Types, Types', Lag, OneWay, Numbered, Awaited, Answers, [Next]_vars
  PROVE  Answers'
<1>1. \A id \in Ids : Onward(id) BY WayStep
<1>2. ASSUME NEW id \in Ids, NEW kind \in {"error", "ack"}, Answered(kind, id)'
      PROVE  \/ Answered(kind, id)
             \/ kind = "error" /\ Refused(id)'
             \/ kind = "ack" /\ Passed(id)'
  <2>1. CASE \E b \in Browsers : Page(b) BY <1>2, <2>1, PageTold
  <2>2. CASE \E s \in Sockets : Session(s) BY <1>2, <2>2, SessionTells
  <2>3. CASE Command BY <1>2, <2>3, ThreadAnswers
  <2>4. CASE Event \/ CtrlC \/ Desk \/ Apply \/ UNCHANGED vars
    <3>1. down' = down /\ reply' = reply /\ told' = told
      BY <2>4 DEF Event, CtrlC, Desk, Focus, Touch, Refuse, Apply, vars, socket, server
    <3> QED BY <1>2, <3>1, NoAnswer
  <2> QED BY <2>1, <2>2, <2>3, <2>4 DEF Next, Thread
<1> QED BY <1>1, <1>2, AnswersStay

LEMMA InitWay == Init => OneWay /\ Numbered /\ Awaited /\ Answers
<1> SUFFICES ASSUME Init PROVE OneWay /\ Numbered /\ Awaited /\ Answers OBVIOUS
<1>1. /\ \A s \in Sockets : Len(up[s]) = 0 /\ Len(down[s]) = 0
      /\ Len(commands) = 0 /\ Len(requests) = 0
      /\ landed = {} /\ dropped = {}
      /\ \A s \in Sockets : reply[s].answer = "none"
      /\ \A id \in Ids : told[id] = "nothing"
  BY EmptySeq DEF Init, NoReply
<1>2. \A i \in 1..0 : FALSE OBVIOUS
<1>3. \A id : ~InUp(id) /\ ~Ordered(id) /\ ~Passed(id) BY <1>1, <1>2 DEF InUp, Ordered, Passed
<1>4. \A id \in Ids : ~Answered("error", id) /\ ~Answered("ack", id) BY <1>1, <1>2 DEF Answered
<1>5. OneWay BY <1>1, <1>2, <1>3 DEF OneWay
<1>6. Numbered /\ Awaited BY <1>1, <1>2 DEF Numbered, Awaited
<1> QED BY <1>4, <1>5, <1>6 DEF Answers

\* A page that is told of an error may send its text again: nothing comes of the
\* first.  One that is told ack has committed it, and it lands unless the commit
\* meets a done event that the compositor has sent and the thread not read.
THEOREM AnswersAreTrue == Spec => []AnswerIsTrue
<1> DEFINE Inv == Types /\ Lag /\ Lock /\ OneWay /\ Numbered /\ Awaited /\ Answers
<1>1. Init => Inv BY InitTypes, InitLag, InitLock, InitWay
<1>2. Inv /\ [Next]_vars => Inv'
  <2> SUFFICES ASSUME Inv, [Next]_vars PROVE Inv' OBVIOUS
  <2>1. Types' /\ Lag' /\ Lock' BY TypesStep, LagStep, LockStep
  <2>2. OneWay' /\ Numbered' /\ Awaited' BY WayStep, AwaitedStep
  <2>3. Answers' BY <2>1, AnswersStep
  <2> QED BY <2>1, <2>2, <2>3
<1>3. Inv => AnswerIsTrue
  <2> SUFFICES ASSUME Inv, NEW id \in Ids
               PROVE  /\ told[id] = "error" =>
                           /\ ~Underway(id) /\ id \notin {l.id : l \in landed}
                           /\ \A i \in DOMAIN commands : commands[i].id # id
                      /\ told[id] = "ack" => Underway(id) \/ id \in dropped \/ id \in {l.id : l \in landed}
    BY DEF AnswerIsTrue
  <2>1. DOMAIN commands = 1..Len(commands) /\ DOMAIN requests = 1..Len(requests)
    BY LenProperties DEF Types, SessionTypes, WaylandTypes
  <2>2. Ordered(id) <=> \E i \in DOMAIN commands : commands[i].id = id BY <2>1 DEF Ordered
  <2>3. Passed(id) <=> Underway(id) \/ id \in dropped \/ id \in {l.id : l \in landed}
    BY <2>1 DEF Passed, Underway
  <2>4. /\ told[id] = "error" => Refused(id)
        /\ told[id] = "ack" => Passed(id)
    BY DEF Answers, Answered
  <2> QED BY <2>2, <2>3, <2>4 DEF Refused
<1> QED BY <1>1, <1>2, <1>3, PTL DEF Spec

-----------------------------------------------------------------------------
(* What a session that has ended leaves on the screen.                      *)

\* A draft the compositor will show, if nothing changes before it gets there.
Live(i) == requests[i].type = "draft" /\ requests[i].serial = desk.dones /\ desk.ours

ClearBy(s)   == \E i \in 1..Len(commands) : commands[i].type = "clear" /\ commands[i].by = s
ClearFrom(i) == \E k \in i..Len(requests) : requests[k].type = "clear"

\* While a preedit is shown, or a draft lives, the thread knows it is active:
\* it cannot drop a Clear for want of a field.
Abreast ==
  /\ im.running /\ ~im.pending_reset => im.active = im.pending_active
  /\ desk.preedit # 0 /\ im.running => im.active /\ im.epoch = desk.epoch
  /\ \A i \in 1..Len(requests) : Live(i) /\ im.running => im.active
  /\ ~desk.ours => desk.preedit = 0
  /\ \A i \in 1..Len(events) : events[i] = "unavailable" => ~desk.ours

\* No text comes before a Clear in the channel.
ClearsFirst ==
  \A j \in 1..Len(commands) : commands[j].type = "clear" =>
    \A i \in 1..j : commands[i].type \in {"clear", "stop"}

\* Whatever is shown, or will be, has its Clear behind it when its session or
\* the thread has ended.
Wiped ==
  /\ \A i \in 1..Len(requests) : Live(i) =>
       /\ im.running \/ ClearFrom(i)
       /\ session[requests[i].by] # "none" \/ ClearBy(requests[i].by) \/ ClearFrom(i)
  /\ desk.preedit # 0 =>
       /\ im.running \/ missed \/ ClearFrom(1)
       /\ session[desk.preedit] # "none" \/ missed \/ ClearBy(desk.preedit) \/ ClearFrom(1)

\* A session that has not had its turn has shown nothing.
Silent ==
  /\ \A s \in Sockets : s > count.sockets \/ session[s] = "waiting" =>
       desk.preedit # s /\ \A i \in 1..Len(requests) : requests[i].type = "draft" => requests[i].by # s
  /\ \A i \in 1..Len(requests) : requests[i].type = "draft" => requests[i].by \in Sockets

\* A done event the thread has not seen kills every draft on its way.
LEMMA NothingLives ==
  ASSUME Types, Stamped, NEW n \in Nat, im.serial < n, NEW i \in 1..Len(requests)
  PROVE  requests[i].serial # n
<1>1. requests[i] \in Commit BY ElementOfSeq DEF Types, WaylandTypes
<1>2. requests[i].serial \in Nat /\ im.serial \in Nat BY <1>1 DEF Commit, Types, WaylandTypes
<1>3. requests[i].serial <= im.serial BY DEF Stamped
<1> QED BY <1>2, <1>3

\* As long as the thread is abreast, no change is under way.
LEMMA NoChangePending ==
  ASSUME Types, Lag, im.epoch = desk.epoch
  PROVE  ~im.pending_reset
<1> DEFINE c == Count(events, Changes)
           p == IF im.pending_reset THEN 1 ELSE 0
<1>1. im.epoch \in Nat /\ desk.epoch \in Nat /\ events \in Seq(Signal) BY DEF Types, WaylandTypes
<1>2. c \in Nat BY <1>1, CountType
<1>3. desk.epoch = im.epoch + c + p BY DEF Lag
<1>4. p \in Nat /\ (p = 0 => ~im.pending_reset) OBVIOUS
<1> HIDE DEF c, p
<1>5. p = 0 BY <1>1, <1>2, <1>3, <1>4
<1> QED BY <1>4, <1>5

\* What a command may add to the requests.
LEMMA CommandAdds ==
  ASSUME Types, Awaited, Command
  PROVE  /\ im'.active = im.active /\ im'.pending_active = im.pending_active
         /\ im'.pending_reset = im.pending_reset /\ im'.epoch = im.epoch
         /\ im'.running \in BOOLEAN /\ (im'.running => im.running)
         /\ \/ requests' = requests
            \/ \E r \in Commit :
                 /\ requests' = Append(requests, r) /\ im.active /\ im.running
                 /\ r.type = "draft" => r.by \in Sockets /\ session[r.by] = "replying"
         /\ Head(commands).type \notin Texts /\ im.running /\ im.active =>
              \E r \in Commit : requests' = Append(requests, r) /\ r.type = "clear"
         /\ Head(commands).type \in Texts \/ ~im.running => im' = im
<1> DEFINE c == Head(commands)
<1>t. /\ im \in [active : BOOLEAN, epoch : Nat, pending_active : BOOLEAN,
                 pending_reset : BOOLEAN, serial : Nat, running : BOOLEAN]
      /\ commands \in Seq(Order) /\ commands # <<>>
  BY DEF Types, WaylandTypes, SessionTypes, Command
<1>1. c \in Order /\ c = commands[1] /\ 1 \in 1..Len(commands) BY <1>t, TailShifts, HeadTailProperties
<1>2. ClearOf(0) \in Order /\ ClearOf(0).type = "clear" BY Bounds DEF ClearOf, Order, Epochs
<1>3. c.type \in Texts => c.by \in Sockets /\ session[c.by] = "replying" BY <1>1 DEF Awaited
<1>4. im' = im \/ (im' = [im EXCEPT !.running = FALSE] /\ im.running /\ c.type = "stop")
  BY DEF Command
<1>5. /\ im'.active = im.active /\ im'.pending_active = im.pending_active
      /\ im'.pending_reset = im.pending_reset /\ im'.epoch = im.epoch
      /\ im'.running \in BOOLEAN /\ (im'.running => im.running)
      /\ (c.type \in Texts \/ ~im.running => im' = im)
  BY <1>t, <1>4 DEF Texts
<1>6. ASSUME NEW d \in Order, d.type # "stop", Request(d)
      PROVE  \E r \in Commit : requests' = Append(requests, r) /\ r.type = d.type /\ r.by = d.by
  <2> DEFINE r == [type |-> d.type, by |-> d.by, some |-> d.some, id |-> d.id,
                   epoch |-> d.epoch, serial |-> im.serial]
  <2>1. r \in Commit BY <1>6, <1>t DEF Order, Commit
  <2>2. requests' = Append(requests, r) BY <1>6 DEF Request
  <2>3. r.type = d.type /\ r.by = d.by OBVIOUS
  <2> QED BY <2>1, <2>2, <2>3
<1>7. CASE c.type \in Texts /\ im.running
  <2>1. requests' = requests \/ (im.active /\ Request(c)) BY <1>7 DEF Command, Update, Texts
  <2>2. c.type # "stop" BY <1>7 DEF Texts
  <2> QED BY <1>1, <1>3, <1>5, <1>6, <1>7, <2>1, <2>2
<1>8. CASE c.type = "clear" /\ im.running
  <2>1. IF im.active THEN Request(c) ELSE requests' = requests BY <1>8 DEF Command, Clear
  <2>2. im.active => \E r \in Commit : requests' = Append(requests, r) /\ r.type = "clear"
    BY <1>1, <1>6, <1>8, <2>1
  <2> QED BY <1>5, <1>8, <2>1, <2>2
<1>9. CASE c.type = "stop" /\ im.running
  <2>1. IF im.active THEN Request(ClearOf(0)) ELSE requests' = requests BY <1>9 DEF Command, Clear
  <2>2. im.active => \E r \in Commit : requests' = Append(requests, r) /\ r.type = "clear"
    BY <1>2, <1>6, <2>1
  <2> QED BY <1>5, <1>9, <2>1, <2>2
<1>10. CASE ~im.running
  <2>1. requests' = requests BY <1>10 DEF Command
  <2> QED BY <1>5, <1>10, <2>1
<1>11. c.type \in {"draft", "send", "clear", "stop"} BY <1>1 DEF Order
<1> QED BY <1>7, <1>8, <1>9, <1>10, <1>11 DEF Texts

\* A commit that is appended comes last.
LEMMA RequestsGrow ==
  ASSUME Types, NEW r \in Commit, requests' = Append(requests, r)
  PROVE  /\ Len(requests) \in Nat /\ Len(requests') = Len(requests) + 1
         /\ \A i \in 1..Len(requests) : requests'[i] = requests[i] /\ i \in 1..Len(requests')
         /\ requests'[Len(requests) + 1] = r
         /\ \A i \in 1..Len(requests') : /\ i \in 1..Len(requests) \/ i = Len(requests) + 1
                                         /\ Len(requests) + 1 \in i..Len(requests')
<1>1. requests \in Seq(Commit) /\ Len(requests) \in Nat BY LenProperties DEF Types, WaylandTypes
<1>2. /\ Len(requests') = Len(requests) + 1
      /\ \A i \in 1..Len(requests) : requests'[i] = requests[i]
      /\ requests'[Len(requests) + 1] = r
  BY <1>1, AppendProperties
<1> QED BY <1>1, <1>2

\* The first commit is applied, or dropped.
LEMMA ApplyTakes ==
  ASSUME Types, Apply
  PROVE  /\ 1 \in 1..Len(requests) /\ requests' = Tail(requests)
         /\ Len(requests) \in Nat \ {0} /\ Len(requests') = Len(requests) - 1
         /\ \A i \in 1..Len(requests') : requests'[i] = requests[i + 1] /\ i + 1 \in 1..Len(requests)
         /\ im' = im /\ events' = events /\ session' = session /\ commands' = commands
         /\ desk'.dones = desk.dones /\ desk'.epoch = desk.epoch /\ desk'.ours = desk.ours
         /\ \/ desk'.preedit = 0
            \/ desk'.preedit = desk.preedit /\ (missed \/ requests[1].type = "clear" => missed')
            \/ desk'.preedit = requests[1].by /\ Live(1)
         /\ ~desk.ours => desk' = desk
<1>t. /\ requests \in Seq(Commit) /\ requests # <<>>
      /\ desk \in [active : BOOLEAN, epoch : Nat, dones : Nat, preedit : 0 .. MaxSockets, ours : BOOLEAN]
  BY DEF Types, WaylandTypes, Apply
<1>1. /\ Len(requests) \in Nat \ {0} /\ Len(Tail(requests)) = Len(requests) - 1
      /\ \A i \in 1..Len(Tail(requests)) : Tail(requests)[i] = requests[i + 1]
      /\ Head(requests) = requests[1] /\ 1 \in 1..Len(requests)
      /\ \A i \in 1..Len(Tail(requests)) : i + 1 \in 1..Len(requests)
  BY <1>t, TailShifts
<1>2. requests' = Tail(requests) /\ im' = im /\ events' = events /\ session' = session /\ commands' = commands
  BY DEF Apply, server
<1> DEFINE r == requests[1]
           fresh == desk.ours /\ r.serial = desk.dones
<1>3. /\ desk' = IF fresh THEN [desk EXCEPT !.preedit = IF r.type = "draft" /\ r.some THEN r.by ELSE 0]
                 ELSE desk
      /\ missed' = (~fresh /\ (missed \/ r.type = "clear"))
  BY <1>1 DEF Apply
<1>4. CASE ~fresh
  <2>1. desk' = desk /\ (missed \/ r.type = "clear" => missed') BY <1>3, <1>4
  <2> QED BY <1>1, <1>2, <2>1
<1>5. CASE fresh
  <2>2. PICK p : p = (IF r.type = "draft" /\ r.some THEN r.by ELSE 0) OBVIOUS
  <2>3. desk' = [desk EXCEPT !.preedit = p] BY <1>3, <1>5, <2>2
  <2>4. /\ desk'.dones = desk.dones /\ desk'.epoch = desk.epoch /\ desk'.ours = desk.ours
        /\ desk'.preedit = p
    BY <1>t, <2>3
  <2>5. p = 0 \/ (p = r.by /\ Live(1)) BY <1>5, <2>2 DEF Live
  <2> QED BY <1>1, <1>2, <1>5, <2>4, <2>5
<1> QED BY <1>4, <1>5

\* A done event, or a change of the input method, leaves nothing alive.
LEMMA DeskKills ==
  ASSUME Types, Lag, Stamped, Desk
  PROVE  /\ \A i \in 1..Len(requests') : ~Live(i)'
         /\ requests' = requests /\ im' = im /\ commands' = commands /\ session' = session
         /\ missed' = missed /\ desk'.preedit \in {0, desk.preedit}
         /\ desk'.preedit # 0 => desk'.epoch = desk.epoch /\ desk'.ours = desk.ours
         /\ ~desk'.ours => desk'.preedit = 0 \/ ~desk.ours
         /\ desk'.ours => desk.ours
         /\ \A i \in 1..Len(events') :
              events'[i] = "unavailable" => ~desk'.ours \/ \E j \in 1..Len(events) : events[j] = "unavailable"
<1>t. /\ desk \in [active : BOOLEAN, epoch : Nat, dones : Nat, preedit : 0 .. MaxSockets, ours : BOOLEAN]
      /\ events \in Seq(Signal) /\ desk.dones \in Nat /\ im.serial \in Nat
  BY DEF Types, WaylandTypes
<1>1. im.serial <= desk.dones BY ThreadIsBehind
<1>2. im.serial < desk.dones + 1 /\ desk.dones + 1 \in Nat BY <1>t, <1>1
<1>3. \A i \in 1..Len(requests) : requests[i].serial # desk.dones + 1 BY <1>2, NothingLives
<1>4. requests' = requests /\ im' = im /\ commands' = commands /\ session' = session /\ missed' = missed
  BY DEF Desk, Focus, Touch, Refuse, server, lost
<1>5. ASSUME NEW event \in {"activate", "deactivate"}, Focus(event) PROVE
         /\ desk'.dones = desk.dones + 1 /\ desk'.preedit = 0 /\ desk'.ours = desk.ours /\ desk.ours
         /\ events' = events \o <<event, "done">>
  BY <1>t, <1>5 DEF Focus
<1>6. CASE Touch
  <2>1. /\ desk'.dones = desk.dones + 1 /\ desk'.preedit = desk.preedit /\ desk'.ours = desk.ours
        /\ desk'.epoch = desk.epoch
    BY <1>t, <1>6 DEF Touch
  <2>2. events' = Append(events, "done") BY <1>6 DEF Touch
  <2>3. "done" \in Signal BY DEF Signal
  <2>4. /\ Len(events') = Len(events) + 1 /\ events'[Len(events) + 1] = "done"
        /\ \A i \in 1..Len(events) : events'[i] = events[i]
    BY <1>t, <2>2, <2>3, AppendProperties
  <2>5. \A i \in 1..Len(events') : i \in 1..Len(events) \/ i = Len(events) + 1
    BY <1>t, <2>4, LenProperties
  <2>6. \A i \in 1..Len(events') : events'[i] = "unavailable" => \E j \in 1..Len(events) : events[j] = "unavailable"
    BY <2>4, <2>5
  <2>7. \A i \in 1..Len(requests') : ~Live(i)' BY <1>3, <1>4, <2>1 DEF Live
  <2> QED BY <1>4, <2>1, <2>6, <2>7
<1>7. CASE Refuse
  <2>1. desk'.preedit = 0 /\ desk'.ours = FALSE BY <1>t, <1>7 DEF Refuse
  <2>2. \A i \in 1..Len(requests') : ~Live(i)' BY <2>1 DEF Live
  <2> QED BY <1>4, <2>1, <2>2
<1>8. ASSUME NEW event \in {"activate", "deactivate"}, Focus(event)
      PROVE \A i \in 1..Len(events') : events'[i] = "unavailable" => \E j \in 1..Len(events) : events[j] = "unavailable"
  <2> DEFINE two == <<event, "done">>
  <2>1. two \in Seq(Signal) /\ Len(two) = 2 /\ two[1] = event /\ two[2] = "done" BY DEF Signal
  <2>2. \A i \in 1..2 : two[i] # "unavailable"
    <3>1. \A i \in 1..2 : i = 1 \/ i = 2 OBVIOUS
    <3> QED BY <1>8, <2>1, <3>1
  <2>3. events' = events \o two BY <1>5, <1>8
  <2> HIDE DEF two
  <2>4. /\ Len(events') = Len(events) + Len(two)
        /\ \A i \in 1 .. Len(events) + Len(two) :
             events'[i] = IF i <= Len(events) THEN events[i] ELSE two[i - Len(events)]
    <3>1. events \in Seq(Signal) /\ two \in Seq(Signal) BY <1>t, <2>1
    <3>2. /\ Len(events \o two) = Len(events) + Len(two)
          /\ \A i \in 1 .. Len(events) + Len(two) :
               (events \o two)[i] = IF i <= Len(events) THEN events[i] ELSE two[i - Len(events)]
      BY <3>1, ConcatProperties, Zenon
    <3> QED BY <2>3, <3>2, Zenon
  <2>5. Len(events) \in Nat BY <1>t, LenProperties
  <2>6. \A i \in 1 .. Len(events) + Len(two) :
          \/ i <= Len(events) /\ i \in 1..Len(events)
          \/ ~(i <= Len(events)) /\ i - Len(events) \in 1..2
    BY <2>1, <2>5
  <2> QED BY <2>2, <2>4, <2>6
<1>9. ASSUME NEW event \in {"activate", "deactivate"}, Focus(event)
      PROVE \A i \in 1..Len(requests') : ~Live(i)'
  BY <1>3, <1>4, <1>5, <1>9 DEF Live
<1>10. CASE \E event \in {"activate", "deactivate"} : Focus(event) BY <1>4, <1>5, <1>8, <1>9, <1>10
<1> QED BY <1>6, <1>7, <1>10 DEF Desk

\* The thread takes an event, and hears of no other input method unawares.
LEMMA EventTakes ==
  ASSUME Types, Event
  PROVE  /\ 1 \in 1..Len(events) /\ im.running
         /\ \A i \in 1..Len(events') : \E j \in 1..Len(events) : events'[i] = events[j]
         /\ requests' = requests /\ desk' = desk /\ commands' = commands /\ session' = session
         /\ missed' = missed
         /\ \/ /\ im'.active = im.active /\ im'.pending_reset /\ im'.epoch = im.epoch /\ im'.running
            \/ /\ im'.active = im.pending_active /\ im'.pending_active = im.pending_active
               /\ im'.serial = im.serial + 1 /\ (~im.pending_reset => im'.epoch = im.epoch)
               /\ im'.running
            \/ events[1] = "unavailable" /\ ~im'.running
<1>t. /\ im \in [active : BOOLEAN, epoch : Nat, pending_active : BOOLEAN,
                 pending_reset : BOOLEAN, serial : Nat, running : BOOLEAN]
      /\ events \in Seq(Signal) /\ events # <<>>
  BY DEF Types, WaylandTypes, Event
<1>1. /\ Head(events) = events[1] /\ 1 \in 1..Len(events)
      /\ \A i \in 1..Len(Tail(events)) : Tail(events)[i] = events[i + 1] /\ i + 1 \in 1..Len(events)
  BY <1>t, TailShifts
<1>2. /\ events' = Tail(events) /\ im.running /\ requests' = requests /\ desk' = desk
      /\ commands' = commands /\ session' = session /\ missed' = missed
  BY DEF Event, lost
<1>3. \A i \in 1..Len(events') : \E j \in 1..Len(events) : events'[i] = events[j] BY <1>1, <1>2
<1>4. CASE im' = [im EXCEPT !.pending_active = Head(events) = "activate", !.pending_reset = TRUE]
  <2>1. im'.active = im.active /\ im'.pending_reset /\ im'.epoch = im.epoch /\ im'.running
    BY <1>t, <1>2, <1>4
  <2> QED BY <1>1, <1>2, <1>3, <2>1
<1>5. CASE im' = [im EXCEPT !.serial = @ + 1, !.active = im.pending_active,
                            !.epoch = IF im.pending_reset THEN @ + 1 ELSE @, !.pending_reset = FALSE]
  <2>1. im'.active = im.pending_active /\ im'.pending_active = im.pending_active
        /\ im'.serial = im.serial + 1 /\ im'.running
    BY <1>t, <1>2, <1>5
  <2>2. ~im.pending_reset => im'.epoch = im.epoch BY <1>t, <1>5
  <2> QED BY <1>1, <1>2, <1>3, <2>1, <2>2
<1>6. CASE /\ Head(events) = "unavailable" 
           /\ im' = [im EXCEPT !.active = FALSE, !.running = FALSE]
  <2>1. ~im'.running BY <1>t, <1>6
  <2> QED BY <1>1, <1>2, <1>3, <1>6, <2>1
<1> QED BY <1>4, <1>5, <1>6 DEF Event

\* A step of the thread that would leave it behind the compositor is a done
\* event, and a done event leaves no draft alive.
LEMMA AbreastStep ==
  ASSUME Types, Types', Lag, Lag', Stamped, Awaited, Abreast, [Next]_vars
  PROVE  Abreast'
<1>a. /\ im.running /\ ~im.pending_reset => im.active = im.pending_active
      /\ desk.preedit # 0 /\ im.running => im.active /\ im.epoch = desk.epoch
      /\ ~desk.ours => desk.preedit = 0
  BY DEF Abreast
<1>b. \A i \in 1..Len(requests) : Live(i) /\ im.running => im.active BY Zenon DEF Abreast
<1>c. \A i \in 1..Len(events) : events[i] = "unavailable" => ~desk.ours BY Zenon DEF Abreast
<1>1. CASE (\E b \in Browsers : Page(b)) \/ (\E s \in Sockets : Session(s)) \/ CtrlC \/ UNCHANGED vars
  <2>1. im' = im /\ events' = events /\ requests' = requests /\ desk' = desk
    BY <1>1, TheRestIsStill DEF vars, wayland
  <2>2. \A i \in 1..Len(requests) : Live(i)' <=> Live(i) BY <2>1 DEF Live
  <2> QED BY <1>a, <1>b, <1>c, <2>1, <2>2 DEF Abreast
<1>2. CASE Command
  <2>1. /\ im'.active = im.active /\ im'.pending_active = im.pending_active
        /\ im'.pending_reset = im.pending_reset /\ im'.epoch = im.epoch
        /\ (im'.running => im.running)
    BY <1>2, CommandAdds
  <2>2. \/ requests' = requests
        \/ \E r \in Commit : requests' = Append(requests, r) /\ im.active
    BY <1>2, CommandAdds
  <2>3. events' = events /\ desk' = desk BY <1>2 DEF Command
  <2>4. ASSUME NEW i \in 1..Len(requests'), Live(i)', im'.running PROVE im'.active
    <3>1. CASE requests' = requests
      <4>1. Live(i) BY <2>3, <2>4, <3>1 DEF Live
      <4> QED BY <1>b, <2>1, <2>4, <3>1, <4>1
    <3>2. CASE im.active BY <2>1, <3>2
    <3> QED BY <2>2, <3>1, <3>2
  <2> QED BY <1>a, <1>c, <2>1, <2>3, <2>4 DEF Abreast
<1>3. CASE Event
  <2>1. /\ im.running /\ requests' = requests /\ desk' = desk
        /\ \A i \in 1..Len(events') : \E j \in 1..Len(events) : events'[i] = events[j]
    BY <1>3, EventTakes
  <2>2. \A i \in 1..Len(events') : events'[i] = "unavailable" => ~desk'.ours BY <1>c, <2>1
  <2>3. \A i \in 1..Len(requests) : Live(i)' <=> Live(i) BY <2>1 DEF Live
  <2>4. CASE im'.active = im.active /\ im'.pending_reset /\ im'.epoch = im.epoch /\ im'.running
    BY <1>a, <1>b, <2>1, <2>2, <2>3, <2>4 DEF Abreast
  <2>5. CASE /\ im'.active = im.pending_active /\ im'.pending_active = im.pending_active
             /\ im'.serial = im.serial + 1 /\ (~im.pending_reset => im'.epoch = im.epoch)
             /\ im'.running
    <3>1. im'.serial <= desk'.dones
      <4>1. events' \in Seq(Signal) /\ im'.serial \in Nat BY DEF Types, WaylandTypes
      <4>2. PICK n : n = Count(events', {"done"}) OBVIOUS
      <4>3. n \in Nat BY <4>1, <4>2, CountType
      <4>4. desk'.dones = im'.serial + n BY <4>2 DEF Lag
      <4> QED BY <4>1, <4>3, <4>4
    <3>2. im.serial < desk.dones /\ desk.dones \in Nat
      <4>1. im.serial \in Nat /\ desk.dones \in Nat BY DEF Types, WaylandTypes
      <4> QED BY <2>1, <2>5, <3>1, <4>1
    <3>3. \A i \in 1..Len(requests) : ~Live(i) BY <3>2, NothingLives DEF Live
    <3>4. desk.preedit # 0 => im'.active /\ im'.epoch = desk.epoch
      <4>1. SUFFICES ASSUME desk.preedit # 0 PROVE im'.active /\ im'.epoch = desk.epoch OBVIOUS
      <4>2. im.active /\ im.epoch = desk.epoch BY <1>a, <2>1, <4>1
      <4>3. ~im.pending_reset BY <4>2, NoChangePending
      <4> QED BY <1>a, <2>1, <2>5, <4>2, <4>3
    <3> QED BY <1>a, <2>1, <2>2, <2>3, <2>5, <3>3, <3>4 DEF Abreast
  <2>6. CASE events[1] = "unavailable" /\ ~im'.running
    BY <1>a, <2>1, <2>2, <2>6 DEF Abreast
  <2> QED BY <1>3, <2>4, <2>5, <2>6, EventTakes
<1>4. CASE Desk
  <2>1. /\ \A i \in 1..Len(requests') : ~Live(i)'
        /\ im' = im /\ desk'.preedit \in {0, desk.preedit}
        /\ desk'.preedit # 0 => desk'.epoch = desk.epoch /\ desk'.ours = desk.ours
        /\ ~desk'.ours => desk'.preedit = 0 \/ ~desk.ours
        /\ desk'.ours => desk.ours
    BY <1>4, DeskKills
  <2>2. \A i \in 1..Len(events') :
          events'[i] = "unavailable" => ~desk'.ours \/ \E j \in 1..Len(events) : events[j] = "unavailable"
    BY <1>4, DeskKills
  <2>3. \A i \in 1..Len(events') : events'[i] = "unavailable" => ~desk'.ours
    BY <1>c, <2>1, <2>2
  <2>4. /\ im'.running /\ ~im'.pending_reset => im'.active = im'.pending_active
        /\ desk'.preedit # 0 /\ im'.running => im'.active /\ im'.epoch = desk'.epoch
        /\ ~desk'.ours => desk'.preedit = 0
    BY <1>a, <2>1
  <2> QED BY <2>1, <2>3, <2>4 DEF Abreast
<1>5. CASE Apply
  <2>1. /\ 1 \in 1..Len(requests) 
        /\ \A i \in 1..Len(requests') : requests'[i] = requests[i + 1] /\ i + 1 \in 1..Len(requests)
        /\ im' = im /\ events' = events
        /\ desk'.dones = desk.dones /\ desk'.epoch = desk.epoch /\ desk'.ours = desk.ours
    BY <1>5, ApplyTakes
  <2>2. \/ desk'.preedit \in {0, desk.preedit} 
        \/ desk'.preedit = requests[1].by /\ Live(1)
    BY <1>5, ApplyTakes
  <2>3. \A i \in 1..Len(requests') : Live(i)' => Live(i + 1) BY <2>1 DEF Live
  <2>4. \A i \in 1..Len(requests') : Live(i)' /\ im'.running => im'.active BY <1>b, <2>1, <2>3
  <2>5. Live(1) => desk.ours /\ (im.running => im.active) /\ im.epoch = desk.epoch
    <3>1. SUFFICES ASSUME Live(1) PROVE desk.ours /\ (im.running => im.active) /\ im.epoch = desk.epoch
      OBVIOUS
    <3>2. requests[1].serial <= im.serial BY <2>1 DEF Stamped
    <3>3. desk.dones <= im.serial /\ desk.ours BY <3>1, <3>2 DEF Live
    <3>4. im.serial \in Nat /\ desk.dones \in Nat BY DEF Types, WaylandTypes
    <3>5. im.serial <= desk.dones BY ThreadIsBehind
    <3>6. im.serial = desk.dones BY <3>3, <3>4, <3>5
    <3>7. im.epoch = desk.epoch BY <3>6, ThreadIsBehind
    <3> QED BY <1>b, <2>1, <3>1, <3>3, <3>7
  <2>6. /\ desk'.preedit # 0 /\ im'.running => im'.active /\ im'.epoch = desk'.epoch
        /\ ~desk'.ours => desk'.preedit = 0
    BY <1>a, <2>1, <2>2, <2>5
  <2> QED BY <1>a, <1>c, <2>1, <2>4, <2>6 DEF Abreast
<1> QED BY <1>1, <1>2, <1>3, <1>4, <1>5 DEF Next, Thread

\* A Clear is queued behind nothing but Clears and the stop.
LEMMA ClearsFirstStays ==
  ASSUME Types, ClearsFirst,
         \/ commands' = commands
         \/ commands # <<>> /\ commands' = Tail(commands)
         \/ \E d \in Order : /\ commands' = Append(commands, d)
                             /\ d.type = "clear" => \A i \in 1..Len(commands) : commands[i].type \notin Texts
  PROVE  ClearsFirst'
<1>t. commands \in Seq(Order) /\ Len(commands) \in Nat BY LenProperties DEF Types, SessionTypes
<1>s. \A i \in 1..Len(commands) : commands[i].type \in {"draft", "send", "clear", "stop"}
  <2>1. \A i \in 1..Len(commands) : commands[i] \in Order BY <1>t, ElementOfSeq
  <2> QED BY <2>1 DEF Order
<1>a. \A j \in 1..Len(commands) : commands[j].type = "clear" =>
        \A i \in 1..j : commands[i].type \in {"clear", "stop"}
  BY DEF ClearsFirst
<1>1. CASE commands' = commands BY <1>1, <1>a DEF ClearsFirst
<1>2. CASE commands # <<>> /\ commands' = Tail(commands)
  <2>1. \A i \in 1..Len(commands') : commands'[i] = commands[i + 1] /\ i + 1 \in 1..Len(commands)
    BY <1>t, <1>2, TailShifts
  <2>2. Len(commands') \in Nat BY <1>t, <1>2, HeadTailProperties, LenProperties
  <2>3. \A j \in 1..Len(commands') : \A i \in 1..j : i \in 1..Len(commands') /\ i + 1 \in 1..j + 1
    BY <2>2
  <2> QED BY <1>a, <2>1, <2>3 DEF ClearsFirst
<1>3. ASSUME NEW d \in Order, commands' = Append(commands, d),
             d.type = "clear" => \A i \in 1..Len(commands) : commands[i].type \notin Texts
      PROVE  ClearsFirst'
  <2>1. /\ Len(commands') = Len(commands) + 1
        /\ \A i \in 1..Len(commands) : commands'[i] = commands[i]
        /\ commands'[Len(commands) + 1] = d
    BY <1>t, <1>3, AppendProperties
  <2>2. SUFFICES ASSUME NEW j \in 1..Len(commands'), commands'[j].type = "clear", NEW i \in 1..j
                 PROVE  commands'[i].type \in {"clear", "stop"}
    BY DEF ClearsFirst
  <2>3. (j \in 1..Len(commands) /\ i \in 1..Len(commands)) \/ j = Len(commands) + 1 BY <1>t, <2>1
  <2>4. CASE j \in 1..Len(commands) /\ i \in 1..Len(commands)
    BY <1>a, <2>1, <2>2, <2>4
  <2>5. CASE j = Len(commands) + 1
    <3>1. d.type = "clear" BY <2>1, <2>2, <2>5
    <3>2. i \in 1..Len(commands) \/ i = j BY <1>t, <2>5
    <3>3. \A k \in 1..Len(commands) : commands'[k].type \in {"clear", "stop"}
      BY <1>3, <1>s, <2>1, <3>1 DEF Texts
    <3> QED BY <2>2, <3>2, <3>3
  <2> QED BY <2>3, <2>4, <2>5
<1> QED BY <1>1, <1>2, <1>3

\* A session that ends with the lock in hand has no text in the channel.
LEMMA NoTextLeft ==
  ASSUME Types, Lock, Awaited, NEW s \in Sockets, session[s] = "control"
  PROVE  \A i \in 1..Len(commands) : commands[i].type \notin Texts
<1> SUFFICES ASSUME NEW i \in 1..Len(commands), commands[i].type \in Texts PROVE FALSE OBVIOUS
<1>1. commands[i].by \in Sockets /\ session[commands[i].by] = "replying" BY DEF Awaited
<1>2. commands[i].by = s BY <1>1, OneController
<1> QED BY <1>1, <1>2

LEMMA ClearsFirstStep ==
  ASSUME Types, Lock, Awaited, ClearsFirst, [Next]_vars
  PROVE  ClearsFirst'
<1>1. CASE (\E b \in Browsers : Page(b)) \/ Event \/ Desk \/ Apply \/ UNCHANGED vars
  <2>1. commands' = commands
    BY <1>1 DEF Page, Connect, Type, TimerFires, CompositionStart, CompositionEnd, Send, OnMessage,
                OnClose, Event, Desk, Focus, Touch, Refuse, Apply, vars
  <2> QED BY <2>1, ClearsFirstStays
<1>2. ASSUME NEW s \in Sockets, Take(s) \/ Changed(s) \/ Reply(s) PROVE ClearsFirst'
  <2>1. commands' = commands BY <1>2 DEF Take, Changed, Reply
  <2> QED BY <2>1, ClearsFirstStays
<1>3. ASSUME NEW s \in Sockets, Process(s) PROVE ClearsFirst'
  <2> DEFINE m == Head(up[s])
             d == [type |-> m.type, by |-> s, epoch |-> m.epoch, some |-> m.some, id |-> m.id]
  <2>1. commands' = commands \/ commands' = Append(commands, d) BY <1>3 DEF Process
  <2>2. up[s] \in Seq(Input) /\ up[s] # <<>> BY <1>3 DEF Process, Types, PageTypes
  <2>3. m \in Input BY <2>2, HeadTailProperties
  <2>4. d \in Order /\ d.type # "clear" BY <2>3, Bounds DEF Input, Order, Sockets
  <2> HIDE DEF d
  <2> QED BY <2>1, <2>4, ClearsFirstStays
<1>4. ASSUME NEW s \in Sockets, End(s) PROVE ClearsFirst'
  <2>1. commands' = commands \/ (session[s] = "control" /\ commands' = Append(commands, ClearOf(s)))
    BY <1>4 DEF End
  <2>2. ClearOf(s) \in Order BY Bounds DEF ClearOf, Order, Epochs, Sockets
  <2> QED BY <2>1, <2>2, NoTextLeft, ClearsFirstStays
<1>5. CASE CtrlC
  <2> DEFINE d == [ClearOf(0) EXCEPT !.type = "stop"]
  <2>0. ClearOf(0) \in Order BY Bounds DEF ClearOf, Order, Epochs
  <2>1. d \in Order /\ d.type # "clear" BY <2>0 DEF Order
  <2>2. commands' = Append(commands, d) BY <1>5 DEF CtrlC
  <2> HIDE DEF d
  <2> QED BY <2>1, <2>2, ClearsFirstStays
<1>6. CASE Command BY <1>6, ClearsFirstStays DEF Command
<1> QED BY <1>1, <1>2, <1>3, <1>4, <1>5, <1>6 DEF Next, Session, Thread

\* A session that has not been queued, or waits for its turn.
Quiet(s) == s > count.sockets \/ session[s] = "waiting"

\* The queue takes only new sockets, and lets its sessions go on.
LEMMA QuietShrinks ==
  ASSUME Types, Lock, [Next]_vars, NEW s \in Sockets
  PROVE  /\ Quiet(s)' => Quiet(s)
         /\ session[s] # "none" => session'[s] # "none" \/ End(s)
<1>t. /\ session \in [Sockets -> {"none", "waiting", "control", "replying"}]
      /\ count \in CountRecord /\ count.sockets \in Nat
  BY Bounds DEF Types, SessionTypes, HistoryTypes, CountRecord
<1>1. ASSUME NEW b \in Browsers, Connect(b)
      PROVE  (Quiet(s)' => Quiet(s)) /\ (session[s] # "none" => session'[s] # "none")
  <2>1. session' = [session EXCEPT ![count.sockets + 1] = "waiting"] BY <1>1 DEF Connect
  <2>2. count' = [count EXCEPT !.sockets = count.sockets + 1] BY <1>1 DEF Connect
  <2>3. count'.sockets = count.sockets + 1 BY <1>t, <2>2 DEF CountRecord
  <2>4. s \in Nat BY Bounds DEF Sockets
  <2>5. s > count.sockets + 1 \/ s = count.sockets + 1 => s > count.sockets BY <1>t, <2>4
  <2>6. s # count.sockets + 1 => session'[s] = session[s] BY <1>t, <2>1
  <2>7. s = count.sockets + 1 => session'[s] = "waiting" BY <1>t, <2>1
  <2> QED BY <2>3, <2>5, <2>6, <2>7 DEF Quiet
<1>2. CASE session' = session /\ count'.sockets = count.sockets BY <1>2 DEF Quiet
<1>3. ASSUME NEW b \in Browsers, Page(b)
      PROVE  Connect(b) \/ (session' = session /\ count'.sockets = count.sockets)
  BY <1>t, <1>3 DEF Page, Type, TimerFires, CompositionStart, CompositionEnd, Send, OnMessage, OnClose,
                    server, CountRecord
<1>4. CASE Thread \/ CtrlC \/ Desk \/ Apply \/ UNCHANGED vars
  <2>1. session' = session
    BY <1>4 DEF Thread, Command, Event, CtrlC, Desk, Focus, Touch, Refuse, Apply, server, vars
  <2>2. count'.sockets = count.sockets
    BY <1>t, <1>4 DEF Thread, Command, Event, CtrlC, Other, Desk, Focus, Touch, Refuse, Apply, vars,
                      CountRecord
  <2> QED BY <1>2, <2>1, <2>2
<1>5. ASSUME NEW t \in Sockets, Session(t)
      PROVE  (Quiet(s)' => Quiet(s)) /\ (session[s] # "none" => session'[s] # "none" \/ End(s))
  <2>1. count' = count BY <1>5 DEF Session, Take, Changed, Process, Reply, End, Leave
  <2>2. \/ session' = session
        \/ session' = [session EXCEPT ![t] = "control"]
        \/ session' = [session EXCEPT ![t] = "replying"]
        \/ session' = [session EXCEPT ![t] = "none"] /\ End(t)
    BY <1>5 DEF Session, Take, Changed, Process, Reply, End, Leave
  <2>3. /\ session'[s] = "waiting" => session[s] = "waiting"
        /\ session[s] # "none" /\ session'[s] = "none" => s = t /\ End(t)
    BY <1>t, <2>2
  <2> QED BY <2>1, <2>3 DEF Quiet
<1> QED BY <1>1, <1>2, <1>3, <1>4, <1>5 DEF Next

LEMMA SilentStays ==
  ASSUME Types, Silent,
         \A s \in Sockets : Quiet(s)' => Quiet(s),
         \A i \in 1..Len(requests') : requests'[i].type = "draft" =>
            \/ \E j \in 1..Len(requests) : requests'[i] = requests[j]
            \/ requests'[i].by \in Sockets /\ ~Quiet(requests'[i].by),
         \/ desk'.preedit \in {0, desk.preedit}
         \/ \E j \in 1..Len(requests) : requests[j].type = "draft" /\ desk'.preedit = requests[j].by
  PROVE  Silent'
<1>a. \A i \in 1..Len(requests) : requests[i].type = "draft" => requests[i].by \in Sockets
  BY DEF Silent
<1>b. \A s \in Sockets : Quiet(s) =>
        desk.preedit # s /\ \A i \in 1..Len(requests) : requests[i].type = "draft" => requests[i].by # s
  BY Zenon DEF Silent, Quiet
<1>1. \A i \in 1..Len(requests') : requests'[i].type = "draft" => requests'[i].by \in Sockets
  BY <1>a
<1>2. ASSUME NEW s \in Sockets, Quiet(s)',
             NEW i \in 1..Len(requests'), requests'[i].type = "draft", requests'[i].by = s
      PROVE  FALSE
  <2>1. Quiet(s) BY <1>2
  <2>2. \E j \in 1..Len(requests) : requests'[i] = requests[j] BY <1>2, <2>1
  <2> QED BY <1>2, <1>b, <2>1, <2>2
<1>3. ASSUME NEW s \in Sockets, Quiet(s)' PROVE desk'.preedit # s
  <2>1. Quiet(s) BY <1>3
  <2>2. 0 \notin Sockets BY DEF Sockets
  <2> QED BY <1>b, <2>1, <2>2
<1>4. \A s \in Sockets : Quiet(s)' =>
        desk'.preedit # s /\ \A i \in 1..Len(requests') : requests'[i].type = "draft" => requests'[i].by # s
  BY <1>2, <1>3
<1> QED BY <1>1, <1>4, Zenon DEF Silent, Quiet

LEMMA SilentStep ==
  ASSUME Types, Lag, Stamped, Lock, Awaited, Silent, [Next]_vars
  PROVE  Silent'
<1>q. \A s \in Sockets : Quiet(s)' => Quiet(s) BY QuietShrinks
<1>1. CASE requests' = requests /\ desk'.preedit \in {0, desk.preedit} BY <1>q, <1>1, SilentStays
<1>2. CASE (\E b \in Browsers : Page(b)) \/ (\E s \in Sockets : Session(s)) \/ CtrlC \/ UNCHANGED vars
  <2>1. requests' = requests /\ desk' = desk BY <1>2, TheRestIsStill DEF vars, wayland
  <2> QED BY <1>1, <2>1
<1>3. CASE Event BY <1>1, <1>3, EventTakes
<1>4. CASE Desk BY <1>1, <1>4, DeskKills
<1>5. CASE Command
  <2>1. desk' = desk BY <1>5 DEF Command
  <2>2. ASSUME NEW r \in Commit, requests' = Append(requests, r),
               r.type = "draft" => r.by \in Sockets /\ session[r.by] = "replying"
        PROVE  Silent'
    <3>1. r.type = "draft" => ~Quiet(r.by)
      <4>1. SUFFICES ASSUME r.type = "draft", Quiet(r.by) PROVE FALSE OBVIOUS
      <4>2. r.by \in Sockets /\ session[r.by] = "replying" BY <2>2, <4>1
      <4>3. ~(r.by > count.sockets) BY <4>2 DEF Lock
      <4> QED BY <4>1, <4>2, <4>3 DEF Quiet
    <3>2. /\ \A i \in 1..Len(requests) : requests'[i] = requests[i]
          /\ requests'[Len(requests) + 1] = r
          /\ \A i \in 1..Len(requests') : i \in 1..Len(requests) \/ i = Len(requests) + 1
      BY <2>2, RequestsGrow
    <3>3. ASSUME NEW i \in 1..Len(requests'), requests'[i].type = "draft"
          PROVE  \/ \E j \in 1..Len(requests) : requests'[i] = requests[j]
                 \/ requests'[i].by \in Sockets /\ ~Quiet(requests'[i].by)
      <4>1. CASE i \in 1..Len(requests) BY <3>2, <4>1
      <4>2. CASE requests'[i] = r
        <5>1. r.by \in Sockets /\ ~Quiet(r.by) BY <2>2, <3>1, <3>3, <4>2
        <5> QED BY <4>2, <5>1
      <4> QED BY <3>2, <4>1, <4>2
    <3> QED BY <1>q, <2>1, <3>3, SilentStays
  <2>3. CASE requests' = requests BY <1>1, <2>1, <2>3
  <2>4. \/ requests' = requests
        \/ \E r \in Commit : /\ requests' = Append(requests, r)
                             /\ r.type = "draft" => r.by \in Sockets /\ session[r.by] = "replying"
    BY <1>5, CommandAdds
  <2> QED BY <2>2, <2>3, <2>4
<1>6. CASE Apply
  <2>1. /\ 1 \in 1..Len(requests)
        /\ \A i \in 1..Len(requests') : requests'[i] = requests[i + 1] /\ i + 1 \in 1..Len(requests)
    BY <1>6, ApplyTakes
  <2>2. \/ desk'.preedit \in {0, desk.preedit}
        \/ desk'.preedit = requests[1].by /\ requests[1].type = "draft"
    BY <1>6, ApplyTakes DEF Live
  <2> QED BY <1>q, <2>1, <2>2, SilentStays
<1> QED BY <1>2, <1>3, <1>4, <1>5, <1>6 DEF Next, Thread

\* The four conjuncts of Wiped.
LEMMA WipedParts ==
  ASSUME Wiped
  PROVE  /\ \A i \in 1..Len(requests) : Live(i) => im.running \/ ClearFrom(i)
         /\ \A i \in 1..Len(requests) : Live(i) =>
              session[requests[i].by] # "none" \/ ClearBy(requests[i].by) \/ ClearFrom(i)
         /\ desk.preedit # 0 => im.running \/ missed \/ ClearFrom(1)
         /\ desk.preedit # 0 =>
              session[desk.preedit] # "none" \/ missed \/ ClearBy(desk.preedit) \/ ClearFrom(1)
BY Zenon DEF Wiped

\* Nothing is passed on or applied, and a session ends only when it has shown
\* nothing, or leaves its Clear, or the thread has stopped.
LEMMA WipedStays ==
  ASSUME Types, Silent, Wiped, requests' = requests, desk' = desk, missed' = missed,
         im'.running = im.running,
         \A s \in Sockets : session[s] # "none" \/ ClearBy(s)
            => session'[s] # "none" \/ ClearBy(s)' \/ ~im.running \/ Quiet(s)
  PROVE  Wiped'
<1>1. \A i \in 1..Len(requests) : (Live(i)' <=> Live(i)) /\ (ClearFrom(i)' <=> ClearFrom(i))
  BY DEF Live, ClearFrom
<1>2. ClearFrom(1)' <=> ClearFrom(1) BY DEF ClearFrom
<1>3. \A i \in 1..Len(requests) : Live(i) => requests[i].by \in Sockets /\ ~Quiet(requests[i].by)
  BY DEF Silent, Live, Quiet
<1>4. desk.preedit # 0 => desk.preedit \in Sockets /\ ~Quiet(desk.preedit)
  <2>1. SUFFICES ASSUME desk.preedit # 0 PROVE desk.preedit \in Sockets /\ ~Quiet(desk.preedit)
    OBVIOUS
  <2>2. desk.preedit \in 0..MaxSockets BY DEF Types, WaylandTypes
  <2>3. desk.preedit \in Sockets BY <2>1, <2>2, Bounds DEF Sockets
  <2> QED BY <2>3 DEF Silent, Quiet
<1>5. ASSUME NEW i \in 1..Len(requests'), Live(i)'
      PROVE  /\ im'.running \/ ClearFrom(i)'
             /\ session'[requests'[i].by] # "none" \/ ClearBy(requests[i].by)' \/ ClearFrom(i)'
  <2>1. Live(i) /\ (ClearFrom(i)' <=> ClearFrom(i)) BY <1>1, <1>5
  <2>2. PICK s : s = requests[i].by OBVIOUS
  <2>3. s \in Sockets /\ ~Quiet(s) /\ requests'[i].by = s BY <1>3, <2>1, <2>2
  <2>4. im.running \/ ClearFrom(i) BY <2>1, WipedParts
  <2>5. session[s] # "none" \/ ClearBy(s) \/ ClearFrom(i) BY <2>1, <2>2, WipedParts
  <2>6. session'[s] # "none" \/ ClearBy(s)' \/ ClearFrom(i)' BY <2>1, <2>3, <2>4, <2>5
  <2>7. ClearBy(s)' => ClearBy(requests[i].by)' BY <2>3 DEF ClearBy
  <2> QED BY <2>1, <2>3, <2>4, <2>6, <2>7
<1>6. ASSUME desk'.preedit # 0
      PROVE  /\ im'.running \/ missed' \/ ClearFrom(1)'
             /\ session'[desk'.preedit] # "none" \/ missed' \/ ClearBy(desk.preedit)' \/ ClearFrom(1)'
  <2>2. PICK s : s = desk.preedit OBVIOUS
  <2>3. s \in Sockets /\ ~Quiet(s) /\ desk'.preedit = s /\ desk.preedit # 0 BY <1>4, <1>6, <2>2
  <2>4. im.running \/ missed \/ ClearFrom(1) BY <2>3, WipedParts
  <2>5. session[s] # "none" \/ missed \/ ClearBy(s) \/ ClearFrom(1) BY <2>2, <2>3, WipedParts
  <2>6. session'[s] # "none" \/ missed' \/ ClearBy(s)' \/ ClearFrom(1)' BY <1>2, <2>3, <2>4, <2>5
  <2>7. ClearBy(s)' => ClearBy(desk.preedit)' BY <2>3 DEF ClearBy
  <2> QED BY <1>2, <2>3, <2>4, <2>6, <2>7
<1> QED BY <1>5, <1>6 DEF Wiped

\* What is queued stays in the channel.
LEMMA ClearByStays ==
  ASSUME Types, commands' = commands \/ \E d \in Order : commands' = Append(commands, d), NEW s
  PROVE  ClearBy(s) => ClearBy(s)'
<1>t. commands \in Seq(Order) /\ Len(commands) \in Nat BY LenProperties DEF Types, SessionTypes
<1>1. ASSUME NEW d \in Order, commands' = Append(commands, d)
      PROVE  \A i \in 1..Len(commands) : i \in 1..Len(commands') /\ commands'[i] = commands[i]
  <2>1. /\ Len(commands') = Len(commands) + 1
        /\ \A i \in 1..Len(commands) : commands'[i] = commands[i]
    BY <1>t, <1>1, AppendProperties
  <2> QED BY <1>t, <2>1
<1>2. CASE commands' = commands BY <1>2 DEF ClearBy
<1> QED BY <1>1, <1>2 DEF ClearBy

\* A page or a session.
LEMMA OthersWipe ==
  ASSUME Types, Lock, Silent, Wiped, [Next]_vars,
         (\E b \in Browsers : Page(b)) \/ (\E s \in Sockets : Session(s)) \/ CtrlC \/ UNCHANGED vars
  PROVE  Wiped'
<1>1. im' = im /\ requests' = requests /\ desk' = desk /\ missed' = missed
  BY TheRestIsStill DEF vars, wayland, lost
<1>2. \A s \in Sockets : session[s] # "none" => session'[s] # "none" \/ End(s) BY QuietShrinks
<1>3. commands' = commands \/ \E d \in Order : commands' = Append(commands, d)
  <2>1. ASSUME NEW b \in Browsers, Page(b) PROVE commands' = commands
    BY <2>1 DEF Page, Connect, Type, TimerFires, CompositionStart, CompositionEnd, Send, OnMessage, OnClose
  <2>2. ASSUME NEW s \in Sockets, Session(s)
        PROVE  commands' = commands \/ \E d \in Order : commands' = Append(commands, d)
    <3>1. CASE Take(s) \/ Changed(s) \/ Reply(s) BY <3>1 DEF Take, Changed, Reply
    <3>2. CASE Process(s)
      <4> DEFINE m == Head(up[s])
                 d == [type |-> m.type, by |-> s, epoch |-> m.epoch, some |-> m.some, id |-> m.id]
      <4>1. commands' = commands \/ commands' = Append(commands, d) BY <3>2 DEF Process
      <4>2. up[s] \in Seq(Input) /\ up[s] # <<>> BY <3>2 DEF Process, Types, PageTypes
      <4>3. m \in Input BY <4>2, HeadTailProperties
      <4>4. d \in Order BY <4>3, Bounds DEF Input, Order, Sockets
      <4> HIDE DEF d
      <4> QED BY <4>1, <4>4
    <3>3. CASE End(s)
      <4>1. ClearOf(s) \in Order BY Bounds DEF ClearOf, Order, Epochs, Sockets
      <4> QED BY <3>3, <4>1 DEF End
    <3> QED BY <2>2, <3>1, <3>2, <3>3 DEF Session
  <2>3. CASE CtrlC
    <3> DEFINE d == [ClearOf(0) EXCEPT !.type = "stop"]
    <3>1. ClearOf(0) \in Order BY Bounds DEF ClearOf, Order, Epochs
    <3>2. d \in Order BY <3>1 DEF Order
    <3>3. commands' = Append(commands, d) BY <2>3 DEF CtrlC
    <3> HIDE DEF d
    <3> QED BY <3>2, <3>3
  <2>4. UNCHANGED vars => commands' = commands BY DEF vars
  <2> QED BY <2>1, <2>2, <2>3, <2>4
<1>4. \A s \in Sockets : ClearBy(s) => ClearBy(s)' BY <1>3, ClearByStays
<1>5. ASSUME NEW s \in Sockets, End(s) PROVE ClearBy(s)' \/ ~im.running \/ Quiet(s)
  <2>1. session[s] = "waiting" \/ session[s] = "control" BY <1>5 DEF End, Leave
  <2>2. CASE session[s] = "waiting" BY <2>2 DEF Quiet
  <2>3. CASE session[s] = "control" /\ im.running
    <3>1. commands' = Append(commands, ClearOf(s)) BY <1>5, <2>3 DEF End
    <3>2. ClearOf(s) \in Order /\ ClearOf(s).type = "clear" /\ ClearOf(s).by = s
      BY Bounds DEF ClearOf, Order, Epochs, Sockets
    <3>3. commands \in Seq(Order) /\ Len(commands) \in Nat
      BY LenProperties DEF Types, SessionTypes
    <3>4. Len(commands') = Len(commands) + 1 /\ commands'[Len(commands) + 1] = ClearOf(s)
      BY <3>1, <3>2, <3>3, AppendProperties
    <3>5. Len(commands) + 1 \in 1..Len(commands') BY <3>3, <3>4
    <3> QED BY <3>2, <3>4, <3>5 DEF ClearBy
  <2> QED BY <2>1, <2>2, <2>3
<1>6. \A s \in Sockets : session[s] # "none" \/ ClearBy(s)
        => session'[s] # "none" \/ ClearBy(s)' \/ ~im.running \/ Quiet(s)
  BY <1>2, <1>4, <1>5
<1> QED BY <1>1, <1>6, WipedStays

\* What a command leaves of the Clears in the channel.
LEMMA ClearsGoOn ==
  ASSUME Types, commands # <<>>, commands' = Tail(commands), NEW s,
         Head(commands).type # "clear"
  PROVE  ClearBy(s) => ClearBy(s)'
<1>t. commands \in Seq(Order) BY DEF Types, SessionTypes
<1>1. /\ Len(commands) \in Nat \ {0} /\ Len(commands') = Len(commands) - 1
      /\ \A i \in 1..Len(commands') : commands'[i] = commands[i + 1]
      /\ commands[1].type # "clear"
  BY <1>t, TailShifts
<1> SUFFICES ASSUME ClearBy(s) PROVE ClearBy(s)' OBVIOUS
<1>2. PICK i \in 1..Len(commands) : commands[i].type = "clear" /\ commands[i].by = s BY DEF ClearBy
<1>3. i # 1 BY <1>1, <1>2
<1>4. i - 1 \in 1..Len(commands') /\ (i - 1) + 1 = i BY <1>1, <1>3
<1>5. commands'[i - 1] = commands[i] BY <1>1, <1>4
<1> QED BY <1>2, <1>4, <1>5 DEF ClearBy

LEMMA CommandWipes ==
  ASSUME Types, Awaited, Abreast, Silent, Wiped, Command
  PROVE  Wiped'
<1>1. desk' = desk /\ missed' = missed /\ session' = session BY DEF Command, lost
<1>2. commands # <<>> /\ commands' = Tail(commands) BY DEF Command
<1>3. ASSUME NEW r \in Commit, requests' = Append(requests, r), r.type = "clear" PROVE Wiped'
  <2>1. \A i \in 1..Len(requests') : ClearFrom(i)'
    <3>1. /\ requests'[Len(requests) + 1] = r
          /\ \A i \in 1..Len(requests') : Len(requests) + 1 \in i..Len(requests')
      BY <1>3, RequestsGrow
    <3> QED BY <1>3, <3>1 DEF ClearFrom
  <2>2. 1 \in 1..Len(requests')
    <3>1. Len(requests) \in Nat /\ Len(requests') = Len(requests) + 1 BY <1>3, RequestsGrow
    <3> QED BY <3>1
  <2>3. ClearFrom(1)' BY <2>1, <2>2
  <2> QED BY <2>1, <2>3 DEF Wiped
<1>4. CASE ~im.running
  <2>1. requests' = requests /\ im' = im BY <1>4, CommandAdds
  <2>2. \A s \in Sockets : session[s] # "none" \/ ClearBy(s)
          => session'[s] # "none" \/ ClearBy(s)' \/ ~im.running \/ Quiet(s)
    BY <1>4
  <2> QED BY <1>1, <2>1, <2>2, WipedStays
<1>5. CASE im.running /\ Head(commands).type \notin Texts /\ im.active
  <2>1. \E r \in Commit : requests' = Append(requests, r) /\ r.type = "clear" BY <1>5, CommandAdds
  <2> QED BY <1>3, <2>1
<1>6. CASE im.running /\ Head(commands).type \notin Texts /\ ~im.active
  <2>1. requests' = requests BY <1>6, CommandAdds
  <2>2. desk'.preedit = 0 BY <1>1, <1>6 DEF Abreast
  <2>3. \A i \in 1..Len(requests) : ~Live(i) BY <1>6, Zenon DEF Abreast
  <2>4. \A i \in 1..Len(requests') : ~Live(i)' BY <1>1, <2>1, <2>3 DEF Live
  <2> QED BY <2>2, <2>4 DEF Wiped
<1>7. CASE im.running /\ Head(commands).type \in Texts
  <2>1. im' = im BY <1>7, CommandAdds
  <2>2. Head(commands).type # "clear" BY <1>7 DEF Texts
  <2>3. \A s \in Sockets : ClearBy(s) => ClearBy(s)' BY <1>2, <2>2, ClearsGoOn
  <2>4. CASE requests' = requests
    <3>1. \A s \in Sockets : session[s] # "none" \/ ClearBy(s)
            => session'[s] # "none" \/ ClearBy(s)' \/ ~im.running \/ Quiet(s)
      BY <1>1, <2>3
    <3> QED BY <1>1, <2>1, <2>4, <3>1, WipedStays
  <2>5. ASSUME NEW r \in Commit, requests' = Append(requests, r),
               r.type = "draft" => r.by \in Sockets /\ session[r.by] = "replying"
        PROVE  Wiped'
    <3>1. /\ Len(requests) \in Nat /\ Len(requests') = Len(requests) + 1
          /\ \A i \in 1..Len(requests) : requests'[i] = requests[i] /\ i \in 1..Len(requests')
          /\ requests'[Len(requests) + 1] = r
          /\ \A i \in 1..Len(requests') : i \in 1..Len(requests) \/ i = Len(requests) + 1
      BY <2>5, RequestsGrow
    <3>2. \A i \in 1..Len(requests) : ClearFrom(i) => ClearFrom(i)'
      <4>1. SUFFICES ASSUME NEW i \in 1..Len(requests), ClearFrom(i) PROVE ClearFrom(i)' OBVIOUS
      <4>2. PICK k \in i..Len(requests) : requests[k].type = "clear" BY <4>1 DEF ClearFrom
      <4>3. k \in i..Len(requests') /\ k \in 1..Len(requests) BY <3>1, <4>1, <4>2
      <4>4. requests'[k].type = "clear" BY <3>1, <4>2, <4>3
      <4> QED BY <4>3, <4>4 DEF ClearFrom
    <3>3. ClearFrom(1) => ClearFrom(1)'
      <4>1. SUFFICES ASSUME ClearFrom(1) PROVE ClearFrom(1)' OBVIOUS
      <4>2. PICK k \in 1..Len(requests) : requests[k].type = "clear" BY <4>1 DEF ClearFrom
      <4>3. 1 \in 1..Len(requests) BY <3>1, <4>2
      <4> QED BY <3>2, <4>1, <4>3
    <3>4. ASSUME NEW i \in 1..Len(requests'), Live(i)'
          PROVE  /\ im'.running \/ ClearFrom(i)'
                 /\ session'[requests'[i].by] # "none" \/ ClearBy(requests[i].by)' \/ ClearFrom(i)'
      <4>1. im'.running BY <1>7, <2>1
      <4>2. CASE i \in 1..Len(requests)
        <5>1. PICK s : s = requests[i].by OBVIOUS
        <5>2. Live(i) /\ requests'[i].by = s /\ requests[i].type = "draft"
          BY <1>1, <3>1, <3>4, <4>2, <5>1 DEF Live
        <5>3. s \in Sockets BY <4>2, <5>1, <5>2 DEF Silent
        <5>4. session[s] # "none" \/ ClearBy(s) \/ ClearFrom(i) BY <4>2, <5>1, <5>2, WipedParts
        <5>5. session'[s] # "none" \/ ClearBy(s)' \/ ClearFrom(i)'
          BY <1>1, <2>3, <3>2, <4>2, <5>3, <5>4
        <5>6. ClearBy(s)' => ClearBy(requests[i].by)' BY <5>2 DEF ClearBy
        <5> QED BY <4>1, <5>2, <5>5, <5>6
      <4>3. CASE requests'[i] = r
        <5>1. r.type = "draft" BY <3>4, <4>3 DEF Live
        <5>2. session'[r.by] # "none" BY <1>1, <2>5, <5>1
        <5> QED BY <4>1, <4>3, <5>2
      <4> QED BY <3>1, <4>2, <4>3
    <3>5. ASSUME desk'.preedit # 0
          PROVE  /\ im'.running \/ missed' \/ ClearFrom(1)'
                 /\ session'[desk'.preedit] # "none" \/ missed' \/ ClearBy(desk.preedit)' \/ ClearFrom(1)'
      <4>1. PICK s : s = desk.preedit OBVIOUS
      <4>2. s \in Sockets /\ desk'.preedit = s
        BY <1>1, <3>5, <4>1, Bounds DEF Types, WaylandTypes, Sockets
      <4>3. session[s] # "none" \/ missed \/ ClearBy(s) \/ ClearFrom(1)
        BY <1>1, <3>5, <4>1, WipedParts
      <4>4. session'[s] # "none" \/ missed' \/ ClearBy(s)' \/ ClearFrom(1)'
        BY <1>1, <2>3, <3>3, <4>2, <4>3
      <4>5. ClearBy(s)' => ClearBy(desk.preedit)' BY <4>2 DEF ClearBy
      <4> QED BY <1>7, <2>1, <4>2, <4>4, <4>5
    <3> QED BY <3>4, <3>5 DEF Wiped
  <2>6. \/ requests' = requests
        \/ \E r \in Commit : /\ requests' = Append(requests, r)
                             /\ r.type = "draft" => r.by \in Sockets /\ session[r.by] = "replying"
    BY CommandAdds
  <2> QED BY <2>4, <2>5, <2>6
<1> QED BY <1>4, <1>5, <1>6, <1>7

LEMMA ApplyWipes ==
  ASSUME Types, Wiped, Apply
  PROVE  Wiped'
<1>1. /\ 1 \in 1..Len(requests) /\ Len(requests) \in Nat \ {0} /\ Len(requests') = Len(requests) - 1
      /\ \A i \in 1..Len(requests') : requests'[i] = requests[i + 1] /\ i + 1 \in 1..Len(requests)
      /\ im' = im /\ session' = session /\ commands' = commands
      /\ desk'.dones = desk.dones /\ desk'.ours = desk.ours
      /\ \/ desk'.preedit = 0
         \/ desk'.preedit = desk.preedit /\ (missed \/ requests[1].type = "clear" => missed')
         \/ desk'.preedit = requests[1].by /\ Live(1)
  BY ApplyTakes
<1>2. ASSUME NEW k \in 2..Len(requests), requests[k].type = "clear", NEW i \in 1..Len(requests'), i + 1 <= k
      PROVE  ClearFrom(i)'
  <2>1. k - 1 \in i..Len(requests') /\ k - 1 \in 1..Len(requests') /\ (k - 1) + 1 = k BY <1>1, <1>2
  <2>2. requests'[k - 1] = requests[k] BY <1>1, <2>1
  <2> QED BY <1>2, <2>1, <2>2 DEF ClearFrom
<1>3. \A i \in 1..Len(requests') : ClearFrom(i + 1) => ClearFrom(i)'
  <2>1. SUFFICES ASSUME NEW i \in 1..Len(requests'), ClearFrom(i + 1) PROVE ClearFrom(i)' OBVIOUS
  <2>2. PICK k \in i + 1..Len(requests) : requests[k].type = "clear" BY <2>1 DEF ClearFrom
  <2>3. k \in 2..Len(requests) /\ i + 1 <= k BY <2>1, <2>2
  <2> QED BY <1>2, <2>2, <2>3
<1>4. ClearFrom(1) /\ requests[1].type # "clear" => ClearFrom(1)'
  <2>1. SUFFICES ASSUME ClearFrom(1), requests[1].type # "clear" PROVE ClearFrom(1)' OBVIOUS
  <2>2. PICK k \in 1..Len(requests) : requests[k].type = "clear" BY <2>1 DEF ClearFrom
  <2>3. k # 1 BY <2>1, <2>2
  <2>4. k \in 2..Len(requests) /\ 1 + 1 <= k /\ 1 \in 1..Len(requests') BY <1>1, <2>3
  <2> QED BY <1>2, <2>2, <2>4
<1>5. \A s : ClearBy(s)' <=> ClearBy(s) BY <1>1 DEF ClearBy
<1>6. ASSUME NEW i \in 1..Len(requests'), Live(i)'
      PROVE  /\ im'.running \/ ClearFrom(i)'
             /\ session'[requests'[i].by] # "none" \/ ClearBy(requests[i].by)' \/ ClearFrom(i)'
  <2>1. i + 1 \in 1..Len(requests) /\ requests'[i] = requests[i + 1] BY <1>1
  <2>2. Live(i + 1) BY <1>1, <1>6, <2>1 DEF Live
  <2>3. PICK s : s = requests[i + 1].by OBVIOUS
  <2>4. im.running \/ ClearFrom(i + 1) BY <2>1, <2>2, WipedParts
  <2>5. session[s] # "none" \/ ClearBy(s) \/ ClearFrom(i + 1) BY <2>1, <2>2, <2>3, WipedParts
  <2>6. ClearFrom(i + 1) => ClearFrom(i)' BY <1>3
  <2>7. requests'[i].by = s BY <2>1, <2>3
  <2>8. session'[s] # "none" \/ ClearBy(s)' \/ ClearFrom(i)' BY <1>1, <1>5, <2>5, <2>6
  <2>9. ClearBy(s)' => ClearBy(requests[i].by)' BY <2>7 DEF ClearBy
  <2> QED BY <1>1, <2>4, <2>6, <2>7, <2>8, <2>9
<1>7. ASSUME desk'.preedit # 0
      PROVE  /\ im'.running \/ missed' \/ ClearFrom(1)'
             /\ session'[desk'.preedit] # "none" \/ missed' \/ ClearBy(desk.preedit)' \/ ClearFrom(1)'
  <2>1. PICK s : s = desk'.preedit OBVIOUS
  <2>2. im.running \/ missed' \/ ClearFrom(1)'
    <3>1. CASE desk'.preedit = desk.preedit /\ (missed \/ requests[1].type = "clear" => missed')
      <4>1. im.running \/ missed \/ ClearFrom(1) BY <1>7, <3>1, WipedParts
      <4> QED BY <1>1, <1>4, <1>7, <3>1, <4>1
    <3>2. CASE Live(1)
      <4>1. im.running \/ ClearFrom(1) BY <1>1, <3>2, WipedParts
      <4>2. requests[1].type # "clear" BY <3>2 DEF Live
      <4> QED BY <1>4, <4>1, <4>2
    <3> QED BY <1>1, <1>7, <3>1, <3>2
  <2>3. session[s] # "none" \/ missed' \/ ClearBy(s) \/ ClearFrom(1)'
    <3>1. CASE desk'.preedit = desk.preedit /\ (missed \/ requests[1].type = "clear" => missed')
      <4>1. session[s] # "none" \/ missed \/ ClearBy(s) \/ ClearFrom(1) BY <1>7, <2>1, <3>1, WipedParts
      <4> QED BY <1>1, <1>4, <1>7, <3>1, <4>1
    <3>2. CASE desk'.preedit = requests[1].by /\ Live(1)
      <4>1. session[s] # "none" \/ ClearBy(s) \/ ClearFrom(1) BY <1>1, <2>1, <3>2, WipedParts
      <4>2. requests[1].type # "clear" BY <3>2 DEF Live
      <4> QED BY <1>4, <4>1, <4>2
    <3> QED BY <1>1, <1>7, <3>1, <3>2
  <2>4. session'[s] # "none" \/ missed' \/ ClearBy(s)' \/ ClearFrom(1)' BY <1>1, <1>5, <2>3
  <2>5. ClearBy(s)' => ClearBy(desk.preedit)' BY <2>1 DEF ClearBy
  <2> QED BY <1>1, <2>1, <2>2, <2>4, <2>5
<1> QED BY <1>6, <1>7 DEF Wiped

LEMMA WipedStep ==
  ASSUME Types, Lag, Stamped, Lock, Awaited, Abreast, Silent, Wiped, [Next]_vars
  PROVE  Wiped'
<1>1. CASE Event
  <2>1. /\ 1 \in 1..Len(events) /\ im.running /\ requests' = requests /\ desk' = desk
        /\ commands' = commands /\ session' = session /\ missed' = missed
        /\ im'.running \/ events[1] = "unavailable"
    BY <1>1, EventTakes
  <2>2. CASE im'.running
    <3>1. im'.running = im.running
      <4>1. im.running \in BOOLEAN /\ im'.running \in BOOLEAN
        BY <1>1, EventTypes DEF Types, WaylandTypes
      <4> QED BY <2>1, <2>2, <4>1
    <3>2. \A s \in Sockets : session[s] # "none" \/ ClearBy(s)
            => session'[s] # "none" \/ ClearBy(s)' \/ ~im.running \/ Quiet(s)
      BY <2>1 DEF ClearBy
    <3> QED BY <2>1, <3>1, <3>2, WipedStays
  <2>3. CASE events[1] = "unavailable"
    <3>1. ~desk.ours BY <2>1, <2>3, Zenon DEF Abreast
    <3>2. desk'.preedit = 0 /\ ~desk'.ours BY <2>1, <3>1 DEF Abreast
    <3> QED BY <3>2 DEF Wiped, Live
  <2> QED BY <2>1, <2>2, <2>3
<1>2. CASE Desk
  <2>1. /\ \A i \in 1..Len(requests') : ~Live(i)'
        /\ requests' = requests /\ im' = im /\ commands' = commands /\ session' = session
        /\ missed' = missed /\ desk'.preedit \in {0, desk.preedit}
    BY <1>2, DeskKills
  <2>2. ASSUME desk'.preedit # 0
        PROVE  /\ im'.running \/ missed' \/ ClearFrom(1)'
               /\ session'[desk'.preedit] # "none" \/ missed' \/ ClearBy(desk.preedit)' \/ ClearFrom(1)'
    <3>1. desk'.preedit = desk.preedit /\ desk.preedit # 0 BY <2>1, <2>2
    <3>2. /\ im.running \/ missed \/ ClearFrom(1)
          /\ session[desk.preedit] # "none" \/ missed \/ ClearBy(desk.preedit) \/ ClearFrom(1)
      BY <3>1, WipedParts
    <3>3. ClearFrom(1) <=> ClearFrom(1)' BY <2>1 DEF ClearFrom
    <3>4. ClearBy(desk.preedit) <=> ClearBy(desk.preedit)' BY <2>1, <3>1 DEF ClearBy
    <3> QED BY <2>1, <3>1, <3>2, <3>3, <3>4
  <2> QED BY <2>1, <2>2 DEF Wiped
<1> QED BY <1>1, <1>2, OthersWipe, CommandWipes, ApplyWipes DEF Next, Thread

LEMMA InitCleared == Init => Abreast /\ ClearsFirst /\ Wiped /\ Silent
<1> SUFFICES ASSUME Init PROVE Abreast /\ ClearsFirst /\ Wiped /\ Silent OBVIOUS
<1>1. Len(<<>>) = 0 /\ \A i \in 1..0 : FALSE BY EmptySeq
<1>2. /\ events = <<>> /\ requests = <<>> /\ commands = <<>> /\ ~im.pending_reset /\ ~im.active
      /\ ~im.pending_active /\ im.active = im.pending_active /\ desk.preedit = 0 /\ desk.ours
  BY DEF Init
<1>3. \A s \in Sockets : s # 0 BY DEF Sockets
<1> QED BY <1>1, <1>2, <1>3 DEF Abreast, ClearsFirst, Wiped, Silent

\* A page that closes, or a program that stops, leaves no preedit in the field:
\* a Clear for it is on its way, unless one has met a done event since the preedit
\* was shown.  No page can have its text cleared by the Clear of another.
THEOREM PreeditsAreCleared == Spec => []PreeditOwner
<1> DEFINE Inv == /\ Types /\ Lag /\ Stamped /\ Lock /\ Awaited
                  /\ Abreast /\ ClearsFirst /\ Wiped /\ Silent
<1>1. Init => Inv BY InitTypes, InitLag, InitLock, InitWay, InitCleared
<1>2. Inv /\ [Next]_vars => Inv'
  <2> SUFFICES ASSUME Inv, [Next]_vars PROVE Inv' OBVIOUS
  <2>1. Types' /\ Lag' /\ Stamped' /\ Lock' /\ Awaited'
    BY TypesStep, LagStep, StampedStep, LockStep, AwaitedStep
  <2>2. Abreast' BY <2>1, AbreastStep
  <2>3. ClearsFirst' /\ Wiped' /\ Silent' BY ClearsFirstStep, WipedStep, SilentStep
  <2> QED BY <2>1, <2>2, <2>3
<1>3. Inv => PreeditOwner
  <2> SUFFICES ASSUME Inv PROVE PreeditOwner OBVIOUS
  <2>1. DOMAIN commands = 1..Len(commands) /\ DOMAIN requests = 1..Len(requests)
        /\ Len(commands) \in Nat
    BY LenProperties DEF Types, SessionTypes, WaylandTypes
  <2>2. ASSUME desk.preedit # 0, session[desk.preedit] = "none"
        PROVE  \/ missed
               \/ \E i \in DOMAIN commands : ClearAt(commands, i, desk.preedit)
               \/ \E i \in DOMAIN requests : requests[i].type \in {"clear", "stop"}
    <3>1. missed \/ ClearBy(desk.preedit) \/ ClearFrom(1) BY <2>2, WipedParts
    <3> QED BY <2>1, <3>1 DEF ClearBy, ClearFrom, ClearAt
  <2>3. ASSUME NEW j \in DOMAIN commands, commands[j].type = "clear", NEW i \in 1..j
        PROVE  commands[i].type = "stop" \/ \E k \in i..j : ClearAt(commands, k, commands[i].by)
    <3>1. commands[i].type \in {"clear", "stop"} BY <2>1, <2>3 DEF ClearsFirst
    <3>2. i \in i..j BY <2>1
    <3> QED BY <3>1, <3>2 DEF ClearAt
  <2> QED BY <2>2, <2>3 DEF PreeditOwner
<1> QED BY <1>1, <1>2, <1>3, PTL DEF Spec
=============================================================================
