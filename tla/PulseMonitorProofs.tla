------------------------- MODULE PulseMonitorProofs --------------------------
(***************************************************************************)
(* Proofs about PulseMonitor, for any number of objects and of events and  *)
(* whether the context fails or not.                                       *)
(***************************************************************************)
EXTENDS PulseMonitor, Integers, SequenceTheorems, FiniteSetTheorems, WellFoundedInduction, TLAPS

-----------------------------------------------------------------------------
(* The list.                                                                *)

N == Cardinality(Node)

\* The cells are numbered, and no cell is NULL.
LEMMA Cells == N \in Nat \ {0} /\ Node = 1..N /\ NULL \notin Node
<1>1. N \in Nat BY NodeAssumption, FS_CardinalityType DEF N
<1>2. Node = 1..N /\ Node # {} BY NodeAssumption DEF N
<1> QED BY <1>1, <1>2 DEF NULL

\* Every set of numbers that is not empty has a least element: what takes the
\* place of induction below.
LEMMA Least ==
  ASSUME NEW T, T \subseteq Nat, T # {}
  PROVE  \E x \in T : \A y \in T : x <= y
<1> DEFINE R == {ss \in Nat \X Nat : ss[1] < ss[2]}
<1>1. IsWellFoundedOn(R, Nat) BY NatLessThanWellFounded DEF OpToRel
<1> HIDE DEF R
<1>2. PICK x \in T : \A y \in T : ~ (<<y, x>> \in R) BY <1>1, WFMin
<1>3. \A y \in T : ~(y < x) BY <1>2 DEF R
<1> QED BY <1>3

\* The cells from f to l, in order.
From(f, l) == [k \in 1..l + 1 - f |-> f + k - 1]

\* Links that go from each cell to the one allocated after it, up to the last,
\* have one chain only.
LEMMA ChainIs ==
  ASSUME NEW f \in Nat, NEW l \in Nat, 1 <= f, f <= l + 1, l <= N,
         head = IF f <= l THEN f ELSE NULL,
         f <= l => \A n \in Node : next[n] = IF f <= n /\ n < l THEN n + 1 ELSE NULL
  PROVE  Chain = From(f, l)
<1>c. N \in Nat /\ Node = 1..N /\ 0 \notin Node /\ NULL = 0 BY Cells DEF NULL
<1> DEFINE all == SeqOf(Node, Cardinality(Node))
<1>a. \A c : c \in all <=> \E m \in 0..N : c \in [1..m -> Node] BY DEF SeqOf, N
<1>s. \A c \in all : c \in Seq(Node)
  <2> SUFFICES ASSUME NEW c \in all PROVE c \in Seq(Node) OBVIOUS
  <2>1. PICK m \in 0..N : c \in [1..m -> Node] BY <1>a
  <2> QED BY <1>c, <2>1, SeqDef
<1>1. From(f, l) \in all /\ Links(From(f, l))
  <2> DEFINE c == From(f, l)
             m == l + 1 - f
  <2>1. m \in 0..N BY <1>c
  <2>2. c \in [1..m -> Node]
    <3>1. \A k \in 1..m : f + k - 1 \in 1..N BY <1>c
    <3> QED BY <1>c, <3>1 DEF From
  <2>3. c \in all BY <1>a, <2>1, <2>2
  <2>4. c \in Seq(Node) BY <1>s, <2>3
  <2>5. Len(c) = m
    <3>1. DOMAIN c = 1..m BY <2>2
    <3> QED BY <2>1, <2>4, <3>1, LenProperties
  <2>6. \A k \in 1..m : c[k] = f + k - 1 BY DEF From
  <2>7. CASE f <= l
    <3>1. 1 \in 1..m /\ m \in 1..m /\ f + m - 1 = l /\ l \in 1..N BY <2>7
    <3>2. c[1] = f /\ c[m] = l BY <2>6, <3>1
    <3>3. c # <<>> BY <2>5, <3>1, EmptySeq
    <3>4. next[l] = NULL BY <1>c, <2>7, <3>1
    <3>5. \A k \in 1..m - 1 : next[c[k]] = c[k + 1]
      <4> SUFFICES ASSUME NEW k \in 1..m - 1 PROVE next[c[k]] = c[k + 1] OBVIOUS
      <4>1. k \in 1..m /\ k + 1 \in 1..m /\ f + k - 1 \in 1..N /\ f <= f + k - 1 /\ f + k - 1 < l
            /\ (f + k - 1) + 1 = f + (k + 1) - 1
        BY <1>c
      <4>2. next[f + k - 1] = (f + k - 1) + 1 BY <1>c, <2>7, <4>1
      <4> QED BY <2>6, <4>1, <4>2
    <3> HIDE DEF c, m
    <3> QED BY <2>3, <2>5, <2>7, <3>2, <3>3, <3>4, <3>5 DEF Links, c, m
  <2>8. CASE ~(f <= l)
    <3>1. m = 0 /\ head = NULL BY <2>8
    <3>2. c = <<>> BY <2>4, <2>5, <3>1, EmptySeq
    <3> QED BY <2>3, <3>1, <3>2 DEF Links
  <2> QED BY <2>7, <2>8
<1>2. ASSUME NEW c \in all, Links(c) PROVE c = From(f, l)
  <2>1. PICK m \in 0..N : c \in [1..m -> Node] BY <1>a
  <2>2. c \in Seq(Node) BY <1>s
  <2>3. Len(c) = m /\ DOMAIN c = 1..m
    <3>1. DOMAIN c = 1..m BY <2>1
    <3> QED BY <2>2, <3>1, LenProperties
  <2>4. CASE c = <<>>
    <3>1. head = NULL /\ m = 0 BY <1>2, <2>3, <2>4, EmptySeq DEF Links
    <3>2. l + 1 - f = 0 BY <1>c, <3>1
    <3> QED BY <2>1, <2>4, <3>1, <3>2 DEF From
  <2>5. CASE c # <<>>
    <3>1. /\ head = c[1] /\ next[c[m]] = NULL
          /\ \A k \in 1..m - 1 : next[c[k]] = c[k + 1]
      BY <1>2, <2>3, <2>5 DEF Links
    <3>2. m >= 1 BY <2>2, <2>3, <2>5, EmptySeq
    <3>3. \A k \in 1..m : c[k] \in 1..N BY <1>c, <2>1
    <3>4. f <= l /\ c[1] = f BY <1>c, <3>1, <3>2, <3>3
    <3>5. \A n \in 1..N : next[n] = IF f <= n /\ n < l THEN n + 1 ELSE 0 BY <1>c, <3>4
    <3>6. \A k \in 1..m : c[k] = f + k - 1 /\ c[k] <= l
      <4> DEFINE T == {k \in 1..m : ~(c[k] = f + k - 1 /\ c[k] <= l)}
      <4>1. SUFFICES ASSUME T # {} PROVE FALSE OBVIOUS
      <4>2. T \subseteq Nat OBVIOUS
      <4>3. PICK x \in T : \A y \in T : x <= y BY <4>1, <4>2, Least
      <4>4. x # 1 BY <3>4, <4>3
      <4>5. x - 1 \in 1..m /\ x - 1 \notin T /\ x - 1 \in 1..m - 1 /\ (x - 1) + 1 = x BY <4>3, <4>4
      <4>6. c[x - 1] = f + (x - 1) - 1 /\ c[x - 1] <= l BY <4>5
      <4>7. next[c[x - 1]] = c[x] BY <3>1, <4>5
      <4>8. c[x - 1] \in 1..N /\ c[x] \in 1..N BY <3>3, <4>3, <4>5
      <4>9. c[x - 1] < l /\ c[x] = c[x - 1] + 1 BY <3>5, <4>7, <4>8
      <4>10. x \in Nat /\ f + (x - 1) - 1 + 1 = f + x - 1 BY <4>3
      <4> QED BY <4>3, <4>6, <4>8, <4>9, <4>10
    <3>7. m \in 1..m /\ c[m] = f + m - 1 /\ c[m] <= l BY <3>2, <3>6
    <3>8. ~(c[m] < l)
      <4>1. c[m] \in 1..N /\ f <= c[m] BY <3>2, <3>3, <3>7
      <4> QED BY <1>c, <3>1, <3>5, <4>1
    <3>9. m = l + 1 - f BY <3>3, <3>7, <3>8
    <3> QED BY <2>1, <3>6, <3>9 DEF From
  <2> QED BY <2>4, <2>5
<1> QED BY <1>1, <1>2 DEF Chain

-----------------------------------------------------------------------------
(* The invariant.                                                           *)

\* The first cell on the list, were there one.
First == Len(printed) + (IF cur = NULL THEN 1 ELSE 2)

\* The cells in the order they were allocated: those printed, main's, those on
\* the list.
InOrder ==
  /\ received = ev
  /\ cur # NULL => cur = Len(printed) + 1 /\ cur <= Len(ev)
  /\ Len(printed) <= Len(ev)
  /\ cur # NULL <=> main \in {"process", "query"}
  /\ \A k \in 1 .. Len(printed) : EventOf(printed[k]) = ev[k]
  /\ main # "done" =>
       /\ freed = 1 .. Len(printed)
       /\ head = IF First <= Len(ev) THEN First ELSE NULL
       /\ tail = IF First <= Len(ev) THEN Len(ev) ELSE NULL
       /\ \A n \in Node : next[n] = IF First <= n /\ n < Len(ev) THEN n + 1 ELSE NULL
  /\ main = "done" => head = NULL /\ tail = NULL /\ freed = 1 .. Len(ev)

Replies == {i \in 1 .. Len(net) : net[i] \notin Event}

\* There is a cell for every event on its way.
Counted == Len(ev) + Len(net) <= raised + (IF Replies = {} THEN 0 ELSE 1)

\* A failed connection carries nothing.
Connection ==
  /\ main # "connect" => ctx # "connecting"
  /\ ctx = "failed" => net = <<>> /\ asked = {}
  /\ main = "done" => ctx = "failed"

\* Nothing is heard of an object before it is there.
Known ==
  /\ alive \subseteq born
  /\ \A i \in 1 .. Len(net) : net[i] \in Event => net[i].obj \in born
  /\ \A k \in 1 .. Len(ev) : ev[k].obj \in born

\* The pending query is asked, answered or taken, and the answer is about the
\* object of main's event.
Pending ==
  /\ main # "query" => asked = {} /\ reply = "none" /\ Replies = {}
  /\ asked # {} => asked = {ev[cur].obj} /\ reply = "none" /\ Replies = {}
  /\ reply # "none" => Replies = {}
  /\ \A i, j \in Replies : i = j
  /\ \A i \in Replies : net[i].reply = "gone" => ev[cur].obj \notin alive
  /\ reply = "gone" => ev[cur].obj \notin alive

Inv == TypeOK /\ InOrder /\ Counted /\ Connection /\ Known /\ Pending

-----------------------------------------------------------------------------
(* Messages and events.                                                     *)

\* A message is an event or a reply.
LEMMA Kinds ==
  ASSUME NEW m \in Message
  PROVE  /\ m \in Event <=> "type" \in DOMAIN m
         /\ m \notin Event <=> "reply" \in DOMAIN m
         /\ m \notin Event => m \in [reply : {"live", "gone"}] /\ m.reply \in {"live", "gone"}
<1>1. CASE m \in Event
  <2>1. DOMAIN m = {"type", "obj"} BY <1>1 DEF Event
  <2> QED BY <1>1, <2>1
<1>2. CASE m \in [reply : {"live", "gone"}]
  <2>1. DOMAIN m = {"reply"} /\ m.reply \in {"live", "gone"} BY <1>2
  <2>2. ASSUME m \in Event PROVE FALSE
    <3>1. DOMAIN m = {"type", "obj"} BY <2>2 DEF Event
    <3> QED BY <2>1, <3>1
  <2> QED BY <1>2, <2>1, <2>2
<1> QED BY <1>1, <1>2 DEF Message

LEMMA EventFields ==
  ASSUME NEW m \in Event
  PROVE  /\ m.type \in EventType /\ m.obj \in Obj /\ m = [type |-> m.type, obj |-> m.obj]
         /\ m \in Message
BY DEF Event, Message

\* The tail of the network.
LEMMA NetTail ==
  ASSUME net \in Seq(Message), net # <<>>, net' = Tail(net)
  PROVE  /\ net' \in Seq(Message) /\ Len(net) \in Nat \ {0} /\ Len(net') = Len(net) - 1
         /\ Head(net) = net[1] /\ 1 \in 1 .. Len(net) /\ net[1] \in Message
         /\ \A i \in 1 .. Len(net') : net'[i] = net[i + 1] /\ i + 1 \in 1 .. Len(net) /\ i + 1 # 1
<1>1. /\ Len(net) \in Nat \ {0} /\ Tail(net) \in Seq(Message) /\ Len(Tail(net)) = Len(net) - 1
      /\ \A i \in 1..Len(Tail(net)) : Tail(net)[i] = net[i + 1]
      /\ Head(net) = net[1]
  BY EmptySeq, HeadTailProperties
<1>2. 1 \in 1 .. Len(net) BY <1>1
<1>3. net[1] \in Message BY <1>2, ElementOfSeq
<1> QED BY <1>1, <1>2, <1>3

LEMMA NetGrows ==
  ASSUME net \in Seq(Message), NEW m \in Message, net' = Append(net, m)
  PROVE  /\ net' \in Seq(Message) /\ Len(net) \in Nat /\ Len(net') = Len(net) + 1
         /\ \A i \in 1 .. Len(net) : net'[i] = net[i] /\ i \in 1 .. Len(net')
         /\ net'[Len(net) + 1] = m /\ Len(net) + 1 \in 1 .. Len(net')
         /\ \A i \in 1 .. Len(net') : i \in 1 .. Len(net) \/ i = Len(net) + 1
<1>1. /\ net' \in Seq(Message) /\ Len(net) \in Nat /\ Len(net') = Len(net) + 1
      /\ \A i \in 1..Len(net) : net'[i] = net[i]
      /\ net'[Len(net) + 1] = m
  BY AppendProperties, LenProperties
<1> QED BY <1>1

\* What is printed of an event names it.
LEMMA LineOf ==
  ASSUME NEW e \in Event, NEW detail \in {"live", "gone"}
  PROVE  /\ [type |-> e.type, obj |-> e.obj, detail |-> detail] \in Line
         /\ EventOf([type |-> e.type, obj |-> e.obj, detail |-> detail]) = e
<1>1. e.type \in EventType /\ e.obj \in Obj /\ e = [type |-> e.type, obj |-> e.obj] BY EventFields
<1> QED BY <1>1 DEF Line, EventOf

LEMMA InitInv == Init => Inv
<1> SUFFICES ASSUME Init PROVE Inv OBVIOUS
<1>1. /\ <<>> \in Seq(Message) /\ <<>> \in Seq(Event) /\ <<>> \in Seq(Line) /\ Len(<<>>) = 0
      /\ 1..0 = {}
  BY EmptySeq
<1>2. N \in Nat \ {0} /\ Node = 1..N /\ NULL = 0 BY Cells DEF NULL
<1>3. 0 \in 0..N /\ 0 <= N BY <1>2
<1>4. /\ received = <<>> /\ ev = <<>> /\ printed = <<>> /\ net = <<>> /\ cur = NULL /\ head = NULL
      /\ tail = NULL /\ freed = {} /\ main = "connect" /\ ctx = "connecting" /\ asked = {}
      /\ reply = "none" /\ alive = {} /\ born = {} /\ raised = 0 /\ quit = FALSE
      /\ next = [n \in Node |-> NULL]
  BY DEF Init
<1>5. TypeOK BY <1>1, <1>3, <1>4 DEF TypeOK, Point, N
<1>6. First = 1 BY <1>1, <1>4 DEF First
<1>7. \A n \in Node : ~(1 <= n /\ n < 0) BY <1>2
<1>8. InOrder
  <2>1. head = IF First <= Len(ev) THEN First ELSE NULL BY <1>1, <1>4, <1>6
  <2>2. tail = IF First <= Len(ev) THEN Len(ev) ELSE NULL BY <1>1, <1>4, <1>6
  <2>3. \A n \in Node : next[n] = IF First <= n /\ n < Len(ev) THEN n + 1 ELSE NULL
    BY <1>1, <1>4, <1>6, <1>7
  <2>4. freed = 1..Len(printed) BY <1>1, <1>4
  <2> QED BY <1>1, <1>4, <2>1, <2>2, <2>3, <2>4 DEF InOrder
<1>9. Replies = {} BY <1>1, <1>4 DEF Replies
<1>10. Counted BY <1>1, <1>4, <1>9 DEF Counted
<1> QED BY <1>1, <1>4, <1>5, <1>8, <1>9, <1>10 DEF Inv, Connection, Known, Pending

-----------------------------------------------------------------------------
(* The steps.                                                               *)

\* A step that leaves the list alone, and main where it was or outside the
\* places that hold a cell.
LEMMA ListStays ==
  ASSUME InOrder, UNCHANGED <<list, hist, cur>>,
         main' = main \/ ({main, main'} \cap {"process", "query", "done"} = {})
                      \/ {main, main'} \subseteq {"process", "query"}
  PROVE  InOrder'
<1>1. /\ received' = received /\ ev' = ev /\ cur' = cur /\ printed' = printed /\ freed' = freed
      /\ head' = head /\ tail' = tail /\ next' = next
  BY DEF list, hist
<1>2. /\ main' \in {"process", "query"} <=> main \in {"process", "query"}
      /\ main' = "done" <=> main = "done"
  OBVIOUS
<1>3. First' = First BY <1>1 DEF First
<1>4. \A k \in 1 .. Len(printed) : EventOf(printed[k]) = ev[k] BY DEF InOrder
<1>5. \A k \in 1 .. Len(printed') : EventOf(printed'[k]) = ev'[k] BY <1>1, <1>4 DEF EventOf
<1> QED BY <1>1, <1>2, <1>3, <1>5 DEF InOrder

\* A step of which only main, ctx or quit tell.
LEMMA QuietStep ==
  ASSUME Inv, UNCHANGED <<server, list, cur, reply, hist>>,
         main' \in Point, quit' \in BOOLEAN, ctx' \in {"connecting", "ready", "failed"},
         main' = main \/ ({main, main'} \cap {"process", "query", "done"} = {}),
         main' # main => main' # "pop" \/ head # NULL,
         main' # "connect" => ctx' # "connecting",
         ctx' = "failed" <=> ctx = "failed"
  PROVE  Inv'
<1>1. /\ received' = received /\ ev' = ev /\ cur' = cur /\ printed' = printed /\ freed' = freed
      /\ head' = head /\ tail' = tail /\ next' = next /\ alive' = alive /\ born' = born /\ net' = net
      /\ asked' = asked /\ raised' = raised /\ reply' = reply
  BY DEF server, list, hist
<1>2. InOrder' BY ListStays DEF Inv
<1>3. TypeOK' BY <1>1 DEF Inv, TypeOK
<1>4. Replies' = Replies BY <1>1 DEF Replies
<1>5. Counted' BY <1>1, <1>4 DEF Inv, Counted
<1>6. Known' BY <1>1 DEF Inv, Known
<1>7. Connection' BY <1>1 DEF Inv, Connection
<1>8. main' = "query" <=> main = "query" OBVIOUS
<1>9. Pending' BY <1>1, <1>4, <1>8 DEF Inv, Pending
<1> QED BY <1>2, <1>3, <1>5, <1>6, <1>7, <1>9 DEF Inv

\* Connected, Subscribe, Top, Check, CondWait, ContextReady, Sigint
LEMMA QuietSteps ==
  ASSUME Inv, Connected \/ Subscribe \/ Top \/ Check \/ CondWait \/ ContextReady \/ Sigint
              \/ UNCHANGED vars
  PROVE  Inv'
<1>t. main \in Point /\ quit \in BOOLEAN /\ ctx \in {"connecting", "ready", "failed"}
  BY DEF Inv, TypeOK
<1>c. main # "connect" => ctx # "connecting" BY DEF Inv, Connection
<1>p. {"subscribe", "subwait", "top", "check", "gap", "wait", "pop", "exit", "error"} \subseteq Point
  BY DEF Point
<1>1. CASE Connected BY <1>1, <1>t, <1>p, QuietStep DEF Connected
<1>2. CASE Subscribe BY <1>2, <1>t, <1>c, <1>p, QuietStep DEF Subscribe
<1>3. CASE Top BY <1>3, <1>t, <1>c, <1>p, QuietStep DEF Top
<1>4. CASE Check BY <1>4, <1>t, <1>c, <1>p, QuietStep DEF Check
<1>5. CASE CondWait BY <1>5, <1>t, <1>c, <1>p, QuietStep DEF CondWait
<1>6. CASE ContextReady BY <1>6, <1>t, <1>c, <1>p, QuietStep DEF ContextReady
<1>7. CASE Sigint BY <1>7, <1>t, <1>c, <1>p, QuietStep DEF Sigint
<1>8. CASE UNCHANGED vars BY <1>8, <1>t, <1>c, QuietStep DEF vars
<1> QED BY <1>1, <1>2, <1>3, <1>4, <1>5, <1>6, <1>7, <1>8

\* The connection is lost, or given up.
LEMMA NetDropped ==
  ASSUME Inv, net' = <<>>, asked' = {}, UNCHANGED <<alive, born, raised, list, cur, reply, hist, quit>>,
         main' = main \/ ({main, main'} \subseteq {"subwait", "error"}),
         ctx' \in {"ready", "failed"}, main' = "done" => ctx' = "failed"
  PROVE  Inv'
<1>1. /\ received' = received /\ ev' = ev /\ cur' = cur /\ printed' = printed /\ freed' = freed
      /\ head' = head /\ tail' = tail /\ next' = next /\ alive' = alive /\ born' = born 
      /\ raised' = raised /\ reply' = reply /\ quit' = quit
  BY DEF list, hist
<1>2. InOrder' BY ListStays DEF Inv
<1>3. <<>> \in Seq(Message) /\ Len(<<>>) = 0 /\ 1..0 = {} BY EmptySeq
<1>4. TypeOK' BY <1>1, <1>3 DEF Inv, TypeOK, Point
<1>5. Replies' = {} BY <1>3 DEF Replies
<1>6. Counted'
  <2>1. Len(ev) \in Nat /\ Len(net) \in Nat /\ raised \in Nat
    BY Cells, LenProperties DEF Inv, TypeOK, N
  <2>2. Len(ev) + Len(net) <= raised + (IF Replies = {} THEN 0 ELSE 1) BY DEF Inv, Counted
  <2>3. Replies # {} => Len(net) >= 1 BY <2>1 DEF Replies
  <2>4. Len(ev) <= raised BY <2>1, <2>2, <2>3
  <2> QED BY <1>1, <1>3, <1>5, <2>1, <2>4 DEF Counted
<1>7. Known' BY <1>1, <1>3 DEF Inv, Known
<1>8. Connection' BY DEF Inv, Connection
<1>9. Pending'
  <2>1. main' # "query" => main # "query" OBVIOUS
  <2> QED BY <1>1, <1>3, <1>5, <2>1 DEF Inv, Pending
<1> QED BY <1>2, <1>4, <1>6, <1>7, <1>8, <1>9 DEF Inv

\* Acknowledged and ContextFails
LEMMA NetSteps == ASSUME Inv, Acknowledged \/ ContextFails PROVE Inv'
<1>t. main \in Point /\ quit \in BOOLEAN /\ ctx \in {"connecting", "ready", "failed"}
  BY DEF Inv, TypeOK
<1>1. CASE Acknowledged /\ main' = "top"
  <2>1. UNCHANGED <<server, list, cur, reply, hist, quit, ctx>> BY <1>1 DEF Acknowledged, server
  <2>2. main' \in Point /\ main = "subwait" /\ ctx = "ready" BY <1>1 DEF Acknowledged, Point
  <2> QED BY <1>1, <1>t, <2>1, <2>2, QuietStep
<1>2. CASE Acknowledged /\ main' = "error" /\ net' = <<>>
  <2>1. UNCHANGED <<alive, born, raised, list, cur, reply, hist, quit, ctx, asked>> 
    BY <1>2 DEF Acknowledged
  <2>2. main = "subwait" /\ ctx = "ready" /\ asked = {}
    BY <1>2 DEF Acknowledged, Inv, Pending
  <2> QED BY <1>2, <2>1, <2>2, NetDropped
<1>3. CASE ContextFails BY <1>3, NetDropped DEF ContextFails
<1> QED BY <1>1, <1>2, <1>3 DEF Acknowledged

LEMMA ServerEventStep == ASSUME Inv, ServerEvent PROVE Inv'
<1>t. /\ net \in Seq(Message) /\ raised \in 0..N /\ N \in Nat /\ Len(ev) \in Nat
      /\ alive \subseteq born /\ born \subseteq Obj
  BY Cells, LenProperties DEF Inv, TypeOK, Known, N
<1>1. PICK o \in Obj : ServerNew(o) \/ ServerChange(o) \/ ServerRemove(o) BY DEF ServerEvent
<1>2. PICK type \in EventType :
        /\ Raise(type, o) /\ alive' \subseteq born' /\ born' = born \cup {o}
        /\ alive' \subseteq alive \cup (born' \ born)
  BY <1>1, <1>t DEF ServerNew, ServerChange, ServerRemove, EventType
<1> DEFINE m == [type |-> type, obj |-> o]
<1>3. m \in Event /\ m \in Message /\ m.obj = o BY DEF Event, Message
<1>4. /\ raised' = raised + 1 /\ raised < N /\ net' = Append(net, m) /\ ctx = "ready"
      /\ UNCHANGED <<asked, ctx, list, main, cur, reply, quit, hist>>
  BY <1>2 DEF Raise, ServerEvent, N
<1> HIDE DEF m
<1>5. /\ net' \in Seq(Message) /\ Len(net) \in Nat /\ Len(net') = Len(net) + 1
      /\ \A i \in 1 .. Len(net) : net'[i] = net[i] /\ i \in 1 .. Len(net')
      /\ net'[Len(net) + 1] = m 
      /\ \A i \in 1 .. Len(net') : i \in 1 .. Len(net) \/ i = Len(net) + 1
  BY <1>t, <1>3, <1>4, NetGrows
<1>6. /\ received' = received /\ ev' = ev /\ cur' = cur /\ printed' = printed /\ freed' = freed
      /\ head' = head /\ tail' = tail /\ next' = next 
  BY <1>4 DEF list, hist
<1>7. Replies' = Replies
  <2>1. \A i \in 1 .. Len(net') : net'[i] \notin Event => i \in 1..Len(net) BY <1>3, <1>5
  <2> QED BY <1>5, <2>1 DEF Replies
<1>8. InOrder' BY <1>4, ListStays DEF Inv
<1>9. TypeOK'
  <2>1. raised' \in 0..N BY <1>t, <1>4
  <2>2. alive' \in SUBSET Obj /\ born' \in SUBSET Obj BY <1>2, <1>t
  <2> QED BY <1>4, <1>5, <1>6, <2>1, <2>2 DEF Inv, TypeOK, N
<1>10. Counted'
  <2>1. PICK p : p = (IF Replies = {} THEN 0 ELSE 1) OBVIOUS
  <2>2. p \in Nat BY <2>1
  <2>3. Len(ev) + Len(net) <= raised + p BY <2>1 DEF Inv, Counted
  <2>4. Len(ev) + (Len(net) + 1) <= (raised + 1) + p BY <1>t, <1>5, <2>2, <2>3
  <2> QED BY <1>4, <1>5, <1>6, <1>7, <2>1, <2>4 DEF Counted
<1>11. Known' BY <1>2, <1>3, <1>5, <1>6 DEF Inv, Known
<1>12. Connection' BY <1>4 DEF Inv, Connection
<1>13. Pending'
  <2>1. \A i \in Replies : net'[i] = net[i] BY <1>5 DEF Replies
  <2>2. ASSUME cur # NULL, ev[cur].obj \notin alive PROVE ev[cur].obj \notin alive'
    <3>1. ev[cur].obj \in born
      <4>1. cur \in 1..Len(ev)
        <5>1. cur \in Node /\ cur <= Len(ev) /\ Node = 1..N
          BY <2>2, Cells DEF Inv, TypeOK, InOrder
        <5> QED BY <1>t, <5>1
      <4> QED BY <4>1 DEF Inv, Known
    <3> QED BY <1>2, <2>2, <3>1
  <2>3. main = "query" => cur # NULL BY DEF Inv, TypeOK
  <2>4. reply = "gone" \/ Replies # {} => main = "query" BY DEF Inv, Pending
  <2> QED BY <1>4, <1>6, <1>7, <2>1, <2>2, <2>3, <2>4 DEF Inv, Pending
<1> QED BY <1>8, <1>9, <1>10, <1>11, <1>12, <1>13 DEF Inv

LEMMA ServerAnswersStep == ASSUME Inv, ServerAnswers PROVE Inv'
<1>t. /\ net \in Seq(Message) /\ raised \in 0..N /\ N \in Nat /\ Len(ev) \in Nat
  BY Cells, LenProperties DEF Inv, TypeOK, N
<1>1. PICK o \in asked : /\ asked' = asked \ {o}
                         /\ net' = Append(net, [reply |-> IF o \in alive THEN "live" ELSE "gone"])
  BY DEF ServerAnswers
<1>2. /\ UNCHANGED <<alive, born, raised, ctx, list, main, cur, reply, quit, hist>>
      /\ ctx = "ready"
  BY DEF ServerAnswers
<1>3. PICK r \in {"live", "gone"} : r = IF o \in alive THEN "live" ELSE "gone" OBVIOUS
<1> DEFINE m == [reply |-> r]
<1>4. m \in Message /\ m.reply = r BY DEF Message
<1>5. m \notin Event
  <2>1. "reply" \in DOMAIN m OBVIOUS
  <2> HIDE DEF m
  <2> QED BY <1>4, <2>1, Kinds
<1>6. net' = Append(net, m) BY <1>1, <1>3
<1> HIDE DEF m
<1>7. /\ net' \in Seq(Message) /\ Len(net) \in Nat /\ Len(net') = Len(net) + 1
      /\ \A i \in 1 .. Len(net) : net'[i] = net[i] /\ i \in 1 .. Len(net')
      /\ net'[Len(net) + 1] = m /\ Len(net) + 1 \in 1 .. Len(net')
      /\ \A i \in 1 .. Len(net') : i \in 1 .. Len(net) \/ i = Len(net) + 1
  BY <1>t, <1>4, <1>6, NetGrows
<1>8. /\ received' = received /\ ev' = ev /\ cur' = cur /\ printed' = printed /\ freed' = freed
      /\ head' = head /\ tail' = tail /\ next' = next
  BY <1>2 DEF list, hist
<1>9. asked = {ev[cur].obj} /\ reply = "none" /\ Replies = {} /\ main = "query"
  BY <1>1 DEF Inv, Pending
<1>10. Replies' = {Len(net) + 1}
  <2>1. \A i \in 1 .. Len(net) : net'[i] \in Event BY <1>7, <1>9 DEF Replies
  <2> QED BY <1>5, <1>7, <2>1 DEF Replies
<1>11. InOrder' BY <1>2, ListStays DEF Inv
<1>12. TypeOK'
  <2>1. asked' \in SUBSET Obj BY <1>1 DEF Inv, TypeOK
  <2> QED BY <1>2, <1>7, <1>8, <2>1 DEF Inv, TypeOK
<1>13. Counted'
  <2>1. Len(ev) + Len(net) <= raised + 0 BY <1>9 DEF Inv, Counted
  <2>2. Len(ev) + (Len(net) + 1) <= raised + 1 BY <1>t, <1>7, <2>1
  <2>3. Replies' # {} BY <1>10
  <2> QED BY <1>2, <1>7, <1>8, <2>2, <2>3 DEF Counted
<1>14. Known'
  <2>1. \A i \in 1 .. Len(net') : net'[i] \in Event => i \in 1 .. Len(net) BY <1>5, <1>7
  <2> QED BY <1>2, <1>7, <1>8, <2>1 DEF Inv, Known
<1>15. Connection' BY <1>2 DEF Inv, Connection
<1>16. Pending'
  <2>1. asked' = {} /\ o = ev[cur].obj BY <1>1, <1>9
  <2>2. r = "gone" => o \notin alive BY <1>3
  <2>3. \A i \in Replies' : net'[i].reply = r BY <1>4, <1>7, <1>10
  <2>4. \A i, j \in Replies' : i = j BY <1>10
  <2> QED BY <1>2, <1>8, <1>9, <1>10, <2>1, <2>2, <2>3, <2>4 DEF Inv, Pending
<1> QED BY <1>11, <1>12, <1>13, <1>14, <1>15, <1>16 DEF Inv

\* sub_cb appends the cell it allocates.
LEMMA SubCbList ==
  ASSUME Inv, SubCb
  PROVE  InOrder' /\ Len(ev') = Len(ev) + 1 /\ Len(ev) + 1 \in Node
         /\ head' \in Node \cup {NULL} /\ tail' \in Node \cup {NULL} /\ next' \in [Node -> Node \cup {NULL}]
<1>t. /\ net \in Seq(Message) /\ net # <<>> /\ ev \in Seq(Event) /\ Len(ev) \in Nat
      /\ next \in [Node -> Node \cup {NULL}] /\ raised \in 0..N /\ Len(printed) \in Nat
  BY LenProperties DEF Inv, TypeOK, SubCb, N
<1>c. N \in Nat /\ Node = 1..N /\ 0 \notin Node /\ NULL = 0 BY Cells DEF NULL
<1>1. net' = Tail(net) BY DEF SubCb
<1>2. /\ Len(net) \in Nat \ {0} /\ net[1] \in Message /\ Head(net) = net[1] BY <1>t, <1>1, NetTail
<1>3. net[1] \in Event BY <1>2, Kinds DEF SubCb
<1>4. main # "done" BY <1>t DEF Inv, Connection
<1>5. Len(ev) + 1 \in Node
  <2>1. CASE Replies = {}
    <3>1. Len(ev) + Len(net) <= raised + 0 BY <2>1 DEF Inv, Counted
    <3> QED BY <1>t, <1>c, <1>2, <3>1
  <2>2. CASE Replies # {}
    <3>1. Len(ev) + Len(net) <= raised + 1 BY <2>2 DEF Inv, Counted
    <3>2. PICK i \in 1..Len(net) : net[i] \notin Event BY <2>2 DEF Replies
    <3>3. i # 1 BY <1>3, <3>2
    <3>4. Len(net) >= 2 BY <1>2, <3>3
    <3> QED BY <1>t, <1>c, <1>2, <3>1, <3>4
  <2> QED BY <2>1, <2>2
<1>6. /\ ev' = Append(ev, net[1]) /\ received' = Append(received, net[1])
      /\ cur' = cur /\ printed' = printed /\ freed' = freed
      /\ main' = IF main = "wait" THEN "check" ELSE main
  BY <1>2 DEF SubCb
<1>7. /\ next' = IF tail # NULL THEN [next EXCEPT ![tail] = Len(ev) + 1] ELSE next
      /\ head' = IF tail # NULL THEN head ELSE Len(ev) + 1
      /\ tail' = Len(ev) + 1
  BY DEF SubCb, Enqueue, Fresh
<1>8. /\ Len(ev') = Len(ev) + 1 /\ ev'[Len(ev) + 1] = net[1]
      /\ \A k \in 1..Len(ev) : ev'[k] = ev[k]
  BY <1>t, <1>3, <1>6, AppendProperties
<1>9. /\ received = ev /\ Len(printed) <= Len(ev)
      /\ cur # NULL => cur = Len(printed) + 1 /\ cur <= Len(ev)
      /\ head = IF First <= Len(ev) THEN First ELSE NULL
      /\ tail = IF First <= Len(ev) THEN Len(ev) ELSE NULL
      /\ \A n \in Node : next[n] = IF First <= n /\ n < Len(ev) THEN n + 1 ELSE NULL
  BY <1>4 DEF Inv, InOrder
<1>10. First' = First BY <1>6 DEF First
<1>11. First \in Nat \ {0} /\ First <= Len(ev) + 1 BY <1>t, <1>9 DEF First
<1> DEFINE l == Len(ev)
           f == First
<1>12. /\ l \in Nat /\ f \in Nat \ {0} /\ f <= l + 1 /\ l + 1 \in 1..N BY <1>t, <1>c, <1>5, <1>11
<1>13. /\ head' = f /\ tail' = l + 1
       /\ next' \in [Node -> Node \cup {NULL}]
       /\ \A n \in Node : next'[n] = IF f <= n /\ n < l + 1 THEN n + 1 ELSE NULL
  <2> HIDE DEF l, f
  <2>1. CASE f <= l
    <3>0. l \in 1..N BY <1>c, <1>12, <2>1
    <3>1. head = f /\ tail = l /\ l \in 1..N BY <1>9, <2>1, <3>0 DEF l, f
    <3>2. next' = [next EXCEPT ![l] = l + 1] BY <1>c, <1>7, <3>1 DEF l
    <3>3. next'[l] = l + 1 /\ \A n \in Node : n # l => next'[n] = next[n] BY <1>t, <1>c, <3>1, <3>2
    <3>4. next' \in [Node -> Node \cup {NULL}] BY <1>t, <1>c, <1>12, <3>1, <3>2
    <3>5. \A n \in Node : next[n] = IF f <= n /\ n < l THEN n + 1 ELSE NULL BY <1>9 DEF l, f
    <3>6. \A n \in Node : n = l \/ (n < l <=> n < l + 1)  BY <1>c, <1>12
    <3>7. head' = f /\ tail' = l + 1 BY <1>7, <1>c, <3>1 DEF l
    <3>8. ASSUME NEW n \in Node PROVE next'[n] = IF f <= n /\ n < l + 1 THEN n + 1 ELSE NULL
      <4>1. CASE n = l BY <1>12, <2>1, <3>3, <4>1
      <4>2. CASE n # l BY <3>3, <3>5, <3>6, <4>2
      <4> QED BY <4>1, <4>2
    <3> QED BY <3>4, <3>7, <3>8
  <2>2. CASE ~(f <= l)
    <3>1. head = NULL /\ tail = NULL /\ f = l + 1 BY <1>9, <1>12, <2>2 DEF l, f
    <3>2. next' = next /\ head' = f /\ tail' = l + 1 BY <1>7, <3>1 DEF l
    <3>3. \A n \in Node : next[n] = NULL /\ ~(f <= n /\ n < l + 1)
      <4>1. \A n \in Node : next[n] = IF f <= n /\ n < l THEN n + 1 ELSE NULL BY <1>9 DEF l, f
      <4>2. \A n \in Node : ~(f <= n /\ n < l) /\ ~(f <= n /\ n < l + 1) BY <1>c, <1>12, <3>1
      <4> QED BY <4>1, <4>2
    <3> QED BY <1>t, <3>2, <3>3
  <2> QED BY <2>1, <2>2
<1>14. head' = IF First' <= Len(ev') THEN First' ELSE NULL BY <1>8, <1>10, <1>12, <1>13
<1>15. tail' = IF First' <= Len(ev') THEN Len(ev') ELSE NULL BY <1>8, <1>10, <1>12, <1>13
<1>16. \A n \in Node : next'[n] = IF First' <= n /\ n < Len(ev') THEN n + 1 ELSE NULL
  BY <1>8, <1>10, <1>13
<1>17. received' = ev' BY <1>6, <1>9
<1>18. cur' # NULL => cur' = Len(printed') + 1 /\ cur' <= Len(ev')
  <2>1. CASE cur # NULL
    <3>1. cur = Len(printed) + 1 /\ cur <= Len(ev) BY <1>9, <2>1
    <3>2. cur <= Len(ev) + 1 BY <1>t, <3>1
    <3> QED BY <1>6, <1>8, <3>1, <3>2
  <2> QED BY <1>6, <2>1
<1>19. Len(printed') <= Len(ev') BY <1>t, <1>6, <1>8, <1>9
<1>20. \A k \in 1..Len(printed') : EventOf(printed'[k]) = ev'[k]
  <2>1. \A k \in 1..Len(printed) : k \in 1..Len(ev) BY <1>t, <1>9
  <2>2. \A k \in 1..Len(printed) : EventOf(printed[k]) = ev[k] BY DEF Inv, InOrder
  <2> QED BY <1>6, <1>8, <2>1, <2>2 DEF EventOf
<1>21. cur' # NULL <=> main' \in {"process", "query"} BY <1>6 DEF Inv, InOrder
<1>22. freed' = 1..Len(printed') /\ main' # "done" BY <1>4, <1>6 DEF Inv, InOrder
<1>23. InOrder' BY <1>14, <1>15, <1>16, <1>17, <1>18, <1>19, <1>20, <1>21, <1>22 DEF InOrder
<1>24. head' \in Node \cup {NULL} /\ tail' \in Node \cup {NULL}
  BY <1>5, <1>7 DEF Inv, TypeOK
<1> QED BY <1>5, <1>8, <1>13, <1>23, <1>24

LEMMA SubCbStep == ASSUME Inv, SubCb PROVE Inv'
<1>t. /\ net \in Seq(Message) /\ net # <<>> /\ ev \in Seq(Event) /\ Len(ev) \in Nat
      /\ raised \in 0..N /\ received \in Seq(Event)
  BY LenProperties DEF Inv, TypeOK, SubCb, N
<1>c. N \in Nat /\ Node = 1..N BY Cells
<1>1. net' = Tail(net) BY DEF SubCb
<1>2. /\ net' \in Seq(Message) /\ Len(net) \in Nat \ {0} /\ Len(net') = Len(net) - 1
      /\ Head(net) = net[1] /\ 1 \in 1..Len(net) /\ net[1] \in Message
      /\ \A i \in 1..Len(net') : net'[i] = net[i + 1] /\ i + 1 \in 1..Len(net) /\ i + 1 # 1
  BY <1>t, <1>1, NetTail
<1>3. net[1] \in Event BY <1>2, Kinds DEF SubCb
<1>4. /\ ev' = Append(ev, net[1]) /\ received' = Append(received, net[1])
      /\ main' = IF main = "wait" THEN "check" ELSE main
      /\ UNCHANGED <<alive, born, asked, raised, ctx, freed, cur, reply, quit, printed>>
  BY <1>2 DEF SubCb
<1>5. /\ Len(ev') = Len(ev) + 1 /\ ev'[Len(ev) + 1] = net[1] /\ ev' \in Seq(Event)
      /\ \A k \in 1..Len(ev) : ev'[k] = ev[k]
      /\ received' \in Seq(Event)
  BY <1>t, <1>3, <1>4, AppendProperties
<1>6. /\ InOrder' /\ Len(ev) + 1 \in Node
      /\ head' \in Node \cup {NULL} /\ tail' \in Node \cup {NULL} /\ next' \in [Node -> Node \cup {NULL}]
  BY SubCbList
<1>7. Replies' = {} <=> Replies = {}
  <2>1. Replies' # {} => Replies # {} BY <1>2 DEF Replies
  <2>2. ASSUME NEW i \in Replies PROVE i - 1 \in Replies'
    <3>1. i \in 1..Len(net) /\ i # 1 /\ net[i] \notin Event BY <1>3 DEF Replies
    <3>2. i - 1 \in 1..Len(net') /\ (i - 1) + 1 = i BY <1>2, <3>1
    <3>3. net'[i - 1] = net[i] BY <1>2, <3>2
    <3> QED BY <3>1, <3>2, <3>3 DEF Replies
  <2> QED BY <2>1, <2>2
<1>8. \A i \in Replies' : i + 1 \in Replies /\ net'[i] = net[i + 1] BY <1>2 DEF Replies
<1>9. TypeOK'
  <2>1. Len(ev') <= Cardinality(Node) BY <1>c, <1>5, <1>6 DEF N
  <2>2. main # "pop" BY DEF SubCb, HoldsMutex
  <2> QED BY <1>2, <1>4, <1>5, <1>6, <2>1, <2>2 DEF Inv, TypeOK, Point
<1>10. Counted'
  <2>1. PICK p : p = (IF Replies = {} THEN 0 ELSE 1) OBVIOUS
  <2>2. p \in Nat BY <2>1
  <2>3. Len(ev) + Len(net) <= raised + p BY <2>1 DEF Inv, Counted
  <2>4. (Len(ev) + 1) + (Len(net) - 1) <= raised + p BY <1>t, <1>2, <2>2, <2>3
  <2> QED BY <1>2, <1>4, <1>5, <1>7, <2>1, <2>4 DEF Counted
<1>11. Known'
  <2>1. net[1].obj \in born BY <1>2, <1>3 DEF Inv, Known
  <2>2. \A k \in 1..Len(ev') : k \in 1..Len(ev) \/ k = Len(ev) + 1 BY <1>t, <1>5
  <2>3. \A k \in 1..Len(ev) : ev[k].obj \in born BY DEF Inv, Known
  <2>4. \A k \in 1..Len(ev') : ev'[k].obj \in born' BY <1>4, <1>5, <2>1, <2>2, <2>3
  <2>5. \A i \in 1..Len(net') : net'[i] \in Event => net'[i].obj \in born' BY <1>2, <1>4 DEF Inv, Known
  <2> QED BY <1>4, <2>4, <2>5 DEF Inv, Known
<1>12. Connection' BY <1>t, <1>4 DEF Inv, Connection
<1>13. Pending'
  <2>1. main = "query" => cur \in 1..Len(ev)
    <3>1. SUFFICES ASSUME main = "query" PROVE cur \in 1..Len(ev) OBVIOUS
    <3>2. cur \in Node /\ cur <= Len(ev) BY <3>1 DEF Inv, TypeOK, InOrder
    <3> QED BY <1>t, <1>c, <3>2
  <2>2. main = "query" => ev'[cur] = ev[cur] BY <1>5, <2>1
  <2>3. main' = "query" <=> main = "query" BY <1>4
  <2>4. \A i, j \in Replies' : i = j
    <3>1. SUFFICES ASSUME NEW i \in Replies', NEW j \in Replies' PROVE i = j OBVIOUS
    <3>2. i + 1 = j + 1 BY <1>8 DEF Inv, Pending
    <3>3. i \in Int /\ j \in Int BY DEF Replies
    <3> QED BY <3>2, <3>3
  <2>5. asked # {} \/ reply = "gone" \/ Replies # {} => main = "query" BY DEF Inv, Pending
  <2>6. ASSUME NEW i \in Replies' PROVE net'[i].reply = "gone" => ev'[cur'].obj \notin alive'
    <3>1. i + 1 \in Replies /\ net'[i] = net[i + 1] BY <1>8
    <3>2. net[i + 1].reply = "gone" => ev[cur].obj \notin alive BY <3>1 DEF Inv, Pending
    <3> QED BY <1>4, <2>2, <2>5, <3>1, <3>2
  <2> QED BY <1>4, <1>7, <2>2, <2>3, <2>4, <2>5, <2>6 DEF Inv, Pending
<1> QED BY <1>6, <1>9, <1>10, <1>11, <1>12, <1>13 DEF Inv

LEMMA QueryCbStep == ASSUME Inv, QueryCb PROVE Inv'
<1>t. /\ net \in Seq(Message) /\ net # <<>> /\ Len(ev) \in Nat /\ raised \in 0..N /\ N \in Nat
  BY Cells, LenProperties DEF Inv, TypeOK, QueryCb, N
<1>1. net' = Tail(net) BY DEF QueryCb
<1>2. /\ net' \in Seq(Message) /\ Len(net) \in Nat \ {0} /\ Len(net') = Len(net) - 1
      /\ Head(net) = net[1] /\ 1 \in 1..Len(net) /\ net[1] \in Message
      /\ \A i \in 1..Len(net') : net'[i] = net[i + 1] /\ i + 1 \in 1..Len(net) /\ i + 1 # 1
  BY <1>t, <1>1, NetTail
<1>3. net[1] \notin Event BY <1>2, Kinds DEF QueryCb
<1>4. /\ reply' = net[1].reply /\ reply' \in {"live", "gone"} BY <1>2, <1>3, Kinds DEF QueryCb
<1>5. UNCHANGED <<alive, born, asked, raised, ctx, list, main, cur, quit, hist>> BY DEF QueryCb
<1>6. /\ received' = received /\ ev' = ev /\ cur' = cur /\ printed' = printed /\ freed' = freed
      /\ head' = head /\ tail' = tail /\ next' = next
  BY <1>5 DEF list, hist
<1>7. 1 \in Replies BY <1>2, <1>3 DEF Replies
<1>8. Replies' = {}
  <2>1. ASSUME NEW i \in Replies' PROVE FALSE
    <3>1. i + 1 \in Replies /\ i + 1 # 1 BY <1>2 DEF Replies
    <3> QED BY <1>7, <3>1 DEF Inv, Pending
  <2> QED BY <2>1
<1>9. InOrder' BY <1>5, ListStays DEF Inv
<1>10. TypeOK' BY <1>2, <1>4, <1>5, <1>6 DEF Inv, TypeOK
<1>11. Counted'
  <2>1. Len(ev) + Len(net) <= raised + 1 BY <1>7 DEF Inv, Counted
  <2>2. Len(ev) + (Len(net) - 1) <= raised + 0 BY <1>t, <1>2, <2>1
  <2> QED BY <1>2, <1>5, <1>6, <1>8, <2>2 DEF Counted
<1>12. Known' BY <1>2, <1>5, <1>6 DEF Inv, Known
<1>13. Connection' BY <1>t, <1>5 DEF Inv, Connection
<1>14. Pending'
  <2>1. main = "query" /\ asked = {} BY <1>7 DEF Inv, Pending
  <2>2. reply' = "gone" => ev[cur].obj \notin alive BY <1>4, <1>7 DEF Inv, Pending
  <2> QED BY <1>5, <1>6, <1>8, <2>1, <2>2 DEF Pending
<1> QED BY <1>9, <1>10, <1>11, <1>12, <1>13, <1>14 DEF Inv

\* main takes the first cell.
LEMMA PopStep == ASSUME Inv, Pop PROVE Inv'
<1>t. /\ ev \in Seq(Event) /\ Len(ev) \in Nat /\ Len(printed) \in Nat
      /\ next \in [Node -> Node \cup {NULL}] /\ head \in Node
  BY LenProperties DEF Inv, TypeOK, Pop
<1>c. N \in Nat /\ Node = 1..N /\ 0 \notin Node /\ NULL = 0 BY Cells DEF NULL
<1>1. /\ main = "pop" /\ main' = "process" /\ cur' = head /\ head' = next[head]
      /\ tail' = IF next[head] = NULL THEN NULL ELSE tail
      /\ next' = [next EXCEPT ![head] = NULL]
      /\ UNCHANGED <<server, ctx, ev, freed, reply, quit, hist>>
  BY DEF Pop
<1>2. /\ received = ev /\ Len(printed) <= Len(ev) /\ cur = NULL /\ freed = 1..Len(printed)
      /\ head = IF First <= Len(ev) THEN First ELSE NULL
      /\ tail = IF First <= Len(ev) THEN Len(ev) ELSE NULL
      /\ \A n \in Node : next[n] = IF First <= n /\ n < Len(ev) THEN n + 1 ELSE NULL
      /\ \A k \in 1..Len(printed) : EventOf(printed[k]) = ev[k]
  BY <1>1 DEF Inv, InOrder
<1>3. PICK h : h = head OBVIOUS
<1>4. First = h /\ h = Len(printed) + 1 /\ h <= Len(ev) /\ tail = Len(ev)
  BY <1>t, <1>c, <1>2, <1>3 DEF First
<1>5. /\ received' = received /\ ev' = ev /\ printed' = printed /\ freed' = freed
      /\ alive' = alive /\ born' = born /\ net' = net /\ asked' = asked /\ raised' = raised
      /\ ctx' = ctx /\ reply' = reply /\ quit' = quit
  BY <1>1 DEF server, hist
<1>6. First' = h + 1
  <2>1. cur' # NULL BY <1>t, <1>c, <1>1
  <2>2. First' = Len(printed) + 2 BY <1>5, <2>1 DEF First
  <2> QED BY <1>t, <1>4, <2>2
<1>7. h \in 1..N /\ h <= Len(ev) /\ cur' = h BY <1>t, <1>c, <1>1, <1>3, <1>4
<1>8. next[h] = IF h < Len(ev) THEN h + 1 ELSE NULL BY <1>c, <1>2, <1>4, <1>7
<1>9. h < Len(ev) <=> h + 1 <= Len(ev) BY <1>t, <1>7
<1>10. head' = IF First' <= Len(ev') THEN First' ELSE NULL
  BY <1>1, <1>3, <1>5, <1>6, <1>8, <1>9
<1>11. tail' = IF First' <= Len(ev') THEN Len(ev') ELSE NULL
  <2>1. h < Len(ev) => h + 1 # NULL BY <1>c, <1>7
  <2> QED BY <1>1, <1>3, <1>4, <1>5, <1>6, <1>8, <1>9, <2>1
<1>12. \A n \in Node : next'[n] = IF First' <= n /\ n < Len(ev') THEN n + 1 ELSE NULL
  <2>1. next'[h] = NULL /\ \A n \in Node : n # h => next'[n] = next[n] BY <1>t, <1>1, <1>3
  <2>2. \A n \in Node : n # h => (h <= n <=> h + 1 <= n) BY <1>c, <1>7
  <2>3. ~(h + 1 <= h) BY <1>7
  <2>4. \A n \in Node : next[n] = IF h <= n /\ n < Len(ev) THEN n + 1 ELSE NULL BY <1>2, <1>4
  <2>5. ASSUME NEW n \in Node PROVE next'[n] = IF h + 1 <= n /\ n < Len(ev) THEN n + 1 ELSE NULL
    <3>1. CASE n = h BY <2>1, <2>3, <3>1
    <3>2. CASE n # h BY <2>1, <2>2, <2>4, <3>2
    <3> QED BY <3>1, <3>2
  <2> QED BY <1>5, <1>6, <2>5
<1>13. cur' # NULL /\ cur' = Len(printed') + 1 /\ cur' <= Len(ev')
  BY <1>c, <1>4, <1>5, <1>7
<1>14. \A k \in 1..Len(printed') : EventOf(printed'[k]) = ev'[k]
  BY <1>2, <1>5 DEF EventOf
<1>15. InOrder' BY <1>1, <1>2, <1>5, <1>10, <1>11, <1>12, <1>13, <1>14 DEF InOrder
<1>16. TypeOK'
  <2>1. next[head] \in Node \cup {NULL} /\ next' \in [Node -> Node \cup {NULL}] BY <1>t, <1>1
  <2>2. cur' \in Node /\ head' \in Node \cup {NULL} /\ tail' \in Node \cup {NULL}
    BY <1>t, <1>1, <2>1 DEF Inv, TypeOK
  <2>3. Len(ev') <= Cardinality(Node) BY <1>5 DEF Inv, TypeOK
  <2> QED BY <1>1, <1>5, <1>13, <2>1, <2>2, <2>3 DEF Inv, TypeOK, Point
<1>17. Replies' = Replies BY <1>5 DEF Replies
<1>18. Counted' BY <1>5, <1>17 DEF Inv, Counted
<1>19. Known' BY <1>5 DEF Inv, Known
<1>20. Connection' BY <1>1, <1>5 DEF Inv, Connection
<1>21. Pending' BY <1>1, <1>5, <1>17 DEF Inv, Pending
<1> QED BY <1>15, <1>16, <1>18, <1>19, <1>20, <1>21 DEF Inv

\* main prints the event it holds.
LEMMA PrintStep ==
  ASSUME Inv, cur # NULL, Replies = {}, asked = {}, NEW detail \in {"live", "gone"}, PrintLine(detail),
         UNCHANGED <<server, ctx, head, tail, next, ev, quit, received>>, reply' = "none"
  PROVE  Inv' /\ printed' = Append(printed, [type |-> ev[cur].type, obj |-> ev[cur].obj, detail |-> detail])
         /\ cur \in 1..Len(ev) /\ alive' = alive /\ ctx' = ctx
<1>t. /\ ev \in Seq(Event) /\ Len(ev) \in Nat /\ Len(printed) \in Nat /\ printed \in Seq(Line)
  BY LenProperties DEF Inv, TypeOK
<1>c. N \in Nat /\ Node = 1..N /\ 0 \notin Node /\ NULL = 0 BY Cells DEF NULL
<1>2. /\ received = ev /\ cur = Len(printed) + 1 /\ cur <= Len(ev) /\ main \in {"process", "query"}
      /\ freed = 1..Len(printed)
      /\ head = IF First <= Len(ev) THEN First ELSE NULL
      /\ tail = IF First <= Len(ev) THEN Len(ev) ELSE NULL
      /\ \A n \in Node : next[n] = IF First <= n /\ n < Len(ev) THEN n + 1 ELSE NULL
      /\ \A k \in 1..Len(printed) : EventOf(printed[k]) = ev[k]
  BY DEF Inv, InOrder
<1>3. cur \in 1..Len(ev) /\ cur \in Node
  <2>1. cur \in Node BY DEF Inv, TypeOK
  <2> QED BY <1>t, <1>c, <1>2, <2>1
<1>4. ev[cur] \in Event BY <1>t, <1>3, ElementOfSeq
<1> DEFINE line == [type |-> ev[cur].type, obj |-> ev[cur].obj, detail |-> detail]
<1>5. line \in Line /\ EventOf(line) = ev[cur] BY <1>4, LineOf
<1>6. /\ printed' = Append(printed, line) /\ freed' = freed \cup {cur} /\ cur' = NULL /\ main' = "top"
  BY DEF PrintLine
<1> HIDE DEF line
<1>7. /\ printed' \in Seq(Line) /\ Len(printed') = Len(printed) + 1
      /\ \A k \in 1..Len(printed) : printed'[k] = printed[k]
      /\ printed'[Len(printed) + 1] = line
  BY <1>t, <1>5, <1>6, AppendProperties
<1>8. /\ received' = received /\ ev' = ev /\ head' = head /\ tail' = tail /\ next' = next
      /\ alive' = alive /\ born' = born /\ net' = net /\ asked' = asked /\ raised' = raised
      /\ ctx' = ctx /\ quit' = quit
  BY DEF server
<1>9. First' = First
  <2>1. First = Len(printed) + 2 BY DEF First
  <2>2. First' = Len(printed) + 1 + 1 BY <1>6, <1>7 DEF First
  <2> QED BY <1>t, <2>1, <2>2
<1>10. freed' = 1..Len(printed') BY <1>t, <1>2, <1>6, <1>7
<1>11. \A k \in 1..Len(printed') : EventOf(printed'[k]) = ev'[k]
  <2>1. \A k \in 1..Len(printed') : k \in 1..Len(printed) \/ k = Len(printed) + 1 BY <1>t, <1>7
  <2>2. ASSUME NEW k \in 1..Len(printed) PROVE EventOf(printed'[k]) = ev'[k]
    BY <1>2, <1>7, <1>8
  <2>3. EventOf(printed'[Len(printed) + 1]) = ev'[Len(printed) + 1] BY <1>2, <1>5, <1>7, <1>8
  <2> QED BY <2>1, <2>2, <2>3
<1>12. Len(printed') <= Len(ev') BY <1>2, <1>7, <1>8
<1>13. InOrder' BY <1>2, <1>6, <1>8, <1>9, <1>10, <1>11, <1>12 DEF InOrder
<1>14. TypeOK'
  <2>1. freed' \in SUBSET Node BY <1>3, <1>6 DEF Inv, TypeOK
  <2>2. Len(ev') <= Cardinality(Node) BY <1>8 DEF Inv, TypeOK
  <2> QED BY <1>6, <1>7, <1>8, <2>1, <2>2 DEF Inv, TypeOK, Point
<1>15. Replies' = Replies BY <1>8 DEF Replies
<1>16. Counted' BY <1>8, <1>15 DEF Inv, Counted
<1>17. Known' BY <1>8 DEF Inv, Known
<1>18. Connection' BY <1>2, <1>6, <1>8 DEF Inv, Connection
<1>19. Pending' BY <1>6, <1>8, <1>15 DEF Inv, Pending
<1> QED BY <1>3, <1>6, <1>8, <1>13, <1>14, <1>16, <1>17, <1>18, <1>19 DEF Inv, line

\* main asks the server about the object of its event.
LEMMA AskStep ==
  ASSUME Inv, main = "process", asked' = asked \cup {ev[cur].obj}, reply' = "none", main' = "query",
         ctx = "ready",
         UNCHANGED <<printed, freed, cur, alive, born, net, raised, ctx, head, tail, next, ev, quit, received>>
  PROVE  Inv'
<1>t. ev \in Seq(Event) /\ Len(ev) \in Nat /\ cur \in Node /\ cur # NULL /\ cur <= Len(ev)
  BY LenProperties, Cells DEF Inv, TypeOK, InOrder
<1>1. cur \in 1..Len(ev) BY <1>t, Cells
<1>2. ev[cur] \in Event BY <1>t, <1>1, ElementOfSeq
<1>3. ev[cur].obj \in Obj BY <1>2, EventFields
<1>4. InOrder' BY ListStays DEF Inv, list, hist
<1>5. TypeOK' BY <1>3 DEF Inv, TypeOK, Point
<1>6. Replies' = Replies /\ Replies = {} /\ asked = {}
  <2>1. Replies' = Replies BY DEF Replies
  <2> QED BY <2>1 DEF Inv, Pending
<1>7. Counted' BY <1>6 DEF Inv, Counted
<1>8. Known' BY DEF Inv, Known
<1>9. Connection' BY DEF Inv, Connection
<1>10. Pending' BY <1>6 DEF Pending
<1> QED BY <1>4, <1>5, <1>7, <1>8, <1>9, <1>10 DEF Inv

LEMMA ProcessEventStep == ASSUME Inv, ProcessEvent PROVE Inv'
<1>1. main = "process" /\ Replies = {} /\ asked = {} /\ reply = "none" /\ cur # NULL
  BY DEF ProcessEvent, Inv, Pending, TypeOK
<1>2. UNCHANGED <<alive, born, net, raised, ctx, head, tail, next, ev, quit, received>> BY DEF ProcessEvent
<1>3. CASE PrintLine("gone") /\ UNCHANGED <<asked, reply>>
  <2>1. UNCHANGED <<server, ctx, head, tail, next, ev, quit, received>> BY <1>2, <1>3 DEF server
  <2> QED BY <1>1, <1>3, <2>1, PrintStep
<1>4. CASE /\ asked' = asked \cup {ev[cur].obj} /\ reply' = "none" /\ main' = "query" /\ ctx = "ready"
           /\ UNCHANGED <<printed, freed, cur>>
  BY <1>1, <1>2, <1>4, AskStep
<1> QED BY <1>3, <1>4 DEF ProcessEvent

LEMMA QueryDoneStep == ASSUME Inv, QueryDone PROVE Inv'
<1>1. /\ main = "query" /\ reply # "none" /\ PrintLine(reply) /\ reply' = "none"
      /\ UNCHANGED <<server, ctx, head, tail, next, ev, quit, received>>
  BY DEF QueryDone
<1>2. Replies = {} /\ asked = {} /\ cur # NULL /\ reply \in {"live", "gone"}
  BY <1>1 DEF Inv, Pending, TypeOK
<1> QED BY <1>1, <1>2, PrintStep

\* The list is the cells after those that were printed.
LEMMA ListIsRest ==
  ASSUME Inv
  PROVE  /\ main # "done" => Chain = From(First, Len(ev))
         /\ main = "done" => Chain = From(1, 0)
         /\ First \in Nat \ {0} /\ First <= Len(ev) + 1 /\ Len(ev) \in Nat /\ Len(printed) \in Nat
<1>t. Len(ev) \in Nat /\ Len(printed) \in Nat /\ Len(ev) <= N /\ N \in Nat
  BY Cells, LenProperties DEF Inv, TypeOK, N
<1>1. /\ Len(printed) <= Len(ev) /\ (cur # NULL => cur = Len(printed) + 1 /\ cur <= Len(ev))
  BY DEF Inv, InOrder
<1>2. First \in Nat \ {0} /\ First <= Len(ev) + 1 BY <1>t, <1>1 DEF First
<1>3. CASE main # "done"
  <2>1. head = IF First <= Len(ev) THEN First ELSE NULL BY <1>3 DEF Inv, InOrder
  <2>2. \A n \in Node : next[n] = IF First <= n /\ n < Len(ev) THEN n + 1 ELSE NULL
    BY <1>3 DEF Inv, InOrder
  <2>3. PICK f : f = First OBVIOUS
  <2>4. PICK l : l = Len(ev) OBVIOUS
  <2>5. f \in Nat /\ l \in Nat /\ 1 <= f /\ f <= l + 1 /\ l <= N BY <1>t, <1>2, <2>3, <2>4
  <2>6. Chain = From(f, l) BY <2>1, <2>2, <2>3, <2>4, <2>5, ChainIs
  <2> QED BY <1>3, <1>t, <1>2, <2>3, <2>4, <2>6
<1>4. CASE main = "done"
  <2>1. head = NULL BY <1>4 DEF Inv, InOrder
  <2>2. ~(1 <= 0) /\ 1 <= 0 + 1 /\ 0 <= N BY <1>t
  <2>3. Chain = From(1, 0) BY <2>1, <2>2, ChainIs
  <2> QED BY <1>4, <1>t, <1>2, <2>3
<1> QED BY <1>3, <1>4

LEMMA ExitStep == ASSUME Inv, Exit PROVE Inv'
<1>1. /\ main = "exit" /\ main' = "done" /\ ctx' = "failed" /\ net' = <<>> /\ asked' = {}
      /\ freed' = freed \cup ToSet(Chain) /\ head' = NULL /\ tail' = NULL
      /\ UNCHANGED <<alive, born, raised, next, ev, cur, reply, quit, hist>>
  BY DEF Exit
<1>2. /\ cur = NULL /\ freed = 1..Len(printed) /\ received = ev /\ Len(printed) <= Len(ev)
      /\ \A k \in 1..Len(printed) : EventOf(printed[k]) = ev[k]
  BY <1>1 DEF Inv, InOrder
<1>3. PICK p : p = Len(printed) OBVIOUS
<1>4. PICK l : l = Len(ev) OBVIOUS
<1>5. First = p + 1 BY <1>2, <1>3 DEF First
<1>6. Chain = From(p + 1, l) /\ p \in Nat /\ l \in Nat /\ p <= l
  BY <1>1, <1>2, <1>3, <1>4, <1>5, ListIsRest
<1>7. ToSet(Chain) = p + 1..l
  <2>1. l + 1 - (p + 1) \in Nat /\ \A k \in 1..l + 1 - (p + 1) : (p + 1) + k - 1 \in p + 1..l BY <1>6
  <2>2. \A x \in p + 1..l : x - p \in 1..l + 1 - (p + 1) /\ (p + 1) + (x - p) - 1 = x BY <1>6
  <2>3. DOMAIN Chain = 1..l + 1 - (p + 1) BY <1>6 DEF From
  <2>4. \A k \in 1..l + 1 - (p + 1) : Chain[k] = (p + 1) + k - 1 BY <1>6 DEF From
  <2> QED BY <2>1, <2>2, <2>3, <2>4 DEF ToSet
<1>8. freed' = 1..l BY <1>1, <1>2, <1>3, <1>6, <1>7
<1>9. /\ received' = received /\ ev' = ev /\ printed' = printed /\ cur' = cur /\ next' = next
      /\ alive' = alive /\ born' = born /\ raised' = raised /\ quit' = quit /\ reply' = reply
  BY <1>1 DEF hist
<1>10. \A k \in 1..Len(printed') : EventOf(printed'[k]) = ev'[k] BY <1>2, <1>9 DEF EventOf
<1>11. InOrder' BY <1>1, <1>2, <1>4, <1>8, <1>9, <1>10 DEF InOrder
<1>12. <<>> \in Seq(Message) /\ Len(<<>>) = 0 /\ 1..0 = {} BY EmptySeq
<1>13. TypeOK'
  <2>1. freed' \in SUBSET Node
    <3>1. l <= N /\ N \in Nat /\ Node = 1..N BY <1>4, Cells DEF Inv, TypeOK, N
    <3> QED BY <1>6, <1>8, <3>1
  <2> QED BY <1>1, <1>2, <1>9, <1>12, <2>1 DEF Inv, TypeOK, Point
<1>14. Replies' = {} BY <1>1, <1>12 DEF Replies
<1>15. Counted'
  <2>1. Len(ev) \in Nat /\ Len(net) \in Nat /\ raised \in Nat
    BY Cells, LenProperties DEF Inv, TypeOK, N
  <2>2. Replies = {} BY <1>1 DEF Inv, Pending
  <2>3. Len(ev) + Len(net) <= raised + 0 BY <2>2 DEF Inv, Counted
  <2>4. Len(ev) + 0 <= raised + 0 BY <2>1, <2>3
  <2> QED BY <1>1, <1>9, <1>12, <1>14, <2>4 DEF Counted
<1>16. Known' BY <1>1, <1>9, <1>12 DEF Inv, Known
<1>17. Connection' BY <1>1 DEF Connection
<1>18. Pending'
  <2>1. reply = "none" BY <1>1 DEF Inv, Pending
  <2> QED BY <1>1, <1>9, <1>14, <2>1 DEF Pending
<1> QED BY <1>11, <1>13, <1>15, <1>16, <1>17, <1>18 DEF Inv

LEMMA InvStep == ASSUME Inv, [Next]_vars PROVE Inv'
BY QuietSteps, NetSteps, ServerEventStep, ServerAnswersStep, SubCbStep, QueryCbStep, PopStep,
   ProcessEventStep, QueryDoneStep, ExitStep DEF Next, Main, Callback, World

-----------------------------------------------------------------------------
(* The theorems.                                                            *)

\* A function on 1 .. n is a sequence of length n.
LEMMA SeqOn ==
  ASSUME NEW S, NEW n \in Nat, NEW q \in [1..n -> S]
  PROVE  q \in Seq(S) /\ Len(q) = n
<1>1. q \in Seq(S) BY SeqDef
<1>2. DOMAIN q = 1..n OBVIOUS
<1> QED BY <1>1, <1>2, LenProperties

\* No event that sub_cb was given is lost, printed twice or overtaken, however
\* the two threads and the signal take turns.
THEOREM NothingIsLost == Spec => []NothingLost
<1>1. Init => Inv BY InitInv
<1>2. Inv /\ [Next]_vars => Inv' BY InvStep
<1>3. Inv => NothingLost
  <2> SUFFICES ASSUME Inv, main # "done"
               PROVE  received = [k \in DOMAIN printed |-> EventOf(printed[k])] \o Events(Current) \o Events(Chain)
    BY DEF NothingLost
  <2> DEFINE A == [k \in DOMAIN printed |-> EventOf(printed[k])]
             B == Events(Current)
             C == Events(Chain)
  <2>t. ev \in Seq(Event) /\ received = ev BY DEF Inv, TypeOK, InOrder
  <2>1. PICK p : p = Len(printed) OBVIOUS
  <2>2. PICK l : l = Len(ev) OBVIOUS
  <2>3. PICK f : f = First OBVIOUS
  <2>4. /\ p \in Nat /\ l \in Nat /\ f \in Nat \ {0} /\ f <= l + 1 /\ Chain = From(f, l)
    BY <2>1, <2>2, <2>3, ListIsRest
  <2>5. \A k \in 1..l : ev[k] \in Event BY <2>t, <2>2, ElementOfSeq
  <2>6. p <= l /\ \A k \in 1..p : EventOf(printed[k]) = ev[k]
    BY <2>1, <2>2 DEF Inv, InOrder
  <2>7. A \in Seq(Event) /\ Len(A) = p /\ \A k \in 1..p : A[k] = ev[k]
    <3>1. DOMAIN printed = 1..p BY <2>1, LenProperties DEF Inv, TypeOK
    <3>2. \A k \in 1..p : A[k] = ev[k] /\ ev[k] \in Event BY <2>4, <2>5, <2>6, <3>1
    <3>3. A \in [1..p -> Event] BY <3>1, <3>2
    <3> HIDE DEF A
    <3> QED BY <2>4, <3>2, <3>3, SeqOn
  <2>8. C \in Seq(Event) /\ Len(C) = l + 1 - f /\ \A k \in 1..l + 1 - f : C[k] = ev[f + k - 1]
    <3>1. DOMAIN Chain = 1..l + 1 - f /\ \A k \in 1..l + 1 - f : Chain[k] = f + k - 1
      BY <2>4 DEF From
    <3>2. \A k \in 1..l + 1 - f : C[k] = ev[f + k - 1] BY <3>1 DEF Events
    <3>3. l + 1 - f \in Nat /\ \A k \in 1..l + 1 - f : f + k - 1 \in 1..l BY <2>4
    <3>4. DOMAIN C = 1..l + 1 - f BY <3>1 DEF Events
    <3>5. C \in [1..l + 1 - f -> Event] BY <2>5, <3>2, <3>3, <3>4, <3>1 DEF Events
    <3> HIDE DEF C
    <3> QED BY <3>2, <3>3, <3>5, SeqOn
  <2>9. /\ B \in Seq(Event) /\ Len(B) \in {0, 1} /\ f = p + Len(B) + 1
        /\ Len(B) = 1 => B[1] = ev[p + 1]
    <3>1. CASE cur = NULL
      <4>1. B = <<>> BY <3>1 DEF Events, Current
      <4>2. B \in Seq(Event) /\ Len(B) = 0 BY <4>1, EmptySeq
      <4>3. f = p + 1 BY <2>1, <2>3, <3>1 DEF First
      <4> QED BY <2>4, <4>2, <4>3
    <3>2. CASE cur # NULL
      <4>1. cur = p + 1 /\ cur <= l BY <2>1, <2>2, <3>2 DEF Inv, InOrder
      <4>2. B = [k \in 1..1 |-> ev[<<cur>>[k]]] BY <3>2 DEF Events, Current
      <4>3. B[1] = ev[cur] BY <4>2
      <4>4. ev[cur] \in Event BY <2>4, <2>5, <4>1
      <4>5. B \in [1..1 -> Event] BY <4>2, <4>4
      <4>6. f = p + 2 BY <2>1, <2>3, <3>2 DEF First
      <4>7. B \in Seq(Event) /\ Len(B) = 1 BY <4>5, SeqOn
      <4> QED BY <2>4, <4>1, <4>3, <4>6, <4>7
    <3> QED BY <3>1, <3>2
  <2> HIDE DEF A, B, C
  <2>10. PICK ab : ab = A \o B OBVIOUS
  <2>11. PICK abc : abc = ab \o C OBVIOUS
  <2>12. /\ ab \in Seq(Event) /\ Len(ab) = Len(A) + Len(B)
         /\ \A k \in 1..Len(A) + Len(B) : ab[k] = IF k <= Len(A) THEN A[k] ELSE B[k - Len(A)]
    BY <2>7, <2>9, <2>10, ConcatProperties
  <2>13. /\ abc \in Seq(Event) /\ Len(abc) = Len(ab) + Len(C)
         /\ \A k \in 1..Len(ab) + Len(C) : abc[k] = IF k <= Len(ab) THEN ab[k] ELSE C[k - Len(ab)]
    BY <2>8, <2>11, <2>12, ConcatProperties
  <2>14. PICK b : b = Len(B) OBVIOUS
  <2>15. b \in {0, 1} /\ f = p + b + 1 /\ (b = 1 => B[1] = ev[p + 1]) BY <2>9, <2>14
  <2>16. Len(ab) = p + b /\ Len(abc) = l /\ Len(ab) = f - 1
    BY <2>4, <2>7, <2>8, <2>12, <2>13, <2>14, <2>15
  <2>17. \A k \in 1..f - 1 : ab[k] = ev[k]
    <3>1. SUFFICES ASSUME NEW k \in 1..f - 1 PROVE ab[k] = ev[k] OBVIOUS
    <3>2. k \in 1..p + b BY <2>4, <2>15
    <3>3. ab[k] = IF k <= p THEN A[k] ELSE B[k - p] BY <2>7, <2>12, <2>14, <3>2
    <3>4. CASE k <= p
      <4>1. k \in 1..p BY <2>4, <3>2, <3>4
      <4> QED BY <2>7, <3>3, <3>4, <4>1
    <3>5. CASE ~(k <= p)
      <4>1. k = p + 1 /\ b = 1 /\ k - p = 1 BY <2>4, <2>15, <3>2, <3>5
      <4> QED BY <2>15, <3>3, <3>5, <4>1
    <3> QED BY <3>4, <3>5
  <2>18. \A k \in 1..l : abc[k] = ev[k]
    <3>1. SUFFICES ASSUME NEW k \in 1..l PROVE abc[k] = ev[k] OBVIOUS
    <3>2. abc[k] = IF k <= f - 1 THEN ab[k] ELSE C[k - (f - 1)]
      <4>1. k \in 1..Len(ab) + Len(C) BY <2>13, <2>16
      <4> QED BY <2>13, <2>16, <4>1
    <3>3. CASE k <= f - 1
      <4>1. k \in 1..f - 1 BY <2>4, <3>3
      <4> QED BY <2>17, <3>2, <3>3, <4>1
    <3>4. CASE ~(k <= f - 1)
      <4>1. k - (f - 1) \in 1..l + 1 - f /\ f + (k - (f - 1)) - 1 = k BY <2>4, <3>4
      <4> QED BY <2>8, <3>2, <3>4, <4>1
    <3> QED BY <3>3, <3>4
  <2>19. ev = abc BY <2>t, <2>2, <2>13, <2>16, <2>18, SeqEqual
  <2> QED BY <2>t, <2>10, <2>11, <2>19 DEF A, B, C
<1> QED BY <1>1, <1>2, <1>3, PTL DEF Spec

\* Every cell that was allocated is on the list, with main, or freed, in one of
\* the three only; ev_tail is the end of the list; and when main returns there
\* is nothing left to free.
THEOREM CellsAreOwned == Spec => []CellsOwned
<1>1. Init => Inv BY InitInv
<1>2. Inv /\ [Next]_vars => Inv' BY InvStep
<1>3. Inv => CellsOwned
  <2> SUFFICES ASSUME Inv PROVE CellsOwned OBVIOUS
  <2>c. N \in Nat /\ Node = 1..N /\ 0 \notin Node /\ NULL = 0 BY Cells DEF NULL
  <2>1. PICK p : p = Len(printed) OBVIOUS
  <2>2. PICK l : l = Len(ev) OBVIOUS
  <2>3. PICK f : f = First OBVIOUS
  <2>4. /\ p \in Nat /\ l \in Nat /\ f \in Nat \ {0} /\ f <= l + 1
        /\ main # "done" => Chain = From(f, l)
        /\ main = "done" => Chain = From(1, 0)
    BY <2>1, <2>2, <2>3, ListIsRest
  <2>5. ASSUME NEW a \in Nat, NEW b \in Nat, a # 0
        PROVE  /\ ToSet(From(a, b)) = a..b
               /\ a <= b => Last(From(a, b)) = b
    <3>1. \A k \in 1..b + 1 - a : a + k - 1 \in a..b OBVIOUS
    <3>2. \A x \in a..b : x + 1 - a \in 1..b + 1 - a /\ a + (x + 1 - a) - 1 = x OBVIOUS
    <3>3. DOMAIN From(a, b) = 1..b + 1 - a BY DEF From
    <3>4. \A k \in 1..b + 1 - a : From(a, b)[k] = a + k - 1 BY DEF From
    <3>5. ToSet(From(a, b)) = a..b BY <3>1, <3>2, <3>3, <3>4 DEF ToSet
    <3>6. ASSUME a <= b PROVE Last(From(a, b)) = b
      <4>1. b + 1 - a \in Nat /\ b + 1 - a \in 1..b + 1 - a /\ a + (b + 1 - a) - 1 = b BY <3>6
      <4>2. From(a, b) \in [1..b + 1 - a -> a..b] BY <3>1 DEF From
      <4>3. Len(From(a, b)) = b + 1 - a BY <4>1, <4>2, SeqOn
      <4> QED BY <3>4, <4>1, <4>3 DEF Last
    <3> QED BY <3>5, <3>6
  <2>6. CASE main = "done"
    <3>1. /\ head = NULL /\ tail = NULL /\ freed = 1..l /\ cur = NULL
      BY <2>2, <2>6 DEF Inv, InOrder
    <3>2. ToSet(Chain) = 1..0 BY <2>4, <2>5, <2>6
    <3>3. ToSet(Chain) = {} BY <3>2
    <3>4. cur \notin 1..l BY <2>c, <3>1
    <3> QED BY <2>2, <3>1, <3>3, <3>4 DEF CellsOwned
  <2>7. CASE main # "done"
    <3>1. /\ freed = 1..p
          /\ head = IF f <= l THEN f ELSE NULL
          /\ tail = IF f <= l THEN l ELSE NULL
          /\ cur # NULL => cur = p + 1 /\ cur <= l
      BY <2>1, <2>2, <2>3, <2>7 DEF Inv, InOrder
    <3>2. f = p + (IF cur = NULL THEN 1 ELSE 2) BY <2>1, <2>3 DEF First
    <3>3. ToSet(Chain) = f..l /\ (f <= l => Last(Chain) = l) BY <2>4, <2>5, <2>7
    <3>4. (head = NULL) = (tail = NULL)
      <4>1. f <= l => f # 0 /\ l # 0 BY <2>4
      <4> QED BY <2>c, <3>1, <4>1
    <3>5. head # NULL => Last(Chain) = tail BY <3>1, <3>3
    <3>6. CASE cur = NULL
      <4>1. f = p + 1 BY <3>2, <3>6
      <4>2. 1..l \subseteq (f..l) \cup (1..p) /\ (f..l) \cap (1..p) = {} /\ 0 \notin (f..l) \cup (1..p)
        BY <2>4, <4>1
      <4> QED BY <2>c, <2>2, <2>7, <3>1, <3>3, <3>4, <3>5, <3>6, <4>2 DEF CellsOwned
    <3>7. CASE cur # NULL
      <4>1. f = p + 2 /\ cur = p + 1 BY <3>1, <3>2, <3>7
      <4>2. /\ 1..l \subseteq (f..l) \cup {p + 1} \cup (1..p) /\ (f..l) \cap (1..p) = {}
            /\ p + 1 \notin (f..l) \cup (1..p)
        BY <2>4, <4>1
      <4> QED BY <2>2, <2>7, <3>1, <3>3, <3>4, <3>5, <4>1, <4>2 DEF CellsOwned
    <3> QED BY <3>6, <3>7
  <2> QED BY <2>6, <2>7
<1> QED BY <1>1, <1>2, <1>3, PTL DEF Spec

\* An object that is gone stays gone, so a line that says so goes on to be true.
Deleted ==
  \A k \in 1..Len(printed) :
    printed[k].detail = "gone" /\ printed[k].type # "remove" =>
      printed[k].obj \in born \ alive \/ ctx = "failed"

LEMMA DeletedStays ==
  ASSUME Inv, Deleted, born \subseteq born', alive' \cap born \subseteq alive,
         ctx = "failed" => ctx' = "failed",
         \/ printed' = printed
         \/ \E line \in Line : /\ printed' = Append(printed, line)
                               /\ line.detail = "gone" /\ line.type # "remove" =>
                                    line.obj \in born' \ alive' \/ ctx' = "failed"
  PROVE  Deleted'
<1>1. \A k \in 1..Len(printed) :
        printed[k].detail = "gone" /\ printed[k].type # "remove" =>
          printed[k].obj \in born' \ alive' \/ ctx' = "failed"
  BY DEF Deleted
<1>2. CASE printed' = printed BY <1>1, <1>2 DEF Deleted
<1>3. ASSUME NEW line \in Line, printed' = Append(printed, line),
             line.detail = "gone" /\ line.type # "remove" => line.obj \in born' \ alive' \/ ctx' = "failed"
      PROVE  Deleted'
  <2>1. /\ Len(printed) \in Nat /\ Len(printed') = Len(printed) + 1
        /\ \A k \in 1..Len(printed) : printed'[k] = printed[k]
        /\ printed'[Len(printed) + 1] = line
    BY <1>3, AppendProperties, LenProperties DEF Inv, TypeOK
  <2>2. \A k \in 1..Len(printed') : k \in 1..Len(printed) \/ k = Len(printed) + 1 BY <2>1
  <2> QED BY <1>1, <1>3, <2>1, <2>2 DEF Deleted
<1> QED BY <1>2, <1>3

LEMMA DeletedStep == ASSUME Inv, Deleted, [Next]_vars PROVE Deleted'
<1>0. ctx = "failed" \/ ctx = "ready" \/ (ctx = "connecting" /\ main = "connect")
  BY DEF Inv, TypeOK, Connection
<1>1. CASE ServerEvent
  <2>1. /\ born \subseteq born' /\ alive' \cap born \subseteq alive
    BY <1>1 DEF ServerEvent, ServerNew, ServerChange, ServerRemove
  <2>2. ctx' = ctx /\ printed' = printed BY <1>1 DEF ServerEvent, hist
  <2> QED BY <2>1, <2>2, DeletedStays
<1>2. CASE ServerAnswers \/ ContextReady \/ ContextFails \/ SubCb \/ QueryCb \/ UNCHANGED vars
  <2>1. /\ born' = born /\ alive' = alive /\ printed' = printed /\ (ctx = "failed" => ctx' = "failed")
    BY <1>2 DEF ServerAnswers, ContextReady, ContextFails, SubCb, QueryCb, vars, server, hist
  <2> QED BY <2>1, DeletedStays
<1>3. CASE Connected \/ Subscribe \/ Acknowledged \/ Top \/ Check \/ CondWait \/ Pop \/ Exit \/ Sigint
  <2>1. /\ born' = born /\ alive' = alive /\ printed' = printed /\ (ctx = "failed" => ctx' = "failed")
    BY <1>3 DEF Connected, Subscribe, Acknowledged, Top, Check, CondWait, Pop, Exit, Sigint, server, hist
  <2> QED BY <2>1, DeletedStays
<1>4. ASSUME NEW detail \in {"live", "gone"}, PrintLine(detail), cur \in 1..Len(ev),
             alive' = alive, born' = born, ctx' = ctx,
             detail = "gone" => ev[cur].type = "remove" \/ ev[cur].obj \notin alive \/ ctx = "failed"
      PROVE  Deleted'
  <2>1. ev[cur] \in Event /\ ev[cur].obj \in born BY <1>4, ElementOfSeq DEF Inv, TypeOK, Known
  <2> DEFINE line == [type |-> ev[cur].type, obj |-> ev[cur].obj, detail |-> detail]
  <2>2. line \in Line /\ printed' = Append(printed, line) BY <1>4, <2>1, LineOf DEF PrintLine
  <2>3. line.detail = "gone" /\ line.type # "remove" => line.obj \in born' \ alive' \/ ctx' = "failed"
    BY <1>4, <2>1
  <2> HIDE DEF line
  <2> QED BY <1>4, <2>2, <2>3, DeletedStays
<1>c. main \in {"process", "query"} => cur \in 1..Len(ev)
  <2>1. Len(ev) \in Nat /\ Node = 1..N /\ N \in Nat BY Cells, LenProperties DEF Inv, TypeOK
  <2>2. main \in {"process", "query"} => cur \in Node /\ cur <= Len(ev) BY DEF Inv, TypeOK, InOrder
  <2> QED BY <2>1, <2>2
<1>5. CASE ProcessEvent
  <2>1. main = "process" /\ alive' = alive /\ born' = born /\ ctx' = ctx BY <1>5 DEF ProcessEvent
  <2>2. CASE PrintLine("gone") /\ (ev[cur].type = "remove" \/ ctx # "ready")
    <3>1. ev[cur].type = "remove" \/ ctx = "failed" BY <1>0, <2>1, <2>2
    <3> QED BY <1>c, <1>4, <2>1, <2>2, <3>1
  <2>3. CASE printed' = printed BY <2>1, <2>3, DeletedStays
  <2> QED BY <1>5, <2>2, <2>3 DEF ProcessEvent
<1>6. CASE QueryDone
  <2>1. main = "query" /\ alive' = alive /\ born' = born /\ ctx' = ctx /\ PrintLine(reply)
    BY <1>6 DEF QueryDone, server
  <2>2. reply \in {"live", "gone"} /\ (reply = "gone" => ev[cur].obj \notin alive)
    BY <1>6 DEF QueryDone, Inv, TypeOK, Pending
  <2> QED BY <1>c, <1>4, <2>1, <2>2
<1> QED BY <1>1, <1>2, <1>3, <1>5, <1>6 DEF Next, Main, Callback, World

\* What pulse-monitor says is deleted is not there, or the connection is lost.
THEOREM DeletedIsSo == Spec => []DeletedIsTrue
<1>1. Init => Inv /\ Deleted
  <2>1. Len(<<>>) = 0 /\ 1..0 = {} BY EmptySeq
  <2>2. Init => Deleted BY <2>1 DEF Init, Deleted
  <2> QED BY <2>2, InitInv
<1>2. Inv /\ Deleted /\ [Next]_vars => Inv' /\ Deleted' BY InvStep, DeletedStep
<1>3. Inv /\ Deleted => DeletedIsTrue
  <2>1. Inv => DOMAIN printed = 1..Len(printed) BY LenProperties DEF Inv, TypeOK
  <2> QED BY <2>1 DEF Deleted, DeletedIsTrue
<1> QED BY <1>1, <1>2, <1>3, PTL DEF Spec
=============================================================================
