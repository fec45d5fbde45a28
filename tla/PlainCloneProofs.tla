-------------------------- MODULE PlainCloneProofs --------------------------
(***************************************************************************)
(* What a run of git-plain-clone leaves in the directory, and that a       *)
(* complete pack is taken, for all repositories, packs and orders of       *)
(* deltas.                                                                 *)
(***************************************************************************)
EXTENDS PlainClone, SequenceTheorems, FiniteSetTheorems, WellFoundedInduction, TLAPS

-----------------------------------------------------------------------------
(* Trees in trees, and tags of tags                                        *)

LEMMA BelowIs ==
  ASSUME NEW t \in Trees
  PROVE  t \in Below(t) /\ Below(t) \subseteq Trees /\ \A u \in Below(t) : Subtrees(u) \cap Trees \subseteq Below(t)
<1>1. t \in Below(t) BY DEF Below
<1>2. Below(t) \subseteq Trees BY DEF Below
<1>3. ASSUME NEW u \in Below(t), NEW v \in Subtrees(u) \cap Trees PROVE v \in Below(t)
  <2>1. ASSUME NEW S \in SUBSET Trees, {t} \cap Trees \subseteq S, \A w \in S : Subtrees(w) \cap Trees \subseteq S
        PROVE  v \in S
    <3>1. u \in S BY <2>1 DEF Below
    <3> QED BY <1>3, <2>1, <3>1
  <2> QED BY <1>3, <2>1 DEF Below
<1> QED BY <1>1, <1>2, <1>3

\* The least set that has what its tags name, from o on
LEMMA PeelsIs ==
  ASSUME NEW o
  PROVE  /\ Peels(o) \subseteq Headed /\ {o} \cap Headed \subseteq Peels(o)
         /\ \A q \in Peels(o) : q.type = "tag" => {Header[q.body]} \cap Headed \subseteq Peels(o)
         /\ \A S \in SUBSET Headed :
              {o} \cap Headed \subseteq S /\ (\A q \in S : q.type = "tag" => {Header[q.body]} \cap Headed \subseteq S)
              => Peels(o) \subseteq S
<1>1. Peels(o) \subseteq Headed /\ {o} \cap Headed \subseteq Peels(o) BY DEF Peels
<1>2. ASSUME NEW S \in SUBSET Headed, {o} \cap Headed \subseteq S,
             \A q \in S : q.type = "tag" => {Header[q.body]} \cap Headed \subseteq S
      PROVE  Peels(o) \subseteq S
  BY <1>2 DEF Peels
<1>3. ASSUME NEW q \in Peels(o), q.type = "tag", NEW h \in {Header[q.body]} \cap Headed PROVE h \in Peels(o)
  <2>1. ASSUME NEW S \in SUBSET Headed, {o} \cap Headed \subseteq S,
               \A r \in S : r.type = "tag" => {Header[r.body]} \cap Headed \subseteq S
        PROVE  h \in S
    <3>1. q \in S BY <1>2, <2>1
    <3> QED BY <1>3, <2>1, <3>1
  <2> QED BY <1>3, <2>1 DEF Peels
<1> QED BY <1>1, <1>2, <1>3

LEMMA PeelsEnd ==
  ASSUME NEW o
  PROVE  /\ o \notin Headed => Peels(o) = {}
         /\ o \in Headed /\ o.type = "commit" => Peels(o) = {o} /\ Commits(o) = {o}
<1>1. ASSUME o \notin Headed PROVE Peels(o) = {}
  <2>1. Peels(o) \subseteq {} BY <1>1, PeelsIs
  <2> QED BY <2>1
<1>2. ASSUME o \in Headed, o.type = "commit" PROVE Peels(o) = {o}
  <2>1. Peels(o) \subseteq {o}
    <3>1. \A q \in {o} : q.type = "tag" => {Header[q.body]} \cap Headed \subseteq {o} BY <1>2
    <3>2. {o} \in SUBSET Headed BY <1>2
    <3> QED BY <3>1, <3>2, PeelsIs
  <2> QED BY <1>2, <2>1, PeelsIs
<1> QED BY <1>1, <1>2 DEF Commits

LEMMA PeelsNext ==
  ASSUME NEW o \in Headed, o.type = "tag"
  PROVE  Peels(o) = {o} \cup Peels(Header[o.body])
<1> DEFINE h == Header[o.body]
<1>1. o \in Peels(o) BY PeelsIs
<1>2. {h} \cap Headed \subseteq Peels(o) BY <1>1, PeelsIs
<1>3. Peels(h) \subseteq Peels(o)
  <2>1. Peels(o) \in SUBSET Headed BY PeelsIs
  <2>2. \A q \in Peels(o) : q.type = "tag" => {Header[q.body]} \cap Headed \subseteq Peels(o) BY PeelsIs
  <2> HIDE DEF h
  <2> QED BY <1>2, <2>1, <2>2, PeelsIs
<1>4. Peels(o) \subseteq {o} \cup Peels(h)
  <2> DEFINE S == {o} \cup Peels(h)
  <2>1. S \in SUBSET Headed /\ {o} \cap Headed \subseteq S BY PeelsIs
  <2>2. \A q \in S : q.type = "tag" => {Header[q.body]} \cap Headed \subseteq S
    <3> SUFFICES ASSUME NEW q \in S, q.type = "tag" PROVE {Header[q.body]} \cap Headed \subseteq S OBVIOUS
    <3>1. CASE q = o
      <4>1. {h} \cap Headed \subseteq Peels(h)
        <5> HIDE DEF h
        <5> QED BY PeelsIs
      <4> QED BY <3>1, <4>1
    <3>2. CASE q \in Peels(h)
      <4>1. {Header[q.body]} \cap Headed \subseteq Peels(h)
        <5> HIDE DEF h
        <5> QED BY <3>2, PeelsIs
      <4> QED BY <4>1
    <3> QED BY <3>1, <3>2
  <2> HIDE DEF S
  <2>3. Peels(o) \subseteq S BY <2>1, <2>2, PeelsIs
  <2> QED BY <2>3 DEF S
<1> QED BY <1>1, <1>3, <1>4

LEMMA PeelsTag ==
  ASSUME NEW o \in Headed, o.type = "tag"
  PROVE  /\ Peels(o) = {o} \cup Peels(Header[o.body]) /\ o \notin Peels(Header[o.body])
         /\ Commits(o) = Commits(Header[o.body])
<1>1. Peels(o) = {o} \cup Peels(Header[o.body]) BY PeelsNext
<1>2. o \notin Peels(Header[o.body])
  <2> SUFFICES ASSUME o \in Peels(Header[o.body]) PROVE FALSE OBVIOUS
  <2> DEFINE S == {x \in Headed : o \in Peels(x) /\ x.type = "tag"}
  <2>1. S \in SUBSET Headed /\ o \in S BY <1>1
  <2>2. PICK x \in S : Header[x.body] \notin S
    <3> HIDE DEF S
    <3> QED BY <2>1, HashAssumption
  <2>3. x \in Headed /\ x.type = "tag" /\ o \in Peels(x) BY <2>2
  <2>4. PICK y : y = Header[x.body] OBVIOUS
  <2>5. o \in Peels(y)
    <3>1. Peels(x) = {x} \cup Peels(y) BY <2>3, <2>4, PeelsNext
    <3> QED BY <2>3, <2>4, <3>1
  <2>6. y \in Headed BY <2>5, PeelsEnd
  <2>7. y.type = "tag"
    <3>1. y.type = "commit" => Peels(y) = {y} BY <2>6, PeelsEnd
    <3>2. y.type \in {"commit", "tag"} BY <2>6 DEF Headed
    <3> QED BY <2>5, <3>1, <3>2
  <2> QED BY <2>2, <2>4, <2>5, <2>6, <2>7
<1> QED BY <1>1, <1>2 DEF Commits

\* There are as many objects on the way as there are tags, and one.
LEMMA PeelsFinite ==
  ASSUME NEW o
  PROVE  IsFiniteSet(Peels(o)) /\ Cardinality(Peels(o)) \in Nat
<1>1. IsFiniteSet(Peels(o))
  <2>1. CASE o \in Headed
    <3> DEFINE Bad == {x \in Headed : ~IsFiniteSet(Peels(x))}
    <3>1. ASSUME Bad # {} PROVE FALSE
      <4>1. PICK x \in Bad : Header[x.body] \notin Bad
        <5>1. Bad \in SUBSET Headed OBVIOUS
        <5> HIDE DEF Bad
        <5> QED BY <3>1, <5>1, HashAssumption
      <4>2. x \in Headed /\ ~IsFiniteSet(Peels(x)) BY <4>1
      <4>3. x.type = "tag"
        <5>1. x.type = "commit" => Peels(x) = {x} BY <4>2, PeelsEnd
        <5>2. x.type \in {"commit", "tag"} BY <4>2 DEF Headed
        <5>3. IsFiniteSet({x}) BY FS_Singleton
        <5> QED BY <4>2, <5>1, <5>2, <5>3
      <4>4. PICK y : y = Header[x.body] OBVIOUS
      <4>5. IsFiniteSet(Peels(y))
        <5>1. y \notin Headed => Peels(y) = {} BY PeelsEnd
        <5> QED BY <4>1, <4>4, <5>1, FS_EmptySet
      <4>6. Peels(x) = Peels(y) \cup {x} BY <4>2, <4>3, <4>4, PeelsNext
      <4> QED BY <4>2, <4>5, <4>6, FS_AddElement
    <3> QED BY <2>1, <3>1
  <2>2. CASE o \notin Headed BY <2>2, PeelsEnd, FS_EmptySet
  <2> QED BY <2>1, <2>2
<1> QED BY <1>1, FS_CardinalityType

LEMMA PeelsCount ==
  ASSUME NEW o \in Headed, o.type = "tag"
  PROVE  Cardinality(Peels(o)) = Cardinality(Peels(Header[o.body])) + 1
<1>1. PICK P : P = Peels(Header[o.body]) OBVIOUS
<1>2. IsFiniteSet(P) /\ o \notin P /\ Peels(o) = P \cup {o} BY <1>1, PeelsFinite, PeelsTag
<1> QED BY <1>1, <1>2, FS_AddElement

\* From an object that leads to a commit
LEMMA PeelsLead ==
  ASSUME NEW o, Commits(o) # {}
  PROVE  /\ o \in Headed /\ o \in Peels(o) /\ Cardinality(Peels(o)) \in Nat \ {0}
         /\ o.type \in {"commit", "tag"}
         /\ o.type = "commit" => TreeOf(o) = Header[o.body]
<1>1. o \in Headed BY PeelsEnd DEF Commits
<1>2. o \in Peels(o) BY <1>1, PeelsIs
<1>3. IsFiniteSet(Peels(o)) /\ Cardinality(Peels(o)) \in Nat BY PeelsFinite
<1>4. Cardinality(Peels(o)) # 0
  <2>1. Cardinality(Peels(o)) = 0 <=> Peels(o) = {} BY <1>3, FS_EmptySet
  <2> QED BY <1>2, <2>1
<1>5. o.type \in {"commit", "tag"} BY <1>1 DEF Headed
<1>6. ASSUME o.type = "commit" PROVE TreeOf(o) = Header[o.body]
  <2>1. Commits(o) = {o} BY <1>1, <1>6, PeelsEnd
  <2>2. (CHOOSE c \in {o} : TRUE) = o OBVIOUS
  <2> QED BY <2>1, <2>2 DEF TreeOf
<1> QED BY <1>1, <1>2, <1>3, <1>4, <1>5, <1>6

-----------------------------------------------------------------------------
(* The ref asked for                                                       *)

\* A kind of ref and its name are those of one ref.
LEMMA OneRef ==
  ASSUME NEW refs \in Adverts, NEW kind, NEW i \in DOMAIN refs,
         refs[i].kind = kind, kind = "head" \/ refs[i].name = wanted
  PROVE  RefOf(refs, kind) = {refs[i]}
<1>1. ASSUME NEW j \in DOMAIN refs, refs[j].kind = kind, kind = "head" \/ refs[j].name = wanted
      PROVE  j = i
  BY <1>1, CloneAssumption
<1> QED BY <1>1 DEF RefOf

LEMMA SelectedIsChosen ==
  ASSUME NEW refs \in Adverts, SelectedRef(refs).match # 0
  PROVE  SelectedRef(refs).oid = ChosenOf(refs)
<1> DEFINE best == {i \in DOMAIN refs : /\ Match(refs[i]) > 0
                                        /\ \A j \in DOMAIN refs : Match(refs[j]) <= Match(refs[i])
                                        /\ \A j \in 1 .. i - 1 : Match(refs[j]) < Match(refs[i])}
<1>1. best # {} BY DEF SelectedRef
<1>2. PICK i : i = CHOOSE j \in best : TRUE OBVIOUS
<1>3. i \in best BY <1>1, <1>2
<1>4. SelectedRef(refs).oid = refs[i].oid
  <2>1. SelectedRef(refs) = [match |-> Match(refs[i]), oid |-> refs[i].oid] BY <1>1, <1>2 DEF SelectedRef
  <2> QED BY <2>1
<1>5. i \in DOMAIN refs /\ Match(refs[i]) > 0 /\ \A j \in DOMAIN refs : Match(refs[j]) <= Match(refs[i])
  BY <1>3
<1> HIDE DEF best
<1>6. \A j \in DOMAIN refs : Match(refs[j]) \in 0 .. 3 BY DEF Match
<1>7. PICK r : r = refs[i] OBVIOUS
<1>8. (CHOOSE ref \in {r} : TRUE) = r OBVIOUS
<1>9. CASE wanted = "HEAD"
  <2>1. r.kind = "head" BY <1>5, <1>7, <1>9 DEF Match
  <2>2. RefOf(refs, "head") = {r} BY <1>5, <1>7, <2>1, OneRef
  <2> QED BY <1>4, <1>7, <1>8, <1>9, <2>2 DEF ChosenOf
<1>10. CASE wanted # "HEAD" /\ r.kind = "branch"
  <2>1. r.name = wanted BY <1>5, <1>7, <1>10 DEF Match
  <2>2. RefOf(refs, "branch") = {r} BY <1>5, <1>7, <1>10, <2>1, OneRef
  <2> QED BY <1>4, <1>7, <1>8, <1>10, <2>2 DEF ChosenOf
<1>11. CASE wanted # "HEAD" /\ r.kind # "branch"
  <2>1. r.name = wanted /\ r.kind = "tag" /\ Match(r) = 2 BY <1>5, <1>7, <1>11 DEF Match
  <2>2. RefOf(refs, "tag") = {r} BY <1>5, <1>7, <2>1, OneRef
  <2>3. RefOf(refs, "branch") = {}
    <3> SUFFICES ASSUME NEW j \in DOMAIN refs, refs[j].kind = "branch", refs[j].name = wanted PROVE FALSE
      BY DEF RefOf
    <3>1. Match(refs[j]) = 3 BY <1>11 DEF Match
    <3> QED BY <1>5, <1>7, <2>1, <3>1
  <2> QED BY <1>4, <1>7, <1>8, <1>11, <2>2, <2>3 DEF ChosenOf
<1> QED BY <1>9, <1>10, <1>11

-----------------------------------------------------------------------------
(* The recursion that Files is has a solution: no tree contains itself     *)

Inside(e, f)  == IF e.oid \in Trees THEN f[e.oid] ELSE {}
Listing(f, t) == UNION {FilesOf(Entries[t.body][i], Inside(Entries[t.body][i], f)) : i \in DOMAIN Entries[t.body]}

LEMMA ListingSame ==
  ASSUME NEW t \in Trees, NEW f, NEW g, \A u \in Subtrees(t) \cap Trees : f[u] = g[u]
  PROVE  Listing(f, t) = Listing(g, t)
<1>1. ASSUME NEW i \in DOMAIN Entries[t.body]
      PROVE  FilesOf(Entries[t.body][i], Inside(Entries[t.body][i], f))
             = FilesOf(Entries[t.body][i], Inside(Entries[t.body][i], g))
  <2>1. CASE Entries[t.body][i].mode # "dir" BY <2>1 DEF FilesOf
  <2>2. CASE Entries[t.body][i].mode = "dir"
    <3>1. Entries[t.body][i].oid \in Subtrees(t) BY <2>2 DEF Subtrees
    <3>2. Inside(Entries[t.body][i], f) = Inside(Entries[t.body][i], g) BY <3>1 DEF Inside
    <3> QED BY <3>2
  <2> QED BY <2>1, <2>2
<1> QED BY <1>1 DEF Listing

\* f solves it for the trees of D.
Solves(f, D) ==
  /\ D \in SUBSET Trees /\ \A t \in D : Subtrees(t) \cap Trees \subseteq D
  /\ \A t \in D : f[t] = Listing(f, t)

LEMMA SolutionsAgree ==
  ASSUME NEW f, NEW D, NEW g, NEW E, Solves(f, D), Solves(g, E)
  PROVE  \A t \in D \cap E : f[t] = g[t]
<1> DEFINE Bad == {t \in D \cap E : f[t] # g[t]}
<1>1. ASSUME Bad # {} PROVE FALSE
  <2>1. Bad \in SUBSET Trees BY DEF Solves
  <2>2. PICK t \in Bad : Subtrees(t) \cap Bad = {}
    <3> HIDE DEF Bad
    <3> QED BY <1>1, <2>1, HashAssumption
  <2>3. t \in D /\ t \in E /\ f[t] # g[t] /\ t \in Trees BY <2>1, <2>2
  <2>4. \A u \in Subtrees(t) \cap Trees : u \in D /\ u \in E BY <2>3 DEF Solves
  <2>5. \A u \in Subtrees(t) \cap Trees : f[u] = g[u] BY <2>2, <2>4
  <2>6. Listing(f, t) = Listing(g, t) BY <2>3, <2>5, ListingSame
  <2> QED BY <2>3, <2>6 DEF Solves
<1> QED BY <1>1

LEMMA AllSolved == \E f : f = [t \in Trees |-> Listing(f, t)]
<1> DEFINE Solved == {t \in Trees : \E f, D : Solves(f, D) /\ t \in D}
           Value(t) == CHOOSE v : \E f, D : Solves(f, D) /\ t \in D /\ v = f[t]
           G == [t \in Trees |-> Value(t)]
<1>1. ASSUME NEW f, NEW D, Solves(f, D), NEW t \in D PROVE G[t] = f[t]
  <2>1. t \in Trees BY <1>1 DEF Solves
  <2>2. \E v : \E g, E : Solves(g, E) /\ t \in E /\ v = g[t] BY <1>1
  <2>3. \E g, E : Solves(g, E) /\ t \in E /\ Value(t) = g[t] BY <2>2
  <2>4. PICK g, E : Solves(g, E) /\ t \in E /\ Value(t) = g[t] BY <2>3
  <2>5. f[t] = g[t] BY <1>1, <2>4, SolutionsAgree
  <2> QED BY <2>1, <2>4, <2>5
<1> HIDE DEF Value
<1>2. Solves(G, Solved)
  <2>1. ASSUME NEW t \in Solved PROVE Subtrees(t) \cap Trees \subseteq Solved /\ G[t] = Listing(G, t)
    <3>1. PICK f, D : Solves(f, D) /\ t \in D BY <2>1
    <3>2. D \in SUBSET Trees /\ Subtrees(t) \cap Trees \subseteq D /\ f[t] = Listing(f, t) BY <3>1 DEF Solves
    <3>3. Subtrees(t) \cap Trees \subseteq Solved BY <3>1, <3>2
    <3> HIDE DEF G, Solved
    <3>4. \A u \in Subtrees(t) \cap Trees : G[u] = f[u] BY <1>1, <3>1, <3>2
    <3>5. G[t] = f[t] BY <1>1, <3>1
    <3>6. Listing(G, t) = Listing(f, t) BY <3>1, <3>2, <3>4, ListingSame
    <3> QED BY <3>2, <3>3, <3>5, <3>6
  <2>2. Solved \in SUBSET Trees OBVIOUS
  <2> HIDE DEF G, Solved
  <2> QED BY <2>1, <2>2 DEF Solves
<1>3. Solved = Trees
  <2> SUFFICES ASSUME Trees \ Solved # {} PROVE FALSE OBVIOUS
  <2>1. PICK t \in Trees \ Solved : Subtrees(t) \cap (Trees \ Solved) = {}
    <3>1. (Trees \ Solved) \in SUBSET Trees OBVIOUS
    <3> HIDE DEF Solved
    <3> QED BY <3>1, HashAssumption
  <2>2. t \in Trees /\ t \notin Solved BY <2>1
  <2>3. Subtrees(t) \cap Trees \subseteq Solved BY <2>1
  <2>4. PICK E : E = Solved \cup {t} OBVIOUS
  <2>5. PICK H : H = [G EXCEPT ![t] = Listing(G, t)] OBVIOUS
  <2>6. \A x \in Solved : x \in Trees /\ x # t /\ Subtrees(x) \cap Trees \subseteq Solved /\ G[x] = Listing(G, x)
    BY <1>2, <2>2 DEF Solves
  <2>7. \A x \in Trees : x # t => H[x] = G[x] BY <2>5
  <2>8. H[t] = Listing(G, t) BY <2>2, <2>5
  <2>9. ASSUME NEW x \in E PROVE Subtrees(x) \cap Trees \subseteq E /\ H[x] = Listing(H, x)
    <3> HIDE DEF G, Solved
    <3>1. x \in Trees /\ Subtrees(x) \cap Trees \subseteq Solved BY <2>2, <2>3, <2>4, <2>6, <2>9
    <3>2. \A u \in Subtrees(x) \cap Trees : G[u] = H[u] BY <2>6, <2>7, <3>1
    <3>3. Listing(G, x) = Listing(H, x) BY <3>1, <3>2, ListingSame
    <3> QED BY <2>4, <2>6, <2>7, <2>8, <3>1, <3>3
  <2>10. E \in SUBSET Trees BY <2>2, <2>4
  <2>11. Solves(H, E) BY <2>9, <2>10 DEF Solves
  <2>12. t \in E BY <2>4
  <2> QED BY <2>2, <2>11, <2>12
<1>4. G = [t \in Trees |-> Listing(G, t)]
  <2>1. \A t \in Trees : G[t] = Listing(G, t)
    <3> HIDE DEF G, Solved
    <3> QED BY <1>2, <1>3 DEF Solves
  <2>2. G = [t \in Trees |-> G[t]] OBVIOUS
  <2> HIDE DEF G
  <2> QED BY <2>1, <2>2
<1> HIDE DEF G
<1> QED BY <1>4

LEMMA FilesIs == \A t \in Trees : Files[t] = Listing(Files, t)
<1>1. Files = CHOOSE f : f = [t \in Trees |-> Listing(f, t)] BY DEF Files, Listing, Inside
<1>2. Files = [t \in Trees |-> Listing(Files, t)] BY <1>1, AllSolved
<1> QED BY <1>2

-----------------------------------------------------------------------------
(* The files of a tree have paths of their own                             *)

Names == UNION {{Entries[b][i].name : i \in DOMAIN Entries[b]} : b \in DOMAIN Entries}
File(path, mode, body) == [path |-> path, mode |-> mode, body |-> body]
IsFile(f) == f.path \in Seq(Names) /\ f.path # <<>> /\ f = File(f.path, f.mode, f.body)

\* One of an entry's files: the entry's own or one that is inside of it
LEMMA FileOf ==
  ASSUME NEW t \in Trees, NEW f \in Files[t]
  PROVE  \E i \in DOMAIN Entries[t.body] :
           LET e == Entries[t.body][i] IN
           \/ f = File(<<e.name>>, f.mode, f.body) /\ f \in FilesOf(e, {})
           \/ \E u \in Subtrees(t) \cap Trees : \E g \in Files[u] :
                e.mode = "dir" /\ u = e.oid /\ f = File(<<e.name>> \o g.path, g.mode, g.body)
<1>1. f \in Listing(Files, t) BY FilesIs
<1>2. PICK i \in DOMAIN Entries[t.body] : f \in FilesOf(Entries[t.body][i], Inside(Entries[t.body][i], Files))
  BY <1>1 DEF Listing
<1>3. PICK e : e = Entries[t.body][i] OBVIOUS
<1>4. CASE e.mode = "dir"
  <2>1. CASE f = File(<<e.name>>, "dir", "none")
    <3>1. f = File(<<e.name>>, f.mode, f.body) BY <2>1 DEF File
    <3>2. f \in FilesOf(e, {}) BY <1>4, <2>1 DEF FilesOf, File
    <3> QED BY <1>3, <3>1, <3>2
  <2>2. CASE f # File(<<e.name>>, "dir", "none")
    <3>1. PICK g \in Inside(e, Files) : f = File(<<e.name>> \o g.path, g.mode, g.body)
      BY <1>2, <1>3, <1>4, <2>2 DEF FilesOf, File
    <3>2. e.oid \in Trees /\ g \in Files[e.oid] BY <3>1 DEF Inside
    <3>3. e.oid \in Subtrees(t) BY <1>3, <1>4 DEF Subtrees
    <3> QED BY <1>3, <1>4, <3>1, <3>2, <3>3
  <2> QED BY <2>1, <2>2
<1>5. CASE e.mode # "dir"
  <2>1. f = File(<<e.name>>, e.mode, e.oid.body) /\ e.mode # "gitlink" BY <1>2, <1>3, <1>5 DEF FilesOf, File
  <2>2. f = File(<<e.name>>, f.mode, f.body) BY <2>1 DEF File
  <2>3. f \in FilesOf(e, {}) BY <1>5, <2>1 DEF FilesOf, File
  <2> QED BY <1>3, <2>2, <2>3
<1> QED BY <1>4, <1>5

LEMMA FilesTyped == \A t \in Trees : \A f \in Files[t] : IsFile(f)
<1> DEFINE Bad == {t \in Trees : \E f \in Files[t] : ~IsFile(f)}
<1> SUFFICES ASSUME Bad # {} PROVE FALSE OBVIOUS
<1>1. PICK t \in Bad : Subtrees(t) \cap Bad = {}
  <2>1. Bad \in SUBSET Trees OBVIOUS
  <2> HIDE DEF Bad
  <2> QED BY <2>1, HashAssumption
<1>2. t \in Trees BY <1>1
<1>3. PICK f \in Files[t] : ~IsFile(f) BY <1>1
<1>4. \A u \in Subtrees(t) \cap Trees : \A g \in Files[u] : IsFile(g) BY <1>1
<1> HIDE DEF Bad
<1>5. PICK i \in DOMAIN Entries[t.body] :
        LET e == Entries[t.body][i] IN
        \/ f = File(<<e.name>>, f.mode, f.body) /\ f \in FilesOf(e, {})
        \/ \E u \in Subtrees(t) \cap Trees : \E g \in Files[u] :
             e.mode = "dir" /\ u = e.oid /\ f = File(<<e.name>> \o g.path, g.mode, g.body)
  BY <1>2, <1>3, FileOf
<1>6. PICK name : name = Entries[t.body][i].name OBVIOUS
<1>7. name \in Names BY <1>2, <1>5, <1>6 DEF Trees, Names
<1>8. CASE f = File(<<name>>, f.mode, f.body)
  <2>1. f.path = <<name>> BY <1>8 DEF File
  <2>2. <<name>> \in Seq(Names) /\ <<name>> # <<>> BY <1>7
  <2> QED BY <1>3, <1>8, <2>1, <2>2 DEF IsFile
<1>9. CASE \E u \in Subtrees(t) \cap Trees : \E g \in Files[u] : f = File(<<name>> \o g.path, g.mode, g.body)
  <2>1. PICK u \in Subtrees(t) \cap Trees : \E g \in Files[u] : f = File(<<name>> \o g.path, g.mode, g.body) BY <1>9
  <2>7. PICK g \in Files[u] : f = File(<<name>> \o g.path, g.mode, g.body) BY <2>1
  <2>2. g.path \in Seq(Names) BY <1>4, <2>1, <2>7 DEF IsFile
  <2>3. PICK q \in Seq(Names) : q = g.path BY <2>2
  <2>4. <<name>> \o q \in Seq(Names) /\ <<name>> \o q # <<>> BY <1>7
  <2>5. f.path = <<name>> \o q /\ f.mode = g.mode /\ f.body = g.body BY <2>7, <2>3 DEF File
  <2>6. f = File(f.path, f.mode, f.body) BY <2>7, <2>3, <2>5
  <2> QED BY <1>3, <2>4, <2>5, <2>6 DEF IsFile
<1> QED BY <1>5, <1>6, <1>8, <1>9

LEMMA FilesUnique == \A t \in Trees : \A f, g \in Files[t] : f.path = g.path => f = g
<1> DEFINE Bad == {t \in Trees : \E f, g \in Files[t] : f.path = g.path /\ f # g}
<1> SUFFICES ASSUME Bad # {} PROVE FALSE OBVIOUS
<1>1. PICK t \in Bad : Subtrees(t) \cap Bad = {}
  <2>1. Bad \in SUBSET Trees OBVIOUS
  <2> HIDE DEF Bad
  <2> QED BY <2>1, HashAssumption
<1>2. t \in Trees BY <1>1
<1>3. PICK f \in Files[t], g \in Files[t] : f.path = g.path /\ f # g BY <1>1
<1>4. \A u \in Subtrees(t) \cap Trees : \A x, y \in Files[u] : x.path = y.path => x = y BY <1>1
<1> HIDE DEF Bad
<1> DEFINE In(x, i) ==
      LET e == Entries[t.body][i] IN
      \/ x = File(<<e.name>>, x.mode, x.body) /\ x \in FilesOf(e, {})
      \/ \E u \in Subtrees(t) \cap Trees : \E y \in Files[u] :
           e.mode = "dir" /\ u = e.oid /\ x = File(<<e.name>> \o y.path, y.mode, y.body)
<1>5. PICK i \in DOMAIN Entries[t.body] : In(f, i) BY <1>2, <1>3, FileOf
<1>6. PICK j \in DOMAIN Entries[t.body] : In(g, j) BY <1>2, <1>3, FileOf
<1>7. ASSUME NEW x, NEW k \in DOMAIN Entries[t.body], In(x, k)
      PROVE  /\ x.path[1] = Entries[t.body][k].name
             /\ \/ x.path = <<Entries[t.body][k].name>> /\ x \in FilesOf(Entries[t.body][k], {})
                \/ /\ Entries[t.body][k].mode = "dir" /\ Entries[t.body][k].oid \in Subtrees(t) \cap Trees
                   /\ Len(x.path) > 1
                   /\ \E y \in Files[Entries[t.body][k].oid] :
                        /\ y.path \in Seq(Names)
                        /\ x = File(<<Entries[t.body][k].name>> \o y.path, y.mode, y.body)
  <2>1. PICK e : e = Entries[t.body][k] OBVIOUS
  <2>2. CASE x = File(<<e.name>>, x.mode, x.body) /\ x \in FilesOf(e, {})
    <3>1. x.path = <<e.name>> BY <2>2 DEF File
    <3> QED BY <2>1, <2>2, <3>1
  <2>3. CASE \E u \in Subtrees(t) \cap Trees : \E y \in Files[u] :
               e.mode = "dir" /\ u = e.oid /\ x = File(<<e.name>> \o y.path, y.mode, y.body)
    <3>1. PICK y \in Files[e.oid] : e.mode = "dir" /\ x = File(<<e.name>> \o y.path, y.mode, y.body) BY <2>3
    <3>2. e.oid \in Subtrees(t) \cap Trees BY <2>3
    <3>3. y.path \in Seq(Names) /\ y.path # <<>> BY <3>1, <3>2, FilesTyped DEF IsFile
    <3>4. PICK q \in Seq(Names) : q = y.path /\ q # <<>> BY <3>3
    <3>5. x.path = <<e.name>> \o q BY <3>1, <3>4 DEF File
    <3>6. e.name \in Names BY <1>2, <1>7, <2>1 DEF Trees, Names
    <3>7. (<<e.name>> \o q)[1] = e.name /\ Len(<<e.name>> \o q) > 1 BY <3>4, <3>6
    <3> QED BY <2>1, <3>1, <3>2, <3>3, <3>5, <3>7
  <2> QED BY <1>7, <2>1, <2>2, <2>3
<1> HIDE DEF In
<1>8. i = j
  <2>1. Entries[t.body][i].name = Entries[t.body][j].name BY <1>3, <1>5, <1>6, <1>7
  <2>2. t.body \in DOMAIN Entries BY <1>2 DEF Trees
  <2> QED BY <2>1, <2>2, <1>5, <1>6, CloneAssumption
<1>9. PICK e : e = Entries[t.body][i] OBVIOUS
<1>10. CASE f.path = <<e.name>> /\ f \in FilesOf(e, {}) /\ g.path = <<e.name>> /\ g \in FilesOf(e, {})
  <2>1. f = g BY <1>10 DEF FilesOf
  <2> QED BY <1>3, <2>1
<1>11. CASE /\ e.mode = "dir" /\ e.oid \in Subtrees(t) \cap Trees
            /\ \E y \in Files[e.oid] : y.path \in Seq(Names) /\ f = File(<<e.name>> \o y.path, y.mode, y.body)
            /\ \E y \in Files[e.oid] : y.path \in Seq(Names) /\ g = File(<<e.name>> \o y.path, y.mode, y.body)
  <2>1. PICK x \in Files[e.oid] : x.path \in Seq(Names) /\ f = File(<<e.name>> \o x.path, x.mode, x.body) BY <1>11
  <2>2. PICK y \in Files[e.oid] : y.path \in Seq(Names) /\ g = File(<<e.name>> \o y.path, y.mode, y.body) BY <1>11
  <2>3. PICK p \in Seq(Names), q \in Seq(Names) : p = x.path /\ q = y.path BY <2>1, <2>2
  <2>4. <<e.name>> \o p = <<e.name>> \o q BY <1>3, <2>1, <2>2, <2>3 DEF File
  <2>5. e.name \in Names BY <1>2, <1>5, <1>9 DEF Trees, Names
  <2>6. p = q
    <3>1. Len(p) = Len(q) BY <2>4, <2>5
    <3>2. \A n \in 1 .. Len(p) : p[n] = (<<e.name>> \o p)[n + 1] /\ q[n] = (<<e.name>> \o q)[n + 1] BY <2>5, <3>1
    <3> QED BY <2>4, <3>1, <3>2
  <2>7. x = y BY <1>4, <1>11, <2>3, <2>6
  <2> QED BY <1>3, <2>1, <2>2, <2>7
<1>12. ASSUME NEW x, In(x, i)
       PROVE  \/ x.path = <<e.name>> /\ x \in FilesOf(e, {})
              \/ /\ e.mode = "dir" /\ e.oid \in Subtrees(t) \cap Trees /\ Len(x.path) > 1
                 /\ \E y \in Files[e.oid] : y.path \in Seq(Names) /\ x = File(<<e.name>> \o y.path, y.mode, y.body)
  BY <1>5, <1>7, <1>9, <1>12
<1>13. In(f, i) /\ In(g, i) BY <1>5, <1>6, <1>8
<1>14. Len(<<e.name>>) = 1 OBVIOUS
<1>15. CASE f.path = <<e.name>>
  <2>1. g.path = <<e.name>> BY <1>3, <1>15
  <2>2. Len(f.path) = 1 /\ Len(g.path) = 1 BY <2>1, <1>14, <1>15
  <2>3. ~(Len(f.path) > 1) /\ ~(Len(g.path) > 1) BY <2>2
  <2>4. f \in FilesOf(e, {}) BY <1>12, <1>13, <2>3
  <2>5. g \in FilesOf(e, {}) BY <1>12, <1>13, <2>3
  <2> QED BY <1>10, <1>15, <2>1, <2>4, <2>5
<1>16. CASE f.path # <<e.name>> BY <1>3, <1>11, <1>12, <1>13, <1>16
<1> QED BY <1>15, <1>16

-----------------------------------------------------------------------------
(* What is left to write                                                   *)

FilesIn(dir, S) == {File(dir \o f.path, f.mode, f.body) : f \in S}
Leaves(item)    == FilesIn(item.dir, FilesOf(item.entry, Inside(item.entry, Files)))
Rest(list)      == UNION {Leaves(list[i]) : i \in DOMAIN list}

EntriesBelow(tree) == UNION {{Entries[t.body][i] : i \in DOMAIN Entries[t.body]} : t \in Below(tree)}
Items(tree)        == [dir : Seq(Names), entry : EntriesBelow(tree)]

LEMMA RestTail ==
  ASSUME NEW S, NEW list \in Seq(S), list # <<>>
  PROVE  Rest(list) = Leaves(Head(list)) \cup Rest(Tail(list))
<1>1. \A x : x \in Rest(list) <=> \E i \in DOMAIN list : x \in Leaves(list[i]) BY DEF Rest
<1>2. \A x : x \in Rest(Tail(list)) <=> \E i \in DOMAIN Tail(list) : x \in Leaves(Tail(list)[i]) BY DEF Rest
<1>3. /\ Len(list) \in Nat \ {0} /\ DOMAIN list = 1 .. Len(list) /\ DOMAIN Tail(list) = 1 .. Len(list) - 1
      /\ Head(list) = list[1] /\ \A i \in 1 .. Len(list) - 1 : Tail(list)[i] = list[i + 1]
  OBVIOUS
<1>4. ASSUME NEW x \in Rest(list) PROVE x \in Leaves(Head(list)) \cup Rest(Tail(list))
  <2>1. PICK i \in 1 .. Len(list) : x \in Leaves(list[i]) BY <1>1, <1>3, <1>4
  <2>2. CASE i = 1 BY <1>3, <2>1, <2>2
  <2>3. CASE i # 1
    <3>1. i - 1 \in 1 .. Len(list) - 1 /\ (i - 1) + 1 = i BY <1>3, <2>1, <2>3
    <3>2. Tail(list)[i - 1] = list[i] BY <1>3, <3>1
    <3> QED BY <1>2, <1>3, <2>1, <3>1, <3>2
  <2> QED BY <2>2, <2>3
<1>5. ASSUME NEW x \in Leaves(Head(list)) PROVE x \in Rest(list)
  <2>1. 1 \in DOMAIN list BY <1>3
  <2> QED BY <1>1, <1>3, <1>5, <2>1
<1>6. ASSUME NEW x \in Rest(Tail(list)) PROVE x \in Rest(list)
  <2>1. PICK i \in 1 .. Len(list) - 1 : x \in Leaves(Tail(list)[i]) BY <1>2, <1>3, <1>6
  <2>2. i + 1 \in DOMAIN list /\ Tail(list)[i] = list[i + 1] BY <1>3, <2>1
  <2> QED BY <1>1, <2>1, <2>2
<1> QED BY <1>4, <1>5, <1>6

LEMMA RestConcat ==
  ASSUME NEW S, NEW a \in Seq(S), NEW b \in Seq(S)
  PROVE  Rest(a \o b) = Rest(a) \cup Rest(b)
<1>1. \A list : \A x : x \in Rest(list) <=> \E i \in DOMAIN list : x \in Leaves(list[i]) BY DEF Rest
<1>2. /\ Len(a) \in Nat /\ Len(b) \in Nat /\ DOMAIN a = 1 .. Len(a) /\ DOMAIN b = 1 .. Len(b)
      /\ DOMAIN (a \o b) = 1 .. Len(a) + Len(b)
      /\ \A i \in 1 .. Len(a) : (a \o b)[i] = a[i]
      /\ \A i \in 1 .. Len(b) : (a \o b)[i + Len(a)] = b[i]
  OBVIOUS
<1>3. PICK c : c = a \o b OBVIOUS
<1>4. ASSUME NEW x \in Rest(c) PROVE x \in Rest(a) \cup Rest(b)
  <2>1. PICK i \in 1 .. Len(a) + Len(b) : x \in Leaves(c[i]) BY <1>1, <1>2, <1>3, <1>4
  <2>2. CASE i <= Len(a)
    <3>1. i \in DOMAIN a /\ c[i] = a[i] BY <1>2, <1>3, <2>1, <2>2
    <3> QED BY <1>1, <2>1, <3>1
  <2>3. CASE i > Len(a)
    <3>1. i - Len(a) \in 1 .. Len(b) /\ (i - Len(a)) + Len(a) = i BY <1>2, <2>1, <2>3
    <3>2. c[i] = b[i - Len(a)] BY <1>2, <1>3, <3>1
    <3> QED BY <1>1, <1>2, <2>1, <3>1, <3>2
  <2> QED BY <1>2, <2>1, <2>2, <2>3
<1>5. ASSUME NEW x \in Rest(a) PROVE x \in Rest(c)
  <2>1. PICK i \in 1 .. Len(a) : x \in Leaves(a[i]) BY <1>1, <1>2, <1>5
  <2>2. i \in DOMAIN c /\ c[i] = a[i] BY <1>2, <1>3, <2>1
  <2> QED BY <1>1, <2>1, <2>2
<1>6. ASSUME NEW x \in Rest(b) PROVE x \in Rest(c)
  <2>1. PICK i \in 1 .. Len(b) : x \in Leaves(b[i]) BY <1>1, <1>2, <1>6
  <2>2. i + Len(a) \in DOMAIN c /\ c[i + Len(a)] = b[i] BY <1>2, <1>3, <2>1
  <2> QED BY <1>1, <2>1, <2>2
<1> QED BY <1>3, <1>4, <1>5, <1>6

LEMMA RestListed ==
  ASSUME NEW tree, NEW t \in Below(tree), NEW dir \in Seq(Names)
  PROVE  /\ Listed(t, dir) \in Seq(Items(tree)) /\ t \in Trees
         /\ Rest(Listed(t, dir)) = FilesIn(dir, Files[t])
<1>1. t \in Trees BY DEF Below
<1>2. PICK es : es = Entries[t.body] OBVIOUS
<1>3. es \in Seq(Range(es)) BY <1>1, <1>2, CloneAssumption DEF Trees
<1>4. Len(es) \in Nat /\ DOMAIN es = 1 .. Len(es) BY <1>3
<1>5. Listed(t, dir) = [i \in 1 .. Len(es) |-> [dir |-> dir, entry |-> es[i]]]
  <2>1. Listed(t, dir) = [i \in DOMAIN es |-> [dir |-> dir, entry |-> es[i]]] BY <1>2 DEF Listed
  <2> QED BY <1>4, <2>1
<1>6. \A i \in 1 .. Len(es) : es[i] \in EntriesBelow(tree) BY <1>2, <1>4 DEF EntriesBelow
<1>7. Listed(t, dir) \in Seq(Items(tree))
  <2>1. \A i \in 1 .. Len(es) : [dir |-> dir, entry |-> es[i]] \in Items(tree) BY <1>6 DEF Items
  <2>2. Len(es) \in Nat BY <1>3
  <2> QED BY <1>5, <2>1, <2>2
<1>8. \A i \in DOMAIN es : Listed(t, dir)[i] = [dir |-> dir, entry |-> es[i]] BY <1>2 DEF Listed
<1>9. DOMAIN Listed(t, dir) = DOMAIN es BY <1>2 DEF Listed
<1>10. ASSUME NEW i \in DOMAIN es
      PROVE  Leaves(Listed(t, dir)[i]) = FilesIn(dir, FilesOf(es[i], Inside(es[i], Files)))
  <2>1. PICK item : item = Listed(t, dir)[i] OBVIOUS
  <2>2. item = [dir |-> dir, entry |-> es[i]] BY <1>8, <1>10, <2>1
  <2>3. item.dir = dir /\ item.entry = es[i] BY <2>2
  <2> QED BY <2>1, <2>3 DEF Leaves
<1>11. \A x : x \in Rest(Listed(t, dir)) <=> \E i \in DOMAIN es : x \in FilesIn(dir, FilesOf(es[i], Inside(es[i], Files)))
  BY <1>9, <1>10 DEF Rest
<1>12. \A f : f \in Files[t] <=> \E i \in DOMAIN es : f \in FilesOf(es[i], Inside(es[i], Files))
  BY <1>1, <1>2, FilesIs DEF Listing
<1>13. \A S, x : x \in FilesIn(dir, S) <=> \E f \in S : x = File(dir \o f.path, f.mode, f.body) BY DEF FilesIn
<1>14. ASSUME NEW x \in Rest(Listed(t, dir)) PROVE x \in FilesIn(dir, Files[t])
  <2>1. PICK i \in DOMAIN es : x \in FilesIn(dir, FilesOf(es[i], Inside(es[i], Files))) BY <1>11, <1>14
  <2>2. PICK f \in FilesOf(es[i], Inside(es[i], Files)) : x = File(dir \o f.path, f.mode, f.body) BY <1>13, <2>1
  <2>3. f \in Files[t] BY <1>12, <2>2
  <2> QED BY <1>13, <2>2, <2>3
<1>15. ASSUME NEW x \in FilesIn(dir, Files[t]) PROVE x \in Rest(Listed(t, dir))
  <2>1. PICK f \in Files[t] : x = File(dir \o f.path, f.mode, f.body) BY <1>13, <1>15
  <2>2. PICK i \in DOMAIN es : f \in FilesOf(es[i], Inside(es[i], Files)) BY <1>12, <2>1
  <2>3. x \in FilesIn(dir, FilesOf(es[i], Inside(es[i], Files))) BY <1>13, <2>1, <2>2
  <2> QED BY <1>11, <2>3
<1> QED BY <1>1, <1>7, <1>14, <1>15

LEMMA FilesInOne ==
  ASSUME NEW dir, NEW path, NEW mode, NEW body
  PROVE  FilesIn(dir, {File(path, mode, body)}) = {File(dir \o path, mode, body)}
<1>1. PICK f : f = File(path, mode, body) OBVIOUS
<1>2. f.path = path /\ f.mode = mode /\ f.body = body BY <1>1 DEF File
<1>3. FilesIn(dir, {f}) = {File(dir \o f.path, f.mode, f.body)} BY DEF FilesIn
<1> QED BY <1>1, <1>2, <1>3

LEMMA FilesInMany ==
  ASSUME NEW dir, NEW name, NEW S
  PROVE  FilesIn(dir, {File(<<name>> \o f.path, f.mode, f.body) : f \in S})
         = {File(dir \o (<<name>> \o f.path), f.mode, f.body) : f \in S}
<1>1. PICK g : g = [f \in S |-> File(<<name>> \o f.path, f.mode, f.body)] OBVIOUS
<1>2. \A f \in S : g[f].path = <<name>> \o f.path /\ g[f].mode = f.mode /\ g[f].body = f.body BY <1>1 DEF File
<1>3. {File(<<name>> \o f.path, f.mode, f.body) : f \in S} = {g[f] : f \in S} BY <1>1
<1>4. FilesIn(dir, {g[f] : f \in S}) = {File(dir \o g[f].path, g[f].mode, g[f].body) : f \in S} BY DEF FilesIn
<1>5. {File(dir \o g[f].path, g[f].mode, g[f].body) : f \in S}
      = {File(dir \o (<<name>> \o f.path), f.mode, f.body) : f \in S}
  BY <1>2
<1> QED BY <1>3, <1>4, <1>5

LEMMA LeavesOf ==
  ASSUME NEW tree, NEW item \in Items(tree)
  PROVE  /\ Path(item) \in Seq(Names)
         /\ item.entry.mode = "gitlink" => Leaves(item) = {}
         /\ item.entry.mode = "dir" /\ item.entry.oid \in Trees =>
              Leaves(item) = {File(Path(item), "dir", "none")} \cup FilesIn(Path(item), Files[item.entry.oid])
         /\ item.entry.mode \notin {"gitlink", "dir"} =>
              Leaves(item) = {File(Path(item), item.entry.mode, item.entry.oid.body)}
<1>1. PICK dir \in Seq(Names), e \in EntriesBelow(tree) : dir = item.dir /\ e = item.entry BY DEF Items
<1>2. e.name \in Names BY <1>1 DEF EntriesBelow, Names, Below, Trees
<1>3. PICK name \in Names : name = e.name BY <1>2
<1>4. Path(item) = dir \o <<name>> /\ Path(item) \in Seq(Names) BY <1>1, <1>3 DEF Path
<1>5. Leaves(item) = FilesIn(dir, FilesOf(e, Inside(e, Files))) BY <1>1 DEF Leaves
<1>6. CASE e.mode = "gitlink"
  <2>1. FilesOf(e, Inside(e, Files)) = {} BY <1>6 DEF FilesOf
  <2>2. Leaves(item) = {} BY <1>5, <2>1 DEF FilesIn
  <2> QED BY <1>1, <1>4, <1>6, <2>2
<1>7. CASE e.mode \notin {"gitlink", "dir"}
  <2>1. FilesOf(e, Inside(e, Files)) = {File(<<name>>, e.mode, e.oid.body)} BY <1>3, <1>7 DEF FilesOf, File
  <2>2. Leaves(item) = {File(dir \o <<name>>, e.mode, e.oid.body)} BY <1>5, <2>1, FilesInOne
  <2> QED BY <1>1, <1>4, <1>7, <2>2
<1>8. CASE e.mode = "dir" /\ e.oid \in Trees
  <2>1. FilesOf(e, Inside(e, Files))
        = {File(<<name>>, "dir", "none")} \cup {File(<<name>> \o f.path, f.mode, f.body) : f \in Files[e.oid]}
    BY <1>3, <1>8 DEF FilesOf, File, Inside
  <2>2. Leaves(item) = {File(dir \o <<name>>, "dir", "none")}
                       \cup {File(dir \o (<<name>> \o f.path), f.mode, f.body) : f \in Files[e.oid]}
    <3>1. \A A, B : FilesIn(dir, A \cup B) = FilesIn(dir, A) \cup FilesIn(dir, B) BY DEF FilesIn
    <3> DEFINE S == Files[e.oid]
               A == {File(<<name>>, "dir", "none")}
               B == {File(<<name>> \o f.path, f.mode, f.body) : f \in S}
    <3>2. FilesOf(e, Inside(e, Files)) = A \cup B BY <2>1
    <3>3. FilesIn(dir, A) = {File(dir \o <<name>>, "dir", "none")} BY FilesInOne
    <3>4. FilesIn(dir, B) = {File(dir \o (<<name>> \o f.path), f.mode, f.body) : f \in S}
      <4> HIDE DEF S
      <4> QED BY FilesInMany
    <3>5. Leaves(item) = FilesIn(dir, A) \cup FilesIn(dir, B)
      <4> HIDE DEF A, B
      <4> QED BY <1>5, <3>1, <3>2
    <3> HIDE DEF A, B
    <3> QED BY <3>3, <3>4, <3>5
  <2>3. ASSUME NEW f \in Files[e.oid] PROVE dir \o (<<name>> \o f.path) = (dir \o <<name>>) \o f.path
    <3>1. f.path \in Seq(Names) BY <1>8, FilesTyped DEF IsFile
    <3>2. PICK p \in Seq(Names) : p = f.path BY <3>1
    <3>3. dir \o (<<name>> \o p) = (dir \o <<name>>) \o p BY <1>3
    <3> QED BY <3>2, <3>3
  <2>4. {File(dir \o (<<name>> \o f.path), f.mode, f.body) : f \in Files[e.oid]} = FilesIn(dir \o <<name>>, Files[e.oid])
    BY <2>3 DEF FilesIn
  <2>5. Leaves(item) = {File(Path(item), "dir", "none")} \cup FilesIn(Path(item), Files[e.oid]) BY <1>4, <2>2, <2>4
  <2> QED BY <1>1, <1>4, <1>8, <2>5
<1> QED BY <1>1, <1>4, <1>6, <1>7, <1>8

LEMMA InNoDir == \A t \in Trees : FilesIn(<<>>, Files[t]) = Files[t]
<1> SUFFICES ASSUME NEW t \in Trees PROVE FilesIn(<<>>, Files[t]) = Files[t] OBVIOUS
<1>1. ASSUME NEW f \in Files[t] PROVE File(<<>> \o f.path, f.mode, f.body) = f
  <2>1. f.path \in Seq(Names) /\ f = File(f.path, f.mode, f.body) BY <1>1, FilesTyped DEF IsFile
  <2>2. PICK p \in Seq(Names) : p = f.path BY <2>1
  <2>3. <<>> \o p = p BY ConcatEmptySeq
  <2> QED BY <2>1, <2>2, <2>3
<1> QED BY <1>1 DEF FilesIn

-----------------------------------------------------------------------------
(* The pack: the store has what at has                                     *)

PackTyped ==
  /\ pack = <<>> \/ pack \in Packs
  /\ at = [i \in DOMAIN pack |-> at[i]]
  /\ \A i \in DOMAIN pack : at[i] \in {NoObject, pack[i].oid}
  /\ store = {at[i] : i \in DOMAIN pack} \ {NoObject}
  /\ pending \subseteq {i \in DOMAIN pack : at[i] = NoObject /\ pack[i].kind # "whole"}
  /\ next \in Nat

\* Nothing is forgotten: each entry is resolved or pending.
Kept == \A i \in DOMAIN pack : i \in pending \/ at[i] # NoObject

\* A pass that has made no progress has left nothing behind that has a base.
Stuck == \A i \in pending : i < next => Base(i) = NoObject

PackInv ==
  /\ PackTyped
  /\ pc \in {"main", "refs", "download"} => pack = <<>>
  /\ pc \in {"parse", "resolve"} => next > 0
  /\ pc = "parse" => \A i \in DOMAIN pack :
       IF i < next THEN i \in pending \/ at[i] # NoObject ELSE i \notin pending /\ at[i] = NoObject
  /\ pc \in {"resolve", "peel", "count", "write", "done"} => Kept
  /\ pc = "resolve" /\ ~madeProgress => Stuck
  /\ pc \in {"peel", "count", "write", "done"} => pending = {}

LEMMA PackIs ==
  ASSUME PackTyped
  PROVE  /\ Len(pack) \in Nat /\ DOMAIN pack = 1 .. Len(pack)
         /\ \A i \in DOMAIN pack :
              /\ pack[i].kind \in {"whole", "ofs", "ref"} /\ pack[i].back \in Int
              /\ pack[i].oid \in [type : {"blob", "tree", "commit", "tag"}, body : {pack[i].oid.body}]
              /\ pack[i].oid # NoObject
              /\ pack[i].kind = "ref" => pack[i].base.type = pack[i].oid.type
              /\ pack[i].kind = "ofs" /\ i - pack[i].back \in DOMAIN pack =>
                   pack[i - pack[i].back].oid.type = pack[i].oid.type
<1>1. CASE pack = <<>>
  <2>1. Len(pack) = 0 /\ DOMAIN pack = {} BY <1>1
  <2> QED BY <2>1
<1>2. CASE pack \in Packs
  <2>1. pack \in Seq(Range(pack)) BY <1>2, PacksAssumption
  <2>2. Len(pack) \in Nat /\ DOMAIN pack = 1 .. Len(pack) BY <2>1
  <2>3. ASSUME NEW i \in DOMAIN pack PROVE pack[i].oid # NoObject
    <3>1. pack[i].oid \in [type : {"blob", "tree", "commit", "tag"}, body : {pack[i].oid.body}]
      BY <1>2, PacksAssumption
    <3>2. pack[i].oid.type # "none" BY <3>1
    <3> QED BY <3>2 DEF NoObject
  <2> QED BY <1>2, <2>2, <2>3, PacksAssumption
<1> QED BY <1>1, <1>2 DEF PackTyped

\* A delta's object is the entry's, once its base is there.
LEMMA ResolvedIs ==
  ASSUME PackTyped, NEW i \in pending, Base(i) # NoObject
  PROVE  Resolved(i) = pack[i].oid
<1>1. i \in DOMAIN pack /\ pack[i].kind \in {"ofs", "ref"} BY PackIs DEF PackTyped
<1>2. Base(i).type = pack[i].oid.type
  <2>1. CASE pack[i].kind = "ref"
    <3>1. Base(i) = pack[i].base BY <2>1 DEF Base
    <3> QED BY <1>1, <2>1, <3>1, PackIs
  <2>2. CASE pack[i].kind = "ofs"
    <3>1. PICK j : j = i - pack[i].back OBVIOUS
    <3>2. j \in DOMAIN pack /\ Base(i) = at[j] BY <2>2, <3>1 DEF Base, PackTyped
    <3>3. at[j] = pack[j].oid BY <3>2 DEF PackTyped
    <3>4. pack[j].oid.type = pack[i].oid.type BY <1>1, <2>2, <3>1, <3>2, PackIs
    <3> QED BY <3>2, <3>3, <3>4
  <2> QED BY <1>1, <2>1, <2>2
<1>3. pack[i].oid = [type |-> pack[i].oid.type, body |-> pack[i].oid.body] BY <1>1, PackIs
<1> QED BY <1>2, <1>3 DEF Resolved

\* An object that is there was in another entry.
LEMMA AddIs ==
  ASSUME PackTyped, NEW oid, next \in DOMAIN pack, at[next] = NoObject, oid = pack[next].oid,
         Add(oid), pack' = pack
  PROVE  \/ /\ store' = store \cup {oid} /\ at' = [at EXCEPT ![next] = oid] /\ pc' = pc
            /\ at' = [i \in DOMAIN pack |-> at'[i]]
            /\ \A i \in DOMAIN pack : at'[i] = IF i = next THEN oid ELSE at[i]
            /\ \A i \in DOMAIN pack : at'[i] \in {NoObject, pack[i].oid}
            /\ store' = {at'[i] : i \in DOMAIN pack} \ {NoObject}
         \/ /\ pc' = "error" /\ UNCHANGED <<store, at>>
            /\ \E i \in DOMAIN pack : i # next /\ pack[i].oid = pack[next].oid
<1>1. oid # NoObject BY PackIs
<1>2. CASE oid \in store
  <2>1. PICK i \in DOMAIN pack : at[i] = oid BY <1>2 DEF PackTyped
  <2>2. i # next /\ at[i] = pack[i].oid BY <1>1, <2>1 DEF PackTyped
  <2> QED BY <1>2, <2>1, <2>2 DEF Add
<1>3. CASE oid \notin store
  <2>1. store' = store \cup {oid} /\ at' = [at EXCEPT ![next] = oid] /\ pc' = pc BY <1>3 DEF Add
  <2>2. at' = [i \in DOMAIN pack |-> IF i = next THEN oid ELSE at[i]] BY <2>1 DEF PackTyped
  <2>3. \A i \in DOMAIN pack : at'[i] = IF i = next THEN oid ELSE at[i] BY <2>2
  <2>4. \A i \in DOMAIN pack : at'[i] \in {NoObject, pack[i].oid} BY <2>3 DEF PackTyped
  <2>5. store' = {at'[i] : i \in DOMAIN pack} \ {NoObject} BY <1>1, <2>1, <2>3 DEF PackTyped
  <2>6. at' = [i \in DOMAIN pack |-> at'[i]] BY <2>2
  <2> QED BY <2>1, <2>3, <2>4, <2>5, <2>6
<1> QED BY <1>2, <1>3

LEMMA PackInvInit == Init => PackInv
<1> SUFFICES ASSUME Init PROVE PackInv OBVIOUS
<1>1. pack = <<>> /\ at = <<>> /\ DOMAIN pack = {} /\ store = {} /\ pending = {} /\ next = 1 /\ pc = "main" BY DEF Init
<1>2. at = [i \in DOMAIN pack |-> at[i]] BY <1>1
<1>3. store = {at[i] : i \in DOMAIN pack} \ {NoObject} BY <1>1
<1>4. PackTyped BY <1>1, <1>2, <1>3 DEF PackTyped
<1> QED BY <1>1, <1>4 DEF PackInv, Kept, Stuck

LEMMA PackInvParseEntry == PackInv /\ ParseEntry => PackInv'
<1> SUFFICES ASSUME PackInv, ParseEntry PROVE PackInv' OBVIOUS
<1>1. PackTyped /\ pc = "parse" /\ next \in DOMAIN pack /\ next \in Nat /\ next' = next + 1 /\ pack' = pack
      /\ at[next] = NoObject /\ next \notin pending
      /\ \A i \in DOMAIN pack :
           IF i < next THEN i \in pending \/ at[i] # NoObject ELSE i \notin pending /\ at[i] = NoObject
  BY DEF PackInv, PackTyped, ParseEntry, input
<1>2. DOMAIN pack \subseteq Int BY <1>1, PackIs
<1>3. CASE pack[next].kind = "whole"
  <2>1. Add(pack[next].oid) /\ pending' = pending BY <1>3 DEF ParseEntry
  <2>2. CASE pc' = "error" /\ UNCHANGED <<store, at>>
    <3>1. PackTyped' BY <1>1, <2>1, <2>2 DEF PackTyped
    <3> QED BY <2>2, <3>1 DEF PackInv
  <2>3. CASE /\ pc' = pc /\ at' = [i \in DOMAIN pack |-> at'[i]]
             /\ \A i \in DOMAIN pack : at'[i] = IF i = next THEN pack[next].oid ELSE at[i]
             /\ \A i \in DOMAIN pack : at'[i] \in {NoObject, pack[i].oid}
             /\ store' = {at'[i] : i \in DOMAIN pack} \ {NoObject}
    <3>1. pending' \subseteq {i \in DOMAIN pack : at'[i] = NoObject /\ pack[i].kind # "whole"}
      BY <1>1, <2>1, <2>3 DEF PackTyped
    <3>2. next' \in Nat /\ next' > 0 BY <1>1
    <3>3. PackTyped' BY <1>1, <2>3, <3>1, <3>2 DEF PackTyped
    <3>4. ASSUME NEW i \in DOMAIN pack
          PROVE  IF i < next' THEN i \in pending' \/ at'[i] # NoObject ELSE i \notin pending' /\ at'[i] = NoObject
      <4>1. pack[next].oid # NoObject BY <1>1, PackIs
      <4>2. CASE i = next
        <5>1. at'[i] # NoObject /\ i < next' BY <1>1, <2>3, <4>1, <4>2
        <5> QED BY <5>1
      <4>3. CASE i # next
        <5>1. at'[i] = at[i] /\ (i \in pending' <=> i \in pending) BY <2>1, <2>3, <4>3
        <5>2. i < next' <=> i < next BY <1>1, <1>2, <4>3
        <5> QED BY <1>1, <5>1, <5>2
      <4> QED BY <4>2, <4>3
    <3> QED BY <1>1, <2>3, <3>2, <3>3, <3>4 DEF PackInv
  <2> QED BY <1>1, <2>1, <2>2, <2>3, AddIs
<1>4. CASE pack[next].kind # "whole"
  <2>1. pending' = pending \cup {next} /\ UNCHANGED <<pc, store, at>> BY <1>4 DEF ParseEntry
  <2>2. pending' \subseteq {i \in DOMAIN pack : at[i] = NoObject /\ pack[i].kind # "whole"}
    BY <1>1, <1>4, <2>1 DEF PackTyped
  <2>3. next' \in Nat /\ next' > 0 BY <1>1
  <2>4. PackTyped' BY <1>1, <2>1, <2>2, <2>3 DEF PackTyped
  <2>5. ASSUME NEW i \in DOMAIN pack
        PROVE  IF i < next' THEN i \in pending' \/ at'[i] # NoObject ELSE i \notin pending' /\ at'[i] = NoObject
    <3>1. CASE i = next
      <4>1. i \in pending' /\ i < next' BY <1>1, <2>1, <3>1
      <4> QED BY <4>1
    <3>2. CASE i # next
      <4>1. at'[i] = at[i] /\ (i \in pending' <=> i \in pending) BY <2>1, <3>2
      <4>2. i < next' <=> i < next BY <1>1, <1>2, <3>2
      <4> QED BY <1>1, <4>1, <4>2
    <3> QED BY <3>1, <3>2
  <2> QED BY <1>1, <2>1, <2>3, <2>4, <2>5 DEF PackInv
<1> QED BY <1>3, <1>4

LEMMA PackInvParseEnds == PackInv /\ ParseEnds => PackInv'
<1> SUFFICES ASSUME PackInv, ParseEnds PROVE PackInv' OBVIOUS
<1>1. /\ PackTyped /\ pc = "parse" /\ next \notin DOMAIN pack /\ next \in Nat /\ next > 0
      /\ pc' = "resolve" /\ next' = 1 /\ UNCHANGED <<pack, store, at, pending, madeProgress>>
      /\ \A i \in DOMAIN pack : i < next => i \in pending \/ at[i] # NoObject
  BY DEF PackInv, PackTyped, ParseEnds, input, found
<1>2. \A i \in DOMAIN pack : i < next /\ ~(i < 1)
  <2>1. Len(pack) \in Nat /\ DOMAIN pack = 1 .. Len(pack) BY <1>1, PackIs
  <2> QED BY <1>1, <2>1
<1>3. PackTyped' BY <1>1 DEF PackTyped
<1>4. Kept' BY <1>1, <1>2 DEF Kept
<1>5. Stuck' BY <1>1, <1>2 DEF Stuck, PackTyped
<1> QED BY <1>1, <1>3, <1>4, <1>5 DEF PackInv

LEMMA PackInvResolve == PackInv /\ Resolve => PackInv'
<1> SUFFICES ASSUME PackInv, Resolve PROVE PackInv' OBVIOUS
<1>1. /\ PackTyped /\ pc = "resolve" /\ next \in DOMAIN pack /\ next \in Nat /\ next' = next + 1 /\ pack' = pack
      /\ Kept /\ (~madeProgress => Stuck)
  BY DEF PackInv, PackTyped, Resolve, input
<1>2. DOMAIN pack \subseteq Int BY <1>1, PackIs
<1>3. next' \in Nat /\ next' > 0 BY <1>1
<1>4. CASE next \notin pending \/ Base(next) = NoObject
  <2>1. UNCHANGED <<pc, store, at, pending, madeProgress>> BY <1>4 DEF Resolve, found
  <2>2. PackTyped' BY <1>1, <1>3, <2>1 DEF PackTyped
  <2>3. Kept' BY <1>1, <2>1 DEF Kept
  <2>4. ASSUME Stuck PROVE Stuck'
    <3> SUFFICES ASSUME NEW i \in pending, i < next' PROVE Base(i)' = NoObject BY <2>1 DEF Stuck
    <3>1. Base(i)' = Base(i) BY <1>1, <2>1 DEF Base
    <3>2. i \in DOMAIN pack BY <1>1 DEF PackTyped
    <3>3. CASE i = next BY <1>4, <3>1, <3>3
    <3>4. CASE i # next
      <4>1. i < next BY <1>1, <1>2, <3>2, <3>4
      <4> QED BY <2>4, <3>1, <4>1 DEF Stuck
    <3> QED BY <3>3, <3>4
  <2> QED BY <1>1, <1>3, <2>1, <2>2, <2>3, <2>4 DEF PackInv
<1>5. CASE next \in pending /\ Base(next) # NoObject
  <2>1. Add(pack[next].oid) /\ pending' = pending \ {next} /\ madeProgress' = TRUE
    BY <1>1, <1>5, ResolvedIs DEF Resolve
  <2>2. at[next] = NoObject BY <1>1, <1>5 DEF PackTyped
  <2>3. CASE pc' = "error" /\ UNCHANGED <<store, at>>
    <3>1. PackTyped' BY <1>1, <1>3, <2>1, <2>3 DEF PackTyped
    <3> QED BY <2>3, <3>1 DEF PackInv
  <2>4. CASE /\ pc' = pc /\ at' = [i \in DOMAIN pack |-> at'[i]]
             /\ \A i \in DOMAIN pack : at'[i] = IF i = next THEN pack[next].oid ELSE at[i]
             /\ \A i \in DOMAIN pack : at'[i] \in {NoObject, pack[i].oid}
             /\ store' = {at'[i] : i \in DOMAIN pack} \ {NoObject}
    <3>1. pending' \subseteq {i \in DOMAIN pack : at'[i] = NoObject /\ pack[i].kind # "whole"}
      BY <1>1, <2>1, <2>4 DEF PackTyped
    <3>2. PackTyped' BY <1>1, <1>3, <2>4, <3>1 DEF PackTyped
    <3>3. pack[next].oid # NoObject BY <1>1, PackIs
    <3>4. \A i \in DOMAIN pack : i \in pending' \/ at'[i] # NoObject BY <1>1, <2>1, <2>4, <3>3 DEF Kept
    <3>5. Kept' BY <1>1, <3>4 DEF Kept
    <3> QED BY <1>1, <1>3, <2>1, <2>4, <3>2, <3>5 DEF PackInv
  <2> QED BY <1>1, <2>1, <2>2, <2>3, <2>4, AddIs
<1> QED BY <1>4, <1>5

LEMMA PackInvPassEnds == PackInv /\ PassEnds => PackInv'
<1> SUFFICES ASSUME PackInv, PassEnds PROVE PackInv' OBVIOUS
<1>1. PackTyped /\ pc = "resolve" /\ Kept /\ UNCHANGED <<pack, store, at, pending>>
  BY DEF PackInv, PassEnds, input
<1>2. Kept' BY <1>1 DEF Kept
<1>3. CASE madeProgress
  <2>1. next' = 1 /\ madeProgress' = FALSE /\ pc' = pc BY <1>3 DEF PassEnds
  <2>2. PackTyped' BY <1>1, <2>1 DEF PackTyped
  <2>3. \A i \in pending : ~(i < 1)
    <3>1. Len(pack) \in Nat /\ DOMAIN pack = 1 .. Len(pack) /\ pending \subseteq DOMAIN pack
      BY <1>1, PackIs DEF PackTyped
    <3> QED BY <3>1
  <2>4. Stuck' BY <1>1, <2>1, <2>3 DEF Stuck
  <2> QED BY <1>1, <1>2, <2>1, <2>2, <2>4 DEF PackInv
<1>4. CASE ~madeProgress
  <2>1. next' = 0 /\ pc' = (IF pending = {} THEN "peel" ELSE "error") BY <1>4 DEF PassEnds
  <2>2. PackTyped' BY <1>1, <2>1 DEF PackTyped
  <2> QED BY <1>1, <1>2, <2>1, <2>2 DEF PackInv
<1> QED BY <1>3, <1>4

LEMMA PackInvUploadPack == PackInv /\ UploadPack => PackInv'
<1> SUFFICES ASSUME PackInv, UploadPack PROVE PackInv' OBVIOUS
<1>1. PackTyped /\ pc = "download" /\ pack = <<>> /\ store' = store /\ pending' = pending BY DEF PackInv, UploadPack
<1>2. DOMAIN pack = {} BY <1>1
<1>3. store = {} /\ pending = {} BY <1>1, <1>2 DEF PackTyped
<1>4. CASE RequestFails /\ UNCHANGED <<pack, at, next>>
  <2>1. PackTyped' BY <1>1, <1>4 DEF PackTyped
  <2> QED BY <1>4, <2>1 DEF PackInv, RequestFails
<1>5. ASSUME NEW p \in Packs, pack' = p, at' = [i \in DOMAIN p |-> NoObject], pc' = "parse", next' = 1 PROVE PackInv'
  <2>1. \A i \in DOMAIN p : at'[i] = NoObject BY <1>5
  <2>2. {at'[i] : i \in DOMAIN p} \ {NoObject} = {} BY <2>1
  <2>3. PackTyped' BY <1>1, <1>3, <1>5, <2>1, <2>2 DEF PackTyped
  <2>4. \A i \in DOMAIN p : ~(i < 1)
    <3>1. p \in Seq(Range(p)) BY <1>5, PacksAssumption
    <3> QED BY <3>1
  <2> QED BY <1>1, <1>3, <1>5, <2>1, <2>3, <2>4 DEF PackInv
<1> QED BY <1>4, <1>5 DEF UploadPack

LEMMA PackInvNext == PackInv /\ [Next]_vars => PackInv'
<1> SUFFICES ASSUME PackInv, [Next]_vars PROVE PackInv' OBVIOUS
<1>1. ASSUME UNCHANGED <<pack, store, at, pending, madeProgress>>, next' \in Nat,
             pc' \in {"error", "killed", "refused"} \/ (pc = "main" /\ pc' = "refs") \/ (pc = "refs" /\ pc' = "download")
             \/ (pc \in {"peel", "count", "write"} /\ pc' \in {"peel", "count", "write", "done"})
      PROVE  PackInv'
  <2>1. PackTyped' BY <1>1 DEF PackInv, PackTyped
  <2>2. Kept => Kept' BY <1>1 DEF Kept
  <2>3. pc' \in {"peel", "count", "write", "done"} => pc \in {"peel", "count", "write"} BY <1>1
  <2>4. pc' \in {"main", "refs", "download"} => pc \in {"main", "refs"} BY <1>1
  <2>5. pc' \notin {"parse", "resolve"} BY <1>1
  <2> QED BY <1>1, <2>1, <2>2, <2>3, <2>4, <2>5 DEF PackInv
<1>2. next \in Nat BY DEF PackInv, PackTyped
<1>3. CASE Main BY <1>1, <1>2, <1>3 DEF Main, input, found
<1>4. CASE GetRefs BY <1>1, <1>2, <1>4 DEF GetRefs, RequestFails, found
<1>5. CASE Peel
  <2>1. next' \in Nat BY <1>2, <1>5 DEF Peel
  <2> QED BY <1>1, <1>5, <2>1 DEF Peel, input, found
<1>6. CASE Count BY <1>1, <1>2, <1>6 DEF Count, input, found
<1>7. CASE Write
  <2>1. pc' \in {"write", "error"} /\ pc = "write" BY <1>7 DEF Write
  <2>2. UNCHANGED <<pack, store, at, pending, madeProgress, next>> BY <1>7 DEF Write, input, found
  <2> QED BY <1>1, <1>2, <2>1, <2>2
<1>8. CASE Finish BY <1>1, <1>2, <1>8 DEF Finish, input, found
<1>9. CASE Breaks
  <2>1. pc' \in {"error", "killed"} BY <1>9 DEF Breaks
  <2>2. UNCHANGED <<pack, store, at, pending, madeProgress, next>> BY <1>9 DEF Breaks, input, found
  <2> QED BY <1>1, <1>2, <2>1, <2>2
<1>10. CASE Rerun
  <2>1. /\ pack' = <<>> /\ at' = <<>> /\ DOMAIN pack' = {} /\ store' = {} /\ pending' = {} /\ next' = 1 /\ pc' = "main"
    BY <1>10 DEF Rerun
  <2>2. at' = [i \in DOMAIN pack' |-> at'[i]] BY <2>1
  <2>3. store' = {at'[i] : i \in DOMAIN pack'} \ {NoObject} BY <2>1
  <2>4. PackTyped' BY <2>1, <2>2, <2>3 DEF PackTyped
  <2> QED BY <2>1, <2>4 DEF PackInv
<1>11. CASE UNCHANGED vars
  <2>1. UNCHANGED <<pc, pack, store, at, pending, madeProgress, next>> BY <1>11 DEF vars, input, found
  <2>2. PackTyped' BY <2>1 DEF PackInv, PackTyped
  <2>3. Kept => Kept' BY <2>1 DEF Kept
  <2>4. Stuck => Stuck' BY <2>1 DEF Stuck, Base
  <2> QED BY <2>1, <2>2, <2>3, <2>4 DEF PackInv
<1> QED BY <1>3, <1>4, <1>5, <1>6, <1>7, <1>8, <1>9, <1>10, <1>11, PackInvUploadPack, PackInvParseEntry,
           PackInvParseEnds, PackInvResolve, PackInvPassEnds DEF Next, Program

-----------------------------------------------------------------------------
(* The object: on the way from the ref to the commit, then the tree        *)

RefInv ==
  /\ pc \in {"download", "parse", "resolve"} => obj = Chosen
  /\ pc = "resolve" => next \in Nat
  /\ pc = "peel" =>
       /\ Commits(obj) = Commits(Chosen) /\ Peels(obj) \subseteq Peels(Chosen) /\ next \in Nat
       /\ next + Cardinality(Peels(obj)) = Cardinality(Peels(Chosen))
  /\ pc \in {"count", "write", "done"} => obj = TreeOf(Chosen)

LEMMA SameChosen == ASSUME UNCHANGED <<wanted, advert>> PROVE Chosen' = Chosen
BY DEF Chosen, ChosenOf, RefOf

LEMMA RefInvPeel == RefInv /\ Peel => RefInv'
<1> SUFFICES ASSUME RefInv, Peel PROVE RefInv' OBVIOUS
<1>1. /\ pc = "peel" /\ UNCHANGED <<wanted, advert>> /\ next \in Nat
      /\ Commits(obj) = Commits(Chosen) /\ Peels(obj) \subseteq Peels(Chosen)
      /\ next + Cardinality(Peels(obj)) = Cardinality(Peels(Chosen))
  BY DEF RefInv, Peel, input
<1>2. PICK c, o : c = Chosen /\ o = obj OBVIOUS
<1>3. Chosen' = c BY <1>1, <1>2, SameChosen
<1>4. CASE next < Depth /\ obj \in store \cap Headed
  <2>1. o \in Headed /\ obj' = Header[o.body] /\ next' = next + 1
        /\ pc' = IF o.type = "commit" THEN "count" ELSE "peel"
    BY <1>2, <1>4 DEF Peel
  <2>2. CASE o.type = "commit"
    <3>1. Commits(o) = {o} BY <2>1, <2>2, PeelsEnd
    <3>2. Commits(o) # {} BY <3>1
    <3>3. TreeOf(o) = Header[o.body] BY <2>2, <3>2, PeelsLead
    <3>4. TreeOf(c) = TreeOf(o) BY <1>1, <1>2 DEF TreeOf
    <3>5. obj' = TreeOf(Chosen)' BY <1>3, <2>1, <3>3, <3>4 DEF TreeOf, Commits, Peels
    <3> QED BY <2>1, <2>2, <3>5 DEF RefInv
  <2>3. CASE o.type # "commit"
    <3>1. o.type = "tag" BY <2>1, <2>3 DEF Headed
    <3>2. PICK h : h = Header[o.body] OBVIOUS
    <3>3. Commits(h) = Commits(c) BY <1>1, <1>2, <2>1, <3>1, <3>2, PeelsTag
    <3>4. Peels(h) \subseteq Peels(c) BY <1>1, <1>2, <2>1, <3>1, <3>2, PeelsTag
    <3>5. Cardinality(Peels(o)) = Cardinality(Peels(h)) + 1 BY <2>1, <3>1, <3>2, PeelsCount
    <3>6. Cardinality(Peels(h)) \in Nat BY PeelsFinite
    <3>7. next + 1 \in Nat /\ (next + 1) + Cardinality(Peels(h)) = Cardinality(Peels(c))
      BY <1>1, <1>2, <3>5, <3>6
    <3>8. obj' = h /\ pc' = "peel" BY <2>1, <2>3, <3>2
    <3>9. Commits(obj)' = Commits(h) /\ Peels(obj)' = Peels(h) BY <3>8 DEF Commits, Peels
    <3>10. Commits(Chosen)' = Commits(c) /\ Peels(Chosen)' = Peels(c) BY <1>3 DEF Commits, Peels
    <3> QED BY <2>1, <3>3, <3>4, <3>7, <3>8, <3>9, <3>10 DEF RefInv
  <2> QED BY <2>2, <2>3
<1>5. CASE ~(next < Depth /\ obj \in store \cap Headed) BY <1>5 DEF Peel, RefInv
<1> QED BY <1>4, <1>5

LEMMA RefInvNext == RefInv /\ [Next]_vars => RefInv'
<1> SUFFICES ASSUME RefInv, [Next]_vars PROVE RefInv' OBVIOUS
<1>1. ASSUME UNCHANGED <<wanted, advert, obj>>,
             \/ pc' \in {"main", "refs", "error", "killed", "refused"}
             \/ pc \in {"download", "parse", "resolve"} /\ pc' \in {"download", "parse"}
             \/ pc \in {"download", "parse", "resolve"} /\ pc' = "resolve" /\ next' \in Nat
             \/ pc \in {"count", "write", "done"} /\ pc' \in {"count", "write", "done"}
      PROVE  RefInv'
  <2>1. Chosen' = Chosen BY <1>1, SameChosen
  <2>2. TreeOf(Chosen)' = TreeOf(Chosen) BY <2>1 DEF TreeOf, Commits, Peels
  <2> QED BY <1>1, <2>1, <2>2 DEF RefInv
<1>2. CASE Main BY <1>1, <1>2 DEF Main, input
<1>3. CASE GetRefs
  <2>1. CASE RequestFails BY <2>1 DEF RequestFails, RefInv
  <2>2. ASSUME NEW refs \in Adverts, advert' = refs, obj' = SelectedRef(refs).oid, wanted' = wanted,
               pc' = IF SelectedRef(refs).match = 0 THEN "error" ELSE "download"
        PROVE  RefInv'
    <3>1. CASE SelectedRef(refs).match = 0 BY <2>2, <3>1 DEF RefInv
    <3>2. CASE SelectedRef(refs).match # 0
      <4>1. obj' = ChosenOf(refs) BY <2>2, <3>2, SelectedIsChosen
      <4>2. Chosen' = ChosenOf(refs) BY <2>2 DEF Chosen, ChosenOf, RefOf
      <4> QED BY <2>2, <3>2, <4>1, <4>2 DEF RefInv
    <3> QED BY <3>1, <3>2
  <2> QED BY <1>3, <2>1, <2>2 DEF GetRefs
<1>4. CASE UploadPack
  <2>1. UNCHANGED <<wanted, advert, obj>> /\ pc = "download" /\ pc' \in {"parse", "error"}
    BY <1>4 DEF UploadPack, RequestFails
  <2> QED BY <1>1, <2>1
<1>5. CASE ParseEntry
  <2>1. UNCHANGED <<wanted, advert, obj>> /\ pc = "parse" /\ pc' \in {"parse", "error"}
    BY <1>5 DEF ParseEntry, Add, input
  <2> QED BY <1>1, <2>1
<1>6. CASE ParseEnds BY <1>1, <1>6 DEF ParseEnds, input
<1>7. CASE Resolve
  <2>1. UNCHANGED <<wanted, advert, obj>> /\ pc = "resolve" /\ pc' \in {"resolve", "error"} /\ next' = next + 1
    BY <1>7 DEF Resolve, Add, input
  <2>2. next' \in Nat BY <2>1 DEF RefInv
  <2> QED BY <1>1, <2>1, <2>2
<1>8. CASE PassEnds
  <2>1. UNCHANGED <<wanted, advert, obj>> /\ pc = "resolve" /\ obj = Chosen BY <1>8 DEF PassEnds, input, RefInv
  <2>2. CASE madeProgress BY <1>1, <1>8, <2>1, <2>2 DEF PassEnds
  <2>3. CASE ~madeProgress
    <3>1. next' = 0 /\ pc' \in {"peel", "error"} BY <1>8, <2>3 DEF PassEnds
    <3>2. PICK c : c = Chosen OBVIOUS
    <3>3. Chosen' = c /\ obj' = c BY <2>1, <3>2, SameChosen
    <3>4. Commits(obj)' = Commits(Chosen)' /\ Peels(obj)' = Peels(Chosen)' /\ Peels(obj)' = Peels(c)
      BY <3>3 DEF Commits, Peels
    <3>5. Cardinality(Peels(c)) \in Nat BY PeelsFinite
    <3>6. 0 + Cardinality(Peels(c)) = Cardinality(Peels(c)) BY <3>5
    <3> QED BY <3>1, <3>4, <3>6 DEF RefInv
  <2> QED BY <2>2, <2>3
<1>9. CASE Count
  <2>1. UNCHANGED <<wanted, advert, obj>> /\ pc = "count" /\ pc' \in {"write", "error"} BY <1>9 DEF Count, input
  <2> QED BY <1>1, <2>1
<1>10. CASE Write
  <2>1. UNCHANGED <<wanted, advert, obj>> BY <1>10 DEF Write, input
  <2>2. pc = "write" /\ pc' \in {"write", "error"} BY <1>10 DEF Write
  <2> QED BY <1>1, <2>1, <2>2
<1>11. CASE Finish BY <1>1, <1>11 DEF Finish, input
<1>12. CASE Breaks BY <1>12 DEF Breaks, RefInv
<1>13. CASE Rerun BY <1>13 DEF Rerun, RefInv
<1>14. CASE UNCHANGED vars
  <2>1. UNCHANGED <<pc, wanted, advert, obj, next>> BY <1>14 DEF vars, input
  <2>2. Chosen' = Chosen BY <2>1, SameChosen
  <2>3. TreeOf(Chosen)' = TreeOf(Chosen) BY <2>2 DEF TreeOf, Commits, Peels
  <2>4. Commits(Chosen)' = Commits(Chosen) /\ Peels(Chosen)' = Peels(Chosen) BY <2>2 DEF Commits, Peels
  <2>5. Commits(obj)' = Commits(obj) /\ Peels(obj)' = Peels(obj) BY <2>1 DEF Commits, Peels
  <2> QED BY <2>1, <2>2, <2>3, <2>4, <2>5 DEF RefInv
<1> QED BY <1>2, <1>3, <1>4, <1>5, <1>6, <1>7, <1>8, <1>9, <1>10, <1>11, <1>12, <1>13, <1>14, RefInvPeel
        DEF Next, Program

-----------------------------------------------------------------------------
(* The directory: what is there and what is left to write are the tree     *)

DiskInv ==
  /\ pc \in {"refs", "download", "parse", "resolve", "peel", "count"} => disk = {}
  /\ pc = "write" =>
       /\ obj \in Trees /\ \A t \in Below(obj) : t \in store /\ Subtrees(t) \subseteq Trees
       /\ todo \in Seq(Items(obj))
       /\ disk \cup Rest(todo) = Files[obj]
  /\ pc = "done" => disk = Files[obj]

\* Put adds one of the tree's files: those there have other paths.
LEMMA PutIs ==
  ASSUME NEW t \in Trees, NEW item, NEW body, disk \subseteq Files[t],
         File(Path(item), item.entry.mode, body) \in Files[t], Put(item, body)
  PROVE  disk' = disk \cup {File(Path(item), item.entry.mode, body)}
<1>1. PICK new : new = File(Path(item), item.entry.mode, body) OBVIOUS
<1>2. new.path = Path(item) BY <1>1 DEF File
<1>3. \A f \in disk : f.path = Path(item) => f = new BY <1>1, <1>2, FilesUnique
<1>4. disk' = {f \in disk : f.path # Path(item)} \cup {new} BY <1>1 DEF Put, File
<1> QED BY <1>1, <1>3, <1>4

LEMMA EntryOf ==
  ASSUME NEW tree, NEW e \in EntriesBelow(tree)
  PROVE  /\ e.mode \in Modes
         /\ \E t \in Below(tree) : /\ t \in Trees
                                   /\ e.mode = "dir" => e.oid \in Subtrees(t)
                                   /\ \E i \in DOMAIN Entries[t.body] : e = Entries[t.body][i]
<1>1. PICK t \in Below(tree) : \E i \in DOMAIN Entries[t.body] : e = Entries[t.body][i] BY DEF EntriesBelow
<1>2. PICK i \in DOMAIN Entries[t.body] : e = Entries[t.body][i] BY <1>1
<1>3. t \in Trees /\ t.body \in DOMAIN Entries BY DEF Below, Trees
<1>4. e.mode \in Modes BY <1>2, <1>3, CloneAssumption
<1>5. e.mode = "dir" => e.oid \in Subtrees(t) BY <1>2 DEF Subtrees
<1> QED BY <1>2, <1>3, <1>4, <1>5

\* What Write finds, and what is left when it goes on
LEMMA WriteIs ==
  ASSUME DiskInv, Write
  PROVE  /\ pc = "write" /\ pc' \in {"write", "error"} /\ UNCHANGED <<wanted, advert, pack, obj, next, store, failed>>
         /\ \E item \in Items(obj) :
              /\ item.entry \in EntriesBelow(obj)
              /\ pc' = "error" => \/ item.entry.mode = "dir" /\ item.entry.oid \notin store \cap Trees
                                  \/ /\ item.entry.mode \in {"file", "exec", "link"}
                                     /\ ~(item.entry.oid \in store /\ item.entry.oid.type = "blob")
         /\ pc' = "write" => todo' \in Seq(Items(obj)) /\ disk' \cup Rest(todo') = Files[obj]
<1>1. /\ pc = "write" /\ todo # <<>> /\ obj \in Trees /\ todo \in Seq(Items(obj))
      /\ \A t \in Below(obj) : t \in store /\ Subtrees(t) \subseteq Trees
      /\ disk \cup Rest(todo) = Files[obj]
      /\ UNCHANGED <<wanted, advert, pack, obj, next, store, failed>>
  BY DEF DiskInv, Write, input, found
<1>2. PICK tree, S : tree = obj /\ S = Items(obj) OBVIOUS
<1>3. PICK item : item = Head(todo) OBVIOUS
<1>4. PICK tail : tail = Tail(todo) OBVIOUS
<1>5. item \in S /\ tail \in Seq(S) BY <1>1, <1>2, <1>3, <1>4
<1>6. Rest(todo) = Leaves(item) \cup Rest(tail) BY <1>1, <1>2, <1>3, <1>4, RestTail
<1>7. PICK e : e = item.entry OBVIOUS
<1>8. e \in EntriesBelow(tree) BY <1>2, <1>5, <1>7 DEF Items
<1>9. e.mode \in Modes BY <1>8, EntryOf
<1>10. Path(item) \in Seq(Names) BY <1>2, <1>5, LeavesOf
<1>11. CASE e.mode = "gitlink"
  <2>1. todo' = tail /\ pc' = pc /\ disk' = disk BY <1>3, <1>4, <1>7, <1>11 DEF Write
  <2>2. Leaves(item) = {} BY <1>2, <1>5, <1>7, <1>11, LeavesOf
  <2>3. todo' \in Seq(Items(obj)) /\ disk' \cup Rest(todo') = Files[obj] BY <1>1, <1>2, <1>5, <1>6, <2>1, <2>2
  <2> QED BY <1>1, <1>2, <1>5, <1>7, <1>8, <2>1, <2>3
<1>12. CASE e.mode = "dir"
  <2>1. Put(item, "none") /\ IF e.oid \in store \cap Trees
                             THEN todo' = Listed(e.oid, Path(item)) \o tail /\ pc' = pc
                             ELSE pc' = "error" /\ todo' = todo
    BY <1>3, <1>4, <1>7, <1>12 DEF Write
  <2>2. CASE e.oid \in store \cap Trees
    <3>1. PICK t \in Below(tree) : t \in Trees /\ e.oid \in Subtrees(t) BY <1>8, <1>12, EntryOf
    <3>2. e.oid \in Below(tree) BY <1>1, <1>2, <2>2, <3>1, BelowIs
    <3>3. PICK list, o : list = Listed(o, Path(item)) /\ o = e.oid OBVIOUS
    <3>4. list \in Seq(S) /\ Rest(list) = FilesIn(Path(item), Files[o]) BY <1>2, <1>10, <3>2, <3>3, RestListed
    <3>5. todo' = list \o tail /\ pc' = "write" BY <1>1, <2>1, <2>2, <3>3
    <3>6. Rest(todo') = Rest(list) \cup Rest(tail) BY <1>5, <3>4, <3>5, RestConcat
    <3>7. todo' \in Seq(S) BY <1>5, <3>4, <3>5
    <3>8. Leaves(item) = {File(Path(item), "dir", "none")} \cup Rest(list)
      BY <1>2, <1>5, <1>7, <1>12, <2>2, <3>3, <3>4, LeavesOf
    <3>9. File(Path(item), "dir", "none") \in Files[obj] /\ disk \subseteq Files[obj] BY <1>1, <1>6, <3>8
    <3>10. disk' = disk \cup {File(Path(item), "dir", "none")} BY <1>1, <1>7, <1>12, <2>1, <3>9, PutIs
    <3>11. disk' \cup Rest(todo') = Files[obj] BY <1>1, <1>6, <3>6, <3>8, <3>10
    <3> QED BY <1>1, <1>2, <1>5, <1>7, <1>8, <3>5, <3>7, <3>11
  <2>3. CASE e.oid \notin store \cap Trees BY <1>1, <1>2, <1>5, <1>7, <1>8, <1>12, <2>1, <2>3
  <2> QED BY <2>2, <2>3
<1>13. CASE e.mode \in {"file", "exec", "link"}
  <2>1. IF e.oid \in store /\ e.oid.type = "blob"
        THEN Put(item, e.oid.body) /\ todo' = tail /\ pc' = pc
        ELSE pc' = "error" /\ UNCHANGED <<todo, disk>>
    BY <1>3, <1>4, <1>7, <1>13 DEF Write
  <2>2. CASE e.oid \in store /\ e.oid.type = "blob"
    <3>1. Leaves(item) = {File(Path(item), e.mode, e.oid.body)} BY <1>2, <1>5, <1>7, <1>13, LeavesOf
    <3>2. File(Path(item), e.mode, e.oid.body) \in Files[obj] /\ disk \subseteq Files[obj] BY <1>1, <1>6, <3>1
    <3>3. disk' = disk \cup {File(Path(item), e.mode, e.oid.body)} BY <1>1, <1>7, <2>1, <2>2, <3>2, PutIs
    <3>4. todo' \in Seq(Items(obj)) /\ disk' \cup Rest(todo') = Files[obj]
      BY <1>1, <1>2, <1>5, <1>6, <2>1, <2>2, <3>1, <3>3
    <3> QED BY <1>1, <1>2, <1>5, <1>7, <1>8, <2>1, <2>2, <3>4
  <2>3. CASE ~(e.oid \in store /\ e.oid.type = "blob") BY <1>1, <1>2, <1>5, <1>7, <1>8, <1>13, <2>1, <2>3
  <2> QED BY <2>2, <2>3
<1> QED BY <1>9, <1>11, <1>12, <1>13 DEF Modes

LEMMA DiskInvCount == DiskInv /\ Count => DiskInv'
<1> SUFFICES ASSUME DiskInv, Count PROVE DiskInv' OBVIOUS
<1>1. pc = "count" /\ disk = {} /\ UNCHANGED <<obj, store, disk>> BY DEF DiskInv, Count, found
<1>2. CASE Countable(obj)
  <2>1. PICK t : t = obj OBVIOUS
  <2>2. obj' = t /\ t \in Trees /\ pc' = "write" /\ todo' = Listed(t, <<>>)
        /\ \A u \in Below(t) : u \in store /\ Subtrees(u) \subseteq Trees
    BY <1>1, <1>2, <2>1 DEF Count, Countable
  <2>3. t \in Below(t) BY <2>2, BelowIs
  <2>4. <<>> \in Seq(Names) OBVIOUS
  <2>5. todo' \in Seq(Items(t)) /\ Rest(todo') = FilesIn(<<>>, Files[t]) BY <2>2, <2>3, <2>4, RestListed
  <2>6. disk' \cup Rest(todo') = Files[t] BY <1>1, <2>2, <2>5, InNoDir
  <2>7. \A u \in Below(t) : u \in store' /\ Subtrees(u) \subseteq Trees BY <1>1, <2>2
  <2>8. obj' \in Trees /\ (\A u \in Below(obj') : u \in store' /\ Subtrees(u) \subseteq Trees)
        /\ todo' \in Seq(Items(obj')) /\ disk' \cup Rest(todo') = Files[obj']
    BY <2>2, <2>5, <2>6, <2>7
  <2> QED BY <2>2, <2>8 DEF DiskInv, Below, Items, EntriesBelow, Rest, Leaves, FilesIn, FilesOf, Inside
<1>3. CASE ~Countable(obj) BY <1>3 DEF Count, DiskInv
<1> QED BY <1>2, <1>3

LEMMA DiskInvNext == DiskInv /\ [Next]_vars => DiskInv'
<1> SUFFICES ASSUME DiskInv, [Next]_vars PROVE DiskInv' OBVIOUS
<1>1. ASSUME UNCHANGED disk,
             \/ pc' \in {"main", "error", "killed", "refused"} \/ (pc' = "refs" /\ disk = {})
             \/ /\ pc \in {"refs", "download", "parse", "resolve", "peel", "count"}
                /\ pc' \in {"refs", "download", "parse", "resolve", "peel", "count"}
      PROVE  DiskInv'
  BY <1>1 DEF DiskInv
<1>2. CASE Main BY <1>1, <1>2 DEF Main, OutputDirAvailable
<1>3. CASE GetRefs
  <2>1. pc = "refs" /\ pc' \in {"download", "error"} /\ disk' = disk BY <1>3 DEF GetRefs, RequestFails
  <2> QED BY <1>1, <2>1
<1>4. CASE UploadPack
  <2>1. pc = "download" /\ pc' \in {"parse", "error"} /\ disk' = disk BY <1>4 DEF UploadPack, RequestFails
  <2> QED BY <1>1, <2>1
<1>5. CASE ParseEntry
  <2>1. pc = "parse" /\ pc' \in {"parse", "error"} /\ disk' = disk BY <1>5 DEF ParseEntry, Add
  <2> QED BY <1>1, <2>1
<1>6. CASE ParseEnds BY <1>1, <1>6 DEF ParseEnds
<1>7. CASE Resolve
  <2>1. pc = "resolve" /\ pc' \in {"resolve", "error"} /\ disk' = disk BY <1>7 DEF Resolve, Add
  <2> QED BY <1>1, <2>1
<1>8. CASE PassEnds
  <2>1. pc = "resolve" /\ pc' \in {"resolve", "peel", "error"} /\ disk' = disk BY <1>8 DEF PassEnds
  <2> QED BY <1>1, <2>1
<1>9. CASE Peel
  <2>1. pc = "peel" /\ pc' \in {"peel", "count", "error"} /\ disk' = disk BY <1>9 DEF Peel
  <2> QED BY <1>1, <2>1
<1>10. CASE Count BY <1>10, DiskInvCount
<1>11. CASE Write
  <2>1. pc = "write" /\ pc' \in {"write", "error"} /\ obj' = obj /\ store' = store
        /\ (pc' = "write" => todo' \in Seq(Items(obj)) /\ disk' \cup Rest(todo') = Files[obj])
    BY <1>11, WriteIs
  <2>2. PICK o : o = obj OBVIOUS
  <2>3. o \in Trees /\ (\A t \in Below(o) : t \in store /\ Subtrees(t) \subseteq Trees) BY <2>1, <2>2 DEF DiskInv
  <2>4. CASE pc' = "write"
    <3>1. obj' \in Trees /\ (\A t \in Below(obj') : t \in store' /\ Subtrees(t) \subseteq Trees)
          /\ todo' \in Seq(Items(obj')) /\ disk' \cup Rest(todo') = Files[obj']
      BY <2>1, <2>2, <2>3, <2>4
    <3> QED BY <2>4, <3>1 DEF DiskInv, Below, Items, EntriesBelow, Rest, Leaves, FilesIn, FilesOf, Inside
  <2>5. CASE pc' = "error" BY <2>5 DEF DiskInv
  <2> QED BY <2>1, <2>4, <2>5
<1>12. CASE Finish
  <2>1. pc = "write" /\ todo = <<>> /\ pc' = "done" /\ UNCHANGED <<obj, disk>> BY <1>12 DEF Finish
  <2>2. DOMAIN todo = {} BY <2>1
  <2>3. Rest(todo) = {} BY <2>2 DEF Rest
  <2>4. disk = Files[obj] BY <2>1, <2>3 DEF DiskInv
  <2> QED BY <2>1, <2>4 DEF DiskInv
<1>13. CASE Breaks BY <1>13 DEF Breaks, DiskInv
<1>14. CASE Rerun BY <1>1, <1>14 DEF Rerun
<1>15. CASE UNCHANGED vars
  <2>1. UNCHANGED <<pc, obj, store, todo, disk>> BY <1>15 DEF vars, found
  <2>2. CASE pc = "write"
    <3>1. PICK o, list : o = obj /\ list = todo OBVIOUS
    <3>2. /\ o \in Trees /\ \A t \in Below(o) : t \in store /\ Subtrees(t) \subseteq Trees
          /\ list \in Seq(Items(o)) /\ disk \cup Rest(list) = Files[o]
      BY <2>2, <3>1 DEF DiskInv
    <3>3. /\ obj' \in Trees /\ \A t \in Below(obj') : t \in store' /\ Subtrees(t) \subseteq Trees
          /\ todo' \in Seq(Items(obj')) /\ disk' \cup Rest(todo') = Files[obj']
      BY <2>1, <3>1, <3>2
    <3> QED BY <2>1, <2>2, <3>3 DEF DiskInv, Below, Items, EntriesBelow, Rest, Leaves, FilesIn, FilesOf, Inside
  <2>3. CASE pc # "write" BY <2>1, <2>3 DEF DiskInv
  <2> QED BY <2>2, <2>3
<1> QED BY <1>2, <1>3, <1>4, <1>5, <1>6, <1>7, <1>8, <1>9, <1>10, <1>11, <1>12, <1>13, <1>14, <1>15
        DEF Next, Program

-----------------------------------------------------------------------------
(* What an error says                                                      *)

ErrorInv ==
  /\ pc = "error" /\ disk # {} /\ ~failed => pack # <<>> /\ Below(TreeOf(Chosen)) \subseteq store
  /\ pc = "error" /\ ~failed /\ pack # <<>> => ~Complete

\* Nothing of what Complete is about changes.
LEMMA SameComplete ==
  ASSUME UNCHANGED <<wanted, advert, pack>>
  PROVE  Complete' = Complete /\ TreeOf(Chosen)' = TreeOf(Chosen) /\ Below(TreeOf(Chosen))' = Below(TreeOf(Chosen))
<1>1. Chosen' = Chosen BY SameChosen
<1>2. TreeOf(Chosen)' = TreeOf(Chosen) BY <1>1 DEF TreeOf, Commits, Peels
<1>3. Below(TreeOf(Chosen))' = Below(TreeOf(Chosen)) BY <1>2 DEF Below
<1>4. Peels(Chosen)' = Peels(Chosen) /\ Commits(Chosen)' = Commits(Chosen) BY <1>1 DEF Peels, Commits
<1>5. Contents(TreeOf(Chosen))' = Contents(TreeOf(Chosen)) BY <1>2, <1>3 DEF Contents, Below
<1>6. Proper(TreeOf(Chosen))' = Proper(TreeOf(Chosen)) BY <1>3 DEF Proper, Below
<1>7. Sound' = Sound BY DEF Sound, BasesOf
<1>8. Complete' = Complete BY <1>2, <1>4, <1>5, <1>6, <1>7 DEF Complete
<1> QED BY <1>2, <1>3, <1>8

\* A complete pack: each object has one entry, and what is asked for is in it.
LEMMA CompleteIs ==
  ASSUME PackTyped, Complete, Kept, pending = {}
  PROVE  /\ \A o \in Peels(Chosen) : o \in store
         /\ \A o \in Contents(TreeOf(Chosen)) : o \in store
<1> SUFFICES ASSUME NEW o \in Peels(Chosen) \cup Contents(TreeOf(Chosen)) PROVE o \in store OBVIOUS
<1>1. PICK i \in DOMAIN pack : o = pack[i].oid BY DEF Complete
<1>2. at[i] # NoObject BY DEF Kept
<1>3. at[i] = o BY <1>1, <1>2 DEF PackTyped
<1> QED BY <1>2, <1>3 DEF PackTyped

\* When a pass leaves all that is pending, the pack is not sound.
LEMMA StuckIs ==
  ASSUME PackTyped, Kept, Stuck, next \notin DOMAIN pack, next > 0, pending # {}
  PROVE  ~Complete
<1> SUFFICES ASSUME Sound PROVE FALSE BY DEF Complete
<1> DEFINE S == DOMAIN pack \ pending
<1>1. \A i \in pending : Base(i) = NoObject
  <2>1. \A i \in DOMAIN pack : i < next
    <3>1. Len(pack) \in Nat /\ DOMAIN pack = 1 .. Len(pack) /\ next \in Nat BY PackIs DEF PackTyped
    <3> QED BY <3>1
  <2> QED BY <2>1 DEF Stuck, PackTyped
<1>2. ASSUME NEW i \in DOMAIN pack, pack[i].kind = "whole" \/ BasesOf(i) \cap S # {} PROVE i \in S
  <2> SUFFICES ASSUME i \in pending PROVE FALSE OBVIOUS
  <2>1. pack[i].kind # "whole" /\ Base(i) = NoObject BY <1>1 DEF PackTyped
  <2>2. PICK j \in BasesOf(i) : j \in S BY <1>2, <2>1
  <2>3. j \in DOMAIN pack /\ at[j] # NoObject /\ at[j] = pack[j].oid BY <2>2 DEF Kept, PackTyped
  <2>4. CASE pack[i].kind = "ref"
    <3>1. pack[j].oid = pack[i].base BY <2>2, <2>4 DEF BasesOf
    <3>2. pack[i].base \in store BY <2>3, <3>1 DEF PackTyped
    <3>3. Base(i) = pack[i].base BY <2>4, <3>2 DEF Base
    <3> QED BY <2>1, <2>3, <3>1, <3>3
  <2>5. CASE pack[i].kind # "ref"
    <3>1. j = i - pack[i].back BY <2>2, <2>5 DEF BasesOf
    <3>2. Base(i) = at[j] BY <2>3, <2>5, <3>1 DEF Base
    <3> QED BY <2>1, <2>3, <3>2
  <2> QED BY <2>4, <2>5
<1>3. S \in SUBSET DOMAIN pack OBVIOUS
<1> HIDE DEF S
<1>4. S = DOMAIN pack BY <1>2, <1>3 DEF Sound
<1>5. pending \subseteq DOMAIN pack BY DEF PackTyped
<1> QED BY <1>4, <1>5 DEF S

LEMMA ErrorInvParse ==
  ASSUME PackInv, DiskInv, ErrorInv, (ParseEntry \/ Resolve)
  PROVE  ErrorInv'
<1> SUFFICES ASSUME pc' = "error" PROVE ErrorInv' BY DEF ErrorInv
<1>1. PackTyped /\ pc \in {"parse", "resolve"} /\ next \in DOMAIN pack /\ UNCHANGED <<wanted, advert, pack, disk, failed>>
  BY DEF PackInv, ParseEntry, Resolve, input
<1>2. disk' = {} BY <1>1 DEF DiskInv
<1>3. at[next] = NoObject /\ Add(pack[next].oid)
  <2>1. CASE ParseEntry
    <3>1. at[next] = NoObject
      <4>1. pc = "parse" /\ ~(next < next) BY <1>1, <2>1 DEF ParseEntry, PackTyped
      <4> QED BY <1>1, <4>1 DEF PackInv
    <3> QED BY <2>1, <3>1 DEF ParseEntry
  <2>2. CASE Resolve
    <3>1. pc = "resolve" BY <2>2 DEF Resolve
    <3>2. next \in pending /\ Base(next) # NoObject /\ Add(Resolved(next)) BY <2>2, <3>1 DEF Resolve
    <3>3. at[next] = NoObject BY <1>1, <3>2 DEF PackTyped
    <3> QED BY <1>1, <3>2, <3>3, ResolvedIs
  <2> QED BY <2>1, <2>2
<1>4. PICK i \in DOMAIN pack : i # next /\ pack[i].oid = pack[next].oid
  <2>1. pc' # pc BY <1>1
  <2> QED BY <1>1, <1>3, <2>1, AddIs
<1>5. ~Complete BY <1>1, <1>4 DEF Complete
<1>6. ~Complete' BY <1>1, <1>5, SameComplete
<1> QED BY <1>2, <1>6 DEF ErrorInv

LEMMA ErrorInvPassEnds ==
  ASSUME PackInv, DiskInv, ErrorInv, PassEnds
  PROVE  ErrorInv'
<1> SUFFICES ASSUME pc' = "error" PROVE ErrorInv' BY DEF ErrorInv
<1>1. pc = "resolve" /\ next \notin DOMAIN pack /\ UNCHANGED <<wanted, advert, pack, disk, failed>> BY DEF PassEnds, input
<1>2. ~madeProgress /\ pending # {} BY <1>1 DEF PassEnds
<1>3. PackTyped /\ Kept /\ Stuck /\ next > 0 BY <1>1, <1>2 DEF PackInv
<1>4. ~Complete BY <1>1, <1>2, <1>3, StuckIs
<1>5. ~Complete' BY <1>1, <1>4, SameComplete
<1>6. disk' = {} BY <1>1 DEF DiskInv
<1> QED BY <1>5, <1>6 DEF ErrorInv

LEMMA ErrorInvPeel ==
  ASSUME PackInv, RefInv, DiskInv, ErrorInv, Peel
  PROVE  ErrorInv'
<1> SUFFICES ASSUME pc' = "error" PROVE ErrorInv' BY DEF ErrorInv
<1>1. pc = "peel" /\ UNCHANGED <<wanted, advert, pack, disk, failed>> BY DEF Peel, input
<1>2. ~(next < Depth /\ obj \in store \cap Headed) BY <1>1 DEF Peel
<1>3. PackTyped /\ Kept /\ pending = {} BY <1>1 DEF PackInv
<1>4. ~Complete
  <2> SUFFICES ASSUME Complete PROVE FALSE OBVIOUS
  <2>1. PICK c, o : c = Chosen /\ o = obj OBVIOUS
  <2>2. Commits(o) # {} /\ Commits(o) = Commits(c) /\ Peels(o) \subseteq Peels(c)
        /\ next \in Nat /\ next + Cardinality(Peels(o)) = Cardinality(Peels(c))
        /\ Cardinality(Peels(c)) <= Depth
    BY <1>1, <2>1 DEF RefInv, Complete
  <2>3. o \in Headed /\ o \in Peels(o) /\ Cardinality(Peels(o)) \in Nat \ {0} BY <2>2, PeelsLead
  <2>4. o \in store BY <1>3, <2>1, <2>2, <2>3, CompleteIs
  <2>5. next < Depth
    <3>1. PICK k, m : k = Cardinality(Peels(o)) /\ m = Cardinality(Peels(c)) OBVIOUS
    <3>2. k \in Nat \ {0} /\ next \in Nat /\ next + k = m /\ m <= Depth /\ Depth \in Nat
      BY <2>2, <2>3, <3>1, CloneAssumption
    <3> QED BY <3>2
  <2> QED BY <1>2, <2>1, <2>3, <2>4, <2>5
<1>5. ~Complete' BY <1>1, <1>4, SameComplete
<1>6. disk' = {} BY <1>1 DEF DiskInv
<1> QED BY <1>5, <1>6 DEF ErrorInv

LEMMA ErrorInvCount ==
  ASSUME PackInv, RefInv, DiskInv, ErrorInv, Count
  PROVE  ErrorInv'
<1> SUFFICES ASSUME pc' = "error" PROVE ErrorInv' BY DEF ErrorInv
<1>1. pc = "count" /\ ~Countable(obj) /\ UNCHANGED <<wanted, advert, pack, disk, failed>> BY DEF Count, input
<1>2. PackTyped /\ Kept /\ pending = {} BY <1>1 DEF PackInv
<1>3. ~Complete
  <2> SUFFICES ASSUME Complete PROVE FALSE OBVIOUS
  <2>1. PICK t : t = obj OBVIOUS
  <2>2. t = TreeOf(Chosen) BY <1>1, <2>1 DEF RefInv
  <2>3. t \in Trees /\ Proper(t) BY <2>2 DEF Complete
  <2>4. \A u \in Below(t) : u \in store BY <1>2, <2>2, CompleteIs DEF Contents
  <2>5. \A u \in Below(t) : Subtrees(u) \subseteq Trees BY <2>3 DEF Proper, Subtrees
  <2> QED BY <1>1, <2>1, <2>3, <2>4, <2>5 DEF Countable
<1>4. ~Complete' BY <1>1, <1>3, SameComplete
<1>5. disk' = {} BY <1>1 DEF DiskInv
<1> QED BY <1>4, <1>5 DEF ErrorInv

LEMMA ErrorInvWrite ==
  ASSUME PackInv, RefInv, DiskInv, ErrorInv, Write
  PROVE  ErrorInv'
<1> SUFFICES ASSUME pc' = "error" PROVE ErrorInv' BY DEF ErrorInv
<1>1. pc = "write" /\ UNCHANGED <<wanted, advert, pack, obj, store, failed>> BY WriteIs
<1>2. PICK e \in EntriesBelow(obj) : \/ e.mode = "dir" /\ e.oid \notin store \cap Trees
                                     \/ /\ e.mode \in {"file", "exec", "link"}
                                        /\ ~(e.oid \in store /\ e.oid.type = "blob")
  BY WriteIs
<1>3. PackTyped /\ Kept /\ pending = {} BY <1>1 DEF PackInv
<1>4. PICK tree : tree = obj OBVIOUS
<1>5. tree = TreeOf(Chosen) /\ tree \in Trees /\ (\A t \in Below(tree) : t \in store)
  BY <1>1, <1>4 DEF RefInv, DiskInv
<1>6. ~Complete
  <2> SUFFICES ASSUME Complete PROVE FALSE OBVIOUS
  <2>1. PICK t \in Below(tree) : \E i \in DOMAIN Entries[t.body] : e = Entries[t.body][i] BY <1>2, <1>4, EntryOf
  <2>2. Proper(tree) BY <1>5 DEF Complete
  <2>3. (e.mode = "dir" => e.oid \in Trees) /\ (e.mode \in {"file", "exec", "link"} => e.oid.type = "blob")
    BY <2>1, <2>2 DEF Proper
  <2>4. e.mode # "gitlink" BY <1>2
  <2>5. e.oid \in Contents(tree) BY <2>1, <2>4 DEF Contents
  <2>6. e.oid \in store BY <1>3, <1>5, <2>5, CompleteIs
  <2> QED BY <1>2, <2>3, <2>6
<1>7. ~Complete' BY <1>1, <1>6, SameComplete
<1>8. pack' # <<>>
  <2>1. tree \in Below(tree) BY <1>5, BelowIs
  <2>2. DOMAIN pack # {} BY <1>3, <1>5, <2>1 DEF PackTyped
  <2> QED BY <1>1, <2>2
<1>9. Below(TreeOf(Chosen))' = Below(tree) BY <1>1, <1>5, SameComplete
<1>10. Below(tree) \subseteq store' BY <1>1, <1>5
<1> QED BY <1>7, <1>8, <1>9, <1>10 DEF ErrorInv

LEMMA ErrorInvNext ==
  ASSUME PackInv, RefInv, DiskInv, ErrorInv, [Next]_vars
  PROVE  ErrorInv'
<1>1. ASSUME pc' # "error" \/ failed' = TRUE PROVE ErrorInv' BY <1>1 DEF ErrorInv
<1>2. CASE Main BY <1>1, <1>2 DEF Main
<1>3. CASE GetRefs
  <2>1. CASE RequestFails BY <1>1, <2>1 DEF RequestFails
  <2>2. CASE ~RequestFails
    <3>1. pc = "refs" /\ pack' = pack /\ disk' = disk BY <1>3, <2>2 DEF GetRefs
    <3>2. pack' = <<>> /\ disk' = {} BY <3>1 DEF PackInv, DiskInv
    <3> QED BY <3>2 DEF ErrorInv
  <2> QED BY <2>1, <2>2
<1>4. CASE UploadPack
  <2>1. pc' = "parse" \/ RequestFails BY <1>4 DEF UploadPack
  <2> QED BY <1>1, <2>1 DEF RequestFails
<1>5. CASE ParseEnds BY <1>1, <1>5 DEF ParseEnds
<1>6. CASE Finish BY <1>1, <1>6 DEF Finish
<1>7. CASE Breaks BY <1>1, <1>7 DEF Breaks
<1>8. CASE Rerun BY <1>1, <1>8 DEF Rerun
<1>9. CASE UNCHANGED vars
  <2>1. UNCHANGED <<pc, wanted, advert, pack, store, disk, failed>> BY <1>9 DEF vars, input, found
  <2>2. Complete' = Complete /\ Below(TreeOf(Chosen))' = Below(TreeOf(Chosen)) BY <2>1, SameComplete
  <2> QED BY <2>1, <2>2 DEF ErrorInv
<1> QED BY <1>2, <1>3, <1>4, <1>5, <1>6, <1>7, <1>8, <1>9, ErrorInvParse, ErrorInvPassEnds, ErrorInvPeel,
           ErrorInvCount, ErrorInvWrite DEF Next, Program

-----------------------------------------------------------------------------
(* The theorems                                                            *)

CloneInv == PackInv /\ RefInv /\ DiskInv /\ ErrorInv

LEMMA CloneInvHolds == Spec => []CloneInv
<1>1. Init => CloneInv
  <2>1. Init => RefInv /\ DiskInv /\ ErrorInv BY DEF Init, RefInv, DiskInv, ErrorInv
  <2> QED BY <2>1, PackInvInit DEF CloneInv
<1>2. CloneInv /\ [Next]_vars => CloneInv'
  BY PackInvNext, RefInvNext, DiskInvNext, ErrorInvNext DEF CloneInv
<1> QED BY <1>1, <1>2, PTL DEF Spec

\* A run of git-plain-clone that ends well has left the tree of the commit that was
\* asked for and nothing else; one that ends with an error after it began to write
\* had all the trees.
THEOREM CloneIsTree == Spec => []DoneIsTree
<1>1. CloneInv => DoneIsTree BY DEF CloneInv, RefInv, DiskInv, ErrorInv, DoneIsTree
<1> QED BY <1>1, CloneInvHolds, PTL

\* A pack with every object once is taken, in whatever order its deltas come.
THEOREM CompletePackIsTaken == Spec => []CompleteIsTaken
<1>1. CloneInv => CompleteIsTaken BY DEF CloneInv, ErrorInv, CompleteIsTaken
<1> QED BY <1>1, CloneInvHolds, PTL

=============================================================================
