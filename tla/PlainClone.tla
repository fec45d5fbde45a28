----------------------------- MODULE PlainClone -----------------------------
(***************************************************************************)
(* git-plain-clone: Clone (internal/gitp/fetch.go) from the advertised     *)
(* refs to the files, and run again in the same directory.                 *)
(*                                                                         *)
(* An object is its type and its body, and is its own name: the hash is    *)
(* taken to be injective.  A place in the pack is the number of the entry. *)
(* The server, the disk and whoever kills the program are external.        *)
(***************************************************************************)
EXTENDS Integers, SequencesExt

CONSTANTS
  Header,       (* the object that a commit's or a tag's body names        *)
  Entries,      (* what a tree's body lists: name, mode and oid            *)
  Adverts,      (* the sequences of refs a server may advertise            *)
  Wanted,       (* what -b may ask for                                     *)
  Packs,        (* the sequences of entries a server may send              *)
  Depth         (* how many objects peelToCommit looks at                  *)

NoObject == [type |-> "none", body |-> "none"]
Trees    == [type : {"tree"}, body : DOMAIN Entries]
Headed   == [type : {"commit", "tag"}, body : DOMAIN Header]
Modes    == {"dir", "file", "exec", "link", "gitlink"}

Subtrees(tree) ==
  {Entries[tree.body][i].oid : i \in {j \in DOMAIN Entries[tree.body] :
                                        Entries[tree.body][j].mode = "dir"}}

\* A repository has one ref of a name, and a tree one entry.
ASSUME CloneAssumption ==
  /\ Depth \in Nat \ {0}
  /\ \A refs \in Adverts :
       /\ refs \in Seq(Range(refs))
       /\ \A i, j \in DOMAIN refs :
            refs[i].kind = refs[j].kind /\ (refs[i].kind = "head" \/ refs[i].name = refs[j].name) => i = j
  /\ \A body \in DOMAIN Entries :
       /\ Entries[body] \in Seq(Range(Entries[body]))
       /\ \A i, j \in DOMAIN Entries[body] : Entries[body][i].name = Entries[body][j].name => i = j
       /\ \A i \in DOMAIN Entries[body] : Entries[body][i].mode \in Modes

\* An entry of a pack stands for its object, and a delta has the type of its base.
ASSUME PacksAssumption ==
  \A pack \in Packs :
    /\ pack \in Seq(Range(pack))
    /\ \A i \in DOMAIN pack :
         /\ pack[i].kind \in {"whole", "ofs", "ref"} /\ pack[i].back \in Int
         /\ pack[i].oid \in [type : {"blob", "tree", "commit", "tag"}, body : {pack[i].oid.body}]
         /\ pack[i].kind = "ref" => pack[i].base.type = pack[i].oid.type
         /\ pack[i].kind = "ofs" /\ i - pack[i].back \in DOMAIN pack =>
              pack[i - pack[i].back].oid.type = pack[i].oid.type

\* No object names, over any number of others, itself: it would contain its hash.
ASSUME HashAssumption ==
  /\ \A S \in SUBSET Trees : S # {} => \E t \in S : Subtrees(t) \cap S = {}
  /\ \A S \in SUBSET Headed : S # {} => \E o \in S : Header[o.body] \notin S

VARIABLES
  pc, wanted, advert,
  obj,          (* selected.OID, then what peelToCommit has come to        *)
  pack, next,   (* the entry that is parsed or resolved; depth of the peel *)
  store, at,    (* byOID, byOffset                                         *)
  pending,      (* the deltas that still have their DeltaData              *)
  madeProgress,
  todo,         (* the tree entries not written yet, with their directory  *)
  disk,         (* the files, links and directories below outDir           *)
  failed        (* history: a request or the disk failed, or a kill        *)

input == <<wanted, advert, pack>>
found == <<store, at, pending, madeProgress>>
vars  == <<pc, input, obj, next, found, todo, disk, failed>>

Ended == pc \in {"done", "error", "killed", "refused"}

TypeOK ==
  /\ pc \in {"main", "refs", "download", "parse", "resolve", "peel", "count", "write",
             "done", "error", "killed", "refused"}
  /\ wanted \in Wanted /\ (advert = <<>> \/ advert \in Adverts)
  /\ next \in 0 .. Len(pack) + Depth + 1
  /\ DOMAIN at = DOMAIN pack /\ \A i \in DOMAIN at : at[i] \in store \cup {NoObject}
  /\ pending \subseteq {i \in DOMAIN pack : at[i] = NoObject}
  /\ madeProgress \in BOOLEAN /\ failed \in BOOLEAN
  /\ \A i \in DOMAIN todo : todo[i].entry.mode \in Modes

Init ==
  /\ pc = "main" /\ wanted \in Wanted /\ advert = <<>> /\ obj = NoObject
  /\ pack = <<>> /\ next = 1 /\ failed = FALSE /\ todo = <<>>
  /\ store = {} /\ at = <<>> /\ pending = {} /\ madeProgress = FALSE
  /\ disk = {}

-----------------------------------------------------------------------------
(* main, selectAdvertisedRef, the two requests                             *)

\* Mutant: the directory is not looked into.
AnyOutputDir == TRUE

\* No directory and an empty one are the same.
OutputDirAvailable == disk = {}

Main ==
  /\ pc = "main"
  /\ pc' = IF OutputDirAvailable THEN "refs" ELSE "refused"
  /\ UNCHANGED <<input, obj, next, found, todo, disk, failed>>

\* none, head, tag and branch, in this order
Match(ref) ==
  CASE wanted = "HEAD" -> IF ref.kind = "head" THEN 1 ELSE 0
    [] wanted # "HEAD" /\ ref.name = wanted /\ ref.kind = "tag" -> 2
    [] wanted # "HEAD" /\ ref.name = wanted /\ ref.kind = "branch" -> 3
    [] OTHER -> 0

\* The first of those that match best
SelectedRef(refs) ==
  LET best == {i \in DOMAIN refs : /\ Match(refs[i]) > 0
                                   /\ \A j \in DOMAIN refs : Match(refs[j]) <= Match(refs[i])
                                   /\ \A j \in 1 .. i - 1 : Match(refs[j]) < Match(refs[i])}
  IN  IF best = {} THEN [match |-> 0, oid |-> NoObject]
      ELSE LET ref == refs[CHOOSE i \in best : TRUE] IN [match |-> Match(ref), oid |-> ref.oid]

RequestFails == pc' = "error" /\ failed' = TRUE

GetRefs ==
  /\ pc = "refs"
  /\ \/ \E refs \in Adverts :
          /\ advert' = refs /\ obj' = SelectedRef(refs).oid
          /\ pc' = IF SelectedRef(refs).match = 0 THEN "error" ELSE "download"
          /\ UNCHANGED failed
     \/ RequestFails /\ UNCHANGED <<advert, obj>>
  /\ UNCHANGED <<wanted, pack, next, found, todo, disk>>

\* What is cut short or garbled fails, at the latest by its checksum.
UploadPack ==
  /\ pc = "download"
  /\ \/ \E p \in Packs : pack' = p /\ at' = [i \in DOMAIN p |-> NoObject]
        /\ pc' = "parse" /\ next' = 1 /\ UNCHANGED failed
     \/ RequestFails /\ UNCHANGED <<pack, at, next>>
  /\ UNCHANGED <<wanted, advert, obj, store, pending, madeProgress, todo, disk>>

-----------------------------------------------------------------------------
(* parsePack, resolveDeltas                                                *)

\* store.Add refuses an object that is there
Add(oid) ==
  IF oid \in store THEN pc' = "error" /\ UNCHANGED <<store, at>>
  ELSE store' = store \cup {oid} /\ at' = [at EXCEPT ![next] = oid] /\ UNCHANGED pc

ParseEntry ==
  /\ pc = "parse" /\ next \in DOMAIN pack /\ next' = next + 1
  /\ IF pack[next].kind = "whole" THEN Add(pack[next].oid) /\ UNCHANGED pending
     ELSE pending' = pending \cup {next} /\ UNCHANGED <<pc, store, at>>
  /\ UNCHANGED <<input, obj, madeProgress, todo, disk, failed>>

ParseEnds ==
  /\ pc = "parse" /\ next \notin DOMAIN pack
  /\ pc' = "resolve" /\ next' = 1
  /\ UNCHANGED <<input, obj, found, todo, disk, failed>>

\* nil is NoObject
Base(i) ==
  IF pack[i].kind = "ref" THEN IF pack[i].base \in store THEN pack[i].base ELSE NoObject
  ELSE IF i - pack[i].back \in DOMAIN pack THEN at[i - pack[i].back] ELSE NoObject

\* The type of a delta's object is that of its base.
Resolved(i) == [type |-> Base(i).type, body |-> pack[i].oid.body]

\* Mutant: every delta looked at counts as progress.
ResolveAnyProgress ==
  /\ pc = "resolve" /\ next \in DOMAIN pack /\ next' = next + 1
  /\ IF next \notin pending \/ Base(next) = NoObject
     THEN madeProgress' = (madeProgress \/ next \in pending) /\ UNCHANGED <<pc, store, at, pending>>
     ELSE /\ Add(Resolved(next))
          /\ pending' = pending \ {next} /\ madeProgress' = TRUE
  /\ UNCHANGED <<input, obj, todo, disk, failed>>

\* A delta whose base is not there yet waits for the next pass.
Resolve ==
  /\ pc = "resolve" /\ next \in DOMAIN pack /\ next' = next + 1
  /\ IF next \notin pending \/ Base(next) = NoObject THEN UNCHANGED <<pc, found>>
     ELSE /\ Add(Resolved(next))
          /\ pending' = pending \ {next} /\ madeProgress' = TRUE
  /\ UNCHANGED <<input, obj, todo, disk, failed>>

\* Mutant: a single pass.
PassIsLast ==
  /\ pc = "resolve" /\ next \notin DOMAIN pack
  /\ pc' = IF pending = {} THEN "peel" ELSE "error"
  /\ next' = 0
  /\ UNCHANGED <<input, obj, found, todo, disk, failed>>

PassEnds ==
  /\ pc = "resolve" /\ next \notin DOMAIN pack
  /\ IF madeProgress THEN next' = 1 /\ madeProgress' = FALSE /\ UNCHANGED pc
     ELSE /\ pc' = IF pending = {} THEN "peel" ELSE "error"
          /\ next' = 0 /\ UNCHANGED madeProgress
  /\ UNCHANGED <<input, obj, store, at, pending, todo, disk, failed>>

-----------------------------------------------------------------------------
(* peelToCommit, materialize                                               *)

Peel ==
  /\ pc = "peel"
  /\ IF next < Depth /\ obj \in store \cap Headed
     THEN /\ obj' = Header[obj.body] /\ next' = next + 1
          /\ pc' = IF obj.type = "commit" THEN "count" ELSE "peel"
     ELSE pc' = "error" /\ UNCHANGED <<obj, next>>
  /\ UNCHANGED <<input, found, todo, disk, failed>>

Listed(tree, dir) ==
  [i \in DOMAIN Entries[tree.body] |-> [dir |-> dir, entry |-> Entries[tree.body][i]]]

\* The tree and the trees in it: the least set that has the subtrees of its members
Below(tree) ==
  {t \in Trees : \A S \in SUBSET Trees :
     {tree} \cap Trees \subseteq S /\ (\A u \in S : Subtrees(u) \cap Trees \subseteq S) => t \in S}

\* countMaterializedEntries visits every tree below this one
Countable(tree) == tree \in Trees /\ \A t \in Below(tree) : t \in store /\ Subtrees(t) \subseteq Trees

Count ==
  /\ pc = "count"
  /\ IF Countable(obj) THEN pc' = "write" /\ todo' = Listed(obj, <<>>)
                       ELSE pc' = "error" /\ UNCHANGED todo
  /\ UNCHANGED <<input, obj, next, found, disk, failed>>

Path(item) == Append(item.dir, item.entry.name)
Put(item, body) ==
  disk' = {f \in disk : f.path # Path(item)}
          \cup {[path |-> Path(item), mode |-> item.entry.mode, body |-> body]}

\* The next entry of materializeTree, which descends into a directory at once.
Write ==
  /\ pc = "write" /\ todo # <<>>
  /\ LET item == Head(todo)  oid == item.entry.oid IN
     CASE item.entry.mode = "gitlink" -> todo' = Tail(todo) /\ UNCHANGED <<pc, disk>>
       [] item.entry.mode = "dir" ->
            /\ Put(item, "none")
            /\ IF oid \in store \cap Trees
               THEN todo' = Listed(oid, Path(item)) \o Tail(todo) /\ UNCHANGED pc
               ELSE pc' = "error" /\ UNCHANGED todo
       [] OTHER ->
            IF oid \in store /\ oid.type = "blob"
            THEN Put(item, oid.body) /\ todo' = Tail(todo) /\ UNCHANGED pc
            ELSE pc' = "error" /\ UNCHANGED <<todo, disk>>
  /\ UNCHANGED <<input, obj, next, found, failed>>

Finish ==
  /\ pc = "write" /\ todo = <<>>
  /\ pc' = "done"
  /\ UNCHANGED <<input, obj, next, found, todo, disk, failed>>

-----------------------------------------------------------------------------
(* What is outside                                                         *)

\* The disk is full or the program is killed: a file may be cut short.
Breaks ==
  /\ failed' = TRUE
  /\ \/ ~Ended /\ pc' = "killed" /\ UNCHANGED disk
     \/ /\ pc = "write" /\ todo # <<>> /\ pc' \in {"error", "killed"}
        /\ Put(Head(todo), "short") \/ UNCHANGED disk
  /\ UNCHANGED <<input, obj, next, found, todo>>

Rerun ==
  /\ Ended /\ pc # "refused"
  /\ pc' = "main" /\ wanted' \in Wanted /\ advert' = <<>> /\ obj' = NoObject
  /\ pack' = <<>> /\ next' = 1 /\ failed' = FALSE /\ todo' = <<>>
  /\ store' = {} /\ at' = <<>> /\ pending' = {} /\ madeProgress' = FALSE
  /\ UNCHANGED disk

Program ==
  \/ Main \/ GetRefs \/ UploadPack \/ ParseEntry \/ ParseEnds \/ Resolve \/ PassEnds
  \/ Peel \/ Count \/ Write \/ Finish

Next == Program \/ Breaks \/ Rerun

Spec == Init /\ [][Next]_vars
\* Nothing is assumed of the server; the program goes on by itself.
FairSpec == Spec /\ WF_vars(pc # "download" /\ Program)

-----------------------------------------------------------------------------
(* What should be on the disk, by recursion over the objects               *)

\* The files of an entry, given those inside of its tree
FilesOf(e, inside) ==
  CASE e.mode = "gitlink" -> {}
    [] e.mode = "dir" ->
         {[path |-> <<e.name>>, mode |-> "dir", body |-> "none"]}
         \cup {[path |-> <<e.name>> \o f.path, mode |-> f.mode, body |-> f.body] : f \in inside}
    [] OTHER -> {[path |-> <<e.name>>, mode |-> e.mode, body |-> e.oid.body]}

Files[tree \in Trees] ==
  UNION {FilesOf(Entries[tree.body][i],
                 IF Entries[tree.body][i].oid \in Trees THEN Files[Entries[tree.body][i].oid] ELSE {})
         : i \in DOMAIN Entries[tree.body]}

\* git takes the branch when a tag has the same name
RefOf(refs, kind) == {refs[i] : i \in {j \in DOMAIN refs :
                        refs[j].kind = kind /\ (kind = "head" \/ refs[j].name = wanted)}}
ChosenOf(refs) ==
  LET meant == IF wanted = "HEAD" THEN RefOf(refs, "head")
               ELSE IF RefOf(refs, "branch") # {} THEN RefOf(refs, "branch") ELSE RefOf(refs, "tag")
  IN  (CHOOSE ref \in meant : TRUE).oid
Chosen == ChosenOf(advert)

\* The objects on the way from o to its commit: the least set that has what its
\* tags name
Peels(o) ==
  {p \in Headed : \A S \in SUBSET Headed :
     /\ {o} \cap Headed \subseteq S
     /\ \A q \in S : q.type = "tag" => {Header[q.body]} \cap Headed \subseteq S
     => p \in S}
Commits(o) == {c \in Peels(o) : c.type = "commit"}
TreeOf(o)  == Header[(CHOOSE c \in Commits(o) : TRUE).body]

Contents(tree) ==
  Below(tree) \cup UNION {{Entries[t.body][i].oid : i \in {j \in DOMAIN Entries[t.body] :
                                                          Entries[t.body][j].mode # "gitlink"}}
                          : t \in Below(tree)}

\* The objects in a tree are what their modes say.
Proper(tree) ==
  \A t \in Below(tree) : \A i \in DOMAIN Entries[t.body] :
    LET e == Entries[t.body][i] IN
    /\ e.mode = "dir" => e.oid \in Trees
    /\ e.mode \in {"file", "exec", "link"} => e.oid.type = "blob"

\* Every delta has a base, in whatever order they come: no proper part of the pack
\* has the whole objects and with a base the deltas on it.
BasesOf(i) == IF pack[i].kind = "ref" THEN {j \in DOMAIN pack : pack[j].oid = pack[i].base}
              ELSE DOMAIN pack \cap {i - pack[i].back}
Sound ==
  \A S \in SUBSET DOMAIN pack :
    (\A i \in DOMAIN pack : pack[i].kind = "whole" \/ BasesOf(i) \cap S # {} => i \in S) => S = DOMAIN pack

Complete ==
  /\ \A i, j \in DOMAIN pack : pack[i].oid = pack[j].oid => i = j
  /\ Sound
  /\ Commits(Chosen) # {} /\ Cardinality(Peels(Chosen)) <= Depth
  /\ TreeOf(Chosen) \in Trees /\ Proper(TreeOf(Chosen))
  /\ Peels(Chosen) \cup Contents(TreeOf(Chosen)) \subseteq {pack[i].oid : i \in DOMAIN pack}

-----------------------------------------------------------------------------
(* Properties.                                                             *)

\* What a run leaves in the directory is what its ending says: the tree of the
\* commit asked for and nothing else if it ended well, whatever runs that were
\* killed or failed left there; and nothing if it ended for a tree that the pack
\* lacks and counting can find, so that the next run is not refused.
DoneIsTree ==
  /\ pc = "done" => disk = Files[TreeOf(Chosen)]
  /\ pc = "error" /\ disk # {} /\ ~failed =>
       pack # <<>> /\ Below(TreeOf(Chosen)) \subseteq store

\* A pack that has every object once is taken, in whatever order its deltas
\* and their bases come and however they chain.
CompleteIsTaken == pc = "error" /\ ~failed /\ pack # <<>> => ~Complete

\* Whatever the pack is, with missing bases or cycles of deltas, the run ends.
RunEnds == pc = "parse" ~> Ended

=============================================================================
