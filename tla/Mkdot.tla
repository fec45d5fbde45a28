------------------------------- MODULE Mkdot --------------------------------
(***************************************************************************)
(* mkdot: installs the files of one or more topics into a base directory,  *)
(* where a name dot-x becomes .x, as copies or as symbolic links.  Any     *)
(* call may fail; the program goes on with the next entry.                 *)
(* A name is a prefix and what follows it, of which only the number of     *)
(* letters matters: none, one, or more ("none" is the empty string).  A    *)
(* topic is not the base itself.                                           *)
(***************************************************************************)
EXTENDS Naturals, SequencesExt

CONSTANTS Trees, Bases   (* bounds: contents of a topic; of the base before*)

\* Every path once, after the directories on the way to it.
Whole(tree) ==
  /\ \A d, e \in tree : d.path = e.path => d = e
  /\ \A e \in tree : /\ e.path \in Seq({"dot-", "none"} \X STRING) \ {<<>>}
                     /\ e.kind \in {"dir", "file"}
                     /\ \A i \in 1 .. Len(e.path) - 1 : \E d \in tree : d.path = SubSeq(e.path, 1, i) /\ d.kind = "dir"

ASSUME TreesAssumption == \A tree \in Trees : Whole(tree)

VARIABLES
  mk,                    (* "off", "walk" or "done"                        *)
  mode, use_symlink,
  trees,                 (* the topics                                     *)
  topic, walk,           (* the topic being installed; entries left of it  *)
  base, oldBase,         (* what the base directory holds, and held        *)
  resolves,              (* a link to a topic's name leads there           *)
  broke                  (* history: a call failed                         *)

mkOptions == <<mode, use_symlink, trees, oldBase, resolves>>
mkVars    == <<mk, mkOptions, topic, walk, base, broke>>

Letters(rest)   == CASE rest = "none" -> 0 [] rest = "a" -> 1 [] OTHER -> 2
Dot(rest)       == <<"dot-", rest>>
Plain(rest)     == <<"none", rest>>
Entry(p, k)     == [path |-> p, kind |-> k]
Held(p, k, f)   == [path |-> p, kind |-> k, from |-> f]

MkTypeOK ==
  /\ mk \in {"off", "walk", "done"} /\ mode \in {"force", "prompt", "skip"}
  /\ {use_symlink, resolves, broke} \subseteq BOOLEAN
  /\ topic \in 0 .. Len(trees) /\ \A r \in base : r.kind \in {"dir", "file", "link", "dangling"}
  /\ \A r, s \in base : r.path = s.path => r = s

MkInit ==
  /\ mk = "off" /\ mode = "force" /\ use_symlink = FALSE /\ trees = <<>> /\ topic = 0 /\ walk = {}
  /\ base = {} /\ oldBase = {} /\ resolves = FALSE /\ broke = FALSE

-----------------------------------------------------------------------------
(* target_dst                                                              *)

\* What the comment in target_dst asks for.
RuleName(n) == IF n[1] = "dot-" /\ n[2] # "none" THEN <<".", n[2]>> ELSE n
Rule(path)  == [i \in DOMAIN path |-> RuleName(path[i])]

\* The test for an empty rest looks one byte further than its first: behind a
\* single letter it finds the end, and behind none, at the end of the path, the
\* byte after it, which may be anything.
Renamed(path, past) ==
  [i \in DOMAIN path |->
     LET n     == path[i]
         bytes == Letters(n[2]) + (IF i < Len(path) THEN 2 ELSE 0)
         ends  == IF bytes = 0 THEN past ELSE bytes = 1
     IN  IF n[1] = "dot-" /\ ~ends THEN <<".", n[2]>> ELSE n]

\* A name that is a dot alone is the directory it is in.
Undotted(path) ==
  LET upTo[i \in 0 .. Len(path)] ==
        IF i = 0 THEN <<>>
        ELSE IF path[i] = <<".", "none">> THEN upTo[i - 1] ELSE Append(upTo[i - 1], path[i])
  IN  upTo[Len(path)]

\* Mutant: only the first name of a path is looked at.
TargetAtTop(path) ==
  {Undotted([i \in DOMAIN path |-> IF i = 1 THEN Renamed(path, past)[1] ELSE path[i]]) : past \in BOOLEAN}

\* The possible results.
Target(path) == {Undotted(Renamed(path, past)) : past \in BOOLEAN}

-----------------------------------------------------------------------------
(* install_handle                                                          *)

There(b, p)  == {r \in b : r.path = p}
IsDir(b, p)  == p = <<>> \/ \E r \in There(b, p) : r.kind = "dir"
Access(b, p) == p = <<>> \/ \E r \in There(b, p) : r.kind # "dangling"

ASSUME BasesAssumption ==
  \A b \in Bases : /\ \A r, s \in b : r.path = s.path => r = s
                   /\ \A r \in b : IsDir(b, Front(r.path)) /\ r.kind \in {"dir", "file", "link", "dangling"}

\* copy_file, link_file: what the base b may be after a success.  There is none
\* without the directory; a copy follows a link that leads nowhere yet, a new
\* link does not replace one.
Put(b, p) ==
  LET old == There(b, p)
  IN  IF ~IsDir(b, Front(p)) \/ (use_symlink /\ old # {}) THEN {}
      ELSE IF use_symlink THEN {b \cup {Held(p, IF resolves THEN "link" ELSE "dangling", topic)}}
      ELSE {(b \ old) \cup {Held(p, IF old = {} THEN "file" ELSE "link", topic)}}

\* A copy that fails may have written a part.
Partial(b, p) ==
  {b} \cup IF use_symlink THEN {} ELSE {(c \ There(c, p)) \cup {Held(p, "file", 0)} : c \in Put(b, p)}

\* ensure_dir
InstallDir(e, p) ==
  /\ e.kind = "dir"
  /\ \/ (p = <<>> \/ There(base, p) # {} \/ ~IsDir(base, Front(p))) /\ UNCHANGED <<base, broke>>
     \/ p # <<>> /\ There(base, p) = {} /\ IsDir(base, Front(p))
        /\ \/ base' = base \cup {Held(p, "dir", topic)} /\ UNCHANGED broke
           \/ broke' = TRUE /\ UNCHANGED base

\* What is there is kept by -n or the user, or cannot be removed.
Keep(e, p) ==
  /\ e.kind = "file" /\ Access(base, p) /\ UNCHANGED base
  /\ \/ (mode # "force" \/ IsDir(base, p)) /\ UNCHANGED broke
     \/ mode # "skip" /\ broke' = TRUE

\* unlink and write
Replace(e, p) ==
  /\ e.kind = "file" /\ ~IsDir(base, p) /\ (Access(base, p) => mode # "skip")
  /\ LET b == IF Access(base, p) THEN base \ There(base, p) ELSE base
     IN  \/ base' \in Put(b, p) /\ UNCHANGED broke
         \/ Put(b, p) = {} /\ base' = b /\ UNCHANGED broke
         \/ base' \in Partial(b, p) /\ broke' = TRUE

\* ftw goes on to the next entry, a directory before what is in it.
Install ==
  /\ mk = "walk"
  /\ \E e \in walk :
       /\ \A d \in walk : d = e \/ ~IsPrefix(d.path, e.path)
       /\ \/ walk' = walk \ {e} /\ \E p \in Target(e.path) : InstallDir(e, p) \/ Keep(e, p) \/ Replace(e, p)
          \/ walk' = {d \in walk : ~IsPrefix(e.path, d.path)} /\ broke' = TRUE /\ UNCHANGED base
  /\ UNCHANGED <<mk, mkOptions, topic>>

-----------------------------------------------------------------------------
(* main                                                                    *)

\* The options, realpath of the base, and which links lead back to the topics:
\* their names are given relative to the working directory.
MkStart ==
  /\ mk = "off"
  /\ \/ mk' = "done" /\ UNCHANGED <<mkOptions, topic, walk, base, broke>>
     \/ /\ mk' = "walk" /\ mode' \in {"force", "prompt", "skip"}
        /\ use_symlink' \in BOOLEAN /\ resolves' \in BOOLEAN
        /\ trees' \in Trees \X Trees /\ base' \in Bases /\ oldBase' = base'
        /\ topic' = 1 /\ walk' = trees'[1] /\ UNCHANGED broke

\* install_topic: a topic that is no directory is left out.
NextTopic ==
  /\ mk = "walk" /\ (walk = {} \/ walk = trees[topic])
  /\ broke' = (broke \/ walk # {})
  /\ IF topic = Len(trees) THEN mk' = "done" /\ walk' = {} /\ UNCHANGED topic
     ELSE topic' = topic + 1 /\ walk' = trees[topic + 1] /\ UNCHANGED mk
  /\ UNCHANGED <<mkOptions, base>>

MkNext == MkStart \/ Install \/ NextTopic

MkSpec == MkInit /\ [][MkNext]_mkVars

-----------------------------------------------------------------------------
(* Properties.                                                             *)

\* The file f of topic t can be installed where the comment in target_dst says:
\* each dot- in its path has two letters or more behind it, only files of earlier
\* topics end at the same place, and nothing but directories on the way to it.
Installable(t, f) ==
  LET place    == Rule(f.path)
      onTheWay == {SubSeq(place, 1, i) : i \in 1 .. Len(place) - 1}
      Others   == {u \in DOMAIN trees : \E e \in trees[u] : place \in Target(e.path) /\ ~(u = t /\ e = f)}
  IN  /\ f.kind = "file"
      /\ \A i \in DOMAIN f.path : f.path[i][1] = "dot-" => Letters(f.path[i][2]) = 2
      /\ \A u \in DOMAIN trees : \A e \in trees[u] :
           /\ place \in Target(e.path) => (u = t /\ e = f) \/ (e.kind = "file" /\ u < t)
           /\ Target(e.path) \cap onTheWay # {} => e.kind = "dir"
      /\ \A r \in oldBase : /\ r.path = place => r.kind # "dir"
                            /\ r.path \in onTheWay => r.kind = "dir"
      /\ use_symlink => \/ resolves /\ \A r \in oldBase : r.path = place => r.kind # "dangling"
                        \/ Others = {} /\ \A r \in oldBase : r.path # place

\* Two topics that overlap, links that lead nowhere and calls that fail: -n never
\* touches what is there, nothing goes that no file of a topic is to replace, and
\* while no call fails nothing goes at all and each file that can be installed is
\* found under its new name, the last topic's where there are several.
DotfilesInstalled ==
  mk = "done" =>
    /\ mode = "skip" => {r \in oldBase : r.kind # "dangling"} \subseteq base
    /\ \A r \in oldBase \ base : \E t \in DOMAIN trees : \E e \in trees[t] :
         e.kind = "file" /\ r.path \in Target(e.path)
    /\ ~broke => {r.path : r \in oldBase} \subseteq {r.path : r \in base}
    /\ ~broke /\ mode = "force" =>
         \A t \in DOMAIN trees : \A f \in trees[t] :
           Installable(t, f) => \E r \in base : r.path = Rule(f.path) /\ r.from = t

=============================================================================
