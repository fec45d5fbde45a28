------------------------------ MODULE MeiliSync -----------------------------
(***************************************************************************)
(* sqlite2meilisearch: the rows of a query are uploaded in batches, the    *)
(* target is enumerated page by page, what the run did not generate is     *)
(* deleted in chunks, and a report says that index and source agree.       *)
(*                                                                         *)
(* A mutating request is first in flight, then a task in Meilisearch's     *)
(* queue, then done; the client may give up or die at every point of that  *)
(* way and leave the request or the task behind for the next run.          *)
(***************************************************************************)
EXTENDS Naturals, SequencesExt

CONSTANTS
  Ids,         (* document ids                                             *)
  Bad,         (* a row that cannot be read, transformed or validated      *)
  BatchSize,   (* MAX_BATCH_DOCUMENTS                                      *)
  MaxRows,     (* bound: rows of the query that yield a document or fail   *)
  MaxRuns      (* bound: invocations of the program                        *)

ASSUME SyncAssumption ==
  /\ Bad \notin Ids
  /\ BatchSize \in Nat \ {0} /\ MaxRows \in Nat /\ MaxRuns \in Nat

VARIABLES
  pc, runs,
  source,      (* what the rows of this run transform to                   *)
  pos,         (* the document in `next`; past the source: none            *)
  from,        (* the first document of `batch`, the last is before `next` *)
  offset, retained, stale,     (* remove_stale                             *)
  reply,       (* the state of the request or task the client waits for    *)
  flight,      (* requests sent and not yet accepted                       *)
  queue,       (* tasks accepted and not yet processed                     *)
  exists,      (* the target index exists                                  *)
  keyed,       (* and has the primary key of the command line              *)
  index,       (* its documents in the order they are enumerated           *)
  clean        (* history: nothing left of an earlier run can reach this one *)

client == <<pc, runs, source, pos, from, offset, retained, stale>>
server == <<exists, keyed, index>>
vars == <<client, reply, flight, queue, server, clean>>

Rows == BoundedSeq(Ids \cup {Bad}, MaxRows)
Documents == [id : Ids, val : 0 .. MaxRuns]
Distinct(S) == {s \in BoundedSeq(S, Cardinality(Ids)) : IsInjective(s)}
Ended == {"idle", "done", "failed"}
Waiting == {"create", "settings", "add", "delete"}

\* The contents of a document are the run that read it; 0 is older than all.
Requests == [own : BOOLEAN, kind : Waiting, ids : Seq(Ids), val : 1 .. MaxRuns]

TypeOK ==
  /\ pc \in Ended \cup Waiting \cup {"target", "load", "list", "prune", "stats", "report"}
  /\ runs \in 0 .. MaxRuns /\ source \in Rows
  /\ pos \in 1 .. Len(source) + 1 /\ from \in 1 .. pos
  /\ offset \in Nat /\ retained \in Nat /\ stale \in Seq(Ids)
  /\ reply \in {"none", "sent", "queued", "ok", "bad"}
  /\ flight \subseteq Requests /\ queue \in Seq(Requests)
  /\ exists \in BOOLEAN /\ keyed \in BOOLEAN /\ clean \in BOOLEAN
  /\ index \in Seq(Documents)

IndexIds == {index[i].id : i \in DOMAIN index}
\* documents.ids: `next` was put in when it was read
ReadIds == {source[i] : i \in DOMAIN source \cap 1 .. pos}

Init ==
  /\ pc = "idle" /\ runs = 0 /\ source = <<>> /\ pos = 1 /\ from = 1
  /\ offset = 0 /\ retained = 0 /\ stale = <<>>
  /\ reply = "none" /\ flight = {} /\ queue = <<>> /\ clean = TRUE
  /\ \E before \in Distinct(Ids) :
       index = [i \in DOMAIN before |-> [id |-> before[i], val |-> 0]]
  /\ \/ exists = TRUE /\ keyed \in BOOLEAN
     \/ exists = FALSE /\ keyed = TRUE /\ index = <<>>

-----------------------------------------------------------------------------
(* Requests of the client *)

\* What is still under way when the client gives up stays where it is.
Disown ==
  /\ flight' = {[r EXCEPT !.own = FALSE] : r \in flight}
  /\ queue' = [i \in DOMAIN queue |-> [queue[i] EXCEPT !.own = FALSE]]
  /\ reply' = "none"

Fail ==
  /\ pc' = "failed" /\ Disown
  /\ UNCHANGED <<runs, source, pos, from, offset, retained, stale>>

Submit(kind, ids) ==
  /\ flight' = flight \cup {[own |-> TRUE, kind |-> kind, ids |-> ids, val |-> runs]}
  /\ pc' = kind /\ reply' = "sent" /\ UNCHANGED queue

\* Mutants: an error of the task is taken for an answer; nobody waits for it.
AnyAnswer(kind) == pc = kind /\ reply \in {"ok", "bad"}
Submitted(kind) == pc = kind /\ reply \in {"queued", "ok"}

\* wait: only Task::Succeeded lets the run go on
Succeeded(kind) == pc = kind /\ reply = "ok"

Idle == UNCHANGED <<flight, queue>> /\ reply' = "none"

-----------------------------------------------------------------------------
(* run *)

\* The first document is read before anything is sent; without one the run
\* needs --allow-empty.
Start(rows) ==
  /\ pc \in Ended /\ runs < MaxRuns
  /\ runs' = runs + 1 /\ source' = rows /\ pos' = 1 /\ from' = 1
  /\ offset' = 0 /\ retained' = 0 /\ stale' = <<>>
  /\ clean' = (flight = {} /\ (queue = <<>> \/ rows # <<>>))
  /\ \E allowEmpty \in BOOLEAN :
       pc' = IF (rows = <<>> /\ ~allowEmpty) \/ (rows # <<>> /\ rows[1] = Bad)
             THEN "failed" ELSE "target"
  /\ UNCHANGED <<reply, flight, queue, server>>

\* set_settings when --settings is given
Configure ==
  \/ Submit("settings", <<>>)
  \/ pc' = "load" /\ Idle

Target ==
  /\ pc = "target"
  /\ \/ ~exists /\ Submit("create", <<>>)
     \/ exists /\ keyed /\ Configure
  /\ UNCHANGED <<runs, source, pos, from, offset, retained, stale, server, clean>>

Created ==
  /\ Succeeded("create") /\ Configure
  /\ UNCHANGED <<runs, source, pos, from, offset, retained, stale, server, clean>>

Applied ==
  /\ Succeeded("settings") /\ pc' = "load" /\ Idle
  /\ UNCHANGED <<runs, source, pos, from, offset, retained, stale, server, clean>>

Batch == SubSeq(source, from, pos - 1)

\* batch.push(document), then documents.next()
Push ==
  /\ pc = "load" /\ pos <= Len(source) /\ Len(Batch) < BatchSize
  /\ IF pos < Len(source) /\ source[pos + 1] \in ReadIds \cup {Bad}
     THEN Fail
     ELSE /\ pos' = pos + 1
          /\ UNCHANGED <<pc, runs, source, from, offset, retained, stale, reply, flight, queue>>
  /\ UNCHANGED <<server, clean>>

\* The batch is full, by its number of documents or its bytes, or the last.
Upload ==
  /\ pc = "load" /\ Batch # <<>>
  /\ Submit("add", Batch)
  /\ UNCHANGED <<runs, source, pos, from, offset, retained, stale, server, clean>>

Uploaded ==
  /\ Succeeded("add")
  /\ from' = pos /\ pc' = "load" /\ Idle
  /\ UNCHANGED <<runs, source, pos, offset, retained, stale, server, clean>>

Loaded ==
  /\ pc = "load" /\ pos > Len(source) /\ Batch = <<>>
  /\ pc' = "list" /\ Idle
  /\ UNCHANGED <<runs, source, pos, from, offset, retained, stale, server, clean>>

-----------------------------------------------------------------------------
(* remove_stale *)

\* The members of s at the places I, in their order.
Those(s, I) ==
  [k \in 1 .. Cardinality(I) |-> s[CHOOSE i \in I : Cardinality({j \in I : j <= i}) = k]]

Page == SubSeq(index, offset + 1, IF offset + BatchSize < Len(index)
                                  THEN offset + BatchSize ELSE Len(index))
PageIds == [i \in DOMAIN Page |-> Page[i].id]
Generated == {i \in DOMAIN PageIds : PageIds[i] \in ReadIds}
LastPage == Page = <<>> \/ offset + Len(Page) >= Len(index)

\* One page; after the last one nothing may be missing.
List ==
  /\ pc = "list"
  /\ offset' = offset + Len(Page)
  /\ retained' = retained + Cardinality(Generated)
  /\ stale' = stale \o Those(PageIds, DOMAIN PageIds \ Generated)
  /\ IF LastPage /\ retained' # Len(source)
     THEN pc' = "failed" /\ Disown
     ELSE pc' = (IF LastPage THEN "prune" ELSE "list") /\ Idle
  /\ UNCHANGED <<runs, source, pos, from, server, clean>>

Chunk == SubSeq(stale, 1, IF BatchSize < Len(stale) THEN BatchSize ELSE Len(stale))

Prune ==
  /\ pc = "prune"
  /\ IF stale = <<>> THEN pc' = "stats" /\ Idle ELSE Submit("delete", Chunk)
  /\ UNCHANGED <<runs, source, pos, from, offset, retained, stale, server, clean>>

Pruned ==
  /\ Succeeded("delete")
  /\ stale' = SubSeq(stale, Len(Chunk) + 1, Len(stale))
  /\ pc' = "prune" /\ Idle
  /\ UNCHANGED <<runs, source, pos, from, offset, retained, server, clean>>

-----------------------------------------------------------------------------
(* The end of run *)

Stats ==
  /\ pc = "stats" /\ Len(index) = Len(source)
  /\ pc' = "report" /\ Idle
  /\ UNCHANGED <<runs, source, pos, from, offset, retained, stale, server, clean>>

\* publish_report, or the report on stdout
Report ==
  /\ pc = "report" /\ pc' = "done" /\ Idle
  /\ UNCHANGED <<runs, source, pos, from, offset, retained, stale, server, clean>>

\* A request fails or times out, a task fails or times out, a check or the
\* report fails, the program is killed.
GiveUp ==
  /\ pc \notin Ended /\ Fail
  /\ UNCHANGED <<server, clean>>

-----------------------------------------------------------------------------
(* Meilisearch and the network: a request arrives or is lost, and tasks are *)
(* processed one after the other, each wholly or not at all.                *)

Accept ==
  \E r \in flight :
    /\ flight' = flight \ {r} /\ queue' = Append(queue, r)
    /\ reply' = IF r.own THEN "queued" ELSE reply
    /\ UNCHANGED <<client, server, clean>>

Lose ==
  \E r \in flight :
    /\ flight' = flight \ {r}
    /\ UNCHANGED <<client, reply, queue, server, clean>>

\* add_or_replace: a known id is replaced where it is, a new one appended
Added(ids, val) ==
  LET new == Those(ids, {i \in DOMAIN ids : ids[i] \notin IndexIds})
  IN  [i \in DOMAIN index |->
         IF index[i].id \in ToSet(ids) THEN [index[i] EXCEPT !.val = val] ELSE index[i]]
      \o [i \in DOMAIN new |-> [id |-> new[i], val |-> val]]

Remaining(ids) == Those(index, {i \in DOMAIN index : index[i].id \notin ToSet(ids)})

TaskSucceeds ==
  LET t == Head(queue)
  IN  /\ queue # <<>> /\ (t.kind = "create" => ~exists)
      /\ exists' = TRUE /\ UNCHANGED keyed
      /\ index' = CASE t.kind = "add" -> Added(t.ids, t.val)
                    [] t.kind = "delete" -> Remaining(t.ids)
                    [] OTHER -> index
      /\ reply' = IF t.own THEN "ok" ELSE reply
      /\ queue' = Tail(queue)
      /\ UNCHANGED <<client, flight, clean>>

TaskFails ==
  /\ queue # <<>>
  /\ reply' = IF Head(queue).own THEN "bad" ELSE reply
  /\ queue' = Tail(queue)
  /\ UNCHANGED <<client, flight, server, clean>>

-----------------------------------------------------------------------------
Client ==
  \/ Target \/ Created \/ Applied \/ Push \/ Upload \/ Uploaded \/ Loaded
  \/ List \/ Prune \/ Pruned \/ Stats \/ Report \/ GiveUp

Next ==
  \/ \E rows \in Rows : Start(rows)
  \/ Client
  \/ Accept \/ Lose \/ TaskSucceeds \/ TaskFails

Spec == Init /\ [][Next]_vars

-----------------------------------------------------------------------------
Synchronized == \A i \in DOMAIN source :
  \E j \in DOMAIN index : index[j] = [id |-> source[i], val |-> runs]

\* As long as a request to delete is under way, everything this run read is
\* in the index with this run's contents and none of it is to be deleted: a
\* run that ends early, whatever ends it, has removed nothing for which the
\* replacement is missing (remove_stale after the last upload, and its check).
\* Of earlier runs there may be tasks in the queue, but no request in flight when
\* the run starts (clean): an upload that arrives as late as that may put back
\* what this run has replaced, whatever the program does.
DeleteWhenComplete ==
  \A r \in flight \cup ToSet(queue) :
    clean /\ r.own /\ r.kind = "delete" =>
      Synchronized /\ ToSet(r.ids) \cap ToSet(source) = {}

\* Once a run has reported success the index is what it read, no more, no
\* less and no older, and stays so until the next run: nothing of the run is
\* still under way (run, wait).  Requests of an earlier run still in flight,
\* or its queued tasks when this run had nothing to upload, are outside what
\* the program can know ("server state may be unknown").
SuccessIsSync ==
  pc = "done" /\ clean => Synchronized /\ Len(index) = Len(source)

=============================================================================
