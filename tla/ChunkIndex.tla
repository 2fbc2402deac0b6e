------------------------------ MODULE ChunkIndex ------------------------------
(***************************************************************************)
(* The search index of one document: the chunks of its versions in         *)
(* document_chunks, their vectors in Milvus, and the runs that write them  *)
(* (app/services/vectorization_service.py): one submitted to a thread pool *)
(* after every publish (app/api/v1/workflow.py), others by the requests of *)
(* app/api/v1/vectorization.py.                                            *)
(*                                                                         *)
(* A run is one READ COMMITTED transaction: it reads the nodes of its      *)
(* version, and writes them from the snapshot when there are none, calls   *)
(* the embedding service, retires the chunks of the version that its       *)
(* UPDATE sees, inserts its own, writes the vectors, and commits.  The     *)
(* chunks a run inserts are its generation.  A copy is one set of node     *)
(* rows of a version, named by the save or the run that wrote it.          *)
(***************************************************************************)
EXTENDS FiniteSets, Integers

CONSTANTS Version,  \* versions of the document
          Bare,     \* those saved before a save wrote node rows, which have none
          MaxRun,   \* bound on the indexing runs
          Save,     \* saves of drafts, each used once
          Pool,     \* threads of _VECTORIZATION_EXECUTOR
          None      \* no run yet, no generation

\* The runs, numbered as they are submitted.
Run == 1..MaxRun

ASSUME BareAreVersions == Bare \subseteq Version
ASSUME SavesAreNoRuns == MaxRun \in Nat /\ Save \cap Run = {}

VARIABLES status,   \* Version -> "draft", or "published", superseded or not
          nodes,    \* nodes: Version -> the copies that are committed
          run,      \* Run -> its progress, or None
          chunks,   \* document_chunks: Run -> its generation, or None
          vectors,  \* Milvus: the generations with vectors
          saved     \* the saves that were used

vars == <<status, nodes, run, chunks, vectors, saved>>

Ended == {"indexed", "error", "lost"}
Progress ==
  [kind : {"auto", "request"}, v : Version, copies : SUBSET (Run \cup Save),
   step : {"queued", "embedding", "retiring", "written"} \cup Ended,
   wrote : BOOLEAN, retires : SUBSET Run, inserts : BOOLEAN, failed : BOOLEAN,
   meets : SUBSET (Run \cup Save)]

ASSUME NoneIsNoValue == None \notin Progress \cup {"current", "retired"}

Begun(r) == run[r] # None
Fresh(r) == ~Begun(r) /\ \A q \in 1..r - 1 : Begun(q)
Active(r) == Begun(r) /\ run[r].step \notin Ended \cup {"queued"}
Of(v) == {r \in Run : Begun(r) /\ run[r].v = v}
Current(v) == {g \in Of(v) : chunks[g] = "current"}
Searchable(v) == Current(v) \cap vectors # {}

\* The copies a run can refer to: those committed and those it wrote itself.
Visible(r) == nodes[run[r].v] \cup (IF run[r].wrote THEN {r} ELSE {})

\* Mutant: a run holds what it waits for.
LockedWhileWaiting(r) ==
  IF run[r].step \in {"retiring", "written"} THEN run[r].retires ELSE {}

\* Rows of generations that r has retired and not committed.
Locked(r) == IF run[r].step = "written" THEN run[r].retires ELSE {}

At(r, step) == Begun(r) /\ run[r].step = step
Set(r, change) == run' = [run EXCEPT ![r] = change]

Queued(kind, v) ==
  [kind |-> kind, v |-> v, step |-> "queued", copies |-> {}, wrote |-> FALSE,
   retires |-> {}, inserts |-> FALSE, failed |-> FALSE, meets |-> {}]

-----------------------------------------------------------------------------
\* A draft is saved: its node rows are replaced.  The rows that uncommitted
\* chunks refer to are locked.
SaveDraft(v, k) ==
  /\ status[v] = "draft" /\ k \in Save \ saved
  /\ \A r \in Of(v) : At(r, "written") => run[r].copies \cap nodes[v] = {}
  /\ nodes' = [nodes EXCEPT ![v] = {k}]
  /\ saved' = saved \cup {k}
  /\ run' = [r \in Run |-> IF r \in Of(v) /\ Active(r)
                           THEN [run[r] EXCEPT !.meets = @ \cup {k}] ELSE run[r]]
  /\ UNCHANGED <<status, chunks, vectors>>

\* publish commits and _trigger_vectorization_async submits a run.
Publish(v, r) ==
  /\ status[v] = "draft" /\ Fresh(r)
  /\ status' = [status EXCEPT ![v] = "published"]
  /\ Set(r, Queued("auto", v))
  /\ UNCHANGED <<nodes, chunks, vectors, saved>>

\* reindex_document, reindex_all (the published version) and reindex_version.
Reindex(v, r) ==
  /\ Fresh(r)
  /\ Set(r, Queued("request", v))
  /\ UNCHANGED <<status, nodes, chunks, vectors, saved>>

-----------------------------------------------------------------------------
\* Mutant: the node rows are parsed whether there are some or not.
StartParsesAlways(r) ==
  LET meets == {q \in Of(run[r].v) : Active(q)}
  IN  /\ At(r, "queued")
      /\ run' = [q \in Run |->
                   CASE q = r -> [run[r] EXCEPT !.step = "embedding", !.meets = meets,
                                    !.wrote = TRUE, !.copies = {r}]
                     [] q \in meets -> [run[q] EXCEPT !.meets = @ \cup {r}]
                     [] OTHER -> run[q]]
      /\ UNCHANGED <<status, nodes, chunks, vectors, saved>>

\* _fetch_nodes; with no rows, _parse_nodes_from_snapshot inserts them.
Start(r) ==
  LET v     == run[r].v
      bare  == nodes[v] = {}
      meets == {q \in Of(v) : Active(q)}
  IN  /\ At(r, "queued")
      /\ run[r].kind = "auto" =>
           Cardinality({q \in Run : Active(q) /\ run[q].kind = "auto"}) < Pool
      /\ run' = [q \in Run |->
                   CASE q = r -> [run[r] EXCEPT !.step = "embedding", !.meets = meets,
                                    !.wrote = bare,
                                    !.copies = IF bare THEN {r} ELSE nodes[v]]
                     [] q \in meets -> [run[q] EXCEPT !.meets = @ \cup {r}]
                     [] OTHER -> run[q]]
      /\ UNCHANGED <<status, nodes, chunks, vectors, saved>>

\* Mutant: the chunks are retired before the provider is called.
EmbedRaisesRetired(r) ==
  /\ At(r, "embedding")
  /\ nodes' = [nodes EXCEPT ![run[r].v] = Visible(r)]
  /\ chunks' = [g \in Run |-> IF g \in Current(run[r].v) THEN "retired" ELSE chunks[g]]
  /\ Set(r, [run[r] EXCEPT !.step = "error"])
  /\ UNCHANGED <<status, vectors, saved>>

\* Chunking or the provider raises: the error is kept in the result, and the
\* session commits what the run has written so far.
EmbedRaises(r) ==
  /\ At(r, "embedding")
  /\ nodes' = [nodes EXCEPT ![run[r].v] = Visible(r)]
  /\ Set(r, [run[r] EXCEPT !.step = "error"])
  /\ UNCHANGED <<status, chunks, vectors, saved>>

\* Mutant: the chunks there are stay current.
RetireNothing(r) ==
  /\ At(r, "embedding")
  /\ Set(r, [run[r] EXCEPT !.step = "retiring"])
  /\ UNCHANGED <<status, nodes, chunks, vectors, saved>>

\* _soft_delete_existing_chunks begins: its UPDATE sees the committed chunks.
Retire(r) ==
  /\ At(r, "embedding")
  /\ Set(r, [run[r] EXCEPT !.step = "retiring", !.retires = Current(run[r].v)])
  /\ UNCHANGED <<status, nodes, chunks, vectors, saved>>

\* It has the rows, once nobody else holds them, and retires those still current.
\* _save_chunks inserts, one savepoint per chunk: the foreign key refuses a node
\* that is gone, and with ok FALSE every INSERT fails for another reason; the
\* errors are logged and counted.  The vectors of the rows inserted are written,
\* if the embeddings are not zero and Milvus answers.
Write(r, vec, ok) ==
  LET kept == IF ok THEN run[r].copies \cap Visible(r) ELSE {}
  IN  /\ At(r, "retiring")
      /\ \A q \in Run \ {r} : Begun(q) => Locked(q) \cap run[r].retires = {}
      /\ Set(r, [run[r] EXCEPT !.step = "written", !.copies = kept,
                               !.inserts = kept # {}, !.failed = ~ok,
                               !.retires = @ \cap Current(run[r].v)])
      /\ vectors' = IF vec /\ kept # {} THEN vectors \cup {r} ELSE vectors
      /\ UNCHANGED <<status, nodes, chunks, saved>>

\* The UPDATE fails, and its error is kept in the result, or the commit raises:
\* the transaction is rolled back.
RolledBack(r) ==
  /\ At(r, "retiring") \/ At(r, "written")
  /\ Set(r, [run[r] EXCEPT !.step = "error"])
  /\ UNCHANGED <<status, nodes, chunks, vectors, saved>>

Commit(r) ==
  /\ At(r, "written")
  /\ chunks' = [g \in Run |-> CASE g \in run[r].retires -> "retired"
                                [] g = r /\ run[r].inserts -> "current"
                                [] OTHER -> chunks[g]]
  /\ nodes' = [nodes EXCEPT ![run[r].v] = Visible(r)]
  /\ Set(r, [run[r] EXCEPT !.step = "indexed"])
  /\ UNCHANGED <<status, vectors, saved>>

\* The process stops: its runs, and the queue of its pool, are gone.
Crash ==
  /\ \E r \in Run : Begun(r) /\ run[r].step \notin Ended
  /\ run' = [r \in Run |-> IF Begun(r) /\ run[r].step \notin Ended
                           THEN [run[r] EXCEPT !.step = "lost"] ELSE run[r]]
  /\ UNCHANGED <<status, nodes, chunks, vectors, saved>>

\* Mutant: the vectors are deleted by version.
CleanupByVersion(S) ==
  /\ S # {} /\ \A g \in S : chunks[g] = "retired"
  /\ chunks' = [g \in Run |-> IF g \in S THEN None ELSE chunks[g]]
  /\ vectors' = vectors \ UNION {Of(run[g].v) : g \in S}
  /\ UNCHANGED <<status, nodes, run, saved>>

\* cleanup_old_chunks deletes retired rows; the vectors stay.
Cleanup(S) ==
  /\ S # {} /\ \A g \in S : chunks[g] = "retired"
  /\ chunks' = [g \in Run |-> IF g \in S THEN None ELSE chunks[g]]
  /\ UNCHANGED <<status, nodes, run, vectors, saved>>

-----------------------------------------------------------------------------
Init ==
  /\ status = [v \in Version |-> "draft"]
  /\ \E first \in [Version \ Bare -> Save] :
       /\ nodes = [v \in Version |-> IF v \in Bare THEN {} ELSE {first[v]}]
       /\ saved = {first[v] : v \in Version \ Bare}
       /\ \A v, w \in Version \ Bare : first[v] = first[w] => v = w
  /\ run = [r \in Run |-> None]
  /\ chunks = [r \in Run |-> None]
  /\ vectors = {}

Goes(r) == Start(r) \/ Retire(r) \/ (\E vec, ok \in BOOLEAN : Write(r, vec, ok)) \/ Commit(r)
Fails(r) == EmbedRaises(r) \/ RolledBack(r)

Next ==
  \/ \E v \in Version :
       \/ \E k \in Save : SaveDraft(v, k)
       \/ \E r \in Run : Publish(v, r) \/ Reindex(v, r)
  \/ \E r \in Run : Goes(r) \/ Fails(r)
  \/ Crash
  \/ \E S \in SUBSET Run : Cleanup(S)

Spec == Init /\ [][Next]_vars

\* A thread that runs goes on, a free thread of the pool takes the next run, and
\* a statement has its rows once they are free.  No run need ever fail.
FairSpec == Spec /\ \A r \in Run : WF_vars(Goes(r))

-----------------------------------------------------------------------------
TypeOK ==
  /\ status \in [Version -> {"draft", "published"}]
  /\ nodes \in [Version -> SUBSET (Run \cup Save)]
  /\ run \in [Run -> Progress \cup {None}]
  /\ chunks \in [Run -> {"current", "retired", None}]
  /\ vectors \subseteq Run /\ saved \subseteq Save

\* A version is in the index once: it has two current generations only if the
\* runs that wrote them were under way together.
OneGenerationUnlessTogether ==
  \A v \in Version : \A g, h \in Current(v) : g # h => h \in run[g].meets

\* The node rows of a version, which every later run reads, are one copy: a run
\* leaves a second one only if another run or a save wrote meanwhile.
OneCopyUnlessTogether ==
  \A v \in Version : \A r \in nodes[v] \cap Run : nodes[v] \ {r} \subseteq run[r].meets

\* A published version that has chunks has some after every step, whatever run
\* raises, is rolled back or stops: only the commit of a run that inserted nothing
\* takes them, because each of its INSERTs failed or the draft was saved meanwhile.
ChunksStay ==
  [][\A v \in Version :
       status[v] # "draft" /\ Current(v) # {} /\ Current(v)' = {} =>
         \E r \in Of(v) : /\ At(r, "written") /\ ~run[r].inserts
                          /\ run[r].failed \/ run[r].meets \cap Save # {}]_vars

\* A version that can be found by its vectors can be found after every step, unless
\* it is the commit of a run that got no vectors.
SearchStays ==
  [][\A v \in Version :
       status[v] # "draft" /\ Searchable(v) /\ ~Searchable(v)' =>
         \E r \in Of(v) \ vectors : At(r, "written") /\ ~At(r, "written")']_vars

\* Every run comes to an end, whatever it waits for.
RunsEnd == \A r \in Run : At(r, "queued") ~> (Begun(r) /\ run[r].step \in Ended)
=============================================================================
