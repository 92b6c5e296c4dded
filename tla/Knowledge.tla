----------------------------- MODULE Knowledge -----------------------------
(***************************************************************************)
(* The knowledge base and the jobs that bring it up to date with a         *)
(* directory: ingest_directory of rag/ingest.py, on PostgreSQL, run by     *)
(* scripts/bootstrap.py.  Jobs overlap, files change under them, and any   *)
(* of their steps may fail; a job that fails is rolled back.               *)
(*                                                                         *)
(* A job reads one file at a time and embeds it before it reads the next.  *)
(* Nobody sees what it writes before it commits, so that one action stands *)
(* for the handling of a file, and the job's writes are kept with the job. *)
(***************************************************************************)
EXTENDS Integers, Sequences, FiniteSets

CONSTANTS
    Jobs,
    Paths,      \* of the files, as numbers: the jobs take them in sorted order
    Texts,      \* what a file may say
    Settings,   \* embedding provider, model and dimension, chunk size and overlap
    Legacy,     \* the settings of releases that kept no fingerprint
    Setting,    \* of each job: a deployment may change them
    Pieces,     \* [Texts \X Settings -> Seq(chunk texts)]: chunk_text, see Chunking
    Product,    \* of a text's front matter, or None
    Category,
    MaxEdits,   \* bound on the changes of files
    None

Documents == [text : Texts, print : (Texts \X Settings) \cup {None}]

ASSUME PathsAssumption == Paths \subseteq Nat /\ IsFiniteSet(Paths)
ASSUME SettingAssumption == Setting \in [Jobs -> Settings] /\ Legacy \subseteq Settings
ASSUME PiecesAssumption ==
    /\ DOMAIN Pieces = Texts \X Settings
    /\ \A x \in DOMAIN Pieces : Len(Pieces[x]) \in Nat /\ DOMAIN Pieces[x] = 1..Len(Pieces[x])
ASSUME EditsAssumption == MaxEdits \in Nat
ASSUME NoneAssumption == None \notin Jobs \cup Texts \cup (Texts \X Settings) \cup Documents

VARIABLES
    files,      \* the directory
    documents,  \* the rows of KnowledgeDocument, by source_path
    chunks,     \* the rows of DocumentChunk
    lock,       \* who holds pg_advisory_xact_lock
    jobs,
    edits,
    source      \* history: what the committed job had read, and its setting

kvars == <<files, documents, chunks, lock, jobs, edits, source>>

Row(p, t, s, i, j) ==
    [path |-> p, index |-> i, piece |-> Pieces[<<t, s>>][i], product |-> Product[t],
     category |-> Category[t], setting |-> s, by |-> j]

\* The chunks of a text; `by` tells the rows of one job from those of another.
Chunked(p, t, s, j) == {Row(p, t, s, i, j) : i \in DOMAIN Pieces[<<t, s>>]}

AllRows == UNION {Chunked(p, t, s, j) : p \in Paths, t \in Texts, s \in Settings,
                                       j \in Jobs \cup {None}}

RowsOf(p) == {c \in chunks : c.path = p}

\* A plausible bug: the model and the chunk size are left out.
FingerprintOfText(t, s) == t

\* What tells that a document need not be embedded again.
Fingerprint(t, s) == <<t, s>>

Nothing == [p \in Paths |-> None]

\* overtaken is history: a file was changed since the listing.
Idle == [stage |-> "idle", listing |-> {}, existing |-> Nothing, todo |-> {}, read |-> Nothing,
         written |-> {}, deleted |-> {}, overtaken |-> FALSE]

\* The base is empty, or has documents of a release without fingerprints.
KInit ==
    /\ files \in [Paths -> Texts \cup {None}]
    /\ \E old \in SUBSET Paths, t \in Texts, s \in Legacy :
          /\ documents = [p \in Paths |-> IF p \in old THEN [text |-> t, print |-> None] ELSE None]
          /\ chunks = UNION {Chunked(p, t, s, None) : p \in old}
    /\ lock = None
    /\ jobs = [j \in Jobs |-> Idle]
    /\ edits = 0
    /\ source = None

-----------------------------------------------------------------------------
Overtake ==
    [j \in Jobs |-> IF jobs[j].stage \in {"listed", "working"}
                    THEN [jobs[j] EXCEPT !.overtaken = TRUE] ELSE jobs[j]]

\* Somebody adds, changes or removes a file.
Edit(p, t) ==
    /\ edits < MaxEdits /\ files[p] # t
    /\ files' = [files EXCEPT ![p] = t]
    /\ edits' = edits + 1
    /\ jobs' = Overtake
    /\ UNCHANGED <<documents, chunks, lock, source>>

\* The directory is listed before the lock is asked for.
List(j) ==
    /\ jobs[j].stage = "idle"
    /\ jobs' = [jobs EXCEPT ![j].stage = "listed",
                            ![j].listing = {p \in Paths : files[p] # None}]
    /\ UNCHANGED <<files, documents, chunks, lock, edits, source>>

Enter(j) ==
    /\ jobs[j].stage = "listed" /\ lock = None
    /\ lock' = j
    /\ jobs' = [jobs EXCEPT ![j].stage = "working", ![j].todo = jobs[j].listing,
                            ![j].existing = documents]
    /\ UNCHANGED <<files, documents, chunks, edits, source>>

Upcoming(j, p) == p \in jobs[j].todo /\ \A q \in jobs[j].todo : p <= q

Unchanged(j, p) ==
    /\ jobs[j].existing[p] # None
    /\ jobs[j].existing[p].print = Fingerprint(files[p], Setting[j])

\* A file is read; a document that is new or changed is written and its chunks replaced.
Ingest(j, p) ==
    /\ jobs[j].stage = "working" /\ Upcoming(j, p) /\ files[p] # None
    /\ LET reading == [jobs[j] EXCEPT !.todo = @ \ {p}, !.read[p] = files[p]]
       IN  jobs' = [jobs EXCEPT ![j] =
                      IF Unchanged(j, p) THEN reading
                      ELSE [reading EXCEPT !.written = @ \cup {p},
                                           !.deleted = @ \cup RowsOf(p)]]
    /\ UNCHANGED <<files, documents, chunks, lock, edits, source>>

Document(j, p) ==
    [text |-> jobs[j].read[p], print |-> Fingerprint(jobs[j].read[p], Setting[j])]

\* A plausible bug: documents whose file has gone are kept.
StaleNever(j) == {}

Stale(j) == {p \in Paths : jobs[j].existing[p] # None} \ jobs[j].listing

\* The documents of files that were not listed go, and all is committed at once.
\* source_path is unique.
Commit(j) ==
    /\ jobs[j].stage = "working" /\ jobs[j].todo = {}
    /\ \A p \in jobs[j].written : jobs[j].existing[p] = None => documents[p] = None
    /\ documents' = [p \in Paths |-> IF p \in Stale(j) THEN None
                                     ELSE IF p \in jobs[j].written THEN Document(j, p)
                                     ELSE documents[p]]
    /\ chunks' = (chunks \ (jobs[j].deleted \cup {c \in chunks : c.path \in Stale(j)}))
                   \cup UNION {Chunked(p, jobs[j].read[p], Setting[j], j) : p \in jobs[j].written}
    /\ lock' = None
    /\ jobs' = [jobs EXCEPT ![j].stage = "done"]
    /\ source' = [read |-> jobs[j].read, setting |-> Setting[j]]
    /\ UNCHANGED <<files, edits>>

\* A plausible bug: the lock is held by the session and not by the transaction.
FailHoldingLock(j) ==
    /\ jobs[j].stage \in {"listed", "working"}
    /\ jobs' = [jobs EXCEPT ![j].stage = "failed"]
    /\ UNCHANGED <<files, documents, chunks, lock, edits, source>>

\* A file that went since it was listed, an embedding that fails or has the wrong dimension,
\* the loss of the process or of the database.
Fail(j) ==
    /\ jobs[j].stage \in {"listed", "working"}
    /\ jobs' = [jobs EXCEPT ![j].stage = "failed"]
    /\ lock' = IF lock = j THEN None ELSE lock
    /\ UNCHANGED <<files, documents, chunks, edits, source>>

KNext ==
    \/ \E p \in Paths, t \in Texts \cup {None} : Edit(p, t)
    \/ \E j \in Jobs : List(j) \/ Enter(j) \/ Commit(j) \/ Fail(j)
    \/ \E j \in Jobs, p \in Paths : Ingest(j, p)

\* A job at work goes on or fails: calls of the embedding provider and of the database
\* return or raise.  One that waits need not fail, and gets the lock when it stays free.
Step(j) ==
    \/ Enter(j) \/ Commit(j) \/ \E p \in Paths : Ingest(j, p)
    \/ (jobs[j].stage = "working" /\ Fail(j))

KSpec == KInit /\ [][KNext]_kvars /\ \A j \in Jobs : WF_kvars(Step(j))

-----------------------------------------------------------------------------
(***************************************************************************)
(* Properties.                                                             *)
(***************************************************************************)
Stages == {"idle", "listed", "working", "done", "failed"}

KTypeOK ==
    /\ files \in [Paths -> Texts \cup {None}]
    /\ documents \in [Paths -> Documents \cup {None}]
    /\ \A c \in chunks : c.path \in Paths
    /\ lock \in Jobs \cup {None}
    /\ \A j \in Jobs : jobs[j].stage \in Stages /\ jobs[j].listing \subseteq Paths
    /\ edits \in 0..MaxEdits

\* The base is exactly what ingesting everything the last committed job read into an
\* empty one would have made: no piece of an older text or model stays, none is missing
\* and none is there twice, whatever was skipped as unchanged, failed or waited.
BaseIsImage ==
    source # None =>
        /\ \A p \in Paths : documents[p] = None <=> source.read[p] = None
        /\ {[c EXCEPT !.by = None] : c \in chunks} =
              UNION {Chunked(p, source.read[p], source.setting, None) :
                        p \in {q \in Paths : documents[q] # None}}
        /\ \A c, d \in chunks : c.path = d.path /\ c.index = d.index => c = d

\* A job leaves the base in step with the directory, whatever other jobs did before it got
\* the lock, if the files have not changed since it listed them.  (If they have it may not:
\* what another job has added meanwhile it takes for a document whose file is gone.)
SyncedUnlessOvertaken ==
    [][\A j \in Jobs :
          jobs[j].stage = "working" /\ jobs'[j].stage = "done" /\ ~jobs[j].overtaken =>
             \A p \in Paths : IF files[p] = None THEN documents'[p] = None
                              ELSE documents'[p] # None /\ documents'[p].text = files[p]]_kvars

\* Jobs do not wait for one another for ever: each commits or fails.
EveryJobEnds ==
    \A j \in Jobs : jobs[j].stage = "listed" ~> jobs[j].stage \in {"done", "failed"}
=============================================================================
