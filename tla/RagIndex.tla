------------------------------ MODULE RagIndex ------------------------------
(***************************************************************************)
(* The index of a RAG project (src/src/rag-projects/service.ts,            *)
(* lance-store.ts, routes.ts): a folder of documents, tables of vectors    *)
(* and manifest.json, which says what was indexed and when.  A run of      *)
(* indexProject compares the folder with the manifest it read, deletes the *)
(* rows of removed and changed documents, indexes new and changed ones and *)
(* writes the manifest at its end.  Meanwhile the user edits the folder,   *)
(* turns of the supervisor list the projects, which reads the manifest and *)
(* makes a new one when it does not parse, and the program may stop.       *)
(*                                                                         *)
(* Time is counted in edits: the time of a document's last edit is also    *)
(* its content.  A handle of the store is the set of tables it knows.  The *)
(* first to need one opens it and puts it into the map of the service; a   *)
(* query may do so beside a run.  Otherwise queries change nothing.  The   *)
(* settings of a project, its strategies among them, stay as they are.     *)
(***************************************************************************)
EXTENDS Integers, FiniteSets

CONSTANTS
    Files,       \* documents that may be in the folder
    NoFile,      \* none of them
    Parts,       \* strategies; each has its table and gets one write for each
                 \* document, and without strategies there is one table
    MaxEdits,    \* bound on edits
    MaxRuns,     \* bound on runs
    MaxRestarts  \* bound on restarts of the program

ASSUME RagAssumption ==
    /\ NoFile \notin Files /\ Parts \in Nat \ {0}
    /\ MaxEdits \in Nat \ {0} /\ MaxRuns \in Nat /\ MaxRestarts \in Nat

VARIABLES
    disk,        \* the documents folder: when each was edited last, 0: not there
    clock,       \* edits so far
    vectors,     \* the vectors in the tables
    tables,      \* the tables there are
    store,       \* the handle in stores
    own,         \* the handle of the run, once it is not that one any more
    querying,    \* the handle that a query opens
    file,        \* manifest.json
    indexing,    \* indexingInProgress
    place,       \* where the run is
    force,       \* its parameter
    manifest,    \* the manifest it works on
    docFiles,    \* the documents it has found
    gone,        \* removed documents whose rows it has still to delete
    old,         \* changed documents whose rows it has still to delete
    todo,        \* documents it has still to index
    doing,       \* the document it indexes: name, content and rows written
    reader,      \* a turn that lists the projects
    runs,        \* runs so far
    restarts,    \* restarts so far
    \* history, for the properties:
    lost,        \* since the last whole forced run a run or the manifest was lost,
                 \* or a run had a handle that does not know all tables
    raced,       \* documents edited while they were indexed
    quiet        \* the folder was not edited since the run began

ragVars == <<disk, clock, vectors, tables, store, own, querying, file, indexing, place, force,
             manifest, docFiles, gone, old, todo, doing, reader, runs, restarts, lost, raced,
             quiet>>

folder == <<disk, clock>>
handles == <<store, own, querying>>
index == <<vectors, tables, handles>>
history == <<lost, raced, quiet>>

Times == 0 .. MaxEdits
Unknown == [status |-> "none", at |-> 0]
Entries == [status : {"none", "indexed", "failed"}, at : Times]
Manifests == [Files -> Entries]
NewManifest == [f \in Files |-> Unknown]
Absent == [kind |-> "absent", docs |-> NewManifest]
Torn == [kind |-> "torn", docs |-> NewManifest]
Whole(m) == [kind |-> "whole", docs |-> m]
Tables == 1 .. Parts
Handle(ts) == [there |-> TRUE, knows |-> ts]
NoHandle == [there |-> FALSE, knows |-> {}]
Handles == [there : BOOLEAN, knows : SUBSET Tables]
Nothing == [of |-> NoFile, time |-> 0, parts |-> 0]
Row == [of : Files, time : Times, run : 1 .. MaxRuns, part : Tables]

RagInit ==
    /\ disk \in [Files -> {0, 1}]
    /\ clock = 1
    /\ vectors = {} /\ tables = {}
    /\ store = NoHandle /\ own = NoHandle /\ querying = NoHandle
    /\ file = Absent
    /\ indexing = FALSE /\ place = "idle" /\ force = FALSE
    /\ manifest = NewManifest
    /\ docFiles = {} /\ gone = {} /\ old = {} /\ todo = {} /\ doing = Nothing
    /\ reader = "idle"
    /\ runs = 0 /\ restarts = 0
    /\ lost = FALSE /\ raced = {} /\ quiet = TRUE

-----------------------------------------------------------------------------
(* The run *)

work == <<docFiles, gone, old, todo, doing>>

\* indexProject(projectId, f): refused while a run is in progress.
Start(f) ==
    /\ ~indexing /\ runs < MaxRuns
    /\ indexing' = TRUE /\ place' = "loading" /\ force' = f
    /\ runs' = runs + 1
    /\ quiet' = TRUE
    /\ UNCHANGED <<folder, index, file, manifest, work, reader, restarts, lost, raced>>

\* The documents are listed as soon as the manifest is there.
Scan == docFiles' = {f \in Files : disk[f] # 0}

\* The manifest file says something of documents.
IsRecord == file.kind = "whole" /\ file.docs # NewManifest

\* loadOrCreateManifest: one that is not there, does not parse or cannot be read
\* is made anew.
Load ==
    /\ place = "loading"
    /\ \/ /\ file.kind = "whole"
          /\ manifest' = file.docs
          /\ Scan /\ place' = "opening"
          /\ UNCHANGED <<file, lost>>
       \/ /\ manifest' = NewManifest
          /\ file' = Torn
          /\ lost' = (lost \/ IsRecord)
          /\ place' = "creating"
          /\ UNCHANGED docFiles
    /\ UNCHANGED <<folder, index, indexing, force, gone, old, todo, doing, reader, runs,
                   restarts, raced, quiet>>

Created ==
    /\ place = "creating"
    /\ file' = Whole(NewManifest)
    /\ Scan /\ place' = "opening"
    /\ UNCHANGED <<folder, index, indexing, force, manifest, gone, old, todo, doing, reader,
                   runs, restarts, history>>

\* The run has its handle, and has changed the store or may have.
Begun == place \in {"clearing", "working", "saving"}

\* A run that ends with an error says nothing in the manifest file.
Abort ==
    /\ place' = "idle" /\ indexing' = FALSE
    /\ lost' = (lost \/ Begun)
    /\ docFiles' = {} /\ gone' = {} /\ old' = {} /\ todo' = {} /\ doing' = Nothing
    /\ own' = NoHandle
    /\ UNCHANGED <<folder, vectors, tables, store, querying, file, force, manifest, reader, runs,
                   restarts, raced, quiet>>

\* A bug: only the time of the last edit is looked at.
EditedOnly(m, f) == m[f].status = "indexed" /\ disk[f] > m[f].at + 1

\* A new document, one that failed, or one edited after it was indexed.
IsChanged(m, f) == m[f].status = "failed" \/ disk[f] > m[f].at

ToIndex(m) == {f \in docFiles : m[f].status = "none" \/ IsChanged(m, f)}

\* Documents are sorted out by what the manifest m says; the time of each is
\* looked up, which fails for one that was deleted since the scan.
Categorize(m) ==
    /\ \A f \in docFiles : disk[f] # 0
    /\ gone' = {f \in Files : m[f].status # "none"} \ docFiles
    /\ todo' = ToIndex(m)
    /\ old' = {f \in ToIndex(m) : m[f].status # "none"}
    /\ place' = "working"

\* The tables the run knows; a handle that knows one more, or one less.
Mine == IF own.there THEN own.knows ELSE store.knows
Knowing(h, n) == [h EXCEPT !.knows = @ \cup {n}]
Forgetting(h, n) == [h EXCEPT !.knows = @ \ {n}]

\* A handle in stores that does not know every table.
Misses == store.there /\ store.knows # tables

\* The store is open: by the handle in stores, or by one made now.
Opened ==
    /\ place = "opening"
    /\ store' = IF store.there THEN store ELSE Handle(tables)
    /\ lost' = (lost \/ Misses)
    /\ IF force THEN place' = "clearing" /\ UNCHANGED <<gone, old, todo>>
                ELSE Categorize(manifest)
    /\ UNCHANGED <<folder, vectors, tables, own, querying, file, indexing, force, manifest,
                   docFiles, doing, reader, runs, restarts, raced, quiet>>

\* A forced run drops one table after the other.  A handle of a dropped table is
\* as good as none.
DropTable(n) ==
    /\ place = "clearing" /\ n \in tables
    /\ tables' = tables \ {n}
    /\ vectors' = {r \in vectors : r.part # n}
    /\ store' = Forgetting(store, n) /\ own' = Forgetting(own, n)
    /\ querying' = Forgetting(querying, n)
    /\ UNCHANGED <<folder, file, indexing, place, force, manifest, work, reader, runs, restarts,
                   history>>

\* Then it opens the store anew, and every document counts as new.
Cleared ==
    /\ place = "clearing" /\ tables = {}
    /\ store' = Handle(tables) /\ own' = NoHandle
    /\ manifest' = NewManifest
    /\ Categorize(NewManifest)
    /\ UNCHANGED <<folder, vectors, tables, querying, file, indexing, force, docFiles, doing,
                   reader, runs, restarts, history>>

\* The rows of a document in the tables that the run knows.
Deleted(f) == {r \in vectors : r.of # f \/ r.part \notin Mine}

\* A bug: a document that is not there has no rows to delete.
ForgetGone(f) ==
    /\ place = "working" /\ f \in gone
    /\ manifest' = [manifest EXCEPT ![f] = Unknown]
    /\ gone' = gone \ {f}
    /\ UNCHANGED <<folder, index, file, indexing, place, force, docFiles, old, todo, doing,
                   reader, runs, restarts, history>>

\* The rows of a document that is no longer there.
RemoveGone(f) ==
    /\ place = "working" /\ f \in gone
    /\ vectors' = Deleted(f)
    /\ manifest' = [manifest EXCEPT ![f] = Unknown]
    /\ gone' = gone \ {f}
    /\ UNCHANGED <<folder, tables, handles, file, indexing, place, force, docFiles, old, todo,
                   doing, reader, runs, restarts, history>>

\* The rows a changed document had.
RemoveOld(f) ==
    /\ place = "working" /\ gone = {} /\ f \in old
    /\ vectors' = Deleted(f)
    /\ old' = old \ {f}
    /\ UNCHANGED <<folder, tables, handles, file, indexing, place, force, manifest, docFiles, gone,
                   todo, doing, reader, runs, restarts, history>>

\* loadAndChunkDocument
Read(f) ==
    /\ place = "working" /\ gone = {} /\ old = {} /\ doing.of = NoFile
    /\ f \in todo /\ disk[f] # 0
    /\ doing' = [of |-> f, time |-> disk[f], parts |-> 0]
    /\ raced' = raced \ {f}
    /\ UNCHANGED <<folder, index, file, indexing, place, force, manifest, docFiles, gone, old,
                   todo, reader, runs, restarts, lost, quiet>>

Working(f) == place = "working" /\ gone = {} /\ old = {} /\ f \in todo

\* The entry of f, and on to the next document.
Record(f, e) ==
    /\ manifest' = [manifest EXCEPT ![f] = e]
    /\ todo' = todo \ {f}
    /\ doing' = Nothing

\* One more write to the store, into the next table.  One that the run does not
\* know is made, which fails if it is there.
AddVectors ==
    LET n == doing.parts + 1 IN
    /\ doing.of # NoFile /\ doing.parts < Parts
    /\ n \in Mine \/ n \notin tables
    /\ vectors' = vectors \cup {[of |-> doing.of, time |-> doing.time, run |-> runs, part |-> n]}
    /\ tables' = tables \cup {n}
    /\ own' = IF own.there THEN Knowing(own, n) ELSE own
    /\ store' = IF own.there THEN store ELSE Knowing(store, n)
    /\ doing' = [doing EXCEPT !.parts = n]
    /\ UNCHANGED <<folder, querying, file, indexing, place, force, manifest, docFiles, gone, old,
                   todo, reader, runs, restarts, history>>

\* After the last write the document is recorded as indexed now, if it is still there.
Indexed(f) ==
    /\ Working(f) /\ doing.of = f /\ doing.parts = Parts
    /\ disk[f] # 0
    /\ Record(f, [status |-> "indexed", at |-> clock])
    /\ raced' = IF disk[f] # doing.time THEN raced \cup {f} ELSE raced
    /\ UNCHANGED <<folder, index, file, indexing, place, force, docFiles, gone, old, reader,
                   runs, restarts, lost, quiet>>

\* Reading, embedding or storing f fails: so it is recorded, if it is still there.
FailDocument(f) ==
    /\ Working(f) /\ doing.of \in {NoFile, f}
    /\ disk[f] # 0
    /\ Record(f, [status |-> "failed", at |-> 0])
    /\ UNCHANGED <<folder, index, file, indexing, place, force, docFiles, gone, old, reader,
                   runs, restarts, history>>

\* All documents are done: the manifest file is truncated and written.
SaveManifest ==
    /\ place = "working" /\ gone = {} /\ old = {} /\ todo = {}
    /\ file' = Torn /\ place' = "saving"
    /\ UNCHANGED <<folder, index, indexing, force, manifest, work, reader, runs, restarts,
                   history>>

Saved ==
    /\ place = "saving"
    /\ file' = Whole(manifest)
    /\ place' = "idle" /\ indexing' = FALSE
    /\ lost' = (lost /\ ~force)
    /\ docFiles' = {} /\ own' = NoHandle
    /\ UNCHANGED <<folder, vectors, tables, store, querying, force, manifest, gone, old, todo,
                   doing, reader, runs, restarts, raced, quiet>>

\* Where an error is not that of one document: in the store, in writing a file, or
\* when the time of a document that has been deleted is looked up, the handler of
\* errors included.
MayThrow ==
    \/ place \in {"creating", "opening", "clearing", "saving"}
    \/ place = "working" /\ (gone # {} \/ old # {} \/ todo = {})
    \/ \E f \in todo : Working(f) /\ disk[f] = 0 /\ doing.of \in {NoFile, f}

\* A bug: the flag is reset only where the run ends well.
ThrowsBusy ==
    /\ MayThrow
    /\ place' = "idle" /\ lost' = (lost \/ Begun)
    /\ docFiles' = {} /\ gone' = {} /\ old' = {} /\ todo' = {} /\ doing' = Nothing
    /\ own' = NoHandle
    /\ UNCHANGED <<folder, vectors, tables, store, querying, file, indexing, force, manifest,
                   reader, runs, restarts, raced, quiet>>

Throws == MayThrow /\ Abort

-----------------------------------------------------------------------------
(* The user, turns and restarts *)

\* A document is copied into the folder, uploaded or edited.
Edit(f) ==
    /\ clock < MaxEdits
    /\ clock' = clock + 1
    /\ disk' = [disk EXCEPT ![f] = clock + 1]
    /\ quiet' = FALSE
    /\ UNCHANGED <<index, file, indexing, place, force, manifest, work, reader, runs, restarts,
                   lost, raced>>

Remove(f) ==
    /\ disk[f] # 0
    /\ disk' = [disk EXCEPT ![f] = 0]
    /\ quiet' = FALSE
    /\ UNCHANGED <<clock, index, file, indexing, place, force, manifest, work, reader, runs,
                   restarts, lost, raced>>

\* listProjects, for the system prompt of a turn or for the page, or a query: a
\* manifest that was not there, did not parse or could not be read is made anew,
\* which truncates the file first, whatever is in it by then.
List ==
    /\ reader = "idle"
    /\ reader' = "writing"
    /\ file' = Torn
    /\ lost' = (lost \/ IsRecord)
    /\ UNCHANGED <<folder, index, indexing, place, force, manifest, work, runs, restarts, raced,
                   quiet>>

\* A short text over a longer one leaves the end of that one, and does not parse.
Listed ==
    /\ reader = "writing"
    /\ reader' = "idle"
    /\ file' = IF IsRecord THEN Torn ELSE Whole(NewManifest)
    /\ lost' = (lost \/ IsRecord)
    /\ UNCHANGED <<folder, index, indexing, place, force, manifest, work, runs, restarts, raced,
                   quiet>>

\* queryProject, the first to need the store: it finds no handle ...
QueryOpens ==
    /\ ~store.there /\ ~querying.there
    /\ querying' = Handle(tables)
    /\ UNCHANGED <<folder, vectors, tables, store, own, file, indexing, place, force, manifest,
                   work, reader, runs, restarts, history>>

\* ... and sets the one it made, whatever was set meanwhile.
QueryOpened ==
    /\ querying.there
    /\ store' = querying /\ querying' = NoHandle
    /\ own' = IF Begun /\ ~own.there THEN store ELSE own
    /\ UNCHANGED <<folder, vectors, tables, file, indexing, place, force, manifest, work, reader,
                   runs, restarts, history>>

\* The program ends and is started again.
RestartProgram ==
    /\ restarts < MaxRestarts
    /\ restarts' = restarts + 1
    /\ lost' = (lost \/ Begun)
    /\ indexing' = FALSE /\ place' = "idle" /\ reader' = "idle"
    /\ docFiles' = {} /\ gone' = {} /\ old' = {} /\ todo' = {} /\ doing' = Nothing
    /\ store' = NoHandle /\ own' = NoHandle /\ querying' = NoHandle
    /\ UNCHANGED <<folder, vectors, tables, file, force, manifest, runs, raced, quiet>>

RunStep ==
    \/ Load \/ Created \/ Opened \/ Cleared \/ AddVectors
    \/ \E n \in Tables : DropTable(n)
    \/ SaveManifest \/ Saved \/ Throws
    \/ \E f \in Files : RemoveGone(f) \/ RemoveOld(f) \/ Read(f) \/ Indexed(f) \/ FailDocument(f)

RagNext ==
    \/ \E f \in BOOLEAN : Start(f)
    \/ RunStep
    \/ \E f \in Files : Edit(f) \/ Remove(f)
    \/ List \/ Listed \/ QueryOpens \/ QueryOpened
    \/ RestartProgram

RagSpec == RagInit /\ [][RagNext]_ragVars

\* Every promise a run awaits is settled: the file system and the store answer,
\* the embedding service answers or its request fails.
RagFairSpec == RagSpec /\ WF_ragVars(RunStep)

-----------------------------------------------------------------------------
(* Properties *)

\* Every variable keeps its kind (the fields of RAGProjectService, the types
\* ProjectManifest and VectorRecord).
RagTypeOK ==
    /\ disk \in [Files -> Times] /\ clock \in 1 .. MaxEdits
    /\ vectors \subseteq Row /\ tables \subseteq Tables
    /\ store \in Handles /\ own \in Handles /\ querying \in Handles
    /\ file \in [kind : {"absent", "torn", "whole"}, docs : Manifests]
    /\ indexing \in BOOLEAN /\ force \in BOOLEAN
    /\ place \in {"idle", "loading", "creating", "opening", "clearing", "working", "saving"}
    /\ manifest \in Manifests
    /\ docFiles \subseteq Files /\ gone \subseteq Files
    /\ old \subseteq todo /\ todo \subseteq Files
    /\ doing \in [of : Files \cup {NoFile}, time : Times, parts : 0 .. Parts]
    /\ reader \in {"idle", "writing"}
    /\ runs \in 0 .. MaxRuns /\ restarts \in 0 .. MaxRestarts
    /\ lost \in BOOLEAN /\ raced \subseteq Files /\ quiet \in BOOLEAN

RowsOf(f) == {r \in vectors : r.of = f}

\* Between runs the store is what the manifest says: a document without an entry
\* has no rows, every document the rows of one run at most and an indexed one all
\* of them, of what is in the folder unless that was edited since.  Runs delete
\* and add rows one after the other and write the manifest at the very end, so
\* this holds only until a run or the manifest is lost, or a run works with a
\* handle that misses tables; a whole forced run restores it.
RecordMatchesRows ==
    ~indexing /\ ~lost /\ file.kind = "whole" =>
       \A f \in Files :
          /\ file.docs[f].status = "none" => RowsOf(f) = {}
          /\ \A r, q \in RowsOf(f) : r.run = q.run /\ r.time = q.time
          /\ file.docs[f].status = "indexed" =>
                /\ \A n \in 1 .. Parts : \E r \in RowsOf(f) : r.part = n
                /\ disk[f] \in 1 .. file.docs[f].at /\ f \notin raced =>
                      \A r \in RowsOf(f) : r.time = disk[f]

\* A run during which nobody edits the folder leaves every document either
\* recorded as failed or found by its present content: what a run skips as
\* unchanged needs no indexing ("Only re-indexes new or changed files").
QuietRunCovers ==
    [][place = "saving" /\ file' = Whole(manifest) /\ quiet /\ ~lost =>
          \A f \in Files : disk[f] # 0 /\ f \notin raced =>
             manifest[f].status = "failed" \/ \E r \in RowsOf(f) : r.time = disk[f]]_ragVars

\* "Only re-indexes new or changed files; skips unchanged files" (service.ts:284),
\* also if the change came while the document was being indexed.
ChangedIsReindexed ==
    [][place = "saving" /\ file' = Whole(manifest) /\ quiet /\ ~lost =>
          \A f \in Files : disk[f] # 0 =>
             manifest[f].status = "failed" \/ \E r \in RowsOf(f) : r.time = disk[f]]_ragVars

\* A run ends, and the next one can begin, whatever fails in it.
RunsEnd == indexing ~> ~indexing
=============================================================================
