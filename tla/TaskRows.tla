------------------------------ MODULE TaskRows ------------------------------
(***************************************************************************)
(* The rows the ingestion pipeline keeps in PostgreSQL: one row per parse  *)
(* task and one per document, and the rules by which                       *)
(* advance-rag/db/services changes them.  Everything here is a constant    *)
(* operator: DocIngest decides when a rule is applied and to which row.    *)
(*                                                                         *)
(* A task's progress is the float column reduced to what its readers test: *)
(* Failed (-1), Open (0 <= p < 1) or Done (1).  The order of the three     *)
(* integers is the order of the floats.                                    *)
(***************************************************************************)
EXTENDS Integers, FiniteSets

CONSTANTS Docs,        \* documents of one dataset
          Pages,       \* page ranges a document is cut into
          Configs,     \* chunking configurations (what the digest hashes)
          MaxSplits,   \* bound: parse_init messages turned into task rows
          MaxRetries,  \* TASK_MAX_RETRIES
          None         \* no value

ASSUME BoundsAssumption == MaxSplits \in Nat /\ MaxRetries \in Nat
ASSUME FinitePages == IsFiniteSet(Pages)
ASSUME NoneAssumption == None \notin Docs \cup Configs

Failed == -1
Open   == 0
Done   == 1
Progress == {Failed, Open, Done}

(* One task row per page range and per split of the document.              *)
Task == [doc : Docs, split : 1 .. MaxSplits, page : Pages]

(* A chunk id is the hash of the chunk's text and of the document id, so   *)
(* the same page cut with the same configuration has the same id whatever  *)
(* task produced it.                                                       *)
Chunk == [doc : Docs, page : Pages, cfg : Configs]

ChunkOf(t, c) == [doc |-> t.doc, page |-> t.page, cfg |-> c]
ChunksOfDoc(d) == {k \in Chunk : k.doc = d}

Row == [live : BOOLEAN, progress : Progress, retry : Nat,
        cfg : Configs \cup {None}, chunks : SUBSET Chunk]

NoRow == [live |-> FALSE, progress |-> Open, retry |-> 0,
          cfg |-> None, chunks |-> {}]

-----------------------------------------------------------------------------
(* TaskService.update_progress: a report p is written unless the row has   *)
(* failed already or p is neither a failure nor an advance.                *)
Advances(old, p) == old # Failed /\ (p = Failed \/ p > old)

Reported(row, p) ==
    IF row.live /\ Advances(row.progress, p) THEN [row EXCEPT !.progress = p]
                                             ELSE row

(* TaskService.get_task: the fetch counts as an attempt and overwrites the *)
(* progress, whatever it was; past the last attempt the row is abandoned.  *)
Abandoned_OneMore(row) == row.retry > MaxRetries  \* mutant
Abandoned(row) == row.retry >= MaxRetries

Fetched_NeverFails(row) ==  \* mutant
    [row EXCEPT !.progress = Open, !.retry = @ + 1]

Fetched(row) ==
    [row EXCEPT !.progress = IF Abandoned(row) THEN Failed ELSE Open,
                !.retry = @ + 1]

-----------------------------------------------------------------------------
(* queue_tasks / reuse_prev_task_chunks: a new row for page p inherits the *)
(* chunks of a finished row of the same page range and digest.             *)
Reusable(row, c) == row.cfg = c /\ row.progress = Done /\ row.chunks # {}

NewRow(c, inherited) ==
    [live |-> TRUE, progress |-> IF inherited = {} THEN Open ELSE Done,
     retry |-> 0, cfg |-> c, chunks |-> inherited]

-----------------------------------------------------------------------------
DocRun == {"unstart", "running", "cancel", "done", "fail"}
DocProgress == {"neg", "zero", "part", "one"}

Doc == [live : BOOLEAN, run : DocRun, progress : DocProgress,
        chunkNum : Nat, cfg : Configs]

(* DocumentService._sync_progress: the verdict on a document, from the     *)
(* progress of its task rows.  "same" is the column left alone (prg = 0,   *)
(* only possible while no task is done).                                   *)
Verdict_NeverFails(ps, run) ==  \* mutant
    IF Open \in ps THEN {[run |-> run, progress |-> "part"]}
                   ELSE {[run |-> "done", progress |-> "one"]}

Verdict(ps, run) ==
    IF Open \in ps
    THEN {[run |-> run, progress |-> q] :
            q \in IF Done \in ps THEN {"part"} ELSE {"part", "same"}}
    ELSE IF Failed \in ps THEN {[run |-> "fail", progress |-> "neg"]}
                          ELSE {[run |-> "done", progress |-> "one"]}

(* The conditional UPDATE ... WHERE run IS NULL OR run != CANCEL.          *)
Synced_Always(doc, v) ==  \* mutant
    IF ~doc.live THEN doc
    ELSE [doc EXCEPT !.run = v.run,
                     !.progress = IF v.progress = "same" THEN @ ELSE v.progress]

Synced_Unchecked(doc, v) ==  \* mutant
    IF ~doc.live \/ doc.run = "cancel" THEN doc
    ELSE [doc EXCEPT !.run = v.run, !.progress = v.progress]

Synced(doc, v) ==
    IF ~doc.live \/ doc.run = "cancel" THEN doc
    ELSE [doc EXCEPT !.run = v.run,
                     !.progress = IF v.progress = "same" THEN @ ELSE v.progress]
=============================================================================
