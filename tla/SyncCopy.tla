------------------------------ MODULE SyncCopy ------------------------------
(***************************************************************************)
(* What the syncs of a connector do to the documents of its knowledge      *)
(* base: handle_task of advance-rag/connector_sync_worker.py copies the    *)
(* source and the API server moves the connector's cursor when it hears    *)
(* that a sync completed.  SyncLock says when a sync may start and who     *)
(* hears of it; here any two syncs may overlap, and any of the subscribers *)
(* of the channel may hear.                                                *)
(*                                                                         *)
(* Time is counted by the changes of the source.  A knowledge-base row has *)
(* the version of the text it holds and the delta fields recorded beside   *)
(* it: their stamp is 0 as long as they (source_doc_id too) are null.      *)
(***************************************************************************)
EXTENDS Integers, FiniteSets

CONSTANTS Docs,      \* documents the source may hold
          QueryReturns,  \* what DocumentService.query returns: a "list"
                     \* (BaseModel.query), a "select" (its docstring)
          Starts,    \* range starts a user may ask for (poll_range_start)
          Checkpointed,  \* the connector is a CheckpointedConnector
          MaxSyncs,  \* bound: syncs
          MaxClock,  \* bound: changes of the source
          MaxFaults  \* bound: failed batches, uploads and removals, failed
                     \* or killed syncs, cascades

ASSUME CopyAssumption ==
    /\ MaxSyncs \in Nat /\ MaxClock \in Nat \ {0} /\ MaxFaults \in Nat
    /\ Starts \subseteq 0 .. MaxClock /\ Checkpointed \in BOOLEAN

VARIABLES
    src,      \* time of the last change of a document in the source, 0: gone
    clock,    \* now
    kb,       \* the document rows
    cursor,   \* connector.last_synced_at, 0: null
    live,     \* the connector exists
    job,      \* the syncs
    booking,  \* syncs whose subscriber has heard of a completion and is to
              \* write the cursor
    faults,   \* counter behind the bound
    touched,  \* history: documents whose last change fell in a sync
    missed    \* history: documents a sync passed without saving their last
              \* change, or whose row was removed since it

vars == <<src, clock, kb, cursor, live, job, booking, faults, touched, missed>>

Syncs == 1 .. MaxSyncs
Time == 0 .. MaxClock
DocRow == [text : Time, stamp : Time]
NoDoc == [text |-> 0, stamp |-> 0]
InKb(x) == kb[x].text # 0
Tracked(x) == kb[x].stamp # 0

(* The manifest is the rows as they were when the sync began.  Two fields  *)
(* are history: gone is what the source lacked at some moment since, lost  *)
(* what the sync left out though the source had it.                        *)
JobAt == {"none", "found", "fetch", "sweep", "over"}
Job == [at : JobAt, full : BOOLEAN, since : Time, from : Time,
        man : [Docs -> DocRow], todo : SUBSET Docs, seen : SUBSET Docs,
        gone : SUBSET Docs, lost : SUBSET Docs]
NoJob == [at |-> "none", full |-> FALSE, since |-> 0, from |-> 0,
          man |-> [x \in Docs |-> NoDoc], todo |-> {}, seen |-> {},
          gone |-> {}, lost |-> {}]

Init ==
    /\ clock = 1 /\ src \in [Docs -> {0, 1}]
    /\ kb = [x \in Docs |-> NoDoc] /\ cursor = 0 /\ live = TRUE
    /\ job = [s \in Syncs |-> NoJob] /\ booking = {}
    /\ faults = 0 /\ touched = {} /\ missed = {}

Fetching(s) == job[s].at = "fetch"
Running(s) == job[s].at \in {"fetch", "sweep"}

Fault == faults < MaxFaults /\ faults' = faults + 1

-----------------------------------------------------------------------------
(* The source, outside the program.  A change while a sync is under way    *)
(* falls between its look at the source and the write of the cursor on its *)
(* behalf.                                                                 *)
UnderWay == booking # {} \/ \E s \in Syncs : Running(s)

SourceChange(x) ==
    /\ clock < MaxClock /\ clock' = clock + 1
    /\ src' = [src EXCEPT ![x] = clock + 1]
    /\ IF UnderWay THEN touched' = touched \cup {x} /\ UNCHANGED missed
                   ELSE touched' = touched \ {x} /\ missed' = missed \ {x}
    /\ UNCHANGED <<kb, cursor, live, job, booking, faults>>

SourceDelete(x) ==
    /\ src[x] # 0 /\ src' = [src EXCEPT ![x] = 0]
    /\ touched' = touched \ {x} /\ missed' = missed \ {x}
    /\ job' = [s \in Syncs |-> IF Fetching(s) THEN [job[s] EXCEPT !.gone = @ \cup {x}]
                                              ELSE job[s]]
    /\ UNCHANGED <<clock, kb, cursor, live, booking, faults>>

-----------------------------------------------------------------------------
(* API server: triggerSync puts in the task the range start the user asked *)
(* for or else the connector's cursor; with neither the sync is a full one.*)
Find(s) ==
    /\ live /\ job[s].at = "none"
    /\ \A t \in Syncs : t < s => job[t].at # "none"
    /\ \/ job' = [job EXCEPT ![s] = [@ EXCEPT !.at = "found", !.since = cursor,
                                             !.full = (cursor = 0)]]
       \/ \E start \in Starts :
            job' = [job EXCEPT ![s] = [@ EXCEPT !.at = "found", !.since = start]]
    /\ UNCHANGED <<src, clock, kb, cursor, live, booking, faults, touched, missed>>

(* The callback books the time it runs at, not the time the sync looked at *)
(* the source.                                                             *)
BookCursor(s) ==
    /\ s \in booking /\ booking' = booking \ {s}
    /\ cursor' = IF live THEN clock ELSE cursor
    /\ UNCHANGED <<src, clock, kb, live, job, faults, touched, missed>>

(* A failed write of the cursor is logged, and that is all.                *)
BookCursorFails(s) ==
    /\ s \in booking /\ booking' = booking \ {s}
    /\ Fault
    /\ UNCHANGED <<src, clock, kb, cursor, live, job, touched, missed>>

(* The cascade of deleteConnector, for this connector or another one of    *)
(* the knowledge base, takes every tracked row.  The connector goes in a   *)
(* later call, which may not come, and a sync that runs is told of neither.*)
CascadeDelete ==
    /\ \E x \in Docs : Tracked(x)
    /\ kb' = [x \in Docs |-> IF Tracked(x) THEN NoDoc ELSE kb[x]]
    /\ missed' = missed \cup {x \in Docs : Tracked(x) /\ src[x] # 0}
    /\ Fault
    /\ UNCHANGED <<src, clock, cursor, live, job, booking, touched>>

DeleteConnector ==
    /\ live /\ live' = FALSE
    /\ UNCHANGED <<src, clock, kb, cursor, job, booking, faults, touched, missed>>

-----------------------------------------------------------------------------
(* handle_sync_task: the manifest is read once, at the start.  It is paged *)
(* with the paginate of a select, which a list has not: the AttributeError *)
(* ends the sync.                                                          *)
Begin(s) ==
    /\ job[s].at = "found" /\ "select" \in QueryReturns
    /\ job' = [job EXCEPT ![s] = [@ EXCEPT !.at = "fetch", !.from = clock, !.man = kb,
                  !.todo = Docs, !.gone = {x \in Docs : src[x] = 0}]]
    /\ UNCHANGED <<src, clock, kb, cursor, live, booking, faults, touched, missed>>

Over(s) == job' = [job EXCEPT ![s] = [NoJob EXCEPT !.at = "over"]]

ManifestThrows(s) ==
    /\ job[s].at = "found" /\ "list" \in QueryReturns
    /\ Over(s)
    /\ UNCHANGED <<src, clock, kb, cursor, live, booking, faults, touched, missed>>

(* A poll lists what changed after the start of its range and before the   *)
(* sync began; a full sync lists everything.                               *)
Listed(s, x) ==
    /\ src[x] # 0
    /\ job[s].full \/ (job[s].since < src[x] /\ src[x] <= job[s].from)

(* _is_doc_unchanged: by the stamps, or by the contents if none is recorded.*)
InManifest(s, x) == job[s].man[x].text # 0
Unchanged(s, x) ==
    /\ InManifest(s, x)
    /\ IF job[s].man[x].stamp # 0 THEN src[x] <= job[s].man[x].stamp
                                  ELSE src[x] = job[s].man[x].text

Current(x) == kb[x].text = src[x]

(* A document counts as seen before it is compared.                        *)
Visit_SeenIfNew(s, x) ==  \* mutant
    job' = [job EXCEPT ![s].todo = @ \ {x},
              ![s].seen = IF Listed(s, x) /\ ~Unchanged(s, x) THEN @ \cup {x} ELSE @]

Visit(s, x) ==
    job' = [job EXCEPT ![s].todo = @ \ {x},
              ![s].seen = IF Listed(s, x) THEN @ \cup {x} ELSE @]

(* A range a user asks for may start later than the cursor: what changed   *)
(* in between is passed over.                                              *)
PassedOver(s, x) ==
    ~job[s].full /\ cursor < src[x] /\ src[x] <= job[s].since /\ ~Current(x)

Skip(s, x) ==
    /\ job[s].at = "fetch" /\ x \in job[s].todo
    /\ ~Listed(s, x) \/ Unchanged(s, x)
    /\ Visit(s, x)
    /\ missed' = IF PassedOver(s, x) THEN missed \cup {x} ELSE missed
    /\ UNCHANGED <<src, clock, kb, cursor, live, booking, faults, touched>>

(* Documents a sync leaves out, neither seen nor saved: a batch whose      *)
(* lookup of the knowledge base fails, and of a checkpointed source what   *)
(* it reports as failed, and all that is beyond the one step of            *)
(* load_from_checkpoint the worker takes.  The sync goes on.               *)
LeaveOut(s, B) ==
    /\ job[s].at = "fetch" /\ B # {} /\ B \subseteq job[s].todo
    /\ \A x \in B : Listed(s, x)
    /\ job' = [job EXCEPT ![s].todo = @ \ B, ![s].lost = @ \cup B]
    /\ missed' = missed \cup {x \in B : ~Current(x)}
    /\ IF Checkpointed THEN UNCHANGED faults ELSE Fault
    /\ UNCHANGED <<src, clock, kb, cursor, live, booking, touched>>

(* upload_document finds the row of a document that is not in the manifest *)
(* too (an overlapping sync brought it); it returns no record of it if the *)
(* contents are the same, and then the stamp is not recorded.              *)
Recorded(s, x) == InManifest(s, x) \/ ~Current(x)

Upload(s, x) ==
    /\ job[s].at = "fetch" /\ x \in job[s].todo
    /\ Listed(s, x) /\ ~Unchanged(s, x)
    /\ Visit(s, x)
    /\ kb' = [kb EXCEPT ![x] = [text |-> src[x],
                    stamp |-> IF Recorded(s, x) THEN src[x] ELSE kb[x].stamp]]
    /\ missed' = missed \ {x}
    /\ UNCHANGED <<src, clock, cursor, live, booking, faults, touched>>

(* upload_document swallows the error and returns no record: for a new     *)
(* document that is a failure; for one of the manifest it is read as       *)
(* "content unchanged", and the new stamp is recorded.  A failed write of  *)
(* the stamp is logged.                                                    *)
UploadFails(s, x) ==
    /\ job[s].at = "fetch" /\ x \in job[s].todo
    /\ Listed(s, x) /\ ~Unchanged(s, x)
    /\ Visit(s, x)
    /\ \E text \in {kb[x].text, src[x]}, stamp \in {kb[x].stamp, src[x]} :
         /\ stamp # kb[x].stamp => InManifest(s, x) /\ InKb(x)
         /\ kb' = [kb EXCEPT ![x] = [text |-> text, stamp |-> stamp]]
         /\ missed' = IF text = src[x] THEN missed \ {x} ELSE missed \cup {x}
    /\ Fault
    /\ UNCHANGED <<src, clock, cursor, live, booking, touched>>

(* Phase 3: a full sync that saw something deletes the tracked rows of     *)
(* what it did not see; a removal that fails is logged.                    *)
Orphans(s) ==
    IF job[s].full /\ job[s].seen # {}
    THEN {x \in Docs : Tracked(x)} \ job[s].seen ELSE {}

Sweep(s) ==
    /\ job[s].at = "fetch" /\ job[s].todo = {}
    /\ job' = [job EXCEPT ![s] = [NoJob EXCEPT !.at = "sweep"]]
    /\ \E kept \in SUBSET Orphans(s) :
         /\ kb' = [x \in Docs |-> IF x \in Orphans(s) \ kept THEN NoDoc ELSE kb[x]]
         /\ IF kept = {} THEN UNCHANGED faults ELSE Fault
    /\ missed' = missed \cup {x \in Orphans(s) \cap job[s].lost : src[x] # 0}
    /\ UNCHANGED <<src, clock, cursor, live, booking, touched>>

(* The completion is heard by whichever subscribers the channel has.       *)
Complete(s) ==
    /\ job[s].at = "sweep" /\ Over(s)
    /\ \E heard \in SUBSET {t \in Syncs : job[t].at # "none"} :
         booking' = booking \cup heard
    /\ UNCHANGED <<src, clock, kb, cursor, live, faults, touched, missed>>

(* An error, or a crash of the worker: no completion is published, and the *)
(* cursor stays (SYN-BR-05).                                               *)
Aborts_Booked(s) ==  \* mutant
    /\ Running(s) /\ Over(s)
    /\ Fault
    /\ booking' = booking \cup {s}
    /\ UNCHANGED <<src, clock, kb, cursor, live, touched, missed>>

Aborts(s) ==
    /\ Running(s) /\ Over(s)
    /\ Fault
    /\ UNCHANGED <<src, clock, kb, cursor, live, booking, touched, missed>>

-----------------------------------------------------------------------------
Next ==
    \/ \E x \in Docs : SourceChange(x) \/ SourceDelete(x)
    \/ \E s \in Syncs :
         \/ Find(s) \/ Begin(s) \/ ManifestThrows(s) \/ Sweep(s) \/ Complete(s)
         \/ Aborts(s) \/ BookCursor(s) \/ BookCursorFails(s)
         \/ \E x \in Docs : Skip(s, x) \/ Upload(s, x) \/ UploadFails(s, x)
         \/ \E B \in SUBSET Docs : LeaveOut(s, B)
    \/ CascadeDelete \/ DeleteConnector

Spec == Init /\ [][Next]_vars

-----------------------------------------------------------------------------
(* Every variable keeps its type.                                          *)
TypeOK ==
    /\ src \in [Docs -> Time] /\ clock \in Time \ {0}
    /\ kb \in [Docs -> DocRow] /\ cursor \in Time /\ live \in BOOLEAN
    /\ job \in [Syncs -> Job] /\ booking \subseteq Syncs
    /\ faults \in 0 .. MaxFaults
    /\ touched \subseteq Docs /\ missed \subseteq Docs

(* A step of a sync removes a document only if the source did not have it  *)
(* at some moment since that sync began, or the sync had left it out:      *)
(* however syncs overlap, whatever uploads fail and whatever range a user  *)
(* asked for before.                                                       *)
KeepsPresent ==
    [][\A s \in Syncs : Running(s) /\ job'[s] # job[s] =>
         \A x \in Docs : InKb(x) /\ ~InKb(x)' =>
           x \in job[s].gone \cup job[s].lost]_vars

(* What the cursor has passed is in the knowledge base in its latest       *)
(* version, but for documents that changed while a sync was under way and  *)
(* documents missed in that version: a poll never looks behind the cursor  *)
(* again.  Syncs that fail or die do not move the cursor past what they    *)
(* did not copy.                                                           *)
Covered(x) == Current(x) \/ x \in touched \/ x \in missed

CursorCovers ==
    live => \A x \in Docs : src[x] # 0 /\ src[x] <= cursor => Covered(x)

(* The inductive invariant behind KeepsPresent and CursorCovers: clocks    *)
(* are ordered; a row that bears the stamp of the latest version has its   *)
(* text or is missed; what a full sync has passed without seeing was left  *)
(* out or gone, and has changed since if it is there again; what a sync    *)
(* has passed, what its manifest calls current and, once a completion is   *)
(* heard, everything is covered.                                           *)
ClocksOrdered ==
    /\ cursor <= clock
    /\ \A x \in Docs :
         src[x] <= clock /\ kb[x].stamp <= clock /\ kb[x].text <= clock

RowsStamped ==
    \A x \in Docs :
        /\ Tracked(x) => InKb(x)
        /\ src[x] # 0 =>
             /\ kb[x].text <= src[x] /\ kb[x].stamp <= src[x]
             /\ kb[x].stamp = src[x] => Current(x) \/ x \in missed

PassedSeenOrGone ==
    \A s \in Syncs :
        /\ job[s].at = "sweep" => job[s].todo = {}
        /\ Fetching(s) => \A x \in Docs :
             /\ job[s].full =>
                  x \in job[s].todo \cup job[s].seen \cup job[s].gone \cup job[s].lost
             /\ src[x] = 0 => x \in job[s].gone
             /\ src[x] # 0 /\ x \in job[s].gone => x \in touched
             /\ src[x] > job[s].from => x \in touched

PassedCovered ==
    live => \A x \in Docs : src[x] # 0 =>
        /\ booking # {} => Covered(x)
        /\ \A s \in Syncs : Running(s) /\ (x \notin job[s].todo \/ Unchanged(s, x))
                            => Covered(x)

CopyInv == /\ TypeOK /\ ClocksOrdered /\ RowsStamped /\ PassedSeenOrGone
           /\ PassedCovered /\ CursorCovers

-----------------------------------------------------------------------------
(* What a test of the repository says, and the code does not do.           *)

(* A sync ends with its completion unless one of its calls failed: building*)
(* the manifest "should index documents" (test_delta_sync.py), not throw.  *)
SyncsComplete ==
    [][\A s \in Syncs : job[s].at # "over" /\ job'[s].at = "over"
                         => job[s].at = "sweep" \/ faults' # faults]_vars
=============================================================================
