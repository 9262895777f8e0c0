-------------------------- MODULE SyncCopy_proofs --------------------------
(* Proofs about SyncCopy: the data a sync copies and the cursor.           *)
EXTENDS SyncCopy, TLAPS

LEMMA InitCopy == Init => CopyInv
  <1> SUFFICES ASSUME Init PROVE CopyInv
    OBVIOUS
  <1>1. TypeOK
    BY CopyAssumption DEF Init, TypeOK, Time, DocRow, NoDoc, Job, JobAt, NoJob
  <1>2. ClocksOrdered /\ RowsStamped
    BY CopyAssumption DEF Init, ClocksOrdered, RowsStamped, NoDoc, NoJob, InKb, Tracked
  <1>3. PassedSeenOrGone /\ PassedCovered /\ CursorCovers
    BY CopyAssumption
    DEF Init, PassedSeenOrGone, PassedCovered, CursorCovers, NoJob, Running, Fetching
  <1> QED
    BY <1>1, <1>2, <1>3 DEF CopyInv

-----------------------------------------------------------------------------
(* What the record types contain, and what each action makes of the jobs.  *)

LEMMA CopyTypes ==
    /\ Time \subseteq Nat /\ 0 \in Time /\ NoDoc \in DocRow
    /\ NoDoc.text = 0 /\ NoDoc.stamp = 0
    /\ \A r \in DocRow : r.text \in Time /\ r.stamp \in Time
    /\ \A j \in Job : /\ j.since \in Time /\ j.from \in Time
                      /\ j.man \in [Docs -> DocRow] /\ j.full \in BOOLEAN
  BY CopyAssumption DEF Time, DocRow, NoDoc, Job

(* Job s alone changed; the rest of its fields stayed.                     *)
Others(s) == \A t \in Syncs \ {s} : job'[t] = job[t]

MarkGoneOf(x) ==
    \A t \in Syncs :
        /\ job'[t].at = job[t].at /\ job'[t].since = job[t].since
        /\ job'[t].from = job[t].from /\ job'[t].man = job[t].man
        /\ job'[t].todo = job[t].todo /\ job'[t].seen = job[t].seen
        /\ job'[t].full = job[t].full /\ job'[t].lost = job[t].lost
        /\ job'[t].gone = IF Fetching(t) THEN job[t].gone \cup {x} ELSE job[t].gone

LEMMA MarkGoneFacts ==
    ASSUME TypeOK, NEW x \in Docs, SourceDelete(x)
    PROVE  job' \in [Syncs -> Job] /\ MarkGoneOf(x)
  <1>1. \A t \in Syncs : job[t] \in Job
    BY DEF TypeOK
  <1>2. \A j \in Job : [j EXCEPT !.gone = @ \cup {x}] \in Job
    BY DEF Job
  <1>3. job' \in [Syncs -> Job]
    BY <1>1, <1>2 DEF SourceDelete
  <1>4. MarkGoneOf(x)
    BY <1>1 DEF SourceDelete, MarkGoneOf, Job
  <1> QED
    BY <1>3, <1>4

FindJobOf(s) == Others(s) /\ job'[s].at = "found"

LEMMA FindJobFacts ==
    ASSUME TypeOK, NEW s \in Syncs, Find(s)
    PROVE  job' \in [Syncs -> Job] /\ FindJobOf(s)
  <1>1. PICK since \in Time, full \in BOOLEAN :
          job' = [job EXCEPT ![s] = [job[s] EXCEPT !.at = "found", !.since = since,
                                                   !.full = full]]
    <2>1. job[s] \in Job /\ cursor \in Time
      BY DEF TypeOK
    <2>2. CASE job' = [job EXCEPT ![s] = [@ EXCEPT !.at = "found", !.since = cursor,
                                                   !.full = (cursor = 0)]]
      BY <2>2 DEF TypeOK
    <2>3. ASSUME NEW start \in Starts,
                 job' = [job EXCEPT ![s] = [@ EXCEPT !.at = "found", !.since = start]]
          PROVE  job' = [job EXCEPT ![s] = [job[s] EXCEPT !.at = "found",
                                              !.since = start, !.full = job[s].full]]
      <3>1. [job[s] EXCEPT !.at = "found", !.since = start]
              = [job[s] EXCEPT !.at = "found", !.since = start, !.full = job[s].full]
        BY <2>1 DEF Job
      <3> QED
        BY <2>1, <2>3, <3>1 DEF TypeOK
    <2> QED
      <3>1. Starts \subseteq Time /\ job[s].full \in BOOLEAN
        BY <2>1, CopyAssumption DEF Time, Job
      <3>2. (cursor = 0) \in BOOLEAN
        OBVIOUS
      <3> QED
        BY <2>1, <2>2, <2>3, <3>1, <3>2 DEF Find
  <1> DEFINE j == [job[s] EXCEPT !.at = "found", !.since = since, !.full = full]
  <1>2. j \in Job /\ j.at = "found"
    BY DEF TypeOK, Job, JobAt
  <1>3. job' = [job EXCEPT ![s] = j]
    BY <1>1
  <1> QED
    <2> HIDE DEF j
    <2> QED
      BY <1>2, <1>3 DEF TypeOK, FindJobOf, Others

BeginJobOf(s) ==
    /\ Others(s)
    /\ job'[s].at = "fetch" /\ job'[s].since = job[s].since
    /\ job'[s].full = job[s].full /\ job'[s].from = clock /\ job'[s].man = kb /\ job'[s].todo = Docs
    /\ job'[s].gone = {x \in Docs : src[x] = 0}

LEMMA BeginJobFacts ==
    ASSUME TypeOK, NEW s \in Syncs, Begin(s)
    PROVE  job' \in [Syncs -> Job] /\ BeginJobOf(s)
  <1> DEFINE gone == {x \in Docs : src[x] = 0}
             j == [job[s] EXCEPT !.at = "fetch", !.from = clock, !.man = kb,
                                 !.todo = Docs, !.gone = gone]
  <1>1. job[s] \in Job /\ clock \in Time /\ kb \in [Docs -> DocRow]
    BY DEF TypeOK
  <1>2. gone \subseteq Docs
    OBVIOUS
  <1>3. job' = [job EXCEPT ![s] = j]
    BY DEF Begin
  <1>4. /\ j \in Job
        /\ j.at = "fetch" /\ j.since = job[s].since /\ j.full = job[s].full
        /\ j.from = clock
        /\ j.man = kb /\ j.todo = Docs /\ j.gone = gone
    <2> HIDE DEF gone
    <2> QED
      BY <1>1, <1>2 DEF Job, JobAt
  <1>5. job'[s] = j /\ Others(s) /\ job' \in [Syncs -> Job]
    <2> HIDE DEF j
    <2> QED
      BY <1>3, <1>4 DEF TypeOK, Others
  <1> QED
    BY <1>4, <1>5 DEF BeginJobOf

SweepJobOf(s) ==
    /\ Others(s) /\ job'[s].at = "sweep"
    /\ job'[s].man = [x \in Docs |-> NoDoc] /\ job'[s].todo = {}
    /\ Fetching(s) /\ job[s].todo = {}

LEMMA SweepJobFacts ==
    ASSUME TypeOK, NEW s \in Syncs, Sweep(s)
    PROVE  job' \in [Syncs -> Job] /\ SweepJobOf(s)
  <1>1. [NoJob EXCEPT !.at = "sweep"] \in Job
    BY CopyTypes DEF Job, JobAt, NoJob
  <1> QED
    BY <1>1 DEF Sweep, TypeOK, SweepJobOf, Others, NoJob, Fetching

OverJobOf(s) ==
    /\ Others(s) /\ job'[s].at = "over"
    /\ \A t \in Syncs : Running(t)' => Running(t) /\ job'[t] = job[t]

LEMMA OverJobFacts ==
    ASSUME TypeOK, NEW s \in Syncs, Over(s)
    PROVE  job' \in [Syncs -> Job] /\ OverJobOf(s)
  <1>1. [NoJob EXCEPT !.at = "over"] \in Job
    BY CopyTypes DEF Job, JobAt, NoJob
  <1> QED
    BY <1>1 DEF Over, TypeOK, OverJobOf, Others, NoJob, Running

VisitJobOf(s, x) ==
    /\ Others(s)
    /\ job'[s].at = job[s].at /\ job'[s].since = job[s].since
    /\ job'[s].from = job[s].from /\ job'[s].man = job[s].man
    /\ job'[s].gone = job[s].gone /\ job'[s].lost = job[s].lost
    /\ job'[s].full = job[s].full
    /\ job'[s].todo = job[s].todo \ {x}
    /\ job'[s].seen = IF Listed(s, x) THEN job[s].seen \cup {x} ELSE job[s].seen

LEMMA VisitJobFacts ==
    ASSUME TypeOK, NEW s \in Syncs, NEW x \in Docs, Visit(s, x)
    PROVE  job' \in [Syncs -> Job] /\ VisitJobOf(s, x)
  <1> DEFINE seen == IF Listed(s, x) THEN job[s].seen \cup {x} ELSE job[s].seen
             j == [job[s] EXCEPT !.todo = job[s].todo \ {x}, !.seen = seen]
  <1>1. job[s] \in Job
    BY DEF TypeOK
  <1>2. job' = [job EXCEPT ![s] = j]
    BY <1>1 DEF Visit, TypeOK, Job
  <1>3. seen \subseteq Docs
    BY <1>1 DEF Job
  <1>4. /\ j \in Job
        /\ j.at = job[s].at /\ j.since = job[s].since /\ j.from = job[s].from
        /\ j.man = job[s].man /\ j.gone = job[s].gone /\ j.lost = job[s].lost
        /\ j.full = job[s].full /\ j.todo = job[s].todo \ {x} /\ j.seen = seen
    <2> HIDE DEF seen
    <2> QED
      BY <1>1, <1>3 DEF Job
  <1>5. job'[s] = j /\ Others(s) /\ job' \in [Syncs -> Job]
    <2> HIDE DEF j
    <2> QED
      BY <1>2, <1>4 DEF TypeOK, Others
  <1> QED
    BY <1>4, <1>5 DEF VisitJobOf

LeaveOutJobOf(s, B) ==
    /\ Others(s) /\ Fetching(s)
    /\ job'[s].at = job[s].at /\ job'[s].since = job[s].since
    /\ job'[s].from = job[s].from /\ job'[s].man = job[s].man
    /\ job'[s].gone = job[s].gone /\ job'[s].seen = job[s].seen
    /\ job'[s].full = job[s].full
    /\ job'[s].todo = job[s].todo \ B /\ job'[s].lost = job[s].lost \cup B

LEMMA LeaveOutJobFacts ==
    ASSUME TypeOK, NEW s \in Syncs, NEW B \in SUBSET Docs, LeaveOut(s, B)
    PROVE  job' \in [Syncs -> Job] /\ LeaveOutJobOf(s, B)
  <1> DEFINE j == [job[s] EXCEPT !.todo = job[s].todo \ B,
                                 !.lost = job[s].lost \cup B]
  <1>1. job[s] \in Job
    BY DEF TypeOK
  <1>2. job' = [job EXCEPT ![s] = j]
    BY <1>1 DEF LeaveOut, TypeOK, Job
  <1>3. /\ j \in Job
        /\ j.at = job[s].at /\ j.since = job[s].since /\ j.from = job[s].from
        /\ j.man = job[s].man /\ j.gone = job[s].gone /\ j.seen = job[s].seen
        /\ j.full = job[s].full
        /\ j.todo = job[s].todo \ B /\ j.lost = job[s].lost \cup B
    BY <1>1 DEF Job
  <1> QED
    <2> HIDE DEF j
    <2> QED
      BY <1>2, <1>3 DEF TypeOK, Others, LeaveOutJobOf, LeaveOut, Fetching

-----------------------------------------------------------------------------
(* Every action keeps the invariant.                                       *)


LEMMA SourceChangeCopy ==
    ASSUME CopyInv, NEW x \in Docs, SourceChange(x)
    PROVE  CopyInv'
  <1> USE CopyTypes DEF CopyInv
  <1>1. job' = job
    BY DEF SourceChange
  <1>2. TypeOK'
    BY <1>1, CopyAssumption DEF TypeOK, Time, SourceChange
  <1>3. ClocksOrdered'
    BY <1>1, <1>2 DEF TypeOK, Time, ClocksOrdered, SourceChange
  <1>4. RowsStamped'
    BY <1>1, <1>2
    DEF TypeOK, Time, ClocksOrdered, RowsStamped, Tracked, Current, InKb, SourceChange
  <1>5. PassedSeenOrGone'
    BY <1>1, <1>2
    DEF TypeOK, ClocksOrdered, PassedSeenOrGone, Running, Fetching,
        SourceChange, UnderWay
  <1>6. PassedCovered'
    BY <1>1, <1>2
    DEF TypeOK, ClocksOrdered, RowsStamped, PassedSeenOrGone, PassedCovered,
        CursorCovers, Covered, Current, Running, Fetching, Unchanged, InManifest, InKb,
        SourceChange, UnderWay
  <1>7. CursorCovers'
    BY <1>1, <1>2
    DEF TypeOK, ClocksOrdered, PassedSeenOrGone, PassedCovered, CursorCovers,
        Covered, Current, Running, Fetching, InKb, SourceChange, UnderWay
  <1> QED
    BY <1>2, <1>3, <1>4, <1>5, <1>6, <1>7

LEMMA SourceDeleteCopy ==
    ASSUME CopyInv, NEW x \in Docs, SourceDelete(x)
    PROVE  CopyInv'
  <1> USE CopyTypes DEF CopyInv
  <1>1. job' \in [Syncs -> Job] /\ MarkGoneOf(x)
    BY MarkGoneFacts DEF SourceDelete
  <1>2. TypeOK'
    BY <1>1, CopyAssumption DEF TypeOK, Time, SourceDelete
  <1>3. ClocksOrdered'
    BY <1>1, <1>2
    DEF TypeOK, Time, ClocksOrdered, MarkGoneOf, SourceDelete
  <1>4. RowsStamped'
    BY <1>1, <1>2
    DEF TypeOK, Time, ClocksOrdered, RowsStamped, Tracked, Current, InKb, SourceDelete
  <1>5. PassedSeenOrGone'
    BY <1>1, <1>2
    DEF TypeOK, ClocksOrdered, PassedSeenOrGone, Running, Fetching,
        MarkGoneOf, SourceDelete, UnderWay
  <1>6. PassedCovered'
    BY <1>1, <1>2
    DEF TypeOK, ClocksOrdered, RowsStamped, PassedSeenOrGone, PassedCovered,
        CursorCovers, Covered, Current, Running, Fetching, Unchanged, InManifest, InKb,
        MarkGoneOf, SourceDelete, UnderWay
  <1>7. CursorCovers'
    BY <1>1, <1>2
    DEF TypeOK, ClocksOrdered, PassedSeenOrGone, PassedCovered, CursorCovers,
        Covered, Current, Running, Fetching, InKb, MarkGoneOf, SourceDelete, UnderWay
  <1> QED
    BY <1>2, <1>3, <1>4, <1>5, <1>6, <1>7

LEMMA FindCopy ==
    ASSUME CopyInv, NEW s \in Syncs, Find(s)
    PROVE  CopyInv'
  <1> USE CopyTypes DEF CopyInv
  <1>1. job' \in [Syncs -> Job] /\ FindJobOf(s)
    BY FindJobFacts DEF Find
  <1>2. TypeOK'
    BY <1>1, CopyAssumption DEF TypeOK, Time, Find
  <1>3. ClocksOrdered'
    BY <1>1, <1>2 DEF TypeOK, Time, ClocksOrdered, FindJobOf, Others, Find
  <1>4. RowsStamped'
    BY <1>1, <1>2 DEF TypeOK, Time, ClocksOrdered, RowsStamped, Tracked, Current, InKb, Find
  <1>5. PassedSeenOrGone'
    BY <1>1, <1>2
    DEF TypeOK, ClocksOrdered, PassedSeenOrGone, Running, Fetching, FindJobOf,
        Others, Find
  <1>6. PassedCovered'
    <2>1. UNCHANGED <<src, kb, live, booking, touched, missed>>
      BY DEF Find
    <2>2. \A t \in Syncs : Running(t)' => Running(t) /\ job'[t] = job[t]
      BY <1>1 DEF FindJobOf, Others, Running
    <2> QED
      BY <2>1, <2>2
      DEF PassedCovered, Covered, Current, Running, Unchanged, InManifest
  <1>7. CursorCovers'
    BY <1>1, <1>2
    DEF TypeOK, ClocksOrdered, PassedSeenOrGone, PassedCovered, CursorCovers,
        Covered, Current, Running, Fetching, InKb, FindJobOf, Others, Find
  <1> QED
    BY <1>2, <1>3, <1>4, <1>5, <1>6, <1>7

LEMMA BeginCopy ==
    ASSUME CopyInv, NEW s \in Syncs, Begin(s)
    PROVE  CopyInv'
  <1> USE CopyTypes DEF CopyInv
  <1>1. job' \in [Syncs -> Job] /\ BeginJobOf(s)
    BY BeginJobFacts DEF Begin
  <1>2. TypeOK'
    BY <1>1, CopyAssumption DEF TypeOK, Time, Begin
  <1>3. ClocksOrdered'
    BY <1>1, <1>2
    DEF TypeOK, Time, ClocksOrdered, BeginJobOf, Others, Begin
  <1>4. RowsStamped'
    BY <1>1, <1>2
    DEF TypeOK, Time, ClocksOrdered, RowsStamped, Tracked, Current, InKb, Begin
  <1>5. PassedSeenOrGone'
    BY <1>1, <1>2
    DEF TypeOK, ClocksOrdered, PassedSeenOrGone, Running, Fetching,
        BeginJobOf, Others, Begin
  <1>6. PassedCovered'
    <2> SUFFICES ASSUME live, NEW y \in Docs, src[y] # 0
                 PROVE  /\ booking # {} => Covered(y)
                        /\ \A t \in Syncs :
                             Running(t)' /\ (y \notin job'[t].todo \/ Unchanged(t, y)')
                             => Covered(y)
      BY DEF PassedCovered, Covered, Current, Begin
    <2>1. booking # {} => Covered(y)
      BY DEF PassedCovered
    <2>2. ASSUME NEW t \in Syncs \ {s}, Running(t)',
                 y \notin job'[t].todo \/ Unchanged(t, y)'
          PROVE  Covered(y)
      BY <1>1, <2>2
      DEF BeginJobOf, Others, PassedCovered, Running, Unchanged, InManifest, Begin
    <2>3. ASSUME Unchanged(s, y)' PROVE Covered(y)
      <3>1. \/ InKb(y) /\ src[y] <= kb[y].stamp
           \/ Current(y)
        BY <1>1, <2>3
        DEF BeginJobOf, Unchanged, InManifest, InKb, Current, Begin
      <3>2. src[y] \in Int /\ kb[y].stamp \in Int
        BY DEF TypeOK, DocRow, Time
      <3> QED
        BY <3>1, <3>2 DEF RowsStamped, Covered
    <2> QED
      BY <1>1, <2>1, <2>2, <2>3 DEF BeginJobOf
  <1>7. CursorCovers'
    BY <1>1, <1>2
    DEF TypeOK, ClocksOrdered, PassedSeenOrGone, PassedCovered, CursorCovers,
        Covered, Current, Running, Fetching, InKb, BeginJobOf, Others, Begin
  <1> QED
    BY <1>2, <1>3, <1>4, <1>5, <1>6, <1>7

LEMMA SweepCopy ==
    ASSUME CopyInv, NEW s \in Syncs, Sweep(s)
    PROVE  CopyInv'
  <1> USE CopyTypes DEF CopyInv
  <1>1. job' \in [Syncs -> Job] /\ SweepJobOf(s)
    BY SweepJobFacts DEF Sweep
  <1>2. TypeOK'
    <2>1. PICK kept \in SUBSET Orphans(s) :
            /\ kb' = [x \in Docs |-> IF x \in Orphans(s) \ kept THEN NoDoc ELSE kb[x]]
            /\ IF kept = {} THEN UNCHANGED faults ELSE Fault
      BY DEF Sweep
    <2>2. kb' \in [Docs -> DocRow]
      BY <2>1 DEF TypeOK
    <2>3. faults' \in 0 .. MaxFaults
      BY <2>1, CopyAssumption DEF TypeOK, Fault
    <2>4. missed' \subseteq Docs
      BY DEF Sweep, TypeOK, Orphans
    <2> QED
      BY <1>1, <2>2, <2>3, <2>4 DEF TypeOK, Sweep
  <1>3. ClocksOrdered'
    BY <1>1, <1>2
    DEF TypeOK, Time, ClocksOrdered, SweepJobOf, Others, Sweep, DocRow
  <1>4. RowsStamped'
    BY <1>1, <1>2
    DEF TypeOK, Time, ClocksOrdered, RowsStamped, Tracked, Current, InKb, Sweep, DocRow
  <1>5. PassedSeenOrGone'
    BY <1>1, <1>2
    DEF TypeOK, ClocksOrdered, PassedSeenOrGone, Running, Fetching,
        SweepJobOf, Others, Sweep
  <1>6. PassedCovered'
    BY <1>1, <1>2
    DEF TypeOK, ClocksOrdered, RowsStamped, PassedSeenOrGone, PassedCovered,
        CursorCovers, Covered, Current, Running, Fetching, Unchanged, InManifest, InKb,
        SweepJobOf, Others, Sweep, Orphans
  <1>7. CursorCovers'
    BY <1>1, <1>2
    DEF TypeOK, ClocksOrdered, PassedSeenOrGone, PassedCovered, CursorCovers,
        Covered, Current, Running, Fetching, InKb, SweepJobOf, Others, Sweep, Orphans
  <1> QED
    BY <1>2, <1>3, <1>4, <1>5, <1>6, <1>7

LEMMA CompleteCopy ==
    ASSUME CopyInv, NEW s \in Syncs, Complete(s)
    PROVE  CopyInv'
  <1> USE CopyTypes DEF CopyInv
  <1>1. job' \in [Syncs -> Job] /\ OverJobOf(s)
    BY OverJobFacts DEF Complete
  <1>2. TypeOK'
    BY <1>1, CopyAssumption DEF TypeOK, Time, Complete
  <1>3. ClocksOrdered'
    BY <1>1, <1>2
    DEF TypeOK, Time, ClocksOrdered, OverJobOf, Others, Complete
  <1>4. RowsStamped'
    BY <1>1, <1>2
    DEF TypeOK, Time, ClocksOrdered, RowsStamped, Tracked, Current, InKb, Complete
  <1>5. PassedSeenOrGone'
    BY <1>1, <1>2
    DEF TypeOK, ClocksOrdered, PassedSeenOrGone, Running, Fetching, OverJobOf,
        Others, Complete
  <1>6. PassedCovered'
    <2>1. UNCHANGED <<src, kb, live, touched, missed>>
      BY DEF Complete
    <2>2. \A t \in Syncs : Running(t)' => Running(t) /\ job'[t] = job[t]
      BY <1>1 DEF OverJobOf
    <2>3. Running(s) /\ job[s].todo = {}
      BY DEF Complete, Running, PassedSeenOrGone
    <2> QED
      BY <2>1, <2>2, <2>3
      DEF PassedCovered, Covered, Current, Running, Unchanged, InManifest
  <1>7. CursorCovers'
    BY <1>1, <1>2
    DEF TypeOK, ClocksOrdered, PassedSeenOrGone, PassedCovered, CursorCovers,
        Covered, Current, Running, Fetching, InKb, OverJobOf, Others, Complete
  <1> QED
    BY <1>2, <1>3, <1>4, <1>5, <1>6, <1>7

LEMMA ManifestThrowsCopy ==
    ASSUME CopyInv, NEW s \in Syncs, ManifestThrows(s)
    PROVE  CopyInv'
  <1> USE CopyTypes DEF CopyInv
  <1>1. job' \in [Syncs -> Job] /\ OverJobOf(s)
    BY OverJobFacts DEF ManifestThrows
  <1>2. TypeOK'
    BY <1>1, CopyAssumption DEF TypeOK, Time, ManifestThrows
  <1>3. ClocksOrdered'
    BY <1>1, <1>2
    DEF TypeOK, Time, ClocksOrdered, OverJobOf, Others, ManifestThrows
  <1>4. RowsStamped'
    BY <1>1, <1>2
    DEF TypeOK, Time, ClocksOrdered, RowsStamped, Tracked, Current, InKb, ManifestThrows
  <1>5. PassedSeenOrGone'
    BY <1>1, <1>2
    DEF TypeOK, ClocksOrdered, PassedSeenOrGone, Running, Fetching, OverJobOf,
        Others, ManifestThrows
  <1>6. PassedCovered'
    BY <1>1, <1>2
    DEF TypeOK, ClocksOrdered, RowsStamped, PassedSeenOrGone, PassedCovered,
        CursorCovers, Covered, Current, Running, Fetching, Unchanged, InManifest, InKb,
        OverJobOf, Others, ManifestThrows
  <1>7. CursorCovers'
    BY <1>1, <1>2
    DEF TypeOK, ClocksOrdered, PassedSeenOrGone, PassedCovered, CursorCovers,
        Covered, Current, Running, Fetching, InKb, OverJobOf, Others, ManifestThrows
  <1> QED
    BY <1>2, <1>3, <1>4, <1>5, <1>6, <1>7

LEMMA AbortsCopy ==
    ASSUME CopyInv, NEW s \in Syncs, Aborts(s)
    PROVE  CopyInv'
  <1> USE CopyTypes DEF CopyInv
  <1>1. job' \in [Syncs -> Job] /\ OverJobOf(s)
    BY OverJobFacts DEF Aborts, Fault
  <1>2. TypeOK'
    BY <1>1, CopyAssumption DEF TypeOK, Time, Aborts, Fault
  <1>3. ClocksOrdered'
    BY <1>1, <1>2
    DEF TypeOK, Time, ClocksOrdered, OverJobOf, Others, Aborts, Fault
  <1>4. RowsStamped'
    BY <1>1, <1>2
    DEF TypeOK, Time, ClocksOrdered, RowsStamped, Tracked, Current, InKb, Aborts, Fault
  <1>5. PassedSeenOrGone'
    BY <1>1, <1>2
    DEF TypeOK, ClocksOrdered, PassedSeenOrGone, Running, Fetching, OverJobOf,
        Others, Aborts, Fault
  <1>6. PassedCovered'
    BY <1>1, <1>2
    DEF TypeOK, ClocksOrdered, RowsStamped, PassedSeenOrGone, PassedCovered,
        CursorCovers, Covered, Current, Running, Fetching, Unchanged, InManifest, InKb,
        OverJobOf, Others, Aborts, Fault
  <1>7. CursorCovers'
    BY <1>1, <1>2
    DEF TypeOK, ClocksOrdered, PassedSeenOrGone, PassedCovered, CursorCovers,
        Covered, Current, Running, Fetching, InKb, OverJobOf, Others, Aborts, Fault
  <1> QED
    BY <1>2, <1>3, <1>4, <1>5, <1>6, <1>7

LEMMA BookCursorCopy ==
    ASSUME CopyInv, NEW s \in Syncs, BookCursor(s)
    PROVE  CopyInv'
  <1> USE CopyTypes DEF CopyInv
  <1>1. job' = job
    BY DEF BookCursor
  <1>2. TypeOK'
    BY <1>1, CopyAssumption DEF TypeOK, Time, BookCursor
  <1>3. ClocksOrdered'
    BY <1>1, <1>2 DEF TypeOK, Time, ClocksOrdered, BookCursor
  <1>4. RowsStamped'
    BY <1>1, <1>2
    DEF TypeOK, Time, ClocksOrdered, RowsStamped, Tracked, Current, InKb, BookCursor
  <1>5. PassedSeenOrGone'
    BY <1>1, <1>2
    DEF TypeOK, ClocksOrdered, PassedSeenOrGone, Running, Fetching, BookCursor
  <1>6. PassedCovered'
    BY <1>1, <1>2
    DEF TypeOK, ClocksOrdered, RowsStamped, PassedSeenOrGone, PassedCovered,
        CursorCovers, Covered, Current, Running, Fetching, Unchanged, InManifest, InKb,
        BookCursor
  <1>7. CursorCovers'
    BY <1>1, <1>2
    DEF TypeOK, ClocksOrdered, PassedSeenOrGone, PassedCovered, CursorCovers,
        Covered, Current, Running, Fetching, InKb, BookCursor
  <1> QED
    BY <1>2, <1>3, <1>4, <1>5, <1>6, <1>7

LEMMA BookCursorFailsCopy ==
    ASSUME CopyInv, NEW s \in Syncs, BookCursorFails(s)
    PROVE  CopyInv'
  <1> USE CopyTypes DEF CopyInv
  <1>1. job' = job
    BY DEF BookCursorFails, Fault
  <1>2. TypeOK'
    BY <1>1, CopyAssumption DEF TypeOK, Time, BookCursorFails, Fault
  <1>3. ClocksOrdered'
    BY <1>1, <1>2 DEF TypeOK, Time, ClocksOrdered, BookCursorFails, Fault
  <1>4. RowsStamped'
    BY <1>1, <1>2
    DEF TypeOK, Time, ClocksOrdered, RowsStamped, Tracked, Current, InKb, BookCursorFails, Fault
  <1>5. PassedSeenOrGone'
    BY <1>1, <1>2
    DEF TypeOK, ClocksOrdered, PassedSeenOrGone, Running, Fetching,
        BookCursorFails, Fault
  <1>6. PassedCovered'
    BY <1>1, <1>2
    DEF TypeOK, ClocksOrdered, RowsStamped, PassedSeenOrGone, PassedCovered,
        CursorCovers, Covered, Current, Running, Fetching, Unchanged, InManifest, InKb,
        BookCursorFails, Fault
  <1>7. CursorCovers'
    BY <1>1, <1>2
    DEF TypeOK, ClocksOrdered, PassedSeenOrGone, PassedCovered, CursorCovers,
        Covered, Current, Running, Fetching, InKb, BookCursorFails, Fault
  <1> QED
    BY <1>2, <1>3, <1>4, <1>5, <1>6, <1>7

LEMMA SkipCopy ==
    ASSUME CopyInv, NEW s \in Syncs, NEW x \in Docs, Skip(s, x)
    PROVE  CopyInv'
  <1> USE CopyTypes DEF CopyInv
  <1>1. job' \in [Syncs -> Job] /\ VisitJobOf(s, x)
    BY VisitJobFacts DEF Skip
  <1>2. TypeOK'
    BY <1>1, CopyAssumption DEF TypeOK, Time, Skip
  <1>3. ClocksOrdered'
    BY <1>1, <1>2
    DEF TypeOK, Time, ClocksOrdered, VisitJobOf, Others, Skip
  <1>4. RowsStamped'
    BY <1>1, <1>2 DEF TypeOK, Time, ClocksOrdered, RowsStamped, Tracked, Current, InKb, Skip
  <1>5. PassedSeenOrGone'
    BY <1>1, <1>2
    DEF TypeOK, ClocksOrdered, PassedSeenOrGone, Running, Fetching,
        VisitJobOf, Others, Skip, Listed
  <1>6. PassedCovered'
    <2> SUFFICES ASSUME live, NEW y \in Docs, src[y] # 0
                 PROVE  /\ booking # {} => Covered(y)'
                        /\ \A t \in Syncs :
                             Running(t)' /\ (y \notin job'[t].todo \/ Unchanged(t, y)')
                             => Covered(y)'
      BY DEF PassedCovered, Skip
    <2>1. Covered(y) => Covered(y)'
      BY DEF Covered, Current, Skip
    <2>2. booking # {} => Covered(y)
      BY DEF PassedCovered
    <2>3. ASSUME NEW t \in Syncs, Running(t)',
                 y \notin job[t].todo \/ Unchanged(t, y)'
          PROVE  Covered(y)
      BY <1>1, <2>3
      DEF VisitJobOf, Others, PassedCovered, Running, Unchanged, InManifest, Skip
    <2>4. ASSUME x = y PROVE Covered(y)'
      <3>1. Running(s) /\ Fetching(s)
        BY DEF Skip, Running, Fetching
      <3>2. CASE Unchanged(s, x)
        BY <2>1, <2>4, <3>1, <3>2 DEF PassedCovered
      <3>3. CASE ~job[s].full /\ job[s].since >= src[x]
        <4>1. CASE src[x] <= cursor
          BY <2>1, <2>4, <4>1 DEF CursorCovers
        <4>2. CASE cursor < src[x]
          BY <2>1, <2>4, <3>3, <4>2 DEF Skip, PassedOver, Covered, TypeOK
        <4> QED
          BY <4>1, <4>2 DEF TypeOK, Time
      <3>4. CASE src[x] > job[s].from
        BY <2>1, <2>4, <3>1, <3>4 DEF PassedSeenOrGone, Covered
      <3> QED
        BY <2>4, <3>2, <3>3, <3>4 DEF Skip, Listed, TypeOK, Time
    <2> QED
      BY <1>1, <2>1, <2>2, <2>3, <2>4 DEF VisitJobOf, Others
  <1>7. CursorCovers'
    BY <1>1, <1>2
    DEF TypeOK, ClocksOrdered, PassedSeenOrGone, PassedCovered, CursorCovers,
        Covered, Current, Running, Fetching, InKb, VisitJobOf, Others, Skip, Listed
  <1> QED
    BY <1>2, <1>3, <1>4, <1>5, <1>6, <1>7

LEMMA UploadCopy ==
    ASSUME CopyInv, NEW s \in Syncs, NEW x \in Docs, Upload(s, x)
    PROVE  CopyInv'
  <1> USE CopyTypes DEF CopyInv
  <1>1. job' \in [Syncs -> Job] /\ VisitJobOf(s, x)
    BY VisitJobFacts DEF Upload
  <1>2. TypeOK'
    BY <1>1, CopyAssumption DEF TypeOK, Time, Upload, DocRow, Listed
  <1>3. ClocksOrdered'
    BY <1>1, <1>2
    DEF TypeOK, Time, ClocksOrdered, VisitJobOf, Others, Upload, Listed,
        DocRow
  <1>4. RowsStamped'
    <2> SUFFICES ASSUME NEW y \in Docs
                 PROVE  /\ Tracked(y)' => InKb(y)'
                        /\ src[y] # 0 =>
                             /\ kb'[y].text <= src[y] /\ kb'[y].stamp <= src[y]
                             /\ kb'[y].stamp = src[y]
                                  => Current(y)' \/ y \in missed'
      BY DEF RowsStamped, Upload
    <2>1. CASE x # y
      BY <2>1 DEF Upload, RowsStamped, InKb, Tracked, Current, TypeOK
    <2>2. CASE x = y
      <3>1. kb'[y].text = src[y] /\ kb'[y].stamp \in {src[y], kb[y].stamp}
        BY <2>2 DEF Upload, TypeOK
      <3>2. kb'[y].stamp # src[y] => InKb(y)
        <4>1. CASE Recorded(s, x)
          BY <2>2, <4>1 DEF Upload, TypeOK
        <4>2. CASE Current(x)
          BY <2>2, <4>2 DEF Upload, Listed, Current, InKb
        <4> QED
          BY <4>1, <4>2 DEF Recorded
      <3>3. src'[y] = src[y] /\ src[y] \in Int
        BY DEF Upload, TypeOK, Time
      <3> QED
        BY <2>2, <3>1, <3>2, <3>3
        DEF RowsStamped, Current, InKb, Upload, Listed
    <2> QED
      BY <2>1, <2>2
  <1>5. PassedSeenOrGone'
    BY <1>1, <1>2
    DEF TypeOK, ClocksOrdered, PassedSeenOrGone, Running, Fetching,
        VisitJobOf, Others, Upload, Listed
  <1>6. PassedCovered'
    <2> SUFFICES ASSUME live, NEW y \in Docs, src[y] # 0
                 PROVE  /\ booking # {} => Covered(y)'
                        /\ \A t \in Syncs :
                             Running(t)' /\ (y \notin job'[t].todo \/ Unchanged(t, y)')
                             => Covered(y)'
      BY DEF PassedCovered, Upload
    <2>1. CASE x = y
      BY <2>1 DEF Upload, Covered, Current, TypeOK
    <2>2. CASE x # y
      <3>1. Covered(y) => Covered(y)'
        BY <2>2 DEF Upload, Covered, Current, TypeOK
      <3>2. booking # {} => Covered(y)
        BY DEF PassedCovered
      <3>3. ASSUME NEW t \in Syncs, Running(t)',
                   y \notin job'[t].todo \/ Unchanged(t, y)'
            PROVE  Covered(y)
        BY <1>1, <2>2, <3>3
        DEF VisitJobOf, Others, PassedCovered, Running, Unchanged, InManifest, Upload
      <3> QED
        BY <3>1, <3>2, <3>3
    <2> QED
      BY <2>1, <2>2
  <1>7. CursorCovers'
    BY <1>1, <1>2
    DEF TypeOK, ClocksOrdered, PassedSeenOrGone, PassedCovered, CursorCovers,
        Covered, Current, Running, Fetching, InKb, VisitJobOf, Others, Upload, Listed
  <1> QED
    BY <1>2, <1>3, <1>4, <1>5, <1>6, <1>7

LEMMA UploadFailsCopy ==
    ASSUME CopyInv, NEW s \in Syncs, NEW x \in Docs, UploadFails(s, x)
    PROVE  CopyInv'
  <1> USE CopyTypes DEF CopyInv
  <1>1. job' \in [Syncs -> Job] /\ VisitJobOf(s, x)
    BY VisitJobFacts DEF UploadFails, Fault
  <1>2. TypeOK'
    BY <1>1, CopyAssumption
    DEF TypeOK, Time, UploadFails, Fault, DocRow, Listed
  <1>3. ClocksOrdered'
    BY <1>1, <1>2
    DEF TypeOK, Time, ClocksOrdered, VisitJobOf, Others, UploadFails, Fault,
        Listed, DocRow
  <1>4. RowsStamped'
    <2> SUFFICES ASSUME NEW y \in Docs
                 PROVE  /\ Tracked(y)' => InKb(y)'
                        /\ src[y] # 0 =>
                             /\ kb'[y].text <= src[y] /\ kb'[y].stamp <= src[y]
                             /\ kb'[y].stamp = src[y]
                                  => Current(y)' \/ y \in missed'
      BY DEF RowsStamped, UploadFails
    <2>1. PICK text \in {kb[x].text, src[x]}, stamp \in {kb[x].stamp, src[x]} :
            /\ stamp # kb[x].stamp => InManifest(s, x) /\ InKb(x)
            /\ kb' = [kb EXCEPT ![x] = [text |-> text, stamp |-> stamp]]
            /\ missed' = IF text = src[x] THEN missed \ {x} ELSE missed \cup {x}
      BY DEF UploadFails
    <2>2. CASE x # y
      BY <2>1, <2>2 DEF UploadFails, RowsStamped, InKb, Tracked, Current, TypeOK
    <2>3. CASE x = y
      <3>1. kb'[y].text = text /\ kb'[y].stamp = stamp
        BY <2>1, <2>3 DEF TypeOK
      <3>2. src'[y] = src[y] /\ src[y] \in Nat /\ kb[y].text \in Nat
        BY DEF UploadFails, TypeOK, Time, DocRow
      <3>3. src[y] # 0 => text <= src[y]
        BY <2>1, <2>3, <3>2 DEF RowsStamped, InKb
      <3>4. src[y] # 0 => stamp <= src[y]
        BY <2>1, <2>3, <3>2 DEF RowsStamped, InKb, Tracked
      <3>5. Current(y)' \/ y \in missed'
        BY <2>1, <2>3, <3>1, <3>2 DEF Current
      <3>6. Tracked(y)' => InKb(y)'
        BY <2>1, <2>3, <3>1 DEF RowsStamped, InKb, Tracked, UploadFails, Listed
      <3> QED
        BY <3>1, <3>3, <3>4, <3>5, <3>6
    <2> QED
      BY <2>2, <2>3
  <1>5. PassedSeenOrGone'
    BY <1>1, <1>2
    DEF TypeOK, ClocksOrdered, PassedSeenOrGone, Running, Fetching,
        VisitJobOf, Others, UploadFails, Fault, Listed
  <1>6. PassedCovered'
    BY <1>1, <1>2
    DEF TypeOK, ClocksOrdered, RowsStamped, PassedSeenOrGone, PassedCovered,
        CursorCovers, Covered, Current, Running, Fetching, Unchanged, InManifest, InKb,
        VisitJobOf, Others, UploadFails, Fault, Listed
  <1>7. CursorCovers'
    BY <1>1, <1>2
    DEF TypeOK, ClocksOrdered, PassedSeenOrGone, PassedCovered, CursorCovers,
        Covered, Current, Running, Fetching, InKb, VisitJobOf, Others, UploadFails,
        Fault, Listed
  <1> QED
    BY <1>2, <1>3, <1>4, <1>5, <1>6, <1>7

LEMMA LeaveOutCopy ==
    ASSUME CopyInv, NEW s \in Syncs, NEW B \in SUBSET Docs, LeaveOut(s, B)
    PROVE  CopyInv'
  <1> USE CopyTypes DEF CopyInv
  <1>1. job' \in [Syncs -> Job] /\ LeaveOutJobOf(s, B)
    BY LeaveOutJobFacts DEF LeaveOut, Fault
  <1>2. TypeOK'
    BY <1>1, CopyAssumption
    DEF TypeOK, Time, LeaveOut, Fault, DocRow, Listed
  <1>3. ClocksOrdered'
    BY <1>1, <1>2
    DEF TypeOK, Time, ClocksOrdered, LeaveOutJobOf, Others, LeaveOut, Fault,
        Listed, DocRow
  <1>4. RowsStamped'
    BY <1>1, <1>2
    DEF TypeOK, Time, ClocksOrdered, RowsStamped, Tracked, Current, InKb, LeaveOut, Fault,
        Listed, DocRow
  <1>5. PassedSeenOrGone'
    BY <1>1, <1>2
    DEF TypeOK, ClocksOrdered, PassedSeenOrGone, Running, Fetching,
        LeaveOutJobOf, Others, LeaveOut, Fault, Listed
  <1>6. PassedCovered'
    BY <1>1, <1>2
    DEF TypeOK, ClocksOrdered, RowsStamped, PassedSeenOrGone, PassedCovered,
        CursorCovers, Covered, Current, Running, Fetching, Unchanged, InManifest, InKb,
        LeaveOutJobOf, Others, LeaveOut, Fault, Listed
  <1>7. CursorCovers'
    BY <1>1, <1>2
    DEF TypeOK, ClocksOrdered, PassedSeenOrGone, PassedCovered, CursorCovers,
        Covered, Current, Running, Fetching, InKb, LeaveOutJobOf, Others, LeaveOut,
        Fault, Listed
  <1> QED
    BY <1>2, <1>3, <1>4, <1>5, <1>6, <1>7

LEMMA CascadeDeleteCopy ==
    ASSUME CopyInv, CascadeDelete
    PROVE  CopyInv'
  <1> USE CopyTypes DEF CopyInv
  <1>1. job' = job
    BY DEF CascadeDelete
  <1>2. TypeOK'
    <2>1. kb' \in [Docs -> DocRow] /\ missed' \subseteq Docs
      BY DEF CascadeDelete, TypeOK
    <2> QED
      BY <1>1, <2>1, CopyAssumption DEF TypeOK, CascadeDelete, Fault
  <1>3. ClocksOrdered'
    BY <1>1, <1>2 DEF TypeOK, Time, ClocksOrdered, CascadeDelete, DocRow
  <1>4. RowsStamped'
    BY <1>1, <1>2
    DEF TypeOK, Time, ClocksOrdered, RowsStamped, Tracked, Current, InKb, CascadeDelete,
        DocRow
  <1>5. PassedSeenOrGone'
    BY <1>1, <1>2
    DEF TypeOK, ClocksOrdered, PassedSeenOrGone, Running, Fetching,
        CascadeDelete
  <1>6. PassedCovered'
    BY <1>1, <1>2
    DEF TypeOK, ClocksOrdered, RowsStamped, PassedSeenOrGone, PassedCovered,
        CursorCovers, Covered, Current, Running, Fetching, Unchanged, InManifest, InKb,
        CascadeDelete
  <1>7. CursorCovers'
    BY <1>1, <1>2
    DEF TypeOK, ClocksOrdered, PassedSeenOrGone, PassedCovered, CursorCovers,
        Covered, Current, Running, Fetching, InKb, CascadeDelete
  <1> QED
    BY <1>2, <1>3, <1>4, <1>5, <1>6, <1>7

LEMMA DeleteConnectorCopy ==
    ASSUME CopyInv, DeleteConnector
    PROVE  CopyInv'
  <1> USE CopyTypes DEF CopyInv
  <1>1. job' = job
    BY DEF DeleteConnector
  <1>2. TypeOK'
    BY <1>1, CopyAssumption
    DEF TypeOK, Time, DeleteConnector, DocRow, Listed
  <1>3. ClocksOrdered'
    BY <1>1, <1>2 DEF TypeOK, Time, ClocksOrdered, DeleteConnector, DocRow
  <1>4. RowsStamped'
    BY <1>1, <1>2
    DEF TypeOK, Time, ClocksOrdered, RowsStamped, Tracked, Current, InKb, DeleteConnector,
        DocRow
  <1>5. PassedSeenOrGone'
    BY <1>1, <1>2
    DEF TypeOK, ClocksOrdered, PassedSeenOrGone, Running, Fetching,
        DeleteConnector
  <1>6. PassedCovered'
    BY <1>1, <1>2
    DEF TypeOK, ClocksOrdered, RowsStamped, PassedSeenOrGone, PassedCovered,
        CursorCovers, Covered, Current, Running, Fetching, Unchanged, InManifest, InKb,
        DeleteConnector
  <1>7. CursorCovers'
    BY <1>1, <1>2
    DEF TypeOK, ClocksOrdered, PassedSeenOrGone, PassedCovered, CursorCovers,
        Covered, Current, Running, Fetching, InKb, DeleteConnector
  <1> QED
    BY <1>2, <1>3, <1>4, <1>5, <1>6, <1>7

LEMMA NextCopy == CopyInv /\ [Next]_vars => CopyInv'
  <1> SUFFICES ASSUME CopyInv, [Next]_vars PROVE CopyInv'
    OBVIOUS
  <1>1. CASE UNCHANGED vars
    BY <1>1
    DEF vars, CopyInv, TypeOK, ClocksOrdered, RowsStamped, PassedSeenOrGone,
        Fetching, Tracked,
        PassedCovered, CursorCovers, Covered, Current, Running, Fetching, Unchanged,
        InManifest, InKb
  <1>2. CASE Next
    BY <1>2, SourceChangeCopy, SourceDeleteCopy, FindCopy, BeginCopy,
       SweepCopy, CompleteCopy, ManifestThrowsCopy, AbortsCopy, BookCursorCopy,
       BookCursorFailsCopy, SkipCopy, UploadCopy, UploadFailsCopy,
       LeaveOutCopy, CascadeDeleteCopy, DeleteConnectorCopy
    DEF Next
  <1> QED
    BY <1>1, <1>2

(* The copying invariant holds in every reachable state, for any number of *)
(* documents and syncs, overlapping as they may.                           *)
THEOREM CopyCorrect == Spec => []CopyInv
  BY InitCopy, NextCopy, PTL DEF Spec

(* The cursor never passes a version of a document that is not copied,     *)
(* unless the document changed during a sync or a sync missed that version *)
(* of it.                                                                  *)
THEOREM CursorCoversAlways == Spec => []CursorCovers
  <1>1. CopyInv => CursorCovers
    BY DEF CopyInv
  <1> QED
    BY <1>1, CopyCorrect, PTL

LEMMA SweepKeeps ==
    ASSUME CopyInv, Next, NEW s \in Syncs, Running(s), job'[s] # job[s],
           NEW x \in Docs, InKb(x), ~InKb(x)'
    PROVE  x \in job[s].gone \cup job[s].lost
  <1>1. ASSUME NEW t \in Syncs, Sweep(t)
        PROVE  x \in job[s].gone \cup job[s].lost
    <2>1. t = s
      BY <1>1 DEF Sweep, CopyInv, TypeOK
    <2>2. job[s].full /\ x \notin job[s].seen
      BY <1>1, <2>1 DEF Sweep, InKb, Orphans
    <2>3. Fetching(s) /\ job[s].todo = {}
      BY <1>1, <2>1 DEF Sweep, Fetching
    <2> QED
      BY <2>2, <2>3 DEF CopyInv, PassedSeenOrGone
  <1>2. ASSUME NEW t \in Syncs, NEW y \in Docs, Upload(t, y) \/ UploadFails(t, y)
        PROVE  FALSE
    BY <1>2 DEF CopyInv, TypeOK, DocRow, Upload, UploadFails, Listed, InKb
  <1>3. kb' # kb
    BY DEF InKb
  <1>4. ~CascadeDelete
    BY DEF CascadeDelete
  <1> QED
    BY <1>1, <1>2, <1>3, <1>4
    DEF Next, SourceChange, SourceDelete, Find, Begin, ManifestThrows, Complete, Aborts,
        BookCursor, BookCursorFails, Skip, LeaveOut, DeleteConnector

(* A step of a sync only removes documents the source lacked at some moment*)
(* since that sync began, or that the sync left out.                       *)
THEOREM KeepsPresentAlways == Spec => KeepsPresent
  <1>1. CopyInv /\ [Next]_vars =>
          [\A s \in Syncs : Running(s) /\ job'[s] # job[s] =>
             \A x \in Docs : InKb(x) /\ ~InKb(x)' =>
               x \in job[s].gone \cup job[s].lost]_vars
    BY SweepKeeps
  <1> QED
    BY <1>1, CopyCorrect, PTL DEF Spec, KeepsPresent
=============================================================================
