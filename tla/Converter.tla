------------------------------ MODULE Converter ------------------------------
(***************************************************************************)
(* The Office converter.  An upload writes a job and its files to Redis    *)
(* and sets the trigger flag (ConverterQueueService, API server); a worker *)
(* (converter/src/worker.py), woken by its schedule or by the flag, takes  *)
(* a job with pending files and converts them one after another.  Nothing  *)
(* claims a file: a worker only reads which ones are pending.              *)
(*                                                                         *)
(* An action is one Redis command, transaction or scan.                    *)
(***************************************************************************)
EXTENDS Integers, FiniteSets

CONSTANTS Jobs, Files,
          JobOf,      \* the job of each file
          Workers,    \* converter worker processes
          None,       \* no job, no file
          MaxFaults   \* bound: crashes, shutdowns and failed Redis calls of
                      \* workers

ASSUME ConverterAssumption ==
    /\ IsFiniteSet(Files) /\ JobOf \in [Files -> Jobs]
    /\ None \notin Jobs /\ None \notin Files
    /\ MaxFaults \in Nat

VARIABLES
    made,            \* converter:vjob:status:converting
    file,            \* status in converter:file:<id>
    done, failed,    \* completedCount and failedCount of a job
    trigger,         \* converter:manual_trigger
    owing,           \* uploads that wrote their job and not yet the flag
    window,          \* the hour is in the schedule
    at, job, todo, item,  \* per worker: where it is, its job, the files it
                          \* listed and has not come to, the one it has
    faults,          \* counter behind the bound
    alone, doubtful  \* history: no worker started while another was up;
                     \* files whose completion was recorded, the reply lost

redis == <<made, file, done, failed, trigger>>
local == <<at, job, todo, item>>
ghosts == <<alone, doubtful>>
vars == <<redis, owing, window, local, faults, ghosts>>

Steps == {"off", "idle", "shut", "clear", "choose", "list", "next", "hold", "doubt"}
Settled == {"completed", "failed"}
FilesOf(j) == {f \in Files : JobOf[f] = j}

Init ==
    /\ made = {} /\ file = [f \in Files |-> "none"]
    /\ done = [j \in Jobs |-> 0] /\ failed = [j \in Jobs |-> 0]
    /\ trigger = FALSE /\ owing = {} /\ window = FALSE
    /\ at = [w \in Workers |-> "off"]
    /\ job = [w \in Workers |-> None] /\ item = [w \in Workers |-> None]
    /\ todo = [w \in Workers |-> {}]
    /\ faults = 0 /\ alone = TRUE /\ doubtful = {}

Fault == faults < MaxFaults /\ faults' = faults + 1

-----------------------------------------------------------------------------
(* API server.                                                             *)

(* createJob, one transaction.                                             *)
CreateJob(j) ==
    /\ j \notin made /\ made' = made \cup {j}
    /\ file' = [f \in Files |-> IF JobOf[f] = j THEN "pending" ELSE file[f]]
    /\ owing' = owing \cup {j}
    /\ UNCHANGED <<done, failed, trigger, window, local, faults, ghosts>>

(* triggerManualConversion; an error is logged and the upload goes on.     *)
TriggerConversion(j) ==
    /\ j \in owing /\ owing' = owing \ {j}
    /\ trigger' \in {trigger, TRUE}
    /\ UNCHANGED <<made, file, done, failed, window, local, faults, ghosts>>

(* The schedule's window.                                                  *)
TurnWindow(open) ==
    /\ window # open /\ window' = open
    /\ UNCHANGED <<redis, owing, local, faults, ghosts>>

-----------------------------------------------------------------------------
(* The worker's loop: the schedule, then the flag, which wakes it once.    *)

Move(w, from, to) == at[w] = from /\ at' = [at EXCEPT ![w] = to]

(* What the worker knew is gone.                                           *)
Leave(w, to) ==
    /\ at' = [at EXCEPT ![w] = to]
    /\ job' = [job EXCEPT ![w] = None] /\ item' = [item EXCEPT ![w] = None]
    /\ todo' = [todo EXCEPT ![w] = {}]

Look_OnlyTrigger(w) ==  \* mutant
    /\ Move(w, "idle", "shut")
    /\ UNCHANGED <<redis, owing, window, job, todo, item, faults, ghosts>>

Look(w) ==
    /\ Move(w, "idle", IF window THEN "choose" ELSE "shut")
    /\ UNCHANGED <<redis, owing, window, job, todo, item, faults, ghosts>>

ReadTrigger(w) ==
    /\ Move(w, "shut", IF trigger THEN "clear" ELSE "idle")
    /\ UNCHANGED <<redis, owing, window, job, todo, item, faults, ghosts>>

ClearTrigger(w) ==
    /\ Move(w, "clear", "choose")
    /\ trigger' = FALSE
    /\ UNCHANGED <<made, file, done, failed, owing, window, job, todo, item, faults, ghosts>>

(* dequeue_version_job: any job with a pending file.                       *)
Pending(j) == {f \in FilesOf(j) : file[f] = "pending"}
Waiting == {j \in made : Pending(j) # {}}

Choose(w) ==
    /\ Move(w, "choose", "list")
    /\ \E j \in Waiting : job' = [job EXCEPT ![w] = j]
    /\ UNCHANGED <<redis, owing, window, todo, item, faults, ghosts>>

FindNothing(w) ==
    /\ Move(w, "choose", "idle") /\ Waiting = {}
    /\ UNCHANGED <<redis, owing, window, job, todo, item, faults, ghosts>>

(* get_job_files, read once for the whole batch.                           *)
List_All(w) ==  \* mutant
    /\ Move(w, "list", "next")
    /\ todo' = [todo EXCEPT ![w] = FilesOf(job[w])]
    /\ UNCHANGED <<redis, owing, window, job, item, faults, ghosts>>

List(w) ==
    /\ Move(w, "list", "next")
    /\ todo' = [todo EXCEPT ![w] = Pending(job[w])]
    /\ UNCHANGED <<redis, owing, window, job, item, faults, ghosts>>

-----------------------------------------------------------------------------
(* process_file.                                                           *)

(* update_file_status: the file's status and the job's counter in one      *)
(* transaction.                                                            *)
Settle_OnlyFile(w, f, status) ==  \* mutant
    /\ file' = [file EXCEPT ![f] = status]
    /\ failed' = [failed EXCEPT ![job[w]] = IF status = "failed" THEN @ + 1 ELSE @]
    /\ UNCHANGED done

Settle(w, f, status) ==
    /\ file' = [file EXCEPT ![f] = status]
    /\ done' = [done EXCEPT ![job[w]] = IF status = "completed" THEN @ + 1 ELSE @]
    /\ failed' = [failed EXCEPT ![job[w]] = IF status = "failed" THEN @ + 1 ELSE @]

(* The source file is not there.                                           *)
Missing(w, f) ==
    /\ Move(w, "next", "next") /\ f \in todo[w]
    /\ todo' = [todo EXCEPT ![w] = @ \ {f}]
    /\ Settle(w, f, "failed")
    /\ UNCHANGED <<made, trigger, owing, window, job, item, faults, ghosts>>

Take(w, f) ==
    /\ Move(w, "next", "hold") /\ f \in todo[w]
    /\ todo' = [todo EXCEPT ![w] = @ \ {f}]
    /\ item' = [item EXCEPT ![w] = f]
    /\ file' = [file EXCEPT ![f] = "processing"]
    /\ UNCHANGED <<made, done, failed, trigger, owing, window, job, faults, ghosts>>

(* The conversion ends, or throws.                                         *)
End(w, status) ==
    /\ Move(w, "hold", "next")
    /\ Settle(w, item[w], status)
    /\ item' = [item EXCEPT ![w] = None]
    /\ UNCHANGED <<made, trigger, owing, window, job, todo, faults, ghosts>>

(* The completion is recorded, the reply is lost: the exception leads to   *)
(* the branch that reports a failure.                                      *)
EndDoubted(w) ==
    /\ Move(w, "hold", "doubt")
    /\ Settle(w, item[w], "completed")
    /\ doubtful' = doubtful \cup {item[w]}
    /\ Fault
    /\ UNCHANGED <<made, trigger, owing, window, job, todo, item, alone>>

ReportFailed(w) ==
    /\ Move(w, "doubt", "next")
    /\ Settle(w, item[w], "failed")
    /\ item' = [item EXCEPT ![w] = None]
    /\ UNCHANGED <<made, trigger, owing, window, job, todo, faults, ghosts>>

BatchDone(w) ==
    /\ at[w] = "next" /\ todo[w] = {} /\ Leave(w, "idle")
    /\ UNCHANGED <<redis, owing, window, faults, ghosts>>

-----------------------------------------------------------------------------
(* Redis does not answer, in a batch or before: the loop starts over, the  *)
(* file in hand keeps its status.                                          *)
LoseBatch(w) ==
    /\ at[w] \notin {"off", "idle"} /\ Leave(w, "idle")
    /\ Fault
    /\ UNCHANGED <<redis, owing, window, ghosts>>

(* A crash, anywhere; a shutdown ends the file in hand first, and looks    *)
(* the same.                                                               *)
Stop(w) ==
    /\ at[w] # "off" /\ Leave(w, "off")
    /\ Fault
    /\ UNCHANGED <<redis, owing, window, ghosts>>

Up(w) == at[w] # "off"

Start(w) ==
    /\ Move(w, "off", "idle")
    /\ alone' = (alone /\ \A v \in Workers : ~Up(v))
    /\ UNCHANGED <<redis, owing, window, job, todo, item, faults, doubtful>>

-----------------------------------------------------------------------------
Loop(w) ==
    \/ Look(w) \/ ReadTrigger(w) \/ ClearTrigger(w)
    \/ Choose(w) \/ FindNothing(w) \/ List(w) \/ BatchDone(w)
    \/ \E f \in Files : Missing(w, f) \/ Take(w, f)
    \/ ReportFailed(w)

Work(w) == Loop(w) \/ \E status \in Settled : End(w, status)

Next ==
    \/ \E j \in Jobs : CreateJob(j) \/ TriggerConversion(j)
    \/ \E open \in BOOLEAN : TurnWindow(open)
    \/ \E w \in Workers :
         Work(w) \/ EndDoubted(w) \/ LoseBatch(w) \/ Stop(w) \/ Start(w)

Spec == Init /\ [][Next]_vars

(* The loop goes on but for the conversion, which may hang; a worker that  *)
(* stopped is restarted; one that looks every 30 seconds meets a window it *)
(* sleeps in.  Nothing is asked of the schedule, which may never open.     *)
Fairness ==
    \A w \in Workers :
        WF_vars(Loop(w)) /\ WF_vars(Start(w)) /\ SF_vars(window /\ Look(w))

FairSpec == Spec /\ Fairness

-----------------------------------------------------------------------------
(* Every variable keeps its type.                                          *)
TypeOK ==
    /\ made \subseteq Jobs /\ owing \subseteq Jobs
    /\ file \in [Files -> {"none", "pending", "processing"} \cup Settled]
    /\ done \in [Jobs -> Nat] /\ failed \in [Jobs -> Nat]
    /\ trigger \in BOOLEAN /\ window \in BOOLEAN
    /\ at \in [Workers -> Steps]
    /\ job \in [Workers -> Jobs \cup {None}]
    /\ item \in [Workers -> Files \cup {None}]
    /\ todo \in [Workers -> SUBSET Files]
    /\ faults \in 0 .. MaxFaults
    /\ alone \in BOOLEAN /\ doubtful \subseteq Files

(* A job's counters tell its files' results, through crashes and lost      *)
(* calls, as long as no two workers were up together and the Redis client  *)
(* does not send a transaction again by itself: a completion whose reply   *)
(* was lost is counted, and the failure reported after it too.             *)
Completed(j) == {f \in FilesOf(j) : file[f] = "completed" \/ f \in doubtful}
Failed(j) == {f \in FilesOf(j) : file[f] = "failed"}

CountsAddUp ==
    alone => \A j \in Jobs : /\ done[j] = Cardinality(Completed(j))
                             /\ failed[j] = Cardinality(Failed(j))

(* As long as the same holds, a file with a result is not converted again, *)
(* and its result stays, unless the reply to it was lost.                  *)
ResultStays ==
    [][alone' => \A f \in Files \ doubtful :
         file[f] \in Settled => file'[f] = file[f]]_vars

(* If again and again a worker sleeps while the window is open, a pending  *)
(* file gets its result, however its trigger was lost and whatever other   *)
(* workers do or hang in, unless its own conversion never ends, or its     *)
(* worker dies or loses Redis while it has the file: nothing takes up a    *)
(* file left as processing.                                                *)
InHand(f) == \E w \in Workers : at[w] = "hold" /\ item[w] = f
Stranded(f) == file[f] = "processing" /\ ~InHand(f)

WindowMet == []<>(window /\ \E w \in Workers : at[w] = "idle")

FilesEnd ==
    WindowMet => \A f \in Files :
        [](file[f] = "pending"
             => <>(file[f] \in Settled \/ Stranded(f) \/ []InHand(f)))

(* The inductive invariant behind CountsAddUp and ResultStays: while no    *)
(* two workers were up together, what a worker has listed is pending, what *)
(* it has in hand is being processed or in doubt, and both are its job's.  *)
Listed(w) ==
    /\ todo[w] \subseteq Pending(job[w])
    /\ at[w] = "list" => job[w] \in made
    /\ at[w] = "hold" => file[item[w]] = "processing"
    /\ at[w] = "doubt" => file[item[w]] = "completed" /\ item[w] \in doubtful

Fresh ==
    /\ \A f \in Files : JobOf[f] \notin made => file[f] = "none"
    /\ \A f \in doubtful : file[f] \in Settled

(* A worker in a batch knows its job, and the file in hand is the job's.   *)
Local ==
    \A w \in Workers :
        /\ at[w] \in {"list", "next", "hold", "doubt"} => job[w] \in Jobs
        /\ at[w] \notin {"next", "hold", "doubt"} => todo[w] = {}
        /\ at[w] \in {"hold", "doubt"} => item[w] \in FilesOf(job[w])
        /\ todo[w] \subseteq FilesOf(job[w])

OneUp == \A v, w \in Workers : Up(v) /\ Up(w) => v = w

ConverterInv ==
    /\ TypeOK /\ Local
    /\ alone => OneUp /\ Fresh /\ \A w \in Workers : Listed(w)
    /\ CountsAddUp
=============================================================================
