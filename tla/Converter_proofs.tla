-------------------------- MODULE Converter_proofs --------------------------
(* Proofs about Converter.                                                 *)
EXTENDS Converter, FiniteSetTheorems, TLAPS

LEMMA CountOne ==
    ASSUME NEW j \in Jobs, NEW S \in SUBSET FilesOf(j), NEW f \in FilesOf(j) \ S
    PROVE  Cardinality(S \cup {f}) = Cardinality(S) + 1
  <1>1. IsFiniteSet(S)
    BY ConverterAssumption, FS_Subset DEF FilesOf
  <1> QED
    BY <1>1, FS_AddElement

LEMMA InitConverter == Init => ConverterInv
  <1> SUFFICES ASSUME Init PROVE ConverterInv
    OBVIOUS
  <1>1. TypeOK
    <2>1. /\ at \in [Workers -> Steps]
          /\ file \in [Files -> {"none", "pending", "processing"} \cup Settled]
      BY DEF Init, Steps
    <2>2. /\ job \in [Workers -> Jobs \cup {None}]
          /\ item \in [Workers -> Files \cup {None}]
          /\ todo \in [Workers -> SUBSET Files]
      BY DEF Init
    <2>3. done \in [Jobs -> Nat] /\ failed \in [Jobs -> Nat]
          /\ faults \in 0 .. MaxFaults
      BY ConverterAssumption DEF Init
    <2> QED
      BY <2>1, <2>2, <2>3 DEF Init, TypeOK
  <1>2. Local
    BY DEF Init, Local
  <1>3. OneUp /\ Fresh /\ \A w \in Workers : Listed(w)
    BY DEF Init, OneUp, Up, Fresh, Listed, Pending
  <1>4. \A j \in Jobs : Completed(j) = {} /\ Failed(j) = {}
    BY DEF Init, Completed, Failed, FilesOf
  <1>5. CountsAddUp
    BY <1>4, FS_EmptySet DEF Init, CountsAddUp
  <1> QED
    BY <1>1, <1>2, <1>3, <1>5 DEF ConverterInv

(* While alone, a worker that is up is the only one: the others have       *)
(* nothing listed.                                                         *)
LEMMA OthersOff ==
    ASSUME Local, OneUp, NEW w \in Workers, Up(w), NEW v \in Workers \ {w}
    PROVE  at[v] = "off" /\ todo[v] = {}
  BY DEF Local, OneUp, Up

LEMMA CountsKept ==
    ASSUME CountsAddUp, alone' => alone, done' = done, failed' = failed,
           alone' => \A j \in Jobs : Completed(j)' = Completed(j) /\ Failed(j)' = Failed(j)
    PROVE  CountsAddUp'
  BY DEF CountsAddUp

(* A file that gets a result it did not have is one more in its job's      *)
(* counter.                                                                *)
LEMMA CountsCompleted ==
    ASSUME TypeOK, CountsAddUp, alone, NEW w \in Workers, job[w] \in Jobs,
           NEW f \in FilesOf(job[w]), Settle(w, f, "completed"),
           f \notin Completed(job[w]),
           \A j \in Jobs : /\ Failed(j)' = Failed(j)
                           /\ Completed(j)' = IF j = job[w] THEN Completed(j) \cup {f}
                                                            ELSE Completed(j)
    PROVE  CountsAddUp'
  <1>1. Cardinality(Completed(job[w]) \cup {f}) = Cardinality(Completed(job[w])) + 1
    BY CountOne DEF Completed
  <1>2. failed' = failed /\ done' = [done EXCEPT ![job[w]] = @ + 1]
    BY DEF Settle, TypeOK
  <1>3. \A j \in Jobs : done'[j] = Cardinality(Completed(j)')
    BY <1>1, <1>2 DEF TypeOK, CountsAddUp
  <1> QED
    BY <1>2, <1>3 DEF CountsAddUp

LEMMA CountsFailed ==
    ASSUME TypeOK, CountsAddUp, alone, NEW w \in Workers, job[w] \in Jobs,
           NEW f \in FilesOf(job[w]), Settle(w, f, "failed"),
           f \notin Failed(job[w]),
           \A j \in Jobs : /\ Completed(j)' = Completed(j)
                           /\ Failed(j)' = IF j = job[w] THEN Failed(j) \cup {f}
                                                         ELSE Failed(j)
    PROVE  CountsAddUp'
  <1>1. Cardinality(Failed(job[w]) \cup {f}) = Cardinality(Failed(job[w])) + 1
    BY CountOne DEF Failed
  <1>2. done' = done /\ failed' = [failed EXCEPT ![job[w]] = @ + 1]
    BY DEF Settle, TypeOK
  <1>3. \A j \in Jobs : failed'[j] = Cardinality(Failed(j)')
    BY <1>1, <1>2 DEF TypeOK, CountsAddUp
  <1> QED
    BY <1>2, <1>3 DEF CountsAddUp


LEMMA SettleTypes ==
    ASSUME TypeOK, NEW w \in Workers, job[w] \in Jobs, NEW f \in Files,
           NEW status \in Settled, Settle(w, f, status)
    PROVE  /\ file' \in [Files -> {"none", "pending", "processing"} \cup Settled]
           /\ done' \in [Jobs -> Nat] /\ failed' \in [Jobs -> Nat]
  BY DEF TypeOK, Settle
-----------------------------------------------------------------------------
(* Every action keeps the invariant.                                       *)

LEMMA CreateJobConverter ==
    ASSUME ConverterInv, NEW j \in Jobs, CreateJob(j)
    PROVE  ConverterInv'
  <1> USE ConverterAssumption DEF ConverterInv
  <1>1. TypeOK'
    BY
    DEF TypeOK, Steps, Settled, Pending, FilesOf, Waiting, CreateJob, redis,
        local, ghosts
  <1>2. Local'
    BY <1>1
    DEF TypeOK, Local, Pending, FilesOf, Waiting, CreateJob, redis, local,
        ghosts
  <1>3. alone' => OneUp' /\ Fresh'
    BY <1>1
    DEF TypeOK, OneUp, Up, Fresh, Listed, Local, Settled, Pending, FilesOf,
        CreateJob, redis, local, ghosts
  <1>4. alone' => \A v \in Workers : Listed(v)'
    BY <1>1
    DEF TypeOK, Listed, Local, OneUp, Up, Fresh, Pending, FilesOf, Waiting,
        Settled, CreateJob, redis, local, ghosts
  <1>5. CountsAddUp'
    BY CountsKept, <1>1
    DEF TypeOK, Completed, Failed, FilesOf, Fresh, Listed, Pending, Settled,
        CreateJob, redis, local, ghosts
  <1> QED
    BY <1>1, <1>2, <1>3, <1>4, <1>5

LEMMA TriggerConversionConverter ==
    ASSUME ConverterInv, NEW j \in Jobs, TriggerConversion(j)
    PROVE  ConverterInv'
  <1> USE ConverterAssumption DEF ConverterInv
  <1>1. TypeOK'
    BY
    DEF TypeOK, Steps, Settled, Pending, FilesOf, Waiting, TriggerConversion,
        redis, local, ghosts
  <1>2. Local'
    BY <1>1
    DEF TypeOK, Local, Pending, FilesOf, Waiting, TriggerConversion, redis,
        local, ghosts
  <1>3. alone' => OneUp' /\ Fresh'
    BY <1>1
    DEF TypeOK, OneUp, Up, Fresh, Listed, Local, Settled, Pending, FilesOf,
        TriggerConversion, redis, local, ghosts
  <1>4. alone' => \A v \in Workers : Listed(v)'
    BY <1>1
    DEF TypeOK, Listed, Local, OneUp, Up, Fresh, Pending, FilesOf, Waiting,
        Settled, TriggerConversion, redis, local, ghosts
  <1>5. CountsAddUp'
    BY CountsKept, <1>1
    DEF TypeOK, Completed, Failed, FilesOf, Fresh, Listed, Pending, Settled,
        TriggerConversion, redis, local, ghosts
  <1> QED
    BY <1>1, <1>2, <1>3, <1>4, <1>5

LEMMA TurnWindowConverter ==
    ASSUME ConverterInv, NEW open \in BOOLEAN, TurnWindow(open)
    PROVE  ConverterInv'
  <1> USE ConverterAssumption DEF ConverterInv
  <1>1. TypeOK'
    BY
    DEF TypeOK, Steps, Settled, Pending, FilesOf, Waiting, TurnWindow, redis,
        local, ghosts
  <1>2. Local'
    BY <1>1
    DEF TypeOK, Local, Pending, FilesOf, Waiting, TurnWindow, redis, local,
        ghosts
  <1>3. alone' => OneUp' /\ Fresh'
    BY <1>1
    DEF TypeOK, OneUp, Up, Fresh, Listed, Local, Settled, Pending, FilesOf,
        TurnWindow, redis, local, ghosts
  <1>4. alone' => \A v \in Workers : Listed(v)'
    BY <1>1
    DEF TypeOK, Listed, Local, OneUp, Up, Fresh, Pending, FilesOf, Waiting,
        Settled, TurnWindow, redis, local, ghosts
  <1>5. CountsAddUp'
    BY CountsKept, <1>1
    DEF TypeOK, Completed, Failed, FilesOf, Fresh, Listed, Pending, Settled,
        TurnWindow, redis, local, ghosts
  <1> QED
    BY <1>1, <1>2, <1>3, <1>4, <1>5

LEMMA LookConverter ==
    ASSUME ConverterInv, NEW w \in Workers, Look(w)
    PROVE  ConverterInv'
  <1> USE ConverterAssumption DEF ConverterInv
  <1>1. TypeOK'
    BY
    DEF TypeOK, Steps, Settled, Pending, FilesOf, Waiting, Look, Move, redis,
        local, ghosts
  <1>2. Local'
    BY <1>1
    DEF TypeOK, Local, Pending, FilesOf, Waiting, Look, Move, redis, local,
        ghosts
  <1>3. alone' => OneUp' /\ Fresh'
    BY <1>1
    DEF TypeOK, OneUp, Up, Fresh, Listed, Local, Settled, Pending, FilesOf,
        Look, Move, redis, local, ghosts
  <1>4. alone' => \A v \in Workers : Listed(v)'
    BY <1>1
    DEF TypeOK, Listed, Local, OneUp, Up, Fresh, Pending, FilesOf, Waiting,
        Settled, Look, Move, redis, local, ghosts
  <1>5. CountsAddUp'
    BY CountsKept, <1>1
    DEF TypeOK, Completed, Failed, FilesOf, Fresh, Listed, Pending, Settled,
        Look, Move, redis, local, ghosts
  <1> QED
    BY <1>1, <1>2, <1>3, <1>4, <1>5

LEMMA ReadTriggerConverter ==
    ASSUME ConverterInv, NEW w \in Workers, ReadTrigger(w)
    PROVE  ConverterInv'
  <1> USE ConverterAssumption DEF ConverterInv
  <1>1. TypeOK'
    BY
    DEF TypeOK, Steps, Settled, Pending, FilesOf, Waiting, ReadTrigger, Move,
        redis, local, ghosts
  <1>2. Local'
    BY <1>1
    DEF TypeOK, Local, Pending, FilesOf, Waiting, ReadTrigger, Move, redis,
        local, ghosts
  <1>3. alone' => OneUp' /\ Fresh'
    BY <1>1
    DEF TypeOK, OneUp, Up, Fresh, Listed, Local, Settled, Pending, FilesOf,
        ReadTrigger, Move, redis, local, ghosts
  <1>4. alone' => \A v \in Workers : Listed(v)'
    BY <1>1
    DEF TypeOK, Listed, Local, OneUp, Up, Fresh, Pending, FilesOf, Waiting,
        Settled, ReadTrigger, Move, redis, local, ghosts
  <1>5. CountsAddUp'
    BY CountsKept, <1>1
    DEF TypeOK, Completed, Failed, FilesOf, Fresh, Listed, Pending, Settled,
        ReadTrigger, Move, redis, local, ghosts
  <1> QED
    BY <1>1, <1>2, <1>3, <1>4, <1>5

LEMMA ClearTriggerConverter ==
    ASSUME ConverterInv, NEW w \in Workers, ClearTrigger(w)
    PROVE  ConverterInv'
  <1> USE ConverterAssumption DEF ConverterInv
  <1>1. TypeOK'
    BY
    DEF TypeOK, Steps, Settled, Pending, FilesOf, Waiting, ClearTrigger, Move,
        redis, local, ghosts
  <1>2. Local'
    BY <1>1
    DEF TypeOK, Local, Pending, FilesOf, Waiting, ClearTrigger, Move, redis,
        local, ghosts
  <1>3. alone' => OneUp' /\ Fresh'
    BY <1>1
    DEF TypeOK, OneUp, Up, Fresh, Listed, Local, Settled, Pending, FilesOf,
        ClearTrigger, Move, redis, local, ghosts
  <1>4. alone' => \A v \in Workers : Listed(v)'
    BY <1>1
    DEF TypeOK, Listed, Local, OneUp, Up, Fresh, Pending, FilesOf, Waiting,
        Settled, ClearTrigger, Move, redis, local, ghosts
  <1>5. CountsAddUp'
    BY CountsKept, <1>1
    DEF TypeOK, Completed, Failed, FilesOf, Fresh, Listed, Pending, Settled,
        ClearTrigger, Move, redis, local, ghosts
  <1> QED
    BY <1>1, <1>2, <1>3, <1>4, <1>5

LEMMA ChooseConverter ==
    ASSUME ConverterInv, NEW w \in Workers, Choose(w)
    PROVE  ConverterInv'
  <1> USE ConverterAssumption DEF ConverterInv
  <1>1. TypeOK'
    BY
    DEF TypeOK, Steps, Settled, Pending, FilesOf, Waiting, Choose, Move,
        redis, local, ghosts
  <1>2. Local'
    BY <1>1
    DEF TypeOK, Local, Pending, FilesOf, Waiting, Choose, Move, redis, local,
        ghosts
  <1>3. alone' => OneUp' /\ Fresh'
    BY <1>1
    DEF TypeOK, OneUp, Up, Fresh, Listed, Local, Settled, Pending, FilesOf,
        Choose, Move, redis, local, ghosts
  <1>4. alone' => \A v \in Workers : Listed(v)'
    BY <1>1
    DEF TypeOK, Listed, Local, OneUp, Up, Fresh, Pending, FilesOf, Waiting,
        Settled, Choose, Move, redis, local, ghosts
  <1>5. CountsAddUp'
    BY CountsKept, <1>1
    DEF TypeOK, Completed, Failed, FilesOf, Fresh, Listed, Pending, Settled,
        Choose, Move, redis, local, ghosts
  <1> QED
    BY <1>1, <1>2, <1>3, <1>4, <1>5

LEMMA FindNothingConverter ==
    ASSUME ConverterInv, NEW w \in Workers, FindNothing(w)
    PROVE  ConverterInv'
  <1> USE ConverterAssumption DEF ConverterInv
  <1>1. TypeOK'
    BY
    DEF TypeOK, Steps, Settled, Pending, FilesOf, Waiting, FindNothing, Move,
        redis, local, ghosts
  <1>2. Local'
    BY <1>1
    DEF TypeOK, Local, Pending, FilesOf, Waiting, FindNothing, Move, redis,
        local, ghosts
  <1>3. alone' => OneUp' /\ Fresh'
    BY <1>1
    DEF TypeOK, OneUp, Up, Fresh, Listed, Local, Settled, Pending, FilesOf,
        FindNothing, Move, redis, local, ghosts
  <1>4. alone' => \A v \in Workers : Listed(v)'
    BY <1>1
    DEF TypeOK, Listed, Local, OneUp, Up, Fresh, Pending, FilesOf, Waiting,
        Settled, FindNothing, Move, redis, local, ghosts
  <1>5. CountsAddUp'
    BY CountsKept, <1>1
    DEF TypeOK, Completed, Failed, FilesOf, Fresh, Listed, Pending, Settled,
        FindNothing, Move, redis, local, ghosts
  <1> QED
    BY <1>1, <1>2, <1>3, <1>4, <1>5

LEMMA ListConverter ==
    ASSUME ConverterInv, NEW w \in Workers, List(w)
    PROVE  ConverterInv'
  <1> USE ConverterAssumption DEF ConverterInv
  <1>1. TypeOK'
    BY
    DEF TypeOK, Steps, Settled, Pending, FilesOf, Waiting, List, Move, redis,
        local, ghosts
  <1>2. Local'
    BY <1>1
    DEF TypeOK, Local, Pending, FilesOf, Waiting, List, Move, redis, local,
        ghosts
  <1>3. alone' => OneUp' /\ Fresh'
    BY <1>1
    DEF TypeOK, OneUp, Up, Fresh, Listed, Local, Settled, Pending, FilesOf,
        List, Move, redis, local, ghosts
  <1>4. alone' => \A v \in Workers : Listed(v)'
    BY <1>1
    DEF TypeOK, Listed, Local, OneUp, Up, Fresh, Pending, FilesOf, Waiting,
        Settled, List, Move, redis, local, ghosts
  <1>5. CountsAddUp'
    BY CountsKept, <1>1
    DEF TypeOK, Completed, Failed, FilesOf, Fresh, Listed, Pending, Settled,
        List, Move, redis, local, ghosts
  <1> QED
    BY <1>1, <1>2, <1>3, <1>4, <1>5

LEMMA MissingConverter ==
    ASSUME ConverterInv, NEW w \in Workers, NEW f \in Files, Missing(w, f)
    PROVE  ConverterInv'
  <1> USE ConverterAssumption DEF ConverterInv
  <1>1. TypeOK'
    <2>1. f \in Files /\ job[w] \in Jobs
      BY DEF TypeOK, Local, FilesOf, Missing, Move
    <2>2. "failed" \in Settled
      BY DEF Settled
    <2>3. /\ file' \in [Files -> {"none", "pending", "processing"} \cup Settled]
          /\ done' \in [Jobs -> Nat] /\ failed' \in [Jobs -> Nat]
      BY <2>1, <2>2, SettleTypes DEF Missing
    <2>4. at' \in [Workers -> Steps] /\ item' \in [Workers -> Files \cup {None}]
          /\ todo' \in [Workers -> SUBSET Files]
      BY DEF TypeOK, Missing, Move, Steps
    <2> QED
      BY <2>1, <2>3, <2>4 DEF TypeOK, Missing, redis, ghosts
  <1>2. Local'
    BY <1>1
    DEF TypeOK, Local, Pending, FilesOf, Waiting, Missing, Move, Settle,
        redis, local, ghosts
  <1>3. alone' => OneUp' /\ Fresh'
    BY <1>1
    DEF TypeOK, OneUp, Up, Fresh, Listed, Local, Settled, Pending, FilesOf,
        Missing, Move, Settle, redis, local, ghosts
  <1>4. alone' => \A v \in Workers : Listed(v)'
    BY <1>1
    DEF TypeOK, Listed, Local, OneUp, Up, Fresh, Pending, FilesOf, Waiting,
        Settled, Missing, Move, Settle, redis, local, ghosts
  <1>5. CountsAddUp'
    <2> SUFFICES ASSUME alone PROVE CountsAddUp'
      BY DEF CountsAddUp, Missing, ghosts
    <2>1. f \in FilesOf(job[w]) /\ job[w] \in Jobs
      BY DEF Local, FilesOf, Missing, Move
    <2>2. Settle(w, f, "failed")
      BY DEF Missing
    <2>3. f \notin Failed(job[w])
      BY DEF Listed, Pending, Fresh, Failed, Settled, Missing, Move
    <2>4. \A j \in Jobs : /\ Completed(j)' = Completed(j)
                           /\ Failed(j)' = IF j = job[w] THEN Failed(j) \cup {f}
                                                      ELSE Failed(j)
      BY <2>1, <2>2
      DEF TypeOK, Settle, Listed, Pending, Fresh, Settled, Completed, Failed,
          FilesOf, Missing, Move, ghosts
    <2> QED
      BY <2>1, <2>2, <2>3, <2>4, CountsFailed
  <1> QED
    BY <1>1, <1>2, <1>3, <1>4, <1>5

LEMMA TakeConverter ==
    ASSUME ConverterInv, NEW w \in Workers, NEW f \in Files, Take(w, f)
    PROVE  ConverterInv'
  <1> USE ConverterAssumption DEF ConverterInv
  <1>1. TypeOK'
    BY
    DEF TypeOK, Steps, Settled, Pending, FilesOf, Waiting, Take, Move, redis,
        local, ghosts
  <1>2. Local'
    BY <1>1
    DEF TypeOK, Local, Pending, FilesOf, Waiting, Take, Move, redis, local,
        ghosts
  <1>3. alone' => OneUp' /\ Fresh'
    BY <1>1
    DEF TypeOK, OneUp, Up, Fresh, Listed, Local, Settled, Pending, FilesOf,
        Take, Move, redis, local, ghosts
  <1>4. alone' => \A v \in Workers : Listed(v)'
    BY <1>1
    DEF TypeOK, Listed, Local, OneUp, Up, Fresh, Pending, FilesOf, Waiting,
        Settled, Take, Move, redis, local, ghosts
  <1>5. CountsAddUp'
    BY CountsKept, <1>1
    DEF TypeOK, Completed, Failed, FilesOf, Fresh, Listed, Pending, Settled,
        Take, Move, redis, local, ghosts
  <1> QED
    BY <1>1, <1>2, <1>3, <1>4, <1>5

LEMMA EndConverter ==
    ASSUME ConverterInv, NEW w \in Workers, NEW status \in Settled, End(w, status)
    PROVE  ConverterInv'
  <1> USE ConverterAssumption DEF ConverterInv
  <1>1. TypeOK'
    <2>1. item[w] \in Files /\ job[w] \in Jobs
      BY DEF TypeOK, Local, FilesOf, End, Move
    <2>2. status \in Settled
      BY DEF Settled
    <2>3. /\ file' \in [Files -> {"none", "pending", "processing"} \cup Settled]
          /\ done' \in [Jobs -> Nat] /\ failed' \in [Jobs -> Nat]
      BY <2>1, <2>2, SettleTypes DEF End
    <2>4. at' \in [Workers -> Steps] /\ item' \in [Workers -> Files \cup {None}]
          /\ todo' \in [Workers -> SUBSET Files]
      BY DEF TypeOK, End, Move, Steps
    <2> QED
      BY <2>1, <2>3, <2>4 DEF TypeOK, End, redis, ghosts
  <1>2. Local'
    BY <1>1
    DEF TypeOK, Local, Pending, FilesOf, Waiting, End, Move, Settle, redis,
        local, ghosts
  <1>3. alone' => OneUp' /\ Fresh'
    BY <1>1
    DEF TypeOK, OneUp, Up, Fresh, Listed, Local, Settled, Pending, FilesOf,
        End, Move, Settle, redis, local, ghosts
  <1>4. alone' => \A v \in Workers : Listed(v)'
    BY <1>1
    DEF TypeOK, Listed, Local, OneUp, Up, Fresh, Pending, FilesOf, Waiting,
        Settled, End, Move, Settle, redis, local, ghosts
  <1>5. CountsAddUp'
    <2> SUFFICES ASSUME alone PROVE CountsAddUp'
      BY DEF CountsAddUp, End, ghosts
    <2>1. CASE status = "completed"
      <3>1. item[w] \in FilesOf(job[w]) /\ job[w] \in Jobs
        BY DEF Local, FilesOf, End, Move
      <3>2. Settle(w, item[w], "completed")
        BY <2>1 DEF End
      <3>3. item[w] \notin Completed(job[w])
        BY DEF Listed, Pending, Fresh, Completed, Settled, End, Move
      <3>4. \A j \in Jobs : /\ Failed(j)' = Failed(j)
                             /\ Completed(j)' = IF j = job[w] THEN Completed(j) \cup {item[w]}
                                                        ELSE Completed(j)
        BY <3>1, <3>2
        DEF TypeOK, Settle, Listed, Pending, Fresh, Settled, Completed, Failed,
            FilesOf, End, Move, ghosts
      <3> QED
        BY <3>1, <3>2, <3>3, <3>4, CountsCompleted
    <2>2. CASE status = "failed"
      <3>1. item[w] \in FilesOf(job[w]) /\ job[w] \in Jobs
        BY DEF Local, FilesOf, End, Move
      <3>2. Settle(w, item[w], "failed")
        BY <2>2 DEF End
      <3>3. item[w] \notin Failed(job[w])
        BY DEF Listed, Pending, Fresh, Failed, Settled, End, Move
      <3>4. \A j \in Jobs : /\ Completed(j)' = Completed(j)
                             /\ Failed(j)' = IF j = job[w] THEN Failed(j) \cup {item[w]}
                                                        ELSE Failed(j)
        BY <3>1, <3>2
        DEF TypeOK, Settle, Listed, Pending, Fresh, Settled, Completed, Failed,
            FilesOf, End, Move, ghosts
      <3> QED
        BY <3>1, <3>2, <3>3, <3>4, CountsFailed
    <2> QED
      BY <2>1, <2>2 DEF Settled
  <1> QED
    BY <1>1, <1>2, <1>3, <1>4, <1>5

LEMMA EndDoubtedConverter ==
    ASSUME ConverterInv, NEW w \in Workers, EndDoubted(w)
    PROVE  ConverterInv'
  <1> USE ConverterAssumption DEF ConverterInv
  <1>1. TypeOK'
    <2>1. item[w] \in Files /\ job[w] \in Jobs
      BY DEF TypeOK, Local, FilesOf, EndDoubted, Move
    <2>2. "completed" \in Settled
      BY DEF Settled
    <2>3. /\ file' \in [Files -> {"none", "pending", "processing"} \cup Settled]
          /\ done' \in [Jobs -> Nat] /\ failed' \in [Jobs -> Nat]
      BY <2>1, <2>2, SettleTypes DEF EndDoubted
    <2>4. at' \in [Workers -> Steps] /\ item' \in [Workers -> Files \cup {None}]
          /\ todo' \in [Workers -> SUBSET Files]
      BY DEF TypeOK, EndDoubted, Move, Steps
    <2> QED
      BY <2>1, <2>3, <2>4 DEF TypeOK, EndDoubted, redis, ghosts, Fault
  <1>2. Local'
    BY <1>1
    DEF TypeOK, Local, Pending, FilesOf, Waiting, EndDoubted, Move, Settle,
        Fault, redis, local, ghosts
  <1>3. alone' => OneUp' /\ Fresh'
    BY <1>1
    DEF TypeOK, OneUp, Up, Fresh, Listed, Local, Settled, Pending, FilesOf,
        EndDoubted, Move, Settle, Fault, redis, local, ghosts
  <1>4. alone' => \A v \in Workers : Listed(v)'
    BY <1>1
    DEF TypeOK, Listed, Local, OneUp, Up, Fresh, Pending, FilesOf, Waiting,
        Settled, EndDoubted, Move, Settle, Fault, redis, local, ghosts
  <1>5. CountsAddUp'
    <2> SUFFICES ASSUME alone PROVE CountsAddUp'
      BY DEF CountsAddUp, EndDoubted, ghosts
    <2>1. item[w] \in FilesOf(job[w]) /\ job[w] \in Jobs
      BY DEF Local, FilesOf, EndDoubted, Move
    <2>2. Settle(w, item[w], "completed")
      BY DEF EndDoubted
    <2>3. item[w] \notin Completed(job[w])
      BY DEF Listed, Pending, Fresh, Completed, Settled, EndDoubted, Move
    <2>4. \A j \in Jobs : /\ Failed(j)' = Failed(j)
                           /\ Completed(j)' = IF j = job[w] THEN Completed(j) \cup {item[w]}
                                                      ELSE Completed(j)
      BY <2>1, <2>2
      DEF TypeOK, Settle, Listed, Pending, Fresh, Settled, Completed, Failed,
          FilesOf, EndDoubted, Move, ghosts
    <2> QED
      BY <2>1, <2>2, <2>3, <2>4, CountsCompleted
  <1> QED
    BY <1>1, <1>2, <1>3, <1>4, <1>5

LEMMA ReportFailedConverter ==
    ASSUME ConverterInv, NEW w \in Workers, ReportFailed(w)
    PROVE  ConverterInv'
  <1> USE ConverterAssumption DEF ConverterInv
  <1>1. TypeOK'
    <2>1. item[w] \in Files /\ job[w] \in Jobs
      BY DEF TypeOK, Local, FilesOf, ReportFailed, Move
    <2>2. "failed" \in Settled
      BY DEF Settled
    <2>3. /\ file' \in [Files -> {"none", "pending", "processing"} \cup Settled]
          /\ done' \in [Jobs -> Nat] /\ failed' \in [Jobs -> Nat]
      BY <2>1, <2>2, SettleTypes DEF ReportFailed
    <2>4. at' \in [Workers -> Steps] /\ item' \in [Workers -> Files \cup {None}]
          /\ todo' \in [Workers -> SUBSET Files]
      BY DEF TypeOK, ReportFailed, Move, Steps
    <2> QED
      BY <2>1, <2>3, <2>4 DEF TypeOK, ReportFailed, redis, ghosts
  <1>2. Local'
    BY <1>1
    DEF TypeOK, Local, Pending, FilesOf, Waiting, ReportFailed, Move, Settle,
        redis, local, ghosts
  <1>3. alone' => OneUp' /\ Fresh'
    BY <1>1
    DEF TypeOK, OneUp, Up, Fresh, Listed, Local, Settled, Pending, FilesOf,
        ReportFailed, Move, Settle, redis, local, ghosts
  <1>4. alone' => \A v \in Workers : Listed(v)'
    BY <1>1
    DEF TypeOK, Listed, Local, OneUp, Up, Fresh, Pending, FilesOf, Waiting,
        Settled, ReportFailed, Move, Settle, redis, local, ghosts
  <1>5. CountsAddUp'
    <2> SUFFICES ASSUME alone PROVE CountsAddUp'
      BY DEF CountsAddUp, ReportFailed, ghosts
    <2>1. item[w] \in FilesOf(job[w]) /\ job[w] \in Jobs
      BY DEF Local, FilesOf, ReportFailed, Move
    <2>2. Settle(w, item[w], "failed")
      BY DEF ReportFailed
    <2>3. item[w] \notin Failed(job[w])
      BY DEF Listed, Pending, Fresh, Failed, Settled, ReportFailed, Move
    <2>4. \A j \in Jobs : /\ Completed(j)' = Completed(j)
                           /\ Failed(j)' = IF j = job[w] THEN Failed(j) \cup {item[w]}
                                                      ELSE Failed(j)
      BY <2>1, <2>2
      DEF TypeOK, Settle, Listed, Pending, Fresh, Settled, Completed, Failed,
          FilesOf, ReportFailed, Move, ghosts
    <2> QED
      BY <2>1, <2>2, <2>3, <2>4, CountsFailed
  <1> QED
    BY <1>1, <1>2, <1>3, <1>4, <1>5

LEMMA BatchDoneConverter ==
    ASSUME ConverterInv, NEW w \in Workers, BatchDone(w)
    PROVE  ConverterInv'
  <1> USE ConverterAssumption DEF ConverterInv
  <1>1. TypeOK'
    BY
    DEF TypeOK, Steps, Settled, Pending, FilesOf, Waiting, BatchDone, Leave,
        redis, local, ghosts
  <1>2. Local'
    BY <1>1
    DEF TypeOK, Local, Pending, FilesOf, Waiting, BatchDone, Leave, redis,
        local, ghosts
  <1>3. alone' => OneUp' /\ Fresh'
    BY <1>1
    DEF TypeOK, OneUp, Up, Fresh, Listed, Local, Settled, Pending, FilesOf,
        BatchDone, Leave, redis, local, ghosts
  <1>4. alone' => \A v \in Workers : Listed(v)'
    BY <1>1
    DEF TypeOK, Listed, Local, OneUp, Up, Fresh, Pending, FilesOf, Waiting,
        Settled, BatchDone, Leave, redis, local, ghosts
  <1>5. CountsAddUp'
    BY CountsKept, <1>1
    DEF TypeOK, Completed, Failed, FilesOf, Fresh, Listed, Pending, Settled,
        BatchDone, Leave, redis, local, ghosts
  <1> QED
    BY <1>1, <1>2, <1>3, <1>4, <1>5

LEMMA LoseBatchConverter ==
    ASSUME ConverterInv, NEW w \in Workers, LoseBatch(w)
    PROVE  ConverterInv'
  <1> USE ConverterAssumption DEF ConverterInv
  <1>1. TypeOK'
    BY
    DEF TypeOK, Steps, Settled, Pending, FilesOf, Waiting, LoseBatch, Leave,
        Fault, redis, local, ghosts
  <1>2. Local'
    BY <1>1
    DEF TypeOK, Local, Pending, FilesOf, Waiting, LoseBatch, Leave, Fault,
        redis, local, ghosts
  <1>3. alone' => OneUp' /\ Fresh'
    BY <1>1
    DEF TypeOK, OneUp, Up, Fresh, Listed, Local, Settled, Pending, FilesOf,
        LoseBatch, Leave, Fault, redis, local, ghosts
  <1>4. alone' => \A v \in Workers : Listed(v)'
    BY <1>1
    DEF TypeOK, Listed, Local, OneUp, Up, Fresh, Pending, FilesOf, Waiting,
        Settled, LoseBatch, Leave, Fault, redis, local, ghosts
  <1>5. CountsAddUp'
    BY CountsKept, <1>1
    DEF TypeOK, Completed, Failed, FilesOf, Fresh, Listed, Pending, Settled,
        LoseBatch, Leave, Fault, redis, local, ghosts
  <1> QED
    BY <1>1, <1>2, <1>3, <1>4, <1>5

LEMMA StopConverter ==
    ASSUME ConverterInv, NEW w \in Workers, Stop(w)
    PROVE  ConverterInv'
  <1> USE ConverterAssumption DEF ConverterInv
  <1>1. TypeOK'
    BY
    DEF TypeOK, Steps, Settled, Pending, FilesOf, Waiting, Stop, Leave, Fault,
        redis, local, ghosts
  <1>2. Local'
    BY <1>1
    DEF TypeOK, Local, Pending, FilesOf, Waiting, Stop, Leave, Fault, redis,
        local, ghosts
  <1>3. alone' => OneUp' /\ Fresh'
    BY <1>1
    DEF TypeOK, OneUp, Up, Fresh, Listed, Local, Settled, Pending, FilesOf,
        Stop, Leave, Fault, redis, local, ghosts
  <1>4. alone' => \A v \in Workers : Listed(v)'
    BY <1>1
    DEF TypeOK, Listed, Local, OneUp, Up, Fresh, Pending, FilesOf, Waiting,
        Settled, Stop, Leave, Fault, redis, local, ghosts
  <1>5. CountsAddUp'
    BY CountsKept, <1>1
    DEF TypeOK, Completed, Failed, FilesOf, Fresh, Listed, Pending, Settled,
        Stop, Leave, Fault, redis, local, ghosts
  <1> QED
    BY <1>1, <1>2, <1>3, <1>4, <1>5

LEMMA StartConverter ==
    ASSUME ConverterInv, NEW w \in Workers, Start(w)
    PROVE  ConverterInv'
  <1> USE ConverterAssumption DEF ConverterInv
  <1>1. TypeOK'
    BY
    DEF TypeOK, Steps, Settled, Pending, FilesOf, Waiting, Start, Move, redis,
        local, ghosts
  <1>2. Local'
    BY <1>1
    DEF TypeOK, Local, Pending, FilesOf, Waiting, Start, Move, redis, local,
        ghosts
  <1>3. alone' => OneUp' /\ Fresh'
    <2> SUFFICES ASSUME alone' PROVE OneUp' /\ Fresh'
      OBVIOUS
    <2>1. alone /\ \A v \in Workers : at[v] = "off"
      BY DEF Start, Up
    <2>2. \A v \in Workers : at'[v] = IF v = w THEN "idle" ELSE "off"
      BY <2>1 DEF Start, Move, TypeOK
    <2>3. OneUp'
      BY <2>2 DEF OneUp, Up
    <2>4. Fresh'
      BY <2>1 DEF Fresh, Start, redis, ghosts
    <2> QED
      BY <2>3, <2>4
  <1>4. alone' => \A v \in Workers : Listed(v)'
    BY <1>1
    DEF TypeOK, Listed, Local, OneUp, Up, Fresh, Pending, FilesOf, Waiting,
        Settled, Start, Move, redis, local, ghosts
  <1>5. CountsAddUp'
    BY CountsKept, <1>1
    DEF TypeOK, Completed, Failed, FilesOf, Fresh, Listed, Pending, Settled,
        Start, Move, redis, local, ghosts
  <1> QED
    BY <1>1, <1>2, <1>3, <1>4, <1>5

LEMMA NextConverter == ConverterInv /\ [Next]_vars => ConverterInv'
  <1> SUFFICES ASSUME ConverterInv, [Next]_vars PROVE ConverterInv'
    OBVIOUS
  <1>1. CASE UNCHANGED vars
    <2>1. TypeOK' /\ Local'
      BY <1>1 DEF vars, redis, local, ghosts, ConverterInv, TypeOK, Local
    <2>2. alone' => OneUp' /\ Fresh' /\ \A w \in Workers : Listed(w)'
      BY <1>1
      DEF vars, redis, local, ghosts, ConverterInv, OneUp, Up, Fresh, Listed, Pending
    <2>3. \A j \in Jobs : Completed(j)' = Completed(j) /\ Failed(j)' = Failed(j)
      BY <1>1 DEF vars, redis, ghosts, Completed, Failed
    <2>4. CountsAddUp'
      BY <1>1, <2>3, CountsKept DEF vars, redis, ghosts, ConverterInv
    <2> QED
      BY <2>1, <2>2, <2>4 DEF ConverterInv
  <1>2. CASE Next
    BY <1>2, CreateJobConverter, TriggerConversionConverter,
        TurnWindowConverter, LookConverter, ReadTriggerConverter,
        ClearTriggerConverter, ChooseConverter, FindNothingConverter,
        ListConverter, MissingConverter, TakeConverter, EndConverter,
        EndDoubtedConverter, ReportFailedConverter, BatchDoneConverter,
        LoseBatchConverter, StopConverter, StartConverter
    DEF Next, Work, Loop
  <1> QED
    BY <1>1, <1>2

(* The invariant of the workers and the counters holds in every reachable  *)
(* state, for any jobs, files and workers.                                 *)
THEOREM ConverterCorrect == Spec => []ConverterInv
  BY InitConverter, NextConverter, PTL DEF Spec

(* A job's counters tell its files' results.                               *)
THEOREM CountsAddUpAlways == Spec => []CountsAddUp
  <1>1. ConverterInv => CountsAddUp
    BY DEF ConverterInv
  <1> QED
    BY <1>1, ConverterCorrect, PTL

LEMMA NextKeepsResults ==
    ASSUME ConverterInv, Next, alone', NEW f \in Files \ doubtful, file[f] \in Settled
    PROVE  file'[f] = file[f]
  <1> USE DEF ConverterInv
  <1>1. alone
    BY DEF Next, Work, Loop, CreateJob, TriggerConversion, TurnWindow, Look,
           ReadTrigger, ClearTrigger, Choose, FindNothing, List, Missing, Take,
           End, EndDoubted, ReportFailed, BatchDone, LoseBatch, Stop, Start, ghosts
  <1>2. ASSUME NEW j \in Jobs, CreateJob(j) PROVE file'[f] = file[f]
    BY <1>1, <1>2, ConverterAssumption DEF CreateJob, Fresh, Settled, TypeOK
  <1>3. ASSUME NEW w \in Workers, NEW g \in Files, Missing(w, g) \/ Take(w, g)
        PROVE  file'[f] = file[f]
    <2>1. file[g] = "pending"
      BY <1>1, <1>3 DEF Missing, Take, Listed, Pending
    <2> QED
      BY <1>3, <2>1 DEF Missing, Take, Settle, TypeOK, Settled
  <1>4. ASSUME NEW w \in Workers, NEW status \in Settled, End(w, status)
        PROVE  file'[f] = file[f]
    BY <1>1, <1>4 DEF End, Move, Settle, Listed, TypeOK, Settled
  <1>5. ASSUME NEW w \in Workers, EndDoubted(w) \/ ReportFailed(w)
        PROVE  file'[f] = file[f]
    BY <1>1, <1>5 DEF EndDoubted, ReportFailed, Move, Settle, Listed, TypeOK, Settled
  <1> QED
    BY <1>2, <1>3, <1>4, <1>5
    DEF Next, Work, Loop, TriggerConversion, TurnWindow, Look, ReadTrigger,
        ClearTrigger, Choose, FindNothing, List, BatchDone, LoseBatch, Stop,
        Start, redis

(* A file with a result is not converted again and keeps its result.       *)
THEOREM ResultStaysAlways == Spec => ResultStays
  <1>1. ConverterInv /\ [Next]_vars =>
          [alone' => \A f \in Files \ doubtful :
             file[f] \in Settled => file'[f] = file[f]]_vars
    BY NextKeepsResults
  <1> QED
    BY <1>1, ConverterCorrect, PTL DEF Spec, ResultStays
=============================================================================
