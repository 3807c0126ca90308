--------------------------- MODULE ArmPoolProofs ---------------------------
(***************************************************************************)
(* Proofs about ArmPool, for every number of arms, work items and workers, *)
(* every stop-loss and every largest cost of a rollout.                    *)
(***************************************************************************)
EXTENDS ArmPool, FiniteSetTheorems, TLAPS

LEMMA WorkItem ==
  /\ \A a \in Arms : \A i \in 1..ItemsOf[a] : <<a, i>> \in Work
  /\ \A a, i : <<a, i>> \in Work => a \in Arms /\ i \in 1..ItemsOf[a]
  /\ \A k \in Work : k[1] \in Arms /\ k = <<k[1], k[2]>>
BY DEF Work

LEMMA ArmRange ==
  /\ \A a \in Arms : a \in 1..(NumArms + 1) /\ a + 1 \in 1..(NumArms + 1)
  /\ \A a \in 1..(NumArms + 1) : a <= NumArms => a \in Arms
  /\ 1 \in 1..(NumArms + 1)
BY ArmPoolAssumption DEF Arms

LEMMA SpendTyped ==
  ASSUME NEW cost \in 0..MaxCost, spent \in Nat, spendStopped \in BOOLEAN,
         RecordSpend(cost)
  PROVE  spent' \in Nat /\ spendStopped' \in BOOLEAN
<1>1. cost \in Nat
  BY ArmPoolAssumption
<1> QED BY <1>1 DEF RecordSpend

-----------------------------------------------------------------------------
(* Types and work items. *)

PoolInv == TypeOK /\ Accounted

LEMMA PoolInit == Init => PoolInv
<1> SUFFICES ASSUME Init PROVE PoolInv
  OBVIOUS
<1>1. TypeOK
  BY ArmRange DEF Init, TypeOK, Active, Places
<1>2. Accounted
  BY DEF Init, Accounted, Active
<1> QED BY <1>1, <1>2 DEF PoolInv

(* Steps of the loop that start no worker and advance no arm. *)
LEMMA LoopMoves ==
  ASSUME PoolInv,
         UNCHANGED <<queue, at, hand, rows, armCancelled, spendStopped, spent, completed>>,
         UNCHANGED <<arm, fallback>>, up' \subseteq LocalArms,
         status' \in {"running", "cancelled", "failed", "done"},
         published' \in Nat, failing' \in BOOLEAN,
         stage' \in {"serving", "closing", "failed", "ended", "over", "crashed"},
         stage' = "closing" => arm \in Arms,
         stage' = "serving" => stage = "head" /\ arm \in LocalArms,
         stage' = "closing" /\ ~failing' => ~Active
  PROVE  PoolInv'
<1>1. Active' = Active
  BY DEF Active
<1>2. TypeOK'
  BY <1>1 DEF PoolInv, TypeOK
<1>3. Accounted'
  BY <1>1 DEF PoolInv, Accounted
<1> QED BY <1>2, <1>3 DEF PoolInv

(* Opening the pool of an arm: no item of it has a row yet. *)
LEMMA PoolOpens ==
  ASSUME PoolInv, OpenPool, arm \in Arms, stage \in {"head", "serving"},
         fallback' \subseteq LocalArms, up' \subseteq LocalArms
  PROVE  PoolInv'
<1>1. /\ at' \in [Workers -> {"check", "finished"}]
      /\ stage' = "pool"
      /\ queue' = 1..ItemsOf[arm]
      /\ armCancelled' = FALSE
      /\ UNCHANGED <<status, published, arm, failing, hand, spendStopped, spent, completed, rows>>
  BY DEF OpenPool, fileVars, countVars
<1>2. queue' \subseteq Nat
  BY <1>1, ArmPoolAssumption
<1>3. TypeOK'
  BY <1>1, <1>2 DEF PoolInv, TypeOK, Active, Places
<1>4. \A i \in queue' : rows'[<<arm', i>>] = 0
  <2> SUFFICES ASSUME NEW i \in queue' PROVE rows[<<arm, i>>] = 0
    BY <1>1
  <2>1. <<arm, i>> \in Work
    BY <1>1, WorkItem
  <2>2. <<arm, i>>[1] = arm
    OBVIOUS
  <2> QED BY <2>1, <2>2 DEF PoolInv, Accounted
<1>5. Accounted'
  BY <1>1, <1>4 DEF PoolInv, Accounted, Active
<1> QED BY <1>3, <1>5 DEF PoolInv

(* A worker that stops changes nothing that the others rely on. *)
LEMMA WorkerLeaves ==
  ASSUME PoolInv, NEW w \in Workers, NEW place \in {"finished", "thrown"},
         at' = [at EXCEPT ![w] = place],
         hand' \in {hand, [hand EXCEPT ![w] = 0]},
         queue' \subseteq queue, armCancelled' \in BOOLEAN,
         UNCHANGED <<fileVars, loopVars, countVars>>
  PROVE  PoolInv'
<1>0. /\ hand' \in [Workers -> Nat]
      /\ \A v \in Workers : at'[v] = "rollout" => hand'[v] = hand[v]
  BY DEF PoolInv, TypeOK
<1>1. \A v \in Workers : at'[v] \in {"check", "rollout"} => at'[v] = at[v]
  BY DEF PoolInv, TypeOK
<1>2. Active' => Active
  BY <1>1 DEF Active
<1>3. TypeOK'
  BY <1>0, <1>1, <1>2 DEF PoolInv, TypeOK, Places, fileVars, loopVars, countVars
<1>4. Accounted'
  BY <1>0, <1>1, <1>2 DEF PoolInv, Accounted, loopVars, countVars
<1> QED BY <1>3, <1>4 DEF PoolInv

LEMMA TakesItem ==
  ASSUME PoolInv, NEW w \in Workers, Take(w)
  PROVE  PoolInv'
<1>1. PICK i \in queue : /\ queue' = queue \ {i}
                         /\ hand' = [hand EXCEPT ![w] = i]
  BY DEF Take
<1>2. /\ at[w] = "check"
      /\ at' = [at EXCEPT ![w] = "rollout"]
      /\ UNCHANGED <<fileVars, loopVars, armCancelled, countVars>>
  BY DEF Take
<1>3. Active /\ Active'
  BY <1>2 DEF Active, PoolInv, TypeOK
<1>4. arm \in Arms /\ i \in 1..ItemsOf[arm] /\ i \in Nat /\ rows[<<arm, i>>] = 0
  BY <1>3 DEF PoolInv, TypeOK, Accounted
<1>5. <<arm, i>> \in Work
  BY <1>4, WorkItem
<1>6. \A v \in Workers : at'[v] = "rollout" =>
        \/ v = w /\ hand'[v] = i
        \/ v # w /\ at[v] = "rollout" /\ hand'[v] = hand[v]
  BY <1>1, <1>2 DEF PoolInv, TypeOK
<1>7. TypeOK'
  BY <1>1, <1>2, <1>3, <1>4, <1>5, <1>6
  DEF PoolInv, TypeOK, Places, fileVars, loopVars, countVars
<1>8. Accounted'
  BY <1>1, <1>2, <1>3, <1>4, <1>6 DEF PoolInv, Accounted, loopVars, countVars
<1> QED BY <1>7, <1>8 DEF PoolInv

(* The row of a rollout is the first one of its item. *)
LEMMA RowAppended ==
  ASSUME PoolInv, NEW w \in Workers, at[w] = "rollout", AppendRow(w),
         NEW place \in {"check", "thrown"},
         at' = [at EXCEPT ![w] = place],
         hand' = [hand EXCEPT ![w] = 0],
         UNCHANGED <<status, loopVars, queue, armCancelled>>,
         published' \in Nat, completed' \in Nat, spent' \in Nat, spendStopped' \in BOOLEAN
  PROVE  PoolInv'
<1> DEFINE item == <<arm, hand[w]>>
<1>1. Active /\ arm \in Arms /\ item \in Work /\ rows[item] = 0
  BY DEF Active, PoolInv, TypeOK, Accounted
<1>2. \A k \in Work : rows'[k] = IF k = item THEN 1 ELSE rows[k]
  BY <1>1 DEF AppendRow, PoolInv, TypeOK
<1>3. \A v \in Workers : at'[v] = "rollout" =>
        v # w /\ at[v] = "rollout" /\ hand'[v] = hand[v] /\ hand[v] # hand[w]
  BY DEF PoolInv, TypeOK, Accounted
<1>4. rows' \in [Work -> Nat]
  BY <1>1 DEF AppendRow, PoolInv, TypeOK
<1>5. TypeOK'
  BY <1>1, <1>3, <1>4 DEF PoolInv, TypeOK, Places, loopVars
<1>6. stage \notin {"head", "serving"} /\ ~(stage = "closing" /\ ~failing)
  BY <1>1 DEF PoolInv, Accounted
<1>7. \A k \in Work : k[1] > arm => k # item
  BY <1>1, ArmPoolAssumption DEF Arms
<1>8. \A k \in Work : rows'[k] <= 1 /\ (k[1] > arm => rows'[k] = 0)
  BY <1>2, <1>7 DEF PoolInv, Accounted
<1>9. \A i \in queue : rows'[<<arm, i>>] = 0
  <2> SUFFICES ASSUME NEW i \in queue PROVE rows'[<<arm, i>>] = 0
    OBVIOUS
  <2>1. <<arm, i>> \in Work /\ rows[<<arm, i>>] = 0 /\ i # hand[w]
    BY <1>1, WorkItem DEF PoolInv, TypeOK, Accounted
  <2> QED BY <1>2, <2>1
<1>10. \A v \in Workers : at'[v] = "rollout" =>
         hand'[v] \notin queue /\ rows'[<<arm, hand'[v]>>] = 0
  <2> SUFFICES ASSUME NEW v \in Workers, at'[v] = "rollout"
               PROVE  hand[v] \notin queue /\ rows'[<<arm, hand[v]>>] = 0
    BY <1>3
  <2>1. /\ at[v] = "rollout" /\ hand[v] # hand[w]
        /\ hand[v] \notin queue
        /\ <<arm, hand[v]>> \in Work /\ rows[<<arm, hand[v]>>] = 0
    BY <1>3 DEF PoolInv, TypeOK, Accounted
  <2> QED BY <1>2, <2>1
<1>11. Accounted'
  BY <1>3, <1>6, <1>8, <1>9, <1>10 DEF PoolInv, Accounted, loopVars
<1> QED BY <1>5, <1>11 DEF PoolInv

LEMMA PoolStep == PoolInv /\ [Next]_vars => PoolInv'
<1> SUFFICES ASSUME PoolInv, [Next]_vars
             PROVE  PoolInv'
  OBVIOUS
<1> USE DEF fileVars, loopVars, poolVars, countVars
<1>1. CASE Cancel
  BY <1>1 DEF Cancel, PoolInv, TypeOK, Accounted, Active
<1>2. CASE GatewayArm \/ PredictedOom \/ Served \/ ServeFailed
  <2>1. arm \in Arms /\ stage \in {"head", "serving"}
    BY <1>2, ArmRange, ArmPoolAssumption DEF GatewayArm, PredictedOom, Served, ServeFailed, PoolInv, TypeOK
  <2>2. fallback' \subseteq LocalArms /\ up' \subseteq LocalArms /\ OpenPool
    <3>1. CASE GatewayArm
      BY <3>1 DEF GatewayArm, PoolInv, TypeOK
    <3>2. CASE PredictedOom
      BY <3>2 DEF PredictedOom, PoolInv, TypeOK
    <3>3. CASE Served \/ ServeFailed
      <4>1. arm \in LocalArms
        BY <3>3 DEF Served, ServeFailed, PoolInv, TypeOK
      <4> QED BY <3>3, <4>1 DEF Served, ServeFailed, PoolInv, TypeOK
    <3> QED BY <1>2, <3>1, <3>2, <3>3
  <2> QED BY <2>1, <2>2, PoolOpens
<1>3. CASE Serve \/ SpawnError \/ LeaveLoop \/ LoopThrows
  <2>1. stage' = "serving" => stage = "head" /\ arm \in LocalArms
    BY <1>3 DEF Serve, SpawnError, LeaveLoop, LoopThrows, PoolInv, TypeOK
  <2> QED
    BY <1>3, <2>1, LoopMoves
    DEF Serve, SpawnError, LeaveLoop, LoopThrows, PoolInv, TypeOK
<1>4. CASE PoolOver
  <2>1. failing' \in BOOLEAN /\ (~failing' => ~Active)
    BY <1>4 DEF PoolOver, Outcomes, Active
  <2> QED BY <1>4, <2>1, LoopMoves DEF PoolOver, PoolInv, TypeOK
<1>5. CASE EndFailed \/ EndCancelled \/ EndDone
  BY <1>5, LoopMoves DEF EndFailed, EndCancelled, EndDone, PoolInv, TypeOK
<1>6. CASE Close
  <2>1. up' \subseteq LocalArms /\ stage = "closing" /\ arm \in Arms
    BY <1>6 DEF Close, PoolInv, TypeOK
  <2>2. CASE UNCHANGED arm /\ stage' \in {"failed", "ended"}
    BY <1>6, <2>1, <2>2, LoopMoves DEF Close, PoolInv, TypeOK
  <2>3. CASE ~failing /\ arm' = arm + 1 /\ stage' = "head"
    <3>1. ~Active /\ ~Active'
      BY <1>6, <2>3 DEF Close, PoolInv, Accounted, Active
    <3>2. arm' \in 1..(NumArms + 1)
      BY <2>1, <2>3, ArmRange
    <3>3. TypeOK'
      BY <1>6, <2>1, <2>3, <3>1, <3>2 DEF Close, PoolInv, TypeOK, Active
    <3>4. \A k \in Work : k[1] > arm' \/ k[1] = arm' => k[1] > arm
      BY <2>1, <2>3, WorkItem DEF Arms
    <3>5. Accounted'
      BY <1>6, <2>3, <3>1, <3>4 DEF Close, PoolInv, Accounted, Active
    <3> QED BY <3>3, <3>5 DEF PoolInv
  <2> QED BY <1>6, <2>2, <2>3 DEF Close, AfterArm
<1>7. ASSUME NEW w \in Workers, StopWorker(w) \/ QueueEmpty(w) \/ TakeThrows(w)
      PROVE  PoolInv'
  <2>1. armCancelled' \in BOOLEAN /\ queue' \subseteq queue
    BY <1>7 DEF StopWorker, QueueEmpty, TakeThrows, PoolInv, TypeOK
  <2> QED BY <1>7, <2>1, WorkerLeaves DEF StopWorker, QueueEmpty, TakeThrows
<1>8. ASSUME NEW w \in Workers, NEW cost \in 0..MaxCost, Record(w, cost)
      PROVE  PoolInv'
  <2>1. spent \in Nat /\ spendStopped \in BOOLEAN /\ completed \in Nat
    BY DEF PoolInv, TypeOK
  <2>2. spent' \in Nat /\ spendStopped' \in BOOLEAN
    BY <1>8, <2>1, SpendTyped DEF Record
  <2>3. completed' \in Nat /\ published' \in Nat
    BY <1>8, <2>1 DEF Record
  <2> QED BY <1>8, <2>2, <2>3, RowAppended DEF Record
<1>9. ASSUME NEW w \in Workers, RecordThrows(w)
      PROVE  PoolInv'
  <2>1. CASE UNCHANGED countVars
    BY <1>9, <2>1, WorkerLeaves DEF RecordThrows, PoolInv, TypeOK
  <2>2. ASSUME NEW cost \in 0..MaxCost, AppendRow(w), RecordSpend(cost),
               completed' \in {completed, completed + 1}
        PROVE  PoolInv'
    <3>1. spent \in Nat /\ spendStopped \in BOOLEAN /\ completed \in Nat
      BY DEF PoolInv, TypeOK
    <3>2. spent' \in Nat /\ spendStopped' \in BOOLEAN /\ completed' \in Nat
      BY <2>2, <3>1, SpendTyped
    <3> QED BY <1>9, <2>2, <3>2, RowAppended DEF RecordThrows, PoolInv, TypeOK
  <2> QED BY <1>9, <2>1, <2>2 DEF RecordThrows
<1>10. ASSUME NEW w \in Workers, Take(w)
       PROVE  PoolInv'
  BY <1>10, TakesItem
<1>11. CASE UNCHANGED vars
  BY <1>11 DEF vars, PoolInv, TypeOK, Accounted, Active
<1>12. 0 \in 0..MaxCost
  BY ArmPoolAssumption
<1> QED
  BY <1>1, <1>2, <1>3, <1>4, <1>5, <1>6, <1>7, <1>8, <1>9, <1>10, <1>11, <1>12
  DEF Next, Process, LoopStep, Resumed, Settle, Timeout

LEMMA PoolInvariant == Spec => []PoolInv
<1> QED BY PoolInit, PoolStep, PTL DEF Spec

(* Every reachable state is well typed: in particular a worker never holds  *)
(* an item of another arm than the one the loop is at.                      *)
THEOREM PoolTypeCorrect == Spec => []TypeOK
<1>1. PoolInv => TypeOK
  BY DEF PoolInv
<1> QED BY PoolInvariant, <1>1, PTL

(* No work item gets two rows, whatever the number of workers, and whichever *)
(* of them throw while others are rolling out.                              *)
THEOREM RowsAreUnique == Spec => []OneRowPerItem
<1>1. PoolInv => OneRowPerItem
  BY DEF PoolInv, Accounted, OneRowPerItem
<1> QED BY PoolInvariant, <1>1, PTL

-----------------------------------------------------------------------------
(* Spend. *)

LEMMA MoreWorkersMoreCost ==
  ASSUME NEW m \in Nat, NEW n \in Nat, m <= n
  PROVE  /\ m * MaxCost \in Nat /\ n * MaxCost \in Nat
         /\ m * MaxCost <= n * MaxCost
<1>1. MaxCost \in Nat
  BY ArmPoolAssumption
<1>2. m * MaxCost \in Nat /\ n * MaxCost \in Nat
  BY <1>1
<1>3. (n - m) * MaxCost \in Nat
  BY <1>1
<1>4. n * MaxCost = m * MaxCost + (n - m) * MaxCost
  BY <1>1
<1> QED BY <1>2, <1>3, <1>4

LEMMA RollingIsFinite ==
  /\ IsFiniteSet(Rolling) /\ IsFiniteSet(Rolling')
  /\ Cardinality(Workers) \in Nat
  /\ Cardinality(Rolling) \in Nat /\ Cardinality(Rolling) <= Cardinality(Workers)
  /\ Cardinality(Rolling') \in Nat /\ Cardinality(Rolling') <= Cardinality(Workers)
<1>1. Rolling \subseteq Workers /\ Rolling' \subseteq Workers
  BY DEF Rolling
<1> QED BY <1>1, ArmPoolAssumption, FS_Subset, FS_CardinalityType

(* A step that records nothing: either no more rollouts are in flight, or   *)
(* the run is not stopped yet.                                             *)
LEMMA SpendKept ==
  ASSUME SpendInFlight, spent \in Nat, UNCHANGED <<spent, spendStopped>>,
         Rolling' \subseteq Rolling \/ ~spendStopped
  PROVE  SpendInFlight'
<1> SUFFICES ASSUME StopLoss # None
             PROVE  /\ ~spendStopped => spent < 2 * StopLoss
                    /\ spent + Cardinality(Rolling') * MaxCost
                         < 2 * StopLoss + Cardinality(Workers) * MaxCost
  BY DEF SpendInFlight
<1>1. StopLoss \in Nat
  BY ArmPoolAssumption
<1>2. CASE Rolling' \subseteq Rolling
  <2>1. Cardinality(Rolling') <= Cardinality(Rolling)
    BY <1>2, RollingIsFinite, FS_Subset
  <2>2. /\ Cardinality(Rolling') * MaxCost <= Cardinality(Rolling) * MaxCost
        /\ Cardinality(Rolling') * MaxCost \in Nat
        /\ Cardinality(Rolling) * MaxCost \in Nat
        /\ Cardinality(Workers) * MaxCost \in Nat
    BY <2>1, RollingIsFinite, MoreWorkersMoreCost
  <2> QED BY <1>1, <2>2 DEF SpendInFlight
<1>3. CASE ~spendStopped
  <2>1. /\ Cardinality(Rolling') * MaxCost <= Cardinality(Workers) * MaxCost
        /\ Cardinality(Rolling') * MaxCost \in Nat
        /\ Cardinality(Workers) * MaxCost \in Nat
    BY RollingIsFinite, MoreWorkersMoreCost
  <2> QED BY <1>1, <1>3, <2>1 DEF SpendInFlight
<1> QED BY <1>2, <1>3

(* A recorded cost was in flight before it was recorded. *)
LEMMA SpendRecorded ==
  ASSUME SpendInFlight, spent \in Nat, spendStopped \in BOOLEAN,
         NEW cost \in 0..MaxCost, RecordSpend(cost),
         NEW w \in Rolling, Rolling' = Rolling \ {w}
  PROVE  SpendInFlight'
<1> SUFFICES ASSUME StopLoss # None
             PROVE  /\ ~spendStopped' => spent' < 2 * StopLoss
                    /\ spent' + Cardinality(Rolling') * MaxCost
                         < 2 * StopLoss + Cardinality(Workers) * MaxCost
  BY DEF SpendInFlight
<1>1. StopLoss \in Nat /\ MaxCost \in Nat /\ cost \in Nat /\ cost <= MaxCost
  BY ArmPoolAssumption
<1>2. ~spendStopped' => spent' < 2 * StopLoss
  BY <1>1 DEF RecordSpend, SpendInFlight
<1>3. Cardinality(Rolling') = Cardinality(Rolling) - 1
  BY RollingIsFinite, FS_RemoveElement
<1>4. Cardinality(Rolling) * MaxCost = Cardinality(Rolling') * MaxCost + MaxCost
  BY <1>1, <1>3, RollingIsFinite
<1>5. /\ Cardinality(Rolling') * MaxCost \in Nat
      /\ Cardinality(Workers) * MaxCost \in Nat
  BY RollingIsFinite, MoreWorkersMoreCost
<1>6. spent' = spent + cost
  BY DEF RecordSpend
<1> QED BY <1>1, <1>2, <1>4, <1>5, <1>6 DEF SpendInFlight

LEMMA SpendInit == Init => SpendInFlight
<1> SUFFICES ASSUME Init, StopLoss # None
             PROVE  0 + Cardinality(Rolling) * MaxCost
                      < 2 * StopLoss + Cardinality(Workers) * MaxCost
                    /\ 0 < 2 * StopLoss
  BY DEF Init, SpendInFlight
<1>1. StopLoss \in Nat \ {0}
  BY ArmPoolAssumption
<1>2. /\ Cardinality(Rolling) * MaxCost <= Cardinality(Workers) * MaxCost
      /\ Cardinality(Rolling) * MaxCost \in Nat
      /\ Cardinality(Workers) * MaxCost \in Nat
  BY RollingIsFinite, MoreWorkersMoreCost
<1> QED BY <1>1, <1>2

LEMMA SpendStep == TypeOK /\ SpendInFlight /\ [Next]_vars => SpendInFlight'
<1> SUFFICES ASSUME TypeOK, SpendInFlight, [Next]_vars
             PROVE  SpendInFlight'
  OBVIOUS
<1>0. spent \in Nat /\ spendStopped \in BOOLEAN /\ at \in [Workers -> Places]
  BY DEF TypeOK
<1>1. CASE Cancel \/ UNCHANGED vars
  <2>1. UNCHANGED <<at, spent, spendStopped>>
    BY <1>1 DEF Cancel, vars, poolVars, countVars
  <2> QED BY <1>0, <2>1, SpendKept DEF Rolling
<1>2. CASE LoopStep
  <2>1. UNCHANGED <<spent, spendStopped>>
    BY <1>2 DEF LoopStep, LeaveLoop, GatewayArm, PredictedOom, Serve, Served, ServeFailed,
       SpawnError, LoopThrows, PoolOver, Close, EndFailed, EndCancelled, EndDone,
       OpenPool, countVars
  <2>2. \A w \in Workers : at'[w] = "rollout" => at[w] = "rollout"
    BY <1>2 DEF LoopStep, LeaveLoop, GatewayArm, PredictedOom, Serve, Served, ServeFailed,
       SpawnError, LoopThrows, PoolOver, Close, EndFailed, EndCancelled, EndDone,
       OpenPool, poolVars
  <2> QED BY <1>0, <2>1, <2>2, SpendKept DEF Rolling
<1>3. ASSUME NEW w \in Workers, StopWorker(w) \/ QueueEmpty(w) \/ TakeThrows(w)
      PROVE  SpendInFlight'
  <2>1. UNCHANGED <<spent, spendStopped>>
    BY <1>3 DEF StopWorker, QueueEmpty, TakeThrows, countVars
  <2>2. \A v \in Workers : at'[v] = "rollout" => at[v] = "rollout"
    BY <1>0, <1>3 DEF StopWorker, QueueEmpty, TakeThrows
  <2> QED BY <1>0, <2>1, <2>2, SpendKept DEF Rolling
<1>4. ASSUME NEW w \in Workers, Take(w)
      PROVE  SpendInFlight'
  BY <1>0, <1>4, SpendKept DEF Take, MustStop, countVars
<1>5. ASSUME NEW w \in Workers, NEW cost \in 0..MaxCost,
             at[w] = "rollout", RecordSpend(cost),
             NEW place \in {"check", "thrown"}, at' = [at EXCEPT ![w] = place]
      PROVE  SpendInFlight'
  <2>1. w \in Rolling /\ Rolling' = Rolling \ {w}
    BY <1>0, <1>5 DEF Rolling
  <2> QED BY <1>0, <1>5, <2>1, SpendRecorded
<1>6. ASSUME NEW w \in Workers, NEW cost \in 0..MaxCost, Record(w, cost)
      PROVE  SpendInFlight'
  BY <1>5, <1>6 DEF Record
<1>7. ASSUME NEW w \in Workers, RecordThrows(w)
      PROVE  SpendInFlight'
  <2>1. CASE UNCHANGED countVars
    <3>1. UNCHANGED <<spent, spendStopped>>
      BY <2>1 DEF countVars
    <3>2. \A v \in Workers : at'[v] = "rollout" => at[v] = "rollout"
      BY <1>0, <1>7 DEF RecordThrows
    <3> QED BY <1>0, <3>1, <3>2, SpendKept DEF Rolling
  <2>2. ASSUME NEW cost \in 0..MaxCost, RecordSpend(cost)
        PROVE  SpendInFlight'
    BY <1>5, <1>7, <2>2 DEF RecordThrows
  <2> QED BY <1>7, <2>1, <2>2 DEF RecordThrows
<1>8. 0 \in 0..MaxCost
  BY ArmPoolAssumption
<1> QED
  BY <1>1, <1>2, <1>3, <1>4, <1>6, <1>7, <1>8 DEF Next, Process, Resumed, Settle, Timeout

(* The recorded spend of a run stays below twice the stop-loss plus the     *)
(* cost of one rollout per worker: also when workers go on after another    *)
(* one has thrown and the run is already failed.                            *)
THEOREM SpendIsBounded == Spec => []SpendBounded
<1>1. Init => SpendInFlight
  BY SpendInit
<1>2. TypeOK /\ SpendInFlight /\ [Next]_vars => SpendInFlight'
  BY SpendStep
<1>3. TypeOK /\ SpendInFlight => SpendBounded
  <2> SUFFICES ASSUME TypeOK, SpendInFlight, StopLoss # None
               PROVE  spent < 2 * StopLoss + Cardinality(Workers) * MaxCost
    BY DEF SpendBounded
  <2>1. spent \in Nat /\ StopLoss \in Nat
    BY ArmPoolAssumption DEF TypeOK
  <2>2. Cardinality(Rolling) * MaxCost \in Nat /\ Cardinality(Workers) * MaxCost \in Nat
    BY RollingIsFinite, MoreWorkersMoreCost
  <2> QED BY <2>1, <2>2 DEF SpendInFlight
<1> QED BY PoolTypeCorrect, <1>1, <1>2, <1>3, PTL DEF Spec
-----------------------------------------------------------------------------
(* Completeness. *)

(* Steps of the loop that leave the workers and the rows alone. *)
LEMMA LoopKeepsComplete ==
  ASSUME Completing,
         UNCHANGED <<queue, at, hand, rows, armCancelled, spendStopped, arm>>,
         stage' # "over" => status' \in {"running", "cancelled"},
         armCancelled => spendStopped \/ status' \in {"cancelled", "failed"},
         status' = "done" => arm > NumArms \/ spendStopped,
         stage' = "pool" => stage = "pool",
         stage' = "closing" => stage \in {"pool", "closing"},
         stage' = "closing" /\ ~failing' => \A w \in Workers : at[w] = "finished",
         stage' = "ended" =>
           arm > NumArms \/ armCancelled \/ spendStopped \/ status' = "cancelled"
  PROVE  Completing'
<1>1. \A i : InHand(i)' <=> InHand(i)
  BY DEF InHand
<1>2. AThrow' <=> AThrow
  BY DEF AThrow
<1> QED BY <1>1, <1>2 DEF Completing

LEMMA OpensComplete ==
  ASSUME Completing, OpenPool, stage \in {"head", "serving"}
  PROVE  Completing'
<1>1. PICK started \in SUBSET Workers :
        /\ \/ Cardinality(started) = ItemsOf[arm]
           \/ started = Workers /\ Cardinality(Workers) < ItemsOf[arm]
        /\ at' = [w \in Workers |-> IF w \in started THEN "check" ELSE "finished"]
  BY DEF OpenPool
<1>2. /\ stage' = "pool" /\ queue' = 1..ItemsOf[arm] /\ armCancelled' = FALSE
      /\ UNCHANGED <<status, arm, rows, spendStopped>>
  BY DEF OpenPool, fileVars, countVars
<1>3. queue' = {} \/ \E w \in Workers : at'[w] # "finished"
  <2>1. CASE started = {}
    <3>1. Workers # {} /\ Cardinality(started) = 0
      BY <2>1, ArmPoolAssumption, FS_EmptySet
    <3>2. ItemsOf[arm] = 0
      BY <1>1, <2>1, <3>1
    <3> QED BY <1>2, <3>2
  <2>2. CASE started # {}
    BY <1>1, <2>2
  <2> QED BY <2>1, <2>2
<1> QED BY <1>2, <1>3 DEF Completing

(* The arm that the loop leaves behind has a row for every item. *)
LEMMA ClosesComplete ==
  ASSUME PoolInv, Completing, Close
  PROVE  Completing'
<1>1. /\ stage = "closing" /\ arm \in Arms
      /\ UNCHANGED <<status, failing, queue, at, hand, armCancelled, spendStopped, rows>>
  BY DEF Close, fileVars, poolVars, countVars, PoolInv, TypeOK
<1>2. CASE UNCHANGED arm /\ stage' = "failed"
  BY <1>1, <1>2, LoopKeepsComplete DEF Completing
<1>3. CASE UNCHANGED arm /\ stage' = "ended" /\ (armCancelled \/ spendStopped)
  BY <1>1, <1>3, LoopKeepsComplete DEF Completing
<1>4. CASE ~failing /\ ~armCancelled /\ stage' = "head" /\ arm' = arm + 1
  <2>1. queue = {} /\ ~AThrow /\ \A i : ~InHand(i)
    BY <1>1, <1>4 DEF Completing, AThrow, InHand
  <2>2. \A i \in 1..ItemsOf[arm] : rows[<<arm, i>>] = 1
    BY <1>1, <2>1 DEF Completing
  <2>3. ASSUME NEW k \in Work, k[1] < arm + 1 PROVE rows[k] = 1
    <3>1. k[1] \in Nat /\ arm \in Nat /\ k = <<k[1], k[2]>>
      BY <1>1, WorkItem DEF Arms
    <3>2. CASE k[1] < arm
      BY <3>2 DEF Completing
    <3>3. CASE k[1] = arm
      <4>1. k = <<arm, k[2]>> /\ k[2] \in 1..ItemsOf[arm]
        BY <3>1, <3>3, WorkItem
      <4> QED BY <2>2, <4>1
    <3> QED BY <2>3, <3>1, <3>2, <3>3
  <2>4. arm > NumArms => arm + 1 > NumArms
    BY <1>1, ArmPoolAssumption DEF Arms
  <2> QED BY <1>1, <1>4, <2>3, <2>4 DEF Completing
<1> QED BY <1>2, <1>3, <1>4 DEF Close, AfterArm

(* A worker at the check finishes: the queue is empty, or it says why it is not. *)
LEMMA FinishesComplete ==
  ASSUME PoolInv, Completing, NEW w \in Workers, at[w] = "check",
         at' = [at EXCEPT ![w] = "finished"],
         UNCHANGED <<fileVars, loopVars, queue, hand, countVars>>,
         \/ armCancelled' = TRUE /\ MustStop
         \/ armCancelled' = armCancelled /\ queue = {}
  PROVE  Completing'
<1>0. at \in [Workers -> Places]
  BY DEF PoolInv, TypeOK
<1>1. \A i : InHand(i) => InHand(i)'
  BY <1>0 DEF InHand
<1>2. AThrow => AThrow'
  BY <1>0 DEF AThrow
<1>3. armCancelled' => spendStopped \/ status \in {"cancelled", "failed"}
  BY DEF Completing, MustStop
<1>4. ~(stage = "closing" /\ ~failing)
  BY DEF Completing
<1>5. queue = {} \/ armCancelled'
  OBVIOUS
<1>6. armCancelled => armCancelled'
  OBVIOUS
<1> QED
  BY <1>1, <1>2, <1>3, <1>4, <1>5, <1>6 DEF Completing, fileVars, loopVars, countVars

LEMMA TakesComplete ==
  ASSUME PoolInv, Completing, NEW w \in Workers, Take(w)
  PROVE  Completing'
<1>0. at \in [Workers -> Places] /\ hand \in [Workers -> Nat]
  BY DEF PoolInv, TypeOK
<1>1. PICK i \in queue : queue' = queue \ {i} /\ hand' = [hand EXCEPT ![w] = i]
  BY DEF Take
<1>2. /\ at[w] = "check" /\ at' = [at EXCEPT ![w] = "rollout"]
      /\ UNCHANGED <<fileVars, loopVars, armCancelled, countVars>>
  BY DEF Take
<1>3. InHand(i)' /\ \A j : InHand(j) => InHand(j)'
  BY <1>0, <1>1, <1>2 DEF InHand
<1>4. AThrow => AThrow'
  BY <1>0, <1>2 DEF AThrow
<1>5. \A j \in queue : j \in queue' \/ InHand(j)'
  BY <1>1, <1>3
<1>6. at'[w] # "finished" /\ ~(stage = "closing" /\ ~failing)
  BY <1>0, <1>2 DEF Completing
<1> QED
  BY <1>2, <1>3, <1>4, <1>5, <1>6 DEF Completing, fileVars, loopVars, countVars

(* A rollout is only ever added to the arm at hand. *)
LEMMA RowsBehind ==
  ASSUME PoolInv, Completing, NEW w \in Workers, at[w] = "rollout", AppendRow(w)
  PROVE  /\ \A k \in Work : k[1] < arm => rows'[k] = 1
         /\ rows'[<<arm, hand[w]>>] = 1
         /\ \A k \in Work : rows[k] = 1 => rows'[k] = 1
<1> DEFINE item == <<arm, hand[w]>>
<1>1. item \in Work /\ rows[item] = 0 /\ rows \in [Work -> Nat] /\ arm \in Nat
  BY ArmPoolAssumption DEF PoolInv, TypeOK, Accounted
<1>2. \A k \in Work : rows'[k] = IF k = item THEN 1 ELSE rows[k]
  BY <1>1 DEF AppendRow
<1>3. \A k \in Work : k[1] < arm => k # item
  BY <1>1
<1> QED BY <1>1, <1>2, <1>3 DEF Completing

(* A rollout ends: its item has a row, or the worker has thrown. *)
LEMMA EndsComplete ==
  ASSUME PoolInv, Completing, NEW w \in Workers, at[w] = "rollout",
         NEW place \in {"check", "thrown"},
         at' = [at EXCEPT ![w] = place],
         hand' = [hand EXCEPT ![w] = 0],
         UNCHANGED <<status, loopVars, queue, armCancelled>>,
         spendStopped => spendStopped',
         AppendRow(w) \/ (place = "thrown" /\ UNCHANGED rows)
  PROVE  Completing'
<1>0. at \in [Workers -> Places] /\ hand \in [Workers -> Nat]
  BY DEF PoolInv, TypeOK
<1>1. /\ \A k \in Work : k[1] < arm => rows'[k] = 1
      /\ \A k \in Work : rows[k] = 1 => rows'[k] = 1
      /\ place # "thrown" => rows'[<<arm, hand[w]>>] = 1
  BY RowsBehind DEF Completing
<1>2. /\ AThrow => AThrow'
      /\ place = "thrown" => AThrow'
  BY <1>0 DEF AThrow
<1>3. \A i : InHand(i) => InHand(i)' \/ i = hand[w]
  BY <1>0 DEF InHand
<1>4. ASSUME stage \in {"pool", "closing"}, NEW i \in 1..ItemsOf[arm]
      PROVE  i \in queue \/ InHand(i)' \/ rows'[<<arm, i>>] = 1 \/ AThrow'
  <2>1. <<arm, i>> \in Work
    BY <1>4, WorkItem DEF PoolInv, TypeOK
  <2>2. i \in queue \/ InHand(i) \/ rows[<<arm, i>>] = 1 \/ AThrow
    BY <1>4 DEF Completing
  <2> QED BY <1>1, <1>2, <1>3, <2>1, <2>2
<1>5. at'[w] # "finished" /\ ~(stage = "closing" /\ ~failing)
  BY <1>0 DEF Completing
<1> QED BY <1>1, <1>4, <1>5 DEF Completing, loopVars

(* An item is lost to a worker that throws before its rollout. *)
LEMMA ThrowsComplete ==
  ASSUME PoolInv, Completing, NEW w \in Workers, TakeThrows(w)
  PROVE  Completing'
<1>0. at \in [Workers -> Places]
  BY DEF PoolInv, TypeOK
<1>1. /\ at[w] = "check" /\ at' = [at EXCEPT ![w] = "thrown"]
      /\ UNCHANGED <<fileVars, loopVars, armCancelled, countVars>>
  BY DEF TakeThrows
<1>2. AThrow'
  BY <1>0, <1>1 DEF AThrow
<1>3. at'[w] # "finished" /\ ~(stage = "closing" /\ ~failing)
  BY <1>0, <1>1 DEF Completing
<1> QED BY <1>1, <1>2, <1>3 DEF Completing, fileVars, loopVars, countVars

LEMMA CompleteInit == Init => Completing
<1> SUFFICES ASSUME Init PROVE Completing
  OBVIOUS
<1>1. \A k \in Work : ~(k[1] < 1)
  BY WorkItem DEF Arms
<1> QED BY <1>1 DEF Init, Completing

LEMMA CompleteStep == PoolInv /\ Completing /\ [Next]_vars => Completing'
<1> SUFFICES ASSUME PoolInv, Completing, [Next]_vars
             PROVE  Completing'
  OBVIOUS
<1>1. CASE Cancel
  BY <1>1, LoopKeepsComplete DEF Cancel, Completing, loopVars, poolVars, countVars
<1>2. CASE GatewayArm \/ PredictedOom \/ Served \/ ServeFailed
  BY <1>2, OpensComplete DEF GatewayArm, PredictedOom, Served, ServeFailed
<1>3. CASE Serve \/ SpawnError \/ LeaveLoop \/ LoopThrows
  <2>1. /\ UNCHANGED <<status, arm, queue, at, hand, rows, armCancelled, spendStopped>>
        /\ stage \in {"head", "serving"}
        /\ stage' \in {"serving", "crashed", "ended", "failed"}
        /\ stage' = "ended" => arm > NumArms \/ status = "cancelled"
    BY <1>3 DEF Serve, SpawnError, LeaveLoop, LoopThrows, fileVars, poolVars, countVars
  <2> QED BY <2>1, LoopKeepsComplete DEF Completing
<1>4. CASE PoolOver
  <2>1. ~failing' => \A w \in Workers : at[w] # "thrown"
    BY <1>4 DEF PoolOver, Outcomes
  <2>2. ~failing' => \A w \in Workers : at[w] = "finished"
    BY <1>4, <2>1 DEF PoolOver
  <2>3. /\ UNCHANGED <<status, arm, queue, at, hand, rows, armCancelled, spendStopped>>
        /\ stage = "pool" /\ stage' = "closing"
    BY <1>4 DEF PoolOver, fileVars, poolVars, countVars
  <2> QED BY <2>2, <2>3, LoopKeepsComplete DEF Completing
<1>5. CASE EndFailed \/ EndCancelled \/ EndDone
  <2>1. /\ UNCHANGED <<arm, queue, at, hand, rows, armCancelled, spendStopped>>
        /\ stage' = "over"
    BY <1>5 DEF EndFailed, EndCancelled, EndDone, poolVars, countVars
  <2>2. CASE status' = "failed"
    BY <2>1, <2>2, LoopKeepsComplete
  <2>3. CASE EndCancelled
    BY <2>1, <2>3, LoopKeepsComplete DEF EndCancelled
  <2>4. CASE EndDone
    <3>1. stage = "ended" /\ status = "running" /\ status' = "done"
      BY <2>4 DEF EndDone, Completing
    <3>2. arm > NumArms \/ spendStopped
      BY <3>1 DEF Completing
    <3>3. armCancelled => spendStopped
      BY <3>1 DEF Completing
    <3> QED BY <2>1, <3>1, <3>2, <3>3, LoopKeepsComplete
  <2> QED BY <1>5, <2>2, <2>3, <2>4 DEF EndFailed
<1>6. CASE Close
  BY <1>6, ClosesComplete
<1>7. ASSUME NEW w \in Workers, StopWorker(w) \/ QueueEmpty(w)
      PROVE  Completing'
  BY <1>7, FinishesComplete DEF StopWorker, QueueEmpty
<1>8. ASSUME NEW w \in Workers, NEW cost \in 0..MaxCost, Record(w, cost)
      PROVE  Completing'
  BY <1>8, EndsComplete DEF Record, RecordSpend
<1>9. ASSUME NEW w \in Workers, RecordThrows(w)
      PROVE  Completing'
  <2>1. CASE UNCHANGED countVars
    BY <1>9, <2>1, EndsComplete DEF RecordThrows, countVars, fileVars
  <2>2. ASSUME NEW cost \in 0..MaxCost, AppendRow(w), RecordSpend(cost)
        PROVE  Completing'
    BY <1>9, <2>2, EndsComplete DEF RecordThrows, RecordSpend, fileVars
  <2> QED BY <1>9, <2>1, <2>2 DEF RecordThrows
<1>10. ASSUME NEW w \in Workers, Take(w)
       PROVE  Completing'
  BY <1>10, TakesComplete
<1>11. ASSUME NEW w \in Workers, TakeThrows(w)
       PROVE  Completing'
  BY <1>11, ThrowsComplete
<1>12. CASE UNCHANGED vars
  BY <1>12, LoopKeepsComplete
  DEF vars, Completing, fileVars, loopVars, poolVars, countVars
<1>13. 0 \in 0..MaxCost
  BY ArmPoolAssumption
<1> QED
  BY <1>1, <1>2, <1>3, <1>4, <1>5, <1>6, <1>7, <1>8, <1>9, <1>10, <1>11, <1>12, <1>13
  DEF Next, Process, LoopStep, Resumed, Settle, Timeout

(* A run that is reported done has exactly one row for every work item of    *)
(* every arm, or the spend stop-loss ended it: no worker that throws, no     *)
(* cancellation and no way of sharing the queue leaves an item out silently. *)
THEOREM DoneIsComplete == Spec => []DoneIsCompleteOrStopped
<1>1. PoolInv /\ Completing => DoneIsCompleteOrStopped
  <2> SUFFICES ASSUME PoolInv, Completing, status = "done", ~spendStopped, NEW k \in Work
               PROVE  rows[k] = 1
    BY DEF DoneIsCompleteOrStopped
  <2>1. arm > NumArms
    BY DEF Completing
  <2>2. k[1] \in 1..NumArms
    BY WorkItem DEF Arms
  <2>3. k[1] < arm
    BY <2>1, <2>2, ArmPoolAssumption DEF PoolInv, TypeOK
  <2> QED BY <2>3 DEF Completing
<1> QED BY PoolInvariant, CompleteInit, CompleteStep, <1>1, PTL DEF Spec

-----------------------------------------------------------------------------
(* Progress. *)

LEMMA WorkersGoOn ==
  ASSUME PoolInv, NEW w \in Workers, at[w] \in {"check", "rollout"},
         NEW place \in Places, at' = [at EXCEPT ![w] = place]
  PROVE  Active /\ (AThrow => AThrow')
<1>1. at \in [Workers -> Places]
  BY DEF PoolInv, TypeOK
<1> QED BY <1>1 DEF Active, AThrow

LEMMA CountTypes ==
  ASSUME TypeOK, Counting
  PROVE  published \in Nat /\ completed \in Nat /\ Cardinality(Rowed) \in Nat
BY FS_CardinalityType DEF TypeOK, Counting

(* Steps of the loop that neither start a worker nor report the run done. *)
LEMMA LoopKeepsCount ==
  ASSUME Counting, UNCHANGED <<at, rows, completed, published>>, status' \in {status, "cancelled"},
         status = "done" => stage' = "over",
         stage' \in {"head", "serving", "ended"} => ~Active /\ ~AThrow
  PROVE  Counting'
<1>1. (Active' <=> Active) /\ (AThrow' <=> AThrow) /\ Rowed' = Rowed
  BY DEF Active, AThrow, Rowed
<1> QED BY <1>1 DEF Counting

(* The run is over: it publishes its count. *)
LEMMA EndsCounted ==
  ASSUME TypeOK, Counting, EndFailed \/ EndCancelled \/ EndDone
  PROVE  Counting'
<1>1. /\ UNCHANGED <<at, rows, completed>> /\ published' = completed /\ stage' = "over"
      /\ status' = "done" => stage = "ended"
  BY DEF EndFailed, EndCancelled, EndDone, poolVars, countVars
<1>2. (Active' <=> Active) /\ (AThrow' <=> AThrow) /\ Rowed' = Rowed
  BY <1>1 DEF Active, AThrow, Rowed
<1> QED BY <1>1, <1>2, CountTypes DEF Counting

LEMMA OpensCounted ==
  ASSUME PoolInv, Counting, OpenPool, stage \in {"head", "serving"}
  PROVE  Counting'
<1>1. /\ UNCHANGED <<status, published, completed, rows>> /\ stage' = "pool"
      /\ at' \in [Workers -> {"check", "finished"}]
  BY DEF OpenPool, fileVars, countVars
<1>2. ~AThrow' /\ Rowed' = Rowed
  BY <1>1 DEF AThrow, Rowed
<1> QED BY <1>1, <1>2 DEF Counting

(* What a worker does, it does in a run that is not reported. *)
LEMMA WorkerKeepsCount ==
  ASSUME PoolInv, Counting, NEW w \in Workers, at[w] \in {"check", "rollout"},
         UNCHANGED loopVars, UNCHANGED status,
         IsFiniteSet(Rowed'), published' <= completed', completed' <= Cardinality(Rowed'),
         ~AThrow' => completed' = Cardinality(Rowed')
  PROVE  Counting'
<1>1. Active BY DEF Active
<1>2. stage \notin {"head", "serving", "ended"} /\ status # "done"
  BY <1>1 DEF Counting
<1> QED BY <1>2 DEF Counting, loopVars

LEMMA NothingCounted ==
  ASSUME PoolInv, Counting, NEW w \in Workers, at[w] \in {"check", "rollout"},
         NEW place \in Places, at' = [at EXCEPT ![w] = place],
         UNCHANGED loopVars, UNCHANGED <<status, published, completed, rows>>
  PROVE  Counting'
<1>1. AThrow => AThrow' BY WorkersGoOn
<1>2. Rowed' = Rowed BY DEF Rowed
<1> QED BY <1>1, <1>2, WorkerKeepsCount DEF Counting

(* A row that is appended is a new one. *)
LEMMA RowCounted ==
  ASSUME PoolInv, Counting, NEW w \in Workers, at[w] = "rollout", AppendRow(w)
  PROVE  IsFiniteSet(Rowed') /\ Cardinality(Rowed') = Cardinality(Rowed) + 1
<1> DEFINE item == <<arm, hand[w]>>
<1>1. item \in Work /\ rows[item] = 0 /\ rows \in [Work -> Nat]
  BY DEF PoolInv, TypeOK, Accounted
<1>2. \A k \in Work : rows'[k] = IF k = item THEN 1 ELSE rows[k]
  BY <1>1 DEF AppendRow
<1>3. Rowed' = Rowed \cup {item} /\ item \notin Rowed
  BY <1>1, <1>2 DEF Rowed
<1> QED BY <1>3, FS_AddElement DEF Counting

LEMMA RecordCounted ==
  ASSUME PoolInv, Counting, NEW w \in Workers, NEW cost, Record(w, cost)
  PROVE  Counting'
<1>1. /\ at[w] = "rollout" /\ AppendRow(w) /\ at' = [at EXCEPT ![w] = "check"]
      /\ completed' = completed + 1 /\ published' = completed'
      /\ UNCHANGED status /\ UNCHANGED loopVars
  BY DEF Record
<1>2. IsFiniteSet(Rowed') /\ Cardinality(Rowed') = Cardinality(Rowed) + 1
  BY <1>1, RowCounted
<1>3. AThrow => AThrow' BY <1>1, WorkersGoOn DEF Places
<1>4. completed \in Nat /\ Cardinality(Rowed) \in Nat BY CountTypes DEF PoolInv
<1>5. completed' <= Cardinality(Rowed') /\ (~AThrow' => completed' = Cardinality(Rowed'))
  BY <1>1, <1>2, <1>3, <1>4 DEF Counting
<1>6. published' <= completed' BY <1>1, <1>4
<1> QED BY <1>1, <1>2, <1>5, <1>6, WorkerKeepsCount

LEMMA ThrowCounted ==
  ASSUME PoolInv, Counting, NEW w \in Workers, RecordThrows(w)
  PROVE  Counting'
<1>1. /\ at[w] = "rollout" /\ at' = [at EXCEPT ![w] = "thrown"]
      /\ UNCHANGED <<status, published>> /\ UNCHANGED loopVars
  BY DEF RecordThrows, fileVars
<1>2. AThrow' BY <1>1 DEF AThrow, PoolInv, TypeOK
<1>3. CASE UNCHANGED countVars
  BY <1>1, <1>3, NothingCounted DEF countVars, Places
<1>4. CASE AppendRow(w) /\ completed' \in {completed, completed + 1}
  <2>1. IsFiniteSet(Rowed') /\ Cardinality(Rowed') = Cardinality(Rowed) + 1
    BY <1>1, <1>4, RowCounted
  <2>2. published \in Nat /\ completed \in Nat /\ Cardinality(Rowed) \in Nat
    BY CountTypes DEF PoolInv
  <2>3. published' <= completed' /\ completed' <= Cardinality(Rowed')
    BY <1>1, <1>4, <2>1, <2>2 DEF Counting
  <2> QED BY <1>1, <1>2, <2>1, <2>3, WorkerKeepsCount
<1> QED BY <1>3, <1>4 DEF RecordThrows

LEMMA CountInit == Init => Counting
<1> SUFFICES ASSUME Init PROVE Counting
  OBVIOUS
<1>1. Rowed = {} BY DEF Init, Rowed
<1> QED BY <1>1, FS_EmptySet DEF Init, Counting, Active, AThrow

LEMMA CountStep == PoolInv /\ Completing /\ Counting /\ [Next]_vars => Counting'
<1> SUFFICES ASSUME PoolInv, Completing, Counting, [Next]_vars
             PROVE  Counting'
  OBVIOUS
<1>1. CASE Cancel \/ UNCHANGED vars
  <2>1. /\ UNCHANGED <<at, rows, completed, published, stage>>
        /\ status' \in {status, "cancelled"}
    BY <1>1 DEF Cancel, vars, fileVars, loopVars, poolVars, countVars
  <2> QED BY <2>1, LoopKeepsCount DEF Counting
<1>2. CASE GatewayArm \/ PredictedOom \/ Served \/ ServeFailed
  BY <1>2, OpensCounted DEF GatewayArm, PredictedOom, Served, ServeFailed
<1>3. CASE Serve \/ SpawnError \/ LeaveLoop \/ LoopThrows
  <2>1. /\ UNCHANGED <<status, published, at, rows, completed>>
        /\ stage \in {"head", "serving"}
    BY <1>3 DEF Serve, SpawnError, LeaveLoop, LoopThrows, fileVars, poolVars, countVars
  <2> QED BY <2>1, LoopKeepsCount DEF Counting
<1>4. CASE PoolOver
  <2>1. /\ UNCHANGED <<status, published, at, rows, completed>>
        /\ stage = "pool" /\ stage' = "closing"
    BY <1>4 DEF PoolOver, fileVars, poolVars, countVars
  <2> QED BY <2>1, LoopKeepsCount DEF Counting
<1>5. CASE EndFailed \/ EndCancelled \/ EndDone
  BY <1>5, EndsCounted DEF PoolInv
<1>6. CASE Close
  <2>1. /\ UNCHANGED <<status, published, at, rows, completed>> /\ stage = "closing"
        /\ stage' \in {"failed", "ended", "head"} /\ (stage' # "failed" => ~failing)
    BY <1>6 DEF Close, AfterArm, fileVars, poolVars, countVars
  <2>2. ~failing => ~Active /\ ~AThrow
    BY <2>1 DEF Completing, Active, AThrow
  <2> QED BY <2>1, <2>2, LoopKeepsCount DEF Counting
<1>7. ASSUME NEW w \in Workers, StopWorker(w) \/ QueueEmpty(w) \/ Take(w) \/ TakeThrows(w)
      PROVE  Counting'
  <2>1. /\ at[w] = "check" /\ UNCHANGED loopVars
        /\ UNCHANGED <<status, published, completed, rows>>
        /\ \E place \in Places : at' = [at EXCEPT ![w] = place]
    BY <1>7 DEF StopWorker, QueueEmpty, Take, TakeThrows, fileVars, countVars, Places
  <2> QED BY <2>1, NothingCounted
<1>8. ASSUME NEW w \in Workers, Resumed(w) PROVE Counting'
  BY <1>8, RecordCounted, ThrowCounted DEF Resumed, Settle, Timeout
<1> QED BY <1>1, <1>2, <1>3, <1>4, <1>5, <1>6, <1>7, <1>8 DEF Next, Process, LoopStep

(* What a run advertises it has rows for: progress never runs ahead of the      *)
(* rows, in whatever order workers append, count and publish, and a run that is *)
(* reported done advertises exactly its rows, which are those of all its work  *)
(* items unless the spend stop-loss ended it.                               *)
THEOREM ReportsAreHonest == Spec => []ReportHonest
<1>1. PoolInv /\ Counting => ProgressCountsRows
  <2> SUFFICES ASSUME PoolInv, Counting PROVE ProgressCountsRows
    OBVIOUS
  <2>1. published \in Nat /\ completed \in Nat /\ Cardinality(Rowed) \in Nat
    BY CountTypes DEF PoolInv
  <2> QED BY <2>1 DEF Counting, ProgressCountsRows
<1>2. DoneIsCompleteOrStopped /\ ProgressCountsRows => ReportHonest
  BY DEF ReportHonest
<1> QED
  BY PoolInvariant, CompleteInit, CompleteStep, CountInit, CountStep, DoneIsComplete, <1>1, <1>2, PTL
  DEF Spec

-----------------------------------------------------------------------------
(* Servers. *)

(* Outside the pool the arm has no server, and who is active has seen a throw. *)
LEMMA ServingOutside ==
  ASSUME Serving, stage' \notin {"pool", "closing"}, up' \subseteq ReusedArms,
         UNCHANGED at, stage = "pool" => ~Active \/ AThrow
  PROVE  Serving'
BY DEF Serving, Active, AThrow

LEMMA ServingOpens ==
  ASSUME PoolInv, Serving, OpenPool, stage \in {"head", "serving"},
         \/ UNCHANGED up /\ (arm \in LocalArms => arm \in fallback')
         \/ up' = up \cup {arm}
  PROVE  Serving'
BY DEF Serving, OpenPool

LEMMA ServingWorks ==
  ASSUME PoolInv, Serving, UNCHANGED loopVars, Active' /\ AThrow => AThrow', Active' => Active
  PROVE  Serving'
BY DEF Serving, loopVars

LEMMA ServingStep == PoolInv /\ Serving /\ [Next]_vars => Serving'
<1> SUFFICES ASSUME PoolInv, Serving, [Next]_vars
             PROVE  Serving'
  OBVIOUS
<1>1. CASE Cancel \/ UNCHANGED vars
  BY <1>1, ServingWorks DEF Cancel, vars, poolVars, Active, AThrow
<1>2. CASE GatewayArm \/ PredictedOom \/ Served \/ ServeFailed
  <2>1. OpenPool /\ stage \in {"head", "serving"}
    BY <1>2 DEF GatewayArm, PredictedOom, Served, ServeFailed
  <2>2. \/ UNCHANGED up /\ (arm \in LocalArms => arm \in fallback')
        \/ up' = up \cup {arm}
    BY <1>2 DEF GatewayArm, PredictedOom, Served, ServeFailed
  <2> QED BY <2>1, <2>2, ServingOpens
<1>3. CASE Serve \/ SpawnError \/ LeaveLoop \/ LoopThrows
  <2>1. /\ stage \in {"head", "serving"} /\ stage' \notin {"pool", "closing"}
        /\ UNCHANGED <<up, at>>
    BY <1>3 DEF Serve, SpawnError, LeaveLoop, LoopThrows, poolVars
  <2> QED BY <2>1, ServingOutside DEF Serving
<1>4. CASE PoolOver
  <2>1. /\ stage = "pool" /\ stage' = "closing" /\ UNCHANGED <<up, at, arm, fallback>>
        /\ ~Active \/ AThrow
    BY <1>4 DEF PoolOver, poolVars, Active, AThrow
  <2> QED BY <2>1 DEF Serving, Active, AThrow
<1>5. CASE EndFailed \/ EndCancelled \/ EndDone
  <2>1. /\ stage \in {"failed", "ended"} /\ stage' = "over" /\ UNCHANGED <<up, at>>
    BY <1>5 DEF EndFailed, EndCancelled, EndDone, poolVars
  <2> QED BY <2>1, ServingOutside DEF Serving
<1>6. CASE Close
  <2>1. /\ stage = "closing" /\ stage' \in {"failed", "ended", "head"} /\ UNCHANGED at
        /\ up' = IF arm \in ReusedArms THEN up ELSE up \ {arm}
    BY <1>6 DEF Close, AfterArm, poolVars
  <2>2. up' \subseteq ReusedArms
    BY <2>1 DEF Serving
  <2> QED BY <2>1, <2>2, ServingOutside
<1>7. ASSUME NEW w \in Workers,
             StopWorker(w) \/ QueueEmpty(w) \/ Take(w) \/ TakeThrows(w) \/ Resumed(w)
      PROVE  Serving'
  <2>1. /\ at[w] \in {"check", "rollout"}
        /\ \E place \in Places : at' = [at EXCEPT ![w] = place]
        /\ UNCHANGED loopVars
    BY <1>7
    DEF StopWorker, QueueEmpty, Take, TakeThrows, Resumed, Settle, Timeout, Record,
        RecordThrows, Places
  <2> QED BY <2>1, WorkersGoOn, ServingWorks
<1> QED BY <1>1, <1>2, <1>3, <1>4, <1>5, <1>6, <1>7 DEF Next, Process, LoopStep

(* A rollout of an arm that was given a local server finds it running unless *)
(* a worker has thrown; at most one server that the rig started runs, and    *)
(* none once the run is over, whichever of its ends it took.                *)
THEOREM ServersLiveWithArms == Spec => []ServerLifetime
<1>1. Init => Serving
  BY DEF Init, Serving, Active
<1>2. PoolInv /\ Serving => ServerLifetime
  <2> SUFFICES ASSUME PoolInv, Serving PROVE ServerLifetime
    OBVIOUS
  <2>1. ServedUnlessThrown
    BY DEF ServedUnlessThrown, NeedsServer, Serving, Active, AThrow
  <2>2. Cardinality(up \ ReusedArms) <= 1
    <3>1. up \ ReusedArms \subseteq {arm}
      BY DEF Serving
    <3>2. IsFiniteSet({arm}) /\ Cardinality({arm}) = 1
      BY FS_Singleton
    <3> QED BY <3>1, <3>2, FS_Subset
  <2> QED BY <2>1, <2>2 DEF ServerLifetime, ServersStopped, Serving
<1> QED BY PoolInvariant, ServingStep, <1>1, <1>2, PTL DEF Spec
=============================================================================
