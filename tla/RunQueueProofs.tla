--------------------------- MODULE RunQueueProofs ---------------------------
(***************************************************************************)
(* Proofs about RunQueue, for every number of requests, executors,         *)
(* cancellers, nonces and work items.  What needs SingleWatcher says so;   *)
(* the rest holds of racing executors too.                                 *)
(***************************************************************************)
EXTENDS RunQueue, TLAPS

LEMMA ZeroNotRequest == 0 \notin Requests
BY RunQueueAssumption DEF Requests

LEMMA FreshIsRecord == Fresh \in Records
BY RunQueueAssumption DEF Fresh, Records, Statuses, Terminal, Claims, NoClaim

LEMMA BelowTotal == \A k \in 0..Total : k # Total => k < Total
BY RunQueueAssumption

(* The updates that the processes apply to their copy give a request again. *)
LEMMA StatusUpdate ==
  ASSUME NEW rec \in Records, NEW s \in Statuses
  PROVE  [rec EXCEPT !.status = s] \in Records
BY DEF Records

LEMMA ClaimUpdate ==
  ASSUME NEW rec \in Records, NEW e \in Executors, NEW n \in Nonces
  PROVE  [rec EXCEPT !.claim = [pid |-> e, nonce |-> n]] \in Records
BY DEF Records, Claims

LEMMA StartUpdate ==
  ASSUME NEW rec \in Records
  PROVE  [rec EXCEPT !.status = "running", !.completed = 0] \in Records
<1>1. 0 \in 0..Total /\ "running" \in Statuses
  BY RunQueueAssumption DEF Statuses
<1> QED BY <1>1 DEF Records

LEMMA SettledUpdate ==
  ASSUME NEW e \in Executors, NEW rec \in Records, NEW s \in Statuses,
         completed[e] \in 0..Total
  PROVE  Settled(e, rec, s) \in Records
BY DEF Settled, Records

LEMMA OtherUpdates ==
  ASSUME NEW rec \in Records
  PROVE  /\ rec.status \in Statuses
         /\ [rec EXCEPT !.live = TRUE] \in Records
         /\ \A e \in Executors : [rec EXCEPT !.note = e] \in Records
         /\ \A k \in 0..Total : [rec EXCEPT !.completed = k] \in Records
BY DEF Records

LEMMA RereadLabels ==
  ASSUME NEW e \in Executors, Reread(e), pc \in [Executors -> Labels]
  PROVE  /\ pc[e] \in {"liveRead", "progressRead", "doneRead", "cancelledRead", "failRead"}
         /\ pc[e] \in Executing
         /\ pc' = [pc EXCEPT ![e] = WriteAfter[pc[e]]]
         /\ pc'[e] \in Writing \cap Executing
         /\ pc'[e] = "liveWrite" => pc[e] = "liveRead"
<1>1. DOMAIN WriteAfter = {"liveRead", "progressRead", "doneRead", "cancelledRead", "failRead"}
  BY DEF WriteAfter
<1>2. /\ WriteAfter["liveRead"] = "liveWrite"
      /\ WriteAfter["progressRead"] = "progressWrite"
      /\ WriteAfter["doneRead"] = "doneWrite"
      /\ WriteAfter["cancelledRead"] = "cancelledWrite"
      /\ WriteAfter["failRead"] = "failWrite"
  BY DEF WriteAfter
<1> QED BY <1>1, <1>2 DEF Reread, Goto, Writing, Executing

-----------------------------------------------------------------------------
(* Type correctness. *)

TypeInv == TypeOK /\ CountInRange

LEMMA TypeInit == Init => TypeInv
BY FreshIsRecord, RunQueueAssumption
DEF Init, TypeInv, TypeOK, CountInRange, Labels, Requests

LEMMA TypeStep == TypeInv /\ [Next]_vars => TypeInv'
<1> USE ZeroNotRequest, FreshIsRecord DEF TypeInv, TypeOK, CountInRange
<1> SUFFICES ASSUME TypeInv, [Next]_vars
             PROVE  TypeInv'
  OBVIOUS
<1>1. CASE Create
  <2>1. created \in Nat /\ NumRequests \in Nat /\ created + 1 <= NumRequests
    BY <1>1, RunQueueAssumption DEF Create
  <2>2. created + 1 \in Requests /\ created' \in 0..NumRequests
    BY <1>1, <2>1 DEF Create, Requests
  <2> QED
    BY <1>1, <2>2 DEF Create, Write, execVars, cancelVars
<1>2. ASSUME NEW c \in Cancellers, NEW r \in Requests, CancelRead(c, r)
      PROVE  TypeInv'
  BY <1>2 DEF CancelRead, queueVars, execVars
<1>3. ASSUME NEW c \in Cancellers, CancelWrite(c)
      PROVE  TypeInv'
  <2>1. [ccopy[c] EXCEPT !.status = "cancelled"] \in Records
    BY StatusUpdate DEF Statuses, Terminal
  <2> QED BY <1>3, <2>1 DEF CancelWrite, Write, execVars
<1>4. ASSUME NEW e \in Executors, Launch(e)
      PROVE  TypeInv'
  BY <1>4 DEF Launch, Goto, queueVars, cancelVars, Labels
<1>5. ASSUME NEW e \in Executors, Poll(e)
      PROVE  TypeInv'
  BY <1>5 DEF Poll, Goto, queueVars, cancelVars, Labels
<1>6. ASSUME NEW e \in Executors, PickNext(e)
      PROVE  TypeInv'
  <2>1. CASE todo[e] = {} /\ Goto(e, "idle") /\ UNCHANGED <<todo, cur>>
    BY <1>6, <2>1 DEF PickNext, Goto, queueVars, cancelVars, Labels
  <2>2. ASSUME NEW r \in todo[e],
               todo' = [todo EXCEPT ![e] = @ \ {r}],
               cur' = [cur EXCEPT ![e] = r],
               Goto(e, "initialRead")
        PROVE  TypeInv'
    <3>1. r \in Requests
      OBVIOUS
    <3> QED BY <1>6, <2>2, <3>1 DEF PickNext, Goto, queueVars, cancelVars, Labels
  <2> QED BY <1>6, <2>1, <2>2 DEF PickNext
<1>7. ASSUME NEW e \in Executors, InitialRead(e)
      PROVE  TypeInv'
  <2>1. copy' \in [Executors -> Records]
    <3>1. file[cur[e]] \in Records
      BY <1>7 DEF InitialRead
    <3> QED BY <1>7, <3>1 DEF InitialRead, Remember, Forget
  <2>2. /\ pc' \in [Executors -> Labels]
        /\ pc'[e] \in {"exited", "claimRead", "list", "noteWrite"}
    BY <1>7 DEF InitialRead, Goto, Labels, Writing
  <2> QED BY <1>7, <2>1, <2>2 DEF InitialRead, Goto, queueVars, cancelVars
<1>8. ASSUME NEW e \in Executors, NoteWrite(e)
      PROVE  TypeInv'
  <2>1. [copy[e] EXCEPT !.note = e] \in Records
    BY OtherUpdates
  <2> QED BY <1>8, <2>1 DEF NoteWrite, Write, Forget, Goto, cancelVars, Labels
<1>9. ASSUME NEW e \in Executors, ClaimRead(e)
      PROVE  TypeInv'
  BY <1>9 DEF ClaimRead, Remember, Goto, queueVars, cancelVars, Labels, Writing
<1>10. ASSUME NEW e \in Executors, ClaimWrite(e)
       PROVE  TypeInv'
  <2> PICK n \in Nonces \ drawn :
         /\ drawn' = drawn \cup {n}
         /\ nonce' = [nonce EXCEPT ![e] = n]
         /\ Write(cur[e], [copy[e] EXCEPT !.claim = [pid |-> e, nonce |-> n]])
    BY <1>10 DEF ClaimWrite
  <2>1. [copy[e] EXCEPT !.claim = [pid |-> e, nonce |-> n]] \in Records
    BY ClaimUpdate
  <2> QED
    BY <1>10, <2>1 DEF ClaimWrite, Write, Forget, Goto, cancelVars, Labels
<1>11. ASSUME NEW e \in Executors, ClaimVerify(e)
       PROVE  TypeInv'
  BY <1>11 DEF ClaimVerify, Remember, Goto, queueVars, cancelVars, Labels, Writing
<1>12. ASSUME NEW e \in Executors, FailEmpty(e)
       PROVE  TypeInv'
  <2>1. [copy[e] EXCEPT !.status = "failed"] \in Records
    BY StatusUpdate DEF Statuses, Terminal
  <2> QED BY <1>12, <2>1 DEF FailEmpty, Write, Forget, Goto, cancelVars, Labels
<1>13. ASSUME NEW e \in Executors, StartWrite(e)
       PROVE  TypeInv'
  <2>1. [copy[e] EXCEPT !.status = "running", !.completed = 0] \in Records
    BY StartUpdate
  <2>2. 0 \in 0..Total
    BY RunQueueAssumption
  <2> QED
    BY <1>13, <2>1, <2>2
    DEF StartWrite, Write, Forget, Goto, cancelVars, Labels, Executing
<1>14. ASSUME NEW e \in Executors, Check(e)
       PROVE  TypeInv'
  <2>1. pc' \in [Executors -> Labels] /\ pc'[e] \in {"final", "liveRead"}
    BY <1>14 DEF Check, Goto, Labels, Executing
  <2>2. pc'[e] = "liveRead" => completed[e] < Total
    <3>1. pc'[e] = "liveRead" => completed[e] # Total
      BY <1>14 DEF Check, Goto
    <3> QED BY <3>1, BelowTotal
  <2> QED BY <1>14, <2>1, <2>2 DEF Check, Goto, queueVars, cancelVars
<1>15. ASSUME NEW e \in Executors, Reread(e)
       PROVE  TypeInv'
  <2>1. pc' \in [Executors -> Labels]
    BY <1>15, RereadLabels DEF Labels
  <2>2. pc'[e] \in {"liveRead", "liveWrite", "rollout"} => pc[e] = "liveRead"
    BY <1>15, RereadLabels DEF Writing
  <2>3. cur[e] \in Requests
    BY <1>15, RereadLabels
  <2> QED
    BY <1>15, <2>1, <2>2, <2>3 DEF Reread, Remember, Goto, queueVars, cancelVars
<1>16. ASSUME NEW e \in Executors, LiveWrite(e)
       PROVE  TypeInv'
  <2>1. [copy[e] EXCEPT !.live = TRUE] \in Records
    BY OtherUpdates
  <2> QED
    BY <1>16, <2>1 DEF LiveWrite, Write, Forget, Goto, cancelVars, Labels, Executing
<1>17. ASSUME NEW e \in Executors, Rollout(e)
       PROVE  TypeInv'
  <2>1. completed[e] + 1 \in 0..Total
    BY <1>17, RunQueueAssumption DEF Rollout
  <2>2. rows[cur[e]][e] + 1 \in Nat /\ cur[e] \in Requests
    BY <1>17 DEF Rollout
  <2> QED
    BY <1>17, <2>1, <2>2 DEF Rollout, Goto, cancelVars, Labels, Executing
<1>18. ASSUME NEW e \in Executors, ProgressWrite(e)
       PROVE  TypeInv'
  <2>1. [copy[e] EXCEPT !.completed = completed[e]] \in Records
    BY OtherUpdates
  <2> QED
    BY <1>18, <2>1
    DEF ProgressWrite, Write, Forget, Goto, cancelVars, Labels, Executing
<1>19. ASSUME NEW e \in Executors, FinalCheck(e)
       PROVE  TypeInv'
  BY <1>19 DEF FinalCheck, Goto, queueVars, cancelVars, Labels, Executing
<1>20. ASSUME NEW e \in Executors, FinishWrite(e)
       PROVE  TypeInv'
  <2>1. file' \in [Requests -> Records]
    <3>1. {"done", "failed", copy[e].status} \subseteq Statuses
      BY OtherUpdates DEF Statuses, Terminal
    <3>2. \A s \in Statuses : Settled(e, copy[e], s) \in Records
      BY SettledUpdate
    <3> QED BY <1>20, <3>1, <3>2 DEF FinishWrite, Write
  <2>2. 0 \in 0..Total /\ cur[e] # 0
    BY <1>20, RunQueueAssumption DEF FinishWrite
  <2>3. created' = created /\ rows' = rows /\ UNCHANGED <<cancelVars, todo, cur, nonce, drawn>>
    BY <1>20 DEF FinishWrite
  <2>4. /\ pc' = [pc EXCEPT ![e] = "list"]
        /\ completed' = [completed EXCEPT ![e] = 0]
        /\ copy' = [copy EXCEPT ![e] = Fresh]
    BY <1>20 DEF FinishWrite, Forget, Goto
  <2> QED BY <2>1, <2>2, <2>3, <2>4 DEF cancelVars, Labels
<1>21. ASSUME NEW e \in Executors, Fault(e)
       PROVE  TypeInv'
  BY <1>21 DEF Fault, Goto, queueVars, cancelVars, Labels, Executing
<1>22. ASSUME NEW e \in Executors, Kill(e)
       PROVE  TypeInv'
  <2>1. 0 \in 0..Total
    BY RunQueueAssumption
  <2> QED BY <1>22, <2>1 DEF Kill, Forget, Goto, queueVars, cancelVars, Labels
<1>23. ASSUME NEW e \in Executors, PrepareThrows(e)
       PROVE  TypeInv'
  <2>1. cur[e] # 0
    BY <1>23 DEF PrepareThrows
  <2> QED BY <1>23, <2>1 DEF PrepareThrows, Forget, Goto, queueVars, cancelVars, Labels
<1>24. CASE UNCHANGED vars
  BY <1>24 DEF vars, queueVars, execVars, cancelVars
<1> QED
  BY <1>1, <1>2, <1>3, <1>4, <1>5, <1>6, <1>7, <1>8, <1>9, <1>10, <1>11, <1>12,
     <1>13, <1>14, <1>15, <1>16, <1>17, <1>18, <1>19, <1>20, <1>21, <1>22, <1>23, <1>24
  DEF Next, Step

LEMMA TypeInvariant == Spec => []TypeInv
<1> QED BY TypeInit, TypeStep, PTL DEF Spec

(* Every reachable state is well typed, whatever the interleaving: in       *)
(* particular no execution counts more work items than the request has.    *)
THEOREM TypeCorrect == Spec => []TypeOK
<1>1. TypeInv => TypeOK
  BY DEF TypeInv
<1> QED BY TypeInvariant, <1>1, PTL

-----------------------------------------------------------------------------
(* What the processes know of a request that they may still write.  Records *)
(* move from a file to a copy and back; each update on the way keeps them   *)
(* sound, and rows only grow.                                              *)

Sound(rec, r) == BackedBy(rec, r) /\ ClaimedIfRunning(rec)

CopiesInv == CopiesBacked /\ CopiesClaimed

LEMMA FreshIsSound ==
  ASSUME NEW r \in Requests, rows \in [Requests -> [Executors -> Nat]]
  PROVE  Sound(Fresh, r)
<1>1. PICK e \in Executors : TRUE
  BY RunQueueAssumption
<1>2. rows[r][e] \in Nat
  OBVIOUS
<1>3. Fresh.completed = 0 /\ Fresh.status = "queued"
  BY DEF Fresh
<1>4. BackedBy(Fresh, r)
  BY <1>2, <1>3 DEF BackedBy
<1> QED BY <1>3, <1>4 DEF Sound, ClaimedIfRunning

LEMMA UpdatesAreSound ==
  ASSUME NEW rec \in Records, NEW r \in Requests, Sound(rec, r)
  PROVE  /\ \A s \in Statuses \ {"running"} : Sound([rec EXCEPT !.status = s], r)
         /\ Sound([rec EXCEPT !.live = TRUE], r)
         /\ \A e \in Executors : Sound([rec EXCEPT !.note = e], r)
         /\ \A e \in Executors, n \in Nonces :
              Sound([rec EXCEPT !.claim = [pid |-> e, nonce |-> n]], r)
<1>1. \A e \in Executors : e # None
  BY RunQueueAssumption
<1> QED BY <1>1 DEF Sound, BackedBy, ClaimedIfRunning, Records

LEMMA StartIsSound ==
  ASSUME NEW rec \in Records, NEW r \in Requests, rec.claim.pid # None,
         rows \in [Requests -> [Executors -> Nat]]
  PROVE  Sound([rec EXCEPT !.status = "running", !.completed = 0], r)
<1>1. PICK e \in Executors : TRUE
  BY RunQueueAssumption
<1>2. rows[r][e] \in Nat
  OBVIOUS
<1>3. LET new == [rec EXCEPT !.status = "running", !.completed = 0]
      IN  new.completed = 0 /\ new.claim = rec.claim
  BY DEF Records
<1> QED BY <1>2, <1>3 DEF Sound, BackedBy, ClaimedIfRunning

LEMMA CountIsSound ==
  ASSUME NEW rec \in Records, NEW r \in Requests, Sound(rec, r),
         NEW e \in Executors, completed[e] <= rows[r][e]
  PROVE  /\ Sound([rec EXCEPT !.completed = completed[e]], r)
         /\ Sound(Settled(e, rec, rec.status), r)
         /\ \A s \in Statuses \ {"running"} : Sound(Settled(e, rec, s), r)
BY DEF Sound, BackedBy, ClaimedIfRunning, Settled, Records

(* The part that the steps of an executor share: only e moved, the rows are *)
(* the same, and what e now holds or wrote is sound.                        *)
LEMMA ExecutorStep ==
  ASSUME CopiesInv, NEW e \in Executors,
         UNCHANGED <<rows, cancelVars>>,
         \A f \in Executors \ {e} :
           UNCHANGED <<pc[f], copy[f], cur[f], completed[f], nonce[f]>>,
         \A r \in Requests : file'[r] = file[r] \/ Sound(file'[r], r),
         pc'[e] \in Writing => Sound(copy'[e], cur'[e]),
         pc'[e] \in Executing => completed'[e] <= rows[cur'[e]][e],
         pc'[e] = "start" => copy'[e].claim.pid # None,
         pc'[e] = "claimVerify" => nonce'[e] # None
  PROVE  CopiesInv'
<1>1. \A r \in Requests : Sound(file[r], r)'
  BY DEF CopiesInv, CopiesBacked, CopiesClaimed, Sound, BackedBy, ClaimedIfRunning
<1>2. \A f \in Executors : pc'[f] \in Writing => Sound(copy[f], cur[f])'
  BY DEF CopiesInv, CopiesBacked, CopiesClaimed, Sound, BackedBy, ClaimedIfRunning
<1>3. \A f \in Executors :
        /\ pc'[f] \in Executing => completed'[f] <= rows'[cur'[f]][f]
        /\ pc'[f] = "start" => copy'[f].claim.pid # None
        /\ pc'[f] = "claimVerify" => nonce'[f] # None
  BY DEF CopiesInv, CopiesBacked, CopiesClaimed
<1>4. \A c \in Cancellers : cpc'[c] = "write" => Sound(ccopy[c], ccur[c])'
  BY DEF CopiesInv, CopiesBacked, CopiesClaimed, Sound, BackedBy, ClaimedIfRunning,
         cancelVars
<1> QED BY <1>1, <1>2, <1>3, <1>4 DEF CopiesInv, CopiesBacked, CopiesClaimed, Sound

LEMMA CopiesInit == Init => CopiesInv
<1> SUFFICES ASSUME Init PROVE CopiesInv
  OBVIOUS
<1>1. \A r \in Requests : Sound(file[r], r)
  BY FreshIsSound DEF Init
<1> QED
  BY <1>1 DEF Init, CopiesInv, CopiesBacked, CopiesClaimed, Sound, Writing, Executing

(* What the invariants say of the place of one executor. *)
LEMMA AtPlace ==
  ASSUME TypeInv, CopiesInv, NEW e \in Executors
  PROVE  /\ copy[e] \in Records
         /\ pc[e] \in Writing \cup Executing \cup {"claimRead", "claimVerify"}
              => cur[e] \in Requests
         /\ pc[e] \in Writing => Sound(copy[e], cur[e])
         /\ pc[e] \in Executing => completed[e] <= rows[cur[e]][e]
         /\ pc[e] = "start" => copy[e].claim.pid # None
         /\ \A r \in Requests : file[r] \in Records /\ Sound(file[r], r)
         /\ rows \in [Requests -> [Executors -> Nat]]
BY DEF TypeInv, TypeOK, CopiesInv, CopiesBacked, CopiesClaimed, Sound,
       Writing, Executing

LEMMA CopiesStep == TypeInv /\ CopiesInv /\ [Next]_vars => CopiesInv'
<1> SUFFICES ASSUME TypeInv, CopiesInv, [Next]_vars
             PROVE  CopiesInv'
  OBVIOUS
<1> DEFINE Functions ==
      /\ pc \in [Executors -> Labels]
      /\ copy \in [Executors -> Records]
      /\ cur \in [Executors -> Requests \cup {0}]
      /\ completed \in [Executors -> 0..Total]
      /\ nonce \in [Executors -> Nonces \cup {None}]
      /\ file \in [Requests -> Records]
<1>0. Functions
  BY DEF TypeInv, TypeOK
<1>1. CASE Create
  <2>1. \A r \in Requests : file'[r] = file[r] \/ Sound(file'[r], r)
    <3>1. \A r \in Requests : file'[r] = file[r] \/ file'[r] = Fresh
      BY <1>0, <1>1 DEF Create, Write
    <3>2. rows \in [Requests -> [Executors -> Nat]]
      BY DEF TypeInv, TypeOK
    <3> QED BY <3>1, <3>2, FreshIsSound
  <2> QED
    BY <1>1, <2>1 DEF Create, CopiesInv, CopiesBacked, CopiesClaimed, Sound, BackedBy,
       ClaimedIfRunning, execVars, cancelVars
<1>2. ASSUME NEW c \in Cancellers, NEW r \in Requests, CancelRead(c, r)
      PROVE  CopiesInv'
  BY <1>2 DEF CancelRead, TypeInv, TypeOK, CopiesInv, CopiesBacked, CopiesClaimed,
     BackedBy, ClaimedIfRunning, queueVars, execVars
<1>3. ASSUME NEW c \in Cancellers, CancelWrite(c)
      PROVE  CopiesInv'
  <2> DEFINE rec == [ccopy[c] EXCEPT !.status = "cancelled"]
  <2>1. ccur[c] \in Requests /\ ccopy[c] \in Records /\ Sound(ccopy[c], ccur[c])
    BY <1>3 DEF CancelWrite, TypeInv, TypeOK, CopiesInv, CopiesBacked, CopiesClaimed, Sound
  <2>2. Sound(rec, ccur[c])
    BY <2>1, UpdatesAreSound DEF Statuses, Terminal
  <2>3. \A r \in Requests : file'[r] = file[r] \/ (r = ccur[c] /\ file'[r] = rec)
    BY <1>0, <1>3 DEF CancelWrite, Write
  <2>4. \A r \in Requests : file'[r] = file[r] \/ Sound(file'[r], r)
    BY <2>2, <2>3
  <2>5. \A d \in Cancellers \ {c} : UNCHANGED <<cpc[d], ccur[d], ccopy[d]>>
    BY <1>3 DEF CancelWrite, TypeInv, TypeOK
  <2>6. cpc'[c] = "over"
    BY <1>3 DEF CancelWrite, TypeInv, TypeOK
  <2> QED
    BY <1>3, <2>4, <2>5, <2>6 DEF CancelWrite, CopiesInv, CopiesBacked, CopiesClaimed,
       Sound, BackedBy, ClaimedIfRunning, execVars
<1>4. ASSUME NEW e \in Executors,
             Launch(e) \/ Poll(e) \/ PickNext(e) \/ InitialRead(e) \/ ClaimRead(e)
               \/ ClaimVerify(e) \/ Check(e) \/ Reread(e) \/ FinalCheck(e)
               \/ PrepareThrows(e) \/ Fault(e) \/ Kill(e)
      PROVE  CopiesInv'
  <2>1. UNCHANGED <<file, rows, cancelVars>>
    BY <1>4 DEF Launch, Poll, PickNext, InitialRead, ClaimRead, ClaimVerify, Check,
       Reread, FinalCheck, PrepareThrows, Fault, Kill, queueVars
  <2>2. \A f \in Executors \ {e} :
          UNCHANGED <<pc[f], copy[f], cur[f], completed[f], nonce[f]>>
    BY <1>0, <1>4 DEF Launch, Poll, PickNext, InitialRead, ClaimRead, ClaimVerify, Check,
       Reread, FinalCheck, PrepareThrows, Fault, Kill, Goto, Remember, Forget
  <2>3. CASE Launch(e) \/ Poll(e) \/ PickNext(e) \/ PrepareThrows(e) \/ Kill(e)
    <3>1. pc'[e] \in {"idle", "list", "initialRead", "exited", "killed"}
      BY <1>0, <2>3 DEF Launch, Poll, PickNext, PrepareThrows, Kill, Goto
    <3> QED BY <2>1, <2>2, <3>1, ExecutorStep DEF Writing, Executing
  <2>4. CASE InitialRead(e)
    <3>1. /\ pc'[e] \in {"exited", "claimRead", "list", "noteWrite"}
          /\ pc'[e] = "noteWrite" => copy'[e] = file[cur[e]]
      BY <1>0, <2>4 DEF InitialRead, Remember, Goto
    <3>2. cur'[e] = cur[e] /\ cur[e] \in Requests
      BY <2>4 DEF InitialRead, TypeInv, TypeOK
    <3> QED BY <2>1, <2>2, <3>1, <3>2, AtPlace, ExecutorStep DEF Writing, Executing
  <2>5. CASE ClaimRead(e)
    <3>1. pc'[e] \in {"list", "claimWrite"} /\ copy'[e] = file[cur[e]]
      BY <1>0, <2>5 DEF ClaimRead, Remember, Goto
    <3>2. cur'[e] = cur[e] /\ cur[e] \in Requests
      BY <2>5, AtPlace DEF ClaimRead
    <3> QED BY <2>1, <2>2, <3>1, <3>2, AtPlace, ExecutorStep DEF Writing, Executing
  <2>6. CASE ClaimVerify(e)
    <3>1. /\ pc'[e] \in {"list", "start"}
          /\ copy'[e] = file[cur[e]]
          /\ pc'[e] = "start" => file[cur[e]].claim.nonce = nonce[e]
      BY <1>0, <2>6 DEF ClaimVerify, Remember, Goto
    <3>2. cur'[e] = cur[e] /\ cur[e] \in Requests
      BY <2>6, AtPlace DEF ClaimVerify
    <3>3. file[cur[e]].claim \in Claims
      BY <3>2, AtPlace DEF Records
    <3>4. nonce[e] # None
      BY <2>6 DEF ClaimVerify, CopiesInv, CopiesClaimed
    <3>5. pc'[e] = "start" => copy'[e].claim.pid # None
      BY <3>1, <3>3, <3>4, RunQueueAssumption DEF Claims, NoClaim
    <3> QED BY <2>1, <2>2, <3>1, <3>2, <3>5, AtPlace, ExecutorStep DEF Writing, Executing
  <2>7. CASE Check(e) \/ FinalCheck(e) \/ Fault(e)
    <3>1. /\ pc[e] \in Executing
          /\ pc'[e] \in {"final", "liveRead", "cancelledRead", "doneRead", "failRead"}
          /\ cur' = cur /\ completed' = completed
      BY <1>0, <2>7 DEF Check, FinalCheck, Fault, Goto, Executing
    <3> QED BY <2>1, <2>2, <3>1, AtPlace, ExecutorStep DEF Writing
  <2>8. CASE Reread(e)
    <3>1. pc[e] \in Executing /\ pc'[e] \in Executing /\ pc'[e] # "start"
      BY <1>0, <2>8, RereadLabels DEF Executing
    <3>2. copy'[e] = file[cur[e]] /\ cur' = cur /\ completed' = completed
      BY <1>0, <2>8 DEF Reread, Remember
    <3>3. pc'[e] # "claimVerify"
      BY <3>1 DEF Executing
    <3> QED BY <2>1, <2>2, <3>1, <3>2, <3>3, AtPlace, ExecutorStep
  <2> QED BY <1>4, <2>3, <2>4, <2>5, <2>6, <2>7, <2>8
<1>5. ASSUME NEW e \in Executors,
             NoteWrite(e) \/ ClaimWrite(e) \/ FailEmpty(e) \/ StartWrite(e)
               \/ LiveWrite(e) \/ ProgressWrite(e) \/ FinishWrite(e)
      PROVE  CopiesInv'
  <2>1. /\ UNCHANGED <<rows, cancelVars, cur>>
        /\ pc[e] \in Writing
    BY <1>5 DEF NoteWrite, ClaimWrite, FailEmpty, StartWrite, LiveWrite, ProgressWrite,
       FinishWrite, Writing
  <2>2. \A f \in Executors \ {e} :
          UNCHANGED <<pc[f], copy[f], cur[f], completed[f], nonce[f]>>
    BY <1>0, <1>5 DEF NoteWrite, ClaimWrite, FailEmpty, StartWrite, LiveWrite,
       ProgressWrite, FinishWrite, Goto, Forget
  <2>3. /\ copy[e] \in Records /\ cur[e] \in Requests /\ Sound(copy[e], cur[e])
        /\ rows \in [Requests -> [Executors -> Nat]]
    BY <2>1, AtPlace
  <2>4. ASSUME NEW rec, Write(cur[e], rec), Sound(rec, cur[e])
        PROVE  \A r \in Requests : file'[r] = file[r] \/ Sound(file'[r], r)
    BY <1>0, <2>4 DEF Write
  <2>5. CASE NoteWrite(e) \/ FailEmpty(e)
    <3>1. \A r \in Requests : file'[r] = file[r] \/ Sound(file'[r], r)
      BY <2>3, <2>4, <2>5, UpdatesAreSound DEF NoteWrite, FailEmpty, Statuses, Terminal
    <3>2. pc'[e] = "list"
      BY <1>0, <2>5 DEF NoteWrite, FailEmpty, Goto
    <3> QED BY <2>1, <2>2, <3>1, <3>2, ExecutorStep DEF Writing, Executing
  <2>6. CASE ClaimWrite(e)
    <3>1. PICK n \in Nonces :
            /\ nonce' = [nonce EXCEPT ![e] = n]
            /\ Write(cur[e], [copy[e] EXCEPT !.claim = [pid |-> e, nonce |-> n]])
      BY <2>6 DEF ClaimWrite
    <3>2. \A r \in Requests : file'[r] = file[r] \/ Sound(file'[r], r)
      BY <2>3, <2>4, <3>1, UpdatesAreSound
    <3>3. nonce'[e] # None
      BY <1>0, <3>1, RunQueueAssumption
    <3>4. pc'[e] = "claimVerify"
      BY <1>0, <2>6 DEF ClaimWrite, Goto
    <3> QED BY <2>1, <2>2, <3>2, <3>3, <3>4, ExecutorStep DEF Writing, Executing
  <2>7. CASE StartWrite(e)
    <3>1. copy[e].claim.pid # None
      BY <2>7, AtPlace DEF StartWrite
    <3>2. \A r \in Requests : file'[r] = file[r] \/ Sound(file'[r], r)
      BY <2>3, <2>4, <2>7, <3>1, StartIsSound DEF StartWrite
    <3>3. pc'[e] = "check" /\ completed'[e] = 0
      BY <1>0, <2>7 DEF StartWrite, Goto
    <3>4. 0 <= rows[cur'[e]][e]
      BY <2>1, <2>3
    <3> QED BY <2>1, <2>2, <3>2, <3>3, <3>4, ExecutorStep DEF Writing, Executing
  <2>8. CASE LiveWrite(e)
    <3>1. \A r \in Requests : file'[r] = file[r] \/ Sound(file'[r], r)
      BY <2>3, <2>4, <2>8, UpdatesAreSound DEF LiveWrite
    <3>2. pc'[e] = "rollout" /\ completed' = completed
      BY <1>0, <2>8 DEF LiveWrite, Goto
    <3>3. completed[e] <= rows[cur[e]][e]
      BY <2>8, AtPlace DEF LiveWrite, Executing
    <3> QED BY <2>1, <2>2, <3>1, <3>2, <3>3, ExecutorStep DEF Writing, Executing
  <2>9. CASE ProgressWrite(e)
    <3>1. completed[e] <= rows[cur[e]][e]
      BY <2>9, AtPlace DEF ProgressWrite, Executing
    <3>2. \A r \in Requests : file'[r] = file[r] \/ Sound(file'[r], r)
      BY <2>3, <2>4, <2>9, <3>1, CountIsSound DEF ProgressWrite
    <3>3. pc'[e] = "check" /\ completed' = completed
      BY <1>0, <2>9 DEF ProgressWrite, Goto
    <3> QED BY <2>1, <2>2, <3>1, <3>2, <3>3, ExecutorStep DEF Writing, Executing
  <2>10. CASE FinishWrite(e)
    <3>1. completed[e] <= rows[cur[e]][e]
      BY <2>10, AtPlace DEF FinishWrite, Executing
    <3>2. {"done", "failed"} \subseteq Statuses \ {"running"}
      BY DEF Statuses, Terminal
    <3>3. \A r \in Requests : file'[r] = file[r] \/ Sound(file'[r], r)
      BY <2>3, <2>4, <2>10, <3>1, <3>2, CountIsSound DEF FinishWrite
    <3>4. pc'[e] = "list"
      BY <1>0, <2>10 DEF FinishWrite, Goto
    <3> QED BY <2>1, <2>2, <3>3, <3>4, ExecutorStep DEF Writing, Executing
  <2> QED BY <1>5, <2>5, <2>6, <2>7, <2>8, <2>9, <2>10
<1>6. ASSUME NEW e \in Executors, Rollout(e)
      PROVE  CopiesInv'
  <2>1. cur[e] \in Requests /\ completed[e] <= rows[cur[e]][e] /\ completed[e] \in Nat
    BY <1>0, <1>6, AtPlace, RunQueueAssumption DEF Rollout, Executing
  <2>2. rows \in [Requests -> [Executors -> Nat]]
    BY DEF TypeInv, TypeOK
  <2>3. /\ rows' = [rows EXCEPT ![cur[e]][e] = @ + 1]
        /\ completed' = [completed EXCEPT ![e] = @ + 1]
        /\ pc' = [pc EXCEPT ![e] = "progressRead"]
        /\ UNCHANGED <<file, cancelVars, cur, copy, nonce>>
    BY <1>6 DEF Rollout, Goto
  <2>4. \A r \in Requests, f \in Executors :
          /\ rows'[r][f] = IF r = cur[e] /\ f = e THEN rows[r][f] + 1 ELSE rows[r][f]
          /\ rows[r][f] \in Nat
    BY <2>2, <2>3
  <2>5. \A r \in Requests, rec \in Records : BackedBy(rec, r) => BackedBy(rec, r)'
    <3> SUFFICES ASSUME NEW r \in Requests, NEW rec \in Records,
                        NEW f \in Executors, rec.completed <= rows[r][f]
                 PROVE  rec.completed <= rows'[r][f]
      BY DEF BackedBy
    <3>1. rec.completed \in Nat
      BY RunQueueAssumption DEF Records
    <3> QED BY <2>4, <3>1
  <2>6. \A f \in Executors : pc'[f] \in Executing => completed'[f] <= rows'[cur'[f]][f]
    <3> SUFFICES ASSUME NEW f \in Executors, pc'[f] \in Executing
                 PROVE  completed'[f] <= rows'[cur[f]][f]
      BY <2>3
    <3>1. CASE f = e
      <4>1. completed'[e] = completed[e] + 1
        BY <1>0, <2>3
      <4> QED BY <2>1, <2>4, <3>1, <4>1
    <3>2. CASE f # e
      <4>1. completed'[f] = completed[f] /\ pc[f] \in Executing
        BY <1>0, <2>3, <3>2
      <4>2. cur[f] \in Requests /\ completed[f] <= rows[cur[f]][f]
        BY <4>1, AtPlace
      <4>3. rows'[cur[f]][f] = rows[cur[f]][f]
        BY <2>4, <3>2, <4>2
      <4> QED BY <4>1, <4>2, <4>3
    <3> QED BY <3>1, <3>2
  <2>7. \A f \in Executors : pc'[f] \in Writing \cup {"claimVerify"} => pc'[f] = pc[f]
    BY <1>0, <2>3 DEF Writing
  <2>8. \A f \in Executors : pc'[f] \in Writing => cur[f] \in Requests /\ copy[f] \in Records
    BY <2>7, AtPlace
  <2>9. \A c \in Cancellers : cpc[c] = "write" => ccur[c] \in Requests /\ ccopy[c] \in Records
    BY DEF TypeInv, TypeOK
  <2>10. CopiesBacked'
    BY <1>0, <2>3, <2>5, <2>6, <2>7, <2>8, <2>9
    DEF CopiesInv, CopiesBacked, cancelVars, TypeInv, TypeOK
  <2>11. CopiesClaimed'
    BY <2>3, <2>7 DEF CopiesInv, CopiesClaimed, ClaimedIfRunning, cancelVars, Writing
  <2> QED BY <2>10, <2>11 DEF CopiesInv
<1>7. CASE UNCHANGED vars
  BY <1>7 DEF vars, queueVars, execVars, cancelVars, CopiesInv, CopiesBacked,
     CopiesClaimed, BackedBy, ClaimedIfRunning
<1> QED
  BY <1>1, <1>2, <1>3, <1>4, <1>5, <1>6, <1>7 DEF Next, Step

LEMMA CopiesInvariant == Spec => [](TypeInv /\ CopiesInv)
<1>1. Init => TypeInv /\ CopiesInv
  BY TypeInit, CopiesInit
<1>2. TypeInv /\ CopiesInv /\ [Next]_vars => (TypeInv /\ CopiesInv)'
  BY TypeStep, CopiesStep
<1> QED BY <1>1, <1>2, PTL DEF Spec

(* The progress that a request file shows never exceeds the rows that some  *)
(* executor appended, whatever stale copies claims, notes, cancellations    *)
(* and progress writes put back, and whoever is killed.                     *)
THEOREM ProgressIsBacked == Spec => []ProgressBacked
<1>1. CopiesInv => ProgressBacked
  BY DEF CopiesInv, CopiesBacked, ProgressBacked
<1> QED BY CopiesInvariant, <1>1, PTL

(* A request file that says running names a process that claimed it.       *)
THEOREM RunningHasClaim == Spec => []RunningIsClaimed
<1>1. CopiesInv => RunningIsClaimed
  BY DEF CopiesInv, CopiesClaimed, RunningIsClaimed, ClaimedIfRunning
<1> QED BY CopiesInvariant, <1>1, PTL
-----------------------------------------------------------------------------
(* One watcher at a time.                                                  *)
(*                                                                         *)
(* What holds of the one executor that lives is known from its place; a     *)
(* dead one knows nothing, and leaves what is true of the files.  Asked     *)
(* separates what cancellers disturb from what they cannot.                 *)

Alone == \A e, f \in Executors : Alive(e) /\ Alive(f) => e = f

Preparing == {"noteWrite", "claimRead", "claimWrite", "claimVerify", "start"}
AtRequest == {"initialRead"} \cup Preparing \cup Executing
NoRows(r) == \A f \in Executors : rows[r][f] = 0

Names ==
  /\ \A e \in Executors : pc[e] \in AtRequest => Created(cur[e])
  /\ \A e \in Executors : \A r \in todo[e] : Created(r)
  /\ \A c \in Cancellers : IF cpc[c] = "idle" THEN ccur[c] = 0 ELSE Created(ccur[c])

(* A request, whoever has been at it. *)
FileKnown(r) ==
  /\ ~Created(r) => file[r] = Fresh
  /\ file[r].status = "queued" => NoRows(r)
  /\ file[r].status = "queued" /\ ~Asked(r) => file[r].completed = 0
  /\ file[r].status = "done" =>
       file[r].completed = Total /\ \E e \in Executors : rows[r][e] = Total
  /\ r \in landed => file[r].status \in {"cancelled", "failed"}
  /\ \A e, f \in Executors : rows[r][e] > 0 /\ rows[r][f] > 0 => e = f

(* Before the start of request r. *)
KnownBefore(e, r) ==
  pc[e] \in Preparing =>
    /\ NoRows(r)
    /\ ~Asked(r) => file[r].status = "queued"
    /\ pc[e] # "claimRead" => r \notin landed
    /\ pc[e] \in {"noteWrite", "claimWrite"} => copy[e].status = "queued"

(* During its execution. *)
KnownDuring(e, r) ==
  pc[e] \in Executing =>
    /\ rows[r][e] = completed[e] /\ \A f \in Executors \ {e} : rows[r][f] = 0
    /\ file[r].status \in {"running", "cancelled"}
    /\ r \in landed =>
         file[r].status = "cancelled" /\ pc[e] \notin {"doneRead", "doneWrite"}
    /\ pc[e] \in Writing =>
         /\ copy[e].status \in {"running", "cancelled"}
         /\ r \in landed => copy[e].status = "cancelled"
    /\ pc[e] = "final" /\ completed[e] < Total => file[r].status = "cancelled"
    /\ pc[e] \in {"doneRead", "doneWrite"} => completed[e] = Total
    /\ pc[e] = "cancelledRead" => file[r].status = "cancelled"
    /\ pc[e] = "cancelledWrite" => copy[e].status = "cancelled"

(* Of a request that nobody has asked to cancel the executor's copy is the    *)
(* file, which shows all of its work items but perhaps the last.            *)
Uncounted == {"progressRead", "progressWrite", "failRead", "failWrite"}
KnownUnasked(e, r) ==
  ~Asked(r) =>
    /\ pc[e] \in Writing => copy[e] = file[r]
    /\ pc[e] \in Executing =>
         /\ file[r].status = "running"
         /\ completed[e] \in {file[r].completed, file[r].completed + 1}
         /\ pc[e] \notin Uncounted => file[r].completed = completed[e]

Known(e) ==
  KnownBefore(e, cur[e]) /\ KnownDuring(e, cur[e]) /\ KnownUnasked(e, cur[e])

WatcherInv ==
  /\ Alone /\ Names
  /\ \A r \in Requests : FileKnown(r)
  /\ \A e \in Executors : Known(e)

LEMMA WatcherInit == Init => WatcherInv
<1> SUFFICES ASSUME Init PROVE WatcherInv
  OBVIOUS
<1>1. Fresh.status = "queued" /\ Fresh.completed = 0
  BY DEF Fresh
<1>2. Alone /\ Names
  BY DEF Init, Alone, Alive, Names, AtRequest, Preparing, Executing
<1>3. \A r \in Requests : FileKnown(r)
  BY <1>1 DEF Init, FileKnown, NoRows
<1>4. \A e \in Executors : Known(e)
  BY DEF Init, Known, KnownBefore, KnownDuring, KnownUnasked, Preparing, Executing, Writing
<1> QED BY <1>2, <1>3, <1>4 DEF WatcherInv

(* What the invariants say of an executor at a request, by place. *)
LEMMA PlacesAlive ==
  ASSUME NEW e \in Executors, pc[e] \in AtRequest \cup {"idle", "list"}
  PROVE  Alive(e)
BY DEF Alive, AtRequest, Preparing, Executing

(* A step of an executor: the others are dead, and have nothing to know. *)
LEMMA WatcherMoves ==
  ASSUME WatcherInv, NEW e \in Executors, Alive(e),
         UNCHANGED <<created, cancelVars>>,
         \A f \in Executors \ {e} : UNCHANGED <<pc[f], todo[f]>>,
         \A r \in todo'[e] : Created(r),
         pc'[e] \in AtRequest => Created(cur'[e]),
         \A r \in Requests : FileKnown(r)',
         Known(e)'
  PROVE  WatcherInv'
<1>1. \A f \in Executors \ {e} : pc'[f] \in {"off", "exited", "killed"}
  BY DEF WatcherInv, Alone, Alive
<1>2. Alone'
  BY <1>1 DEF Alone, Alive
<1>3. Names'
  BY <1>1 DEF WatcherInv, Names, AtRequest, Preparing, Executing, cancelVars, Created
<1>4. \A f \in Executors \ {e} : Known(f)'
  BY <1>1 DEF Known, KnownBefore, KnownDuring, KnownUnasked, Preparing, Executing, Writing
<1> QED BY <1>2, <1>3, <1>4 DEF WatcherInv

(* A step that leaves the files and rows alone. *)
LEMMA FilesKept ==
  ASSUME WatcherInv, UNCHANGED <<created, file, rows, cancelVars>>
  PROVE  \A r \in Requests : FileKnown(r)'
BY DEF WatcherInv, FileKnown, Created, NoRows, Asked, cancelVars

(* A step that writes one of them. *)
LEMMA FileWritten ==
  ASSUME TypeInv, WatcherInv, NEW s \in Requests, NEW rec, Write(s, rec),
         UNCHANGED <<created, rows, cancelVars>>, Created(s),
         rec.status = "queued" =>
           NoRows(s) /\ s \notin landed /\ (~Asked(s) => rec.completed = 0),
         rec.status = "done" =>
           rec.completed = Total /\ \E e \in Executors : rows[s][e] = Total,
         s \in landed => rec.status \in {"cancelled", "failed"}
  PROVE  /\ \A r \in Requests : FileKnown(r)'
         /\ file'[s] = rec /\ \A r \in Requests \ {s} : file'[r] = file[r]
<1>1. file'[s] = rec /\ \A r \in Requests \ {s} : file'[r] = file[r]
  BY DEF TypeInv, TypeOK, Write
<1>2. UNCHANGED <<created, rows, landed, ccur>>
  BY DEF cancelVars
<1> SUFFICES ASSUME NEW r \in Requests PROVE FileKnown(r)'
  BY <1>1
<1>3. FileKnown(r)
  BY DEF WatcherInv
<1> QED BY <1>1, <1>2, <1>3 DEF FileKnown, Created, NoRows, Asked

LEMMA WatcherReads ==
  ASSUME TypeInv, WatcherInv, NEW e \in Executors,
         Poll(e) \/ PickNext(e) \/ InitialRead(e) \/ ClaimRead(e) \/ ClaimVerify(e)
           \/ PrepareThrows(e) \/ Check(e) \/ Reread(e) \/ FinalCheck(e)
           \/ Fault(e) \/ Kill(e)
  PROVE  WatcherInv'
<1> DEFINE Functions ==
      /\ pc \in [Executors -> Labels]
      /\ copy \in [Executors -> Records]
      /\ cur \in [Executors -> Requests \cup {0}]
      /\ completed \in [Executors -> 0..Total]
      /\ todo \in [Executors -> SUBSET Requests]
      /\ file \in [Requests -> Records]
<1>0. Functions
  BY DEF TypeInv, TypeOK
<1>1. UNCHANGED <<created, file, rows, cancelVars>>
  BY DEF Poll, PickNext, InitialRead, ClaimRead, ClaimVerify, PrepareThrows, Check, Reread,
     FinalCheck, Fault, Kill, queueVars
<1>2. \A f \in Executors \ {e} : UNCHANGED <<pc[f], todo[f]>>
  BY <1>0 DEF Poll, PickNext, InitialRead, ClaimRead, ClaimVerify, PrepareThrows, Check,
     Reread, FinalCheck, Fault, Kill, Goto
<1>3. Alive(e)
  <2>1. CASE Reread(e)
    BY <1>0, <2>1, RereadLabels, PlacesAlive DEF AtRequest
  <2>2. CASE Kill(e)
    BY <2>2 DEF Kill
  <2>3. CASE ~Reread(e) /\ ~Kill(e)
    BY <2>3, PlacesAlive DEF Poll, PickNext, InitialRead, ClaimRead, ClaimVerify,
       PrepareThrows, Check, FinalCheck, Fault, AtRequest, Preparing, Executing
  <2> QED BY <2>1, <2>2, <2>3
<1>4. \A r \in Requests : FileKnown(r)'
  BY <1>1, FilesKept
<1>5. \A r \in todo[e] : Created(r)
  BY DEF WatcherInv, Names
<1>6. Known(e) /\ (pc[e] \in AtRequest => Created(cur[e]))
  BY DEF WatcherInv, Names
<1>7. ASSUME todo'[e] \subseteq todo[e], pc'[e] \in AtRequest => pc[e] \in AtRequest,
             cur'[e] = cur[e], Known(e)'
      PROVE  WatcherInv'
  BY <1>1, <1>2, <1>3, <1>4, <1>5, <1>6, <1>7, WatcherMoves DEF Created
<1>8. /\ UNCHANGED <<created, file, rows, landed, ccur>>
      /\ \A r \in Requests : Asked(r)' <=> Asked(r)
  BY <1>1 DEF cancelVars, Asked
<1>10. CASE Poll(e)
  <2>1. /\ pc'[e] = "list" /\ \A r \in todo'[e] : Created(r)
    BY <1>0, <1>10 DEF Poll, Goto
  <2>2. Known(e)'
    BY <2>1 DEF Known, KnownBefore, KnownDuring, KnownUnasked, Preparing, Executing, Writing
  <2> QED BY <1>1, <1>2, <1>3, <1>4, <2>1, <2>2, WatcherMoves
         DEF AtRequest, Preparing, Executing
<1>11. CASE PickNext(e)
  <2>1. /\ pc'[e] \in {"idle", "initialRead"}
        /\ todo'[e] \subseteq todo[e]
        /\ pc'[e] = "initialRead" => cur'[e] \in todo[e]
    BY <1>0, <1>11 DEF PickNext, Goto
  <2>2. Known(e)'
    BY <2>1 DEF Known, KnownBefore, KnownDuring, KnownUnasked, Preparing, Executing, Writing
  <2>3. pc'[e] \in AtRequest => Created(cur'[e])
    BY <1>5, <2>1 DEF AtRequest, Preparing, Executing
  <2>4. \A r \in todo'[e] : Created(r)
    BY <1>5, <2>1
  <2> QED BY <1>1, <1>2, <1>3, <1>4, <2>2, <2>3, <2>4, WatcherMoves
<1>12. CASE InitialRead(e)
  <2> DEFINE r == cur[e]
  <2>1. /\ pc[e] = "initialRead" /\ r \in Requests /\ cur' = cur /\ todo' = todo
        /\ pc'[e] \in {"exited", "claimRead", "list", "noteWrite"}
        /\ pc'[e] \in {"claimRead", "noteWrite"} => file[r].status = "queued"
        /\ pc'[e] = "noteWrite" => copy'[e] = file[r]
    BY <1>0, <1>12 DEF InitialRead, Goto, Remember, TypeInv, TypeOK
  <2>2. FileKnown(r)
    BY <2>1 DEF WatcherInv
  <2>3. Known(e)'
    BY <1>8, <2>1, <2>2
    DEF Known, KnownBefore, KnownDuring, KnownUnasked, FileKnown, NoRows, Preparing,
        Executing, Writing
  <2> QED BY <1>7, <2>1, <2>3 DEF AtRequest
<1>13. CASE ClaimRead(e)
  <2> DEFINE r == cur[e]
  <2>1. /\ pc[e] = "claimRead" /\ r \in Requests /\ cur' = cur /\ todo' = todo
        /\ pc'[e] \in {"list", "claimWrite"}
        /\ pc'[e] = "claimWrite" => file[r].status = "queued"
        /\ copy'[e] = file[r]
    BY <1>0, <1>13 DEF ClaimRead, Goto, Remember, TypeInv, TypeOK
  <2>2. FileKnown(r)
    BY <2>1 DEF WatcherInv
  <2>3. Known(e)'
    BY <1>8, <2>1, <2>2
    DEF Known, KnownBefore, KnownDuring, KnownUnasked, FileKnown, NoRows, Preparing,
        Executing, Writing
  <2> QED BY <1>7, <2>1, <2>3 DEF AtRequest, Preparing
<1>14. CASE ClaimVerify(e)
  <2> DEFINE r == cur[e]
  <2>1. /\ pc[e] = "claimVerify" /\ r \in Requests /\ cur' = cur /\ todo' = todo
        /\ pc'[e] \in {"list", "start"}
        /\ copy'[e] = file[r]
    BY <1>0, <1>14 DEF ClaimVerify, Goto, Remember, TypeInv, TypeOK
  <2>2. Known(e)'
    BY <1>6, <1>8, <2>1
    DEF Known, KnownBefore, KnownDuring, KnownUnasked, NoRows, Preparing, Executing, Writing
  <2> QED BY <1>7, <2>1, <2>2 DEF AtRequest, Preparing
<1>15. CASE PrepareThrows(e) \/ Kill(e)
  <2>1. pc'[e] \in {"exited", "killed"} /\ todo'[e] \subseteq todo[e] /\ cur' = cur
    BY <1>0, <1>15 DEF PrepareThrows, Kill, Goto
  <2>2. Known(e)'
    BY <2>1 DEF Known, KnownBefore, KnownDuring, KnownUnasked, Preparing, Executing, Writing
  <2> QED BY <1>7, <2>1, <2>2 DEF AtRequest, Preparing, Executing
<1>16. CASE Check(e)
  <2> DEFINE r == cur[e]
  <2>1. /\ pc[e] = "check" /\ r \in Requests /\ UNCHANGED <<cur, todo, copy, completed>>
        /\ pc'[e] \in {"final", "liveRead"}
        /\ pc'[e] = "final" => file[r].status = "cancelled" \/ completed[e] = Total
    BY <1>0, <1>16 DEF Check, Goto, TypeInv, TypeOK
  <2>2. completed[e] \in 0..Total /\ Total \in Nat
    BY <1>0, RunQueueAssumption
  <2>3. Known(e)'
    BY <1>6, <1>8, <2>1, <2>2
    DEF Known, KnownBefore, KnownDuring, KnownUnasked, Preparing, Executing, Writing, Uncounted
  <2> QED BY <1>7, <2>1, <2>3 DEF AtRequest, Executing
<1>17. CASE Reread(e)
  <2> DEFINE r == cur[e]
  <2>1. /\ r \in Requests /\ UNCHANGED <<cur, todo, completed>>
        /\ copy'[e] = file[r]
    <3>1. r \in Requests
      BY <1>0, <1>17, RereadLabels DEF TypeInv, TypeOK
    <3> QED BY <1>0, <1>17, <3>1 DEF Reread, Remember
  <2>2. \/ pc[e] = "liveRead" /\ pc'[e] = "liveWrite"
        \/ pc[e] = "progressRead" /\ pc'[e] = "progressWrite"
        \/ pc[e] = "doneRead" /\ pc'[e] = "doneWrite"
        \/ pc[e] = "cancelledRead" /\ pc'[e] = "cancelledWrite"
        \/ pc[e] = "failRead" /\ pc'[e] = "failWrite"
    BY <1>0, <1>17, RereadLabels DEF WriteAfter
  <2>3. Known(e)'
    BY <1>6, <1>8, <2>1, <2>2
    DEF Known, KnownBefore, KnownDuring, KnownUnasked, Preparing, Executing, Writing, Uncounted
  <2> QED BY <1>7, <2>1, <2>2, <2>3 DEF AtRequest, Executing
<1>18. CASE FinalCheck(e)
  <2> DEFINE r == cur[e]
  <2>1. /\ pc[e] = "final" /\ r \in Requests /\ UNCHANGED <<cur, todo, copy, completed>>
        /\ pc'[e] = IF file[r].status = "cancelled" THEN "cancelledRead" ELSE "doneRead"
    BY <1>0, <1>18 DEF FinalCheck, Goto, TypeInv, TypeOK
  <2>2. completed[e] \in 0..Total /\ Total \in Nat
    BY <1>0, RunQueueAssumption
  <2>3. Known(e)'
    BY <1>6, <1>8, <2>1, <2>2
    DEF Known, KnownBefore, KnownDuring, KnownUnasked, Preparing, Executing, Writing, Uncounted
  <2> QED BY <1>7, <2>1, <2>3 DEF AtRequest, Executing
<1>19. CASE Fault(e)
  <2> DEFINE r == cur[e]
  <2>1. /\ pc[e] \in {"check", "rollout", "progressRead"} /\ r \in Requests
        /\ UNCHANGED <<cur, todo, copy, completed>>
        /\ pc'[e] = "failRead"
    BY <1>0, <1>19 DEF Fault, Goto, TypeInv, TypeOK
  <2>2. Known(e)'
    BY <1>6, <1>8, <2>1
    DEF Known, KnownBefore, KnownDuring, KnownUnasked, Preparing, Executing, Writing, Uncounted
  <2> QED BY <1>7, <2>1, <2>2 DEF AtRequest, Executing
<1> QED
  BY <1>10, <1>11, <1>12, <1>13, <1>14, <1>15, <1>16, <1>17, <1>18, <1>19

LEMMA WatcherWrites ==
  ASSUME TypeInv, WatcherInv, NEW e \in Executors,
         NoteWrite(e) \/ ClaimWrite(e) \/ FailEmpty(e) \/ StartWrite(e)
           \/ LiveWrite(e) \/ ProgressWrite(e) \/ FinishWrite(e)
  PROVE  WatcherInv'
<1> DEFINE Functions ==
      /\ pc \in [Executors -> Labels]
      /\ copy \in [Executors -> Records]
      /\ completed \in [Executors -> 0..Total]
      /\ file \in [Requests -> Records]
      /\ rows \in [Requests -> [Executors -> Nat]]
<1> DEFINE r == cur[e]
<1>0. Functions /\ Total \in Nat
  BY RunQueueAssumption DEF TypeInv, TypeOK
<1>1. UNCHANGED <<created, rows, cancelVars, cur, todo>> /\ pc[e] \in Writing
  BY DEF NoteWrite, ClaimWrite, FailEmpty, StartWrite, LiveWrite, ProgressWrite,
     FinishWrite, Writing
<1>2. \A f \in Executors \ {e} : UNCHANGED <<pc[f], todo[f]>>
  BY <1>0, <1>1 DEF NoteWrite, ClaimWrite, FailEmpty, StartWrite, LiveWrite, ProgressWrite,
     FinishWrite, Goto
<1>3. Alive(e) /\ r \in Requests /\ Created(r) /\ copy[e] \in Records
  BY <1>0, <1>1 DEF Alive, Writing, WatcherInv, Names, AtRequest, Preparing, Executing,
     TypeInv, TypeOK
<1>4. \A s \in todo'[e] : Created(s)
  BY <1>1 DEF WatcherInv, Names
<1>5. Known(e) /\ FileKnown(r)
  BY <1>3 DEF WatcherInv
<1>6. ASSUME \A s \in Requests : FileKnown(s)', Known(e)'
      PROVE  WatcherInv'
  BY <1>1, <1>2, <1>3, <1>4, <1>6, WatcherMoves DEF Created
<1>7. /\ UNCHANGED <<created, rows, landed, ccur>>
      /\ cur'[e] = r /\ (Asked(r)' <=> Asked(r))
  BY <1>1 DEF cancelVars, Asked
<1>8. ASSUME NEW rec, Write(r, rec),
             rec.status = "queued" =>
               NoRows(r) /\ r \notin landed /\ (~Asked(r) => rec.completed = 0),
             rec.status = "done" =>
               rec.completed = Total /\ \E f \in Executors : rows[r][f] = Total,
             r \in landed => rec.status \in {"cancelled", "failed"}
      PROVE  (\A s \in Requests : FileKnown(s)') /\ file'[r] = rec
  BY <1>1, <1>3, <1>8, FileWritten
<1>10. CASE NoteWrite(e)
  <2> DEFINE rec == [copy[e] EXCEPT !.note = e]
  <2>1. /\ pc[e] = "noteWrite" /\ pc'[e] = "list" /\ Write(r, rec)
    BY <1>0, <1>10 DEF NoteWrite, Goto
  <2>2. rec.status = copy[e].status /\ rec.completed = copy[e].completed
    BY <1>3 DEF Records
  <2>3. NoRows(r) /\ r \notin landed /\ copy[e].status = "queued"
    BY <1>5, <2>1 DEF Known, KnownBefore, Preparing
  <2>4. ~Asked(r) => copy[e].completed = 0
    BY <1>5, <2>1, <2>3 DEF Known, KnownUnasked, FileKnown, Writing
  <2>5. \A s \in Requests : FileKnown(s)'
    BY <1>8, <2>1, <2>2, <2>3, <2>4
  <2>6. Known(e)'
    BY <2>1 DEF Known, KnownBefore, KnownDuring, KnownUnasked, Preparing, Executing, Writing
  <2> QED BY <1>6, <2>5, <2>6
<1>11. CASE ClaimWrite(e)
  <2> PICK n \in Nonces : Write(r, [copy[e] EXCEPT !.claim = [pid |-> e, nonce |-> n]])
    BY <1>11 DEF ClaimWrite
  <2> DEFINE rec == [copy[e] EXCEPT !.claim = [pid |-> e, nonce |-> n]]
  <2>1. /\ pc[e] = "claimWrite" /\ pc'[e] = "claimVerify" /\ Write(r, rec)
    BY <1>0, <1>11 DEF ClaimWrite, Goto
  <2>2. rec.status = copy[e].status /\ rec.completed = copy[e].completed
    BY <1>3 DEF Records
  <2>3. NoRows(r) /\ r \notin landed /\ copy[e].status = "queued"
    BY <1>5, <2>1 DEF Known, KnownBefore, Preparing
  <2>4. ~Asked(r) => copy[e].completed = 0
    BY <1>5, <2>1, <2>3 DEF Known, KnownUnasked, FileKnown, Writing
  <2>5. (\A s \in Requests : FileKnown(s)') /\ file'[r] = rec
    BY <1>8, <2>1, <2>2, <2>3, <2>4
  <2>6. Known(e)'
    BY <1>1, <1>7, <2>1, <2>2, <2>3, <2>5
    DEF Known, KnownBefore, KnownDuring, KnownUnasked, NoRows, Preparing, Executing, Writing
  <2> QED BY <1>6, <2>5, <2>6
<1>12. CASE FailEmpty(e)
  <2> DEFINE rec == [copy[e] EXCEPT !.status = "failed"]
  <2>1. /\ pc'[e] = "list" /\ Write(r, rec)
    BY <1>0, <1>12 DEF FailEmpty, Goto
  <2>2. rec.status = "failed"
    BY <1>3 DEF Records
  <2>3. \A s \in Requests : FileKnown(s)'
    BY <1>8, <2>1, <2>2
  <2>4. Known(e)'
    BY <2>1 DEF Known, KnownBefore, KnownDuring, KnownUnasked, Preparing, Executing, Writing
  <2> QED BY <1>6, <2>3, <2>4
<1>13. CASE StartWrite(e)
  <2> DEFINE rec == [copy[e] EXCEPT !.status = "running", !.completed = 0]
  <2>1. /\ pc[e] = "start" /\ pc'[e] = "check" /\ completed'[e] = 0 /\ Write(r, rec)
    BY <1>0, <1>13 DEF StartWrite, Goto
  <2>2. rec.status = "running" /\ rec.completed = 0
    BY <1>3 DEF Records
  <2>3. r \notin landed /\ NoRows(r)
    BY <1>5, <2>1 DEF Known, KnownBefore, Preparing
  <2>4. (\A s \in Requests : FileKnown(s)') /\ file'[r] = rec
    BY <1>8, <2>1, <2>2, <2>3
  <2>5. KnownDuring(e, r)'
    BY <1>7, <2>1, <2>2, <2>3, <2>4 DEF KnownDuring, NoRows, Executing, Writing
  <2>6. KnownUnasked(e, r)'
    <3>1. file'[r].status = "running" /\ completed'[e] = file'[r].completed
      BY <2>1, <2>2, <2>4
    <3> QED BY <1>7, <2>1, <3>1 DEF KnownUnasked, Executing, Writing
  <2>7. KnownBefore(e, r)'
    BY <2>1 DEF KnownBefore, Preparing
  <2> QED BY <1>1, <1>6, <2>4, <2>5, <2>6, <2>7 DEF Known
<1>14. CASE LiveWrite(e)
  <2> DEFINE rec == [copy[e] EXCEPT !.live = TRUE]
  <2>1. /\ pc[e] = "liveWrite" /\ pc'[e] = "rollout" /\ Write(r, rec)
        /\ completed' = completed
    BY <1>0, <1>14 DEF LiveWrite, Goto
  <2>2. rec.status = copy[e].status /\ rec.completed = copy[e].completed
    BY <1>3 DEF Records
  <2>. copy[e].status \in {"running", "cancelled"}
       /\ (r \in landed => copy[e].status = "cancelled")
    BY <1>5, <2>1 DEF Known, KnownDuring, Executing, Writing
  <2>3. (\A s \in Requests : FileKnown(s)') /\ file'[r] = rec
    BY <1>8, <2>1, <2>2
  <2>4. KnownDuring(e, r)'
    BY <1>5, <1>7, <2>1, <2>2, <2>3 DEF Known, KnownDuring, Executing, Writing
  <2>5. KnownUnasked(e, r)'
    BY <1>5, <1>7, <2>1, <2>2, <2>3 DEF Known, KnownUnasked, Executing, Writing, Uncounted
  <2>6. KnownBefore(e, r)'
    BY <2>1 DEF KnownBefore, Preparing
  <2> QED BY <1>1, <1>6, <2>3, <2>4, <2>5, <2>6 DEF Known
<1>15. CASE ProgressWrite(e)
  <2> DEFINE rec == [copy[e] EXCEPT !.completed = completed[e]]
  <2>1. /\ pc[e] = "progressWrite" /\ pc'[e] = "check" /\ Write(r, rec)
        /\ completed' = completed
    BY <1>0, <1>15 DEF ProgressWrite, Goto
  <2>2. rec.status = copy[e].status /\ rec.completed = completed[e]
    BY <1>3 DEF Records
  <2>. copy[e].status \in {"running", "cancelled"}
       /\ (r \in landed => copy[e].status = "cancelled")
    BY <1>5, <2>1 DEF Known, KnownDuring, Executing, Writing
  <2>3. (\A s \in Requests : FileKnown(s)') /\ file'[r] = rec
    BY <1>8, <2>1, <2>2
  <2>4. KnownDuring(e, r)'
    BY <1>5, <1>7, <2>1, <2>2, <2>3 DEF Known, KnownDuring, Executing, Writing
  <2>5. KnownUnasked(e, r)'
    BY <1>5, <1>7, <2>1, <2>2, <2>3 DEF Known, KnownUnasked, Executing, Writing, Uncounted
  <2>6. KnownBefore(e, r)'
    BY <2>1 DEF KnownBefore, Preparing
  <2> QED BY <1>1, <1>6, <2>3, <2>4, <2>5, <2>6 DEF Known
<1>16. CASE FinishWrite(e)
  <2>1. PICK s \in {"done", copy[e].status, "failed"} :
          /\ Write(r, Settled(e, copy[e], s))
          /\ \/ pc[e] = "doneWrite" /\ s = "done"
             \/ pc[e] = "cancelledWrite" /\ s = copy[e].status
             \/ pc[e] = "failWrite" /\ s = "failed"
    BY <1>16 DEF FinishWrite
  <2>2. pc'[e] = "list"
    BY <1>0, <1>16 DEF FinishWrite, Goto
  <2> DEFINE rec == Settled(e, copy[e], s)
  <2>3. rec.status = s /\ rec.completed = completed[e]
    BY <1>3 DEF Settled, Records
  <2>4. \A t \in Requests : FileKnown(t)'
    BY <1>5, <1>8, <2>1, <2>3 DEF Known, KnownDuring, Executing, Writing
  <2>5. Known(e)'
    BY <2>2 DEF Known, KnownBefore, KnownDuring, KnownUnasked, Preparing, Executing, Writing
  <2> QED BY <1>6, <2>4, <2>5
<1> QED BY <1>10, <1>11, <1>12, <1>13, <1>14, <1>15, <1>16

LEMMA WatcherRollout ==
  ASSUME TypeInv, WatcherInv, NEW e \in Executors, Rollout(e)
  PROVE  WatcherInv'
<1> DEFINE r == cur[e]
<1>1. /\ pc \in [Executors -> Labels]
      /\ completed \in [Executors -> 0..Total]
      /\ rows \in [Requests -> [Executors -> Nat]]
      /\ file \in [Requests -> Records]
      /\ Total \in Nat
  BY RunQueueAssumption DEF TypeInv, TypeOK
<1>2. /\ pc[e] = "rollout" /\ r \in Requests
      /\ UNCHANGED <<created, file, cancelVars, cur, copy, todo>>
      /\ pc' = [pc EXCEPT ![e] = "progressRead"]
      /\ completed' = [completed EXCEPT ![e] = @ + 1]
      /\ rows' = [rows EXCEPT ![r][e] = @ + 1]
  BY DEF Rollout, Goto, TypeInv, TypeOK
<1>3. /\ pc'[e] = "progressRead" /\ completed'[e] = completed[e] + 1
      /\ rows'[r][e] = rows[r][e] + 1
      /\ \A f \in Executors \ {e} : rows'[r][f] = rows[r][f]
      /\ \A s \in Requests \ {r} : rows'[s] = rows[s]
  BY <1>1, <1>2
<1>4. Alive(e) /\ Created(r)
  BY <1>2 DEF Alive, WatcherInv, Names, AtRequest, Executing
<1>5. Known(e) /\ \A s \in Requests : FileKnown(s)
  BY DEF WatcherInv
<1>6. /\ rows[r][e] = completed[e] /\ \A f \in Executors \ {e} : rows[r][f] = 0
      /\ file[r].status \in {"running", "cancelled"}
  BY <1>2, <1>5 DEF Known, KnownDuring, Executing
<1>7. /\ UNCHANGED <<created, landed, ccur>>
      /\ \A s \in Requests : Asked(s)' <=> Asked(s)
  BY <1>2 DEF cancelVars, Asked
<1>8. \A s \in Requests : FileKnown(s)'
  <2> SUFFICES ASSUME NEW s \in Requests PROVE FileKnown(s)'
    OBVIOUS
  <2>1. CASE s = r
    <3>1. \A f, g \in Executors : rows'[r][f] > 0 /\ rows'[r][g] > 0 => f = g
      BY <1>3, <1>6
    <3> QED BY <1>2, <1>5, <1>6, <1>7, <2>1, <3>1 DEF FileKnown, Created
  <2>2. CASE s # r
    BY <1>2, <1>3, <1>5, <1>7, <2>2 DEF FileKnown, Created, NoRows
  <2> QED BY <2>1, <2>2
<1>9. Known(e)'
  <2>1. completed[e] \in Nat
    BY <1>1
  <2> QED
    BY <1>2, <1>3, <1>5, <1>6, <1>7, <2>1
    DEF Known, KnownBefore, KnownDuring, KnownUnasked, Preparing, Executing, Writing, Uncounted
<1>10. \A f \in Executors \ {e} : UNCHANGED <<pc[f], todo[f]>>
  BY <1>1, <1>2
<1>11. \A s \in todo'[e] : Created(s)
  BY <1>2 DEF WatcherInv, Names
<1> QED BY <1>2, <1>4, <1>8, <1>9, <1>10, <1>11, WatcherMoves DEF Created

LEMMA WatcherOthers ==
  ASSUME TypeInv, WatcherInv, SingleWatcher,
         \/ Create
         \/ \E c \in Cancellers, r \in Requests : CancelRead(c, r)
         \/ \E c \in Cancellers : CancelWrite(c)
         \/ \E e \in Executors : Launch(e)
  PROVE  WatcherInv'
<1>0. /\ pc \in [Executors -> Labels]
      /\ file \in [Requests -> Records]
      /\ ccopy \in [Cancellers -> Records]
      /\ ccur \in [Cancellers -> Requests \cup {0}]
      /\ cpc \in [Cancellers -> {"idle", "write", "over"}]
      /\ created \in Nat
  BY RunQueueAssumption DEF TypeInv, TypeOK
<1>1. CASE Create
  <2> DEFINE new == created + 1
  <2>1. /\ UNCHANGED <<rows, execVars, cancelVars>>
        /\ created' = new /\ file' = [file EXCEPT ![new] = Fresh]
        /\ new \in Requests /\ ~Created(new)
    BY <1>0, <1>1, RunQueueAssumption DEF Create, Write, Requests, Created
  <2>2. \A r \in Requests : file'[r] = file[r]
    <3>1. file[new] = Fresh
      BY <2>1 DEF WatcherInv, FileKnown
    <3> QED BY <1>0, <2>1, <3>1
  <2>3. \A r \in Requests \cup {0} : Created(r) => Created(r)'
    BY <1>0, <2>1, RunQueueAssumption DEF Created, Requests
  <2>4. Alone'
    BY <2>1 DEF WatcherInv, Alone, Alive, execVars
  <2>5. Names'
    <3>1. \A e \in Executors : pc[e] \in AtRequest => cur[e] \in Requests \cup {0}
      BY DEF TypeInv, TypeOK
    <3>2. \A e \in Executors : todo[e] \subseteq Requests
      BY DEF TypeInv, TypeOK
    <3> QED BY <1>0, <2>1, <2>3, <3>1, <3>2 DEF WatcherInv, Names, execVars, cancelVars
  <2>6. \A r \in Requests : FileKnown(r)'
    BY <2>1, <2>2, <2>3 DEF WatcherInv, FileKnown, NoRows, Asked, cancelVars
  <2>7. ASSUME NEW e \in Executors PROVE Known(e)'
    <3>1. CASE cur[e] \in Requests
      BY <2>1, <2>2, <3>1
      DEF WatcherInv, Known, KnownBefore, KnownDuring, KnownUnasked, NoRows, Asked,
          execVars, cancelVars
    <3>2. CASE cur[e] \notin Requests
      <4>1. pc[e] \in {"off", "idle", "list", "killed"}
        BY <3>2 DEF TypeInv, TypeOK
      <4> QED
        BY <2>1, <4>1 DEF Known, KnownBefore, KnownDuring, KnownUnasked, Preparing,
           Executing, Writing, execVars
    <3> QED BY <3>1, <3>2
  <2> QED BY <2>4, <2>5, <2>6, <2>7 DEF WatcherInv
<1>2. ASSUME NEW c \in Cancellers, NEW r \in Requests, CancelRead(c, r)
      PROVE  WatcherInv'
  <2>1. /\ UNCHANGED <<created, file, rows, landed, execVars>>
        /\ ccur' = [ccur EXCEPT ![c] = r] /\ cpc' = [cpc EXCEPT ![c] = "write"]
        /\ Created(r) /\ ccur[c] = 0
    BY <1>2 DEF CancelRead, queueVars, WatcherInv, Names
  <2>2. \A s \in Requests : Asked(s) => Asked(s)'
    BY <1>0, <2>1, ZeroNotRequest DEF Asked
  <2>3. Alone' /\ Names'
    BY <1>0, <2>1 DEF WatcherInv, Alone, Alive, Names, Created, execVars
  <2>4. \A s \in Requests : FileKnown(s)'
    BY <2>1, <2>2 DEF WatcherInv, FileKnown, NoRows, Created
  <2>5. ASSUME NEW e \in Executors PROVE Known(e)'
    <3>1. Asked(cur[e]) /\ cur[e] # 0 => Asked(cur[e])'
      <4>1. cur' = cur /\ \A d \in Cancellers : ccur'[d] = ccur[d] \/ ccur[d] = 0
        BY <1>0, <2>1 DEF execVars
      <4> QED BY <4>1 DEF Asked
    <3>2. pc[e] \in Writing \cup Executing => cur[e] # 0
      BY DEF TypeInv, TypeOK, Writing, Executing
    <3>3. Known(e) /\ UNCHANGED <<file, rows, landed, pc, cur, copy, completed>>
      BY <2>1 DEF WatcherInv, execVars
    <3>4. KnownDuring(e, cur[e])'
      BY <3>3 DEF Known, KnownDuring
    <3>5. KnownUnasked(e, cur[e])'
      BY <3>1, <3>2, <3>3 DEF Known, KnownUnasked
    <3>6. KnownBefore(e, cur[e])'
      <4>1. pc[e] \in Preparing => cur[e] # 0
        BY DEF TypeInv, TypeOK, Preparing
      <4> QED BY <3>1, <3>3, <4>1 DEF Known, KnownBefore, NoRows
    <3> QED BY <3>4, <3>5, <3>6 DEF Known
  <2> QED BY <2>3, <2>4, <2>5 DEF WatcherInv
<1>3. ASSUME NEW c \in Cancellers, CancelWrite(c)
      PROVE  WatcherInv'
  <2> DEFINE r == ccur[c]
  <2> DEFINE rec == [ccopy[c] EXCEPT !.status = "cancelled"]
  <2>1. /\ UNCHANGED <<created, rows, execVars, ccur>>
        /\ file' = [file EXCEPT ![r] = rec] /\ cpc[c] = "write"
        /\ cpc' = [cpc EXCEPT ![c] = "over"]
        /\ landed' = landed \/ /\ landed' = landed \cup {r}
                               /\ \A e \in Executors : cur[e] = r => pc[e] \notin LosesFlip
    BY <1>3 DEF CancelWrite, Write
  <2>2. r \in Requests /\ rec.status = "cancelled" /\ Asked(r)
    BY <1>0, <2>1 DEF Asked, TypeInv, TypeOK, Records
  <2>3. file'[r] = rec /\ \A s \in Requests \ {r} : file'[s] = file[s]
    BY <1>0, <2>1, <2>2
  <2>4. \A s \in Requests : (Asked(s)' <=> Asked(s)) /\ (s # r => (s \in landed' <=> s \in landed))
    BY <2>1 DEF Asked
  <2>5. Alone' /\ Names'
    BY <1>0, <2>1 DEF WatcherInv, Alone, Alive, Names, Created, execVars
  <2>6. Created(r)
    BY <2>1 DEF WatcherInv, Names
  <2>7. \A s \in Requests : FileKnown(s)'
    <3> SUFFICES ASSUME NEW s \in Requests PROVE FileKnown(s)'
      OBVIOUS
    <3>1. FileKnown(s)
      BY DEF WatcherInv
    <3> QED BY <2>1, <2>2, <2>3, <2>4, <2>6, <3>1 DEF FileKnown, NoRows, Created
  <2>8. ASSUME NEW e \in Executors PROVE Known(e)'
    <3>1. Known(e) /\ UNCHANGED <<rows, pc, cur, copy, completed>>
      BY <2>1 DEF WatcherInv, execVars
    <3>2. pc[e] \in Writing \cup Executing \cup Preparing => cur[e] \in Requests
      BY DEF TypeInv, TypeOK, Writing, Executing, Preparing
    <3>3. CASE cur[e] = r
      <4>1. cur[e] \in landed' => cur[e] \in landed \/ pc[e] \notin LosesFlip
        BY <2>1, <3>3
      <4>2. KnownBefore(e, cur[e])'
        BY <2>2, <2>3, <2>4, <3>1, <3>3, <4>1
        DEF Known, KnownBefore, NoRows, Preparing, LosesFlip, Writing
      <4>3. KnownDuring(e, cur[e])'
        BY <2>2, <2>3, <3>1, <3>3, <4>1
        DEF Known, KnownDuring, Executing, LosesFlip, Writing
      <4>4. KnownUnasked(e, cur[e])'
        BY <2>2, <2>4, <3>1, <3>3 DEF KnownUnasked
      <4> QED BY <4>2, <4>3, <4>4 DEF Known
    <3>4. CASE cur[e] # r /\ cur[e] \in Requests
      BY <2>3, <2>4, <3>1, <3>4
      DEF Known, KnownBefore, KnownDuring, KnownUnasked, NoRows
    <3>5. CASE pc[e] \notin Writing \cup Executing \cup Preparing
      BY <3>1, <3>5 DEF Known, KnownBefore, KnownDuring, KnownUnasked
    <3> QED BY <3>2, <3>3, <3>4, <3>5
  <2> QED BY <2>5, <2>7, <2>8 DEF WatcherInv
<1>4. ASSUME NEW e \in Executors, Launch(e)
      PROVE  WatcherInv'
  <2>1. /\ UNCHANGED <<created, file, rows, cancelVars, todo, cur, copy, completed>>
        /\ pc' = [pc EXCEPT ![e] = "idle"]
        /\ ~ \E f \in Executors : Alive(f)
    BY <1>4 DEF Launch, Goto, queueVars
  <2>2. \A f \in Executors : pc'[f] \in {"off", "exited", "killed", "idle"}
    BY <1>0, <2>1 DEF Alive
  <2>3. \A f \in Executors : Alive(f)' => f = e
    BY <1>0, <2>1 DEF Alive
  <2>4. Alone' /\ Names'
    BY <2>1, <2>2, <2>3
    DEF WatcherInv, Alone, Names, AtRequest, Preparing, Executing, Created, cancelVars
  <2>5. \A f \in Executors : Known(f)'
    BY <2>2 DEF Known, KnownBefore, KnownDuring, KnownUnasked, Preparing, Executing, Writing
  <2>6. \A r \in Requests : FileKnown(r)'
    BY <2>1, FilesKept
  <2> QED BY <2>4, <2>5, <2>6 DEF WatcherInv
<1> QED BY <1>1, <1>2, <1>3, <1>4

LEMMA WatcherStutters ==
  ASSUME WatcherInv, UNCHANGED vars
  PROVE  WatcherInv'
<1>1. UNCHANGED <<created, file, rows, cancelVars, execVars>>
  BY DEF vars, queueVars
<1>2. \A r \in Requests : FileKnown(r)'
  BY <1>1, FilesKept
<1>3. Alone' /\ Names'
  BY <1>1 DEF WatcherInv, Alone, Alive, Names, Created, execVars, cancelVars
<1>4. \A e \in Executors : Known(e)'
  BY <1>1 DEF WatcherInv, Known, KnownBefore, KnownDuring, KnownUnasked, NoRows, Asked,
     execVars, cancelVars
<1> QED BY <1>2, <1>3, <1>4 DEF WatcherInv

LEMMA WatcherStep ==
  ASSUME SingleWatcher
  PROVE  TypeInv /\ WatcherInv /\ [Next]_vars => WatcherInv'
BY WatcherReads, WatcherWrites, WatcherRollout, WatcherOthers, WatcherStutters
DEF Next, Step

LEMMA WatcherInvariant == SingleWatcher => (Spec => [](TypeInv /\ WatcherInv))
<1> SUFFICES ASSUME SingleWatcher PROVE Spec => [](TypeInv /\ WatcherInv)
  OBVIOUS
<1>1. Init => TypeInv /\ WatcherInv
  BY TypeInit, WatcherInit
<1>2. TypeInv /\ WatcherInv /\ [Next]_vars => (TypeInv /\ WatcherInv)'
  BY TypeStep, WatcherStep
<1> QED BY <1>1, <1>2, PTL DEF Spec

(* With one watcher at a time, a run reported done has a row for every work   *)
(* item, and an executor leaves the loop early only for a cancellation that *)
(* its second look at the file finds as well.                               *)
THEOREM LooksAgree == SingleWatcher => (Spec => []ReadsAgree)
<1> SUFFICES ASSUME SingleWatcher PROVE Spec => []ReadsAgree
  OBVIOUS
<1>1. TypeInv /\ WatcherInv => ReadsAgree
  <2> SUFFICES ASSUME TypeInv, WatcherInv PROVE ReadsAgree
    OBVIOUS
  <2>1. DoneMeansComplete
    BY DEF WatcherInv, FileKnown, DoneMeansComplete
  <2>2. StopsOnlyForCancel
    BY DEF WatcherInv, Known, KnownDuring, Executing, StopsOnlyForCancel
  <2> QED BY <2>1, <2>2 DEF ReadsAgree
<1> QED BY WatcherInvariant, <1>1, PTL

(* With one watcher at a time, a cancellation that no write was bound to      *)
(* overtake is never undone.                                                *)
THEOREM FlipsStay == SingleWatcher => (Spec => []FlipHonoured)
<1> SUFFICES ASSUME SingleWatcher PROVE Spec => []FlipHonoured
  OBVIOUS
<1>1. TypeInv /\ WatcherInv => FlipHonoured
  BY DEF TypeInv, TypeOK, WatcherInv, FileKnown, FlipHonoured
<1> QED BY WatcherInvariant, <1>1, PTL

(* With one watcher at a time, no request gets rows from two processes,       *)
(* whoever was killed at whichever place.                                   *)
THEOREM RunOnce == SingleWatcher => (Spec => []NotRunTwice)
<1> SUFFICES ASSUME SingleWatcher PROVE Spec => []NotRunTwice
  OBVIOUS
<1>1. TypeInv /\ WatcherInv => NotRunTwice
  BY DEF WatcherInv, FileKnown, NotRunTwice
<1> QED BY WatcherInvariant, <1>1, PTL

-----------------------------------------------------------------------------
(* The files implement RunLifecycle. *)

PhaseOf == [r \in Requests |-> Phase(r)]
ShownOf == [r \in Requests |-> Shown(r)]

(* Every step of the queue changes what one request shows, in one of the ways *)
(* that RunLifecycle allows, or nothing.                                    *)
Moves(s) ==
  \/ Phase(s) = "absent" /\ Phase(s)' = "queued" /\ Shown(s)' = Shown(s)
  \/ Phase(s) = "queued" /\ Phase(s)' = "running" /\ Shown(s)' = Shown(s)
  \/ /\ Phase(s) = "running" /\ Phase(s)' = "running"
     /\ Shown(s) < Total /\ Shown(s)' = Shown(s) + 1
  \/ /\ Phase(s) = "running" /\ Phase(s)' = "done"
     /\ Shown(s) = Total /\ Shown(s)' = Shown(s)
  \/ /\ Phase(s) \in {"queued", "running"} /\ Phase(s)' = "failed"
     /\ \/ Shown(s)' = Shown(s)
        \/ Shown(s) < Total /\ Shown(s)' = Shown(s) + 1
  \/ Phase(s) \in {"queued", "running"} /\ Phase(s)' = "withdrawn" /\ Shown(s)' = 0
  \/ Phase(s)' = Phase(s) /\ Shown(s)' = Shown(s)

LEMMA MovesAllowed ==
  ASSUME NEW s \in Requests, Moves(s),
         \A r \in Requests \ {s} : Phase(r)' = Phase(r) /\ Shown(r)' = Shown(r)
  PROVE  [Lifecycle!Next]_(Lifecycle!vars)
<1>1. /\ PhaseOf' = [PhaseOf EXCEPT ![s] = Phase(s)']
      /\ ShownOf' = [ShownOf EXCEPT ![s] = Shown(s)']
      /\ PhaseOf[s] = Phase(s) /\ ShownOf[s] = Shown(s)
  BY DEF PhaseOf, ShownOf
<1>2. CASE Phase(s)' = Phase(s) /\ Shown(s)' = Shown(s)
  <2>1. PhaseOf' = PhaseOf /\ ShownOf' = ShownOf
    BY <1>2 DEF PhaseOf, ShownOf
  <2> QED BY <2>1 DEF Lifecycle!vars, PhaseOf, ShownOf
<1>3. Shown(s)' = Shown(s) => ShownOf' = ShownOf
  BY DEF ShownOf
<1>4. Phase(s)' = Phase(s) => PhaseOf' = PhaseOf
  BY DEF PhaseOf
<1>5. CASE Phase(s) = "absent" /\ Phase(s)' = "queued" /\ Shown(s)' = Shown(s)
  <2>1. Lifecycle!Queue(s)
    BY <1>1, <1>3, <1>5 DEF Lifecycle!Queue, Lifecycle!Become, PhaseOf, ShownOf
  <2> QED BY <2>1 DEF Lifecycle!Next
<1>6. CASE Phase(s) = "queued" /\ Phase(s)' = "running" /\ Shown(s)' = Shown(s)
  <2>1. Lifecycle!Start(s)
    BY <1>1, <1>3, <1>6 DEF Lifecycle!Start, Lifecycle!Become, PhaseOf, ShownOf
  <2> QED BY <2>1 DEF Lifecycle!Next
<1>7. CASE /\ Phase(s) = "running" /\ Phase(s)' = "running"
           /\ Shown(s) < Total /\ Shown(s)' = Shown(s) + 1
  <2>1. Lifecycle!Advance(s)
    BY <1>1, <1>4, <1>7 DEF Lifecycle!Advance, PhaseOf, ShownOf
  <2> QED BY <2>1 DEF Lifecycle!Next
<1>8. CASE /\ Phase(s) = "running" /\ Phase(s)' = "done"
           /\ Shown(s) = Total /\ Shown(s)' = Shown(s)
  <2>1. Lifecycle!Finish(s)
    BY <1>1, <1>3, <1>8 DEF Lifecycle!Finish, Lifecycle!Become, PhaseOf, ShownOf
  <2> QED BY <2>1 DEF Lifecycle!Next
<1>9. CASE /\ Phase(s) \in {"queued", "running"} /\ Phase(s)' = "failed"
           /\ \/ Shown(s)' = Shown(s)
              \/ Shown(s) < Total /\ Shown(s)' = Shown(s) + 1
  <2>1. Lifecycle!Fail(s)
    BY <1>1, <1>3, <1>9 DEF Lifecycle!Fail, Lifecycle!Become, PhaseOf, ShownOf
  <2> QED BY <2>1 DEF Lifecycle!Next
<1>10. CASE Phase(s) \in {"queued", "running"} /\ Phase(s)' = "withdrawn" /\ Shown(s)' = 0
  <2>1. Lifecycle!Withdraw(s)
    BY <1>1, <1>10 DEF Lifecycle!Withdraw, Lifecycle!Become, PhaseOf, ShownOf
  <2> QED BY <2>1 DEF Lifecycle!Next
<1> QED BY <1>2, <1>5, <1>6, <1>7, <1>8, <1>9, <1>10 DEF Moves

LEMMA NothingMoves ==
  ASSUME UNCHANGED <<created, file, ccur>>
  PROVE  UNCHANGED Lifecycle!vars
BY DEF Lifecycle!vars, Phase, Shown, Asked, Created

(* A write of a file is seen at that request only. *)
LEMMA WriteMoves ==
  ASSUME NEW s \in Requests, UNCHANGED <<created, ccur>>, Moves(s),
         \A r \in Requests \ {s} : file'[r] = file[r]
  PROVE  [Lifecycle!Next]_(Lifecycle!vars)
<1>1. \A r \in Requests \ {s} : Phase(r)' = Phase(r) /\ Shown(r)' = Shown(r)
  BY DEF Phase, Shown, Asked, Created
<1> QED BY <1>1, MovesAllowed

(* What an executor writes over a request that nobody has asked to cancel. *)
LEMMA ExecutorMoves ==
  ASSUME TypeInv, WatcherInv, NEW e \in Executors,
         NoteWrite(e) \/ ClaimWrite(e) \/ FailEmpty(e) \/ StartWrite(e)
           \/ LiveWrite(e) \/ ProgressWrite(e) \/ FinishWrite(e)
  PROVE  [Lifecycle!Next]_(Lifecycle!vars)
<1>1. /\ file \in [Requests -> Records] /\ completed \in [Executors -> 0..Total]
      /\ copy \in [Executors -> Records] /\ Total \in Nat
  BY RunQueueAssumption DEF TypeInv, TypeOK
<1>2. UNCHANGED <<created, cancelVars>> /\ pc[e] \in Writing
  BY DEF NoteWrite, ClaimWrite, FailEmpty, StartWrite, LiveWrite, ProgressWrite,
     FinishWrite, Writing
<1>a. cur[e] \in Requests
  BY <1>2 DEF Writing, TypeInv, TypeOK
<1>b. PICK r \in Requests : r = cur[e]
  BY <1>a
<1>3. /\ r \in Requests /\ Created(r) /\ copy[e] \in Records /\ file[r] \in Records
      /\ file[r].completed \in 0..Total /\ completed[e] \in 0..Total /\ cur[e] = r
  BY <1>1, <1>2, <1>b DEF Writing, WatcherInv, Names, AtRequest, Preparing, Executing, Records
<1>4. PICK rec : Write(r, rec)
  BY <1>b DEF NoteWrite, ClaimWrite, FailEmpty, StartWrite, LiveWrite, ProgressWrite, FinishWrite
<1>5. file'[r] = rec /\ \A s \in Requests \ {r} : file'[s] = file[s]
  BY <1>1, <1>3, <1>4 DEF Write
<1>6. UNCHANGED <<created, ccur>>
  BY <1>2 DEF cancelVars
<1>7. SUFFICES Moves(r)
  BY <1>3, <1>5, <1>6, WriteMoves
<1>8. CASE Asked(r)
  <2>0. Asked(r)' /\ Created(r)'
    BY <1>3, <1>6, <1>8 DEF Asked, Created
  <2>1. Phase(r) = "withdrawn" /\ Phase(r)' = "withdrawn" /\ Shown(r) = 0 /\ Shown(r)' = 0
    BY <1>3, <1>8, <2>0 DEF Phase, Shown
  <2> QED BY <2>1 DEF Moves
<1>9. CASE ~Asked(r)
  <2>1. /\ Phase(r) = file[r].status /\ Shown(r) = file[r].completed
        /\ Phase(r)' = file'[r].status /\ Shown(r)' = file'[r].completed
    <3>1. ~Asked(r)' /\ Created(r)'
      BY <1>3, <1>6, <1>9 DEF Asked, Created
    <3> QED BY <1>3, <1>9, <3>1 DEF Phase, Shown
  <2>2. copy[e] = file[r] /\ Known(e) /\ FileKnown(r)
    BY <1>2, <1>3, <1>9 DEF WatcherInv, Known, KnownUnasked
  <2>3. CASE NoteWrite(e)
    <3>1. file'[r] = [file[r] EXCEPT !.note = e]
      BY <1>1, <1>3, <2>2, <2>3 DEF NoteWrite, Write
    <3>2. file'[r].status = file[r].status /\ file'[r].completed = file[r].completed
      BY <1>3, <3>1 DEF Records
    <3> QED BY <2>1, <3>2 DEF Moves
  <2>4. CASE ClaimWrite(e)
    <3>1. PICK n \in Nonces : file'[r] = [file[r] EXCEPT !.claim = [pid |-> e, nonce |-> n]]
      BY <1>1, <1>3, <2>2, <2>4 DEF ClaimWrite, Write
    <3>2. file'[r].status = file[r].status /\ file'[r].completed = file[r].completed
      BY <1>3, <3>1 DEF Records
    <3> QED BY <2>1, <3>2 DEF Moves
  <2>5. CASE FailEmpty(e)
    <3>1. file'[r] = [file[r] EXCEPT !.status = "failed"] /\ pc[e] = "start"
      BY <1>1, <1>3, <2>2, <2>5 DEF FailEmpty, Write
    <3>2. file'[r].status = "failed" /\ file'[r].completed = file[r].completed
      BY <1>3, <3>1 DEF Records
    <3>3. file[r].status = "queued"
      BY <1>3, <1>9, <2>2, <3>1 DEF Known, KnownBefore, Preparing
    <3> QED BY <2>1, <3>2, <3>3 DEF Moves
  <2>6. CASE StartWrite(e)
    <3>1. /\ file'[r] = [file[r] EXCEPT !.status = "running", !.completed = 0]
          /\ pc[e] = "start"
      BY <1>1, <1>3, <2>2, <2>6 DEF StartWrite, Write
    <3>2. file'[r].status = "running" /\ file'[r].completed = 0
      BY <1>3, <3>1 DEF Records
    <3>3. file[r].status = "queued"
      BY <1>3, <1>9, <2>2, <3>1 DEF Known, KnownBefore, Preparing
    <3>4. file[r].completed = 0
      BY <1>9, <2>2, <3>3 DEF FileKnown
    <3> QED BY <2>1, <3>2, <3>3, <3>4 DEF Moves
  <2>7. CASE LiveWrite(e)
    <3>1. file'[r] = [file[r] EXCEPT !.live = TRUE]
      BY <1>1, <1>3, <2>2, <2>7 DEF LiveWrite, Write
    <3>2. file'[r].status = file[r].status /\ file'[r].completed = file[r].completed
      BY <1>3, <3>1 DEF Records
    <3> QED BY <2>1, <3>2 DEF Moves
  <2>8. CASE ProgressWrite(e)
    <3>1. /\ file'[r] = [file[r] EXCEPT !.completed = completed[e]]
          /\ pc[e] = "progressWrite"
      BY <1>1, <1>3, <2>2, <2>8 DEF ProgressWrite, Write
    <3>2. file'[r].status = file[r].status /\ file'[r].completed = completed[e]
      BY <1>3, <3>1 DEF Records
    <3>3. /\ file[r].status = "running"
          /\ completed[e] \in {file[r].completed, file[r].completed + 1}
      BY <1>3, <1>9, <2>2, <3>1 DEF Known, KnownUnasked, Executing
    <3> QED BY <1>1, <1>3, <2>1, <3>2, <3>3 DEF Moves
  <2>9. CASE FinishWrite(e)
    <3>1. PICK s \in {"done", copy[e].status, "failed"} :
            /\ Write(r, Settled(e, copy[e], s))
            /\ \/ pc[e] = "doneWrite" /\ s = "done"
               \/ pc[e] = "cancelledWrite" /\ s = copy[e].status
               \/ pc[e] = "failWrite" /\ s = "failed"
      BY <1>3, <2>9 DEF FinishWrite
    <3>2. file'[r] = Settled(e, copy[e], s)
      BY <1>1, <1>3, <3>1 DEF Write
    <3>3. file'[r].status = s /\ file'[r].completed = completed[e]
      BY <1>3, <3>2 DEF Settled, Records
    <3>4. /\ file[r].status = "running"
          /\ completed[e] \in {file[r].completed, file[r].completed + 1}
          /\ pc[e] \notin Uncounted => file[r].completed = completed[e]
      BY <1>3, <1>9, <2>2, <3>1 DEF Known, KnownUnasked, Executing
    <3>5. CASE pc[e] = "doneWrite"
      <4>1. completed[e] = Total
        BY <1>3, <2>2, <3>5 DEF Known, KnownDuring, Executing
      <4> QED BY <1>3, <2>1, <3>1, <3>3, <3>4, <3>5, <4>1 DEF Moves, Uncounted
    <3>6. CASE pc[e] = "failWrite"
      BY <1>1, <1>3, <2>1, <3>1, <3>3, <3>4, <3>6 DEF Moves
    <3>7. pc[e] # "cancelledWrite"
      BY <1>3, <2>2, <3>4 DEF Known, KnownDuring, Executing
    <3> QED BY <3>1, <3>5, <3>6, <3>7
  <2> QED BY <2>3, <2>4, <2>5, <2>6, <2>7, <2>8, <2>9
<1> QED BY <1>8, <1>9

LEMMA LifecycleStep ==
  ASSUME TypeInv, WatcherInv, [Next]_vars
  PROVE  [Lifecycle!Next]_(Lifecycle!vars)
<1>0. /\ file \in [Requests -> Records] /\ created \in Nat
      /\ ccur \in [Cancellers -> Requests \cup {0}]
  BY RunQueueAssumption DEF TypeInv, TypeOK
<1>1. CASE Create
  <2>a. created + 1 \in Requests
    BY <1>0, <1>1, RunQueueAssumption DEF Create, Requests
  <2>b. PICK new \in Requests : new = created + 1
    BY <2>a
  <2>1. /\ created' = new /\ file' = [file EXCEPT ![new] = Fresh] /\ ccur' = ccur
        /\ new \in Requests /\ ~Created(new) /\ ~Asked(new)
    <3>1. /\ created' = new /\ file' = [file EXCEPT ![new] = Fresh] /\ ccur' = ccur
          /\ new \in Requests /\ ~Created(new)
      BY <1>0, <1>1, <2>b DEF Create, Write, Created, cancelVars
    <3>2. ~Asked(new)
      BY <3>1, ZeroNotRequest DEF WatcherInv, Names, Asked
    <3> QED BY <3>1, <3>2
  <2>2. /\ file[new] = Fresh /\ Fresh.status = "queued"
    BY <2>1 DEF WatcherInv, FileKnown, Fresh
  <2>3. \A r \in Requests : file'[r] = file[r]
    BY <1>0, <2>1, <2>2
  <2>4. \A r \in Requests \ {new} : Created(r)' <=> Created(r)
    BY <1>0, <2>1, <2>b, RunQueueAssumption DEF Created, Requests
  <2>5. \A r \in Requests \ {new} : Phase(r)' = Phase(r) /\ Shown(r)' = Shown(r)
    BY <2>1, <2>3, <2>4 DEF Phase, Shown, Asked
  <2>6. Created(new)'
    BY <1>0, <2>1, <2>b, RunQueueAssumption DEF Created, Requests
  <2>7. Asked(new)' <=> Asked(new)
    BY <2>1 DEF Asked
  <2>8. /\ Phase(new) = "absent" /\ Phase(new)' = "queued"
        /\ Shown(new)' = Shown(new)
    BY <2>1, <2>2, <2>3, <2>6, <2>7 DEF Phase, Shown
  <2> QED BY <2>1, <2>5, <2>8, MovesAllowed DEF Moves
<1>2. ASSUME NEW c \in Cancellers, NEW s \in Requests, CancelRead(c, s)
      PROVE  [Lifecycle!Next]_(Lifecycle!vars)
  <2>1. /\ UNCHANGED <<created, file>> /\ ccur' = [ccur EXCEPT ![c] = s]
        /\ Created(s) /\ file[s].status \in {"queued", "running"} /\ ccur[c] = 0
    BY <1>2 DEF CancelRead, queueVars, WatcherInv, Names
  <2>2. /\ Asked(s)'
        /\ \A r \in Requests \ {s} : Asked(r)' <=> Asked(r)
    BY <1>0, <2>1, ZeroNotRequest DEF Asked
  <2>3. \A r \in Requests \ {s} : Phase(r)' = Phase(r) /\ Shown(r)' = Shown(r)
    BY <2>1, <2>2 DEF Phase, Shown, Created
  <2>4. Moves(s)
    BY <2>1, <2>2 DEF Moves, Phase, Shown, Created
  <2> QED BY <2>3, <2>4, MovesAllowed
<1>3. ASSUME NEW c \in Cancellers, CancelWrite(c)
      PROVE  [Lifecycle!Next]_(Lifecycle!vars)
  <2> DEFINE s == ccur[c]
  <2>1. /\ UNCHANGED <<created, ccur>> /\ s \in Requests /\ Created(s) /\ Asked(s)
        /\ \A r \in Requests \ {s} : file'[r] = file[r]
    <3>1. UNCHANGED <<created, ccur>> /\ cpc[c] = "write"
      BY <1>3 DEF CancelWrite
    <3>2. s \in Requests /\ Created(s) /\ Asked(s)
      BY <3>1 DEF TypeInv, TypeOK, WatcherInv, Names, Asked
    <3> QED BY <1>0, <1>3, <3>1, <3>2 DEF CancelWrite, Write
  <2>2. Phase(s) = "withdrawn" /\ Phase(s)' = "withdrawn" /\ Shown(s) = 0 /\ Shown(s)' = 0
    BY <2>1 DEF Phase, Shown, Asked, Created
  <2> QED BY <2>1, <2>2, WriteMoves DEF Moves
<1>4. ASSUME NEW e \in Executors,
             Launch(e) \/ Poll(e) \/ PickNext(e) \/ InitialRead(e) \/ ClaimRead(e)
               \/ ClaimVerify(e) \/ Check(e) \/ Reread(e) \/ FinalCheck(e)
               \/ PrepareThrows(e) \/ Fault(e) \/ Kill(e) \/ Rollout(e)
      PROVE  [Lifecycle!Next]_(Lifecycle!vars)
  <2>1. UNCHANGED <<created, file, ccur>>
    BY <1>4 DEF Launch, Poll, PickNext, InitialRead, ClaimRead, ClaimVerify, Check,
       Reread, FinalCheck, PrepareThrows, Fault, Kill, Rollout, queueVars, cancelVars
  <2> QED BY <2>1, NothingMoves
<1>5. CASE UNCHANGED vars
  BY <1>5, NothingMoves DEF vars, queueVars, cancelVars
<1> QED BY <1>1, <1>2, <1>3, <1>4, <1>5, ExecutorMoves DEF Next, Step

(* With one watcher at a time, the files of the requests that nobody has asked *)
(* to cancel follow the state machine that executeRunRequest's comment       *)
(* states, through kills, restarts and old builds.                          *)
THEOREM QueueImplements == SingleWatcher => (Spec => Implements)
<1> SUFFICES ASSUME SingleWatcher PROVE Spec => Implements
  OBVIOUS
<1>1. Init => Lifecycle!Init
  BY ZeroNotRequest DEF Init, Lifecycle!Init, Phase, Shown, Asked, Created, Requests, Fresh
<1>2. TypeInv /\ WatcherInv /\ [Next]_vars => [Lifecycle!Next]_(Lifecycle!vars)
  BY LifecycleStep
<1> QED BY WatcherInvariant, <1>1, <1>2, PTL DEF Spec, Implements, Lifecycle!Spec
=============================================================================
