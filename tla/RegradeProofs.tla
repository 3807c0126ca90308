--------------------------- MODULE RegradeProofs ---------------------------
(***************************************************************************)
(* What Regrade promises for any runs, tasks, regrades, edits and clock.     *)
(***************************************************************************)
EXTENDS Regrade, TLAPS

-----------------------------------------------------------------------------
(* Types. *)

LEMMA LatestType ==
  ASSUME TypeOK, NEW t \in Tasks, NEW at \in 0..MaxClock
  PROVE  /\ Latest(t, at) \in 0..MaxClock /\ Latest(t, at) >= at
         /\ bump[t] # None => bump[t] <= Latest(t, at)
BY RegradeAssumption DEF TypeOK, Latest

(* A ledger entry only raises the latest bump of its tasks. *)
LEMMA BumpedFacts ==
  ASSUME TypeOK, NEW T \in SUBSET Tasks, NEW at \in 0..MaxClock, bump' = Bumped(T, at)
  PROVE  /\ bump' \in [Tasks -> 0..MaxClock \cup {None}]
         /\ \A t \in Tasks : bump[t] # None => bump'[t] # None /\ bump[t] <= bump'[t]
         /\ \A t \in T : bump'[t] # None /\ bump'[t] >= at
         /\ \A t \in T : bump'[t] = at \/ bump'[t] = bump[t]
         /\ \A t \in Tasks \ T : bump'[t] = bump[t]
<1>1. \A t \in T : bump'[t] = Latest(t, at) BY DEF Bumped
<1>2. \A t \in Tasks \ T : bump'[t] = bump[t] BY DEF Bumped
<1>3. 0..MaxClock \subseteq Nat /\ None \notin Nat BY RegradeAssumption
<1>4. \A t \in T : Latest(t, at) \in 0..MaxClock /\ Latest(t, at) >= at
  BY LatestType
<1>5. bump' \in [Tasks -> 0..MaxClock \cup {None}]
  BY <1>4 DEF Bumped, TypeOK
<1>6. \A t \in Tasks : bump[t] # None => bump'[t] # None /\ bump[t] <= bump'[t]
  BY <1>1, <1>2, <1>3, <1>4, LatestType DEF TypeOK
<1>7. \A t \in T : Latest(t, at) = at \/ Latest(t, at) = bump[t] BY DEF Latest
<1> QED BY <1>1, <1>2, <1>3, <1>4, <1>5, <1>6, <1>7

LEMMA RescoredType == ASSUME TypeOK, NEW g \in Regraders PROVE Rescored(g) \subseteq Tasks
BY DEF TypeOK, Rescored, Locals, Rows

LEMMA EditFacts ==
  ASSUME TypeOK, NEW t \in Tasks, NEW part \in EditedParts[t], Edit(t, part)
  PROVE  def' \in [Tasks -> Defs]
<1> PICK content \in 0..MaxEdits : def' = [def EXCEPT ![t][part] = content] BY DEF Edit
<1>1. part \in {"env", "verifier", "version"} BY RegradeAssumption
<1>2. def[t] \in Defs BY DEF TypeOK
<1>3. [def[t] EXCEPT ![part] = content] \in Defs
  <2>1. CASE part = "env" BY <1>2, <2>1 DEF Defs
  <2>2. CASE part = "verifier" BY <1>2, <2>2 DEF Defs
  <2>3. CASE part = "version" BY <1>2, <2>3 DEF Defs
  <2> QED BY <1>1, <2>1, <2>2, <2>3
<1>4. def' = [def EXCEPT ![t] = [def[t] EXCEPT ![part] = content]] OBVIOUS
<1> QED BY <1>3, <1>4 DEF TypeOK

(* An invocation that moves on leaves the others alone. *)
LEMMA LocalsChange ==
  ASSUME TypeOK, NEW g \in Regraders, NEW l \in Locals, regrader' = [regrader EXCEPT ![g] = l]
  PROVE  /\ regrader' \in [Regraders -> Locals] /\ regrader'[g] = l
         /\ \A h \in Regraders \ {g} : regrader'[h] = regrader[h]
BY DEF TypeOK

LEMMA InitType == Init => TypeOK
<1>1. 0 \in 0..MaxClock /\ 0 \in 0..MaxEdits /\ None \notin 0..MaxClock BY RegradeAssumption
<1>2. Asleep \in Locals BY <1>1 DEF Asleep, Locals
<1>3. First \in Defs BY <1>1 DEF Defs, First
<1> SUFFICES ASSUME Init PROVE TypeOK OBVIOUS
<1>4. def \in [Tasks -> Defs] /\ noted \in [Tasks -> Defs] BY <1>3 DEF Init
<1>5. bump \in [Tasks -> 0..MaxClock \cup {None}] /\ loaded \in [Runs -> [Tasks -> Defs] \cup {None}]
  BY DEF Init
<1>6. regrader \in [Regraders -> Locals] BY <1>2 DEF Init
<1>7. \A g \in Regraders : regrader[g].written \subseteq rows BY DEF Init, Asleep
<1>8. rows \subseteq Rows
  <2>1. \A x \in Runs, t \in Tasks : OldRow(x, t) \in Rows BY <1>1 DEF OldRow, Rows
  <2>2. \A xt \in Legacy : xt[1] \in Runs /\ xt[2] \in Tasks BY RegradeAssumption
  <2> QED BY <2>1, <2>2 DEF Init
<1> QED BY <1>1, <1>4, <1>5, <1>6, <1>7, <1>8 DEF Init, TypeOK

LEMMA TickType == ASSUME TypeOK, Tick PROVE TypeOK'
BY RegradeAssumption DEF TypeOK, Tick, ledgerVars

LEMMA UpgradeType == ASSUME TypeOK, Upgrade PROVE TypeOK'
<1>1. bump' \in [Tasks -> 0..MaxClock \cup {None}]
  BY BumpedFacts DEF Upgrade, TypeOK
<1> QED BY <1>1 DEF TypeOK, Upgrade

LEMMA EditType ==
  ASSUME TypeOK, NEW t \in Tasks, NEW part \in EditedParts[t], Edit(t, part) PROVE TypeOK'
<1>1. def' \in [Tasks -> Defs] BY EditFacts
<1> QED BY <1>1 DEF TypeOK, Edit

LEMMA LoadType == ASSUME TypeOK, NEW x \in Runs, Load(x) PROVE TypeOK'
BY DEF TypeOK, Load, ledgerVars

LEMMA RolloutType ==
  ASSUME TypeOK, NEW x \in Runs, NEW t \in Tasks, Rollout(x, t) PROVE TypeOK'
<1>1. loaded[x][t] \in Defs BY DEF TypeOK, Rollout
<1>2. rows' \subseteq Rows
  <2>1. loaded[x][t].env \in 0..MaxEdits BY <1>1 DEF Defs
  <2>2. clock # None BY RegradeAssumption DEF TypeOK
  <2> QED BY <1>1, <2>1, <2>2 DEF TypeOK, Rollout, Rows
<1>3. \A g \in Regraders : regrader'[g].written \subseteq rows' BY DEF TypeOK, Rollout
<1> QED BY <1>2, <1>3 DEF TypeOK, Rollout, ledgerVars

(* The local state after Begin, and after ReadAll. *)
Begun(g) == [regrader[g] EXCEPT !.at = "read", !.stamped = clock]
SeenBy(g) == {r \in rows : /\ r.number = 0 /\ r.task \in Wanted[g]
                           /\ Only[g] \in {None, r.run}}
HasRead(g) == [regrader[g] EXCEPT !.at = "judge", !.defs = def, !.seen = SeenBy(g),
                                  !.todo = {r.run : r \in SeenBy(g)}]

LEMMA BegunType ==
  ASSUME TypeOK, NEW g \in Regraders
  PROVE  /\ Begun(g) \in Locals /\ Begun(g).at = "read" /\ Begun(g).stamped = clock
         /\ Begun(g).written = regrader[g].written /\ Begun(g).batch = regrader[g].batch
         /\ Begun(g).defs = regrader[g].defs
BY DEF TypeOK, Locals, Begun

LEMMA HasReadType ==
  ASSUME TypeOK, NEW g \in Regraders
  PROVE  /\ HasRead(g) \in Locals /\ HasRead(g).at = "judge" /\ HasRead(g).seen = SeenBy(g)
         /\ HasRead(g).written = regrader[g].written /\ HasRead(g).batch = regrader[g].batch
         /\ HasRead(g).defs = def /\ HasRead(g).stamped = regrader[g].stamped
<1>1. SeenBy(g) \in SUBSET Rows BY DEF TypeOK, SeenBy
<1>2. {r.run : r \in SeenBy(g)} \in SUBSET Runs BY <1>1 DEF Rows
<1> QED BY <1>1, <1>2 DEF TypeOK, Locals, HasRead

LEMMA BeginType == ASSUME TypeOK, NEW g \in Regraders, Begin(g) PROVE TypeOK'
<1>1. regrader' = [regrader EXCEPT ![g] = Begun(g)] BY DEF Begin, Begun
<1>2. regrader' \in [Regraders -> Locals] BY <1>1, BegunType, LocalsChange
<1>3. \A h \in Regraders : regrader'[h].written = regrader[h].written
  BY <1>1, BegunType, LocalsChange
<1> QED BY <1>2, <1>3 DEF TypeOK, Begin, ledgerVars

LEMMA ReadAllType == ASSUME TypeOK, NEW g \in Regraders, ReadAll(g) PROVE TypeOK'
<1>1. regrader' = [regrader EXCEPT ![g] = HasRead(g)] BY DEF ReadAll, HasRead, SeenBy
<1>2. regrader' \in [Regraders -> Locals] BY <1>1, HasReadType, LocalsChange
<1>3. \A h \in Regraders : regrader'[h].written = regrader[h].written
  BY <1>1, HasReadType, LocalsChange
<1> QED BY <1>2, <1>3 DEF TypeOK, ReadAll, ledgerVars

LEMMA RegradedType ==
  ASSUME TypeOK, NEW g \in Regraders, regrader[g].at \in {"judge", "write"},
         regrader[g].defs \in [Tasks -> Defs], NEW r \in Rows, NEW n \in Numbers
  PROVE  /\ Regraded(g, r, n) \in Rows
         /\ Regraded(g, r, n).run = r.run /\ Regraded(g, r, n).task = r.task
         /\ Regraded(g, r, n).number = n /\ Regraded(g, r, n).at = clock
         /\ Regraded(g, r, n).judged = regrader[g].defs[r.task]
<1>1. n \in Nat BY DEF Numbers
<1>2. clock # None BY RegradeAssumption DEF TypeOK
<1> QED BY <1>1, <1>2 DEF TypeOK, Regraded, Rows, Numbers

(* The local state after Judge. *)
Judged(g, x, n) ==
  [regrader[g] EXCEPT
     !.at = "write", !.todo = @ \ {x},
     !.batch = {Regraded(g, r, n) : r \in {s \in regrader[g].seen :
                                             s.run = x /\ <<x, s.task>> \in Traced}}]

LEMMA JudgedType ==
  ASSUME TypeOK, NEW g \in Regraders, NEW x \in Runs, NEW n \in Numbers,
         regrader[g].at = "judge", regrader[g].defs \in [Tasks -> Defs]
  PROVE  /\ Judged(g, x, n) \in Locals
         /\ Judged(g, x, n).at = "write" /\ Judged(g, x, n).todo = regrader[g].todo \ {x}
         /\ Judged(g, x, n).written = regrader[g].written
         /\ Judged(g, x, n).seen = regrader[g].seen
         /\ Judged(g, x, n).stamped = regrader[g].stamped
         /\ Judged(g, x, n).defs = regrader[g].defs
         /\ Judged(g, x, n).batch =
              {Regraded(g, r, n) : r \in {s \in regrader[g].seen :
                                            s.run = x /\ <<x, s.task>> \in Traced}}
<1> DEFINE old == {s \in regrader[g].seen : s.run = x /\ <<x, s.task>> \in Traced}
           batch == {Regraded(g, r, n) : r \in old}
<1>1. old \subseteq Rows BY DEF TypeOK, Locals
<1>2. batch \subseteq Rows
  <2> SUFFICES ASSUME NEW r \in old PROVE Regraded(g, r, n) \in Rows OBVIOUS
  <2> QED BY <1>1, RegradedType
<1> HIDE DEF old, batch
<1>3. Judged(g, x, n) = [regrader[g] EXCEPT !.at = "write", !.todo = @ \ {x}, !.batch = batch]
  BY DEF Judged, old, batch
<1>4. regrader[g] \in Locals BY DEF TypeOK
<1>5. /\ Judged(g, x, n) \in Locals
      /\ Judged(g, x, n).at = "write" /\ Judged(g, x, n).todo = regrader[g].todo \ {x}
      /\ Judged(g, x, n).written = regrader[g].written
      /\ Judged(g, x, n).seen = regrader[g].seen
      /\ Judged(g, x, n).stamped = regrader[g].stamped
      /\ Judged(g, x, n).defs = regrader[g].defs
      /\ Judged(g, x, n).batch = batch
  <2>1. regrader[g].todo \ {x} \subseteq Runs BY <1>4 DEF Locals
  <2>2. Judged(g, x, n) = [regrader[g] EXCEPT !.at = "write", !.todo = regrader[g].todo \ {x},
                                              !.batch = batch]
    BY <1>3
  <2> QED BY <1>2, <1>4, <2>1, <2>2 DEF Locals
<1> QED BY <1>5 DEF batch, old

LEMMA JudgeType ==
  ASSUME TypeOK, Places, NEW g \in Regraders, NEW x \in Runs, Judge(g, x) PROVE TypeOK'
<1> PICK n \in Numbers : regrader' = [regrader EXCEPT ![g] = Judged(g, x, n)]
  BY DEF Judge, Judged
<1>1. regrader[g].at = "judge" /\ regrader[g].defs \in [Tasks -> Defs] BY DEF Judge, Places
<1>2. regrader' \in [Regraders -> Locals] BY <1>1, JudgedType, LocalsChange
<1>3. \A h \in Regraders : regrader'[h].written = regrader[h].written
  BY <1>1, JudgedType, LocalsChange
<1> QED BY <1>2, <1>3 DEF TypeOK, Judge, ledgerVars

(* The local state after Write. *)
Wrote(g) == [regrader[g] EXCEPT !.at = "judge", !.batch = {},
                                !.written = @ \cup regrader[g].batch]

LEMMA WroteType ==
  ASSUME TypeOK, NEW g \in Regraders
  PROVE  /\ Wrote(g) \in Locals /\ Wrote(g).at = "judge" /\ Wrote(g).batch = {}
         /\ Wrote(g).written = regrader[g].written \cup regrader[g].batch
         /\ Wrote(g).seen = regrader[g].seen /\ Wrote(g).todo = regrader[g].todo
         /\ Wrote(g).stamped = regrader[g].stamped /\ Wrote(g).defs = regrader[g].defs
BY DEF TypeOK, Locals, Wrote

LEMMA WriteType == ASSUME TypeOK, NEW g \in Regraders, Write(g) PROVE TypeOK'
<1>1. regrader' = [regrader EXCEPT ![g] = Wrote(g)] BY DEF Write, Wrote
<1>2. regrader' \in [Regraders -> Locals] BY <1>1, WroteType, LocalsChange
<1>3. \A h \in Regraders : regrader'[h].written \subseteq rows'
  BY <1>1, WroteType, LocalsChange DEF TypeOK, Write
<1>4. rows' \subseteq Rows BY DEF TypeOK, Write, Locals
<1> QED BY <1>2, <1>3, <1>4 DEF TypeOK, Write, ledgerVars

LEMMA EndedType ==
  /\ Ended \in Locals
  /\ Ended.at = "over" /\ Ended.written = {} /\ Ended.batch = {}
  /\ Ended.defs = None
BY RegradeAssumption DEF Ended, Asleep, Locals

LEMMA EnterType == ASSUME TypeOK, NEW g \in Regraders, Enter(g) PROVE TypeOK'
<1>1. bump' \in [Tasks -> 0..MaxClock \cup {None}]
  BY RescoredType, BumpedFacts DEF Enter, TypeOK, Locals
<1>2. regrader' \in [Regraders -> Locals] BY EndedType, LocalsChange DEF Enter
<1>3. \A h \in Regraders : regrader'[h].written \subseteq regrader[h].written
  BY EndedType, LocalsChange DEF Enter
<1> QED BY <1>1, <1>2, <1>3 DEF TypeOK, Enter

LEMMA KillType == ASSUME TypeOK, NEW g \in Regraders, Kill(g) PROVE TypeOK'
<1>1. regrader' \in [Regraders -> Locals] BY EndedType, LocalsChange DEF Kill
<1>2. \A h \in Regraders : regrader'[h].written \subseteq regrader[h].written
  BY EndedType, LocalsChange DEF Kill
<1>3. Rescored(g) \subseteq Tasks BY RescoredType
<1> QED BY <1>1, <1>2, <1>3 DEF TypeOK, Kill, ledgerVars

LEMMA NextType == ASSUME TypeOK, Places, [Next]_vars PROVE TypeOK'
<1>1. CASE Tick BY <1>1, TickType
<1>2. CASE Upgrade BY <1>2, UpgradeType
<1>3. CASE \E t \in Tasks : \E part \in EditedParts[t] : Edit(t, part) BY <1>3, EditType
<1>4. CASE \E x \in Runs : Load(x) BY <1>4, LoadType
<1>5. CASE \E x \in Runs, t \in Tasks : Rollout(x, t) BY <1>5, RolloutType
<1>6. CASE \E g \in Regraders : Begin(g) BY <1>6, BeginType
<1>7. CASE \E g \in Regraders : ReadAll(g) BY <1>7, ReadAllType
<1>8. CASE \E g \in Regraders, x \in Runs : Judge(g, x) BY <1>8, JudgeType
<1>9. CASE \E g \in Regraders : Write(g) BY <1>9, WriteType
<1>10. CASE \E g \in Regraders : Enter(g) BY <1>10, EnterType
<1>11. CASE \E g \in Regraders : Kill(g) BY <1>11, KillType
<1>12. CASE UNCHANGED vars BY <1>12 DEF TypeOK, vars, ledgerVars
<1> QED BY <1>1, <1>2, <1>3, <1>4, <1>5, <1>6, <1>7, <1>8, <1>9, <1>10, <1>11, <1>12 DEF Next

(* What becomes of an invocation in a step. *)
Moved(g) ==
  \/ regrader'[g] = regrader[g]
  \/ regrader[g].at = "idle" /\ regrader'[g] = Begun(g)
  \/ regrader[g].at = "read" /\ regrader'[g] = HasRead(g)
  \/ /\ regrader[g].at = "judge"
     /\ \E x \in Runs, n \in Numbers : regrader'[g] = Judged(g, x, n)
  \/ regrader[g].at = "write" /\ regrader'[g] = Wrote(g)
  \/ (Enter(g) \/ Kill(g)) /\ regrader'[g] = Ended

LEMMA Moves ==
  ASSUME TypeOK, Places, [Next]_vars, NEW h \in Regraders
  PROVE  Moved(h)
<1>1. CASE UNCHANGED regrader BY <1>1 DEF Moved
<1>2. ASSUME NEW g \in Regraders, Begin(g) PROVE Moved(h)
  <2>1. regrader' = [regrader EXCEPT ![g] = Begun(g)] BY <1>2 DEF Begin, Begun
  <2>2. regrader[g].at = "idle" BY <1>2 DEF Begin
  <2> QED BY <2>1, <2>2, BegunType, LocalsChange DEF Moved
<1>3. ASSUME NEW g \in Regraders, ReadAll(g) PROVE Moved(h)
  <2>1. regrader' = [regrader EXCEPT ![g] = HasRead(g)] BY <1>3 DEF ReadAll, HasRead, SeenBy
  <2>2. regrader[g].at = "read" BY <1>3 DEF ReadAll
  <2> QED BY <2>1, <2>2, HasReadType, LocalsChange DEF Moved
<1>4. ASSUME NEW g \in Regraders, NEW x \in Runs, Judge(g, x) PROVE Moved(h)
  <2> PICK n \in Numbers : regrader' = [regrader EXCEPT ![g] = Judged(g, x, n)]
    BY <1>4 DEF Judge, Judged
  <2>1. regrader[g].at = "judge" /\ regrader[g].defs \in [Tasks -> Defs] BY <1>4 DEF Judge, Places
  <2> QED BY <2>1, JudgedType, LocalsChange DEF Moved
<1>5. ASSUME NEW g \in Regraders, Write(g) PROVE Moved(h)
  <2>1. regrader' = [regrader EXCEPT ![g] = Wrote(g)] BY <1>5 DEF Write, Wrote
  <2>2. regrader[g].at = "write" BY <1>5 DEF Write
  <2> QED BY <2>1, <2>2, WroteType, LocalsChange DEF Moved
<1>6. ASSUME NEW g \in Regraders, Enter(g) \/ Kill(g) PROVE Moved(h)
  <2>1. regrader' = [regrader EXCEPT ![g] = Ended] BY <1>6 DEF Enter, Kill
  <2>2. CASE h = g
    <3>1. regrader'[g] = Ended BY <2>1, EndedType, LocalsChange
    <3> QED BY <1>6, <2>2, <3>1 DEF Moved
  <2>3. CASE h # g BY <2>1, <2>3, EndedType, LocalsChange DEF Moved
  <2> QED BY <2>2, <2>3
<1>7. \/ UNCHANGED regrader
      \/ \E g \in Regraders : \/ Begin(g) \/ ReadAll(g) \/ Write(g) \/ Enter(g) \/ Kill(g)
                             \/ \E x \in Runs : Judge(g, x)
  BY DEF Next, vars, ledgerVars, Tick, Upgrade, Edit, Load, Rollout
<1> QED BY <1>1, <1>2, <1>3, <1>4, <1>5, <1>6, <1>7

-----------------------------------------------------------------------------
(* The latest bump of a task only grows, so what the ledger retired stays       *)
(* retired.                                                                *)

LEMMA BumpsGrow ==
  ASSUME TypeOK, [Next]_vars
  PROVE  \A t \in Tasks : bump[t] # None => bump'[t] # None /\ bump[t] <= bump'[t]
<1>1. CASE UNCHANGED bump
  <2>1. \A t \in Tasks : bump[t] # None => bump[t] \in Nat
    BY RegradeAssumption DEF TypeOK
  <2> QED BY <1>1, <2>1
<1>2. CASE Upgrade
  BY <1>2, BumpedFacts DEF Upgrade, TypeOK
<1>3. CASE \E g \in Regraders : Enter(g)
  <2> PICK g \in Regraders : Enter(g) BY <1>3
  <2> QED BY RescoredType, BumpedFacts DEF Enter, TypeOK, Locals
<1>4. UNCHANGED bump \/ Upgrade \/ \E g \in Regraders : Enter(g)
  BY DEF Next, vars, ledgerVars, Tick, Edit, Load, Rollout, Begin, ReadAll, Judge, Write, Kill
<1> QED BY <1>1, <1>2, <1>3, <1>4

LEMMA RowFacts ==
  ASSUME TypeOK, NEW r \in rows
  PROVE  /\ r.task \in Tasks /\ r.number \in Nat /\ r.at \in Nat \cup {None}
         /\ r.judged \in Defs \cup {None}
         /\ r.at = None => r.judged = None
         /\ None \notin Nat
BY RegradeAssumption DEF TypeOK, Rows

(* A row is retired for good, and retired rows do not count. *)
LEMMA SupersededStays ==
  ASSUME TypeOK, TypeOK', [Next]_vars, NEW r \in rows, Superseded(r)
  PROVE  Superseded(r)'
<1>1. r.task \in Tasks /\ r.at \in Nat \cup {None} /\ None \notin Nat BY RowFacts
<1>2. bump[r.task] # None BY DEF Superseded
<1>3. bump'[r.task] # None /\ bump[r.task] <= bump'[r.task] BY <1>1, <1>2, BumpsGrow
<1>4. bump[r.task] \in Nat /\ bump'[r.task] \in Nat BY <1>1, <1>2, <1>3 DEF TypeOK
<1>5. r.at = None \/ r.at < bump[r.task] BY DEF Superseded, Before
<1>6. r.at = None \/ r.at < bump'[r.task] BY <1>1, <1>3, <1>4, <1>5
<1> QED BY <1>3, <1>6 DEF Superseded, Before

LEMMA SupersededIsStale ==
  ASSUME TypeOK, NEW r \in rows, Superseded(r)
  PROVE  Stale(r)
<1>1. CASE r.at = None
  <2>1. Verdict(r) = "none" BY <1>1, RowFacts DEF Verdict
  <2> QED BY <1>1, <2>1 DEF Stale, Superseded
<1>2. CASE r.at # None BY <1>2 DEF Stale, Superseded, Before
<1> QED BY <1>1, <1>2

LEMMA RowsGrow == ASSUME [Next]_vars PROVE rows \subseteq rows'
BY DEF Next, vars, ledgerVars, Tick, Upgrade, Edit, Load, Rollout, Begin, ReadAll, Judge, Write,
       Enter, Kill

LEMMA SupersededLaterStale ==
  ASSUME TypeOK', NEW r \in rows', Superseded(r)'
  PROVE  Stale(r)'
<1>1. r \in Rows BY DEF TypeOK
<1>2. CASE r.at = None
  <2>1. r.judged = None BY <1>1, <1>2 DEF Rows
  <2>2. Verdict(r)' = "none" BY <2>1 DEF Verdict
  <2> QED BY <1>2, <2>2 DEF Stale, Superseded
<1>3. CASE r.at # None BY <1>3 DEF Stale, Superseded, Before
<1> QED BY <1>2, <1>3

(* A row that its stamps alone retired stays retired while its task is as it    *)
(* is, and an edit that returns it makes its stamps match.                  *)
LEMMA StaleByStamps ==
  ASSUME NEW r \in rows, Stale(r), ~Superseded(r)
  PROVE  Verdict(r) = "stale"
BY DEF Stale, Superseded, Before

LEMMA VerdictStays ==
  ASSUME TypeOK, NEW r \in rows, Verdict(r) = "stale"
  PROVE  Verdict(r)' = "stale" \/ (def'[r.task] # def[r.task] /\ Verdict(r)' = "fresh")
<1>1. r.judged # None /\ r.task \in Stamped \cup Versioned BY DEF Verdict
<1>2. Verdict(r)' \in {"stale", "fresh"} BY <1>1 DEF Verdict
<1>3. def'[r.task] = def[r.task] => Verdict(r)' = Verdict(r) BY DEF Verdict, Differs
<1> QED BY <1>2, <1>3

LEMMA PlacesNext == ASSUME TypeOK, Places, [Next]_vars PROVE Places'
<1> SUFFICES ASSUME NEW g \in Regraders
             PROVE  /\ regrader'[g].at \in {"judge", "write"} => regrader'[g].defs \in [Tasks -> Defs]
                    /\ regrader'[g].at # "write" => regrader'[g].batch = {}
                    /\ regrader'[g].at \notin {"judge", "write"} => regrader'[g].written = {}
                    /\ Active(g)' => regrader'[g].stamped <= clock'
  BY DEF Places
<1>1. clock \in Nat /\ clock' \in Nat /\ clock <= clock'
  <2>1. clock \in Nat BY RegradeAssumption DEF TypeOK
  <2>2. clock' = clock \/ clock' = clock + 1
    BY DEF Next, vars, ledgerVars, Tick, Upgrade, Edit, Load, Rollout, Begin, ReadAll, Judge,
           Write, Enter, Kill
  <2> QED BY <2>1, <2>2
<1>2. regrader[g].stamped \in Nat BY RegradeAssumption DEF TypeOK, Locals
<1>3. /\ regrader[g].at \in {"judge", "write"} => regrader[g].defs \in [Tasks -> Defs]
      /\ regrader[g].at # "write" => regrader[g].batch = {}
      /\ regrader[g].at \notin {"judge", "write"} => regrader[g].written = {}
      /\ Active(g) => regrader[g].stamped <= clock
  BY DEF Places
<1>4. CASE regrader'[g] = regrader[g] BY <1>1, <1>2, <1>3, <1>4 DEF Active
<1>5. CASE regrader[g].at = "idle" /\ regrader'[g] = Begun(g)
  BY <1>1, <1>3, <1>5, BegunType DEF Active
<1>6. CASE regrader[g].at = "read" /\ regrader'[g] = HasRead(g)
  <2>1. def \in [Tasks -> Defs] BY DEF TypeOK
  <2> QED BY <1>1, <1>2, <1>3, <1>6, <2>1, HasReadType DEF Active
<1>7. CASE /\ regrader[g].at = "judge"
           /\ \E x \in Runs, n \in Numbers : regrader'[g] = Judged(g, x, n)
  BY <1>1, <1>2, <1>3, <1>7, JudgedType DEF Active
<1>8. CASE regrader[g].at = "write" /\ regrader'[g] = Wrote(g)
  BY <1>1, <1>2, <1>3, <1>8, WroteType DEF Active
<1>9. CASE regrader'[g] = Ended BY <1>9, EndedType DEF Active
<1> QED BY <1>4, <1>5, <1>6, <1>7, <1>8, <1>9, Moves DEF Moved

-----------------------------------------------------------------------------
(* One regrade at a time: what it knows holds on while executors append rows,  *)
(* and its batch is new.                                                   *)

LEMMA RacedStays == ASSUME TypeOK, [Next]_vars, ~raced' PROVE ~raced
BY DEF Next, vars, ledgerVars, Tick, Upgrade, Edit, Load, Rollout, Begin, ReadAll, Judge, Write,
       Enter, Kill

LEMMA OneAtATimeNext ==
  ASSUME TypeOK, Places, OneAtATime, [Next]_vars, ~raced'
  PROVE  OneAtATime'
<1>1. CASE \E g \in Regraders : Begin(g)
  <2> PICK g \in Regraders : Begin(g) BY <1>1
  <2>1. regrader' = [regrader EXCEPT ![g] = Begun(g)] BY DEF Begin, Begun
  <2>2. \A h \in Regraders : ~Active(h) BY DEF Begin
  <2>3. \A h \in Regraders \ {g} : regrader'[h] = regrader[h] BY <2>1, BegunType, LocalsChange
  <2>4. \A h \in Regraders \ {g} : ~Active(h)' BY <2>2, <2>3 DEF Active
  <2> QED BY <2>4 DEF OneAtATime
<1>2. CASE ~\E g \in Regraders : Begin(g)
  <2>1. ASSUME NEW g \in Regraders, Active(g)' PROVE Active(g)
    <3>1. ~(regrader[g].at = "idle" /\ regrader'[g] = Begun(g) /\ regrader[g] # regrader'[g])
      <4>1. CASE regrader'[g] = regrader[g] BY <4>1
      <4>2. CASE regrader'[g] # regrader[g] /\ regrader[g].at = "idle"
        <5>1. \A h \in Regraders : \/ ReadAll(h) \/ Write(h) \/ Kill(h) \/ Enter(h)
                                  \/ (\E x \in Runs : Judge(h, x)) => h # g
          BY <4>2 DEF ReadAll, Write, Kill, Enter, Judge, Active
        <5> QED BY <4>2, <1>2, <5>1 DEF Next, vars, ledgerVars, Tick, Upgrade, Edit, Load, Rollout,
                   ReadAll, Write, Kill, Enter, Judge, TypeOK
      <4> QED BY <4>1, <4>2
    <3> QED BY <2>1, <3>1, Moves, EndedType DEF Moved, Active
  <2> QED BY <2>1 DEF OneAtATime
<1> QED BY <1>1, <1>2

Calm == ~raced /\ TypeOK /\ Places /\ Originals /\ Sourced /\ OneAtATime /\ Known

LEMMA RolloutKnown ==
  ASSUME Calm, NEW x \in Runs, NEW t \in Tasks, Rollout(x, t)
  PROVE  Originals' /\ Sourced' /\ Known'
<1> DEFINE new == [run |-> x, number |-> 0, task |-> t, at |-> clock,
                   judged |-> loaded[x][t], env |-> loaded[x][t].env]
<1>1. /\ rows' = rows \cup {new} /\ regrader' = regrader
      /\ new.run = x /\ new.number = 0 /\ new.task = t
      /\ \A r \in rows : ~(r.run = x /\ r.number = 0 /\ r.task = t)
  BY DEF Rollout
<1> HIDE DEF new
<1>2. Originals' BY <1>1 DEF Calm, Originals, SameOrigin
<1>3. Sourced' BY <1>1 DEF Calm, Sourced, SameOrigin
<1>4. ASSUME NEW g \in Regraders, regrader[g].at \in {"judge", "write"}
      PROVE  KnownTo(g)'
  <2>1. KnownTo(g) BY <1>4 DEF Calm, Known
  <2>2. \A r \in regrader[g].batch : r.number # 0 BY <2>1 DEF KnownTo, Mine
  <2>3. \A r \in regrader[g].batch : ~Taken(r.run, r.number)'
    BY <1>1, <2>1, <2>2 DEF KnownTo, Taken
  <2> QED BY <1>1, <2>1, <2>3 DEF KnownTo, Mine, SameOrigin
<1> QED BY <1>1, <1>2, <1>3, <1>4 DEF Known

LEMMA ReadAllKnown ==
  ASSUME Calm, NEW g \in Regraders, ReadAll(g), ~raced'
  PROVE  KnownTo(g)'
<1>1. regrader' = [regrader EXCEPT ![g] = HasRead(g)] BY DEF ReadAll, HasRead, SeenBy
<1>2. regrader'[g] = HasRead(g) BY <1>1, HasReadType, LocalsChange DEF Calm
<1>3. regrader[g].written = {} /\ regrader[g].batch = {} BY DEF ReadAll, Calm, Places
<1>4. \A r \in rows : Before(r, regrader[g].stamped) BY DEF ReadAll, Calm
<1>5. rows' = rows BY DEF ReadAll
<1>6. /\ regrader'[g].written = {} /\ regrader'[g].batch = {}
      /\ regrader'[g].seen = SeenBy(g) /\ regrader'[g].stamped = regrader[g].stamped
  BY <1>2, <1>3, HasReadType DEF Calm
<1>7. \A r \in SeenBy(g) : r \in rows /\ r.number = 0 BY DEF SeenBy
<1> QED BY <1>4, <1>5, <1>6, <1>7 DEF KnownTo, Mine

LEMMA JudgeKnown ==
  ASSUME Calm, NEW g \in Regraders, NEW x \in Runs, Judge(g, x)
  PROVE  KnownTo(g)'
<1> PICK n \in Numbers : /\ FirstFree(x, n)
                         /\ regrader' = [regrader EXCEPT ![g] = Judged(g, x, n)]
  BY DEF Judge, Judged
<1>1. regrader[g].at = "judge" /\ x \in regrader[g].todo /\ rows' = rows BY DEF Judge
<1>2. regrader[g].defs \in [Tasks -> Defs] /\ regrader[g].batch = {} BY <1>1 DEF Calm, Places
<1>3. KnownTo(g) BY <1>1 DEF Calm, Known
<1>4. regrader'[g] = Judged(g, x, n) BY <1>1, <1>2, JudgedType, LocalsChange DEF Calm
<1>5. /\ regrader'[g].todo = regrader[g].todo \ {x}
      /\ regrader'[g].written = regrader[g].written
      /\ regrader'[g].seen = regrader[g].seen
      /\ regrader'[g].stamped = regrader[g].stamped
  BY <1>1, <1>2, <1>4, JudgedType DEF Calm
<1>6. \A b \in regrader'[g].batch :
        \E r \in regrader[g].seen : r.run = x /\ b = Regraded(g, r, n)
  <2>1. Judged(g, x, n).batch = {Regraded(g, r, n) : r \in {s \in regrader[g].seen :
                                   s.run = x /\ <<x, s.task>> \in Traced}}
    BY <1>1, <1>2, JudgedType DEF Calm
  <2> QED BY <1>4, <2>1
<1>7. ASSUME NEW b \in regrader'[g].batch
      PROVE  /\ b.run = x /\ b.number = n /\ b.at = clock
             /\ \E r \in regrader[g].seen : b = Regraded(g, r, n) /\ SameOrigin(b, r)
  <2> PICK r \in regrader[g].seen : r.run = x /\ b = Regraded(g, r, n) BY <1>6
  <2>1. r \in Rows BY DEF Calm, TypeOK, Locals
  <2> QED BY <1>1, <1>2, <2>1, RegradedType DEF Calm, SameOrigin
<1>8. n # 0 /\ ~(clock < regrader[g].stamped) /\ clock # None
  <2>1. regrader[g].stamped <= clock BY <1>1 DEF Calm, Places, Active
  <2>2. regrader[g].stamped \in Nat /\ clock \in Nat /\ clock # None
    BY RegradeAssumption DEF Calm, TypeOK, Locals
  <2> QED BY <2>1, <2>2 DEF Numbers
<1>9. \A b, c \in regrader'[g].batch : SameOrigin(b, c) => b = c
  <2> SUFFICES ASSUME NEW b \in regrader'[g].batch, NEW c \in regrader'[g].batch,
                      SameOrigin(b, c)
               PROVE  b = c
    OBVIOUS
  <2> PICK r \in regrader[g].seen : b = Regraded(g, r, n) /\ SameOrigin(b, r) BY <1>7
  <2> PICK s \in regrader[g].seen : c = Regraded(g, s, n) /\ SameOrigin(c, s) BY <1>7
  <2>1. r = s BY <1>3 DEF KnownTo, Calm, Originals, SameOrigin
  <2> QED BY <2>1
<1>10. \A b \in regrader'[g].batch, c \in regrader'[g].written : b.run # c.run
  BY <1>1, <1>3, <1>5, <1>7 DEF KnownTo, Mine
<1>11. \A b \in regrader'[g].batch : ~Taken(b.run, b.number)'
  BY <1>1, <1>7 DEF FirstFree, Taken
<1>12. \A r, s \in Mine(g)' : SameOrigin(r, s) => r = s
  BY <1>3, <1>5, <1>9, <1>10 DEF KnownTo, Mine, SameOrigin
<1>13. ASSUME NEW r \in Mine(g)'
       PROVE  /\ ~Before(r, regrader'[g].stamped)
              /\ r.number # 0 /\ r.run \notin regrader'[g].todo
              /\ \E s \in regrader'[g].seen : SameOrigin(r, s)
  <2>1. CASE r \in regrader'[g].batch BY <2>1, <1>5, <1>7, <1>8 DEF Before
  <2>2. CASE r \in regrader[g].written BY <2>2, <1>3, <1>5 DEF KnownTo, Mine
  <2> QED BY <2>1, <2>2, <1>5 DEF Mine
<1> QED BY <1>1, <1>3, <1>5, <1>11, <1>12, <1>13 DEF KnownTo

LEMMA WriteKnown ==
  ASSUME Calm, NEW g \in Regraders, Write(g)
  PROVE  Originals' /\ Sourced' /\ KnownTo(g)'
<1>1. regrader[g].at = "write" /\ rows' = rows \cup regrader[g].batch BY DEF Write
<1>2. regrader' = [regrader EXCEPT ![g] = Wrote(g)] BY DEF Write, Wrote
<1>3. /\ regrader'[g].batch = {} /\ regrader'[g].seen = regrader[g].seen
      /\ regrader'[g].written = regrader[g].written \cup regrader[g].batch
      /\ regrader'[g].todo = regrader[g].todo /\ regrader'[g].stamped = regrader[g].stamped
  BY <1>2, WroteType, LocalsChange DEF Calm
<1>4. KnownTo(g) BY <1>1 DEF Calm, Known
<1>5. \A r \in regrader[g].batch : r.number # 0 /\ \E s \in rows : SameOrigin(r, s) /\ s.number = 0
  BY <1>4 DEF KnownTo, Mine
<1>6. Originals' BY <1>1, <1>5 DEF Calm, Originals
<1>7. Sourced' BY <1>1, <1>5 DEF Calm, Sourced
<1>8. KnownTo(g)' BY <1>1, <1>3, <1>4 DEF KnownTo, Mine
<1> QED BY <1>6, <1>7, <1>8

(* While one invocation is at work the others know nothing. *)
LEMMA OthersKnow ==
  ASSUME Calm, NEW g \in Regraders, Active(g), NEW l \in Locals,
         regrader' = [regrader EXCEPT ![g] = l],
         l.at \in {"judge", "write"} => KnownTo(g)'
  PROVE  Known'
<1>1. \A h \in Regraders \ {g} : regrader'[h] = regrader[h] /\ ~Active(h)
  BY LocalsChange DEF Calm, OneAtATime
<1>2. \A h \in Regraders \ {g} : regrader'[h].at \notin {"judge", "write"}
  BY <1>1 DEF Active
<1>3. regrader'[g] = l BY LocalsChange DEF Calm
<1> QED BY <1>2, <1>3 DEF Known

LEMMA OrderlyNext ==
  ASSUME TypeOK, Places, Orderly, [Next]_vars
  PROVE  Orderly'
<1> SUFFICES ASSUME ~raced' PROVE Originals' /\ Sourced' /\ OneAtATime' /\ Known'
  BY DEF Orderly
<1>1. Calm BY RacedStays DEF Orderly, Calm
<1>2. OneAtATime' BY <1>1, OneAtATimeNext DEF Calm
<1>3. ASSUME UNCHANGED <<rows, regrader>> PROVE Known'
  BY <1>1, <1>3 DEF Calm, Known, KnownTo, Mine, Taken
<1>4. ASSUME NEW x \in Runs, NEW t \in Tasks, Rollout(x, t) PROVE Originals' /\ Sourced' /\ Known'
  BY <1>1, <1>4, RolloutKnown
<1>5. ASSUME UNCHANGED rows PROVE Originals' /\ Sourced'
  BY <1>1, <1>5 DEF Calm, Originals, Sourced, SameOrigin
<1>6. ASSUME NEW g \in Regraders, Begin(g) PROVE Known' /\ UNCHANGED rows
  <2>1. regrader' = [regrader EXCEPT ![g] = Begun(g)] /\ UNCHANGED rows BY <1>6 DEF Begin, Begun
  <2>2. \A h \in Regraders : ~Active(h) BY <1>6 DEF Begin
  <2>3. \A h \in Regraders : regrader'[h].at \notin {"judge", "write"}
    BY <2>1, <2>2, BegunType, LocalsChange DEF Active
  <2> QED BY <2>1, <2>3 DEF Known
<1>7. ASSUME NEW g \in Regraders, ReadAll(g) PROVE Known' /\ UNCHANGED rows
  <2>1. regrader' = [regrader EXCEPT ![g] = HasRead(g)] /\ Active(g) /\ UNCHANGED rows
    BY <1>7 DEF ReadAll, HasRead, SeenBy, Active
  <2> QED BY <1>1, <1>7, <2>1, HasReadType, ReadAllKnown, OthersKnow DEF Calm
<1>8. ASSUME NEW g \in Regraders, NEW x \in Runs, Judge(g, x) PROVE Known' /\ UNCHANGED rows
  <2> PICK n \in Numbers : regrader' = [regrader EXCEPT ![g] = Judged(g, x, n)]
    BY <1>8 DEF Judge, Judged
  <2>1. regrader[g].at = "judge" /\ Active(g) /\ UNCHANGED rows BY <1>8 DEF Judge, Active
  <2>2. Judged(g, x, n) \in Locals BY <1>1, <2>1, JudgedType DEF Calm, Places
  <2>3. KnownTo(g)' BY <1>1, <1>8, JudgeKnown
  <2> QED BY <1>1, <2>1, <2>2, <2>3, OthersKnow
<1>9. ASSUME NEW g \in Regraders, Write(g) PROVE Originals' /\ Sourced' /\ Known'
  <2>1. regrader' = [regrader EXCEPT ![g] = Wrote(g)] /\ Active(g)
    BY <1>9 DEF Write, Wrote, Active
  <2>2. Originals' /\ Sourced' /\ KnownTo(g)' BY <1>1, <1>9, WriteKnown
  <2> QED BY <1>1, <2>1, <2>2, WroteType, OthersKnow DEF Calm
<1>10. ASSUME NEW g \in Regraders, Enter(g) \/ Kill(g) PROVE Known' /\ UNCHANGED rows
  <2>1. regrader' = [regrader EXCEPT ![g] = Ended] /\ Active(g) /\ UNCHANGED rows
    BY <1>10 DEF Enter, Kill, Active
  <2> QED BY <1>1, <2>1, EndedType, OthersKnow
<1>11. \/ UNCHANGED <<rows, regrader>> \/ (\E x \in Runs, t \in Tasks : Rollout(x, t))
       \/ \E g \in Regraders : \/ Begin(g) \/ ReadAll(g) \/ Write(g) \/ Enter(g) \/ Kill(g)
                              \/ \E x \in Runs : Judge(g, x)
  BY DEF Next, vars, ledgerVars, Tick, Upgrade, Edit, Load
<1>12. Originals' /\ Sourced' /\ Known'
  <2>1. CASE UNCHANGED <<rows, regrader>> BY <1>3, <1>5, <2>1
  <2>2. CASE \E x \in Runs, t \in Tasks : Rollout(x, t) BY <1>4, <2>2
  <2>3. CASE \E g \in Regraders : Begin(g) BY <1>5, <1>6, <2>3
  <2>4. CASE \E g \in Regraders : ReadAll(g) BY <1>5, <1>7, <2>4
  <2>5. CASE \E g \in Regraders, x \in Runs : Judge(g, x) BY <1>5, <1>8, <2>5
  <2>6. CASE \E g \in Regraders : Write(g) BY <1>9, <2>6
  <2>7. CASE \E g \in Regraders : Enter(g) \/ Kill(g) BY <1>5, <1>10, <2>7
  <2> QED BY <1>11, <2>1, <2>2, <2>3, <2>4, <2>5, <2>6, <2>7
<1> QED BY <1>2, <1>12

-----------------------------------------------------------------------------
(* Numbers, and what counts. *)

LEMMA RunIdsNext ==
  ASSUME TypeOK, Places, Orderly, RunIdsDistinct, [Next]_vars
  PROVE  RunIdsDistinct'
<1> SUFFICES ASSUME ~raced' PROVE \A r, s \in rows' : SameOrigin(r, s) /\ r.number = s.number => r = s
  BY DEF RunIdsDistinct, SameOrigin
<1>1. Calm BY RacedStays DEF Orderly, Calm
<1>2. \A r, s \in rows : SameOrigin(r, s) /\ r.number = s.number => r = s
  BY <1>1 DEF RunIdsDistinct, Calm
<1>3. CASE UNCHANGED rows BY <1>2, <1>3
<1>4. CASE \E x \in Runs, t \in Tasks : Rollout(x, t)
  BY <1>2, <1>4 DEF Rollout, SameOrigin
<1>5. CASE \E g \in Regraders : Write(g)
  <2> PICK g \in Regraders : Write(g) BY <1>5
  <2>1. KnownTo(g) BY <1>1 DEF Calm, Known, Write
  <2>2. \A r \in rows, s \in regrader[g].batch : ~(SameOrigin(r, s) /\ r.number = s.number)
    BY <2>1 DEF KnownTo, Taken, SameOrigin
  <2>3. \A r, s \in regrader[g].batch : SameOrigin(r, s) => r = s BY <2>1 DEF KnownTo, Mine
  <2>4. \A r, s : SameOrigin(r, s) /\ r.number = s.number => SameOrigin(s, r) /\ s.number = r.number
    BY DEF SameOrigin
  <2>5. rows' = rows \cup regrader[g].batch BY DEF Write
  <2> QED BY <1>2, <2>2, <2>3, <2>4, <2>5
<1>6. UNCHANGED rows \/ (\E x \in Runs, t \in Tasks : Rollout(x, t)) \/ \E g \in Regraders : Write(g)
  BY DEF Next, vars, ledgerVars, Tick, Upgrade, Edit, Load, Begin, ReadAll, Judge, Enter, Kill
<1> QED BY <1>3, <1>4, <1>5, <1>6

(* Rows of one rollout whose task is not pending, in either state. *)
LEMMA SettledBefore ==
  ASSUME TypeOK, TypeOK', Settled, ~raced, [Next]_vars,
         NEW r \in rows, NEW s \in rows, SameOrigin(r, s), r.task \notin Pending
  PROVE  Superseded(r)' \/ Superseded(s)' \/ r = s
<1>1. Superseded(r) \/ Superseded(s) \/ r = s BY DEF Settled
<1> QED BY <1>1, SupersededStays

(* What a regrade has rescored stays pending until its entry is recorded. *)
LEMMA StaysPending ==
  ASSUME TypeOK, Places, [Next]_vars, ~\E g \in Regraders : Enter(g)
  PROVE  Pending \subseteq Pending'
<1>1. unsettled \subseteq unsettled'
  BY DEF Next, vars, ledgerVars, Tick, Upgrade, Edit, Load, Rollout, Begin, ReadAll, Judge, Write,
         Kill
<1>2. ASSUME NEW h \in Regraders, Active(h), ~Kill(h)
      PROVE  Active(h)' /\ Rescored(h) \subseteq Rescored(h)'
  <2>1. regrader[h].written \subseteq regrader'[h].written /\ Active(h)'
    <3>1. CASE regrader'[h] = regrader[h] BY <3>1, <1>2 DEF Active
    <3>2. CASE regrader[h].at = "read" /\ regrader'[h] = HasRead(h)
      BY <3>2, HasReadType DEF Active
    <3>3. CASE /\ regrader[h].at = "judge"
               /\ \E x \in Runs, n \in Numbers : regrader'[h] = Judged(h, x, n)
      BY <3>3, JudgedType DEF Active, Places
    <3>4. CASE regrader[h].at = "write" /\ regrader'[h] = Wrote(h)
      BY <3>4, WroteType DEF Active
    <3> QED BY <1>2, <3>1, <3>2, <3>3, <3>4, Moves DEF Moved, Active
  <2> QED BY <2>1 DEF Rescored
<1>3. ASSUME NEW h \in Regraders, Kill(h) PROVE Rescored(h) \subseteq unsettled'
  BY <1>3 DEF Kill
<1>4. ASSUME NEW t \in Pending PROVE t \in Pending'
  <2>1. CASE t \in unsettled BY <1>1, <2>1 DEF Pending
  <2>2. CASE \E h \in Regraders : Active(h) /\ t \in Rescored(h)
    <3> PICK h \in Regraders : Active(h) /\ t \in Rescored(h) BY <2>2
    <3>1. CASE Kill(h) BY <1>3, <3>1 DEF Pending
    <3>2. CASE ~Kill(h)
      <4>1. Active(h)' /\ t \in Rescored(h)' BY <1>2, <3>2
      <4> QED BY <4>1 DEF Pending
    <3> QED BY <3>1, <3>2
  <2> QED BY <2>1, <2>2 DEF Pending
<1> QED BY <1>4

(* The rows of a task that a regrade has rescored when it records its entry:   *)
(* what it saw falls behind the entry, what it wrote does not.              *)
LEMMA EnterSupersedes ==
  ASSUME Calm, NEW g \in Regraders, Enter(g)
  PROVE  /\ \A r \in rows : r.task \in Rescored(g) =>
                              Superseded(r)' \/ r.number = 0 \/ r \in regrader[g].written
         /\ \A s \in regrader[g].seen :
              s.task \in Rescored(g) => s \in rows /\ s.number = 0 /\ Superseded(s)'
         /\ \A r \in regrader[g].written : ~Stale(r) => ~Stale(r)'
<1>1. regrader[g].at = "judge" /\ rows' = rows /\ def' = def
      /\ bump' = Bumped(Rescored(g), regrader[g].stamped)
  BY DEF Enter
<1>2. KnownTo(g) BY <1>1 DEF Calm, Known
<1>3. regrader[g].stamped \in 0..MaxClock /\ regrader[g].stamped \in Nat
  BY RegradeAssumption DEF Calm, TypeOK, Locals
<1>4. /\ \A t \in Rescored(g) : bump'[t] # None /\ bump'[t] >= regrader[g].stamped
      /\ \A t \in Rescored(g) : bump'[t] = regrader[g].stamped \/ bump'[t] = bump[t]
      /\ \A t \in Tasks \ Rescored(g) : bump'[t] = bump[t]
      /\ bump' \in [Tasks -> 0..MaxClock \cup {None}]
  BY <1>1, <1>3, RescoredType, BumpedFacts DEF Calm
<1>5. \A r \in rows : r.at \in Nat \cup {None} /\ r.task \in Tasks BY RowFacts DEF Calm
<1>6. \A t \in Rescored(g) : bump'[t] \in Nat
  <2>1. \A t \in Rescored(g) : bump'[t] \in 0..MaxClock
    BY <1>4, RescoredType DEF Calm
  <2> QED BY <2>1
<1>7. ASSUME NEW r \in rows, r.task \in Rescored(g), Before(r, regrader[g].stamped)
      PROVE  Superseded(r)'
  <2>1. r.at = None \/ r.at < bump'[r.task] BY <1>3, <1>4, <1>5, <1>6, <1>7 DEF Before
  <2> QED BY <1>4, <1>7, <2>1 DEF Superseded, Before
<1>8. \A r \in rows : r.task \in Rescored(g) =>
                        Superseded(r)' \/ r.number = 0 \/ r \in regrader[g].written
  BY <1>2, <1>7 DEF KnownTo
<1>9. \A s \in regrader[g].seen :
        s.task \in Rescored(g) => s \in rows /\ s.number = 0 /\ Superseded(s)'
  BY <1>2, <1>7 DEF KnownTo
<1>10. ASSUME NEW r \in regrader[g].written, ~Stale(r) PROVE ~Stale(r)'
  <2>1. r \in rows /\ r.task \in Tasks BY <1>5 DEF Calm, TypeOK
  <2>2. r.at # None /\ ~(r.at < regrader[g].stamped) BY <1>2 DEF KnownTo, Mine, Before
  <2>3. bump'[r.task] = regrader[g].stamped \/ bump'[r.task] = bump[r.task] BY <1>4, <2>1
  <2>4. Verdict(r)' = Verdict(r) BY <1>1 DEF Verdict, Differs
  <2> QED BY <1>10, <2>2, <2>3, <2>4 DEF Stale
<1> QED BY <1>8, <1>9, <1>10

LEMMA SettledNext ==
  ASSUME TypeOK, Places, Orderly, Settled, [Next]_vars
  PROVE  Settled'
<1> SUFFICES ASSUME ~raced', NEW r \in rows', NEW s \in rows', SameOrigin(r, s),
                    r.task \notin Pending', ~Superseded(r)', ~Superseded(s)'
             PROVE  r = s
  BY DEF Settled, SameOrigin
<1>0. TypeOK' BY NextType
<1>1. Calm BY RacedStays DEF Orderly, Calm
<1>2. CASE \E g \in Regraders : Enter(g)
  <2> PICK g \in Regraders : Enter(g) BY <1>2
  <2>1. r \in rows /\ s \in rows /\ r.task = s.task /\ regrader[g].at = "judge"
    BY DEF Enter, SameOrigin
  <2>2. KnownTo(g) BY <1>1, <2>1 DEF Calm, Known
  <2>3. CASE r.task \in Rescored(g)
    <3>1. ASSUME NEW p \in rows, NEW q \in regrader[g].written, p.number = 0, SameOrigin(p, q)
          PROVE  p.task \in Rescored(g) /\ Superseded(p)'
      <4>1. PICK o \in regrader[g].seen : SameOrigin(q, o) BY <2>2 DEF KnownTo, Mine
      <4>2. o.task \in Rescored(g) /\ o.task = p.task BY <3>1, <4>1 DEF Rescored, SameOrigin
      <4>3. o \in rows /\ o.number = 0 /\ Superseded(o)' BY <1>1, <4>2, EnterSupersedes
      <4>4. o = p BY <1>1, <3>1, <4>1, <4>3 DEF Calm, Originals, SameOrigin
      <4> QED BY <4>2, <4>3, <4>4
    <3>2. r.number = 0 \/ r \in regrader[g].written BY <1>1, <2>1, <2>3, EnterSupersedes
    <3>3. s.number = 0 \/ s \in regrader[g].written BY <1>1, <2>1, <2>3, EnterSupersedes
    <3>4. SameOrigin(s, r) BY DEF SameOrigin
    <3>5. CASE r \in regrader[g].written /\ s \in regrader[g].written
      BY <2>2, <3>5 DEF KnownTo, Mine
    <3>6. CASE r.number = 0 /\ s.number = 0 BY <1>1, <2>1, <3>6 DEF Calm, Originals
    <3>7. CASE r.number = 0 /\ s \in regrader[g].written BY <2>1, <3>1, <3>7
    <3>8. CASE s.number = 0 /\ r \in regrader[g].written BY <2>1, <3>1, <3>4, <3>8
    <3> QED BY <3>2, <3>3, <3>5, <3>6, <3>7, <3>8
  <2>4. CASE r.task \notin Rescored(g)
    <3>1. r.task \notin Pending
      <4>1. r.task \notin unsettled BY <2>4 DEF Enter, Pending
      <4>2. \A h \in Regraders \ {g} : ~Active(h)
        BY <1>1, <2>1 DEF Calm, OneAtATime, Active
      <4> QED BY <2>4, <4>1, <4>2 DEF Pending
    <3> QED BY <1>0, <1>1, <2>1, <3>1, SettledBefore DEF Calm
  <2> QED BY <2>3, <2>4
<1>3. CASE ~\E g \in Regraders : Enter(g)
  <2>1. r.task \notin Pending BY <1>3, StaysPending
  <2>2. CASE UNCHANGED rows BY <1>0, <1>1, <2>1, <2>2, SettledBefore DEF Calm
  <2>3. CASE \E x \in Runs, t \in Tasks : Rollout(x, t)
    <3> PICK x \in Runs, t \in Tasks : Rollout(x, t) BY <2>3
    <3>1. \A q \in rows : ~(q.run = x /\ q.number = 0 /\ q.task = t) BY DEF Rollout
    <3>2. \A q \in rows : ~(q.run = x /\ q.task = t)
      BY <1>1, <3>1 DEF Calm, Sourced, SameOrigin
    <3>3. \A q \in rows' : q \in rows \/ (q.run = x /\ q.task = t) BY DEF Rollout
    <3>4. CASE r \in rows /\ s \in rows BY <1>0, <1>1, <2>1, <3>4, SettledBefore DEF Calm
    <3>5. CASE r \notin rows /\ s \notin rows BY <3>5 DEF Rollout
    <3> QED BY <3>2, <3>3, <3>4, <3>5 DEF SameOrigin
  <2>4. CASE \E g \in Regraders : Write(g)
    <3> PICK g \in Regraders : Write(g) BY <2>4
    <3>1. regrader' = [regrader EXCEPT ![g] = Wrote(g)] BY DEF Write, Wrote
    <3>2. regrader'[g] = Wrote(g) BY <3>1, WroteType, LocalsChange
    <3>3. Active(g)' /\ regrader[g].batch \subseteq regrader'[g].written
      BY <3>2, WroteType DEF Active
    <3>4. \A q \in regrader[g].batch : q.task \in Pending'
      BY <3>3 DEF Pending, Rescored
    <3>5. r \in rows /\ s \in rows BY <3>4 DEF Write, SameOrigin
    <3> QED BY <1>0, <1>1, <2>1, <3>5, SettledBefore DEF Calm
  <2>5. UNCHANGED rows \/ (\E x \in Runs, t \in Tasks : Rollout(x, t)) \/ \E g \in Regraders : Write(g)
    BY DEF Next, vars, ledgerVars, Tick, Upgrade, Edit, Load, Begin, ReadAll, Judge, Enter, Kill
  <2> QED BY <2>2, <2>3, <2>4, <2>5
<1> QED BY <1>2, <1>3

-----------------------------------------------------------------------------
(* The theorems. *)

LEMMA RowsInvInit == Init => RowsInv
<1> SUFFICES ASSUME Init PROVE RowsInv OBVIOUS
<1>1. regrader = [g \in Regraders |-> Asleep] BY DEF Init
<1>2. Asleep.at = "idle" /\ Asleep.batch = {} /\ Asleep.written = {} BY DEF Asleep
<1>3. Places BY <1>1, <1>2 DEF Places, Active
<1>4. \A r \in rows : r.number = 0 BY DEF Init, OldRow
<1>5. \A r, s \in rows : SameOrigin(r, s) => r = s BY DEF Init, OldRow, SameOrigin
<1>6. Orderly
  BY <1>1, <1>2, <1>4, <1>5 DEF Orderly, Originals, Sourced, OneAtATime, Known, Active, SameOrigin
<1>7. Settled /\ RunIdsDistinct BY <1>5 DEF Settled, RunIdsDistinct
<1> QED BY <1>3, <1>6, <1>7, InitType DEF RowsInv

LEMMA RowsInvNext == RowsInv /\ [Next]_vars => RowsInv'
BY NextType, PlacesNext, OrderlyNext, SettledNext, RunIdsNext DEF RowsInv

LEMMA RowsInvHolds == Spec => []RowsInv
BY RowsInvInit, RowsInvNext, PTL DEF Spec

(* Rows, ledger and local states keep their types, and a regrade only counts   *)
(* as written what it wrote (regradeRuns writes unless it is a dry run).     *)
THEOREM TypeCorrect == Spec => []TypeOK
<1>1. RowsInv => TypeOK BY DEF RowsInv
<1> QED BY <1>1, RowsInvHolds, PTL

(* No rollout is counted twice, and allocateRegradeRunId never gives a run id  *)
(* out twice, however many runs, tasks and regrades there are, as long as     *)
(* regrades do not overlap.                                                *)
THEOREM RowsStayApart == Spec => []RowsApart
<1>1. RowsInv => NoDoubleCount BY SupersededIsStale DEF RowsInv, Settled, NoDoubleCount
<1>2. RowsInv => RowsApart BY <1>1 DEF RowsInv, RowsApart
<1> QED BY <1>2, RowsInvHolds, PTL

(* What the ledger retired is retired for good, in whatever order its lines     *)
(* are appended, also when regrades overlap; what only its stamps retired      *)
(* returns only when an edit puts back what it was judged by.               *)
THEOREM StaleReturnsOnlyRestored == Spec => StaleUnlessRestored
<1> DEFINE A == \A r \in rows : Stale(r) =>
                  \/ Stale(r)'
                  \/ ~Superseded(r) /\ def'[r.task] # def[r.task] /\ Verdict(r)' = "fresh"
<1>1. ASSUME RowsInv, [Next]_vars PROVE A
  <2> SUFFICES ASSUME NEW r \in rows, Stale(r), ~Stale(r)'
               PROVE  ~Superseded(r) /\ def'[r.task] # def[r.task] /\ Verdict(r)' = "fresh"
    OBVIOUS
  <2>1. TypeOK /\ TypeOK' /\ r \in rows' BY <1>1, NextType, RowsGrow DEF RowsInv
  <2>2. ~Superseded(r) BY <1>1, <2>1, SupersededStays, SupersededLaterStale
  <2>3. Verdict(r) = "stale" BY <2>2, StaleByStamps
  <2>4. Verdict(r)' # "stale" BY DEF Stale
  <2> QED BY <2>1, <2>2, <2>3, <2>4, VerdictStays
<1>2. RowsInv /\ [Next]_vars => [A]_vars BY <1>1
<1> QED BY <1>2, RowsInvHolds, PTL DEF Spec, StaleUnlessRestored

(* The entry of a regrade retires what it rescored and keeps what it wrote. *)
THEOREM EntryRetires == Spec => EntrySupersedes
<1> DEFINE A == \A g \in Regraders :
       ~raced /\ regrader[g].at = "judge" /\ regrader'[g].at = "over" /\ bump' # bump =>
         \A r \in regrader[g].written, s \in regrader[g].seen :
           /\ ~Stale(r) => ~Stale(r)'
           /\ SameOrigin(r, s) => Stale(s)'
<1>1. ASSUME RowsInv, [Next]_vars PROVE A
  <2> SUFFICES ASSUME NEW g \in Regraders, ~raced, regrader[g].at = "judge",
                      regrader'[g].at = "over", bump' # bump,
                      NEW r \in regrader[g].written, NEW s \in regrader[g].seen
               PROVE  /\ ~Stale(r) => ~Stale(r)'
                      /\ SameOrigin(r, s) => Stale(s)'
    BY DEF A
  <2>1. TypeOK /\ Places /\ Calm BY <1>1 DEF RowsInv, Orderly, Calm
  <2>2. Enter(g) \/ Kill(g)
    BY <1>1, <2>1, Moves, BegunType, HasReadType, JudgedType, WroteType DEF Moved, Places
  <2>3. Enter(g) BY <2>2 DEF Kill, ledgerVars
  <2>4. SameOrigin(r, s) => s.task \in Rescored(g) BY DEF Rescored, SameOrigin
  <2>5. SameOrigin(r, s) => s \in rows /\ Superseded(s)' BY <2>1, <2>3, <2>4, EnterSupersedes
  <2>6. SameOrigin(r, s) => Stale(s)'
    BY <1>1, <2>1, <2>5, NextType, RowsGrow, SupersededLaterStale
  <2> QED BY <2>1, <2>3, <2>6, EnterSupersedes
<1>2. RowsInv /\ [Next]_vars => [A]_vars BY <1>1
<1> QED BY <1>2, RowsInvHolds, PTL DEF Spec, EntrySupersedes
=============================================================================
