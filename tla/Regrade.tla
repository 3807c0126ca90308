------------------------------ MODULE Regrade ------------------------------
(***************************************************************************)
(* Rows of a benchmark, the regrades that rescore them from retained traces  *)
(* (src/src/regrade.ts), the version ledger that upgrades and regrades       *)
(* append to, and the gate that decides which rows the leaderboard counts    *)
(* (src/src/benchmark-staleness.ts).                                       *)
(*                                                                         *)
(* Executors append rows while regrades read them, regrades may overlap or   *)
(* be killed, and nothing is locked.  Time is the millisecond clock that     *)
(* stamps rows and ledger entries.                                         *)
(*                                                                         *)
(* Which tasks carry content hashes, and which a semver, is fixed; a row has  *)
(* the stamps that its task has, unless an older build wrote it.            *)
(***************************************************************************)
EXTENDS Naturals, FiniteSets

CONSTANTS
  Runs,       \* executed runs; a regrade of one is numbered 1, 2, ...
  Tasks,
  Traced,     \* <<x, t>>: the trace of t in run x is retained
  Stamped,    \* tasks that carry content hashes
  Versioned,  \* tasks that carry a semver
  Legacy,     \* <<x, t>>: the row of t in run x has neither a time nor a stamp
  Regraders,  \* invocations of `runs regrade`
  Only,       \* Only[g]: the run it is asked for, or None for all
  Wanted,     \* Wanted[g]: the tasks it is asked for
  MaxClock,   \* bound: ticks of the clock
  EditedParts, \* EditedParts[t]: the parts of t that get edited
  MaxEdits,   \* bound: contents of each part of a task, besides the first
  None

ASSUME RegradeAssumption ==
  /\ Traced \subseteq Runs \X Tasks
  /\ Legacy \subseteq Runs \X Tasks
  /\ Stamped \subseteq Tasks /\ Versioned \subseteq Tasks
  /\ IsFiniteSet(Regraders)
  /\ Only \in [Regraders -> Runs \cup {None}]
  /\ Wanted \in [Regraders -> SUBSET Tasks]
  /\ EditedParts \in [Tasks -> SUBSET {"env", "verifier", "version"}]
  /\ MaxClock \in Nat /\ MaxEdits \in Nat
  /\ None \notin Runs \cup Nat \cup [env : Nat, verifier : Nat, version : Nat]

VARIABLES
  clock,
  def,        \* def[t]: contents of the environment and verifier of t, its semver
  noted,      \* what def was at the last upgrade
  bump,       \* bump[t]: created_at of the latest breaking bump of t, or None
  rows,       \* the rows files
  loaded,     \* loaded[x]: the definitions that the executor of x read, or None
  regrader,   \* regrader[g]: the local state of invocation g
  raced,      \* history: see ReadAll and Begin
  unsettled   \* history: tasks that a killed regrade left without its entry

ledgerVars == <<def, noted, bump>>
vars == <<clock, ledgerVars, rows, loaded, regrader, raced, unsettled>>

(* Numbers stand for contents, equal exactly when the hashes are; "version"    *)
(* is the major.minor prefix of the semver.                                *)
Defs == [env : 0..MaxEdits, verifier : 0..MaxEdits, version : 0..MaxEdits]
First == [env |-> 0, verifier |-> 0, version |-> 0]

(* A row: its created_at, the definition whose stamps it carries, and the      *)
(* environment that it was produced under.                                 *)
Rows == {r \in [run : Runs, number : Nat, task : Tasks, at : 0..MaxClock \cup {None},
                judged : Defs \cup {None}, env : 0..MaxEdits] :
           r.at = None => r.judged = None}
OldRow(x, t) == [run |-> x, number |-> 0, task |-> t, at |-> None, judged |-> None, env |-> 0]
Asleep == [at |-> "idle", stamped |-> 0, defs |-> None, seen |-> {}, todo |-> {},
           batch |-> {}, written |-> {}]
Ended == [Asleep EXCEPT !.at = "over"]
Active(g) == regrader[g].at \notin {"idle", "over"}

Init ==
  /\ clock = 0
  /\ def = [t \in Tasks |-> First]
  /\ noted = def
  /\ bump = [t \in Tasks |-> None]
  /\ rows = {OldRow(xt[1], xt[2]) : xt \in Legacy}
  /\ loaded = [x \in Runs |-> None]
  /\ regrader = [g \in Regraders |-> Asleep]
  /\ raced = FALSE /\ unsettled = {}

Tick ==
  /\ clock < MaxClock /\ clock' = clock + 1
  /\ UNCHANGED <<ledgerVars, rows, loaded, regrader, raced, unsettled>>

-----------------------------------------------------------------------------
(* The task definitions, and `benchmarks upgrade`. *)

(* An edit may put back what was there before. *)
Edit(t, part) ==
  /\ \E content \in 0..MaxEdits \ {def[t][part]} :
       def' = [def EXCEPT ![t][part] = content]
  /\ UNCHANGED <<clock, noted, bump, rows, loaded, regrader, raced, unsettled>>

(* The ledger is read as the newest created_at of each task, in whatever      *)
(* order the lines were appended.                                          *)
LastLine(t, at) == at

Latest(t, at) == IF bump[t] # None /\ bump[t] > at THEN bump[t] ELSE at

Bumped(T, at) == [t \in Tasks |-> IF t \in T THEN Latest(t, at) ELSE bump[t]]

(* classifyTaskChange does not hash the version. *)
Reworked(t) == noted[t].env # def[t].env \/ noted[t].verifier # def[t].verifier

Upgrade ==
  /\ noted # def
  /\ noted' = def
  /\ bump' = Bumped({t \in Tasks : Reworked(t)}, clock)
  /\ UNCHANGED <<clock, def, rows, loaded, regrader, raced, unsettled>>

-----------------------------------------------------------------------------
(* Executors, as far as rows go. *)

Load(x) ==
  /\ loaded[x] = None
  /\ loaded' = [loaded EXCEPT ![x] = def]
  /\ UNCHANGED <<clock, ledgerVars, rows, regrader, raced, unsettled>>

Rollout(x, t) ==
  /\ loaded[x] # None
  /\ \A r \in rows : ~(r.run = x /\ r.number = 0 /\ r.task = t)
  /\ rows' = rows \cup {[run |-> x, number |-> 0, task |-> t, at |-> clock,
                         judged |-> loaded[x][t], env |-> loaded[x][t].env]}
  /\ UNCHANGED <<clock, ledgerVars, loaded, regrader, raced, unsettled>>

-----------------------------------------------------------------------------
(* regradeRuns. *)

Begin(g) ==
  /\ regrader[g].at = "idle"
  /\ regrader' = [regrader EXCEPT ![g].at = "read", ![g].stamped = clock]
  /\ raced' = (raced \/ \E h \in Regraders : Active(h))
  /\ UNCHANGED <<clock, ledgerVars, rows, loaded, unsettled>>

Before(r, time) == r.at = None \/ r.at < time

(* Definitions and rows.  A row as new as the stamp was written while the     *)
(* regrade was starting.  Regrades are not rescored: unless asked for by      *)
(* name they are skipped, and no trace is retained under their run id.       *)
ReadAll(g) ==
  /\ regrader[g].at = "read"
  /\ LET seen == {r \in rows : /\ r.number = 0 /\ r.task \in Wanted[g]
                               /\ Only[g] \in {None, r.run}} IN
       regrader' = [regrader EXCEPT ![g].at = "judge", ![g].defs = def,
                                    ![g].seen = seen, ![g].todo = {r.run : r \in seen}]
  /\ raced' = (raced \/ \E r \in rows : ~Before(r, regrader[g].stamped))
  /\ UNCHANGED <<clock, ledgerVars, rows, loaded, unsettled>>

(* allocateRegradeRunId: no regrade takes more than one number of a run. *)
Numbers == 1..Cardinality(Regraders)
Taken(x, n) == \E r \in rows : r.run = x /\ r.number = n
FirstOfAll(x, n) == n = 1

FirstFree(x, n) == ~Taken(x, n) /\ \A m \in 1..(n - 1) : Taken(x, m)

Regraded(g, r, n) == [r EXCEPT !.number = n, !.at = clock, !.judged = regrader[g].defs[r.task]]

Judge(g, x) ==
  /\ regrader[g].at = "judge" /\ x \in regrader[g].todo
  /\ \E n \in Numbers :
       /\ FirstFree(x, n)
       /\ regrader' = [regrader EXCEPT
            ![g].at = "write", ![g].todo = @ \ {x},
            ![g].batch = {Regraded(g, r, n) : r \in {s \in regrader[g].seen :
                                                       s.run = x /\ <<x, s.task>> \in Traced}}]
  /\ UNCHANGED <<clock, ledgerVars, rows, loaded, raced, unsettled>>

WriteDry(g) ==
  /\ regrader[g].at = "write"
  /\ regrader' = [regrader EXCEPT ![g].at = "judge", ![g].batch = {},
                                  ![g].written = @ \cup regrader[g].batch]
  /\ UNCHANGED <<clock, ledgerVars, rows, loaded, raced, unsettled>>

Write(g) ==
  /\ regrader[g].at = "write"
  /\ rows' = rows \cup regrader[g].batch
  /\ regrader' = [regrader EXCEPT ![g].at = "judge", ![g].batch = {},
                                  ![g].written = @ \cup regrader[g].batch]
  /\ UNCHANGED <<clock, ledgerVars, loaded, raced, unsettled>>

Rescored(g) == {r.task : r \in regrader[g].written}

(* The one ledger entry of the invocation, back-dated to its start. *)
EnterChanged(g) ==
  /\ regrader[g].at = "judge" /\ regrader[g].todo = {}
  /\ bump' = Bumped({t \in Rescored(g) : Reworked(t)}, regrader[g].stamped)
  /\ regrader' = [regrader EXCEPT ![g] = Ended]
  /\ unsettled' = unsettled \ Rescored(g)
  /\ UNCHANGED <<clock, def, noted, rows, loaded, raced>>

EnterNow(g) ==
  /\ regrader[g].at = "judge" /\ regrader[g].todo = {}
  /\ bump' = Bumped(Rescored(g), clock)
  /\ regrader' = [regrader EXCEPT ![g] = Ended]
  /\ unsettled' = unsettled \ Rescored(g)
  /\ UNCHANGED <<clock, def, noted, rows, loaded, raced>>

Enter(g) ==
  /\ regrader[g].at = "judge" /\ regrader[g].todo = {}
  /\ bump' = Bumped(Rescored(g), regrader[g].stamped)
  /\ regrader' = [regrader EXCEPT ![g] = Ended]
  /\ unsettled' = unsettled \ Rescored(g)
  /\ UNCHANGED <<clock, def, noted, rows, loaded, raced>>

Kill(g) ==
  /\ Active(g)
  /\ regrader' = [regrader EXCEPT ![g] = Ended]
  /\ unsettled' = unsettled \cup Rescored(g)
  /\ UNCHANGED <<clock, ledgerVars, rows, loaded, raced>>

Next ==
  \/ Tick \/ Upgrade
  \/ \E t \in Tasks : \E part \in EditedParts[t] : Edit(t, part)
  \/ \E x \in Runs : Load(x) \/ \E t \in Tasks : Rollout(x, t)
  \/ \E g \in Regraders : Begin(g) \/ ReadAll(g) \/ Write(g) \/ Enter(g) \/ Kill(g)
  \/ \E g \in Regraders, x \in Runs : Judge(g, x)

Spec == Init /\ [][Next]_vars

-----------------------------------------------------------------------------
(* stampStaleness: hashes are compared where both sides have them, versions     *)
(* where they do not.                                                      *)
Differs(r, parts) == \E part \in parts : r.judged[part] # def[r.task][part]

Verdict(r) ==
  CASE r.judged = None \/ r.task \notin Stamped \cup Versioned -> "none"
    [] r.judged # None /\ r.task \in Stamped ->
         IF Differs(r, {"env", "verifier"}) THEN "stale" ELSE "fresh"
    [] r.judged # None /\ r.task \in Versioned \ Stamped ->
         IF Differs(r, {"version"}) THEN "stale" ELSE "fresh"

(* isRowStale: stamps that differ are decisive, the time of the last breaking   *)
(* bump decides the rest.                                                  *)
Stale(r) ==
  \/ Verdict(r) = "stale"
  \/ /\ bump[r.task] # None
     /\ IF r.at = None THEN Verdict(r) # "fresh" ELSE r.at < bump[r.task]

Locals == [at : {"idle", "read", "judge", "write", "over"}, stamped : 0..MaxClock,
           defs : [Tasks -> Defs] \cup {None}, seen : SUBSET Rows, todo : SUBSET Runs,
           batch : SUBSET Rows, written : SUBSET Rows]

TypeOK ==
  /\ clock \in 0..MaxClock
  /\ def \in [Tasks -> Defs] /\ noted \in [Tasks -> Defs]
  /\ bump \in [Tasks -> 0..MaxClock \cup {None}]
  /\ rows \subseteq Rows
  /\ loaded \in [Runs -> [Tasks -> Defs] \cup {None}]
  /\ regrader \in [Regraders -> Locals]
  /\ \A g \in Regraders : regrader[g].written \subseteq rows
  /\ raced \in BOOLEAN /\ unsettled \subseteq Tasks

SameOrigin(r, s) == r.run = s.run /\ r.task = s.task
Pending == unsettled \cup UNION {Rescored(g) : g \in {h \in Regraders : Active(h)}}

(* The leaderboard never counts a rollout twice, as first graded and as        *)
(* regraded: not after any sequence of runs, edits, upgrades, regrades, and   *)
(* regrades that were killed and done again.  It needs that regrades do not   *)
(* overlap, and that no row is written in the instant in which one starts.    *)
NoDoubleCount ==
  ~raced => \A r, s \in rows :
    SameOrigin(r, s) /\ r.task \notin Pending /\ ~Stale(r) /\ ~Stale(s) => r = s

(* A regrade never writes under the run id of another. *)
RunIdsDistinct ==
  ~raced => \A r, s \in rows : SameOrigin(r, s) /\ r.number = s.number => r = s

(* Both: each regrade has its rows to itself, and its rollouts to itself on    *)
(* the leaderboard.                                                        *)
RowsApart == NoDoubleCount /\ RunIdsDistinct

(* When a regrade records its entry, what it rescored goes stale and what it   *)
(* wrote does not.                                                         *)
EntrySupersedes ==
  [][\A g \in Regraders :
       ~raced /\ regrader[g].at = "judge" /\ regrader'[g].at = "over" /\ bump' # bump =>
         \A r \in regrader[g].written, s \in regrader[g].seen :
           /\ ~Stale(r) => ~Stale(r)'
           /\ SameOrigin(r, s) => Stale(s)']_vars

(* Retired by the ledger. *)
Superseded(r) == bump[r.task] # None /\ Before(r, bump[r.task])

(* What the ledger retired never counts again, also when a regrade that         *)
(* started before an upgrade appends its entry after it.  What only its        *)
(* stamps retired returns in no step but the edit that puts back what it was   *)
(* judged by.                                                              *)
StaleUnlessRestored ==
  [][\A r \in rows : Stale(r) =>
       \/ Stale(r)'
       \/ ~Superseded(r) /\ def'[r.task] # def[r.task] /\ Verdict(r)' = "fresh"]_vars

(* The strengthening of the last four.  Of the rows of one rollout the ledger   *)
(* has retired all but one; a run has one row of a task and a regrade rescored *)
(* it; and what a regrade that overlaps with no other knows at each of its     *)
(* places.                                                                 *)
Settled ==
  ~raced => \A r, s \in rows :
    SameOrigin(r, s) /\ r.task \notin Pending => Superseded(r) \/ Superseded(s) \/ r = s

Originals == \A r, s \in rows : SameOrigin(r, s) /\ r.number = 0 /\ s.number = 0 => r = s
Sourced == \A r \in rows : \E s \in rows : SameOrigin(r, s) /\ s.number = 0

Mine(g) == regrader[g].written \cup regrader[g].batch
Places ==
  \A g \in Regraders :
    /\ regrader[g].at \in {"judge", "write"} => regrader[g].defs \in [Tasks -> Defs]
    /\ regrader[g].at # "write" => regrader[g].batch = {}
    /\ regrader[g].at \notin {"judge", "write"} => regrader[g].written = {}
    /\ Active(g) => regrader[g].stamped <= clock
KnownTo(g) ==
  LET old(r) == Before(r, regrader[g].stamped) IN
  /\ regrader[g].seen \subseteq rows
  /\ \A s \in regrader[g].seen : s.number = 0 /\ old(s)
  /\ \A r \in rows : old(r) \/ r.number = 0 \/ r \in regrader[g].written
  /\ \A r \in Mine(g) : /\ ~old(r) /\ r.number # 0 /\ r.run \notin regrader[g].todo
                        /\ \E s \in regrader[g].seen : SameOrigin(r, s)
  /\ \A r, s \in Mine(g) : SameOrigin(r, s) => r = s
  /\ \A r \in regrader[g].batch : ~Taken(r.run, r.number)
OneAtATime == \A g, h \in Regraders : Active(g) /\ Active(h) => g = h
Known == \A g \in Regraders : regrader[g].at \in {"judge", "write"} => KnownTo(g)
Orderly == ~raced => Originals /\ Sourced /\ OneAtATime /\ Known

RowsInv == TypeOK /\ Places /\ Orderly /\ Settled /\ RunIdsDistinct

(* benchmark-staleness.ts: what counts was produced under the environment, and  *)
(* judged by the verifier, that its task has now.                           *)
FreshIsCurrent ==
  \A r \in rows : Verdict(r) = "fresh" /\ ~Stale(r) /\ r.task \in Stamped =>
    r.env = def[r.task].env /\ r.judged.verifier = def[r.task].verifier
=============================================================================
