---------------------------- MODULE SidecarProofs ----------------------------
(***************************************************************************)
(* Theorems about Sidecar: type correctness, and what its commands keep as  *)
(* long as they do not overlap and see their children come up, for any      *)
(* number of commands, sidecars and runs.                                  *)
(***************************************************************************)
EXTENDS Sidecar, TLAPS

(* None of the properties is inductive: at Quiet they say nothing about what  *)
(* a command knows on its way.  A command that looks at a process, waits for  *)
(* it, or polls its child, has to do with the only one there is; from the    *)
(* removal of the state file to the spawn there is none.                     *)
Dealing == {"health", "wait", "poll"}
Clearing == {"rmState", "rmTokens", "clear", "write", "spawn"}

OneCommand == \A c, d \in UnderWay : c = d
PolledBy(s) == \E c \in Commands : at[c] = "poll" /\ view[c] = s
Named ==
  \A s \in Sidecars : /\ Alive(s) => state = s \/ PolledBy(s)
                      /\ phase[s] = "spawned" => PolledBy(s)
KnownAt ==
  \A c \in Commands :
    /\ at[c] \in Dealing => \A s \in Sidecars : Alive(s) => s = view[c]
    /\ at[c] \in Clearing => \A s \in Sidecars : ~Alive(s)

Owned ==
  /\ \A c \in Commands : at[c] = "spawn" => token = c /\ toolToken = NewToolSecret(c)
  /\ \A s \in Sidecars : Alive(s) => token = secret[s] /\ toolToken = toolSecret[s]

OneEach ==
  \A s \in Sidecars :
    /\ active[s] # {} => Alive(s)
    /\ \A r1, r2 \in active[s] : SessionOf[r1] = SessionOf[r2] => r1 = r2

FilesInv == ~disturbed => OneCommand /\ Named /\ KnownAt /\ Owned
Inv == TypeOK /\ FilesInv /\ OneEach

-----------------------------------------------------------------------------
(* Lemmas. *)

LEMMA InitInv == Init => Inv
<1> SUFFICES ASSUME Init PROVE Inv OBVIOUS
<1> USE DEF Init
<1>1. TypeOK BY DEF TypeOK
<1>2. \A s \in Sidecars : ~Alive(s) BY DEF Alive
<1>3. FilesInv BY <1>2 DEF FilesInv, OneCommand, Named, KnownAt, Owned, UnderWay
<1>4. OneEach BY DEF OneEach
<1> QED BY <1>1, <1>3, <1>4 DEF Inv

LEMMA NewSecretType == \A c \in Commands : /\ NewToolSecret(c) \in Secrets /\ NewToolSecret(c) # None /\ c # None
BY SidecarAssumption DEF NewToolSecret, Secrets

LEMMA NoneIsNoSidecar == None \notin Sidecars
BY SidecarAssumption

(* Types. *)
LEMMA TypesKept == ASSUME TypeOK, [Next]_vars PROVE TypeOK'
<1> USE DEF TypeOK, Over
<1> SUFFICES ASSUME Next PROVE TypeOK'
  BY DEF vars, files, commandVars, processVars, runVars
<1> USE DEF files, commandVars, processVars, runVars, Go
<1>1. ASSUME NEW c \in Commands, Begin(c) PROVE TypeOK' BY <1>1 DEF Begin
<1>2. ASSUME NEW c \in Commands, Look(c) PROVE TypeOK' BY <1>2 DEF Look, Alive
<1>3. ASSUME NEW c \in Commands, Health(c) PROVE TypeOK' BY <1>3 DEF Health
<1>4. ASSUME NEW c \in Commands, Term(c) PROVE TypeOK' BY <1>4 DEF Term, Alive
<1>5. ASSUME NEW c \in Commands, Gone(c) PROVE TypeOK' BY <1>5 DEF Gone
<1>6. ASSUME NEW c \in Commands, StopThrows(c) PROVE TypeOK' BY <1>6 DEF StopThrows
<1>7. ASSUME NEW c \in Commands, RemoveState(c) PROVE TypeOK' BY <1>7 DEF RemoveState
<1>8. ASSUME NEW c \in Commands, RemoveTokens(c) PROVE TypeOK'
  BY <1>8, SidecarAssumption DEF RemoveTokens
<1>9. ASSUME NEW c \in Commands, Clear(c) PROVE TypeOK' BY <1>9 DEF Clear
<1>10. ASSUME NEW c \in Commands, WriteTokens(c) PROVE TypeOK'
  BY <1>10, NewSecretType DEF WriteTokens
<1>11. ASSUME NEW c \in Commands, Spawn(c) PROVE TypeOK'
  <2> USE <1>11 DEF Spawn
  <2> PICK s \in Sidecars :
        /\ phase[s] = "unborn"
        /\ phase' = [phase EXCEPT ![s] = "spawned"]
        /\ secret' = [secret EXCEPT ![s] = c]
        /\ toolSecret' = [toolSecret EXCEPT ![s] = NewToolSecret(c)]
        /\ view' = [view EXCEPT ![c] = s]
    OBVIOUS
  <2>1. NewToolSecret(c) \in Secrets /\ NewToolSecret(c) # None /\ c # None
    BY NewSecretType
  <2>2. \A t \in Sidecars : phase'[t] # "unborn" => secret'[t] # None /\ toolSecret'[t] # None
    BY <2>1
  <2>3. view' \in [Commands -> Sidecars \cup {None}] OBVIOUS
  <2> QED BY <2>1, <2>2, <2>3
<1>12. ASSUME NEW c \in Commands, PollSucceeds(c) PROVE TypeOK' BY <1>12 DEF PollSucceeds
<1>13. ASSUME NEW c \in Commands, StartThrows(c) PROVE TypeOK' BY <1>13 DEF StartThrows, Alive
<1>14. ASSUME NEW c \in Commands, KillCommand(c) PROVE TypeOK' BY <1>14 DEF KillCommand, Alive
<1>15. ASSUME NEW s \in Sidecars, Boot(s) PROVE TypeOK' BY <1>15 DEF Boot
<1>16. ASSUME NEW s \in Sidecars, Exit(s) PROVE TypeOK' BY <1>16 DEF Exit
<1>17. ASSUME NEW s \in Sidecars, Crash(s) PROVE TypeOK' BY <1>17 DEF Crash, Alive
<1>18. ASSUME NEW r \in Runs, PostRun(r) PROVE TypeOK' BY <1>18 DEF PostRun
<1>19. ASSUME NEW r \in Runs, RunEnds(r) PROVE TypeOK' BY <1>19 DEF RunEnds
<1> QED
  BY <1>1, <1>2, <1>3, <1>4, <1>5, <1>6, <1>7, <1>8, <1>9, <1>10, <1>11, <1>12, <1>13, <1>14,
     <1>15, <1>16, <1>17, <1>18, <1>19 DEF Next, CommandStep

(* Runs are active in living sidecars, one of a session. *)
LEMMA OneEachKept == ASSUME TypeOK, OneEach, [Next]_vars PROVE OneEach'
<1> USE DEF OneEach, Alive
<1>1. CASE UNCHANGED vars BY <1>1 DEF vars, runVars, processVars
<1>2. ASSUME NEW c \in Commands, Term(c) PROVE OneEach'
  BY <1>2, NoneIsNoSidecar DEF Term, TypeOK, runVars
<1>3. ASSUME NEW c \in Commands, Spawn(c) PROVE OneEach'
  BY <1>3 DEF Spawn, TypeOK, runVars
<1>4. ASSUME NEW c \in Commands,
             Begin(c) \/ KillCommand(c) \/ Look(c) \/ Health(c) \/ Gone(c) \/ StopThrows(c)
             \/ RemoveState(c) \/ RemoveTokens(c) \/ Clear(c) \/ WriteTokens(c)
             \/ PollSucceeds(c) \/ StartThrows(c)
      PROVE  OneEach'
  <2>1. UNCHANGED <<phase, active>>
    BY <1>4 DEF Begin, KillCommand, Look, Health, Gone, StopThrows, RemoveState, RemoveTokens,
      Clear, WriteTokens, PollSucceeds, StartThrows, runVars, processVars
  <2> QED BY <2>1
<1>5. ASSUME NEW s \in Sidecars, Boot(s) \/ Exit(s) PROVE OneEach'
  BY <1>5, NoneIsNoSidecar DEF Boot, Exit, TypeOK, runVars
<1>6. ASSUME NEW s \in Sidecars, Crash(s) PROVE OneEach'
  BY <1>6, NoneIsNoSidecar DEF Crash, TypeOK
<1>7. ASSUME NEW r \in Runs, PostRun(r) PROVE OneEach'
  BY <1>7 DEF PostRun, Free, TypeOK, processVars
<1>8. ASSUME NEW r \in Runs, RunEnds(r) PROVE OneEach'
  BY <1>8 DEF RunEnds, TypeOK, processVars
<1> QED BY <1>1, <1>2, <1>3, <1>4, <1>5, <1>6, <1>7, <1>8 DEF Next, CommandStep

(* Commands that do not overlap. *)
LEMMA OneCommandKept ==
  ASSUME TypeOK, ~disturbed => OneCommand, [Next]_vars
  PROVE  ~disturbed' => OneCommand'
<1> USE DEF OneCommand, UnderWay, Over, TypeOK
<1> SUFFICES ASSUME ~disturbed' PROVE OneCommand' OBVIOUS
<1>1. CASE UNCHANGED vars BY <1>1 DEF vars, commandVars
<1>2. ASSUME NEW c \in Commands, Begin(c) PROVE OneCommand' BY <1>2 DEF Begin, Go, Quiet
<1>3. ASSUME NEW c \in Commands, CommandStep(c) \/ KillCommand(c) PROVE OneCommand'
  <2>1. at[c] \notin {"idle", "done", "threw"} /\ (disturbed => disturbed')
    BY <1>3 DEF CommandStep, KillCommand, Look, Health, Term, Gone, StopThrows, RemoveState,
      RemoveTokens, Clear, WriteTokens, Spawn, PollSucceeds, StartThrows, Go
  <2>2. \A d \in Commands \ {c} : at'[d] = at[d]
    BY <1>3 DEF CommandStep, KillCommand, Look, Health, Term, Gone, StopThrows, RemoveState,
      RemoveTokens, Clear, WriteTokens, Spawn, PollSucceeds, StartThrows, Go
  <2> QED BY <2>1, <2>2
<1>4. ASSUME NEW s \in Sidecars, Boot(s) \/ Exit(s) \/ Crash(s) PROVE OneCommand'
  BY <1>4 DEF Boot, Exit, Crash, commandVars
<1>5. ASSUME NEW r \in Runs, PostRun(r) \/ RunEnds(r) PROVE OneCommand'
  BY <1>5 DEF PostRun, RunEnds, commandVars
<1> QED BY <1>1, <1>2, <1>3, <1>4, <1>5 DEF Next

(* What follows of the files' invariant when c is the command under way. *)
LEMMA Alone ==
  ASSUME TypeOK, OneCommand, NEW c \in UnderWay
  PROVE  /\ c \in Commands
         /\ \A d \in Commands \ {c} : at[d] \in {"idle", "done", "threw"}
         /\ \A s \in Sidecars : PolledBy(s) <=> at[c] = "poll" /\ view[c] = s
BY DEF OneCommand, UnderWay, Over, TypeOK, PolledBy

(* It is enough to look at that command. *)
LEMMA KeptAlone ==
  ASSUME NEW c \in Commands,
         \A d \in Commands \ {c} : at'[d] \in {"idle", "done", "threw"},
         \A s \in Sidecars :
           /\ Alive(s)' => state' = s \/ (at'[c] = "poll" /\ view'[c] = s)
           /\ phase'[s] = "spawned" => at'[c] = "poll" /\ view'[c] = s
           /\ at'[c] \in Dealing /\ Alive(s)' => s = view'[c]
           /\ at'[c] \in Clearing => ~Alive(s)'
           /\ Alive(s)' => token' = secret'[s] /\ toolToken' = toolSecret'[s],
         at'[c] = "spawn" => token' = c /\ toolToken' = NewToolSecret(c)
  PROVE  Named' /\ KnownAt' /\ Owned'
<1>1. Named' BY DEF Named, PolledBy
<1>2. KnownAt' BY DEF KnownAt, Dealing, Clearing
<1>3. Owned' BY DEF Owned, NewToolSecret
<1> QED BY <1>1, <1>2, <1>3

LEMMA CommandKept ==
  ASSUME TypeOK, OneCommand, Named, KnownAt, Owned,
         NEW c \in Commands, CommandStep(c) \/ KillCommand(c), ~disturbed'
  PROVE  Named' /\ KnownAt' /\ Owned'
<1> USE DEF TypeOK, Alive, Dealing, Clearing
<1>1. c \in UnderWay
  BY DEF CommandStep, KillCommand, Look, Health, Term, Gone, StopThrows, RemoveState,
    RemoveTokens, Clear, WriteTokens, Spawn, PollSucceeds, StartThrows, Go, UnderWay, Over
<1>2. \A d \in Commands \ {c} : at'[d] \in {"idle", "done", "threw"}
  BY <1>1, Alone
    DEF CommandStep, KillCommand, Look, Health, Term, Gone, StopThrows, RemoveState,
    RemoveTokens, Clear, WriteTokens, Spawn, PollSucceeds, StartThrows, Go
<1>3. \A s \in Sidecars : s # None /\ (PolledBy(s) <=> at[c] = "poll" /\ view[c] = s)
  BY <1>1, Alone, NoneIsNoSidecar
<1> DEFINE Kept(s) == /\ Alive(s)' => state' = s \/ (at'[c] = "poll" /\ view'[c] = s)
                      /\ phase'[s] = "spawned" => at'[c] = "poll" /\ view'[c] = s
                      /\ at'[c] \in Dealing /\ Alive(s)' => s = view'[c]
                      /\ at'[c] \in Clearing => ~Alive(s)'
                      /\ Alive(s)' => token' = secret'[s] /\ toolToken' = toolSecret'[s]
<1>4. \A s \in Sidecars : /\ Alive(s) => state = s \/ (at[c] = "poll" /\ view[c] = s)
                          /\ phase[s] = "spawned" => at[c] = "poll" /\ view[c] = s
                          /\ at[c] \in Dealing /\ Alive(s) => s = view[c]
                          /\ at[c] \in Clearing => ~Alive(s)
                          /\ Alive(s) => token = secret[s] /\ toolToken = toolSecret[s]
  BY <1>3 DEF Named, KnownAt, Owned
<1>5. (at'[c] = "spawn" => token' = c /\ toolToken' = NewToolSecret(c)) /\ \A s \in Sidecars : Kept(s)
  <2>1. CASE Look(c) BY <2>1, <1>3, <1>4 DEF Look, Go, files, processVars
  <2>2. CASE Health(c) BY <2>2, <1>3, <1>4 DEF Health, Go, files, processVars
  <2>3. CASE Term(c) BY <2>3, <1>3, <1>4 DEF Term, Go, files
  <2>4. CASE Gone(c) BY <2>4, <1>3, <1>4 DEF Gone, Go, files, processVars
  <2>5. CASE StopThrows(c) BY <2>5, <1>3, <1>4 DEF StopThrows, Go, files, processVars
  <2>6. CASE RemoveState(c) BY <2>6, <1>3, <1>4 DEF RemoveState, Go, processVars
  <2>7. CASE RemoveTokens(c) BY <2>7, <1>3, <1>4 DEF RemoveTokens, Go, processVars
  <2>8. CASE Clear(c) BY <2>8, <1>3, <1>4 DEF Clear, Go, processVars
  <2>9. CASE WriteTokens(c) BY <2>9, <1>3, <1>4 DEF WriteTokens, Go, processVars
  <2>10. CASE Spawn(c) BY <2>10, <1>3, <1>4 DEF Spawn, Go, files, Owned
  <2>11. CASE PollSucceeds(c) BY <2>11, <1>3, <1>4 DEF PollSucceeds, Go, files, processVars
  <2>12. CASE StartThrows(c) BY <2>12, <1>3, <1>4 DEF StartThrows, Go, files, processVars
  <2>13. CASE KillCommand(c) BY <2>13, <1>3, <1>4 DEF KillCommand, files, processVars
  <2> QED BY <2>1, <2>2, <2>3, <2>4, <2>5, <2>6, <2>7, <2>8, <2>9, <2>10, <2>11, <2>12, <2>13
        DEF CommandStep
<1> QED BY <1>2, <1>5, KeptAlone

(* A command begins when no other is under way, so nothing is being spawned. *)
LEMMA BeginKept ==
  ASSUME TypeOK, OneCommand, Named, KnownAt, Owned, NEW c \in Commands, Begin(c), ~disturbed'
  PROVE  Named' /\ KnownAt' /\ Owned'
<1> USE DEF TypeOK, Begin, Go, Alive
<1>1. Quiet BY DEF Quiet, UnderWay, Over
<1>2. \A d \in Commands : at[d] \in {"idle", "done", "threw"} BY <1>1 DEF Quiet, UnderWay, Over
<1>3. \A s \in Sidecars : ~PolledBy(s) BY <1>2 DEF PolledBy
<1>4. at'[c] \in {"look", "term"} /\ \A d \in Commands \ {c} : at'[d] = at[d] OBVIOUS
<1>5. UNCHANGED <<state, token, toolToken, phase, secret, toolSecret, view>>
  BY DEF files, processVars
<1>6. \A s \in Sidecars : /\ Alive(s) => state = s
                          /\ phase[s] # "spawned"
                          /\ Alive(s) => token = secret[s] /\ toolToken = toolSecret[s]
  BY <1>3 DEF Named, Owned
<1> QED BY <1>2, <1>4, <1>5, <1>6, KeptAlone DEF Dealing, Clearing

(* Only a child that its command polls can come up; what exits or crashes is  *)
(* all there is.                                                           *)
LEMMA SidecarKept ==
  ASSUME TypeOK, OneCommand, Named, KnownAt, Owned,
         NEW s \in Sidecars, Boot(s) \/ Exit(s) \/ Crash(s)
  PROVE  Named' /\ KnownAt' /\ Owned'
<1> USE DEF TypeOK, Alive
<1>1. UNCHANGED <<token, toolToken, at, view, secret, toolSecret>>
  BY DEF Boot, Exit, Crash, commandVars, files
<1>2. \A t \in Sidecars : PolledBy(t)' <=> PolledBy(t) BY <1>1 DEF PolledBy
<1>3. \A t \in Sidecars : t # None BY NoneIsNoSidecar
<1>4. \A t \in Sidecars : Alive(s) /\ Alive(t) => t = s
  BY DEF Named, KnownAt, PolledBy, Dealing
<1>5. Alive(s) BY <1>3 DEF Boot, Exit, Crash
<1>6. \A t \in Sidecars : t # s => ~Alive(t) /\ ~Alive(t)'
  BY <1>4, <1>5 DEF Boot, Exit, Crash
<1>7. Named'
  <2>1. CASE Boot(s)
    <3>1. state' = s /\ phase'[s] = "listening" BY <2>1 DEF Boot
    <3> QED BY <3>1, <1>3, <1>6 DEF Named
  <2>2. CASE Exit(s) \/ Crash(s)
    <3>1. phase'[s] = "gone" BY <2>2 DEF Exit, Crash
    <3> QED BY <3>1, <1>3, <1>6 DEF Named
  <2> QED BY <2>1, <2>2
<1>8. KnownAt'
  BY <1>1, <1>5, <1>6 DEF KnownAt
<1>9. Owned' BY <1>1, <1>5, <1>6 DEF Owned, NewToolSecret
<1> QED BY <1>7, <1>8, <1>9

LEMMA FilesKept == ASSUME TypeOK, FilesInv, [Next]_vars PROVE FilesInv'
<1> SUFFICES ASSUME ~disturbed' PROVE OneCommand' /\ Named' /\ KnownAt' /\ Owned'
  BY DEF FilesInv
<1>1. ~disturbed
  BY DEF TypeOK, Next, CommandStep, Begin, KillCommand, Look, Health, Term, Gone, StopThrows,
    RemoveState, RemoveTokens, Clear, WriteTokens, Spawn, PollSucceeds, StartThrows, Boot, Exit,
    Crash, PostRun, RunEnds, vars
<1>2. OneCommand /\ Named /\ KnownAt /\ Owned BY <1>1 DEF FilesInv
<1>3. OneCommand' BY <1>2, OneCommandKept
<1>4. ASSUME UNCHANGED <<files, at, view, phase, secret, toolSecret>>
      PROVE  Named' /\ KnownAt' /\ Owned'
  BY <1>2, <1>4 DEF Named, KnownAt, Owned, PolledBy, Alive, files, NewToolSecret
<1>5. ASSUME NEW r \in Runs, PostRun(r) \/ RunEnds(r)
      PROVE  UNCHANGED <<files, at, view, phase, secret, toolSecret>>
  BY <1>5 DEF PostRun, RunEnds, commandVars, processVars
<1>6. UNCHANGED vars => UNCHANGED <<files, at, view, phase, secret, toolSecret>>
  BY DEF vars, commandVars, processVars
<1>7. ASSUME NEW c \in Commands, Begin(c) \/ CommandStep(c) \/ KillCommand(c)
      PROVE  Named' /\ KnownAt' /\ Owned'
  BY <1>2, <1>7, CommandKept, BeginKept
<1>8. ASSUME NEW s \in Sidecars, Boot(s) \/ Exit(s) \/ Crash(s)
      PROVE  Named' /\ KnownAt' /\ Owned'
  BY <1>2, <1>8, SidecarKept
<1> QED BY <1>3, <1>4, <1>5, <1>6, <1>7, <1>8 DEF Next

LEMMA Invariance == Spec => []Inv
<1>1. Inv /\ [Next]_vars => Inv' BY TypesKept, FilesKept, OneEachKept DEF Inv
<1> QED BY InitInv, <1>1, PTL DEF Spec

-----------------------------------------------------------------------------
(* Every reachable state is well typed. *)
THEOREM TypeCorrect == Spec => []TypeOK
BY Invariance, PTL DEF Inv

(* Commands that do not overlap and see their children come up orphan no       *)
(* sidecar, whatever the sidecars do.                                      *)
THEOREM NoneOrphaned == Spec => []NoOrphan
<1>1. Inv => NoOrphan
  BY NoneIsNoSidecar
    DEF Inv, FilesInv, NoOrphan, Quiet, UnderWay, Over, Named, PolledBy, Alive
<1> QED BY Invariance, <1>1, PTL

(* ... the token files are those of the sidecar that lives ...               *)
THEOREM TokensAreIts == Spec => []TokensMatch
<1>1. Inv => TokensMatch BY DEF Inv, FilesInv, TokensMatch, Owned, TypeOK
<1> QED BY Invariance, <1>1, PTL

(* ... and no session is in use twice, in one sidecar or in two.             *)
THEOREM SessionsExclude == Spec => []SessionExclusive
<1>1. ASSUME Inv, ~disturbed, NEW s \in Sidecars, NEW t \in Sidecars, Alive(s), Alive(t)
      PROVE  s = t
  BY <1>1 DEF Inv, FilesInv, Named, KnownAt, PolledBy, Dealing
<1>2. Inv => SessionExclusive
  BY <1>1 DEF Inv, SessionExclusive, OneEach
<1> QED BY Invariance, <1>2, PTL
=============================================================================
