------------------------------ MODULE Sidecar ------------------------------
(***************************************************************************)
(* The conversation sidecar as a process: the commands that start, stop and *)
(* repair it (src/src/runtime/conversation/lifecycle.ts), its boot, its      *)
(* shutdown, and its registry of active runs (sidecar.ts).                  *)
(*                                                                         *)
(* The commands and the sidecars share three files: the state file, which   *)
(* names the sidecar, and two token files.  Nothing locks them.  A step of   *)
(* a command is one read or write of the state file, a write of the tokens, *)
(* or what it learns from another process.                                 *)
(***************************************************************************)
EXTENDS Naturals, FiniteSets

CONSTANTS
  Commands,     \* invocations of the CLI or of Desktop
  Kind,         \* Kind[c]: "start", "stop" or "repair"
  Requested,    \* Requested[c]: the tool token it brings along, or None
  MaxSidecars,  \* bound: processes ever spawned
  Runs,         \* conversation runs that clients post
  SessionOf,    \* SessionOf[r]: the Pi session of run r
  None

Sidecars == 1..MaxSidecars
Secrets == (Commands \cup {Requested[c] : c \in Commands}) \ {None}

ASSUME SidecarAssumption ==
  /\ Kind \in [Commands -> {"start", "stop", "repair"}]
  /\ DOMAIN Requested = Commands
  /\ MaxSidecars \in Nat
  /\ DOMAIN SessionOf = Runs
  /\ None \notin Commands \cup Sidecars

VARIABLES
  state, token, toolToken,  \* the files, or None
  at,         \* at[c]: where command c is
  view,       \* view[c]: the sidecar it deals with, or None
  phase,      \* phase[s]: of process s
  secret, toolSecret,       \* what s was started with
  active,     \* active[s]: its activePiSessions, as a set of runs
  posted,     \* runs that were posted
  disturbed   \* history: two commands overlapped, or a child was left behind

files == <<state, token, toolToken>>
commandVars == <<at, view>>
processVars == <<phase, secret, toolSecret>>
runVars == <<active, posted>>
vars == <<files, commandVars, processVars, runVars, disturbed>>

Over == {"done", "threw"}
UnderWay == {c \in Commands : at[c] \notin {"idle"} \cup Over}
Quiet == UnderWay = {}
Alive(s) == s # None /\ phase[s] \in {"spawned", "listening", "stopping"}

Init ==
  /\ state = None /\ token = None /\ toolToken = None
  /\ at = [c \in Commands |-> "idle"]
  /\ view = [c \in Commands |-> None]
  /\ phase = [s \in Sidecars |-> "unborn"]
  /\ secret = [s \in Sidecars |-> None] /\ toolSecret = [s \in Sidecars |-> None]
  /\ active = [s \in Sidecars |-> {}] /\ posted = {}
  /\ disturbed = FALSE

-----------------------------------------------------------------------------
(* The commands. *)

Go(c, from, to) == at[c] = from /\ at' = [at EXCEPT ![c] = to]

Begin(c) ==
  /\ Go(c, "idle", IF Kind[c] = "start" THEN "look" ELSE "term")
  /\ disturbed' = (disturbed \/ ~Quiet)
  /\ UNCHANGED <<files, view, processVars, runVars>>

(* startConversationRuntime: is the process that the state file names alive? *)
Look(c) ==
  /\ Go(c, "look", IF Alive(state) THEN "health" ELSE "clear")
  /\ view' = [view EXCEPT ![c] = IF Alive(state) THEN state ELSE None]
  /\ UNCHANGED <<files, processVars, runVars, disturbed>>

(* Only a sidecar that listens can answer, and a slow one, or one of another *)
(* version, counts as unhealthy.                                           *)
ToolSecretMatches(c) == Requested[c] = None \/ toolToken = Requested[c]
Health(c) ==
  /\ \/ /\ Go(c, "health", "done")
        /\ phase[view[c]] = "listening" /\ ToolSecretMatches(c)
     \/ Go(c, "health", "term")
  /\ UNCHANGED <<files, view, processVars, runVars, disturbed>>

(* stopConversationRuntime: SIGTERM, which a sidecar heeds once. *)
TermUnread(c) ==
  /\ Go(c, "term", "rmState")
  /\ UNCHANGED <<files, view, processVars, runVars, disturbed>>

Term(c) ==
  /\ Go(c, "term", IF Alive(state) THEN "wait" ELSE "rmState")
  /\ view' = [view EXCEPT ![c] = IF Alive(state) THEN state ELSE None]
  /\ phase' = IF Alive(state)
              THEN [phase EXCEPT ![state] = IF @ = "listening" THEN "stopping" ELSE @]
              ELSE phase
  /\ UNCHANGED <<files, secret, toolSecret, runVars, disturbed>>

Gone(c) ==
  /\ ~Alive(view[c])
  /\ Go(c, "wait", "rmState")
  /\ UNCHANGED <<files, view, processVars, runVars, disturbed>>

(* Five seconds have passed. *)
StopThrows(c) ==
  /\ Alive(view[c])
  /\ Go(c, "wait", "threw")
  /\ UNCHANGED <<files, view, processVars, runVars, disturbed>>

RemoveState(c) ==
  /\ Go(c, "rmState", "rmTokens")
  /\ state' = None
  /\ UNCHANGED <<token, toolToken, view, processVars, runVars, disturbed>>

RemoveTokens(c) ==
  /\ \/ Kind[c] = "stop" /\ Go(c, "rmTokens", "done")
     \/ Kind[c] = "start" /\ Go(c, "rmTokens", "clear")
     \/ Kind[c] = "repair" /\ Go(c, "rmTokens", "look")
  /\ token' = None /\ toolToken' = None
  /\ UNCHANGED <<state, view, processVars, runVars, disturbed>>

(* Make room for the new sidecar, write its tokens, spawn it. *)
Clear(c) ==
  /\ Go(c, "clear", "write")
  /\ state' = None
  /\ UNCHANGED <<token, toolToken, view, processVars, runVars, disturbed>>

NewToolSecretAsGiven(c) == Requested[c]

NewToolSecret(c) == IF Requested[c] = None THEN c ELSE Requested[c]

WriteTokensKeepingTool(c) ==
  /\ Go(c, "write", "spawn")
  /\ token' = c /\ toolToken' = IF toolToken = None THEN NewToolSecret(c) ELSE toolToken
  /\ UNCHANGED <<state, view, processVars, runVars, disturbed>>

WriteTokens(c) ==
  /\ Go(c, "write", "spawn")
  /\ token' = c /\ toolToken' = NewToolSecret(c)
  /\ UNCHANGED <<state, view, processVars, runVars, disturbed>>

Spawn(c) ==
  /\ Go(c, "spawn", "poll")
  /\ \E s \in Sidecars :
       /\ phase[s] = "unborn" /\ \A t \in 1..(s - 1) : phase[t] # "unborn"
       /\ phase' = [phase EXCEPT ![s] = "spawned"]
       /\ secret' = [secret EXCEPT ![s] = c]
       /\ toolSecret' = [toolSecret EXCEPT ![s] = NewToolSecret(c)]
       /\ view' = [view EXCEPT ![c] = s]
  /\ UNCHANGED <<files, runVars, disturbed>>

(* Any healthy sidecar that the state file names will do. *)
PollSucceeds(c) ==
  /\ state # None /\ phase[state] = "listening"
  /\ Go(c, "poll", "done")
  /\ UNCHANGED <<files, view, processVars, runVars, disturbed>>

StartThrowsOnExit(c) ==
  /\ ~Alive(view[c])
  /\ Go(c, "poll", "threw")
  /\ UNCHANGED <<files, view, processVars, runVars, disturbed>>

(* The child has exited, or eight seconds have passed and it may yet come up. *)
StartThrows(c) ==
  /\ Go(c, "poll", "threw")
  /\ disturbed' = (disturbed \/ Alive(view[c]))
  /\ UNCHANGED <<files, view, processVars, runVars>>

(* The command is killed. *)
KillCommand(c) ==
  /\ c \in UnderWay
  /\ at' = [at EXCEPT ![c] = "threw"]
  /\ disturbed' = (disturbed \/ (at[c] = "poll" /\ Alive(view[c])))
  /\ UNCHANGED <<files, view, processVars, runVars>>

CommandStep(c) ==
  \/ Look(c) \/ Health(c) \/ Term(c) \/ Gone(c) \/ StopThrows(c)
  \/ RemoveState(c) \/ RemoveTokens(c) \/ Clear(c) \/ WriteTokens(c) \/ Spawn(c)
  \/ PollSucceeds(c) \/ StartThrows(c)

-----------------------------------------------------------------------------
(* The sidecars. *)

(* startConversationSidecar listens and writes the state file. *)
Boot(s) ==
  /\ phase[s] = "spawned"
  /\ phase' = [phase EXCEPT ![s] = "listening"]
  /\ state' = s
  /\ UNCHANGED <<token, toolToken, commandVars, secret, toolSecret, runVars, disturbed>>

(* close: the server has ended every response; the state file is removed,    *)
(* whoever wrote it.                                                       *)
ExitStateFirst(s) ==
  /\ phase[s] = "stopping"
  /\ \/ state = s /\ state' = None /\ UNCHANGED phase
     \/ active[s] = {} /\ phase' = [phase EXCEPT ![s] = "gone"] /\ UNCHANGED state
  /\ UNCHANGED <<token, toolToken, commandVars, secret, toolSecret, runVars, disturbed>>

Exit(s) ==
  /\ phase[s] = "stopping" /\ active[s] = {}
  /\ phase' = [phase EXCEPT ![s] = "gone"]
  /\ state' = None
  /\ UNCHANGED <<token, toolToken, commandVars, secret, toolSecret, runVars, disturbed>>

Crash(s) ==
  /\ Alive(s)
  /\ phase' = [phase EXCEPT ![s] = "gone"]
  /\ active' = [active EXCEPT ![s] = {}]
  /\ UNCHANGED <<files, commandVars, secret, toolSecret, posted, disturbed>>

(* POST /v1/runs: a client goes by the state file and the token file.  The   *)
(* token must be the sidecar's; a session that is active there is refused.  *)
Free(r, s) == \A other \in active[s] : SessionOf[other] # SessionOf[r]

PostRun(r) ==
  /\ r \notin posted
  /\ state # None /\ phase[state] = "listening"
  /\ token = secret[state]
  /\ Free(r, state)
  /\ active' = [active EXCEPT ![state] = @ \cup {r}]
  /\ posted' = posted \cup {r}
  /\ UNCHANGED <<files, commandVars, processVars, disturbed>>

(* The finally block of the handler. *)
RunEnds(r) ==
  /\ \E s \in Sidecars : r \in active[s]
  /\ active' = [s \in Sidecars |-> active[s] \ {r}]
  /\ UNCHANGED <<files, commandVars, processVars, posted, disturbed>>

Next ==
  \/ \E c \in Commands : Begin(c) \/ CommandStep(c) \/ KillCommand(c)
  \/ \E s \in Sidecars : Boot(s) \/ Exit(s) \/ Crash(s)
  \/ \E r \in Runs : PostRun(r) \/ RunEnds(r)

Spec == Init /\ [][Next]_vars

(* Commands have deadlines for all they wait for.  A run of a stopping        *)
(* sidecar is aborted, and comes to its end (CancelledRunEnds in            *)
(* ConversationRun).                                                       *)
FairSpec ==
  /\ Spec
  /\ \A c \in Commands : WF_vars(CommandStep(c))
  /\ \A s \in Sidecars : WF_vars(Exit(s))
  /\ \A r \in Runs : WF_vars(RunEnds(r))

-----------------------------------------------------------------------------
TypeOK ==
  /\ state \in Sidecars \cup {None}
  /\ token \in Commands \cup {None}
  /\ toolToken \in Secrets \cup {None}
  /\ at \in [Commands -> {"idle", "look", "health", "term", "wait", "rmState", "rmTokens",
                          "clear", "write", "spawn", "poll"} \cup Over]
  /\ view \in [Commands -> Sidecars \cup {None}]
  /\ phase \in [Sidecars -> {"unborn", "spawned", "listening", "stopping", "gone"}]
  /\ secret \in [Sidecars -> Commands \cup {None}]
  /\ toolSecret \in [Sidecars -> Secrets \cup {None}]
  /\ \A s \in Sidecars : phase[s] # "unborn" => secret[s] # None /\ toolSecret[s] # None
  /\ active \in [Sidecars -> SUBSET Runs] /\ posted \subseteq Runs
  /\ disturbed \in BOOLEAN

(* Commands that are given one after the other, and see their child come up, *)
(* lose no sidecar: whatever crashed, was slow to answer, or did not stop in *)
(* time, a sidecar that listens is the one that the state file names.       *)
NoOrphan ==
  ~disturbed /\ Quiet => \A s \in Sidecars : phase[s] \in {"spawned", "listening"} => state = s

(* ... and the token files are those it was started with. *)
TokensMatch ==
  ~disturbed /\ Quiet /\ state # None /\ Alive(state) =>
    token = secret[state] /\ toolToken = toolSecret[state]

(* ... and no Pi session is used by two runs at once, although an old sidecar *)
(* may go on with its runs long after it was told to stop.                  *)
SessionExclusive ==
  ~disturbed =>
    \A s1, s2 \in Sidecars : \A r1 \in active[s1], r2 \in active[s2] :
      SessionOf[r1] = SessionOf[r2] => r1 = r2

(* Every command ends, though sidecars may be slow, crash, or never answer. *)
CommandsEnd == \A c \in Commands : (at[c] \in {"look", "term"}) ~> (at[c] \in Over)
=============================================================================
