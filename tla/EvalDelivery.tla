---------------------------- MODULE EvalDelivery ----------------------------
(***************************************************************************)
(* What `understudy evals build` promises of one --out directory: however  *)
(* many builds are started, interrupted and resumed, the directory appears *)
(* once, it is a whole answer to the one window that was bound first, and  *)
(* it never changes afterwards.                                            *)
(***************************************************************************)
EXTENDS FiniteSets

CONSTANTS
  Captures,  \* the captures of the workload
  None

VARIABLES
  ingested,  \* the captures that the gateway lists
  order,     \* the window that was bound, and what it listed then
  delivered  \* the directory: None until it is there

vars == <<ingested, order, delivered>>

Init ==
  /\ ingested \subseteq Captures
  /\ order = None
  /\ delivered = None

(* A capture of an earlier time may be ingested late. *)
Ingest ==
  /\ \E c \in Captures \ ingested : ingested' = ingested \cup {c}
  /\ UNCHANGED <<order, delivered>>

(* The first build to get so far binds its window for every later one. *)
Bind ==
  /\ order = None
  /\ \E window \in SUBSET Captures :
       order' = [window |-> window, listed |-> window \cap ingested]
  /\ UNCHANGED <<ingested, delivered>>

(* Every capture that was listed when the window was bound is accounted for, *)
(* as a raw trace or as a skipped reference, and nothing from outside it.   *)
Deliver ==
  /\ order # None /\ delivered = None
  /\ \E rows, skipped \in SUBSET (order.window \cap ingested) :
       /\ rows # {} /\ rows \cap skipped = {}
       /\ order.listed \subseteq rows \cup skipped
       /\ delivered' = [window |-> order.window, rows |-> rows, skipped |-> skipped]
  /\ UNCHANGED <<ingested, order>>

Next == Ingest \/ Bind \/ Deliver

Spec == Init /\ [][Next]_vars
=============================================================================
