---------------------------- MODULE ReconcileLoop ----------------------------
(***************************************************************************)
(* When the service controller runs a cycle: the interval timer, the call  *)
(* at start, triggers of reconnecting nodes, and the setImmediate that     *)
(* follows a cycle during which another one was asked for.  Cycles never   *)
(* overlap: two flags remember what may not run now.  A trigger within 3   *)
(* seconds of the last cycle's end only sets a flag.                       *)
(***************************************************************************)
EXTENDS Integers

CONSTANT MaxTriggers     (* bound: triggers, and restarts of the controller *)

ASSUME LoopAssumption == MaxTriggers \in Nat

VARIABLES
  isRunning,         (* started: the interval timer ticks                   *)
  isProcessing,      (* a cycle is under way                                *)
  pendingReconcile,  (* one more is asked for                               *)
  immediate,         (* setImmediate(runReconcileLoop) is queued            *)
  recent,            (* Date.now() - lastReconcileAt < RECONCILE_DEBOUNCE_MS *)
  wanted,            (* history: a trigger no cycle has started after       *)
  triggers           (* bound                                               *)

loopVars == <<isRunning, isProcessing, pendingReconcile, immediate, recent, wanted, triggers>>

LoopInit ==
  /\ isRunning = FALSE
  /\ isProcessing = FALSE
  /\ pendingReconcile = FALSE
  /\ immediate = FALSE
  /\ recent = FALSE
  /\ wanted = FALSE
  /\ triggers = 0

(* runReconcileLoop up to its first await: a cycle begins, or is queued    *)
(* behind the one that runs.                                               *)
CycleBegins ==
  /\ ~ isProcessing
  /\ isProcessing' = TRUE
  /\ pendingReconcile' = FALSE
  /\ wanted' = FALSE

CycleQueued ==
  /\ isProcessing
  /\ pendingReconcile' = TRUE
  /\ UNCHANGED isProcessing

Start ==
  /\ ~ isRunning
  /\ isRunning' = TRUE
  /\ CycleBegins \/ (CycleQueued /\ UNCHANGED wanted)
  /\ UNCHANGED <<immediate, recent, triggers>>

(* Only the timer stops: a cycle under way goes on. *)
Stop ==
  /\ isRunning /\ triggers < MaxTriggers
  /\ isRunning' = FALSE
  /\ triggers' = triggers + 1
  /\ UNCHANGED <<isProcessing, pendingReconcile, immediate, recent, wanted>>

Tick ==
  /\ isRunning
  /\ CycleBegins \/ (CycleQueued /\ UNCHANGED wanted)
  /\ UNCHANGED <<isRunning, immediate, recent, triggers>>

Immediate ==
  /\ immediate
  /\ immediate' = FALSE
  /\ CycleBegins \/ (CycleQueued /\ UNCHANGED wanted)
  /\ UNCHANGED <<isRunning, recent, triggers>>

(* A node that reconnects without some of its pods wants replacements.     *)
TriggerReconcile ==
  /\ isRunning /\ triggers < MaxTriggers
  /\ triggers' = triggers + 1
  /\ \/ /\ recent
        /\ pendingReconcile' = TRUE
        /\ wanted' = TRUE
        /\ UNCHANGED isProcessing
     \/ /\ ~ recent
        /\ CycleBegins \/ (CycleQueued /\ wanted' = TRUE)
  /\ UNCHANGED <<isRunning, immediate, recent>>

(* Mutant: what was asked for during the cycle is taken for done. *)
CycleForgets ==
  /\ isProcessing
  /\ isProcessing' = FALSE
  /\ recent' = TRUE
  /\ pendingReconcile' = FALSE
  /\ UNCHANGED <<isRunning, immediate, wanted, triggers>>

(* The finally block, also after an error. *)
CycleEnds ==
  /\ isProcessing
  /\ isProcessing' = FALSE
  /\ recent' = TRUE
  /\ pendingReconcile' = FALSE
  /\ immediate' = (immediate \/ pendingReconcile)
  /\ UNCHANGED <<isRunning, wanted, triggers>>

DebounceEnds ==
  /\ recent
  /\ recent' = FALSE
  /\ UNCHANGED <<isRunning, isProcessing, pendingReconcile, immediate, wanted, triggers>>

LoopStep == Start \/ Stop \/ Tick \/ Immediate \/ TriggerReconcile \/ DebounceEnds

LoopSpec == LoopInit /\ [][LoopStep \/ CycleEnds]_loopVars

-----------------------------------------------------------------------------
LoopTypeOK ==
  /\ isRunning \in BOOLEAN /\ isProcessing \in BOOLEAN /\ pendingReconcile \in BOOLEAN
  /\ immediate \in BOOLEAN /\ recent \in BOOLEAN /\ wanted \in BOOLEAN
  /\ triggers \in 0 .. MaxTriggers

(* No trigger is forgotten: until a cycle starts after it, a flag or a     *)
(* queued call remembers it, whatever cycles, ticks and stops come between.*)
NoLostTrigger == wanted => pendingReconcile \/ immediate

=============================================================================
