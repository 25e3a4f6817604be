------------------------------ MODULE Endpoints ------------------------------
(***************************************************************************)
(* The audio devices of one machine and the daemon's hold on them: what    *)
(* src/src/audio/playback.rs and src/src/audio/capture.rs have in common.  *)
(* A task keeps a handle on a device and replaces it when another one is   *)
(* chosen; behind the handle a worker thread opens a stream, watches it    *)
(* and opens it again.  handle.stop() joins the worker, so closing a       *)
(* handle is one step here.                                                *)
(*                                                                         *)
(* Time is counted in seconds: a second passes only when nobody is due to  *)
(* move, so opening a device and noticing a flag take less than one.       *)
(* Devices come, go and fail at any time; `steady' counts from the last    *)
(* such event.                                                             *)
(***************************************************************************)
EXTENDS Naturals, FiniteSets

CONSTANTS
  Ends,     \* the devices, numbers in the order the host lists them
  Picks,  \* what may be chosen: indices into that list, and Default
  Default,  \* no index: the host's default device
  None,     \* no device
  Horizon   \* bound on `steady'

ASSUME EndsAssumption == Ends \subseteq Nat /\ IsFiniteSet(Ends) /\ None \notin Ends
ASSUME PicksAssumption == Picks \ {Default} \subseteq Nat /\ Default \notin Nat
ASSUME HorizonAssumption == Horizon \in Nat

VARIABLES
  kind,     \* "playback", "mic" or "loopback": what the process is run for
  present,  \* the devices there are
  default,  \* the default one, None without any
  wanted,   \* the value of the device watch channel
  unseen,   \* it has been sent since device_rx last looked
  sup,      \* the task: "open", "watch" (it holds a handle) or "pause"
  chosen,   \* the choice the handle was opened with
  worker,   \* "none", "try", "play" or "wait"
  stream,   \* the device of the open stream
  flowing,  \* the stream calls back
  failed,   \* playback: the stream's flag; capture: the handle's error
  rest,     \* seconds left of the pause of the task or the worker
  since,    \* seconds since the worker last looked at the default device
  steady    \* seconds since the last fault or choice

world == <<present, default, wanted>>
handle == <<sup, chosen, worker, stream, rest, since>>
endVars == <<kind, world, unseen, handle, flowing, failed, steady>>

EndInit(kinds) ==
  /\ kind \in kinds
  /\ present \in SUBSET Ends
  /\ default \in IF present = {} THEN {None} ELSE present
  /\ wanted \in Picks
  /\ unseen = FALSE
  /\ sup = "open"
  /\ chosen = wanted
  /\ worker = "none"
  /\ stream = None
  /\ flowing = FALSE
  /\ failed = FALSE
  /\ rest = 0
  /\ since = 0
  /\ steady = 0

-----------------------------------------------------------------------------
(* The devices of the host, and what may happen to them. *)
Nth(i) == CHOOSE e \in present : Cardinality({f \in present : f < e}) = i

Target(choice) ==
  IF choice = Default THEN default
  ELSE IF choice < Cardinality(present) THEN Nth(choice) ELSE None

Plug(e) ==
  /\ e \notin present
  /\ present' = present \cup {e}
  /\ default' \in {default, e} \ {None}
  /\ UNCHANGED <<wanted, unseen, flowing, failed>>

(* A stream may end with an error or just fall silent. *)
StreamStops ==
  /\ flowing' = FALSE
  /\ failed' \in {failed, TRUE}

Unplug(e) ==
  /\ e \in present
  /\ present' = present \ {e}
  /\ default' \in IF present' = {} THEN {None}
                  ELSE IF default = e THEN present' ELSE {default}
  /\ IF stream = e THEN StreamStops ELSE UNCHANGED <<flowing, failed>>
  /\ UNCHANGED <<wanted, unseen>>

Fail ==
  /\ worker = "play" /\ flowing
  /\ StreamStops
  /\ UNCHANGED <<world, unseen>>

DefaultMoves(e) ==
  /\ e \in present \ {default}
  /\ default' = e
  /\ UNCHANGED <<present, wanted, unseen, flowing, failed>>

(* The `device' request of the control endpoint: device_tx.send. *)
Choose(choice) ==
  /\ wanted' = choice
  /\ unseen' = TRUE
  /\ UNCHANGED <<present, default, flowing, failed>>

Event ==
  /\ \/ \E e \in Ends : Plug(e) \/ Unplug(e) \/ DefaultMoves(e)
     \/ Fail
     \/ \E choice \in Picks : Choose(choice)
  /\ steady' = 0
  /\ UNCHANGED <<kind, handle>>

-----------------------------------------------------------------------------
(* The thread of the worker cannot be started: the task tries again.  *)
OpenFails ==
  /\ sup = "open"
  /\ sup' = "pause"
  /\ rest' = 2
  /\ steady' = 0
  /\ UNCHANGED <<kind, world, unseen, chosen, worker, stream, since, flowing, failed>>

PauseOver ==
  /\ sup = "pause" /\ rest = 0
  /\ sup' = "open"
  /\ UNCHANGED <<kind, world, unseen, chosen, worker, stream, rest, since, flowing, failed, steady>>

(* The handle is stopped and its worker joined. *)
Close ==
  /\ sup' = "open"
  /\ worker' = "none"
  /\ stream' = None
  /\ flowing' = FALSE

(* The worker opens the device its index names now. *)
Opens ==
  /\ worker = "try"
  /\ Target(chosen) # None
  /\ worker' = "play"
  /\ stream' = Target(chosen)
  /\ flowing' = TRUE
  /\ since' = 0
  /\ UNCHANGED <<kind, world, unseen, sup, chosen, rest, failed, steady>>

(* There is no such device, or the driver turns the stream down. *)
Refused(pause) ==
  /\ worker = "try"
  /\ worker' = "wait"
  /\ rest' = pause
  /\ steady' = IF Target(chosen) = None THEN steady ELSE 0
  /\ UNCHANGED <<kind, world, unseen, sup, chosen, stream, since, flowing>>

LookedAtDefault ==
  /\ since' = 0
  /\ UNCHANGED <<kind, world, unseen, sup, chosen, worker, stream, rest, flowing, failed, steady>>

(* A second in which nobody is due; a task that is `elsewhere' need not    *)
(* take a change.                                                          *)
SecondPasses(elsewhere) ==
  /\ \/ sup = "watch" /\ (unseen => elsewhere)
     \/ sup = "pause" /\ rest > 0
  /\ worker # "try"
  /\ worker = "wait" => rest > 0
  /\ rest' = IF rest = 0 THEN 0 ELSE rest - 1
  /\ since' = IF worker = "play" /\ since < 2 THEN since + 1 ELSE since
  /\ steady' = IF steady < Horizon THEN steady + 1 ELSE steady
  /\ UNCHANGED <<kind, world, unseen, sup, chosen, worker, stream, flowing, failed>>

=============================================================================
