------------------------------- MODULE Playback -------------------------------
(***************************************************************************)
(* The receiver's output: supervise_playback of src/src/daemon/mod.rs over *)
(* the worker of src/src/audio/playback.rs.  The task reopens the output   *)
(* when the device request names another, and when the mixer has not been  *)
(* called back for three seconds; the worker reopens a stream that failed, *)
(* and one whose default device no longer has the name it was opened       *)
(* under.                                                                  *)
(***************************************************************************)
EXTENDS Endpoints

CONSTANTS
  Names,     \* the names of devices, as name().unwrap_or_default() gives them
  Nameless,  \* the empty one: of no device, and of one that name() fails for
  Grace,     \* seconds a new handle is given before its callbacks are watched (5)
  Patience   \* seconds without a callback that are tolerated after that (3)

(* The grace is no shorter than a pause of the task or the worker and than *)
(* the time between two looks at the default device, and longer than the   *)
(* patience.                                                               *)
ASSUME GraceAssumption == Grace \in Nat /\ Grace >= 2 /\ Patience \in Nat /\ Grace > Patience

ASSUME NamelessAssumption == Nameless \in Names

VARIABLES
  name,         \* per device, its name; devices may share one
  opened_name,  \* the name of the stream's device when it was opened; Nameless without one
  age,    \* opened.elapsed(), up to Grace
  quiet,  \* seconds since last_callback_ms, up to Patience + 1; that at first
  woke    \* the sleep of one second is over and the task has yet to look

names == <<name, opened_name>>
watch == <<age, quiet, woke>>
playbackVars == <<endVars, names, watch>>

(* Names matter to the output alone.                                       *)
PlaybackInit ==
  /\ name \in IF kind = "playback" THEN [Ends -> Names] ELSE [Ends -> {Nameless}]
  /\ opened_name = Nameless
  /\ age = 0
  /\ quiet = Patience + 1
  /\ woke = FALSE

(* The choice is borrowed each time round the loop, after the old handle   *)
(* has gone.  A mutant keeps the one it had.                               *)
MutBorrowed == chosen
Borrowed == wanted

OpenPlayback ==
  /\ sup = "open"
  /\ sup' = "watch"
  /\ chosen' = Borrowed
  /\ worker' = "try"
  /\ failed' = FALSE
  /\ age' = 0
  /\ woke' = FALSE
  /\ UNCHANGED <<kind, world, unseen, stream, rest, since, flowing, steady, quiet, names>>

(* The device its index names now, whose name is kept in DEVICE.           *)
OpenOutput ==
  /\ Opens
  /\ opened_name' = name[Target(chosen)]
  /\ UNCHANGED <<name, watch>>

(* A device is renamed, or its name cannot be read for a while.            *)
Rename(e) ==
  /\ e \in present
  /\ \E n \in Names \ {name[e]} : name' = [name EXCEPT ![e] = n]
  /\ steady' = 0
  /\ UNCHANGED <<kind, world, unseen, handle, flowing, failed, opened_name, watch>>

DeviceChanged ==
  /\ sup = "watch" /\ unseen
  /\ unseen' = FALSE
  /\ Close
  /\ opened_name' = Nameless
  /\ UNCHANGED <<kind, world, chosen, rest, since, failed, steady, name, watch>>

(* A mutant watches from the start without looking at the callbacks.       *)
MutStalled == age >= Grace
Stalled == age >= Grace /\ quiet > Patience

Watchdog ==
  /\ sup = "watch" /\ woke
  /\ woke' = FALSE
  /\ IF Stalled THEN Close /\ opened_name' = Nameless
     ELSE UNCHANGED <<sup, worker, stream, flowing, opened_name>>
  /\ UNCHANGED <<kind, world, unseen, chosen, rest, since, failed, steady, age, quiet, name>>

Refuse == Refused(2) /\ UNCHANGED <<failed, names, watch>>

Retry ==
  /\ worker = "wait" /\ rest = 0
  /\ worker' = "try"
  /\ UNCHANGED <<kind, world, unseen, sup, chosen, stream, rest, since, flowing, failed, steady,
                 names, watch>>

(* The worker compares names, so it tells a default device from the one it *)
(* opened only when they are called differently, and takes a device that   *)
(* was renamed for another one.                                            *)
DefaultName == IF default = None THEN Nameless ELSE name[default]
NameChanged == chosen = Default /\ DefaultName # opened_name

(* The stream failed, or it is time to look and the name has changed.      *)
(* Each stream gets a flag of its own.                                     *)
Leave ==
  /\ worker = "play"
  /\ failed \/ (since = 2 /\ NameChanged)
  /\ worker' = "try"
  /\ stream' = None
  /\ flowing' = FALSE
  /\ failed' = FALSE
  /\ opened_name' = Nameless
  /\ UNCHANGED <<kind, world, unseen, sup, chosen, rest, since, steady, name, watch>>

Look ==
  /\ worker = "play" /\ since = 2 /\ ~NameChanged
  /\ LookedAtDefault
  /\ UNCHANGED <<names, watch>>

Callback ==
  /\ worker = "play" /\ flowing /\ quiet # 0
  /\ quiet' = 0
  /\ UNCHANGED <<endVars, names, age, woke>>

PlaybackSecond ==
  /\ SecondPasses(FALSE)
  /\ ~woke
  /\ worker = "play" => ~failed /\ since < 2 /\ (flowing => quiet = 0)
  /\ age' = IF age < Grace THEN age + 1 ELSE age
  /\ quiet' = IF flowing \/ quiet > Patience THEN quiet ELSE quiet + 1
  /\ woke' = (sup = "watch")
  /\ UNCHANGED names

PlaybackNext ==
  \/ (Event \/ OpenFails \/ PauseOver) /\ UNCHANGED <<names, watch>>
  \/ \E e \in Ends : Rename(e)
  \/ OpenOutput
  \/ OpenPlayback
  \/ DeviceChanged
  \/ Watchdog
  \/ Refuse
  \/ Retry
  \/ Leave
  \/ Look
  \/ Callback
  \/ PlaybackSecond

Plays ==
  /\ worker = "play" /\ flowing
  /\ stream \in present
  /\ chosen = wanted
  /\ chosen = Default => opened_name = DefaultName

(* Whatever happened to the devices, their names, the driver and the       *)
(* choice, in whatever order: once Grace seconds have gone by since the    *)
(* last of it, the output that is chosen plays, if there is one.  Neither  *)
(* side may wait for the other, and the watchdog may not close what the    *)
(* worker is about to start.  For the default that means a device of its   *)
(* name: the default itself, unless another one had that name when the     *)
(* stream was opened.                                                      *)
PlaybackReturns ==
  kind = "playback" /\ steady > Grace /\ Target(wanted) # None => Plays

=============================================================================
