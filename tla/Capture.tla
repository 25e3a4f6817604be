-------------------------------- MODULE Capture --------------------------------
(***************************************************************************)
(* The sender's input: the device arm of run_sender and open_capture_retry *)
(* of src/src/daemon/mod.rs over the workers of src/src/audio/capture.rs,  *)
(* the microphone's and the Windows loopback's.  The samples and the ring  *)
(* they go through are left out; while the handle shows an error,          *)
(* try_read gives silence.                                                 *)
(***************************************************************************)
EXTENDS Endpoints

VARIABLE seeking  \* the sender waits for a receiver, and takes no change of device

captureVars == <<endVars, seeking>>

CaptureInit == seeking = TRUE

(* The first handle and every later one: a new ring, no error. *)
OpenCapture ==
  /\ sup = "open"
  /\ sup' = "watch"
  /\ worker' = "try"
  /\ failed' = FALSE
  /\ UNCHANGED <<kind, world, unseen, chosen, stream, rest, since, flowing, steady>>

(* open_microphone_stream, and run_loopback_once up to its loop.           *)
OpenMicrophone == kind = "mic" /\ Opens
OpenLoopback == kind = "loopback" /\ Opens

(* The choice is taken before the old handle goes, and kept through every  *)
(* attempt to open.                                                        *)
CaptureChanged ==
  /\ sup = "watch" /\ unseen /\ ~seeking
  /\ unseen' = FALSE
  /\ chosen' = wanted
  /\ Close
  /\ UNCHANGED <<kind, world, rest, since, failed, steady>>

CaptureRefused ==
  /\ Refused(1)
  /\ failed' = TRUE

(* Mutant: the error is not cleared before the next attempt.               *)
MutRetryCapture ==
  /\ worker = "wait" /\ rest = 0
  /\ worker' = "try"
  /\ UNCHANGED <<kind, world, unseen, sup, chosen, stream, rest, since, flowing, failed, steady>>

(* The error is cleared, and the device tried again. *)
RetryCapture ==
  /\ worker = "wait" /\ rest = 0
  /\ worker' = "try"
  /\ failed' = FALSE
  /\ UNCHANGED <<kind, world, unseen, sup, chosen, stream, rest, since, flowing, steady>>

(* Endpoints are compared by id. *)
DefaultLeft == chosen = Default /\ default # stream

(* Every two seconds the loopback asks whether its endpoint is still       *)
(* active, and still the default; the microphone asks neither.             *)
EndpointLeft ==
  kind = "loopback" /\ since = 2 /\ (stream \notin present \/ DefaultLeft)

LeavesCapture ==
  /\ failed' = TRUE
  /\ worker' = "wait"
  /\ rest' = 1
  /\ stream' = None
  /\ flowing' = FALSE
  /\ UNCHANGED <<kind, world, unseen, sup, chosen, since>>

LeaveCapture ==
  /\ worker = "play"
  /\ failed \/ EndpointLeft
  /\ LeavesCapture
  /\ UNCHANGED steady

(* One of these questions ends in an error, and with it the stream.        *)
CheckFails ==
  /\ worker = "play" /\ kind = "loopback" /\ since = 2
  /\ steady' = 0
  /\ LeavesCapture

LookCapture ==
  /\ worker = "play" /\ since = 2 /\ ~EndpointLeft
  /\ LookedAtDefault

CaptureSecond ==
  /\ SecondPasses(seeking)
  /\ worker = "play" => ~failed /\ since < 2

(* wait_for_peer returns; the session ends and the sender is back in it. *)
FindPeer ==
  /\ sup = "watch" /\ seeking
  /\ seeking' = FALSE
  /\ steady' = 0
  /\ UNCHANGED <<kind, world, unseen, handle, flowing, failed>>

LosePeer ==
  /\ sup = "watch" /\ ~seeking
  /\ seeking' = TRUE
  /\ UNCHANGED endVars

DeviceStep ==
  \/ Event
  \/ OpenFails
  \/ PauseOver
  \/ OpenMicrophone
  \/ OpenLoopback
  \/ OpenCapture
  \/ CaptureChanged
  \/ CaptureRefused
  \/ RetryCapture
  \/ LeaveCapture
  \/ CheckFails
  \/ LookCapture
  \/ CaptureSecond

CaptureNext ==
  \/ DeviceStep /\ UNCHANGED seeking
  \/ FindPeer
  \/ LosePeer

(* What the sender is to capture: a change made while it waits for a       *)
(* receiver is taken when it has found one.                                *)
Asked == IF seeking /\ unseen THEN chosen ELSE wanted

Captures ==
  /\ worker = "play" /\ flowing /\ ~failed
  /\ stream \in present
  /\ chosen = Asked
  /\ kind = "loopback" /\ chosen = Default => stream = default

(* A stream that falls silent without an error is not told from one that   *)
(* has nothing to say ("an idle audio engine need not signal"); only the   *)
(* loopback notices that its endpoint is gone or no longer the default.    *)
FellSilent ==
  /\ worker = "play" /\ ~flowing /\ ~failed
  /\ kind = "loopback" => stream \in present /\ ~DefaultLeft

(* cli/mod.rs, Send: "retry discovery and audio devices until available".  *)
(* Whatever happened, once Recovery seconds have gone by since the last of *)
(* it, the device asked for is captured, if there is one, unless its       *)
(* stream fell silent unnoticed.                                           *)
Recovery == 3
CaptureReturns ==
  kind # "playback" /\ steady > Recovery /\ Target(Asked) # None => Captures \/ FellSilent

=============================================================================
