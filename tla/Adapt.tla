--------------------------------- MODULE Adapt ---------------------------------
(***************************************************************************)
(* Link adaptation of one sender and its receiver: AdaptState and          *)
(* ReceiverAdapt of src/src/transport/adapt.rs with the loop they close.   *)
(* The sender picks a codec profile and a buffer target and names the      *)
(* target in every audio packet; the receiver plays with the larger of     *)
(* that and its own target, and reports jitter, loss and underruns back.   *)
(* Probe trains (module Probe) end in a floor for the profile.             *)
(*                                                                         *)
(* The path has the best profile it carries, its jitter and half its round *)
(* trip, in ms; it changes at most MaxChanges times.  At most MaxNoise     *)
(* times anything else goes wrong: loss or underruns the path does not     *)
(* explain, a train misjudged, a session begun anew.                       *)
(***************************************************************************)
EXTENDS Integers

CONSTANTS
  Paths,       \* records of rank, jitter and rtt
  MaxChanges,  \* bound on the changes of the path
  MaxNoise     \* bound on the disturbances

ASSUME PathsAssumption == Paths \subseteq [rank : 0 .. 2, jitter : Nat, rtt : Nat]
ASSUME ChangesAssumption == MaxChanges \in Nat /\ MaxNoise \in Nat

VARIABLES
  path,
  changes,
  noise,
  profile,    \* 0 Pcm, 1 Adpcm48, 2 Adpcm24: the function rank
  target,     \* target_buffer_ms of the sender
  bad,        \* mildly lossy samples in a row
  gradual,    \* run_sender: a train of this session was judged
  local,      \* target_ms of the receiver
  stable,     \* quiet feedbacks in a row, up to 3
  suggested,  \* suggested_ms: the target in the newest audio packet
  packets,    \* target_packets of the mixer stream
  allowed     \* history: the profile the last judged train allowed

senderVars == <<profile, target, bad, gradual, allowed>>
receiverVars == <<local, stable, suggested, packets>>
adaptVars == <<path, changes, noise, senderVars, receiverVars>>

Profiles == 0 .. 2
MinBuffer == 20
MaxBuffer == 150
Losses == {"none", "mild", "heavy"}  \* below 4 %, below 10 %, and above
Underruns == {0, 1, 3}               \* none, some, and enough to act upon

AdaptTypeOK ==
  /\ path \in Paths /\ changes \in 0 .. MaxChanges /\ noise \in 0 .. MaxNoise
  /\ profile \in Profiles /\ allowed \in Profiles
  /\ target \in MinBuffer .. MaxBuffer
  /\ bad \in 0 .. 1
  /\ gradual \in BOOLEAN
  /\ local \in MinBuffer .. MaxBuffer
  /\ stable \in 0 .. 3
  /\ suggested \in MinBuffer .. MaxBuffer
  /\ packets \in 4 .. 30

Larger(a, b) == IF a < b THEN b ELSE a
Smaller(a, b) == IF a < b THEN a ELSE b
Clamp(n) == Larger(MinBuffer, Smaller(n, MaxBuffer))

DefaultBuffer(p) == CASE p = 0 -> 20 [] p = 1 -> 40 [] p = 2 -> 80
StepDown(p) == Smaller(p + 1, 2)
StepUp(p) == Larger(p - 1, 0)

AdaptInit ==
  /\ path \in Paths /\ changes = 0 /\ noise = 0
  /\ profile = 0 /\ target = 20 /\ bad = 0 /\ gradual = FALSE
  /\ allowed = 0
  /\ local = 20 /\ stable = 0 /\ suggested = 20 /\ packets = 4

Disturbed == noise < MaxNoise /\ noise' = noise + 1
Quiet == UNCHANGED noise

-----------------------------------------------------------------------------
(* apply_floor with the floor's profile f.  Mutants: a gradual train only  *)
(* ever steps up; it jumps to the better profile; it never steps up.       *)
MutFloorUpOnly(f) ==
  IF gradual THEN (IF f = profile THEN profile ELSE StepUp(profile)) ELSE f
MutFloorJumps(f) == f
MutFloorStays(f) == IF f > profile \/ ~gradual THEN f ELSE profile

ProfileFor(f) ==
  IF f > profile \/ ~gradual THEN f
  ELSE IF f < profile THEN StepUp(profile) ELSE profile

ApplyFloor(f) ==
  /\ profile' = ProfileFor(f)
  /\ target' = IF f > profile THEN Clamp(Larger(target, DefaultBuffer(f)))
               ELSE IF ~gradual THEN DefaultBuffer(f) ELSE target
  /\ bad' = 0

(* note_probe, then gradual = true.                                        *)
Train(f) ==
  /\ ApplyFloor(f)
  /\ gradual' = TRUE
  /\ allowed' = f
  /\ UNCHANGED <<path, changes, receiverVars>>

(* A train finds what the path carries, or, with feedback lost, anything.  *)
TrainFair == Train(path.rank) /\ Quiet
TrainJudged ==
  \/ TrainFair
  \/ \E f \in Profiles : Train(f) /\ Disturbed

-----------------------------------------------------------------------------
(* The buffer observe wants; the mutants leave out the clamp, and the      *)
(* jitter.                                                                 *)
MutWantAll(u) == DefaultBuffer(profile) + path.jitter + path.rtt + IF u > 0 THEN 20 ELSE 0
MutWant(u) == Clamp(DefaultBuffer(profile) + path.rtt + IF u > 0 THEN 20 ELSE 0)
Want(u) == Clamp(DefaultBuffer(profile) + path.jitter + path.rtt + IF u > 0 THEN 20 ELSE 0)

(* Ten ms at a time.                                                       *)
Toward(w) ==
  IF w > target THEN Smaller(target + 10, w)
  ELSE IF w < target THEN Larger(target - 10, w) ELSE target

(* A sample that loses the profile a step at once, and one that is mildly  *)
(* lossy for the second time in a row.                                     *)
TooBad(loss, u) == loss = "heavy" \/ u >= 3
BadAfter(loss, u) == IF loss = "mild" /\ ~TooBad(loss, u) /\ bad = 0 THEN 1 ELSE 0

Observe(loss, u) ==
  /\ target' = Toward(Want(u))
  /\ profile' = IF TooBad(loss, u) \/ (loss = "mild" /\ bad = 1) THEN StepDown(profile) ELSE profile
  /\ bad' = BadAfter(loss, u)
  /\ UNCHANGED <<gradual, allowed, path, changes, receiverVars>>

(* handle_feedback: a profile the path does not carry loses heavily.       *)
FeedbackFair == Observe(IF profile < path.rank THEN "heavy" ELSE "none", 0) /\ Quiet
ObserveFeedback ==
  \/ FeedbackFair
  \/ \E loss \in Losses, u \in Underruns : Observe(loss, u) /\ Disturbed

-----------------------------------------------------------------------------
(* ReceiverAdapt::observe, which does not stop at a value of its own: with *)
(* steady jitter it goes five below what the jitter needs and back.        *)
ReceiverObserve(u) ==
  IF u > 0
  THEN local' = Smaller(local + 15, MaxBuffer) /\ stable' = 0
  ELSE IF path.jitter + MinBuffer > local
  THEN local' = Smaller(local + 5, MaxBuffer) /\ stable' = 0
  ELSE IF stable >= 2 /\ local > MinBuffer
  THEN local' = Larger(local - 5, MinBuffer) /\ stable' = 0
  ELSE local' = local /\ stable' = Smaller(stable + 1, 3)

(* feedback_due: the stream plays with the larger target, in packets of    *)
(* 5 ms.                                                                   *)
PacketsOf(own, other) == (Larger(own, other) + 4) \div 5

Retarget(u) ==
  /\ ReceiverObserve(u)
  /\ packets' = PacketsOf(local', suggested)
  /\ UNCHANGED <<suggested, senderVars, path, changes>>

DueFair == Retarget(0) /\ Quiet
FeedbackDue ==
  \/ DueFair
  \/ \E u \in Underruns \ {0} : Retarget(u) /\ Disturbed

ApplyAudio ==
  /\ suggested' = target
  /\ UNCHANGED <<local, stable, packets, senderVars, path, changes, noise>>

(* The sender leaves its session and comes back: gradual is false again.   *)
(* The receiver still knows the session, or has let its stream expire, or  *)
(* has a new epoch and knows nothing of it.                                *)
FreshStream == packets' = 4
FreshPeer == local' = 20 /\ stable' = 0 /\ suggested' = 20 /\ FreshStream

SessionAnew ==
  /\ Disturbed
  /\ gradual' = FALSE
  /\ \/ UNCHANGED receiverVars
     \/ FreshStream /\ UNCHANGED <<local, stable, suggested>>
     \/ FreshPeer
  /\ UNCHANGED <<profile, target, bad, allowed, path, changes>>

PathChanges ==
  /\ changes < MaxChanges
  /\ changes' = changes + 1
  /\ path' \in Paths \ {path}
  /\ UNCHANGED <<noise, senderVars, receiverVars>>

AdaptNext ==
  \/ TrainJudged
  \/ ObserveFeedback
  \/ FeedbackDue
  \/ ApplyAudio
  \/ SessionAnew
  \/ PathChanges

(* Trains come every 30 s, feedback every 400 ms and audio every 5 ms.     *)
AdaptFairness ==
  /\ WF_adaptVars(TrainFair)
  /\ WF_adaptVars(FeedbackFair)
  /\ WF_adaptVars(DueFair)
  /\ WF_adaptVars(ApplyAudio)

AdaptSpec == AdaptInit /\ [][AdaptNext]_adaptVars /\ AdaptFairness

-----------------------------------------------------------------------------
(* observe and apply_floor together never leave a profile in use that the  *)
(* last train said the path does not carry.                                *)
WithinFloor == profile >= allowed

(* src/README.md:97, "on recovery it steps up one level at a time": within *)
(* a session the quality goes up by one, and only when a train is judged.  *)
OneStepUp ==
  [][profile' < profile => (gradual => profile' = profile - 1) /\ gradual' /\ bad' = 0]_adaptVars

(* On a path that has stopped changing the codec ends up at what the path  *)
(* carries, and stays there.                                               *)
ProfileSettles == <>[](profile = path.rank)

(* ... and the playback buffer stops moving, although the receiver's own   *)
(* target never does: every raise unprimes the jitter buffer, and every    *)
(* cut drops audio.                                                        *)
TargetSettles == <>[][packets' = packets]_adaptVars

=============================================================================
