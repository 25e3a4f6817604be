------------------------------- MODULE Arrivals -------------------------------
(***************************************************************************)
(* What one authenticated sender does to its entry at the receiver, in     *)
(* handle_datagram and apply_audio of src/src/transport/receiver.rs: the   *)
(* replay window first, then, for audio, the loss count.  The network      *)
(* delivers any datagram at any time, again and in any order.  The packet  *)
(* counter numbers all datagrams, the audio number only the audio.         *)
(***************************************************************************)
EXTENDS ReplayWindow, LossTracker

CONSTANT AudioNumber   \* the audio number of the datagram each counter seals, or 0

ASSUME AudioNumberAssumption ==
  /\ AudioNumber \in [Seqs -> AudioSeqs \cup {0}]
  /\ \A c, d \in Seqs : AudioNumber[c] = AudioNumber[d] => AudioNumber[c] = 0 \/ c = d

arrivalVars == <<vars, trackerVars>>

ArrivalInit == Init /\ TrackerInit

(* A datagram that is no audio (HELLO, a probe), that the window refuses,  *)
(* or that comes when the session has expired, leaves the count alone.     *)
ArriveUncounted(c) ==
  /\ Commit(c)
  /\ UNCHANGED trackerVars

(* Mutant: the verdict of the window is dropped.                           *)
MutArriveAnyway(c) ==
  /\ AudioNumber[c] # 0
  /\ Commit(c)
  /\ Observe(AudioNumber[c])

ArriveAudio(c) ==
  /\ AudioNumber[c] # 0
  /\ Commit(c)
  /\ last'.ok
  /\ Observe(AudioNumber[c])

ArrivalNext == \E c \in Seqs : ArriveUncounted(c) \/ ArriveAudio(c)

ArrivalSpec == ArrivalInit /\ [][ArrivalNext]_arrivalVars

-----------------------------------------------------------------------------
(* Though the network repeats datagrams, the loss count sees every audio   *)
(* number at most once: what it assumes, and what ReportExact rests on.    *)
CountedOnce == TrackerSpec

=============================================================================
