-------------------------------- MODULE Playout --------------------------------
(***************************************************************************)
(* The path of one sender's audio from the network to the speaker: the     *)
(* receiver's replay window (crypto/replay.rs), then the jitter buffer of  *)
(* the sender's stream (mixer/jitter.rs), which the audio callback pulls,  *)
(* packet by packet, while it holds the mixer's mutex.                     *)
(* The network delivers any datagram at any time, again and in any order.  *)
(* The sender seals the k-th audio packet with counter k and gives it      *)
(* sequence number k, so both are the same number here.                    *)
(***************************************************************************)
EXTENDS JitterLoop

CONSTANTS Window   \* the size of the replay window

ASSUME WindowAssumption == Window \in Nat \ {0}

VARIABLES
  base, bits, grants, last,   \* the replay window
  heard                       \* history: how often each frame of each packet was played

replayVars == <<base, bits, grants, last>>
playoutVars == <<replayVars, loopVars, heard>>

Replay == INSTANCE ReplayWindow

Frames == Seqs \X (0 .. PacketFrames - 1)

PlayoutInit ==
  /\ Replay!Init
  /\ LoopInit
  /\ heard = [f \in Frames |-> 0]

(* Mutant: the verdict of the window is dropped.                           *)
MutDeliverAnyway(seq) ==
  /\ Replay!Commit(seq)
  /\ Locked(Push(seq))
  /\ UNCHANGED heard

(* handle_datagram commits, and only then apply_audio pushes. *)
Deliver(seq) ==
  /\ Replay!Commit(seq)
  /\ Locked(IF last'.ok THEN Push(seq) ELSE UNCHANGED vars)
  /\ UNCHANGED heard

(* The frames an iteration copies, if the packet is there; a missing one   *)
(* is concealed by silence.                                                *)
Playing == {f \in Frames : f[1] = play /\ play \in slots /\ off <= f[2] /\ f[2] < off + Portion}

PlayOn ==
  /\ Iterate
  /\ heard' = [f \in Frames |-> IF f \in Playing THEN heard[f] + 1 ELSE heard[f]]
  /\ UNCHANGED replayVars

(* The callback before, between and after the iterations.                  *)
Callback ==
  /\ \/ \E n \in PullSizes : BeginPull(n)
     \/ Starve
     \/ Locked(PullSilent)
  /\ UNCHANGED <<replayVars, heard>>

Retarget(t) ==
  /\ Locked(SetTargetPackets(t))
  /\ UNCHANGED <<replayVars, heard>>

(* The session's window outlives the stream that is removed and made anew. *)
RecreateStream ==
  /\ Locked(Recreate)
  /\ UNCHANGED <<replayVars, heard>>

PlayoutNext ==
  \/ \E seq \in Seqs : Deliver(seq)
  \/ PlayOn
  \/ Callback
  \/ \E t \in Targets : Retarget(t)
  \/ RecreateStream

PlayoutSpec == PlayoutInit /\ [][PlayoutNext]_playoutVars

-----------------------------------------------------------------------------
(* No frame of audio is played twice, though a starved or recreated buffer *)
(* forgets how far playout had come and the network repeats datagrams.     *)
HeardOnce == \A f \in Frames : heard[f] <= 1

(* The buffer holds only packets the window let through, and none it has   *)
(* begun to play behind the position: what waits was not heard.            *)
HeldIsUnheard ==
  \A s \in slots :
    /\ grants[s] = 1
    /\ \A o \in 0 .. PacketFrames - 1 :
         heard[<<s, o>>] > 0 => s = play /\ o < off

=============================================================================
