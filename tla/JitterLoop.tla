------------------------------ MODULE JitterLoop ------------------------------
(***************************************************************************)
(* pull of src/src/mixer/jitter.rs one iteration of its loop after the     *)
(* other, where JitterBuffer says in one step where the loop stops.  The   *)
(* callback holds the mixer's mutex from the first iteration to the last,  *)
(* so nobody pushes or retargets in between.                               *)
(***************************************************************************)
EXTENDS JitterBuffer

VARIABLES
  frames,  \* the argument of the pull that runs; 0 when none does
  done,    \* its local variable: the frames filled so far
  seen     \* history: the buffer as whoever held the mutex last left it

loopVars == <<vars, frames, done, seen>>

Pulling == frames > 0

Now == [slots |-> slots, play |-> play, off |-> off,
        primed |-> primed, started |-> started, starved |-> starved]

LoopInit == Init /\ frames = 0 /\ done = 0 /\ seen = Now

(* The mutex is let go of.                                                 *)
Return == frames' = 0 /\ done' = 0 /\ seen' = Now'

(* An operation of JitterBuffer by whoever gets the mutex.                 *)
Locked(Operation) == ~Pulling /\ Operation /\ Return

Elsewhere ==
  \/ \E seq \in Seqs : Locked(Push(seq))
  \/ \E t \in Targets : Locked(SetTargetPackets(t))
  \/ Locked(PullSilent)
  \/ Locked(Recreate)

BeginPull(n) ==
  /\ ~Pulling /\ primed
  /\ frames' = n
  /\ started' = TRUE
  /\ UNCHANGED <<slots, play, off, target, primed, starved, done, seen>>

(* The packet being played is not there, nor any later one.                *)
NoneLeft == \A s \in slots : s < play

(* n frames are played; the last of a packet removes it.  The mutants do   *)
(* not start at the beginning of the next, and keep the packet.            *)
MutAdvance(n) ==
  IF off + n >= PacketFrames
  THEN slots' = slots \ {play} /\ play' = play + 1 /\ off' = off
  ELSE off' = off + n /\ UNCHANGED <<slots, play>>
MutAdvanceKeeps(n) ==
  /\ slots' = slots
  /\ IF off + n >= PacketFrames THEN play' = play + 1 /\ off' = 0
     ELSE play' = play /\ off' = off + n

Advance(n) ==
  IF off + n >= PacketFrames
  THEN slots' = slots \ {play} /\ play' = play + 1 /\ off' = 0
  ELSE off' = off + n /\ UNCHANGED <<slots, play>>

(* An iteration that plays a packet, or conceals it, to its end or until   *)
(* enough is done.  The loop's exits for a position of None and for an     *)
(* offset at the end of a packet are left out: a primed buffer has a       *)
(* position, and an offset within its packet (CursorConsistent, TypeOK).   *)
Portion == IF PacketFrames - off < frames - done THEN PacketFrames - off ELSE frames - done

Iterate ==
  /\ Pulling /\ ~NoneLeft
  /\ Advance(Portion)
  /\ UNCHANGED <<target, primed, started, starved>>
  /\ IF done + Portion = frames THEN Return
     ELSE done' = done + Portion /\ UNCHANGED <<frames, seen>>

Starve ==
  /\ Pulling /\ NoneLeft
  /\ primed' = FALSE
  /\ starved' = TRUE
  /\ play' = NoSeq
  /\ off' = 0
  /\ UNCHANGED <<slots, target, started>>
  /\ Return

LoopNext ==
  \/ Elsewhere
  \/ \E n \in PullSizes : BeginPull(n)
  \/ Iterate
  \/ Starve

LoopSpec == LoopInit /\ [][LoopNext]_loopVars

-----------------------------------------------------------------------------
(* To whoever takes the mutex the loop is one step of JitterBuffer: it     *)
(* stops at the position, with the packets and with the verdict on         *)
(* starvation of the closed form, whatever gaps there are.                 *)
Buffer == INSTANCE JitterBuffer WITH
  slots <- seen.slots, play <- seen.play, off <- seen.off,
  primed <- seen.primed, started <- seen.started, starved <- seen.starved

ImplementsBuffer == Buffer!Spec

=============================================================================
