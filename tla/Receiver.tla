------------------------------- MODULE Receiver -------------------------------
(***************************************************************************)
(* The session table of the receiver engine and the stream registry of the *)
(* mixer: src/src/transport/receiver.rs with ensure_stream, touch and      *)
(* expire_idle of src/src/mixer/mod.rs.  The engine is behind one mutex,   *)
(* so a datagram, a feedback tick and an expiry tick are one step each;    *)
(* they come in any order.                                                 *)
(*                                                                         *)
(* A datagram is who sealed it (session), under which epoch, its counter   *)
(* and its kind.  Those that do not parse or do not open change nothing    *)
(* and are left out.  Audio and probes do the same to this state: "media". *)
(* The replay window is the reference of ReplayReference.                  *)
(***************************************************************************)
EXTENDS Integers, FiniteSets

CONSTANTS
  Sessions,     \* the sessions of the paired senders
  MaxStreams,   \* MAX_STREAMS (8)
  HistoryCap,   \* MAX_SESSION_HISTORY (4096)
  Window,       \* size of the replay window (2048)
  Counters,     \* the packet counters a session uses within an epoch
  KindOf,       \* the kind of datagram each counter was sealed for
  MaxEpoch,     \* bound on the number of epochs
  MaxFeedback   \* bound on the feedback counter of a session

ASSUME SessionsAssumption == IsFiniteSet(Sessions)
ASSUME LimitsAssumption ==
  MaxStreams \in Nat \ {0} /\ HistoryCap \in Nat \ {0} /\ Window \in Nat \ {0}
ASSUME CountersAssumption == Counters \subseteq Nat \ {0}
ASSUME KindAssumption == KindOf \in [Counters -> {"hello", "media"}]
ASSUME BoundsAssumption == MaxEpoch \in Nat \ {0} /\ MaxFeedback \in Nat \ {0}

VARIABLES
  epoch,        \* the epoch, the random ids numbered in the order drawn
  known,        \* sessions with an entry in `peers'
  active,       \* those whose entry is active
  seen,         \* per session, the counters its replay window has granted
  sendCounter,  \* per session, the counter of its last feedback
  streams,      \* sessions with a stream in the mixer
  idle,         \* streams without a datagram for STREAM_IDLE
  applied,      \* history: how often each datagram was let past the window
  sealed        \* history: how often each feedback identity was sealed

table == <<known, active, seen, sendCounter>>
registry == <<streams, idle>>
vars == <<epoch, table, registry, applied, sealed>>

Epochs == 1 .. MaxEpoch
DatagramIds == Epochs \X Sessions \X Counters
FeedbackIds == Epochs \X Sessions \X (1 .. MaxFeedback)

TypeOK ==
  /\ epoch \in Epochs
  /\ known \subseteq Sessions
  /\ active \subseteq known
  /\ seen \in [Sessions -> SUBSET Counters]
  /\ sendCounter \in [Sessions -> 0 .. MaxFeedback]
  /\ streams \subseteq Sessions
  /\ idle \subseteq streams
  /\ applied \in [DatagramIds -> Nat]
  /\ sealed \in [FeedbackIds -> Nat]

Init ==
  /\ epoch = 1
  /\ known = {}
  /\ active = {}
  /\ seen = [s \in Sessions |-> {}]
  /\ sendCounter = [s \in Sessions |-> 0]
  /\ streams = {}
  /\ idle = {}
  /\ applied = [d \in DatagramIds |-> 0]
  /\ sealed = [f \in FeedbackIds |-> 0]

-----------------------------------------------------------------------------
Fresh(s, c) == c \notin seen[s] /\ \A d \in seen[s] : d - c < Window

Commit(s, c) ==
  /\ seen' = [seen EXCEPT ![s] = @ \cup {c}]
  /\ applied' = [applied EXCEPT ![<<epoch, s, c>>] = @ + 1]

MutSlotOffByOne(s) == s \in streams \/ Cardinality(streams) <= MaxStreams

(* ensure_stream: a stream that exists is touched, a new one needs a slot. *)
HasSlot(s) == s \in streams \/ Cardinality(streams) < MaxStreams

(* Mutant: at the limit the newcomer takes the place of the others.        *)
MutEnsureByEviction(s) ==
  IF HasSlot(s)
  THEN streams' = streams \cup {s} /\ idle' = idle \ {s}
  ELSE streams' = {s} /\ idle' = {}

EnsureStream(s) ==
  IF HasSlot(s)
  THEN streams' = streams \cup {s} /\ idle' = idle \ {s}
  ELSE UNCHANGED registry

(* What handle_datagram turns away before it changes any session: another  *)
(* epoch, a stranger that does not say hello or finds no room, and a       *)
(* counter the window of a known session has granted or passed.            *)
RejectDatagram(e, s, c) ==
  /\ \/ e # epoch
     \/ s \notin known /\ KindOf[c] # "hello"
     \/ s \notin known /\ Cardinality(active) >= MaxStreams
     \/ s \notin known /\ Cardinality(known) < HistoryCap /\ ~HasSlot(s)
     \/ s \in known /\ ~Fresh(s, c)
  /\ UNCHANGED vars

StrangerSaysHello(e, s, c) ==
  /\ e = epoch
  /\ s \notin known
  /\ KindOf[c] = "hello"
  /\ Cardinality(active) < MaxStreams

(* The three parts of rotate_epoch. *)
DrawEpoch == epoch < MaxEpoch /\ epoch' = epoch + 1

MutStreamsStay == UNCHANGED registry
RemoveStreams == streams' = {} /\ idle' = {}

ClearPeers ==
  /\ known' = {}
  /\ active' = {}
  /\ seen' = [t \in Sessions |-> {}]
  /\ sendCounter' = [t \in Sessions |-> 0]

(* A full history: every session is forgotten under a new epoch, and the   *)
(* stranger has to learn it and come back.                                 *)
RotateEpoch(e, s, c) ==
  /\ StrangerSaysHello(e, s, c)
  /\ Cardinality(known) >= HistoryCap
  /\ DrawEpoch
  /\ RemoveStreams
  /\ ClearPeers
  /\ UNCHANGED <<applied, sealed>>

Admit(e, s, c) ==
  /\ StrangerSaysHello(e, s, c)
  /\ Cardinality(known) < HistoryCap
  /\ HasSlot(s)
  /\ EnsureStream(s)
  /\ known' = known \cup {s}
  /\ active' = active \cup {s}
  /\ Commit(s, c)
  /\ UNCHANGED <<epoch, sendCounter, sealed>>

(* Mutant: a session that comes back counts its feedback from the start.   *)
MutHelloResets(e, s, c) ==
  /\ e = epoch
  /\ s \in known
  /\ KindOf[c] = "hello"
  /\ Fresh(s, c)
  /\ Commit(s, c)
  /\ active' = active \cup {s}
  /\ EnsureStream(s)
  /\ sendCounter' = [sendCounter EXCEPT ![s] = 0]
  /\ UNCHANGED <<epoch, known, sealed>>

(* HELLO of a known session: it becomes active, expired or not, and the    *)
(* outcome of ensure_stream is dropped.                                    *)
HelloAgain(e, s, c) ==
  /\ e = epoch
  /\ s \in known
  /\ KindOf[c] = "hello"
  /\ Fresh(s, c)
  /\ Commit(s, c)
  /\ active' = active \cup {s}
  /\ EnsureStream(s)
  /\ UNCHANGED <<epoch, known, sendCounter, sealed>>

(* Audio or a probe: committed in any case, applied only when active.      *)
Media(e, s, c) ==
  /\ e = epoch
  /\ s \in known
  /\ KindOf[c] = "media"
  /\ Fresh(s, c)
  /\ Commit(s, c)
  /\ idle' = IF s \in active THEN idle \ {s} ELSE idle
  /\ UNCHANGED <<epoch, known, active, sendCounter, streams, sealed>>

HandleDatagram(e, s, c) ==
  \/ RejectDatagram(e, s, c)
  \/ RotateEpoch(e, s, c)
  \/ Admit(e, s, c)
  \/ HelloAgain(e, s, c)
  \/ Media(e, s, c)

-----------------------------------------------------------------------------
(* feedback_due: every active session whose last feedback is 400 ms old    *)
(* gets one; `due' is the set of those.                                    *)
FeedbackDue(due) ==
  /\ due # {} /\ due \subseteq active
  /\ \A s \in due : sendCounter[s] < MaxFeedback
  /\ sendCounter' = [s \in Sessions |-> IF s \in due THEN sendCounter[s] + 1 ELSE sendCounter[s]]
  /\ sealed' = [f \in FeedbackIds |->
                  IF f[1] = epoch /\ f[2] \in due /\ f[3] = sendCounter[f[2]] + 1
                  THEN sealed[f] + 1 ELSE sealed[f]]
  /\ UNCHANGED <<epoch, known, active, seen, registry, applied>>

(* Ten seconds pass without a datagram for a stream. *)
GoIdle(s) ==
  /\ s \in streams \ idle
  /\ idle' = idle \cup {s}
  /\ UNCHANGED <<epoch, table, streams, applied, sealed>>

(* Mutant: the entries of idle sessions are removed with their windows.    *)
MutExpireForgets ==
  /\ streams' = streams \ idle
  /\ active' = active \ idle
  /\ known' = known \ idle
  /\ seen' = [s \in Sessions |-> IF s \in idle THEN {} ELSE seen[s]]
  /\ idle' = {}
  /\ UNCHANGED <<epoch, sendCounter, applied, sealed>>

(* expire: the idle streams go, and the sessions whose stream went are no  *)
(* longer active; their entries stay, with their replay windows.           *)
Expire ==
  /\ streams' = streams \ idle
  /\ active' = active \ (streams \cap idle)
  /\ idle' = {}
  /\ UNCHANGED <<epoch, known, seen, sendCounter, applied, sealed>>

Next ==
  \/ \E e \in 1 .. epoch, s \in Sessions, c \in Counters : HandleDatagram(e, s, c)
  \/ \E due \in SUBSET Sessions : FeedbackDue(due)
  \/ \E s \in Sessions : GoIdle(s)
  \/ Expire

Spec == Init /\ [][Next]_vars

-----------------------------------------------------------------------------
(* Every stream the mixer plays belongs to an active session, across       *)
(* expiry, return and rotation: no stream is left that no datagram can     *)
(* feed and no feedback describes.                                         *)
StreamsBacked == streams \subseteq active

(* README.md: at most 8 streams, at most 4096 sessions in the history.     *)
CapacityHeld == Cardinality(streams) <= MaxStreams /\ Cardinality(known) <= HistoryCap

(* A sealed datagram takes effect at most once in the life of the          *)
(* receiver, through expiry, return of the session and rotation of the     *)
(* epoch: an expired session keeps its window (security_idle_replay.rs).   *)
AppliedOnce == \A d \in DatagramIds : applied[d] <= 1

(* No feedback counter is used twice under one epoch and session: the      *)
(* feedback nonce never repeats (security_idle_replay.rs).                 *)
FeedbackOnce == \A f \in FeedbackIds : sealed[f] <= 1

(* A session loses its stream only to ten idle seconds or to a rotation:   *)
(* neither a newcomer at the limit nor a returning session evicts it.      *)
NoEviction == [][epoch' = epoch => streams \ streams' \subseteq idle]_vars

(* README.md:95 and network_security.rs: at most MAX_STREAMS sessions      *)
(* count as connected.                                                     *)
ActiveBounded == Cardinality(active) <= MaxStreams

=============================================================================
