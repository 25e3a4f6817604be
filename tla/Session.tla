-------------------------------- MODULE Session --------------------------------
(***************************************************************************)
(* One sender's session with its receivers: bind_peer, seal and the        *)
(* feedback path of src/src/transport/sender.rs against the window and the *)
(* counters a receiver keeps for the session in                            *)
(* src/src/transport/receiver.rs.  The network loses, repeats and reorders *)
(* datagrams of both directions.                                           *)
(*                                                                         *)
(* Epochs are random ids, numbered here in the order drawn: an epoch names *)
(* its receiver, and keys derive from it, so a datagram opens only at the  *)
(* receiver whose epoch it carries.  When the control loop rebinds is the  *)
(* subject of Reconnect; here it may at any time.                          *)
(***************************************************************************)
EXTENDS Integers, FiniteSets

CONSTANTS
  Receivers,    \* receivers that share the sender's invitation
  Window,       \* size of the replay windows (2048)
  MaxEpoch,     \* bound on the epochs drawn
  MaxCounter    \* bound on the packet counters of both directions

ASSUME SessionAssumption ==
  /\ IsFiniteSet(Receivers)
  /\ Window \in Nat \ {0}
  /\ MaxEpoch \in Nat \ {0}
  /\ MaxCounter \in Nat \ {0}

VARIABLES
  epoch,     \* per receiver, its epoch
  drawn,     \* the last epoch drawn
  seen,      \* per receiver, the counters its window has granted the session
  active,    \* receivers where the session is active
  fbCounter, \* per receiver, send_counter
  peer,      \* the receiver the engine is bound to
  key,       \* the engine's epoch, 0 for none
  counter,   \* the engine's packet counter
  heard,     \* the feedback counters the engine's window has granted
  net,       \* datagrams on their way to the receivers; they may come again
  fbNet,     \* feedback on its way to the sender
  sealed     \* history: how often each counter was sealed under each epoch

receiverSide == <<epoch, drawn, seen, active, fbCounter>>
senderSide == <<peer, key, counter, heard>>
vars == <<receiverSide, senderSide, net, fbNet, sealed>>

Epochs == 1 .. MaxEpoch
Counters == 1 .. MaxCounter
Datagrams == [epoch : Epochs, counter : Counters, kind : {"hello", "media"}]
Feedbacks == [epoch : Epochs, counter : Counters]

TypeOK ==
  /\ epoch \in [Receivers -> 0 .. MaxEpoch]
  /\ drawn \in 0 .. MaxEpoch
  /\ seen \in [Receivers -> SUBSET Counters]
  /\ active \subseteq {r \in Receivers : seen[r] # {}}
  /\ fbCounter \in [Receivers -> 0 .. MaxCounter]
  /\ peer \in Receivers
  /\ key \in 0 .. MaxEpoch
  /\ counter \in 0 .. MaxCounter
  /\ heard \subseteq Counters
  /\ net \subseteq Datagrams
  /\ fbNet \subseteq Feedbacks
  /\ sealed \in [Epochs \X Counters -> Nat]

(* Epoch 0 stands for a receiver that does not run yet.                    *)
Init ==
  /\ epoch = [r \in Receivers |-> 0]
  /\ drawn = 0
  /\ seen = [r \in Receivers |-> {}]
  /\ active = {}
  /\ fbCounter = [r \in Receivers |-> 0]
  /\ peer \in Receivers
  /\ key = 0
  /\ counter = 0
  /\ heard = {}
  /\ net = {}
  /\ fbNet = {}
  /\ sealed = [p \in Epochs \X Counters |-> 0]

-----------------------------------------------------------------------------
(* The replay windows of both sides, as in ReplayReference.                *)
Fresh(c, granted) == c \notin granted /\ \A d \in granted : d - c < Window

(* Mutant: the new epoch keeps the windows.                                *)
MutNewEpochWindows(r) ==
  /\ drawn < MaxEpoch
  /\ drawn' = drawn + 1
  /\ epoch' = [epoch EXCEPT ![r] = drawn + 1]
  /\ active' = active \ {r}
  /\ UNCHANGED <<seen, fbCounter, senderSide, net, fbNet, sealed>>

(* A receiver starts, starts again or rotates: a new epoch, no peers.      *)
NewEpoch(r) ==
  /\ drawn < MaxEpoch
  /\ drawn' = drawn + 1
  /\ epoch' = [epoch EXCEPT ![r] = drawn + 1]
  /\ seen' = [seen EXCEPT ![r] = {}]
  /\ active' = active \ {r}
  /\ fbCounter' = [fbCounter EXCEPT ![r] = 0]
  /\ UNCHANGED <<senderSide, net, fbNet, sealed>>

(* What seal does with the counter c under the epoch e.                    *)
SealAs(e, c, kind) ==
  /\ c <= MaxCounter
  /\ counter' = c
  /\ net' = net \cup {[epoch |-> e, counter |-> c, kind |-> kind]}
  /\ sealed' = [sealed EXCEPT ![<<e, c>>] = @ + 1]

(* bind_peer to the epoch the receiver announces, and the HELLO that the   *)
(* control loop sends first.  Only another epoch than the engine's resets  *)
(* the counter and the feedback window.                                    *)
(* The first form is a mutant: the old window judges the new feedback.     *)
MutRekeyKeepsWindow(r) ==
  /\ epoch[r] # 0 /\ epoch[r] # key
  /\ peer' = r
  /\ key' = epoch[r]
  /\ SealAs(epoch[r], 1, "hello")
  /\ UNCHANGED <<receiverSide, heard, fbNet>>

Rekey(r) ==
  /\ epoch[r] # 0 /\ epoch[r] # key
  /\ peer' = r
  /\ key' = epoch[r]
  /\ heard' = {}
  /\ SealAs(epoch[r], 1, "hello")
  /\ UNCHANGED <<receiverSide, fbNet>>

(* Mutant: every bind resets the counter.                                  *)
MutRebindResets(r) ==
  /\ epoch[r] # 0 /\ epoch[r] = key
  /\ peer' = r
  /\ SealAs(key, 1, "hello")
  /\ UNCHANGED <<receiverSide, key, heard, fbNet>>

Rebind(r) ==
  /\ epoch[r] # 0 /\ epoch[r] = key
  /\ peer' = r
  /\ SealAs(key, counter + 1, "hello")
  /\ UNCHANGED <<receiverSide, key, heard, fbNet>>

(* Audio, a probe or the next HELLO.                                       *)
Send(kind) ==
  /\ key # 0
  /\ SealAs(key, counter + 1, kind)
  /\ UNCHANGED <<receiverSide, peer, key, heard, fbNet>>

(* handle_datagram: a HELLO opens the session or wakes it; media is for a  *)
(* session that is known, one whose window has granted something.          *)
Deliver(r, d) ==
  /\ d.epoch = epoch[r]
  /\ d.kind = "hello" \/ seen[r] # {}
  /\ Fresh(d.counter, seen[r])
  /\ seen' = [seen EXCEPT ![r] = @ \cup {d.counter}]
  /\ active' = IF d.kind = "hello" THEN active \cup {r} ELSE active
  /\ UNCHANGED <<epoch, drawn, fbCounter, senderSide, net, fbNet, sealed>>

(* Ten idle seconds: the session's window and counter stay.                *)
Expire(r) ==
  /\ active' = active \ {r}
  /\ UNCHANGED <<epoch, drawn, seen, fbCounter, senderSide, net, fbNet, sealed>>

FeedbackDue(r) ==
  /\ r \in active
  /\ fbCounter[r] < MaxCounter
  /\ fbCounter' = [fbCounter EXCEPT ![r] = @ + 1]
  /\ fbNet' = fbNet \cup {[epoch |-> epoch[r], counter |-> fbCounter[r] + 1]}
  /\ UNCHANGED <<epoch, drawn, seen, active, senderSide, net, sealed>>

HandleFeedback(f) ==
  /\ f.epoch = key
  /\ Fresh(f.counter, heard)
  /\ heard' = heard \cup {f.counter}
  /\ UNCHANGED <<receiverSide, peer, key, counter, net, fbNet, sealed>>

Next ==
  \/ \E r \in Receivers :
       \/ NewEpoch(r) \/ Rekey(r) \/ Rebind(r) \/ Expire(r) \/ FeedbackDue(r)
       \/ \E d \in net : Deliver(r, d)
  \/ \E kind \in {"hello", "media"} : Send(kind)
  \/ \E f \in fbNet : HandleFeedback(f)

Spec == Init /\ [][Next]_vars

-----------------------------------------------------------------------------
(* No counter is sealed twice under one epoch: seal never repeats a nonce, *)
(* through rebinds, expiry and new epochs of the receiver.                 *)
SealsUnique == \A p \in Epochs \X Counters : sealed[p] <= 1

(* security_idle_replay.rs: "a fresh authenticated reconnect must recover  *)
(* without restarting the sender".  While the sender is bound to its       *)
(* receiver's epoch, that receiver has granted nothing beyond the sender's *)
(* counter, so what the sender seals next is not taken for a replay.       *)
NextSealFresh == key = epoch[peer] => \A c \in seen[peer] : c <= counter

(* The same for feedback: an expired session that returns under the same   *)
(* epoch goes on counting, and its sender hears it.                        *)
NextFeedbackFresh == key = epoch[peer] => \A c \in heard : c <= fbCounter[peer]

=============================================================================
