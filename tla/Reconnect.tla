------------------------------- MODULE Reconnect -------------------------------
(***************************************************************************)
(* The sender's control loop, run_sender with wait_for_peer and            *)
(* peer_matches of src/src/daemon/mod.rs, against receivers that crash,    *)
(* start again and change their epoch.  The outer loop discovers a         *)
(* receiver and binds it; the inner loop streams, verifies the receiver by *)
(* discovery every two seconds, and leaves when the epoch is another or    *)
(* when the receiver is neither found nor heard.                           *)
(*                                                                         *)
(* Time is abstract: the verdict of a timer is a step of its own.  What a  *)
(* lossy network adds (an answer, a HELLO or the feedback of three seconds *)
(* lost), and what the receivers suffer, draws on a budget of MaxFaults.   *)
(* Packet counters and replay windows are the subject of Session.          *)
(***************************************************************************)
EXTENDS Integers, FiniteSets

CONSTANTS
  Receivers,
  Choices,     \* what the sender may be told: the receivers of a name or at an address, or {}
  MaxFaults    \* bound on faults

ASSUME ReceiversAssumption == IsFiniteSet(Receivers) /\ Receivers # {}
ASSUME ChoicesAssumption == Choices \subseteq SUBSET Receivers
ASSUME FaultsAssumption == MaxFaults \in Nat

VARIABLES
  named,     \* the sender's choice, for the whole run
  up,        \* receivers that run
  epoch,     \* per receiver, its epoch (ids are numbered in the order drawn)
  instance,  \* per receiver, the instance id of its process
  drawn,     \* the last id drawn
  admitted,  \* receivers where the sender's session is active under the current epoch
  phase,     \* "seek": in wait_for_peer; "stream": in the inner loop
  bound,     \* the announce the engine is bound to
  asking,    \* receivers that owe an answer to the open query
  found,     \* the answers to the open query
  tasks,     \* verify tasks spawned whose result the loop has not taken
  inflight,  \* verify_inflight
  misses,    \* misses, up to the 3 that count
  healthy,   \* last_feedback is less than three seconds old
  faults     \* faults so far

receivers == <<named, up, epoch, instance, drawn>>
query == <<asking, found>>
verifying == <<tasks, inflight, misses>>
vars == <<receivers, admitted, phase, bound, query, verifying, healthy, faults>>

Ids == 0 .. Cardinality(Receivers) + MaxFaults
Announces == [rx : Receivers, epoch : Ids, instance : Ids]
AnnounceOf(r) == [rx |-> r, epoch |-> epoch[r], instance |-> instance[r]]

TypeOK ==
  /\ named \in Choices
  /\ up \subseteq Receivers
  /\ epoch \in [Receivers -> Ids]
  /\ instance \in [Receivers -> Ids]
  /\ drawn \in Ids
  /\ admitted \subseteq up
  /\ phase \in {"seek", "stream"}
  /\ bound \in Announces
  /\ asking \subseteq up
  /\ found \subseteq Announces
  /\ tasks \in Nat
  /\ inflight \in BOOLEAN
  /\ misses \in 0 .. 2
  /\ healthy \in BOOLEAN
  /\ faults \in 0 .. MaxFaults

Init ==
  /\ named \in Choices
  /\ up = {}
  /\ epoch = [r \in Receivers |-> 0]
  /\ instance = [r \in Receivers |-> 0]
  /\ drawn = 0
  /\ admitted = {}
  /\ phase = "seek"
  /\ bound = [rx |-> CHOOSE r \in Receivers : TRUE, epoch |-> 0, instance |-> 0]
  /\ asking = {} /\ found = {}
  /\ tasks = 0 /\ inflight = FALSE /\ misses = 0
  /\ healthy = FALSE
  /\ faults = 0

Fault == faults < MaxFaults /\ faults' = faults + 1

-----------------------------------------------------------------------------
(* The receivers: run_server draws both ids when it starts; a rotation     *)
(* draws an epoch (receiver.rs) and forgets every session.                 *)
Start(r) ==
  /\ r \notin up
  /\ up' = up \cup {r}
  /\ drawn' = drawn + 1
  /\ epoch' = [epoch EXCEPT ![r] = drawn + 1]
  /\ instance' = [instance EXCEPT ![r] = drawn + 1]
  /\ UNCHANGED <<named, admitted, phase, bound, query, verifying, healthy, faults>>

Crash(r) ==
  /\ r \in up
  /\ Fault
  /\ up' = up \ {r}
  /\ admitted' = admitted \ {r}
  /\ asking' = asking \ {r}
  /\ UNCHANGED <<named, epoch, instance, drawn, phase, bound, found, verifying, healthy>>

Rotate(r) ==
  /\ r \in up
  /\ Fault
  /\ drawn' = drawn + 1
  /\ epoch' = [epoch EXCEPT ![r] = drawn + 1]
  /\ admitted' = admitted \ {r}
  /\ UNCHANGED <<named, up, instance, phase, bound, query, verifying, healthy>>

(* Datagrams of the stream reach the receiver and open under its epoch.    *)
PathUp == phase = "stream" /\ bound.rx \in up /\ bound.epoch = epoch[bound.rx]

(* Ten seconds without a datagram: the sender went elsewhere, or losses.   *)
Forget(r) ==
  /\ r \in admitted
  /\ IF PathUp /\ bound.rx = r THEN Fault ELSE UNCHANGED faults
  /\ admitted' = admitted \ {r}
  /\ UNCHANGED <<receivers, phase, bound, query, verifying, healthy>>

(* HELLO goes out on binding and every second: one gets through.           *)
HelloArrives ==
  /\ PathUp
  /\ admitted' = admitted \cup {bound.rx}
  /\ UNCHANGED <<receivers, phase, bound, query, verifying, healthy, faults>>

FeedbackArrives ==
  /\ PathUp /\ bound.rx \in admitted
  /\ healthy' = TRUE
  /\ UNCHANGED <<receivers, admitted, phase, bound, query, verifying, faults>>

(* Three seconds without feedback.                                         *)
FeedbackStale ==
  /\ healthy
  /\ IF PathUp THEN Fault ELSE UNCHANGED faults
  /\ healthy' = FALSE
  /\ UNCHANGED <<receivers, admitted, phase, bound, query, verifying>>

-----------------------------------------------------------------------------
(* Discovery: a query carries a fresh challenge, and open_announce accepts *)
(* only answers to it; select_match keeps those of the name, if given.     *)
OpenQuery ==
  /\ asking' = IF named = {} THEN up ELSE up \cap named
  /\ found' = {}

(* Mutant: an answer to an earlier query, of an earlier epoch, is accepted. *)
MutAnswerStale(r) ==
  /\ r \in asking
  /\ asking' = asking \ {r}
  /\ \E e \in 1 .. epoch[r] : found' = found \cup {[AnnounceOf(r) EXCEPT !.epoch = e]}
  /\ UNCHANGED <<receivers, admitted, phase, bound, verifying, healthy, faults>>

Answer(r) ==
  /\ r \in asking
  /\ asking' = asking \ {r}
  /\ found' = found \cup {AnnounceOf(r)}
  /\ UNCHANGED <<receivers, admitted, phase, bound, verifying, healthy, faults>>

(* The deadline passes with answers lost or late.                          *)
AnswersLost ==
  /\ asking # {}
  /\ Fault
  /\ asking' = {}
  /\ UNCHANGED <<receivers, admitted, phase, bound, found, verifying, healthy>>

SeekAgain ==
  /\ phase = "seek"
  /\ asking = {} /\ found = {}
  /\ OpenQuery
  /\ UNCHANGED <<receivers, admitted, phase, bound, verifying, healthy, faults>>

(* The first match in the order of arrival; a new inner loop starts.       *)
Bind ==
  /\ phase = "seek"
  /\ asking = {}
  /\ bound' \in found
  /\ phase' = "stream"
  /\ found' = {}
  /\ inflight' = FALSE
  /\ misses' = 0
  /\ healthy' = TRUE
  /\ UNCHANGED <<receivers, admitted, asking, tasks, faults>>

(* Mutant: the timer does not look at verify_inflight.                     *)
MutVerifyAgain ==
  /\ phase = "stream"
  /\ inflight' = TRUE
  /\ tasks' = tasks + 1
  /\ OpenQuery
  /\ UNCHANGED <<receivers, admitted, phase, bound, misses, healthy, faults>>

VerifyDue ==
  /\ phase = "stream"
  /\ ~inflight
  /\ inflight' = TRUE
  /\ tasks' = tasks + 1
  /\ OpenQuery
  /\ UNCHANGED <<receivers, admitted, phase, bound, misses, healthy, faults>>

(* peer_matches: the instance, or the name if one was given.  When it was  *)
(* an address (`--to ip:port'), only what answers from there counts: the   *)
(* same, for `bound.rx' is there, and whoever has its instance.            *)
Matching == {a \in found : a.instance = bound.instance \/ a.rx \in named}

TakeResult ==
  /\ phase = "stream"
  /\ tasks > 0
  /\ asking = {}
  /\ tasks' = tasks - 1
  /\ inflight' = FALSE
  /\ UNCHANGED <<receivers, admitted, bound, healthy, faults>>

LeaveSession == phase' = "seek" /\ misses' = 0 /\ OpenQuery
StaySession == UNCHANGED <<phase, query>>

(* The match announces another epoch: receiver restarted or rotated.       *)
Rekey ==
  /\ TakeResult
  /\ \E a \in Matching : a.epoch # bound.epoch
  /\ LeaveSession

(* Mutant: any match is a confirmation, whatever epoch it announces.       *)
MutConfirmAny ==
  /\ TakeResult
  /\ Matching # {}
  /\ misses' = 0
  /\ StaySession

Confirm ==
  /\ TakeResult
  /\ \E a \in Matching : a.epoch = bound.epoch
  /\ misses' = 0
  /\ StaySession

(* No match: the third in a row counts, unless feedback is healthy.        *)
Miss ==
  /\ TakeResult
  /\ Matching = {}
  /\ misses < 2 \/ healthy
  /\ misses' = (misses + 1) % 3
  /\ StaySession

(* Mutant: feedback is not asked.                                          *)
MutRediscoverAnyway ==
  /\ TakeResult
  /\ Matching = {}
  /\ misses = 2
  /\ LeaveSession

Rediscover ==
  /\ TakeResult
  /\ Matching = {}
  /\ misses = 2 /\ ~healthy
  /\ LeaveSession

VerifyResult == Rekey \/ Confirm \/ Miss \/ Rediscover

-----------------------------------------------------------------------------
Next ==
  \/ \E r \in Receivers :
       Start(r) \/ Crash(r) \/ Rotate(r) \/ Forget(r) \/ Answer(r)
  \/ HelloArrives \/ FeedbackArrives \/ FeedbackStale
  \/ AnswersLost
  \/ SeekAgain \/ Bind
  \/ VerifyDue \/ VerifyResult

(* The loop's timers fire and its tasks end (tokio); a receiver is started *)
(* again by its service manager; a datagram sent each second, or an answer *)
(* to a query sent each second, gets through once the faults have ended.   *)
Fairness ==
  /\ \A r \in Receivers : WF_vars(Start(r)) /\ WF_vars(Answer(r))
  /\ WF_vars(HelloArrives) /\ WF_vars(FeedbackArrives)
  /\ WF_vars(FeedbackStale /\ ~PathUp)
  /\ WF_vars(SeekAgain) /\ WF_vars(Bind)
  /\ WF_vars(VerifyDue) /\ WF_vars(VerifyResult)

Spec == Init /\ [][Next]_vars /\ Fairness

-----------------------------------------------------------------------------
(* At most one verify task is out, the one the flag stands for, and none   *)
(* while the loop is discovering: no result of an earlier session, with an *)
(* earlier epoch, is ever taken for news in a later one.                   *)
OneVerify ==
  /\ tasks = IF inflight THEN 1 ELSE 0
  /\ phase = "seek" => ~inflight

(* A sender never goes back to an epoch its receiver has left: answers are *)
(* bound to the query, so none outlives the query it was made for.         *)
NeverBackwards == [][bound'.rx = bound.rx => bound'.epoch >= bound.epoch]_vars

(* A session with fresh feedback is left only because its receiver changed *)
(* epoch or stopped; lost discovery answers alone never interrupt it       *)
(* (daemon/mod.rs: "authenticated audio feedback is healthy").             *)
HealthyKept ==
  [][phase = "stream" /\ phase' = "seek" /\ healthy
       => bound.rx \notin up \/ epoch[bound.rx] # bound.epoch]_vars

(* README.md: once the faults have ended the sender is connected again, by *)
(* itself and for good: bound to the current epoch of a running receiver,  *)
(* admitted there, and hearing its feedback.                               *)
Connected == PathUp /\ bound.rx \in admitted /\ healthy
Reconnects == <>[]Connected

=============================================================================
