--------------------------------- MODULE Probe ---------------------------------
(***************************************************************************)
(* Probe trains of one sender to one receiver: begin_train and the probe   *)
(* arm of run_sender (src/src/daemon/mod.rs), begin_probe, probe,          *)
(* note_probe and the probe part of handle_feedback of                     *)
(* src/src/transport/sender.rs, apply_probe and the probe fields of the    *)
(* feedback of src/src/transport/receiver.rs, and the delivery rule of     *)
(* highest_sustainable_step_timed (src/src/transport/adapt.rs).            *)
(*                                                                         *)
(* A train sends PerStep probes at each step of a ladder of rates; the     *)
(* receiver counts what comes and says so in every feedback; the sender    *)
(* judges the train by the newest counts it was told.  Datagrams are lost, *)
(* delayed and reordered at will, across trains, restarts and sessions.    *)
(* The anti-replay windows on both sides let each in once.                 *)
(***************************************************************************)
EXTENDS Integers, FiniteSets

CONSTANTS
  Steps,    \* number of steps of the ladder (5)
  PerStep,  \* probes of a step (20)
  Budget,   \* percentage that must arrive (90)
  MaxGen,     \* bound on the trains
  MaxEpoch,   \* bound on the receiver's epochs
  MaxReports  \* bound on the feedback on the way at a time

ASSUME StepsAssumption == Steps \in Nat \ {0}
ASSUME PerStepAssumption == PerStep \in Nat \ {0}
ASSUME BudgetAssumption == Budget \in 1 .. 100
ASSUME BoundsAssumption == MaxGen \in Nat /\ MaxEpoch \in Nat /\ MaxReports \in Nat

VARIABLES
  epoch,     \* the receiver's epoch
  rgen,      \* probe_gen of the receiver's peer; 0 before the first probe
  counts,    \* its probe_bytes, in probes
  key,       \* the epoch the sender is bound to
  gen,       \* probe_gen of the sender
  at,        \* plan_at: the probes of the train sent so far
  probing,   \* a train is on
  credited,  \* the sender's probe_bytes, in probes
  floor,     \* goodput_bps, as the number of ladder steps it reaches; 0 for none
  net,       \* probes on the way
  reports,   \* feedback on the way
  delivered  \* history: the probes the receiver counted

recvVars == <<epoch, rgen, counts, delivered>>
sendVars == <<key, gen, at, probing, credited, floor>>
vars == <<epoch, rgen, counts, key, gen, at, probing, credited, floor, net, reports, delivered>>

Ladder == 1 .. Steps
Zero == [s \in Ladder |-> 0]

(* plan_probe: PerStep probes of the first step, then of the second, ...   *)
StepOf(i) == ((i - 1) \div PerStep) + 1
PlanLength == Steps * PerStep

(* A probe is the i-th of train g, sealed under epoch e.                   *)
Probes == [epoch : Nat, gen : Nat, i : 1 .. PlanLength]
Reports == [epoch : Nat, gen : Nat, counts : [Ladder -> Nat]]

TypeOK ==
  /\ epoch \in Nat /\ rgen \in Nat
  /\ counts \in [Ladder -> Nat]
  /\ key \in Nat /\ gen \in Nat
  /\ at \in 0 .. PlanLength
  /\ probing \in BOOLEAN
  /\ credited \in [Ladder -> Nat]
  /\ floor \in 0 .. Steps
  /\ net \subseteq Probes
  /\ reports \subseteq Reports
  /\ delivered \subseteq Probes /\ IsFiniteSet(delivered)

Init ==
  /\ epoch = 1 /\ rgen = 0 /\ counts = Zero /\ delivered = {}
  /\ key = 1 /\ gen = 2 /\ at = 0 /\ probing = TRUE /\ credited = Zero /\ floor = 0
  /\ net = {} /\ reports = {}

(* begin_train with begin_probe.                                           *)
BeginTrain ==
  /\ gen < MaxGen
  /\ gen' = gen + 1
  /\ at' = 0
  /\ probing' = TRUE
  /\ credited' = Zero

(* Every 30 s, or on heavy loss, but not during a train.                   *)
Retrain ==
  /\ ~probing
  /\ BeginTrain
  /\ UNCHANGED <<key, floor, recvVars, net, reports>>

(* The session is left, at any time, and the receiver bound again, under   *)
(* the epoch it has by now; a train is cut short.                          *)
NewSession ==
  /\ key' = epoch
  /\ BeginTrain
  /\ UNCHANGED <<floor, recvVars, net, reports>>

(* The next probe of the plan.                                             *)
SendProbe ==
  /\ probing /\ at < PlanLength
  /\ at' = at + 1
  /\ net' = net \cup {[epoch |-> key, gen |-> gen, i |-> at']}
  /\ UNCHANGED <<key, gen, probing, credited, floor, recvVars, reports>>

(* The steps of which enough arrived, by the sender's counts.              *)
Sustained == {s \in Ladder : credited[s] * 100 >= PerStep * Budget}

(* A second after the last probe the train is judged.  The spans of        *)
(* sending and arrival may cap the rate of the best step further down.     *)
JudgeTrain ==
  /\ probing /\ at = PlanLength
  /\ probing' = FALSE
  /\ \/ Sustained = {} /\ floor' = 0
     \/ \E best \in Sustained :
          /\ \A s \in Sustained : s <= best
          /\ floor' \in 0 .. best
  /\ UNCHANGED <<key, gen, at, credited, recvVars, net, reports>>

(* A probe of another train starts the counts anew; in the mutant they go  *)
(* on.                                                                     *)
MutCountsFor(g) == counts
CountsFor(g) == IF g = rgen THEN counts ELSE Zero

(* A probe comes to the receiver, which counts it if it opens.             *)
ApplyProbe(p) ==
  /\ p \in net
  /\ net' = net \ {p}
  /\ IF p.epoch = epoch
     THEN /\ rgen' = p.gen
          /\ counts' = [CountsFor(p.gen) EXCEPT ![StepOf(p.i)] = @ + 1]
          /\ delivered' = delivered \cup {p}
     ELSE UNCHANGED <<rgen, counts, delivered>>
  /\ UNCHANGED <<epoch, sendVars, reports>>

(* The probe fields of the feedback that is due.                           *)
Feedback ==
  /\ Cardinality(reports) < MaxReports
  /\ reports' = reports \cup {[epoch |-> epoch, gen |-> rgen, counts |-> counts]}
  /\ UNCHANGED <<recvVars, sendVars, net>>

(* The sender takes the counts of its own train only; the mutant takes all.*)
MutOwnTrain(r) == r.epoch = key
OwnTrain(r) == r.epoch = key /\ r.gen = gen

HandleFeedback(r) ==
  /\ r \in reports
  /\ reports' = reports \ {r}
  /\ credited' = IF OwnTrain(r) THEN r.counts ELSE credited
  /\ UNCHANGED <<key, gen, at, probing, floor, recvVars, net>>

(* The receiver starts again, or rotates its epoch: its peers are gone.    *)
NewEpoch ==
  /\ epoch < MaxEpoch
  /\ epoch' = epoch + 1
  /\ rgen' = 0
  /\ counts' = Zero
  /\ UNCHANGED <<sendVars, net, reports, delivered>>

Next ==
  \/ Retrain
  \/ NewSession
  \/ SendProbe
  \/ JudgeTrain
  \/ \E p \in net : ApplyProbe(p)
  \/ Feedback
  \/ \E r \in reports : HandleFeedback(r)
  \/ NewEpoch

Spec == Init /\ [][Next]_vars

-----------------------------------------------------------------------------
(* The probes of train g that were counted at step s under epoch e.        *)
Counted(e, g, s) == {p \in delivered : p.epoch = e /\ p.gen = g /\ StepOf(p.i) = s}

(* handle_feedback and apply_probe: no train is credited with a probe of   *)
(* another train or another epoch, nor with a probe that did not arrive.   *)
CreditsDelivered == \A s \in Ladder : credited[s] <= Cardinality(Counted(key, gen, s))

(* The first line of adapt.rs: estimated_goodput_bps is "the highest paced *)
(* probe step that cleared the loss budget, never a claim about the        *)
(* physical maximum".  A train that is judged sets a floor no higher than  *)
(* a step of which the budgeted share was delivered, in this very train.   *)
FloorBacked ==
  [][probing /\ ~probing' =>
       floor' = 0 \/ \E s \in floor' .. Steps :
                       Cardinality(Counted(key, gen, s)) * 100 >= PerStep * Budget]_vars

(* The receiver's side: what it tells is what came, of the train it names. *)
ReportsTruthful ==
  \A r \in reports : \A s \in Ladder : r.counts[s] <= Cardinality(Counted(r.epoch, r.gen, s))

=============================================================================
