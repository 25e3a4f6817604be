-------------------------------- MODULE Control --------------------------------
(***************************************************************************)
(* One configuration directory with everything that uses it at once: the   *)
(* commands (cli/mod.rs), the daemons that start, crash and start again    *)
(* under the daemon lock (config/mod.rs), and the control endpoint between *)
(* them (control/mod.rs, receiver_control of daemon/mod.rs).  `volume' is  *)
(* the command that spans it all: it asks the daemon, and when that says   *)
(* yes it saves the gain.  Daemons and other programs share the ports.     *)
(*                                                                         *)
(* The token is the right one.  A connection to another program ends in an *)
(* error or in the four seconds' timeout.                                  *)
(***************************************************************************)
EXTENDS Preferences, FiniteSets, Naturals

CONSTANTS
  Daemons,  \* the processes of `server'
  Ports,    \* the loopback ports the system gives out
  Gains,    \* the gains `volume --master' is given
  Slots     \* permits of the control server's semaphore (16)

(* volume's change: p.master_gain = Some(g). *)
SetMaster(g) == [s \in Settings |-> [s EXCEPT !.master = g]]

(* select-server and device leave the gain alone, and ask no daemon. *)
Edits == Changes \ {SetMaster(g) : g \in Gains}

ASSUME GainsAssumption == \A g \in Gains : SetMaster(g) \in Changes
ASSUME MasterAssumption ==
  /\ \A s \in Settings : "master" \in DOMAIN s
  /\ \A ch \in Edits, s \in Settings : ch[s].master = s.master
ASSUME SlotsAssumption == Slots \in Nat \ {0}
ASSUME NamesAssumption ==
  /\ None \notin Clients \cup Daemons \cup Ports
  /\ "other" \notin Daemons /\ "free" \notin Daemons

VARIABLES
  lock,      \* who holds daemon.lock
  state,     \* per daemon, how far its control task is
  gain,      \* per daemon, the mixer's master gain
  listener,  \* per port, who listens: a daemon, "other" or "free"
  endpoint,  \* the port control.json names, None without the file
  phase,     \* per client, where its volume command is
  at,        \* per client, the port it read from control.json and connects to
  want,      \* per client, the gain it was given
  taken,     \* per client, the daemon whose server has its connection
  alone,     \* history: the command that runs with nothing beside it
  settled    \* history: the last word on the gain was said undisturbed

askVars == <<phase, at, want, taken>>
daemonVars == <<lock, state, gain, listener, endpoint>>
vars == <<prefVars, daemonVars, askVars, alone, settled>>

(* "deaf": the control task is over, and the daemon goes on without.       *)
States == {"down", "starting", "clear", "bound", "serving", "deaf"}
Live == {d \in Daemons : state[d] # "down"}

TypeOK ==
  /\ PrefTypeOK
  /\ lock \in Daemons \cup {None}
  /\ state \in [Daemons -> States]
  /\ listener \in [Ports -> Daemons \cup {"other", "free"}]
  /\ endpoint \in Ports \cup {None}
  /\ phase \in [Clients -> {"none", "read", "sent", "acked", "saving"}]
  /\ at \in [Clients -> Ports \cup {None}]
  /\ want \in [Clients -> Gains \cup {None}]
  /\ taken \in [Clients -> Daemons \cup {None}]
  /\ alone \in Clients \cup {None}
  /\ settled \in BOOLEAN

Init ==
  /\ PrefInit
  /\ lock = None
  /\ state = [d \in Daemons |-> "down"]
  /\ gain = [d \in Daemons |-> Default.master]
  /\ listener = [p \in Ports |-> "free"]
  /\ endpoint = None
  /\ phase = [c \in Clients |-> "none"]
  /\ at = [c \in Clients |-> None]
  /\ want = [c \in Clients |-> None]
  /\ taken = [c \in Clients |-> None]
  /\ alone = None
  /\ settled = TRUE

InFlight(c) == pc[c] # "idle" \/ phase[c] # "none"
Quiet == \A c \in Clients : ~InFlight(c)

-----------------------------------------------------------------------------
(* A daemon's start: the lock, and the gain as preferences.json has it.    *)
(* It loses the race for the lock and exits when another holds it.         *)
MutMayStart(d) == state[d] = "down"
MayStart(d) == state[d] = "down" /\ lock = None

(* Mutant: the gain of the directory is not applied.                       *)
MutSavedGain == Default.master
SavedGain == Current.master

Start(d) ==
  /\ MayStart(d)
  /\ lock' = d
  /\ state' = [state EXCEPT ![d] = "starting"]
  /\ gain' = [gain EXCEPT ![d] = SavedGain]
  /\ alone' = None
  /\ settled' = (settled /\ Quiet)
  /\ UNCHANGED <<prefVars, listener, endpoint, askVars>>

(* run_control_server: whoever answers within 300 ms at the endpoint the   *)
(* file names is taken for a daemon of this directory, and the control     *)
(* task ends; the daemon goes on without.  A mutant takes the file itself  *)
(* for an answer.                                                          *)
MutAnswered == endpoint # None
Answered == endpoint # None /\ listener[endpoint] # "free"

Probe(d) ==
  /\ state[d] = "starting"
  /\ \E inTime \in BOOLEAN :
       state' = [state EXCEPT ![d] = IF Answered /\ inTime THEN "deaf" ELSE "clear"]
  /\ UNCHANGED <<prefVars, lock, gain, listener, endpoint, askVars, alone, settled>>

(* Any free port.                                                          *)
Bind(d, p) ==
  /\ state[d] = "clear"
  /\ listener[p] = "free"
  /\ state' = [state EXCEPT ![d] = "bound"]
  /\ listener' = [listener EXCEPT ![p] = d]
  /\ UNCHANGED <<prefVars, lock, gain, endpoint, askVars, alone, settled>>

(* private_write of control.json: Windows removes the old file first.      *)
RemoveEndpoint(d) ==
  /\ state[d] = "bound"
  /\ build = "windows" /\ endpoint # None
  /\ endpoint' = None
  /\ UNCHANGED <<prefVars, lock, state, gain, listener, askVars, alone, settled>>

Serve(d, p) ==
  /\ state[d] = "bound" /\ listener[p] = d
  /\ build = "windows" => endpoint = None
  /\ state' = [state EXCEPT ![d] = "serving"]
  /\ endpoint' = p
  /\ UNCHANGED <<prefVars, lock, gain, listener, askVars, alone, settled>>

PortsFreed(d) ==
  listener' = [p \in Ports |-> IF listener[p] = d THEN "free" ELSE listener[p]]

(* bind, local_addr, private_write or accept fails: the control task ends  *)
(* with the error and drops the listener.  control.json stays as it is,    *)
(* and the connections already taken live on.                              *)
ServerFails(d) ==
  /\ state[d] \in {"clear", "bound", "serving"}
  /\ state' = [state EXCEPT ![d] = "deaf"]
  /\ PortsFreed(d)
  /\ UNCHANGED <<prefVars, lock, gain, endpoint, askVars, alone, settled>>

(* A crash frees the lock and the port and cuts the connections;           *)
(* control.json stays.                                                     *)
Crash(d) ==
  /\ d \in Live
  /\ state' = [state EXCEPT ![d] = "down"]
  /\ lock' = IF lock = d THEN None ELSE lock
  /\ PortsFreed(d)
  /\ taken' = [c \in Clients |-> IF taken[c] = d THEN None ELSE taken[c]]
  /\ UNCHANGED <<prefVars, gain, endpoint, phase, at, want, alone, settled>>

OtherProgram(p) ==
  /\ \/ listener[p] = "free" /\ listener' = [listener EXCEPT ![p] = "other"]
     \/ listener[p] = "other" /\ listener' = [listener EXCEPT ![p] = "free"]
  /\ UNCHANGED <<prefVars, lock, state, gain, endpoint, askVars, alone, settled>>

-----------------------------------------------------------------------------
(* A command begins: from now on it is alone, or nobody is. *)
Noted(c) ==
  /\ alone' = IF Quiet THEN c ELSE None
  /\ settled' = (settled /\ Quiet)

Ends(c) ==
  /\ phase' = [phase EXCEPT ![c] = "none"]
  /\ at' = [at EXCEPT ![c] = None]
  /\ want' = [want EXCEPT ![c] = None]
  /\ taken' = [taken EXCEPT ![c] = None]

Edit(c, ch) ==
  /\ ~InFlight(c)
  /\ Begin(c, ch)
  /\ Noted(c)
  /\ UNCHANGED <<daemonVars, askVars>>

(* volume: control_request reads the endpoint, ... *)
Ask(c, g) ==
  /\ ~InFlight(c)
  /\ endpoint # None
  /\ phase' = [phase EXCEPT ![c] = "read"]
  /\ at' = [at EXCEPT ![c] = endpoint]
  /\ want' = [want EXCEPT ![c] = g]
  /\ Noted(c)
  /\ UNCHANGED <<prefVars, daemonVars, taken>>

(* ... connects and sends; the server takes the connection when it has a   *)
(* permit left, and drops it otherwise.                                    *)
ServedBy(c) == IF at[c] = None THEN "free" ELSE listener[at[c]]
Sent(d) == {c \in Clients : taken[c] = d}

Connect(c, d) ==
  /\ phase[c] = "read"
  /\ state[d] = "serving" /\ ServedBy(c) = d
  /\ Cardinality(Sent(d)) < Slots
  /\ phase' = [phase EXCEPT ![c] = "sent"]
  /\ taken' = [taken EXCEPT ![c] = d]
  /\ at' = [at EXCEPT ![c] = None]
  /\ UNCHANGED <<prefVars, daemonVars, want, alone, settled>>

(* receiver_control: apply_volume sets the master gain first; an unknown   *)
(* stream, or the client's timeout, still makes the command fail.          *)
Handle(c, d, ok) ==
  /\ taken[c] = d
  /\ gain' = [gain EXCEPT ![d] = want[c]]
  /\ IF ok
     THEN /\ phase' = [phase EXCEPT ![c] = "acked"]
          /\ taken' = [taken EXCEPT ![c] = None]
          /\ UNCHANGED <<at, want, settled>>
     ELSE Ends(c) /\ settled' = FALSE
  /\ UNCHANGED <<prefVars, lock, state, listener, endpoint, alone>>

(* Nobody listens, or the connection is dropped.  A request outlives a     *)
(* client that gives up: it is in flight until it is handled or dropped.   *)
Refused(c) ==
  /\ phase[c] \in {"read", "sent"}
  /\ Ends(c)
  /\ UNCHANGED <<prefVars, daemonVars, alone, settled>>

(* Only now is the gain saved. *)
Save(c) ==
  /\ phase[c] = "acked"
  /\ Begin(c, SetMaster(want[c]))
  /\ phase' = [phase EXCEPT ![c] = "saving"]
  /\ UNCHANGED <<daemonVars, at, want, taken, alone, settled>>

SaveStep(c) ==
  /\ Load(c) \/ WriteTmp(c) \/ FindOld(c) \/ RemoveOld(c)
  /\ UNCHANGED <<daemonVars, askVars, alone, settled>>

(* The command is done; a volume command that ran alone has settled the    *)
(* gain.                                                                   *)
Done(c) ==
  /\ Rename(c)
  /\ Ends(c)
  /\ settled' = (settled \/ (alone = c /\ phase[c] = "saving"))
  /\ UNCHANGED <<daemonVars, alone>>

(* The command fails or is killed while it saves. *)
Dies(c) ==
  /\ \/ Abandon(c)
     \/ pc[c] = "idle" /\ phase[c] = "acked" /\ UNCHANGED prefVars
  /\ Ends(c)
  /\ settled' = (settled /\ phase[c] = "none" /\ pc[c] # "cleared")
  /\ UNCHANGED <<daemonVars, alone>>

DaemonStep(d) ==
  \/ Start(d)
  \/ Probe(d)
  \/ \E p \in Ports : Bind(d, p) \/ Serve(d, p)
  \/ RemoveEndpoint(d)
  \/ ServerFails(d)
  \/ Crash(d)

ClientStep(c) ==
  \/ \E ch \in Edits : Edit(c, ch)
  \/ \E g \in Gains : Ask(c, g)
  \/ \E d \in Daemons : Connect(c, d)
  \/ \E d \in Daemons, ok \in BOOLEAN : Handle(c, d, ok)
  \/ Refused(c)
  \/ Save(c)
  \/ SaveStep(c)
  \/ Done(c)
  \/ Dies(c)

Next ==
  \/ \E d \in Daemons : DaemonStep(d)
  \/ \E c \in Clients : ClientStep(c)
  \/ \E p \in Ports : OtherProgram(p)

Spec == Init /\ [][Next]_vars

-----------------------------------------------------------------------------
(* control.json names the port of the daemon that serves, however daemons  *)
(* crash and start: a client that reads it now gets through.               *)
EndpointIsOwners ==
  \A d \in Daemons : state[d] = "serving" => endpoint # None /\ listener[endpoint] = d

(* What the error of a start says, "a daemon already owns this config      *)
(* directory", is never so: whoever answers at the port that control.json  *)
(* names is another program, for the lock has excluded the daemons, and a  *)
(* dead one has given up its port.  (A bind, a write or an accept that     *)
(* fails leaves a daemon without control as well, with an error that says  *)
(* so.)                                                                    *)
AnsweredByStranger ==
  [][\A d \in Daemons :
       state[d] = "starting" /\ state'[d] = "deaf" => listener[endpoint] = "other"]_vars

(* "Master gain is saved across restarts": between commands, the running   *)
(* daemon plays at the gain a restarted one would start with, once a       *)
(* volume command had the directory to itself from question to rename, and *)
(* until one is cut off half way, overtakes another, or runs while a       *)
(* daemon starts.                                                          *)
GainKept == settled /\ Quiet => \A d \in Live : gain[d] = Current.master

(* cli/mod.rs, Volume: "Master gain is saved across restarts."             *)
GainSaved == Quiet => \A d \in Live : gain[d] = Current.master

=============================================================================
