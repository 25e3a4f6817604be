----------------------------- MODULE ControlProofs -----------------------------
(***************************************************************************)
(* Proofs about Preferences and Control, for any number of commands,       *)
(* daemons and ports and any changes: the preferences are a register,      *)
(* lossy on Windows only, and on Unix the file never goes away under a     *)
(* reader; one daemon serves, and control.json leads to it; the gain heard *)
(* is the gain saved once a volume command had the directory to itself.    *)
(***************************************************************************)
EXTENDS Control, TLAPS

(* A draft exists from the moment the change is made to the rename, and a  *)
(* change while the file is being read: this ties the program counters to  *)
(* what the register sees.                                                 *)
DraftsOrdered ==
  \A c \in Clients :
    /\ pc[c] \in Writing <=> draft[c] # None
    /\ pc[c] = "found" <=> change[c] # None
    /\ pc[c] \in {"clearing", "cleared"} => build = "windows"

PrefInv == PrefTypeOK /\ DraftsOrdered /\ FoundStays

(* What a change makes of settings are settings.                           *)
LEMMA ChangeTyped == \A ch \in Changes, s \in Settings : ch[s] \in Settings
  BY ChangesAssumption

LEMMA PrefInitInv == PrefInit => PrefInv
  BY SettingsAssumption DEF PrefInit, PrefInv, PrefTypeOK, DraftsOrdered, FoundStays, Writing

LEMMA PrefStepInv == ASSUME PrefInv, NEW c \in Clients, PrefStep(c) PROVE PrefInv'
<1> USE DEF PrefInv, Goto
<1>1. ASSUME NEW ch \in Changes, Begin(c, ch) PROVE PrefInv'
  <2>1. PrefTypeOK'
    BY <1>1, ChangeTyped, SettingsAssumption DEF Begin, PrefTypeOK, Writing
  <2>2. DraftsOrdered'
    BY <1>1, ChangeTyped, SettingsAssumption, ChangesAssumption
       DEF Begin, DraftsOrdered, PrefTypeOK, Writing
  <2>3. FoundStays'
    BY <1>1 DEF Begin, FoundStays, PrefTypeOK
  <2> QED BY <2>1, <2>2, <2>3
<1>2. CASE Load(c)
  <2>1. PrefTypeOK'
    BY <1>2, ChangeTyped DEF Load, PrefTypeOK, DraftsOrdered, Writing
  <2>2. DraftsOrdered'
    BY <1>2, ChangeTyped, SettingsAssumption DEF Load, DraftsOrdered, PrefTypeOK, Writing
  <2>3. FoundStays'
    BY <1>2 DEF Load, FoundStays, DraftsOrdered, PrefTypeOK, Writing
  <2> QED BY <2>1, <2>2, <2>3
<1>3. CASE WriteTmp(c)
  <2>1. PrefTypeOK'
    BY <1>3, ChangeTyped DEF WriteTmp, PrefTypeOK, DraftsOrdered, Writing
  <2>2. DraftsOrdered'
    BY <1>3, ChangeTyped, SettingsAssumption DEF WriteTmp, DraftsOrdered, PrefTypeOK, Writing
  <2>3. FoundStays'
    BY <1>3 DEF WriteTmp, FoundStays, DraftsOrdered, PrefTypeOK, Writing
  <2> QED BY <2>1, <2>2, <2>3
<1>4. CASE FindOld(c)
  <2>1. PrefTypeOK'
    BY <1>4, ChangeTyped DEF FindOld, PrefTypeOK, DraftsOrdered, Writing
  <2>2. DraftsOrdered'
    BY <1>4, ChangeTyped, SettingsAssumption DEF FindOld, DraftsOrdered, PrefTypeOK, Writing
  <2>3. FoundStays'
    BY <1>4 DEF FindOld, FoundStays, DraftsOrdered, PrefTypeOK, Writing
  <2> QED BY <2>1, <2>2, <2>3
<1>5. CASE RemoveOld(c)
  <2>1. PrefTypeOK'
    BY <1>5, ChangeTyped DEF RemoveOld, PrefTypeOK, DraftsOrdered, Writing
  <2>2. DraftsOrdered'
    BY <1>5, ChangeTyped, SettingsAssumption DEF RemoveOld, DraftsOrdered, PrefTypeOK, Writing
  <2>3. FoundStays'
    BY <1>5 DEF RemoveOld, FoundStays, DraftsOrdered, PrefTypeOK, Writing
  <2> QED BY <2>1, <2>2, <2>3
<1>6. CASE Rename(c)
  <2>1. PrefTypeOK'
    BY <1>6, ChangeTyped DEF Rename, ReadyToRename, PrefTypeOK, DraftsOrdered, Writing
  <2>2. DraftsOrdered'
    BY <1>6, ChangeTyped, SettingsAssumption DEF Rename, ReadyToRename, DraftsOrdered, PrefTypeOK, Writing
  <2>3. FoundStays'
    BY <1>6 DEF Rename, ReadyToRename, FoundStays, DraftsOrdered, PrefTypeOK, Writing
  <2> QED BY <2>1, <2>2, <2>3
<1>7. CASE Abandon(c)
  <2>1. PrefTypeOK'
    BY <1>7, ChangeTyped DEF Abandon, PrefTypeOK, DraftsOrdered, Writing
  <2>2. DraftsOrdered'
    BY <1>7, ChangeTyped, SettingsAssumption DEF Abandon, DraftsOrdered, PrefTypeOK, Writing
  <2>3. FoundStays'
    BY <1>7 DEF Abandon, FoundStays, DraftsOrdered, PrefTypeOK, Writing
  <2> QED BY <2>1, <2>2, <2>3
<1> QED BY <1>1, <1>2, <1>3, <1>4, <1>5, <1>6, <1>7 DEF PrefStep

LEMMA PrefStutterInv == PrefInv /\ UNCHANGED prefVars => PrefInv'
  BY DEF PrefInv, prefVars, PrefTypeOK, DraftsOrdered, FoundStays

(* Preferences keeps its inductive invariant.                              *)
THEOREM PrefInvariant == PrefSpec => []PrefInv
<1>1. PrefInv /\ [PrefNext]_prefVars => PrefInv'
  BY PrefStepInv, PrefStutterInv DEF PrefNext
<1> QED BY PrefInitInv, <1>1, PTL DEF PrefSpec

(* Types.                                                                  *)
THEOREM PrefTypeCorrect == PrefSpec => []PrefTypeOK
  BY PrefInvariant, PTL DEF PrefInv

(* On Unix a command reads the file it found: config/mod.rs, preferences,  *)
(* against every private_write of the others.                              *)
THEOREM FoundIsReadable == PrefSpec => []FoundStays
  BY PrefInvariant, PTL DEF PrefInv

-----------------------------------------------------------------------------
(* Each system call of a command is a step of the register, or none.       *)
LEMMA RefineStep ==
  ASSUME PrefInv, NEW c \in Clients, PrefStep(c)
  PROVE  [Register!Next]_(Register!vars)
<1> USE DEF PrefInv, Goto, Current
<1>1. ASSUME NEW ch \in Changes, Begin(c, ch) PROVE [Register!Next]_(Register!vars)
  <2>1. CASE file = None
    <3>1. Register!Take(c)
      BY <1>1, <2>1 DEF Begin, Register!Take, DraftsOrdered, Writing
    <3> QED BY <3>1 DEF Register!Next
  <2>2. CASE file # None
    BY <1>1, <2>2 DEF Begin, Register!vars
  <2> QED BY <2>1, <2>2
<1>2. CASE Load(c)
  <2>1. Register!Take(c)
    BY <1>2 DEF Load, Register!Take, DraftsOrdered, PrefTypeOK, Writing
  <2> QED BY <2>1 DEF Register!Next
<1>3. CASE WriteTmp(c)
  BY <1>3 DEF WriteTmp, Register!vars
<1>4. CASE FindOld(c)
  BY <1>4 DEF FindOld, Register!vars
<1>5. CASE RemoveOld(c)
  <2>1. Register!Forget
    BY <1>5 DEF RemoveOld, Register!Forget, DraftsOrdered
  <2> QED BY <2>1 DEF Register!Next
<1>6. CASE Rename(c)
  <2>1. Register!Store(c)
    BY <1>6 DEF Rename, ReadyToRename, Register!Store, DraftsOrdered, Writing
  <2> QED BY <2>1 DEF Register!Next
<1>7. CASE Abandon(c)
  <2>1. CASE draft[c] = None
    BY <1>7, <2>1 DEF Abandon, Register!vars, PrefTypeOK
  <2>2. CASE draft[c] # None
    <3>1. Register!GiveUp(c)
      BY <1>7, <2>2 DEF Abandon, Register!GiveUp
    <3> QED BY <3>1 DEF Register!Next
  <2> QED BY <2>1, <2>2
<1> QED BY <1>1, <1>2, <1>3, <1>4, <1>5, <1>6, <1>7 DEF PrefStep

(* preferences.json is a register, lossy on Windows only.                  *)
THEOREM Refinement == PrefSpec => ImplementsRegister
<1>1. PrefInit => Register!Init
  BY SettingsAssumption DEF PrefInit, Register!Init, Current
<1>2. PrefInv /\ [PrefNext]_prefVars => [Register!Next]_(Register!vars)
  <2>1. UNCHANGED prefVars => UNCHANGED Register!vars
    BY DEF prefVars, Register!vars, Current
  <2> QED BY <2>1, RefineStep DEF PrefNext
<1> QED BY PrefInvariant, <1>1, <1>2, PTL DEF PrefSpec, ImplementsRegister, Register!Spec

-----------------------------------------------------------------------------
(* A live daemon holds the lock, so there is one at most; a daemon listens *)
(* only while it serves or is about to; whoever has taken a connection is  *)
(* alive, and its command waits for the answer; a command in progress      *)
(* knows the gain it was given.                                            *)
LockHeld == \A d \in Daemons : state[d] # "down" => lock = d
PortsOwned ==
  \A p \in Ports : listener[p] \in Daemons => state[listener[p]] \in {"bound", "serving"}
TakenLive == \A c \in Clients : taken[c] \in Daemons => state[taken[c]] # "down"
TakenSent == \A c \in Clients : taken[c] # None => phase[c] = "sent"
Wanted == \A c \in Clients : phase[c] # "none" => want[c] \in Gains

DaemonType ==
  /\ lock \in Daemons \cup {None}
  /\ state \in [Daemons -> States]
  /\ listener \in [Ports -> Daemons \cup {"other", "free"}]
  /\ endpoint \in Ports \cup {None}

AskType ==
  /\ phase \in [Clients -> {"none", "read", "sent", "acked", "saving"}]
  /\ at \in [Clients -> Ports \cup {None}]
  /\ want \in [Clients -> Gains \cup {None}]
  /\ taken \in [Clients -> Daemons \cup {None}]
  /\ Wanted
  /\ TakenSent

NoteType ==
  /\ alone \in Clients \cup {None}
  /\ settled \in BOOLEAN

DaemonInv == DaemonType /\ LockHeld /\ PortsOwned /\ EndpointIsOwners

IInv == DaemonInv /\ AskType /\ NoteType /\ TakenLive

LEMMA InitInv == Init => IInv
  BY NamesAssumption DEF Init, IInv, DaemonInv, DaemonType, States, AskType, Wanted, TakenSent,
     NoteType, LockHeld, PortsOwned, TakenLive, EndpointIsOwners

LEMMA DaemonKept == ASSUME DaemonInv, UNCHANGED <<lock, state, listener, endpoint>> PROVE DaemonInv'
  BY DEF DaemonInv, DaemonType, LockHeld, PortsOwned, EndpointIsOwners

LEMMA AskKept == ASSUME AskType, UNCHANGED askVars PROVE AskType'
  BY DEF AskType, Wanted, TakenSent, askVars

(* While daemons and connections stay, so do their owners.                 *)
LEMMA TakenKept == ASSUME TakenLive, UNCHANGED <<state, taken>> PROVE TakenLive'
  BY DEF TakenLive

LEMMA StartInv == ASSUME IInv, NEW d \in Daemons, Start(d) PROVE DaemonInv'
<1> USE DEF IInv, DaemonInv, Start, MayStart
<1>1. DaemonType'
  BY DEF DaemonType, States
<1>2. LockHeld'
  BY NamesAssumption DEF DaemonType, LockHeld
<1>3. PortsOwned' /\ EndpointIsOwners'
  BY DEF DaemonType, PortsOwned, EndpointIsOwners
<1> QED BY <1>1, <1>2, <1>3

LEMMA ProbeInv == ASSUME IInv, NEW d \in Daemons, Probe(d) PROVE DaemonInv'
<1> USE DEF IInv, DaemonInv, Probe
<1>1. DaemonType'
  BY DEF DaemonType, States
<1>2. LockHeld'
  BY DEF DaemonType, LockHeld
<1>3. PortsOwned' /\ EndpointIsOwners'
  BY DEF DaemonType, PortsOwned, EndpointIsOwners
<1> QED BY <1>1, <1>2, <1>3

(* A daemon that gets a port had none, and nobody had this one.            *)
LEMMA BindInv == ASSUME IInv, NEW d \in Daemons, NEW p \in Ports, Bind(d, p) PROVE DaemonInv'
<1> USE DEF IInv, DaemonInv, Bind
<1>1. DaemonType'
  BY DEF DaemonType, States
<1>2. LockHeld'
  BY DEF DaemonType, LockHeld
<1>3. PortsOwned'
  BY DEF DaemonType, PortsOwned
<1>4. EndpointIsOwners'
  BY DEF DaemonType, LockHeld, EndpointIsOwners
<1> QED BY <1>1, <1>2, <1>3, <1>4

(* The file goes before the daemon serves, so nobody serves without it.    *)
LEMMA RemoveEndpointInv ==
  ASSUME IInv, NEW d \in Daemons, RemoveEndpoint(d)
  PROVE  DaemonInv'
<1> USE DEF IInv, DaemonInv, RemoveEndpoint
<1>1. DaemonType' /\ LockHeld' /\ PortsOwned'
  BY DEF DaemonType, LockHeld, PortsOwned
<1>2. \A e \in Daemons : state[e] # "serving"
  BY DEF LockHeld
<1> QED BY <1>1, <1>2 DEF EndpointIsOwners

LEMMA ServeInv == ASSUME IInv, NEW d \in Daemons, NEW p \in Ports, Serve(d, p) PROVE DaemonInv'
<1> USE DEF IInv, DaemonInv, Serve
<1>1. DaemonType'
  BY DEF DaemonType, States
<1>2. LockHeld'
  BY DEF DaemonType, LockHeld
<1>3. PortsOwned'
  BY DEF DaemonType, PortsOwned
<1>4. EndpointIsOwners'
  BY NamesAssumption DEF DaemonType, LockHeld, EndpointIsOwners
<1> QED BY <1>1, <1>2, <1>3, <1>4

(* With the control task its ports go, so no port has a daemon without it. *)
LEMMA ServerFailsInv == ASSUME IInv, NEW d \in Daemons, ServerFails(d) PROVE DaemonInv'
<1> USE DEF IInv, DaemonInv, ServerFails, PortsFreed
<1>1. DaemonType'
  BY DEF DaemonType, States
<1>2. LockHeld'
  BY DEF DaemonType, LockHeld
<1>3. PortsOwned'
  BY NamesAssumption DEF DaemonType, PortsOwned
<1>4. EndpointIsOwners'
  BY NamesAssumption DEF DaemonType, EndpointIsOwners
<1> QED BY <1>1, <1>2, <1>3, <1>4

LEMMA CrashInv == ASSUME IInv, NEW d \in Daemons, Crash(d) PROVE DaemonInv'
<1> USE DEF IInv, DaemonInv, Crash, PortsFreed
<1>1. DaemonType'
  BY DEF DaemonType, States
<1>2. LockHeld'
  BY DEF DaemonType, LockHeld
<1>3. PortsOwned'
  BY NamesAssumption DEF DaemonType, PortsOwned
<1>4. EndpointIsOwners'
  BY NamesAssumption DEF DaemonType, EndpointIsOwners
<1> QED BY <1>1, <1>2, <1>3, <1>4

LEMMA OtherInv == ASSUME IInv, NEW p \in Ports, OtherProgram(p) PROVE DaemonInv'
<1> USE DEF IInv, DaemonInv, OtherProgram
<1>1. DaemonType'
  BY DEF DaemonType, States
<1>2. LockHeld'
  BY DEF DaemonType, LockHeld
<1>3. PortsOwned'
  BY NamesAssumption DEF DaemonType, PortsOwned
<1>4. EndpointIsOwners'
  BY NamesAssumption DEF DaemonType, EndpointIsOwners
<1> QED BY <1>1, <1>2, <1>3, <1>4

LEMMA DaemonStepInv == ASSUME IInv, NEW d \in Daemons, DaemonStep(d) PROVE IInv'
<1>1. DaemonInv'
  BY StartInv, ProbeInv, BindInv, RemoveEndpointInv, ServeInv, ServerFailsInv, CrashInv
  DEF DaemonStep
<1>2. AskType' /\ TakenLive'
  <2>1. CASE Crash(d)
    <3>1. AskType'
      BY <2>1 DEF Crash, IInv, AskType, Wanted, TakenSent
    <3>2. TakenLive'
      BY <2>1, NamesAssumption DEF Crash, IInv, AskType, TakenLive, DaemonInv, DaemonType
    <3> QED BY <3>1, <3>2
  <2>2. CASE ~Crash(d)
    <3>1. UNCHANGED askVars
      BY <2>2 DEF DaemonStep, Start, Probe, Bind, RemoveEndpoint, Serve, ServerFails
    <3>2. \A e \in Daemons : state[e] # "down" => state'[e] # "down"
      BY <2>2 DEF DaemonStep, Start, Probe, Bind, RemoveEndpoint, Serve, ServerFails, IInv,
         DaemonInv, DaemonType
    <3> QED BY <3>1, <3>2, AskKept DEF IInv, TakenLive, askVars
  <2> QED BY <2>1, <2>2
<1>3. NoteType'
  BY DEF DaemonStep, IInv, NoteType, Start, Probe, Bind, RemoveEndpoint, Serve, ServerFails, Crash
<1> QED BY <1>1, <1>2, <1>3 DEF IInv

LEMMA EndsType == ASSUME AskType, NEW c \in Clients, Ends(c) PROVE AskType'
  BY NamesAssumption DEF AskType, Wanted, TakenSent, Ends

(* A command that ends gives its connection up.                            *)
LEMMA EndsTaken ==
  ASSUME TakenLive, AskType, NEW c \in Clients, Ends(c), UNCHANGED state
  PROVE  TakenLive'
  BY NamesAssumption DEF TakenLive, AskType, Ends

LEMMA ClientStepInv == ASSUME IInv, NEW c \in Clients, ClientStep(c) PROVE IInv'
<1> USE DEF IInv, daemonVars
<1>1. ASSUME NEW ch \in Edits, Edit(c, ch) PROVE IInv'
  <2>1. NoteType'
    BY <1>1 DEF Edit, Noted, NoteType
  <2> QED BY <1>1, <2>1, DaemonKept, AskKept, TakenKept DEF Edit, askVars
<1>2. ASSUME NEW g \in Gains, Ask(c, g) PROVE IInv'
  <2>1. NoteType'
    BY <1>2 DEF Ask, Noted, NoteType
  <2>2. AskType'
    BY <1>2 DEF Ask, InFlight, AskType, Wanted, TakenSent, DaemonInv, DaemonType
  <2> QED BY <1>2, <2>1, <2>2, DaemonKept, TakenKept DEF Ask
<1>3. ASSUME NEW d \in Daemons, Connect(c, d) PROVE IInv'
  <2>1. AskType'
    BY <1>3 DEF Connect, AskType, Wanted, TakenSent
  <2>3. TakenLive'
    BY <1>3 DEF Connect, AskType, TakenLive
  <2>2. NoteType'
    BY <1>3 DEF Connect, NoteType
  <2> QED BY <1>3, <2>1, <2>2, <2>3, DaemonKept DEF Connect
<1>4. ASSUME NEW d \in Daemons, NEW ok \in BOOLEAN, Handle(c, d, ok) PROVE IInv'
  <2>1. CASE ok
    <3>1. AskType'
      BY <1>4, <2>1, NamesAssumption DEF Handle, AskType, Wanted, TakenSent
    <3>2. NoteType'
      BY <1>4, <2>1 DEF Handle, NoteType
    <3>3. TakenLive'
      BY <1>4, <2>1, NamesAssumption DEF Handle, AskType, TakenLive
    <3> QED BY <1>4, <3>1, <3>2, <3>3, DaemonKept DEF Handle
  <2>2. CASE ~ok
    <3>1. Ends(c) /\ NoteType'
      BY <1>4, <2>2 DEF Handle, NoteType
    <3> QED BY <1>4, <3>1, EndsType, EndsTaken, DaemonKept DEF Handle
  <2> QED BY <2>1, <2>2
<1>5. CASE Refused(c)
  <2>1. NoteType'
    BY <1>5 DEF Refused, NoteType
  <2> QED BY <1>5, <2>1, EndsType, EndsTaken, DaemonKept DEF Refused
<1>6. CASE Save(c)
  <2>1. AskType'
    BY <1>6 DEF Save, AskType, Wanted, TakenSent
  <2>2. NoteType'
    BY <1>6 DEF Save, NoteType
  <2> QED BY <1>6, <2>1, <2>2, DaemonKept, TakenKept DEF Save
<1>7. CASE SaveStep(c)
  <2>1. NoteType'
    BY <1>7 DEF SaveStep, NoteType
  <2> QED BY <1>7, <2>1, AskKept, DaemonKept, TakenKept DEF SaveStep, askVars
<1>8. CASE Done(c)
  <2>1. NoteType'
    BY <1>8 DEF Done, NoteType
  <2> QED BY <1>8, <2>1, EndsType, EndsTaken, DaemonKept DEF Done
<1>9. CASE Dies(c)
  <2>1. NoteType'
    BY <1>9 DEF Dies, NoteType
  <2> QED BY <1>9, <2>1, EndsType, EndsTaken, DaemonKept DEF Dies
<1> QED BY <1>1, <1>2, <1>3, <1>4, <1>5, <1>6, <1>7, <1>8, <1>9 DEF ClientStep

LEMMA NextInv == IInv /\ [Next]_vars => IInv'
<1> SUFFICES ASSUME IInv, [Next]_vars PROVE IInv'
  OBVIOUS
<1>1. ASSUME NEW p \in Ports, OtherProgram(p) PROVE IInv'
  <2>1. AskType' /\ NoteType'
    BY <1>1, AskKept DEF OtherProgram, IInv, NoteType
  <2>2. TakenLive'
    BY <1>1, TakenKept DEF OtherProgram, IInv, askVars
  <2> QED BY <1>1, <2>1, <2>2, OtherInv DEF IInv
<1>2. CASE UNCHANGED vars
  <2>1. DaemonInv' /\ AskType'
    BY <1>2, DaemonKept, AskKept DEF IInv, vars, daemonVars
  <2>3. TakenLive'
    BY <1>2, TakenKept DEF IInv, vars, daemonVars, askVars
  <2>2. NoteType'
    BY <1>2 DEF IInv, NoteType, vars
  <2> QED BY <2>1, <2>2, <2>3 DEF IInv
<1> QED BY <1>1, <1>2, DaemonStepInv, ClientStepInv DEF Next

(* So does Control: the daemons, the endpoint file and the commands.       *)
THEOREM Invariant == Spec => []IInv
  BY InitInv, NextInv, PTL DEF Spec

(* One daemon at most runs in a directory, and control.json leads to it.   *)
THEOREM EndpointCorrect == Spec => []EndpointIsOwners
  BY Invariant, PTL DEF IInv, DaemonInv

(* run_control_server: whoever answers a starting daemon is no daemon of   *)
(* its directory, whatever the error says.                                 *)
THEOREM AnswerIsStrangers == Spec => AnsweredByStranger
<1>1. IInv /\ [Next]_vars =>
        [\A d \in Daemons :
           state[d] = "starting" /\ state'[d] = "deaf" => listener[endpoint] = "other"]_vars
  <2> SUFFICES ASSUME IInv, Next, NEW d \in Daemons, state[d] = "starting", state'[d] = "deaf"
               PROVE  listener[endpoint] = "other"
    OBVIOUS
  <2>1. Probe(d)
    <3>1. PICK e \in Daemons : DaemonStep(e)
      BY DEF Next, ClientStep, Edit, Ask, Connect, Handle, Refused, Save, SaveStep,
         Done, Dies, OtherProgram, daemonVars
    <3>2. Probe(e)
      BY <3>1 DEF DaemonStep, Start, Bind, RemoveEndpoint, Serve, ServerFails, Crash, IInv,
         DaemonInv, DaemonType
    <3> QED BY <3>2 DEF Probe, IInv, DaemonInv, DaemonType
  <2>2. endpoint \in Ports /\ listener[endpoint] # "free"
    BY <2>1 DEF Probe, Answered, IInv, DaemonInv, DaemonType
  <2>3. listener[endpoint] \notin Daemons
    BY <2>2 DEF IInv, DaemonInv, LockHeld, PortsOwned
  <2> QED BY <2>2, <2>3 DEF IInv, DaemonInv, DaemonType
<1> QED BY Invariant, <1>1, PTL DEF Spec, AnsweredByStranger

-----------------------------------------------------------------------------
(* Whatever daemons and volume commands do, the preferences file sees the  *)
(* steps of Preferences only, so all of the above holds of Control.        *)
LEMMA NextOfPreferences == IInv /\ [Next]_vars => [PrefNext]_prefVars
<1> SUFFICES ASSUME IInv, [Next]_vars PROVE [PrefNext]_prefVars
  OBVIOUS
<1>1. ASSUME NEW d \in Daemons, DaemonStep(d) PROVE UNCHANGED prefVars
  BY <1>1 DEF DaemonStep, Start, Probe, Bind, RemoveEndpoint, Serve, ServerFails, Crash
<1>2. ASSUME NEW p \in Ports, OtherProgram(p) PROVE UNCHANGED prefVars
  BY <1>2 DEF OtherProgram
<1>3. ASSUME NEW c \in Clients, ClientStep(c) PROVE PrefStep(c) \/ UNCHANGED prefVars
  <2>1. ASSUME NEW ch \in Edits, Edit(c, ch) PROVE PrefStep(c)
    BY <2>1 DEF Edit, Edits, PrefStep
  <2>2. CASE Save(c)
    <3>1. SetMaster(want[c]) \in Changes
      BY <2>2, GainsAssumption DEF Save, IInv, AskType, Wanted
    <3> QED BY <2>2, <3>1 DEF Save, PrefStep
  <2>3. CASE SaveStep(c) \/ Done(c)
    BY <2>3 DEF SaveStep, Done, PrefStep
  <2>4. CASE Dies(c)
    BY <2>4 DEF Dies, PrefStep
  <2>5. CASE (\E g \in Gains : Ask(c, g)) \/ Refused(c)
    BY <2>5 DEF Ask, Refused
  <2>6. CASE \E d \in Daemons : Connect(c, d)
    BY <2>6 DEF Connect
  <2>7. CASE \E d \in Daemons, ok \in BOOLEAN : Handle(c, d, ok)
    BY <2>7 DEF Handle
  <2> QED BY <1>3, <2>1, <2>2, <2>3, <2>4, <2>5, <2>6, <2>7 DEF ClientStep
<1> QED BY <1>1, <1>2, <1>3 DEF Next, PrefNext, vars

LEMMA SpecOfPreferences == Spec => PrefSpec
<1>1. Init => PrefInit
  BY DEF Init
<1> QED BY <1>1, NextOfPreferences, Invariant, PTL DEF Spec, PrefSpec

(* With daemons and volume commands about, preferences.json still is a     *)
(* register, and still does not go away under a reader on Unix.            *)
THEOREM ControlRefinement == Spec => ImplementsRegister
  BY SpecOfPreferences, Refinement

(* With the daemons beside them the commands still find a file they can    *)
(* read, on Unix.                                                          *)
THEOREM ControlFound == Spec => []FoundStays
  BY SpecOfPreferences, FoundIsReadable

-----------------------------------------------------------------------------
(* What GainKept rests on.  The command noted as alone is the only one     *)
(* that may be in flight, and while the gain is settled no other is.  What *)
(* a command is about to store is told by where it is: a volume command    *)
(* its gain, any other the gain it found.  A command that is alone and was *)
(* answered leaves the daemon at its gain; while the gain is settled the   *)
(* daemon has the saved one, up to that answer.                            *)
AloneIs == alone # None => \A x \in Clients : InFlight(x) => x = alone

SettledAlone == settled => \A x \in Clients : InFlight(x) => x = alone

DraftsTold ==
  \A c \in Clients :
    /\ phase[c] \in {"read", "sent", "acked"} => pc[c] = "idle"
    /\ phase[c] = "saving" =>
         /\ pc[c] = "found" => change[c] = SetMaster(want[c])
         /\ pc[c] \in Writing => draft[c].master = want[c]
    /\ phase[c] = "none" /\ pc[c] = "found" => change[c] \in Edits

AnswerHeard ==
  alone # None /\ phase[alone] \in {"acked", "saving"} =>
    \A d \in Live : gain[d] = want[alone]

Undisturbed == \A c \in Clients : phase[c] \notin {"acked", "saving"} /\ pc[c] # "cleared"

SettledKept ==
  settled => \A d \in Live :
    /\ Undisturbed => gain[d] = Current.master
    /\ \A c \in Clients : phase[c] = "none" /\ pc[c] \in Writing => draft[c].master = gain[d]

GainInv ==
  /\ DOMAIN gain = Daemons
  /\ AloneIs
  /\ SettledAlone
  /\ DraftsTold
  /\ AnswerHeard
  /\ SettledKept

AllInv == IInv /\ PrefInv /\ GainInv

(* No daemon lives, no command is in flight.                               *)
LEMMA GainInitInv == Init => GainInv
  BY DEF Init, PrefInit, GainInv, AloneIs, SettledAlone, DraftsTold, AnswerHeard, SettledKept,
     InFlight, Live, Writing

(* What the saved gain is after a volume command, and after any other.     *)
LEMMA SetMasterIs == \A g \in Gains, s \in Settings : SetMaster(g)[s].master = g
  BY MasterAssumption DEF SetMaster

(* Any other change leaves the gain in the settings alone.                 *)
LEMMA EditKeepsMaster == \A ch \in Edits, s \in Settings : ch[s].master = s.master
  BY MasterAssumption

(* A daemon starts with the saved gain, or while no gain is settled.       *)
LEMMA StartGain == ASSUME AllInv, NEW d \in Daemons, Start(d) PROVE GainInv'
<1> USE DEF AllInv, GainInv, Start, MayStart, prefVars, askVars
<1>1. DOMAIN gain' = Daemons
  OBVIOUS
<1>2. AloneIs' /\ AnswerHeard'
  BY DEF AloneIs, AnswerHeard
<1>3. SettledAlone'
  BY DEF SettledAlone, Quiet, InFlight
<1>4. DraftsTold'
  BY DEF DraftsTold
<1>5. SettledKept'
  <2> SUFFICES ASSUME settled', NEW e \in Live' 
      PROVE /\ Undisturbed' => gain'[e] = Current'.master
            /\ \A c \in Clients : phase'[c] = "none" /\ pc'[c] \in Writing => draft'[c].master = gain'[e]
    BY DEF SettledKept
  <2>1. settled /\ Quiet
    BY DEF Quiet
  <2>2. e = d
    BY NamesAssumption DEF IInv, DaemonInv, DaemonType, LockHeld, Live
  <2>3. gain'[e] = Current.master /\ Current' = Current
    BY <2>2 DEF SavedGain, Current
  <2>4. \A c \in Clients : pc'[c] = "idle"
    BY <2>1 DEF Quiet, InFlight
  <2> QED BY <2>3, <2>4 DEF Writing
<1> QED BY <1>1, <1>2, <1>3, <1>4, <1>5

(* Nothing a daemon does but to start, and no other program, moves a gain. *)
LEMMA QuietGain ==
  ASSUME AllInv, UNCHANGED <<prefVars, phase, want, gain, alone, settled>>, Live' \subseteq Live
  PROVE  GainInv'
<1> USE DEF AllInv, GainInv, prefVars
<1>1. AloneIs' /\ SettledAlone'
  BY DEF AloneIs, SettledAlone, InFlight
<1>2. DraftsTold'
  BY DEF DraftsTold
<1>3. AnswerHeard'
  BY DEF AnswerHeard
<1>4. SettledKept'
  BY DEF SettledKept, Undisturbed, Current
<1> QED BY <1>1, <1>2, <1>3, <1>4

(* Any step of a daemon.                                                   *)
LEMMA DaemonGain == ASSUME AllInv, NEW d \in Daemons, DaemonStep(d) PROVE GainInv'
<1>1. CASE Start(d)
  BY <1>1, StartGain
<1>2. CASE ~Start(d)
  <2>1. Live' \subseteq Live
    BY <1>2 DEF DaemonStep, Live, Probe, Bind, RemoveEndpoint, Serve, ServerFails, Crash, AllInv,
       IInv, DaemonInv, DaemonType
  <2>2. UNCHANGED <<prefVars, phase, want, gain, alone, settled>>
    BY <1>2 DEF DaemonStep, Probe, Bind, RemoveEndpoint, Serve, ServerFails, Crash, askVars
  <2> QED BY <2>1, <2>2, QuietGain
<1> QED BY <1>1, <1>2

-----------------------------------------------------------------------------
(* A command that begins: the gain stays settled only if no other is about,*)
(* and then the file has the daemon's gain.                                *)
LEMMA NotedGain ==
  ASSUME AllInv, NEW c \in Clients, ~InFlight(c), Noted(c),
         \A x \in Clients \ {c} : pc'[x] = pc[x] /\ phase'[x] = phase[x]
  PROVE  /\ AloneIs' /\ SettledAlone'
         /\ alone' \in {c, None}
         /\ settled' => /\ \A x \in Clients : pc[x] = "idle" /\ phase[x] = "none"
                        /\ \A d \in Live : gain[d] = Current.master
<1> USE DEF AllInv, GainInv, Noted
<1>1. \A x \in Clients \ {c} : InFlight(x)' => InFlight(x)
  BY DEF InFlight
<1>2. AloneIs' /\ SettledAlone'
  BY <1>1 DEF AloneIs, SettledAlone, Quiet
<1>3. Quiet => \A x \in Clients : pc[x] = "idle" /\ phase[x] = "none"
  BY DEF Quiet, InFlight
<1>4. settled /\ Quiet => \A d \in Live : gain[d] = Current.master
  BY <1>3 DEF SettledKept, Undisturbed
<1> QED BY <1>2, <1>3, <1>4

(* A command that leaves the gain alone begins.                            *)
LEMMA EditGain == ASSUME AllInv, NEW c \in Clients, NEW ch \in Edits, Edit(c, ch) PROVE GainInv'
<1> USE DEF AllInv, PrefInv, GainInv, Edit, Begin, Goto, daemonVars, askVars
<1>1. /\ AloneIs' /\ SettledAlone'
      /\ alone' \in {c, None}
      /\ settled' => /\ \A x \in Clients : pc[x] = "idle" /\ phase[x] = "none"
                     /\ \A d \in Live : gain[d] = Current.master
  <2>1. \A x \in Clients \ {c} : pc'[x] = pc[x] /\ phase'[x] = phase[x]
    BY DEF PrefTypeOK
  <2> QED BY <2>1, NotedGain
<1>2. phase[c] = "none" /\ DOMAIN gain' = Daemons /\ Live' = Live
  BY DEF InFlight, Live
<1>3. DraftsTold'
  BY <1>2 DEF DraftsTold, PrefTypeOK, Writing
<1>4. AnswerHeard'
  BY <1>1, <1>2 DEF AnswerHeard
<1>5. SettledKept'
  <2> SUFFICES ASSUME settled', NEW d \in Live
      PROVE /\ Undisturbed' => gain[d] = Current'.master
            /\ \A x \in Clients : phase'[x] = "none" /\ pc'[x] \in Writing => draft'[x].master = gain[d]
    BY <1>2 DEF SettledKept
  <2>1. gain[d] = Current.master /\ Current' = Current
    BY <1>1 DEF Current
  <2>2. pc'[c] \in Writing => draft'[c].master = Default.master /\ Current = Default
    BY EditKeepsMaster, SettingsAssumption DEF PrefTypeOK, Current, Writing
  <2>3. \A x \in Clients \ {c} : pc'[x] \notin Writing
    BY <1>1 DEF PrefTypeOK, Writing
  <2> QED BY <2>1, <2>2, <2>3
<1> QED BY <1>1, <1>2, <1>3, <1>4, <1>5

(* A volume command begins.                                                *)
LEMMA AskGain == ASSUME AllInv, NEW c \in Clients, NEW g \in Gains, Ask(c, g) PROVE GainInv'
<1> USE DEF AllInv, PrefInv, GainInv, Ask, daemonVars, prefVars
<1>1. /\ AloneIs' /\ SettledAlone'
      /\ alone' \in {c, None}
      /\ settled' => /\ \A x \in Clients : pc[x] = "idle" /\ phase[x] = "none"
                     /\ \A d \in Live : gain[d] = Current.master
  <2>1. \A x \in Clients \ {c} : pc'[x] = pc[x] /\ phase'[x] = phase[x]
    BY DEF IInv, AskType
  <2> QED BY <2>1, NotedGain
<1>2. pc[c] = "idle" /\ phase'[c] = "read" /\ DOMAIN gain' = Daemons /\ Live' = Live
  BY DEF InFlight, Live, IInv, AskType
<1>3. DraftsTold'
  BY <1>2 DEF DraftsTold, IInv, AskType
<1>4. AnswerHeard'
  BY <1>1, <1>2 DEF AnswerHeard
<1>5. SettledKept'
  BY <1>1, <1>2 DEF SettledKept, Current, Writing
<1> QED BY <1>1, <1>2, <1>3, <1>4, <1>5

-----------------------------------------------------------------------------
(* A step of a command in flight: who is alone stays as it is, and the     *)
(* others are idle while the gain is settled.                              *)
LEMMA FlightGain ==
  ASSUME AllInv, NEW c \in Clients, InFlight(c), alone' = alone,
         settled' => settled \/ alone = c,
         \A x \in Clients \ {c} : pc'[x] = pc[x] /\ phase'[x] = phase[x]
  PROVE  /\ AloneIs' /\ SettledAlone'
         /\ alone # None => alone = c
         /\ settled \/ alone = c =>
              alone = c /\ \A x \in Clients \ {c} : pc[x] = "idle" /\ phase[x] = "none"
<1> USE DEF AllInv, GainInv
<1>1. \A x \in Clients \ {c} : InFlight(x)' => InFlight(x)
  BY DEF InFlight
<1>2. alone # None => alone = c
  BY DEF AloneIs
<1>3. settled => alone = c
  BY DEF SettledAlone
<1>4. alone = c => \A x \in Clients \ {c} : ~InFlight(x)
  BY NamesAssumption DEF AloneIs
<1>5. AloneIs'
  BY <1>1 DEF AloneIs
<1>6. SettledAlone'
  BY <1>1, <1>3, <1>4 DEF SettledAlone
<1>7. alone = c => \A x \in Clients \ {c} : pc[x] = "idle" /\ phase[x] = "none"
  BY <1>4 DEF InFlight
<1> QED BY <1>2, <1>3, <1>5, <1>6, <1>7

(* Up to the answer nothing changes but how far the command is.            *)
LEMMA ConnectGain == ASSUME AllInv, NEW c \in Clients, NEW d \in Daemons, Connect(c, d) PROVE GainInv'
<1> USE DEF AllInv, PrefInv, GainInv, Connect, daemonVars, prefVars
<1>1. phase[c] = "read" /\ phase' = [phase EXCEPT ![c] = "sent"] /\ phase \in [Clients -> {"none", "read", "sent", "acked", "saving"}]
  BY DEF IInv, AskType
<1>2. AloneIs' /\ SettledAlone'
  BY <1>1, FlightGain DEF InFlight
<1>3. DraftsTold'
  BY <1>1 DEF DraftsTold
<1>4. AnswerHeard'
  BY <1>1 DEF AnswerHeard, Live, IInv, NoteType
<1>5. SettledKept'
  BY <1>1 DEF SettledKept, Undisturbed, Current, Live
<1> QED BY <1>2, <1>3, <1>4, <1>5

(* A volume command that is turned away changes no gain.                   *)
LEMMA RefusedGain == ASSUME AllInv, NEW c \in Clients, Refused(c) PROVE GainInv'
<1> USE DEF AllInv, PrefInv, GainInv, Refused, Ends, daemonVars, prefVars
<1>1. /\ phase[c] \in {"read", "sent"} /\ phase' = [phase EXCEPT ![c] = "none"]
      /\ phase \in [Clients -> {"none", "read", "sent", "acked", "saving"}]
      /\ want' = [want EXCEPT ![c] = None]
      /\ want \in [Clients -> Gains \cup {None}]
      /\ pc[c] = "idle"
  BY DEF IInv, AskType, DraftsTold
<1>2. AloneIs' /\ SettledAlone'
  BY <1>1, FlightGain DEF InFlight
<1>3. DraftsTold'
  BY <1>1 DEF DraftsTold
<1>4. AnswerHeard'
  BY <1>1 DEF AnswerHeard, Live, IInv, NoteType
<1>5. SettledKept'
  BY <1>1 DEF SettledKept, Undisturbed, Current, Live, Writing
<1> QED BY <1>2, <1>3, <1>4, <1>5

(* The answer: the one live daemon plays at the gain asked for.            *)
LEMMA HandleGain ==
  ASSUME AllInv, NEW c \in Clients, NEW d \in Daemons, NEW ok \in BOOLEAN, Handle(c, d, ok)
  PROVE  GainInv'
<1> USE DEF AllInv, PrefInv, GainInv, prefVars
<1>1. /\ phase[c] = "sent" /\ pc[c] = "idle"
      /\ phase \in [Clients -> {"none", "read", "sent", "acked", "saving"}]
      /\ want \in [Clients -> Gains \cup {None}]
      /\ UNCHANGED <<build, file, pc, change, draft, lock, state, listener, endpoint, alone>>
      /\ gain' = [gain EXCEPT ![d] = want[c]]
  BY NamesAssumption DEF Handle, IInv, AskType, TakenSent, DraftsTold
<1>2. /\ phase' = [phase EXCEPT ![c] = IF ok THEN "acked" ELSE "none"]
      /\ want' = [want EXCEPT ![c] = IF ok THEN want[c] ELSE None]
      /\ settled' = (settled /\ ok)
  BY <1>1 DEF Handle, Ends, IInv, NoteType
<1>3. \A e \in Live : e = d
  <2>1. d \in Live
    BY NamesAssumption DEF Handle, IInv, TakenLive, Live
  <2> QED BY <2>1 DEF IInv, DaemonInv, LockHeld, Live
<1>4. /\ AloneIs' /\ SettledAlone'
      /\ alone # None => alone = c
      /\ settled => \A x \in Clients \ {c} : pc[x] = "idle" /\ phase[x] = "none"
  BY <1>1, <1>2, FlightGain DEF InFlight
<1>5. DraftsTold'
  BY <1>1, <1>2 DEF DraftsTold
<1>6. AnswerHeard'
  <2> SUFFICES ASSUME alone # None, phase'[alone] \in {"acked", "saving"}, NEW e \in Live
               PROVE  gain'[e] = want'[alone]
    BY <1>1 DEF AnswerHeard, Live
  <2>1. alone = c /\ ok /\ want'[c] = want[c]
    BY <1>1, <1>2, <1>4
  <2> QED BY <1>1, <1>3, <2>1 DEF Live
<1>7. SettledKept'
  <2> SUFFICES ASSUME settled' PROVE ~Undisturbed' /\ \A x \in Clients : phase'[x] = "none" => pc[x] = "idle"
    BY <1>1 DEF SettledKept, Writing
  <2>1. settled /\ phase'[c] = "acked"
    BY <1>1, <1>2
  <2> QED BY <1>1, <1>4, <2>1 DEF Undisturbed
<1> QED BY <1>1, <1>4, <1>5, <1>6, <1>7

-----------------------------------------------------------------------------
(* The command goes on to save.                                            *)
LEMMA SaveGain == ASSUME AllInv, NEW c \in Clients, Save(c) PROVE GainInv'
<1> USE DEF AllInv, PrefInv, GainInv, Save, Begin, Goto, daemonVars
<1>1. /\ phase[c] = "acked" /\ pc[c] = "idle" /\ phase' = [phase EXCEPT ![c] = "saving"]
      /\ phase \in [Clients -> {"none", "read", "sent", "acked", "saving"}]
      /\ want[c] \in Gains
  BY DEF IInv, AskType, Wanted
<1>2. /\ \A x \in Clients \ {c} : pc'[x] = pc[x] /\ draft'[x] = draft[x] /\ change'[x] = change[x]
      /\ pc'[c] \in {"changed", "found"}
      /\ pc'[c] = "found" => change'[c] = SetMaster(want[c])
      /\ pc'[c] = "changed" => draft'[c].master = want[c]
  <2>1. SetMaster(want[c])[Default].master = want[c]
    BY <1>1, SetMasterIs, SettingsAssumption
  <2> QED BY <2>1 DEF PrefTypeOK
<1>3. /\ AloneIs' /\ SettledAlone'
      /\ alone # None => alone = c
      /\ settled => \A x \in Clients \ {c} : pc[x] = "idle" /\ phase[x] = "none"
  BY <1>1, <1>2, FlightGain DEF InFlight
<1>4. DraftsTold'
  BY <1>1, <1>2 DEF DraftsTold, Writing
<1>5. AnswerHeard'
  BY <1>1 DEF AnswerHeard, Live, IInv, NoteType
<1>6. SettledKept'
  <2> SUFFICES ASSUME settled PROVE ~Undisturbed' /\ \A x \in Clients : phase'[x] = "none" => pc'[x] = "idle"
    BY DEF SettledKept, Writing
  <2> QED BY <1>1, <1>2, <1>3 DEF Undisturbed
<1> QED BY <1>3, <1>4, <1>5, <1>6

(* A system call before the rename: the draft is made with the gain it is  *)
(* to have, and the file keeps its gain until the old one goes.            *)
LEMMA SaveStepGain == ASSUME AllInv, NEW c \in Clients, SaveStep(c) PROVE GainInv'
<1> USE DEF AllInv, PrefInv, GainInv, daemonVars, askVars
<1>1. UNCHANGED <<lock, state, gain, listener, endpoint, phase, at, want, alone, settled>>
  BY DEF SaveStep
<1>2. /\ \A x \in Clients \ {c} : pc'[x] = pc[x] /\ draft'[x] = draft[x] /\ change'[x] = change[x]
      /\ pc[c] # "idle" /\ pc'[c] \in Writing
  BY DEF SaveStep, Load, WriteTmp, FindOld, RemoveOld, Goto, PrefTypeOK, Writing
<1>3. \/ /\ pc[c] = "found" /\ pc'[c] = "changed" /\ file \in Settings /\ file' = file
         /\ draft'[c] = change[c][file]
      \/ /\ pc[c] \in Writing /\ draft' = draft
         /\ pc'[c] = "cleared" \/ (pc[c] # "cleared" /\ file' = file)
  BY DEF SaveStep, Load, WriteTmp, FindOld, RemoveOld, Goto, PrefTypeOK, Writing
<1>4. /\ AloneIs' /\ SettledAlone'
      /\ alone # None => alone = c
      /\ settled => \A x \in Clients \ {c} : pc[x] = "idle" /\ phase[x] = "none"
  BY <1>1, <1>2, FlightGain DEF InFlight
<1>5. DraftsTold'
  <2> SUFFICES ASSUME phase[c] = "saving" PROVE draft'[c].master = want[c]
    BY <1>1, <1>2 DEF DraftsTold, Writing
  <2>1. CASE pc[c] = "found"
    <3>1. draft'[c] = SetMaster(want[c])[file] /\ file \in Settings /\ want[c] \in Gains
      BY <1>3, <2>1 DEF DraftsTold, Writing, IInv, AskType, Wanted
    <3> QED BY <3>1, SetMasterIs
  <2>2. CASE pc[c] # "found"
    BY <1>3, <2>2 DEF DraftsTold
  <2> QED BY <2>1, <2>2
<1>6. AnswerHeard'
  BY <1>1 DEF AnswerHeard, Live
<1>7. SettledKept'
  <2> SUFFICES ASSUME settled, NEW d \in Live
      PROVE /\ Undisturbed' => gain[d] = Current'.master
            /\ \A x \in Clients : phase[x] = "none" /\ pc'[x] \in Writing => draft'[x].master = gain[d]
    BY <1>1 DEF SettledKept, Live
  <2>1. Undisturbed' => Undisturbed /\ file' = file
    BY <1>1, <1>2, <1>3, <1>4 DEF Undisturbed, Writing
  <2>2. Undisturbed' => gain[d] = Current'.master
    BY <2>1 DEF SettledKept, Current
  <2>3. \A x \in Clients \ {c} : pc'[x] \notin Writing
    BY <1>2, <1>4 DEF Writing
  <2>4. ASSUME phase[c] = "none" PROVE draft'[c].master = gain[d]
    <3>1. CASE pc[c] = "found"
      <4>1. change[c] \in Edits /\ file \in Settings /\ draft'[c] = change[c][file]
        BY <1>3, <2>4, <3>1 DEF DraftsTold, Writing
      <4>2. Undisturbed
        BY <1>4, <2>4, <3>1 DEF Undisturbed
      <4>3. gain[d] = file.master
        BY <4>1, <4>2, SettingsAssumption DEF SettledKept, Current
      <4> QED BY <4>1, <4>3, EditKeepsMaster
    <3>2. CASE pc[c] # "found"
      BY <1>3, <2>4, <3>2 DEF SettledKept
    <3> QED BY <3>1, <3>2
  <2> QED BY <2>2, <2>3, <2>4
<1> QED BY <1>1, <1>4, <1>5, <1>6, <1>7

(* The rename stores the gain the daemon has, if the gain is settled now.  *)
LEMMA DoneGain == ASSUME AllInv, NEW c \in Clients, Done(c) PROVE GainInv'
<1> USE DEF AllInv, PrefInv, GainInv, daemonVars
<1>1. /\ UNCHANGED <<lock, state, gain, listener, endpoint, alone, change>>
      /\ pc[c] \in Writing /\ pc' = [pc EXCEPT ![c] = "idle"] /\ file' = draft[c]
      /\ draft' = [draft EXCEPT ![c] = None]
      /\ phase' = [phase EXCEPT ![c] = "none"] /\ want' = [want EXCEPT ![c] = None]
      /\ settled' = (settled \/ (alone = c /\ phase[c] = "saving"))
  BY DEF Done, Rename, ReadyToRename, Ends, Goto, Writing
<1>2. /\ pc \in [Clients -> {"idle", "found"} \cup Writing]
      /\ phase \in [Clients -> {"none", "read", "sent", "acked", "saving"}]
      /\ want \in [Clients -> Gains \cup {None}] /\ draft \in [Clients -> Settings \cup {None}]
      /\ draft[c] # None
      /\ settled \in BOOLEAN
  BY <1>1 DEF PrefTypeOK, DraftsOrdered, IInv, AskType, NoteType
<1>3. /\ AloneIs' /\ SettledAlone'
      /\ alone # None => alone = c
      /\ settled \/ alone = c =>
           alone = c /\ \A x \in Clients \ {c} : pc[x] = "idle" /\ phase[x] = "none"
  BY <1>1, <1>2, FlightGain DEF InFlight, Writing
<1>4. DraftsTold'
  BY <1>1, <1>2 DEF DraftsTold, Writing
<1>5. AnswerHeard'
  BY <1>1, <1>2, <1>3 DEF AnswerHeard
<1>6. SettledKept'
  <2> SUFFICES ASSUME settled', NEW d \in Live
      PROVE gain[d] = Current'.master /\ \A x \in Clients : pc'[x] = "idle"
    BY <1>1 DEF SettledKept, Live, Writing
  <2>1. alone = c /\ \A x \in Clients : pc'[x] = "idle"
    BY <1>1, <1>2, <1>3
  <2>2. Current' = draft[c]
    BY <1>1, <1>2 DEF Current
  <2>3. draft[c].master = gain[d]
    <3>1. CASE phase[c] = "saving"
      BY <1>1, <2>1, <3>1, NamesAssumption DEF DraftsTold, AnswerHeard
    <3>2. CASE phase[c] = "none"
      BY <1>1, <3>2 DEF SettledKept
    <3>3. phase[c] \in {"none", "saving"}
      BY <1>1, <1>2 DEF DraftsTold, Writing
    <3> QED BY <3>1, <3>2, <3>3
  <2> QED BY <2>1, <2>2, <2>3
<1> QED BY <1>1, <1>3, <1>4, <1>5, <1>6

(* A command cut off: the gain is no longer settled, unless the command    *)
(* had nothing to do with it and the file is there.                        *)
LEMMA DiesGain == ASSUME AllInv, NEW c \in Clients, Dies(c) PROVE GainInv'
<1> USE DEF AllInv, PrefInv, GainInv, daemonVars, prefVars
<1>1. /\ UNCHANGED <<lock, state, gain, listener, endpoint, alone, file>>
      /\ phase' = [phase EXCEPT ![c] = "none"] /\ want' = [want EXCEPT ![c] = None]
      /\ settled' = (settled /\ phase[c] = "none" /\ pc[c] # "cleared")
      /\ InFlight(c)
  BY DEF Dies, Abandon, Ends, InFlight
<1>2. /\ pc'[c] = "idle"
      /\ \A x \in Clients \ {c} : pc'[x] = pc[x] /\ draft'[x] = draft[x] /\ change'[x] = change[x]
  BY DEF Dies, Abandon, Goto, PrefTypeOK
<1>3. /\ phase \in [Clients -> {"none", "read", "sent", "acked", "saving"}]
      /\ want \in [Clients -> Gains \cup {None}]
      /\ settled \in BOOLEAN
  BY DEF IInv, AskType, NoteType
<1>4. /\ AloneIs' /\ SettledAlone'
      /\ alone # None => alone = c
      /\ settled => \A x \in Clients \ {c} : pc[x] = "idle" /\ phase[x] = "none"
  BY <1>1, <1>2, <1>3, FlightGain
<1>5. DraftsTold'
  BY <1>1, <1>2, <1>3 DEF DraftsTold, Writing
<1>6. AnswerHeard'
  BY <1>1, <1>3, <1>4 DEF AnswerHeard
<1>7. SettledKept'
  <2> SUFFICES ASSUME settled', NEW d \in Live
      PROVE gain[d] = Current.master /\ \A x \in Clients : pc'[x] = "idle"
    BY <1>1 DEF SettledKept, Live, Current, Writing
  <2>1. settled /\ phase[c] = "none" /\ pc[c] # "cleared"
    BY <1>1, <1>3
  <2>2. Undisturbed
    BY <1>4, <2>1 DEF Undisturbed
  <2> QED BY <1>2, <1>4, <2>1, <2>2 DEF SettledKept
<1> QED BY <1>1, <1>4, <1>5, <1>6, <1>7

(* Every step keeps it.                                                    *)
LEMMA GainNextInv == AllInv /\ [Next]_vars => GainInv'
<1> SUFFICES ASSUME AllInv, [Next]_vars PROVE GainInv'
  OBVIOUS
<1>1. ASSUME NEW c \in Clients, ClientStep(c) PROVE GainInv'
  BY <1>1, EditGain, AskGain, ConnectGain, HandleGain, RefusedGain, SaveGain, SaveStepGain,
     DoneGain, DiesGain DEF ClientStep
<1>2. ASSUME NEW p \in Ports, OtherProgram(p) PROVE GainInv'
  BY <1>2, QuietGain DEF OtherProgram, Live, askVars
<1>3. CASE UNCHANGED vars
  BY <1>3, QuietGain DEF vars, daemonVars, askVars, Live
<1> QED BY <1>1, <1>2, <1>3, DaemonGain DEF Next

(* Between commands the daemon plays at the gain it would start with,      *)
(* after a volume command that had the directory to itself.                *)
THEOREM GainIsKept == Spec => []GainKept
<1>1. AllInv => GainKept
  <2> SUFFICES ASSUME AllInv, settled, Quiet, NEW d \in Live PROVE gain[d] = Current.master
    BY DEF GainKept
  <2>1. Undisturbed
    BY DEF Quiet, InFlight, Undisturbed
  <2> QED BY <2>1 DEF AllInv, GainInv, SettledKept
<1>2. Spec => []PrefInv
  BY SpecOfPreferences, PrefInvariant
<1>3. IInv /\ PrefInv /\ GainInv /\ [Next]_vars => GainInv'
  BY GainNextInv DEF AllInv
<1>4. Spec => []GainInv
  BY Invariant, <1>2, <1>3, GainInitInv, PTL DEF Spec
<1>5. IInv /\ PrefInv /\ GainInv => GainKept
  BY <1>1 DEF AllInv
<1> QED BY Invariant, <1>2, <1>4, <1>5, PTL

=============================================================================
