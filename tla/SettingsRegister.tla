--------------------------- MODULE SettingsRegister ---------------------------
(***************************************************************************)
(* What preferences.json promises the commands that change it: a register. *)
(* A command takes the value, applies its change to what it took and       *)
(* stores the result, each in one step; commands may overlap, so a store   *)
(* may be based on an old value.  A lossy register may also fall back to   *)
(* the default value at any time.                                          *)
(***************************************************************************)
CONSTANTS
  Clients,   \* the commands, each a process of its own
  Settings,  \* what the file may say
  Default,   \* the settings of a directory without the file
  Changes,   \* what commands do to settings: functions from Settings to Settings
  None       \* not a setting

VARIABLES
  value,   \* what a command that reads now would get
  draft,   \* per client, what it is about to store
  lossy    \* constant through a behaviour

vars == <<value, draft, lossy>>

Init ==
  /\ value \in Settings
  /\ draft = [c \in Clients |-> None]
  /\ lossy \in BOOLEAN

Take(c) ==
  /\ draft[c] = None
  /\ \E change \in Changes : draft' = [draft EXCEPT ![c] = change[value]]
  /\ UNCHANGED <<value, lossy>>

Store(c) ==
  /\ draft[c] # None
  /\ value' = draft[c]
  /\ draft' = [draft EXCEPT ![c] = None]
  /\ UNCHANGED lossy

GiveUp(c) ==
  /\ draft[c] # None
  /\ draft' = [draft EXCEPT ![c] = None]
  /\ UNCHANGED <<value, lossy>>

Forget ==
  /\ lossy
  /\ value' = Default
  /\ UNCHANGED <<draft, lossy>>

Next == Forget \/ \E c \in Clients : Take(c) \/ Store(c) \/ GiveUp(c)

Spec == Init /\ [][Next]_vars

=============================================================================
