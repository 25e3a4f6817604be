------------------------------ MODULE Preferences ------------------------------
(***************************************************************************)
(* preferences.json: the commands of src/src/cli/mod.rs read it, change it *)
(* and write it back through private_write of src/src/config/mod.rs.  Each *)
(* command is a process; their system calls interleave, and a process may  *)
(* fail or be killed between any two.  The temporary file has a name no    *)
(* other process draws and nobody reads it, so only its content, the       *)
(* draft, is kept.                                                         *)
(***************************************************************************)
CONSTANTS
  Clients,   \* the commands, each a process of its own
  Settings,  \* what the file may say
  Default,   \* Preferences::default()
  Changes,   \* what commands do to settings: functions from Settings to Settings
  None       \* no file, no draft, no change

ASSUME SettingsAssumption == Default \in Settings /\ None \notin Settings
ASSUME ChangesAssumption == Changes \subseteq [Settings -> Settings] /\ None \notin Changes

VARIABLES
  build,    \* "unix" or "windows", for cfg(windows)
  file,     \* content of preferences.json
  pc,       \* per client, how far it is
  change,   \* per client, what it does to the settings
  draft     \* per client, content of its temporary file, or what goes into it

prefVars == <<build, file, pc, change, draft>>

Writing == {"changed", "written", "clearing", "cleared"}

PrefTypeOK ==
  /\ build \in {"unix", "windows"}
  /\ file \in Settings \cup {None}
  /\ pc \in [Clients -> {"idle", "found"} \cup Writing]
  /\ change \in [Clients -> Changes \cup {None}]
  /\ draft \in [Clients -> Settings \cup {None}]

PrefInit ==
  /\ build \in {"unix", "windows"}
  /\ file \in Settings \cup {None}
  /\ pc = [c \in Clients |-> "idle"]
  /\ change = [c \in Clients |-> None]
  /\ draft = [c \in Clients |-> None]

(* What preferences() returns to a reader that is not disturbed. *)
Current == IF file = None THEN Default ELSE file

Goto(c, next) == pc' = [pc EXCEPT ![c] = next]

-----------------------------------------------------------------------------
(* preferences: exists, and then read. *)
Begin(c, ch) ==
  /\ pc[c] = "idle"
  /\ IF file = None
     THEN /\ Goto(c, "changed")
          /\ draft' = [draft EXCEPT ![c] = ch[Default]]
          /\ UNCHANGED change
     ELSE /\ Goto(c, "found")
          /\ change' = [change EXCEPT ![c] = ch]
          /\ UNCHANGED draft
  /\ UNCHANGED <<build, file>>

Load(c) ==
  /\ pc[c] = "found"
  /\ file # None
  /\ Goto(c, "changed")
  /\ draft' = [draft EXCEPT ![c] = change[c][file]]
  /\ change' = [change EXCEPT ![c] = None]
  /\ UNCHANGED <<build, file>>

(* private_write: the temporary file is created, written and synced.  A    *)
(* mutant writes the file itself.                                          *)
MutWriteTmp(c) ==
  /\ pc[c] = "changed"
  /\ Goto(c, "written")
  /\ file' = draft[c]
  /\ UNCHANGED <<build, change, draft>>
WriteTmp(c) ==
  /\ pc[c] = "changed"
  /\ Goto(c, "written")
  /\ UNCHANGED <<build, file, change, draft>>

(* On Windows the old file goes first: exists, and then remove_file, which *)
(* fails when another process was faster.  A mutant does so everywhere.    *)
MutFindOld(c) ==
  /\ pc[c] = "written"
  /\ Goto(c, IF file = None THEN "cleared" ELSE "clearing")
  /\ UNCHANGED <<build, file, change, draft>>
FindOld(c) ==
  /\ build = "windows"
  /\ pc[c] = "written"
  /\ Goto(c, IF file = None THEN "cleared" ELSE "clearing")
  /\ UNCHANGED <<build, file, change, draft>>

RemoveOld(c) ==
  /\ pc[c] = "clearing"
  /\ file # None
  /\ file' = None
  /\ Goto(c, "cleared")
  /\ UNCHANGED <<build, change, draft>>

ReadyToRename(c) == pc[c] = IF build = "windows" THEN "cleared" ELSE "written"

(* The rename puts the whole new file in place at once. *)
Rename(c) ==
  /\ ReadyToRename(c)
  /\ file' = draft[c]
  /\ Goto(c, "idle")
  /\ draft' = [draft EXCEPT ![c] = None]
  /\ UNCHANGED <<build, change>>

(* The command ends early: a call fails (read or remove_file of a file     *)
(* that is gone, a full disk), which removes the temporary file, or the    *)
(* process is killed.                                                      *)
Abandon(c) ==
  /\ pc[c] # "idle"
  /\ Goto(c, "idle")
  /\ draft' = [draft EXCEPT ![c] = None]
  /\ change' = [change EXCEPT ![c] = None]
  /\ UNCHANGED <<build, file>>

PrefStep(c) ==
  \/ \E ch \in Changes : Begin(c, ch)
  \/ Load(c)
  \/ WriteTmp(c)
  \/ FindOld(c)
  \/ RemoveOld(c)
  \/ Rename(c)
  \/ Abandon(c)

PrefNext == \E c \in Clients : PrefStep(c)

PrefSpec == PrefInit /\ [][PrefNext]_prefVars

-----------------------------------------------------------------------------
(* On Unix a command that found the file can read it, and so can a daemon  *)
(* that starts: exists and read are two calls, but no change and no crash  *)
(* takes the file away between them.                                       *)
FoundStays == build = "unix" => \A c \in Clients : pc[c] = "found" => file # None

Register == INSTANCE SettingsRegister WITH
              value <- Current,
              lossy <- (build = "windows")

(* Whatever the interleaving of system calls and wherever a command dies,  *)
(* preferences.json is a register written atomically: a reader gets the    *)
(* whole of what one command stored.  On Windows, and only there, it may   *)
(* fall back to the defaults (the file is removed before the rename).      *)
ImplementsRegister == Register!Spec

=============================================================================
