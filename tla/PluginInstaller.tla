-------------------------- MODULE PluginInstaller --------------------------
(***************************************************************************)
(* Installing and uninstalling the package of one plugin: the directory    *)
(* Modules/<name>, the backups kept of it by the second, and the row of    *)
(* installed_modules (PluginInstaller, PluginStoreController).             *)
(*                                                                         *)
(* Requests run beside each other, steps fail by an exception, and the     *)
(* process may die.  A directory is known by the version of the package    *)
(* that it came from.  moveDirectory and deleteDirectory return false when *)
(* the system refuses them, for a target that is there, for permissions or *)
(* across devices, and nothing looks at what they return: the request goes *)
(* on as if they had worked.  A package that its checks refuse touches     *)
(* only its own staging directory, and is left out.                        *)
(***************************************************************************)
EXTENDS Naturals, FiniteSets

CONSTANTS
    Installs,   \* bound on the requests that run at the same time
    Versions,   \* versions of the package
    Shipped,    \* the directory that may be there before any package
    MaxSecond,  \* bound on the seconds that pass
    MaxStarts   \* bound on the requests

ASSUME InstallerBounds == MaxSecond \in Nat \ {0} /\ MaxStarts \in Nat

Seconds == 1 .. MaxSecond
NoBackup == 0
Absent == "absent"   \* no directory
Copies == Versions \cup {Shipped}
ASSUME AbsentIsNoCopy == Absent \notin Copies

VARIABLES
    now,       \* the second
    module,    \* what is in Modules/<name>
    backups,   \* backups[s]: what is in the backup directory of second s
    row,       \* status and version of the row of installed_modules
    starts,    \* requests so far
    at,        \* at[i]: where a request is
    package,   \* package[i]: version it installs
    backup,    \* backup[i]: second that its backup directory is named by
    before,    \* before[i]: what was in Modules/<name> when it began
    alone,     \* requests that ran alone so far, with a backup name of their own
    refused,   \* refused[i]: blocks, "try" or "catch", in which i had a rename or
               \* a deletion refused without seeing it
    trusted    \* the row was last written by a request that was alone and had its
               \* renames; since then none overlapped, died or failed to restore

fileVars == <<module, backups>>
installVars == <<at, package, backup, before>>
history == <<starts, alone, refused, trusted>>
installerVars == <<now, fileVars, row, installVars, history>>

InstallerInit ==
    /\ now = 1
    /\ module \in {Absent, Shipped}
    /\ backups = [s \in Seconds |-> Absent]
    /\ row = [status |-> "none", version |-> Shipped]
    /\ starts = 0
    /\ at = [i \in Installs |-> "idle"]
    /\ package = [i \in Installs |-> Shipped]
    /\ backup = [i \in Installs |-> NoBackup]
    /\ before = [i \in Installs |-> Absent]
    /\ alone = {}
    /\ refused = [i \in Installs |-> {}]
    /\ trusted = TRUE

Go(i, place) == at' = [at EXCEPT ![i] = place]
Running == {i \in Installs : at[i] # "idle"}

\* A request begins: it is alone unless others run, which no longer are.
Begin(i, place) ==
    /\ at[i] = "idle" /\ starts < MaxStarts
    /\ starts' = starts + 1
    /\ Go(i, place)
    /\ backup' = [backup EXCEPT ![i] = NoBackup]
    /\ before' = [before EXCEPT ![i] = module]
    /\ alone' = IF Running = {} THEN {i} ELSE {}
    /\ refused' = [refused EXCEPT ![i] = {}]
    /\ trusted' = (trusted /\ Running = {})

\* The system refuses a rename or a deletion, and the code does not look.
Refused(i, block) ==
    /\ refused' = [refused EXCEPT ![i] = @ \cup {block}]
    /\ trusted' = (trusted /\ block # "catch")
    /\ UNCHANGED fileVars

-----------------------------------------------------------------------------
(* install                                                                 *)

\* The package is checked, extracted and checked again.
Install(i, v) ==
    /\ Begin(i, "staged")
    /\ package' = [package EXCEPT ![i] = v]
    /\ UNCHANGED <<now, fileVars, row>>

\* isDirectory(destination).
LookEmpty(i) ==
    /\ at[i] = "staged"
    /\ module = Absent
    /\ Go(i, "placing")
    /\ UNCHANGED <<now, fileVars, row, package, backup, before, history>>

\* Mutant: the backup is not named.
LookUnnamed(i) ==
    /\ at[i] = "staged"
    /\ module # Absent
    /\ Go(i, "backing")
    /\ UNCHANGED <<now, fileVars, row, package, backup, before, history>>

\* The backup is named by the second; the name may be taken.
LookThere(i) ==
    /\ at[i] = "staged"
    /\ module # Absent
    /\ backup' = [backup EXCEPT ![i] = now]
    /\ Go(i, "backing")
    /\ IF backups[now] = Absent
       THEN UNCHANGED <<alone, trusted>>
       ELSE alone' = alone \ {i} /\ trusted' = FALSE
    /\ UNCHANGED <<now, fileVars, row, package, before, starts, refused>>

\* A backup directory of this second that is there already stays as it is, and
\* so does the module.
MoveAway(i) ==
    /\ at[i] = "backing"
    /\ \/ /\ backups[backup[i]] = Absent
          /\ backups' = [backups EXCEPT ![backup[i]] = module]
          /\ module' = Absent
          /\ UNCHANGED <<refused, trusted>>
       \/ Refused(i, "try")
    /\ Go(i, "placing")
    /\ UNCHANGED <<now, row, package, backup, before, starts, alone>>

Place(i) ==
    /\ at[i] = "placing"
    /\ \/ /\ module = Absent
          /\ module' = package[i]
          /\ UNCHANGED <<backups, refused, trusted>>
       \/ Refused(i, "try")
    /\ Go(i, "enabling")
    /\ UNCHANGED <<now, row, package, backup, before, starts, alone>>

\* optimize:clear and enable.
Enable(i) ==
    /\ at[i] = "enabling"
    /\ Go(i, "recording")
    /\ UNCHANGED <<now, fileVars, row, package, backup, before, history>>

Record(i) ==
    /\ at[i] = "recording"
    /\ row' = [status |-> "installed", version |-> package[i]]
    /\ trusted' = (i \in alone /\ "try" \notin refused[i])
    /\ Go(i, "idle")
    /\ UNCHANGED <<now, fileVars, package, backup, before, starts, alone, refused>>

\* An exception, at whatever step of the try block, before its effect.
Fail(i) ==
    /\ at[i] \in {"staged", "backing", "placing", "enabling", "recording"}
    /\ Go(i, "failing")
    /\ UNCHANGED <<now, fileVars, row, package, backup, before, history>>

HasBackup(i) == backup[i] # NoBackup /\ backups[backup[i]] # Absent

\* Mutant: the catch block names the backup again, by the second it is by then.
LookBackNow(i) ==
    /\ at[i] = "failing"
    /\ Go(i, IF backup[i] # NoBackup /\ backups[now] # Absent THEN "undoing" ELSE "idle")
    /\ UNCHANGED <<now, fileVars, row, package, backup, before, history>>

\* The catch block: with a backup there, the module is deleted for it.
LookBack(i) ==
    /\ at[i] = "failing"
    /\ Go(i, IF HasBackup(i) THEN "undoing" ELSE "idle")
    /\ UNCHANGED <<now, fileVars, row, package, backup, before, history>>

DeleteNew(i) ==
    /\ at[i] = "undoing"
    /\ \/ module' = Absent /\ UNCHANGED <<backups, refused, trusted>>
       \/ Refused(i, "catch")
    /\ Go(i, "restoring")
    /\ UNCHANGED <<now, row, package, backup, before, starts, alone>>

MoveBack(i) ==
    /\ at[i] = "restoring"
    /\ \/ /\ module = Absent
          /\ module' = backups[backup[i]]
          /\ backups' = [backups EXCEPT ![backup[i]] = Absent]
          /\ UNCHANGED <<refused, trusted>>
       \/ Refused(i, "catch")
    /\ Go(i, "idle")
    /\ UNCHANGED <<now, row, package, backup, before, starts, alone>>

-----------------------------------------------------------------------------
(* uninstall                                                               *)

\* Whatever the status of the row.
Uninstall(i) ==
    /\ row.status # "none"
    /\ Begin(i, "removing")
    /\ UNCHANGED <<now, fileVars, row, package>>

\* The deletion may be refused here too.
Remove(i) ==
    /\ at[i] = "removing"
    /\ module' \in {Absent, module}
    /\ Go(i, "removed")
    /\ UNCHANGED <<now, backups, row, package, backup, before, history>>

\* Mutant: markUninstalled is left out.
MarkNothing(i) ==
    /\ at[i] = "removed"
    /\ Go(i, "idle")
    /\ UNCHANGED <<now, fileVars, row, package, backup, before, history>>

MarkUninstalled(i) ==
    /\ at[i] = "removed"
    /\ row' = [row EXCEPT !.status = "uninstalled"]
    /\ Go(i, "idle")
    /\ UNCHANGED <<now, fileVars, package, backup, before, history>>

-----------------------------------------------------------------------------
\* The process of a request dies.
Die(i) ==
    /\ at[i] # "idle"
    /\ trusted' = FALSE
    /\ Go(i, "idle")
    /\ UNCHANGED <<now, fileVars, row, package, backup, before, starts, alone, refused>>

Tick ==
    /\ now < MaxSecond
    /\ now' = now + 1
    /\ UNCHANGED <<fileVars, row, installVars, history>>

InstallerNext ==
    \/ \E i \in Installs :
         \/ \E v \in Versions : Install(i, v)
         \/ LookEmpty(i) \/ LookThere(i) \/ MoveAway(i) \/ Place(i) \/ Enable(i) \/ Record(i)
         \/ Fail(i) \/ LookBack(i) \/ DeleteNew(i) \/ MoveBack(i)
         \/ Uninstall(i) \/ Remove(i) \/ MarkUninstalled(i) \/ Die(i)
    \/ Tick

InstallerSpec == InstallerInit /\ [][InstallerNext]_installerVars

-----------------------------------------------------------------------------
\* Every variable has its type, and a request on its way to a backup has a name
\* for one.
InstallerTypeOK ==
    /\ now \in Seconds
    /\ module \in Copies \cup {Absent}
    /\ backups \in [Seconds -> Copies \cup {Absent}]
    /\ row \in [status : {"none", "installed", "uninstalled"}, version : Copies]
    /\ starts \in 0 .. MaxStarts
    /\ at \in [Installs -> {"idle", "staged", "backing", "placing", "enabling", "recording",
                            "failing", "undoing", "restoring", "removing", "removed"}]
    /\ package \in [Installs -> Copies]
    /\ backup \in [Installs -> Seconds \cup {NoBackup}]
    /\ before \in [Installs -> Copies \cup {Absent}]
    /\ alone \subseteq Installs
    /\ refused \in [Installs -> SUBSET {"try", "catch"}]
    /\ trusted \in BOOLEAN
    /\ \A i \in Installs : at[i] \in {"backing", "undoing", "restoring"} => backup[i] # NoBackup

\* When nothing runs, a row 'installed' has its version in Modules/<name>, unless
\* requests have overlapped, one has died, two replaced the module in one second,
\* the system refused the install that wrote the row one of its renames, or
\* refused a later one to undo what it had done: failures, restores and
\* uninstalls keep the two together.
RowMatchesModule ==
    trusted /\ Running = {} /\ row.status = "installed" => module = row.version

\* An install that fails leaves what it found in Modules/<name>, when it ran
\* alone, its backup directory was its own and the system did what the catch
\* block asked for, whatever it refused before; where it found none, it leaves
\* none or its own package.
FailureIsUndone ==
    [][\A i \in alone :
         (LookBack(i) \/ MoveBack(i)) /\ at'[i] = "idle" /\ "catch" \notin refused'[i]
            => module' \in {before[i]} \cup (IF before[i] = Absent THEN {package[i]} ELSE {})]_installerVars
=============================================================================
