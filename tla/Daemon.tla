-------------------------------- MODULE Daemon --------------------------------
(***************************************************************************)
(* The background service (internal/service: Install, Start, Stop,         *)
(* Restart, Uninstall, Status) over launchd or a systemd user manager.     *)
(* Each command is a script of file operations and external commands, run  *)
(* one at a time by one process; any of them may fail, some failures are   *)
(* ignored, and the process may be interrupted between two of them.  The   *)
(* service manager goes on meanwhile: it restarts what crashes and starts  *)
(* what is installed at the next login.                                    *)
(*                                                                         *)
(* launchctl and systemctl are external, modelled by the effect each use   *)
(* of them has.  A binary or an environment snapshot is the number of the  *)
(* installation it came from, 0 when there is none; a server is the pair   *)
(* it was started with.                                                    *)
(***************************************************************************)
EXTENDS Naturals, Sequences

CONSTANTS
  MaxInstalls   \* bound on the installations

Labels == {"server", "tray"}

VARIABLES
  goos,      \* Manager.goos
  binary,    \* the file at BinaryPath
  env,       \* daemon-env.json
  job,       \* label -> its unit file and what the service manager knows of it
  command,   \* the command under way: what is left of its script
  answer,    \* how the last command ended, until something else happens
  removed,   \* history: uninstalled successfully, and not installed since
  installs   \* bound

serviceVars == <<goos, binary, env, job, command, answer, removed, installs>>

Off == <<0, 0>>

Job == [file : BOOLEAN, loaded : BOOLEAN, enabled : BOOLEAN, runs : Nat \X Nat]

NoJob == [file |-> FALSE, loaded |-> FALSE, enabled |-> TRUE, runs |-> Off]

NoCommand == [name |-> "none", script |-> <<>>, was |-> Off]

NoAnswer == [name |-> "none", was |-> Off]

ServiceInit ==
  /\ goos \in {"darwin", "linux"}
  /\ binary = 0 /\ env = 0
  /\ job = [l \in Labels |-> [NoJob EXCEPT !.enabled = goos = "darwin"]]
  /\ command = NoCommand /\ answer = NoAnswer
  /\ removed = FALSE /\ installs = 0

-----------------------------------------------------------------------------
(* The scripts.  A step is a verb, the label it is about, and whether the    *)
(* command ends with an error when the step fails ("must"), goes on ("try"), *)
(* or goes on if launchd has the job nevertheless ("loaded").                *)

Must(verb, l) == <<verb, l, "must">>
Try(verb, l) == <<verb, l, "try">>

InstallFiles == <<Must("binary", "server"), Must("env", "server"), Must("file", "server")>>

\* Mutant of LaunchdJob: the job is taken for restarted by the bootstrap.
LaunchdJobBooted(l) == <<Try("bootout", l), Try("enable", l), <<"bootstrap", l, "loaded">>>>

\* The second halves of installLaunchd and installTrayLaunchd.
LaunchdJob(l) ==
  <<Try("bootout", l), Try("enable", l), Must("bootstrap", l), Must("kick-k", l)>>

InstallScript ==
  InstallFiles \o
  IF goos = "darwin" THEN LaunchdJob("server") \o <<Must("file", "tray")>> \o LaunchdJob("tray")
  ELSE <<Must("daemon-reload", "server"), Must("enable-now", "server")>>

StartScript ==
  IF goos = "darwin"
  THEN <<Must("stat", "server"), Try("enable", "server"), <<"bootstrap", "server", "loaded">>,
         Must("kick-k", "server"), Try("kick", "tray")>>
  ELSE <<Must("start", "server")>>

\* Status asks launchd, and takes a job it cannot print for a stopped one.
StopScript ==
  IF goos = "darwin"
  THEN IF job["server"].loaded THEN <<Must("bootout", "server")>> ELSE <<>>
  ELSE <<Must("stop", "server")>>

RestartScript ==
  IF goos = "darwin"
  THEN IF job["server"].loaded THEN <<Must("kick-k", "server")>> ELSE StartScript
  ELSE <<Must("restart", "server")>>

\* Mutant of UninstallScript: a unit file that cannot be removed is ignored too.
UninstallTrying ==
  IF goos = "darwin"
  THEN <<Try("bootout", "tray"), Try("disable", "tray"), Try("bootout", "server"),
         Try("disable", "server"), Try("remove", "server"), Try("remove", "tray"),
         Try("remove-env", "server")>>
  ELSE <<Try("disable-now", "server"), Try("remove", "server"), Try("remove-env", "server"),
         Must("daemon-reload", "server")>>

UninstallScript ==
  IF goos = "darwin"
  THEN <<Try("bootout", "tray"), Try("disable", "tray"),
         Try("bootout", "server"), Try("disable", "server"),
         Must("remove", "server"), Must("remove", "tray"), Try("remove-env", "server")>>
  ELSE <<Try("disable-now", "server"), Must("remove", "server"),
         Try("remove-env", "server"), Must("daemon-reload", "server")>>

Scripts == [install |-> InstallScript, start |-> StartScript, stop |-> StopScript,
            restart |-> RestartScript, uninstall |-> UninstallScript]

-----------------------------------------------------------------------------
(* What the steps do *)

Installed == <<binary, env>>

Begun(runs) == IF runs = Off THEN Installed ELSE runs

\* What a step makes of the job it is about, when it can be done at all.
Can(verb, j) ==
  CASE verb \in {"stat", "enable-now"} -> j.file
    [] verb = "bootstrap" -> j.file /\ j.enabled /\ ~j.loaded
    [] verb \in {"bootout", "kick", "kick-k", "stop"} -> j.loaded
    [] verb \in {"start", "restart"} -> j.loaded /\ j.file
    [] OTHER -> TRUE

Effect(verb, j) ==
  CASE verb = "file" -> [j EXCEPT !.file = TRUE]
    [] verb = "remove" -> [j EXCEPT !.file = FALSE]
    [] verb = "bootout" -> [j EXCEPT !.loaded = FALSE, !.runs = Off]
    [] verb = "enable" -> [j EXCEPT !.enabled = TRUE]
    [] verb = "disable" -> [j EXCEPT !.enabled = FALSE]
    [] verb = "bootstrap" -> [j EXCEPT !.loaded = TRUE, !.runs = Installed]
    [] verb \in {"kick-k", "restart"} -> [j EXCEPT !.runs = Installed]
    [] verb \in {"kick", "start"} -> [j EXCEPT !.runs = Begun(@)]
    [] verb = "stop" -> [j EXCEPT !.runs = Off]
    [] verb = "daemon-reload" -> [j EXCEPT !.loaded = j.file \/ j.runs # Off]
    [] verb = "enable-now" -> [j EXCEPT !.enabled = TRUE, !.runs = Begun(@)]
    [] verb = "disable-now" -> [j EXCEPT !.enabled = FALSE, !.runs = Off]
    [] OTHER -> j

Step == Head(command.script)

\* installBinary renames a finished copy into place; the snapshot and the unit files
\* are written in place, so that a failed write may have left half of them, which
\* is as good as nothing.
Done ==
  /\ Can(Step[1], job[Step[2]])
  /\ job' = [job EXCEPT ![Step[2]] = Effect(Step[1], @)]
  /\ binary' = IF Step[1] = "binary" THEN installs ELSE binary
  /\ env' = CASE Step[1] = "env" -> installs
              [] Step[1] = "remove-env" -> 0
              [] OTHER -> env

Failed ==
  /\ env' \in {env} \cup (IF Step[1] = "env" THEN {0} ELSE {})
  /\ job' \in {job} \cup (IF Step[1] = "file" THEN {[job EXCEPT ![Step[2]].file = FALSE]} ELSE {})
  /\ UNCHANGED binary

GoesOn == \/ Step[3] = "try"
          \/ Step[3] = "loaded" /\ job[Step[2]].loaded

-----------------------------------------------------------------------------
(* Commands and the service manager *)

Begin(name) ==
  /\ command = NoCommand
  /\ name = "install" => installs < MaxInstalls
  /\ installs' = IF name = "install" THEN installs + 1 ELSE installs
  /\ command' = [name |-> name, script |-> Scripts[name], was |-> job["server"].runs]
  /\ removed' = (removed /\ name # "install")
  /\ answer' = NoAnswer
  /\ UNCHANGED <<goos, binary, env, job>>

Proceed ==
  /\ command.script # <<>>
  /\ \/ Done /\ command' = [command EXCEPT !.script = Tail(@)]
     \/ Failed /\ GoesOn /\ command' = [command EXCEPT !.script = Tail(@)]
     \/ Failed /\ ~GoesOn /\ command' = NoCommand
  /\ UNCHANGED <<goos, answer, removed, installs>>

\* The command returns nil.
Succeed ==
  /\ command # NoCommand /\ command.script = <<>>
  /\ answer' = [name |-> command.name, was |-> command.was]
  /\ removed' = (removed \/ command.name = "uninstall")
  /\ command' = NoCommand
  /\ UNCHANGED <<goos, binary, env, job, installs>>

Interrupt ==
  /\ command # NoCommand
  /\ command' = NoCommand
  /\ UNCHANGED <<goos, binary, env, job, answer, removed, installs>>

\* KeepAlive and Restart=on-failure: a server that crashes is started again, by
\* systemd only while it has the unit's file.
Crash(l) ==
  /\ job[l].runs # Off
  /\ job' = [job EXCEPT ![l].runs = IF goos = "darwin" \/ job[l].file THEN Installed ELSE Off]
  /\ answer' = NoAnswer
  /\ UNCHANGED <<goos, binary, env, command, removed, installs>>

\* "Quit Menu Bar" is a successful exit, which launchd lets be.
Quit ==
  /\ goos = "darwin" /\ job["tray"].runs # Off
  /\ job' = [job EXCEPT !["tray"].runs = Off]
  /\ answer' = NoAnswer
  /\ UNCHANGED <<goos, binary, env, command, removed, installs>>

\* The next login, with what is enabled and still has its file.
LoggedIn(j) ==
  LET loaded == j.file /\ (goos = "darwin" => j.enabled)
  IN [j EXCEPT !.loaded = loaded, !.runs = IF loaded /\ j.enabled THEN Installed ELSE Off]

Login ==
  /\ command = NoCommand
  /\ job' = [l \in Labels |-> LoggedIn(job[l])]
  /\ answer' = NoAnswer
  /\ UNCHANGED <<goos, binary, env, command, removed, installs>>

ServiceNext ==
  \/ \E name \in DOMAIN Scripts : Begin(name)
  \/ Proceed \/ Succeed \/ Interrupt
  \/ \E l \in Labels : Crash(l)
  \/ Quit
  \/ Login

ServiceSpec == ServiceInit /\ [][ServiceNext]_serviceVars

-----------------------------------------------------------------------------
(* Properties *)

\* After install, start or restart has said it succeeded, a server runs, with the
\* binary and the environment installed last: the one found running is not kept,
\* whatever failed or was interrupted before.  systemctl start keeps it, so under
\* systemd only a restart promises as much, or a server that was not running.
CommandTakesEffect ==
  answer.name \in {"install", "start", "restart"} =>
    /\ job["server"].runs # Off
    /\ goos = "darwin" \/ answer.name = "restart" \/ answer.was = Off
         => job["server"].runs = Installed

\* Uninstalled for good: what the uninstall could not stop is not started again at
\* a login, and nothing it left behind brings the service back.
UninstalledStaysAway ==
  removed /\ command = NoCommand =>
    \A l \in Labels : LoggedIn(job[l]).runs = Off

\* Rerunning the installation after a change of the environment "updates the
\* snapshot and restarts" (README.md:147).
InstallRestarts == answer.name = "install" => job["server"].runs = Installed
=============================================================================
