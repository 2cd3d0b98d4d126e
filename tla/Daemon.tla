------------------------------- MODULE Daemon -------------------------------
(***************************************************************************)
(* The processes that serve the snapshotter: the daemon (main.go), which   *)
(* systemd restarts whenever it ends, and the plugin inside containerd     *)
(* (pkg/plugin), with their settings (pkg/config), the socket they listen  *)
(* on, and the lock of the metadata database under their root directory.   *)
(* What a call does once it has the database is in Snapshotter.            *)
(*                                                                         *)
(* External: the socket file, which outlives a process that is ended, as   *)
(* nothing closes its listener, and which a grpc server that fails removes *)
(* although a later process may have bound it; the lock of bolt.Open,      *)
(* taken by the first call and waited for without a timeout; systemd; and  *)
(* containerd as the client, which tries a plugin once.                    *)
(***************************************************************************)
EXTENDS FiniteSets, Naturals

CONSTANTS
  Instances,  \* processes, each started again and again
  Modes,      \* what a process may be: "daemon", "plugin"
  Names,      \* what settings are about: addresses, directories, builders
  Files,      \* what the configuration file may say
  FlagSets,   \* what the command line may say
  Faults      \* what may go wrong

\* "exit"   a process ends: a signal, a crash
\* "serve"  the grpc server of a process ends with an error
\* "io"     a directory, a socket or the snapshotter cannot be made
\* "twice"  a process is started although another one runs
AllFaults == {"exit", "serve", "io", "twice"}
ASSUME FaultsAssumption == Faults \subseteq AllFaults
ASSUME ModesAssumption == Modes \subseteq {"daemon", "plugin"}

NoOne == "none"    \* no file, no holder of a lock
Stale == "stale"   \* the socket file of a process that ended
ASSUME InstancesAssumption == NoOne \notin Instances /\ Stale \notin Instances

\* A setting that is not given: an empty string, or false.
Unset == ""
ASSUME NamesAssumption == "default" \in Names /\ Unset \notin Names
Fields == {"address", "root", "builder", "enable"}

\* The settings of a file or command line, or of a running process.
Config ==
  {cfg \in [Fields -> Names \cup {Unset, "yes"}] :
     /\ cfg["enable"] \in {"yes", Unset}
     /\ \A f \in Fields \ {"enable"} : cfg[f] \in Names \cup {Unset}}
NoConfig == [f \in Fields |-> Unset]

\* The configuration file: missing, unreadable or malformed, or with settings.
Absent == [state |-> "absent", cfg |-> NoConfig]
Malformed == [state |-> "malformed", cfg |-> NoConfig]
Settings(cfg) == [state |-> "read", cfg |-> cfg]

ASSUME FilesAssumption ==
  \A f \in Files : f \in {Absent, Malformed} \/ \E cfg \in Config : f = Settings(cfg)

\* The command line has --address and --root (main.go:66-77).
ASSUME FlagSetsAssumption ==
  \A f \in FlagSets : f \in Config /\ f["builder"] = Unset /\ f["enable"] = Unset

VARIABLES
  file, flags,  \* the configuration file and the command line
  inst,         \* what each process does
  socket,       \* the process whose socket file is at an address
  dbLock,       \* the process that has the database of a root directory open
  dialled,      \* the process that a call of the client went to
  calm          \* nothing goes wrong from now on

vars == <<file, flags, inst, socket, dbLock, dialled, calm>>

\* A "broken" plugin is one that failed to start in a containerd that runs on.
Steps == {"off", "load", "flags", "dir", "clear", "build", "listen", "notify",
          "serve", "broken"}

\* "open": its grpc server serves a listener.
Process == [step : Steps, mode : Modes \cup {"daemon"}, cfg : Config, open : BOOLEAN]
Off == [step |-> "off", mode |-> "daemon", cfg |-> NoConfig, open |-> FALSE]

\* The types of the variables.  Whatever the file and the command line leave
\* out (config.go:34-43, plugin.go:31-34), a process has a root directory.
TypeOK ==
  /\ file \in Files /\ flags \in FlagSets
  /\ inst \in [Instances -> Process]
  /\ \A d \in Instances :
       inst[d].step \in {"off", "load"} \/ inst[d].cfg["root"] \in Names
  /\ socket \in [Names -> Instances \cup {NoOne, Stale}]
  /\ dbLock \in [Names -> Instances \cup {NoOne}]
  /\ dialled \in Instances \cup {NoOne}
  /\ calm \in BOOLEAN

Init ==
  /\ file \in Files
  /\ flags \in FlagSets
  /\ inst = [d \in Instances |-> Off]
  /\ socket \in [Names -> {NoOne, Stale}]
  /\ dbLock = [n \in Names |-> NoOne]
  /\ dialled = NoOne
  /\ calm = FALSE

-----------------------------------------------------------------------------
(* Settings                                                                *)

\* config.New.
New == [f \in Fields |->
          CASE f \in {"address", "root"} -> "default"
            [] f = "builder" -> Unset
            [] f = "enable" -> "yes"]

\* Mutant of Merge: what is set already is kept.
MergeKeep(cfg, override) ==
  [f \in Fields |-> IF cfg[f] # Unset THEN cfg[f] ELSE override[f]]

\* Merge: every setting that the override gives.  `enable = false` is no
\* setting given.
Merge(cfg, override) ==
  [f \in Fields |-> IF override[f] # Unset THEN override[f] ELSE cfg[f]]

\* Mutant of PluginConfig: the root of the plugin is not filled in.
PluginConfigBare == Merge(NoConfig, file.cfg)

\* The containerd plugin decodes into an empty Config; its root is that of
\* the plugin unless there is one (plugin.go:31-34).
PluginConfig ==
  Merge([NoConfig EXCEPT !["root"] = "default"], file.cfg)

-----------------------------------------------------------------------------
(* Start-up                                                                *)

At(d, step) == inst[d].step = step
Mode(d) == inst[d].mode
Address(d) == inst[d].cfg["address"]
Root(d) == inst[d].cfg["root"]
Goto(d, step) == inst' = [inst EXCEPT ![d].step = step]
IO == "io" \in Faults /\ ~calm

\* The process ends without closing its listener: its locks go, the file of
\* its socket stays.
Gone(d) ==
  /\ inst' = [inst EXCEPT ![d] = Off]
  /\ socket' = [n \in Names |-> IF socket[n] = d THEN Stale ELSE socket[n]]
  /\ dbLock' = [n \in Names |-> IF dbLock[n] = d THEN NoOne ELSE dbLock[n]]
  /\ dialled' = IF dialled = d THEN NoOne ELSE dialled
  /\ UNCHANGED <<file, flags, calm>>

Start(d, mode) ==
  /\ At(d, "off")
  /\ (\A e \in Instances : At(e, "off")) \/ ("twice" \in Faults /\ ~calm)
  /\ mode = "plugin" => \A e \in Instances : At(e, "off") \/ Mode(e) # "plugin"
  /\ inst' = [inst EXCEPT ![d] = [Off EXCEPT !.step = "load", !.mode = mode]]
  /\ UNCHANGED <<file, flags, socket, dbLock, dialled, calm>>

\* Defaults, then the file, if there is one (main.go:90-95).  The plugin gets
\* its settings from containerd, and has no socket without image service.
Load(d) ==
  /\ At(d, "load")
  /\ file # Malformed
  /\ IF Mode(d) = "daemon"
     THEN inst' = [inst EXCEPT ![d].step = "flags",
            ![d].cfg = IF file = Absent THEN New ELSE Merge(New, file.cfg)]
     ELSE inst' = [inst EXCEPT
            ![d].step = IF PluginConfig["enable"] = "yes" THEN "dir" ELSE "build",
            ![d].cfg = PluginConfig]
  /\ UNCHANGED <<file, flags, socket, dbLock, dialled, calm>>

LoadFails(d) == At(d, "load") /\ file = Malformed /\ Gone(d)

\* Then the command line (main.go:97-101).
MergeFlags(d) ==
  /\ At(d, "flags")
  /\ inst' = [inst EXCEPT ![d].step = "dir", ![d].cfg = Merge(@, flags)]
  /\ UNCHANGED <<file, flags, socket, dbLock, dialled, calm>>

\* An error of start-up ends the daemon.  The plugin is given up, but not the
\* process: an image service that listens already goes on.
StartUpError(d) ==
  IF Mode(d) = "daemon" THEN Gone(d)
  ELSE /\ Goto(d, "broken")
       /\ UNCHANGED <<file, flags, socket, dbLock, dialled, calm>>

\* Any of the steps below may fail (main.go:113-150, plugin.go:49-88).
Fails(d) ==
  /\ inst[d].step \in {"dir", "clear", "build", "listen"}
  /\ IO
  /\ StartUpError(d)

\* The directory for the socket (main.go:113-117, plugin.go:54-58).
MakeDir(d) ==
  /\ At(d, "dir")
  /\ Goto(d, "clear")
  /\ UNCHANGED <<file, flags, socket, dbLock, dialled, calm>>

\* Mutant of ClearSocket: a socket file that is there is left alone.
ClearSocketNot(d) ==
  /\ At(d, "clear")
  /\ Goto(d, IF Mode(d) = "daemon" THEN "build" ELSE "listen")
  /\ UNCHANGED <<file, flags, socket, dbLock, dialled, calm>>

\* The socket file is removed, whoever's it is (main.go:119-123,
\* plugin.go:60-64).
ClearSocket(d) ==
  /\ At(d, "clear")
  /\ socket' = [n \in Names |-> IF n = Address(d) THEN NoOne ELSE socket[n]]
  /\ Goto(d, IF Mode(d) = "daemon" THEN "build" ELSE "listen")
  /\ UNCHANGED <<file, flags, dbLock, dialled, calm>>

\* NewImageService and NewSnapshotter, which do not open the database yet
\* (main.go:126-145, plugin.go:81-86).
Build(d) ==
  /\ At(d, "build")
  /\ Goto(d, IF Mode(d) = "daemon" THEN "listen" ELSE "serve")
  /\ UNCHANGED <<file, flags, socket, dbLock, dialled, calm>>

\* The server takes the listener (main.go:152-157, plugin.go:76-81).
Open(d) ==
  inst' = [inst EXCEPT ![d].open = TRUE,
             ![d].step = IF Mode(d) = "daemon" THEN "notify" ELSE "build"]

\* The socket is bound unless a file is in the way (main.go:147-150,
\* plugin.go:66-69).
Listen(d) ==
  /\ At(d, "listen")
  /\ Address(d) \in Names
  /\ IF socket[Address(d)] = NoOne
     THEN /\ socket' = [socket EXCEPT ![Address(d)] = d]
          /\ Open(d)
          /\ UNCHANGED <<file, flags, dbLock, dialled, calm>>
     ELSE StartUpError(d)

\* An empty address binds a socket that nobody can name.
ListenNowhere(d) ==
  /\ At(d, "listen")
  /\ Address(d) = Unset
  /\ Open(d)
  /\ UNCHANGED <<file, flags, socket, dbLock, dialled, calm>>

\* systemd is told that the service is ready (main.go:161-170).
Notify(d) ==
  /\ At(d, "notify")
  /\ Goto(d, "serve")
  /\ UNCHANGED <<file, flags, socket, dbLock, dialled, calm>>

\* The socket files without the one at the address of d, whoever's it is.
Unlinked(d) == [n \in Names |-> IF n = Address(d) THEN NoOne ELSE socket[n]]

\* Mutant of Exit: the listener is closed, which unlinks the path it was
\* bound to.
ExitClosing(d) ==
  /\ "exit" \in Faults /\ ~calm
  /\ ~At(d, "off")
  /\ inst' = [inst EXCEPT ![d] = Off]
  /\ socket' = IF inst[d].open THEN Unlinked(d) ELSE socket
  /\ dbLock' = [n \in Names |-> IF dbLock[n] = d THEN NoOne ELSE dbLock[n]]
  /\ dialled' = IF dialled = d THEN NoOne ELSE dialled
  /\ UNCHANGED <<file, flags, calm>>

\* A signal or a crash (main.go:172-184): the process ends without closing the
\* listener or waiting for calls.
Exit(d) ==
  /\ "exit" \in Faults /\ ~calm
  /\ ~At(d, "off")
  /\ Gone(d)

\* rpc.Serve returns an error, and has closed its listener, which unlinks the
\* path that it was bound to.  The daemon ends (main.go:153-156, 178-179), the
\* plugin warns and runs on (plugin.go:76-81).
ServeFails(d) ==
  /\ "serve" \in Faults /\ ~calm
  /\ inst[d].open
  /\ socket' = Unlinked(d)
  /\ IF Mode(d) = "daemon"
     THEN /\ inst' = [inst EXCEPT ![d] = Off]
          /\ dbLock' = [n \in Names |-> IF dbLock[n] = d THEN NoOne ELSE dbLock[n]]
          /\ dialled' = IF dialled = d THEN NoOne ELSE dialled
     ELSE /\ inst' = [inst EXCEPT ![d].open = FALSE]
          /\ UNCHANGED <<dbLock, dialled>>
  /\ UNCHANGED <<file, flags, calm>>

-----------------------------------------------------------------------------
(* Calls                                                                   *)

\* What whoever set up the machine expects of setting f: the command line
\* before the file before the default.
Given(f, mode) ==
  IF mode = "daemon" /\ flags[f] # Unset THEN flags[f]
  ELSE IF file.cfg[f] # Unset THEN file.cfg[f]
  ELSE "default"

\* containerd calls the snapshotter: a daemon at the address it was told, or
\* the plugin in its own process.
Dial(d) ==
  /\ file # Malformed
  /\ dialled = NoOne
  /\ IF Mode(d) = "daemon"
     THEN socket[Given("address", "daemon")] = d
     ELSE At(d, "serve")
  /\ dialled' = d
  /\ UNCHANGED <<file, flags, inst, socket, dbLock, calm>>

\* The first call of a process opens the database, which waits for as long as
\* another process has it open.
Answer(d) ==
  /\ dialled = d
  /\ dbLock[Root(d)] \in {NoOne, d}
  /\ dbLock' = [dbLock EXCEPT ![Root(d)] = d]
  /\ dialled' = NoOne
  /\ UNCHANGED <<file, flags, inst, socket, calm>>

\* The client's deadline for a call that waits passes.
GiveUp(d) ==
  /\ dialled = d
  /\ dialled' = NoOne
  /\ UNCHANGED <<file, flags, inst, socket, dbLock, calm>>

Calm ==
  /\ ~calm
  /\ calm' = TRUE
  /\ UNCHANGED <<file, flags, inst, socket, dbLock, dialled>>

-----------------------------------------------------------------------------
Run(d) ==
  \/ Load(d) \/ LoadFails(d) \/ MergeFlags(d) \/ MakeDir(d) \/ ClearSocket(d)
  \/ Build(d) \/ Listen(d) \/ ListenNowhere(d) \/ Notify(d)

Next ==
  \/ \E d \in Instances :
       \/ \E mode \in Modes : Start(d, mode)
       \/ Run(d) \/ Fails(d) \/ Exit(d) \/ ServeFails(d)
       \/ Dial(d) \/ Answer(d) \/ GiveUp(d)
  \/ Calm

Spec == Init /\ [][Next]_vars

\* A process that can run does, systemd starts the service when it is off
\* ("Restart = always", modules/common/nix-snapshotter.nix:73), the client
\* calls, and a call that is retried is answered at some time.
Fairness ==
  /\ WF_vars(\E d \in Instances, mode \in Modes : Start(d, mode))
  /\ \A d \in Instances : WF_vars(Run(d)) /\ SF_vars(Answer(d))
  /\ WF_vars(\E d \in Instances : Dial(d))
FairSpec == Spec /\ Fairness

-----------------------------------------------------------------------------
(* Properties                                                              *)

\* "Notify systemd that the service is ready" (main.go:159-160): a daemon that
\* said so and runs on loses its socket file only to another process with the
\* same address, which clears it in its start-up or whose server fails.  One
\* that is ended, by systemd or by a crash, does not take it along.
KeepsSocket ==
  [][\A d \in Instances :
       /\ At(d, "serve") /\ Mode(d) = "daemon" /\ socket[Address(d)] = d
       /\ inst'[d] = inst[d]
       /\ socket'[Address(d)] # d
       => \E e \in Instances \ {d} :
            /\ Address(e) = Address(d)
            /\ ClearSocket(e) \/ ServeFails(e)]_vars

\* "Override defaults with configuration file settings", "Override config
\* with flag settings" (main.go:90 and 97): a process that got past its
\* settings uses for each of them the one that was given last, so that the
\* client finds the daemon and two services do not meet in one root by
\* mistake.
SettingsTaken ==
  \A d \in Instances : inst[d].step \notin {"off", "load", "flags"} =>
    /\ Root(d) = Given("root", Mode(d))
    /\ Mode(d) = "daemon" => Address(d) = Given("address", "daemon")
    /\ inst[d].cfg["builder"] = file.cfg["builder"]

\* A single service comes back after whatever ended it, over the socket file
\* and the directories that were left, and answers at the address it was
\* given (main.go:119-123, plugin.go:60-64): once nothing goes wrong, one
\* process runs at a time, it is no containerd that gave its plugin up, and
\* nobody took its socket file away, calls are answered again and again.
Single ==
  /\ Cardinality({d \in Instances : ~At(d, "off")}) <= 1
  /\ \A d \in Instances : ~At(d, "broken")
SocketLeft ==
  \A d \in Instances :
    At(d, "serve") /\ Mode(d) = "daemon" => socket[Address(d)] = d
Answers ==
  (file # Malformed /\ <>[](calm /\ Single /\ SocketLeft)) =>
    []<><<\E d \in Instances : Answer(d)>>_vars
=============================================================================
