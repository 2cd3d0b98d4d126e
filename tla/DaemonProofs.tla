---------------------------- MODULE DaemonProofs ----------------------------
(* Theorems about Daemon, for any number of processes, and for any         *)
(* configuration file and command line.                                    *)
EXTENDS Daemon, TLAPS

-----------------------------------------------------------------------------
(* The invariants                                                          *)

\* A daemon that is about to read its command line has the defaults and its
\* file.
FileTaken ==
  \A d \in Instances : At(d, "flags") =>
    /\ Mode(d) = "daemon"
    /\ inst[d].cfg = Merge(New, file.cfg)

\* The inductive invariant.
IInv == TypeOK /\ FileTaken /\ SettingsTaken

\* A step of process d leaves the others as they are.
Moves(d) ==
  /\ inst' \in [Instances -> Process]
  /\ \A e \in Instances \ {d} : inst'[e] = inst[e]

\* The steps of a process that has its settings.
Settled == Steps \ {"off", "load", "flags"}

-----------------------------------------------------------------------------
(* Settings                                                                *)

\* The defaults are settings, and so is it if nothing is given.
LEMMA DefaultsType == New \in Config /\ NoConfig \in Config
<1>1. New \in [Fields -> Names \cup {Unset, "yes"}]
  BY NamesAssumption DEF New, Fields
<1>2. NoConfig \in [Fields -> Names \cup {Unset, "yes"}]
  BY DEF NoConfig
<1>3. /\ New["enable"] = "yes" /\ New["builder"] = Unset
      /\ New["address"] = "default" /\ New["root"] = "default"
  BY DEF New, Fields
<1>4. \A f \in Fields : NoConfig[f] = Unset
  BY DEF NoConfig
<1>5. QED
  BY <1>1, <1>2, <1>3, <1>4, NamesAssumption DEF Config, Fields

\* Merging settings gives settings.
LEMMA MergeType ==
  ASSUME NEW cfg \in Config, NEW override \in Config
  PROVE  /\ Merge(cfg, override) \in Config
         /\ \A f \in Fields : Merge(cfg, override)[f] =
              IF override[f] # Unset THEN override[f] ELSE cfg[f]
<1>1. \A f \in Fields : Merge(cfg, override)[f] =
        IF override[f] # Unset THEN override[f] ELSE cfg[f]
  BY DEF Merge
<1>2. Merge(cfg, override) \in [Fields -> Names \cup {Unset, "yes"}]
  BY DEF Merge, Config
<1>3. QED
  BY <1>1, <1>2 DEF Config, Fields

\* A configuration file holds settings.
LEMMA FileType ==
  ASSUME TypeOK
  PROVE  /\ file.cfg \in Config
         /\ file = Absent => file.cfg = NoConfig
BY FilesAssumption, DefaultsType DEF TypeOK, Absent, Malformed, Settings

\* What is given for an address or a directory is a name.
LEMMA GivenType ==
  ASSUME TypeOK, NEW f \in {"address", "root"}, NEW mode
  PROVE  Given(f, mode) \in Names
<1>1. file.cfg[f] \in Names \cup {Unset} /\ flags[f] \in Names \cup {Unset}
  BY FileType, FlagSetsAssumption DEF TypeOK, Config, Fields
<1>2. QED
  BY <1>1, NamesAssumption DEF Given

\* The defaults with the file are what the file gives, or the default.
LEMMA FileOverDefaults ==
  ASSUME TypeOK
  PROVE  /\ Merge(New, file.cfg) \in Config
         /\ \A f \in {"address", "root"} : Merge(New, file.cfg)[f] =
              IF file.cfg[f] # Unset THEN file.cfg[f] ELSE "default"
         /\ Merge(New, file.cfg)["builder"] = file.cfg["builder"]
         /\ file = Absent => Merge(New, file.cfg) = New
<1>1. /\ New["address"] = "default" /\ New["root"] = "default"
      /\ New["builder"] = Unset
  BY DEF New, Fields
<1>2. ASSUME file = Absent PROVE Merge(New, file.cfg) = New
  <2>1. \A f \in Fields : file.cfg[f] = Unset
    BY <1>2, FileType DEF NoConfig
  <2>2. Merge(New, file.cfg) = [f \in Fields |-> New[f]]
    BY <2>1 DEF Merge
  <2>3. QED
    BY <2>2, DefaultsType DEF Config
<1>3. QED
  BY <1>1, <1>2, FileType, DefaultsType, MergeType DEF Fields

\* The plugin has what its file gives, and a root.
LEMMA PluginSettings ==
  ASSUME TypeOK
  PROVE  /\ PluginConfig \in Config
         /\ PluginConfig["root"] = Given("root", "plugin")
         /\ PluginConfig["builder"] = file.cfg["builder"]
<1> DEFINE bare == [NoConfig EXCEPT !["root"] = "default"]
<1>1. bare["root"] = "default" /\ \A f \in Fields \ {"root"} : bare[f] = Unset
  BY DEF NoConfig, Fields
<1>2. bare \in [Fields -> Names \cup {Unset, "yes"}]
  BY NamesAssumption DEF NoConfig
<1>3. bare \in Config
  BY <1>1, <1>2, NamesAssumption DEF Config, Fields
<1>4. PluginConfig = Merge(bare, file.cfg)
  BY DEF PluginConfig
<1> HIDE DEF bare
<1>5. QED
  BY <1>1, <1>3, <1>4, FileType, MergeType DEF Fields, Given

\* The settings of a daemon, once it has its command line.
LEMMA DaemonSettings ==
  ASSUME TypeOK, NEW cfg, cfg = Merge(Merge(New, file.cfg), flags)
  PROVE  /\ cfg \in Config
         /\ cfg["root"] = Given("root", "daemon")
         /\ cfg["address"] = Given("address", "daemon")
         /\ cfg["builder"] = file.cfg["builder"]
<1>1. flags \in Config /\ flags["builder"] = Unset
  BY FlagSetsAssumption DEF TypeOK
<1>2. QED
  BY <1>1, FileOverDefaults, MergeType DEF Fields, Given

-----------------------------------------------------------------------------
(* The steps                                                               *)

\* A step that sets the step and the settings of a process.
LEMMA TwoFields ==
  ASSUME TypeOK, NEW d \in Instances, NEW s \in Steps, NEW c \in Config,
         inst' = [inst EXCEPT ![d].step = s, ![d].cfg = c]
  PROVE  Moves(d) /\ inst'[d].step = s /\ inst'[d].mode = inst[d].mode /\ inst'[d].cfg = c
<1>1. inst \in [Instances -> Process]
  BY DEF TypeOK
<1>2. QED
  BY <1>1 DEF Moves, Process

\* What a step of process d has to show when it changes nothing else than
\* what d does.
LEMMA OneMoves ==
  ASSUME IInv, NEW d \in Instances, Moves(d), NEW p, p = inst'[d],
         p.step \in {"off", "load"} \/ p.cfg["root"] \in Names,
         p.step = "flags" => p.mode = "daemon" /\ p.cfg = Merge(New, file.cfg),
         p.step \in Settled =>
           /\ p.cfg["root"] = Given("root", p.mode)
           /\ p.mode = "daemon" => p.cfg["address"] = Given("address", "daemon")
           /\ p.cfg["builder"] = file.cfg["builder"],
         UNCHANGED <<file, flags, calm>>,
         socket' \in [Names -> Instances \cup {NoOne, Stale}],
         dbLock' \in [Names -> Instances \cup {NoOne}],
         dialled' \in Instances \cup {NoOne}
  PROVE  IInv'
<1>1. p = inst'[d] /\ \A e \in Instances \ {d} : inst'[e] = inst[e]
  BY DEF Moves
<1>2. TypeOK'
  <2>1. inst' \in [Instances -> Process]
    BY DEF Moves
  <2>2. ASSUME NEW e \in Instances
        PROVE  inst'[e].step \in {"off", "load"} \/ inst'[e].cfg["root"] \in Names
    BY <1>1 DEF IInv, TypeOK
  <2>3. QED
    BY <2>1, <2>2 DEF IInv, TypeOK
<1>3. FileTaken'
  <2>1. Merge(New, file.cfg)' = Merge(New, file.cfg)
    BY DEF Merge, New
  <2>2. ASSUME NEW e \in Instances, inst'[e].step = "flags"
        PROVE  inst'[e].mode = "daemon" /\ inst'[e].cfg = Merge(New, file.cfg)
    BY <1>1, <2>2 DEF IInv, FileTaken, At, Mode
  <2>3. QED
    BY <2>1, <2>2 DEF FileTaken, At, Mode
<1>4. SettingsTaken'
  <2> SUFFICES ASSUME NEW e \in Instances, inst'[e].step \notin {"off", "load", "flags"}
               PROVE  /\ inst'[e].cfg["root"] = Given("root", inst'[e].mode)
                      /\ inst'[e].mode = "daemon" =>
                           inst'[e].cfg["address"] = Given("address", "daemon")
                      /\ inst'[e].cfg["builder"] = file.cfg["builder"]
    BY DEF SettingsTaken, Root, Address, Mode, Given
  <2>1. CASE e = d
    <3>1. p.step \in Settled
      BY <1>1, <2>1 DEF Moves, Settled, Process
    <3>2. QED
      BY <1>1, <2>1, <3>1
  <2>2. CASE e # d
    BY <1>1, <2>2 DEF IInv, SettingsTaken, Root, Address, Mode
  <2>3. QED
    BY <2>1, <2>2
<1>5. QED
  BY <1>2, <1>3, <1>4 DEF IInv

\* A process that has its settings and goes to a later step keeps them, also
\* when it opens its listener.
LEMMA LaterStep ==
  ASSUME IInv, NEW d \in Instances, inst[d].step \in Settled,
         NEW step \in Settled, NEW open \in BOOLEAN,
         inst' = [inst EXCEPT ![d].open = open, ![d].step = step],
         UNCHANGED <<file, flags, calm, dbLock, dialled>>,
         socket' \in [Names -> Instances \cup {NoOne, Stale}]
  PROVE  IInv'
<1>1. /\ Moves(d)
      /\ inst'[d].step = step /\ inst'[d].mode = inst[d].mode /\ inst'[d].cfg = inst[d].cfg
  BY DEF IInv, TypeOK, Moves, Settled, Process
<1>2. /\ step \notin {"off", "load", "flags"}
      /\ inst[d].cfg["root"] \in Names
      /\ inst[d].cfg["root"] = Given("root", inst[d].mode)
      /\ inst[d].mode = "daemon" => inst[d].cfg["address"] = Given("address", "daemon")
      /\ inst[d].cfg["builder"] = file.cfg["builder"]
  BY DEF IInv, TypeOK, SettingsTaken, Settled, Root, Address, Mode
<1>3. dbLock' \in [Names -> Instances \cup {NoOne}] /\ dialled' \in Instances \cup {NoOne}
  BY DEF IInv, TypeOK
<1>4. QED
  BY <1>1, <1>2, <1>3, OneMoves

\* The same when only the step changes.
LEMMA GotoStep ==
  ASSUME IInv, NEW d \in Instances, inst[d].step \in Settled,
         NEW step \in Settled, Goto(d, step),
         UNCHANGED <<file, flags, calm, dbLock, dialled>>,
         socket' \in [Names -> Instances \cup {NoOne, Stale}]
  PROVE  IInv'
<1>1. inst \in [Instances -> Process]
  BY DEF IInv, TypeOK
<1>2. inst' = [inst EXCEPT ![d].open = inst[d].open, ![d].step = step]
  BY <1>1 DEF Goto, Process
<1>3. inst[d].open \in BOOLEAN
  BY <1>1 DEF Process
<1>4. QED
  BY <1>2, <1>3, LaterStep

\* A process that is off has no settings to keep.
LEMMA OffType ==
  /\ Off \in Process
  /\ Off.step = "off"
BY DefaultsType DEF Off, Steps, Process

\* A process that ends leaves the others as they are.
LEMMA GoneStep ==
  ASSUME IInv, NEW d \in Instances, Gone(d)
  PROVE  IInv'
<1>1. Moves(d) /\ inst'[d] = Off
  BY OffType DEF Gone, IInv, TypeOK, Moves
<1>2. /\ socket' \in [Names -> Instances \cup {NoOne, Stale}]
      /\ dbLock' \in [Names -> Instances \cup {NoOne}]
      /\ dialled' \in Instances \cup {NoOne}
  BY DEF Gone, IInv, TypeOK
<1>3. UNCHANGED <<file, flags, calm>>
  BY DEF Gone
<1>4. Off.step \notin Settled /\ Off.step # "flags"
  BY OffType DEF Settled
<1>5. QED
  BY <1>1, <1>2, <1>3, <1>4, OffType, OneMoves

\* An error of start-up leaves the others as they are.
LEMMA StartUpErrorStep ==
  ASSUME IInv, NEW d \in Instances, StartUpError(d), inst[d].step \in Settled
  PROVE  IInv'
<1>1. CASE Mode(d) = "daemon"
  BY <1>1, GoneStep DEF StartUpError
<1>2. CASE Mode(d) # "daemon"
  <2>1. Goto(d, "broken") /\ UNCHANGED <<file, flags, socket, dbLock, dialled, calm>>
    BY <1>2 DEF StartUpError
  <2>2. "broken" \in Settled
    BY DEF Settled, Steps
  <2>3. QED
    BY <2>1, <2>2, GotoStep DEF IInv, TypeOK
<1>3. QED
  BY <1>1, <1>2

\* A server that fails ends its daemon, or the image service of its plugin.
LEMMA ServeFailsStep ==
  ASSUME IInv, NEW d \in Instances, ServeFails(d)
  PROVE  IInv'
<1>1. /\ UNCHANGED <<file, flags, calm>>
      /\ socket' \in [Names -> Instances \cup {NoOne, Stale}]
  BY DEF ServeFails, Unlinked, IInv, TypeOK
<1>2. CASE Mode(d) = "daemon"
  <2>1. Moves(d) /\ inst'[d] = Off
    BY <1>2, OffType DEF ServeFails, IInv, TypeOK, Moves
  <2>2. /\ dbLock' \in [Names -> Instances \cup {NoOne}]
        /\ dialled' \in Instances \cup {NoOne}
    BY <1>2 DEF ServeFails, IInv, TypeOK
  <2>3. Off.step \notin Settled /\ Off.step # "flags"
    BY OffType DEF Settled
  <2>4. QED
    BY <1>1, <2>1, <2>2, <2>3, OffType, OneMoves
<1>3. CASE Mode(d) # "daemon"
  <2>1. inst' = [inst EXCEPT ![d].open = FALSE] /\ UNCHANGED <<dbLock, dialled>>
    BY <1>3 DEF ServeFails
  <2>2. /\ Moves(d)
        /\ inst'[d].step = inst[d].step /\ inst'[d].mode = inst[d].mode
        /\ inst'[d].cfg = inst[d].cfg
    BY <2>1 DEF IInv, TypeOK, Moves, Process
  <2>3. /\ inst[d].step \in {"off", "load"} \/ inst[d].cfg["root"] \in Names
        /\ inst[d].step = "flags" =>
             inst[d].mode = "daemon" /\ inst[d].cfg = Merge(New, file.cfg)
        /\ inst[d].step \in Settled =>
             /\ inst[d].cfg["root"] = Given("root", inst[d].mode)
             /\ inst[d].mode = "daemon" => inst[d].cfg["address"] = Given("address", "daemon")
             /\ inst[d].cfg["builder"] = file.cfg["builder"]
    BY DEF IInv, TypeOK, FileTaken, SettingsTaken, Settled, At, Root, Address, Mode
  <2>4. dbLock' \in [Names -> Instances \cup {NoOne}] /\ dialled' \in Instances \cup {NoOne}
    BY <2>1 DEF IInv, TypeOK
  <2>5. QED
    BY <1>1, <2>2, <2>3, <2>4, OneMoves
<1>4. QED
  BY <1>2, <1>3

\* At the start nobody has any settings.
LEMMA InitIInv ==
  ASSUME Init
  PROVE  IInv
<1>1. \A d \in Instances : inst[d] = Off
  BY DEF Init
<1>2. TypeOK
  BY <1>1, OffType DEF Init, TypeOK
<1>3. FileTaken /\ SettingsTaken
  BY <1>1, OffType DEF FileTaken, SettingsTaken, At
<1>4. QED
  BY <1>2, <1>3 DEF IInv

\* Every step keeps the invariant.
LEMMA NextIInv ==
  ASSUME IInv, [Next]_vars
  PROVE  IInv'
<1>0. TypeOK
  BY DEF IInv
<1>1. ASSUME NEW d \in Instances, NEW mode \in Modes, Start(d, mode)
      PROVE  IInv'
  <2> DEFINE p == [Off EXCEPT !.step = "load", !.mode = mode]
  <2>1. inst' = [inst EXCEPT ![d] = p] /\ UNCHANGED <<file, flags, calm, socket, dbLock, dialled>>
    BY <1>1 DEF Start
  <2>2. /\ p \in Process
        /\ p.step = "load" /\ "load" \notin Settled
    BY DefaultsType DEF Steps, Settled, Off, Process
  <2> HIDE DEF p
  <2>3. Moves(d) /\ inst'[d] = p
    BY <1>0, <2>1, <2>2 DEF TypeOK, Moves
  <2>4. QED
    BY <1>0, <2>1, <2>2, <2>3, OneMoves DEF TypeOK
<1>2. ASSUME NEW d \in Instances, Load(d)
      PROVE  IInv'
  <2>1. /\ inst[d] \in Process
        /\ UNCHANGED <<file, flags, calm, socket, dbLock, dialled>>
    BY <1>0, <1>2 DEF TypeOK, Load
  <2>2. CASE Mode(d) = "daemon"
    <3>1. inst' = [inst EXCEPT ![d].step = "flags", ![d].cfg = Merge(New, file.cfg)]
      BY <1>0, <1>2, <2>2, FileOverDefaults DEF Load
    <3>2. /\ Moves(d) /\ inst'[d].step = "flags" /\ inst'[d].mode = "daemon"
          /\ inst'[d].cfg = Merge(New, file.cfg)
      BY <1>0, <2>2, <3>1, TwoFields, FileOverDefaults DEF Steps, Mode
    <3>3. Merge(New, file.cfg)["root"] \in Names
      BY <1>0, FileOverDefaults, FileType, NamesAssumption DEF Config, Fields
    <3>4. QED
      BY <1>0, <2>1, <3>2, <3>3, OneMoves DEF TypeOK, Settled
  <2>3. CASE Mode(d) # "daemon"
    <3> DEFINE s == IF PluginConfig["enable"] = "yes" THEN "dir" ELSE "build"
    <3>1. inst' = [inst EXCEPT ![d].step = s, ![d].cfg = PluginConfig]
      BY <1>2, <2>3 DEF Load
    <3>2. inst[d].mode = "plugin" /\ s \in Steps /\ s # "flags"
      BY <2>1, <2>3, ModesAssumption DEF Mode, Steps, Process
    <3> HIDE DEF s
    <3>3. /\ Moves(d) /\ inst'[d].step = s /\ inst'[d].mode = "plugin"
          /\ inst'[d].cfg = PluginConfig
      <4>1. PluginConfig \in Config
        BY <1>0, PluginSettings
      <4>2. /\ Moves(d) /\ inst'[d].step = s /\ inst'[d].mode = inst[d].mode
            /\ inst'[d].cfg = PluginConfig
        BY <1>0, <3>1, <3>2, <4>1, TwoFields
      <4>3. QED
        BY <3>2, <4>2
    <3>4. /\ PluginConfig["root"] = Given("root", "plugin")
          /\ PluginConfig["root"] \in Names
          /\ PluginConfig["builder"] = file.cfg["builder"]
      BY <1>0, PluginSettings, GivenType
    <3>5. QED
      BY <1>0, <2>1, <3>2, <3>3, <3>4, OneMoves DEF TypeOK
  <2>4. QED
    BY <2>2, <2>3
<1>3. ASSUME NEW d \in Instances, MergeFlags(d)
      PROVE  IInv'
  <2> DEFINE c == Merge(Merge(New, file.cfg), flags)
  <2>1. /\ inst[d] \in Process
        /\ inst[d].mode = "daemon" /\ inst[d].cfg = Merge(New, file.cfg)
        /\ UNCHANGED <<file, flags, calm, socket, dbLock, dialled>>
    BY <1>3 DEF IInv, TypeOK, FileTaken, MergeFlags, At, Mode
  <2>2. inst' = [inst EXCEPT ![d].step = "dir", ![d].cfg = c]
    BY <1>3, <2>1 DEF MergeFlags
  <2>3. /\ c \in Config /\ c["root"] \in Names
        /\ c["root"] = Given("root", "daemon")
        /\ c["address"] = Given("address", "daemon")
        /\ c["builder"] = file.cfg["builder"]
    BY <1>0, DaemonSettings, GivenType
  <2> HIDE DEF c
  <2>4. Moves(d) /\ inst'[d].step = "dir" /\ inst'[d].mode = "daemon" /\ inst'[d].cfg = c
    BY <1>0, <2>1, <2>2, <2>3, TwoFields DEF Steps
  <2>5. QED
    BY <1>0, <2>1, <2>3, <2>4, OneMoves DEF TypeOK
<1>4. ASSUME NEW d \in Instances, LoadFails(d) \/ Exit(d)
      PROVE  IInv'
  BY <1>4, GoneStep DEF LoadFails, Exit
<1>5. ASSUME NEW d \in Instances, Fails(d)
      PROVE  IInv'
  <2>1. inst[d].step \in Settled /\ StartUpError(d)
    BY <1>5 DEF Fails, Settled, Steps
  <2>2. QED
    BY <2>1, StartUpErrorStep
<1>6. ASSUME NEW d \in Instances, MakeDir(d) \/ Build(d) \/ Notify(d)
      PROVE  IInv'
  <2>1. PICK step \in {"clear", "listen", "serve"} : Goto(d, step)
    BY <1>6 DEF MakeDir, Build, Notify
  <2>2. inst[d].step \in Settled /\ step \in Settled
    BY <1>6, <2>1 DEF MakeDir, Build, Notify, At, Settled, Steps
  <2>3. UNCHANGED <<file, flags, calm, dbLock, dialled, socket>>
    BY <1>6 DEF MakeDir, Build, Notify
  <2>4. QED
    BY <1>0, <2>1, <2>2, <2>3, GotoStep DEF TypeOK
<1>7. ASSUME NEW d \in Instances, ClearSocket(d)
      PROVE  IInv'
  <2>1. PICK step \in {"build", "listen"} : Goto(d, step)
    BY <1>7 DEF ClearSocket
  <2>2. inst[d].step \in Settled /\ step \in Settled
    BY <1>7, <2>1 DEF ClearSocket, At, Settled, Steps
  <2>3. /\ UNCHANGED <<file, flags, calm, dbLock, dialled>>
        /\ socket' \in [Names -> Instances \cup {NoOne, Stale}]
    BY <1>0, <1>7 DEF ClearSocket, TypeOK
  <2>4. QED
    BY <2>1, <2>2, <2>3, GotoStep
<1>8. ASSUME NEW d \in Instances, At(d, "listen"), Open(d),
             UNCHANGED <<file, flags, calm, dbLock, dialled>>,
             socket' \in [Names -> Instances \cup {NoOne, Stale}]
      PROVE  IInv'
  <2> DEFINE step == IF Mode(d) = "daemon" THEN "notify" ELSE "build"
  <2>1. inst[d].step \in Settled /\ step \in Settled
    BY <1>8 DEF At, Settled, Steps
  <2>2. inst' = [inst EXCEPT ![d].open = TRUE, ![d].step = step]
    BY <1>8 DEF Open
  <2> HIDE DEF step
  <2>3. QED
    BY <1>8, <2>1, <2>2, LaterStep
<1>9. ASSUME NEW d \in Instances, Listen(d) \/ ListenNowhere(d)
      PROVE  IInv'
  <2>1. CASE ListenNowhere(d)
    BY <1>0, <1>8, <2>1 DEF ListenNowhere, TypeOK
  <2>2. CASE Listen(d) /\ socket[Address(d)] = NoOne
    <3>1. socket' \in [Names -> Instances \cup {NoOne, Stale}]
      BY <1>0, <2>2 DEF Listen, TypeOK
    <3>2. QED
      BY <1>8, <2>2, <3>1 DEF Listen
  <2>3. CASE Listen(d) /\ socket[Address(d)] # NoOne
    <3>1. StartUpError(d) /\ inst[d].step \in Settled
      BY <2>3 DEF Listen, At, Settled, Steps
    <3>2. QED
      BY <3>1, StartUpErrorStep
  <2>4. QED
    BY <1>9, <2>1, <2>2, <2>3
<1>10. ASSUME UNCHANGED <<file, flags, inst, socket>>,
             calm' \in BOOLEAN, dbLock' \in [Names -> Instances \cup {NoOne}],
             dialled' \in Instances \cup {NoOne}
      PROVE  IInv'
  <2>1. TypeOK'
    BY <1>0, <1>10 DEF TypeOK
  <2>2. FileTaken'
    <3>1. Merge(New, file.cfg)' = Merge(New, file.cfg)
      BY <1>10 DEF Merge, New
    <3>2. QED
      BY <1>10, <3>1 DEF IInv, FileTaken, At, Mode
  <2>3. SettingsTaken'
    BY <1>10 DEF IInv, SettingsTaken, Root, Address, Mode, Given
  <2>4. QED
    BY <2>1, <2>2, <2>3 DEF IInv
<1>11. ASSUME NEW d \in Instances, Dial(d) \/ Answer(d) \/ GiveUp(d)
      PROVE  IInv'
  <2>1. /\ UNCHANGED <<file, flags, inst, socket, calm>>
        /\ dbLock' \in [Names -> Instances \cup {NoOne}]
        /\ dialled' \in Instances \cup {NoOne}
    BY <1>0, <1>11 DEF Dial, Answer, GiveUp, TypeOK
  <2>2. QED
    BY <1>0, <1>10, <2>1 DEF TypeOK
<1>12. ASSUME Calm \/ UNCHANGED vars
       PROVE  IInv'
  BY <1>0, <1>10, <1>12 DEF Calm, vars, TypeOK
<1>13. ASSUME NEW d \in Instances, ServeFails(d)
       PROVE  IInv'
  BY <1>13, ServeFailsStep
<1>14. QED
  BY <1>1, <1>2, <1>3, <1>4, <1>5, <1>6, <1>7, <1>9, <1>11, <1>12, <1>13 DEF Next, Run

-----------------------------------------------------------------------------
(* Theorems                                                                *)

\* Every state has its type, and a process that runs has a root directory
\* whatever the file and the command line leave out.
THEOREM TypeCorrect == Spec => []TypeOK
<1>1. IInv => TypeOK
  BY DEF IInv
<1>2. QED
  BY <1>1, InitIInv, NextIInv, PTL DEF Spec

\* A process that got past its settings uses the command line before the file
\* before the defaults (config.go:33-48, main.go:89-101, plugin.go:22-36), for
\* whatever they say.
THEOREM SettingsAreTaken == Spec => []SettingsTaken
<1>1. IInv => SettingsTaken
  BY DEF IInv
<1>2. QED
  BY <1>1, InitIInv, NextIInv, PTL DEF Spec

\* A daemon that serves and runs on loses its socket file to a process that
\* clears the same address (main.go:119-123) or whose server fails there
\* (main.go:153-156), and to nobody else: not to one that is ended, and not to
\* one that listens.
LEMMA SocketStep ==
  ASSUME IInv, [Next]_vars, NEW d \in Instances,
         At(d, "serve"), Mode(d) = "daemon", socket[Address(d)] = d, inst'[d] = inst[d],
         socket'[Address(d)] # d
  PROVE  \E e \in Instances \ {d} :
           Address(e) = Address(d) /\ (ClearSocket(e) \/ ServeFails(e))
<1>1. /\ Address(d) \in Names /\ inst \in [Instances -> Process]
      /\ socket \in [Names -> Instances \cup {NoOne, Stale}]
  BY GivenType DEF IInv, TypeOK, SettingsTaken, At
<1>2. ASSUME NEW e \in Instances, Gone(e)
      PROVE  FALSE
  <2>1. e # d
    <3>1. inst'[e] = Off
      BY <1>1, <1>2 DEF Gone
    <3>2. QED
      BY <3>1, OffType DEF At
  <2>2. QED
    BY <1>1, <1>2, <2>1 DEF Gone
<1>3. ~UNCHANGED socket
  OBVIOUS
<1>4. ASSUME NEW e \in Instances, StartUpError(e)
      PROVE  FALSE
  BY <1>2, <1>3, <1>4 DEF StartUpError
<1>5. ASSUME NEW e \in Instances, socket' = Unlinked(e)
      PROVE  Address(e) = Address(d)
  BY <1>1, <1>5 DEF Unlinked
<1>6. ASSUME NEW e \in Instances, ClearSocket(e)
      PROVE  e # d /\ Address(e) = Address(d)
  <2>1. inst[e].step = "clear"
    BY <1>6 DEF ClearSocket, At
  <2>2. socket' = Unlinked(e)
    BY <1>6 DEF ClearSocket, Unlinked
  <2>3. QED
    BY <1>5, <2>1, <2>2 DEF At
<1>7. ASSUME NEW e \in Instances, ServeFails(e)
      PROVE  e # d /\ Address(e) = Address(d)
  <2>1. inst'[e] # inst[e]
    <3>1. inst[e].open /\ ~Off.open
      BY <1>7 DEF ServeFails, Off
    <3>2. inst'[e] = Off \/ ~inst'[e].open
      BY <1>1, <1>7 DEF ServeFails, Process
    <3>3. QED
      BY <3>1, <3>2
  <2>2. socket' = Unlinked(e)
    BY <1>7 DEF ServeFails
  <2>3. QED
    BY <1>5, <2>1, <2>2
<1>8. ASSUME NEW e \in Instances, Listen(e)
      PROVE  FALSE
  <2>1. CASE socket[Address(e)] = NoOne
    <3>1. Address(e) # Address(d)
      BY <2>1, InstancesAssumption
    <3>2. socket' = [socket EXCEPT ![Address(e)] = e]
      BY <1>8, <2>1 DEF Listen
    <3>3. QED
      BY <1>1, <3>1, <3>2
  <2>2. CASE socket[Address(e)] # NoOne
    BY <1>4, <1>8, <2>2 DEF Listen
  <2>3. QED
    BY <2>1, <2>2
<1>9. ASSUME NEW e \in Instances, NEW mode \in Modes, Start(e, mode)
      PROVE  UNCHANGED socket
  BY <1>9 DEF Start
<1>10. ASSUME NEW e \in Instances, Run(e)
       PROVE  ClearSocket(e)
  BY <1>2, <1>3, <1>8, <1>10
  DEF Run, Load, LoadFails, MergeFlags, MakeDir, Build, ListenNowhere, Notify
<1>11. ASSUME NEW e \in Instances, Fails(e) \/ Exit(e)
       PROVE  FALSE
  BY <1>2, <1>4, <1>11 DEF Fails, Exit
<1>12. ASSUME NEW e \in Instances, Dial(e) \/ Answer(e) \/ GiveUp(e)
       PROVE  UNCHANGED socket
  BY <1>12 DEF Dial, Answer, GiveUp
<1>13. ASSUME Calm \/ UNCHANGED vars
       PROVE  UNCHANGED socket
  BY <1>13 DEF Calm, vars
<1>14. PICK e \in Instances : ClearSocket(e) \/ ServeFails(e)
  BY <1>3, <1>9, <1>10, <1>11, <1>12, <1>13 DEF Next
<1>15. QED
  BY <1>6, <1>7, <1>14

\* A daemon that said it is ready keeps its socket file whenever other
\* processes are ended, by a signal or a crash (main.go:172-184), for any
\* number of them and any settings.
THEOREM SocketIsKept == Spec => KeepsSocket
<1>1. ASSUME IInv, [Next]_vars
      PROVE  [\A d \in Instances :
                /\ At(d, "serve") /\ Mode(d) = "daemon" /\ socket[Address(d)] = d
                /\ inst'[d] = inst[d]
                /\ socket'[Address(d)] # d
                => \E e \in Instances \ {d} :
                     /\ Address(e) = Address(d)
                     /\ ClearSocket(e) \/ ServeFails(e)]_vars
  BY <1>1, SocketStep
<1>2. QED
  BY <1>1, InitIInv, NextIInv, PTL DEF Spec, KeepsSocket
=============================================================================
