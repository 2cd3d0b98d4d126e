\* Two processes at a time, either of them the plugin.  Liveness, so no symmetry.
CONSTANTS
  Instances = {d1, d2}
  Modes = {"daemon", "plugin"}
  Names = {"default", "other", "third"}
  Files <- MCFiles
  FlagSets <- MCFlagSets
  Faults = {"exit", "serve", "io", "twice"}
\* A daemon whose socket file another process removed runs on and is never
\* called again, and nobody restarts it: the system stops there.
CHECK_DEADLOCK FALSE
SPECIFICATION FairSpec
INVARIANTS TypeOK SettingsTaken
PROPERTIES KeepsSocket Answers
