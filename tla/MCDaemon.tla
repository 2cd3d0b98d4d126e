------------------------------ MODULE MCDaemon ------------------------------
(* Daemon for TLC: settings that are left out, given once or given twice.  *)
EXTENDS Daemon, TLC

MCFiles == {Absent, Malformed, Settings(NoConfig),
            Settings("address" :> "other" @@ "root" :> "other" @@ "builder" :> "other"
               @@ "enable" :> "yes"),
            Settings([NoConfig EXCEPT !["address"] = "other"]),
            Settings([NoConfig EXCEPT !["enable"] = "yes"])}
MCFlagSets == {NoConfig,
               [NoConfig EXCEPT !["address"] = "third", !["root"] = "third"]}
=============================================================================
