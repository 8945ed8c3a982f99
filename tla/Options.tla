------------------------------ MODULE Options ------------------------------
(***************************************************************************)
(* How a factory and its logs are configured (options.go, New and Open of  *)
(* factory.go, New of dispatch.go).                                        *)
(*                                                                         *)
(* A LogConfig is a function from its fields to numbers, 0 where a field   *)
(* is not set.  Options are [Dir, DefaultLog, Logs, MaintenanceInterval,   *)
(* Ratio]: Dir tells whether a directory is given, Logs maps some names to *)
(* overrides, and Ratio is the discard ratio in tenths.                    *)
(***************************************************************************)
EXTENDS Integers

CONSTANT DefaultLogConfig

Limits == {"PrefetchCapacity", "MaxInFlight", "VisibilityTimeout"}
Fields == Limits \cup {"Initial", "Max", "Multiplier"}

\* Fields that are not set are taken from base.
mergeLogConfig(config, base) ==
    [f \in Fields |-> IF config[f] = 0 THEN base[f] ELSE config[f]]

normalizeLogConfig(config) ==
    [f \in Fields |-> IF config[f] = 0 THEN DefaultLogConfig[f] ELSE config[f]]

validateLogConfig(config) ==
    /\ \A f \in Limits : config[f] > 0
    /\ config["Initial"] >= 0 /\ config["Max"] >= config["Initial"]
    /\ config["Multiplier"] >= 1

\* mutant: overrides are validated as they are written
validateOptionsAlone(options) ==
    /\ options.Dir /\ validateLogConfig(options.DefaultLog)
    /\ options.MaintenanceInterval >= 0 /\ options.Ratio > 0 /\ options.Ratio < 10
    /\ \A name \in DOMAIN options.Logs :
         LET config == options.Logs[name] IN
         /\ \A f \in Limits : config[f] >= 0
         /\ config["Initial"] >= 0
         /\ config["Max"] = 0 \/ config["Max"] >= config["Initial"]
\* The names of overrides are checked by ValidateStreamName, see KeySpace.
validateOptions(options) ==
    /\ options.Dir /\ validateLogConfig(options.DefaultLog)
    /\ options.MaintenanceInterval >= 0 /\ options.Ratio > 0 /\ options.Ratio < 10
    /\ \A name \in DOMAIN options.Logs :
         validateLogConfig(mergeLogConfig(options.Logs[name], options.DefaultLog))

\* WithLog: the map of the receiver is copied.
WithLog(options, name, config) ==
    [options EXCEPT !.Logs = [n \in DOMAIN @ \cup {name} |-> IF n = name THEN config ELSE @[n]]]

\* What New keeps of the options it is given.
Normalized(options) ==
    [options EXCEPT !.DefaultLog = normalizeLogConfig(@),
                    !.Ratio = IF @ = 0 THEN 5 ELSE @]
NewAccepts(options) == validateOptions(Normalized(options))

\* The overrides a factory reads: made from those its caller passed to New,
\* whatever the caller has made of that map since.
cloneLogConfigsShared(given, now) == now    \* mutant: the map is shared
cloneLogConfigs(given, now) == given

\* The configuration Open gives the dispatcher of a log.
OpenConfig(options, logs, name) ==
    LET default == Normalized(options).DefaultLog
    IN  IF name \in DOMAIN logs THEN mergeLogConfig(logs[name], default) ELSE default

\* dispatch.New
DispatcherAccepts(config) ==
    /\ config["PrefetchCapacity"] > 0 /\ config["MaxInFlight"] > 0
    /\ config["VisibilityTimeout"] > 0
    /\ config["Initial"] >= 0 /\ config["Max"] >= config["Initial"]
    /\ config["Multiplier"] >= 1
=============================================================================
