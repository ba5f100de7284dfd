------------------------- MODULE DynamicConfigWatcher -------------------------
(***************************************************************************)
(* internal/config/dynamic_config_watcher.go: the goroutine that looks at  *)
(* the dynamic configuration file at each tick and applies its content, or *)
(* the defaults when the file is gone.  The file changes at any moment,    *)
(* between os.Stat and the read too.  What applyFunc does is that of       *)
(* applyDynamicConfig in cmd/main.go.                                      *)
(***************************************************************************)
EXTENDS Naturals

CONSTANTS
  Contents,      \* file contents that are a configuration
  Level,         \* the verbosityLogLevel of each content
  Null,          \* in Level: the field is null
  DefaultLevel,  \* the verbosity that the environment variables give
  Absent, Invalid,  \* states of the file: not there; not a configuration
  Default,       \* the configuration of the environment variables
  MaxEvents      \* bound on the changes of the file and the failures to read it

ASSUME ConfigAssumption ==
  /\ {Absent, Invalid, Default} \cap Contents = {} /\ DOMAIN Level = Contents
  /\ MaxEvents \in Nat

VARIABLES
  file,     \* content of the file
  exists,   \* the watcher has seen the file
  hash,     \* the content that the watcher last applied, named by its hash
  pc,       \* "new", "select", "read" (after the stat) or "exited"
  quit,     \* Close() has closed the channel
  applied,  \* the configuration applied last, for the Sarama log
  level,    \* the verbosity in force
  events

watcherVars == <<exists, hash, pc>>
settings == <<applied, level>>
vars == <<file, watcherVars, quit, settings, events>>

-----------------------------------------------------------------------------
\* Plausible slips in the code below, for the mutation runs.
ExistsUnnoticed == exists
HashedBeforeParsed == file
DefaultsOnError == Default
-----------------------------------------------------------------------------
NoHash == Absent
Files == Contents \cup {Absent, Invalid}

\* main() applies the defaults before it makes the watcher.
Init ==
  /\ file \in Files
  /\ exists = FALSE /\ hash = NoHash
  /\ pc = "new" /\ quit = FALSE
  /\ applied = Default /\ level = DefaultLevel
  /\ events = 0

\* applyDynamicConfig: the verbosity stays what it was when the field is null.
Apply(c) ==
  /\ applied' = c
  /\ level' = IF c = Default THEN DefaultLevel
              ELSE IF Level[c] = Null THEN level ELSE Level[c]

Event == events < MaxEvents /\ events' = events + 1

\* readAndHash has a configuration to return.
Readable == file \in Contents

\* The configuration and the hash after a readAndHash that failed.
AppliedAfterReadError == applied
HashAfterReadError == hash

Keep == UNCHANGED <<exists, hash, settings>>

\* NewDynamicConfigWatcher applies the file that is there.
New ==
  /\ pc = "new"
  /\ pc' = "select"
  /\ \/ Readable /\ exists' = TRUE /\ hash' = file /\ Apply(file) /\ UNCHANGED events
     \/ ~Readable /\ Keep /\ UNCHANGED events
     \/ Readable /\ Keep /\ Event
  /\ UNCHANGED <<file, quit>>

ExistsAfterStat == TRUE

\* A tick, up to os.Stat: the file is there, or it is not any more.
StatFinds ==
  /\ pc = "select" /\ file # Absent
  /\ exists' = ExistsAfterStat
  /\ pc' = "read"
  /\ UNCHANGED <<file, hash, quit, settings, events>>

StatFindsNothing ==
  /\ pc = "select" /\ file = Absent /\ exists
  /\ exists' = FALSE
  /\ Apply(Default)
  /\ UNCHANGED <<file, hash, pc, quit, events>>

\* The rest of the tick: a content with another hash is applied, a failure to
\* read it ignored.
Read ==
  /\ pc = "read"
  /\ pc' = "select"
  /\ \/ /\ Readable /\ file # hash
        /\ hash' = file /\ Apply(file)
        /\ UNCHANGED <<exists, events>>
     \/ Readable /\ file = hash /\ Keep /\ UNCHANGED events
     \/ /\ ~Readable
        /\ applied' = AppliedAfterReadError /\ hash' = HashAfterReadError
        /\ UNCHANGED <<exists, level, events>>
     \/ Readable /\ Keep /\ Event
  /\ UNCHANGED <<file, quit>>

\* The goroutine sees quit closed, between two ticks.
Exit ==
  /\ pc = "select" /\ quit
  /\ pc' = "exited"
  /\ UNCHANGED <<file, exists, hash, quit, settings, events>>

\* Close() closes the channel once, and does not wait for the goroutine.
Close ==
  /\ pc # "new" /\ ~quit
  /\ quit' = TRUE
  /\ UNCHANGED <<file, watcherVars, settings, events>>

\* Somebody creates, writes or deletes the file.
FileChanges ==
  /\ Event
  /\ file' \in Files \ {file}
  /\ UNCHANGED <<watcherVars, quit, settings>>

Next == New \/ StatFinds \/ StatFindsNothing \/ Read \/ Exit \/ Close \/ FileChanges

Spec == Init /\ [][Next]_vars

\* The ticker ticks, each tick comes to its end, and select does not overlook
\* the quit channel for ever.
Fairness ==
  /\ WF_vars(New) /\ WF_vars(StatFinds) /\ WF_vars(StatFindsNothing) /\ WF_vars(Read)
  /\ SF_vars(Exit)

FairSpec == Spec /\ Fairness
-----------------------------------------------------------------------------
\* The variables keep their types.
TypeOK ==
  /\ file \in Files
  /\ exists \in BOOLEAN /\ quit \in BOOLEAN
  /\ hash \in Contents \cup {NoHash}
  /\ pc \in {"new", "select", "read", "exited"}
  /\ applied \in Contents \cup {Default}
  /\ level \in {DefaultLevel} \cup ({Level[c] : c \in Contents} \ {Null})
  /\ events \in 0 .. MaxEvents

\* The log and the verbosity are those of configuration c, which may leave the
\* verbosity alone.
InForce(c) ==
  /\ applied = c
  /\ IF c = Default THEN level = DefaultLevel ELSE Level[c] \in {Null, level}

\* What the file says, or the environment without one.
Wanted == IF file = Absent THEN Default ELSE file

\* No setting ever changes but to those of the file at that moment, or to the
\* defaults when there is no file, and then all of them do: neither a failed read nor
\* half a file resets any, whatever happened between os.Stat and the read.
AppliesWhatIsThere == [][settings' # settings => InForce(Wanted)']_vars

\* The log and the verbosity are settings of one source, the content hashed last or
\* the environment: no sequence of changes, half-written files and failed reads
\* mixes those of two, but for a content that leaves the verbosity alone.
SettingsOfOneSource ==
  /\ applied \in {hash, Default}
  /\ applied = Default => level = DefaultLevel
  /\ applied # Default => Level[applied] = Null \/ level = Level[applied]

\* The settings are those of the file, or of the environment without a file; an
\* invalid file leaves the settings as they are.
FollowsNow == file = Invalid \/ InForce(Wanted)

\* The file is back with the content it had before it was deleted.
BackAsItWas == file \in Contents /\ file = hash /\ applied = Default

\* Once the file stops changing the settings follow it, whatever the ticks in
\* between saw or missed, unless it has come back as it was before.
FollowsFile == <>[](FollowsNow \/ BackAsItWas \/ pc = "exited")

\* README.md: the file is "monitored for changes in content and
\* creation/deletion, with any changes being applied dynamically".
FollowsFileAlways == <>[](FollowsNow \/ pc = "exited")
=============================================================================
