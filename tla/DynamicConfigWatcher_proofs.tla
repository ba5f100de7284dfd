---------------------- MODULE DynamicConfigWatcher_proofs ----------------------
(***************************************************************************)
(* The watcher keeps its types and applies nothing but the content of the  *)
(* file, or the defaults without one, for any configurations, however the  *)
(* file changes between two of its steps, and for any number of changes.   *)
(***************************************************************************)
EXTENDS DynamicConfigWatcher, TLAPS

\* A configuration, when it is applied, leaves a verbosity that is one of those
\* there are.
LEMMA ApplyTypes ==
  ASSUME TypeOK, NEW c \in Contents \cup {Default}, Apply(c)
  PROVE  /\ applied' \in Contents \cup {Default}
         /\ level' \in {DefaultLevel} \cup ({Level[d] : d \in Contents} \ {Null})
  BY DEF TypeOK, Apply

LEMMA EventTypes == TypeOK /\ (UNCHANGED events \/ Event) => events' \in 0 .. MaxEvents
  BY ConfigAssumption DEF TypeOK, Event

LEMMA StepTypes == TypeOK /\ [Next]_vars => TypeOK'
<1> SUFFICES ASSUME TypeOK, [Next]_vars PROVE TypeOK'
  OBVIOUS
<1> USE DEF TypeOK, Files, NoHash
<1>1. CASE New
  BY <1>1, ApplyTypes, EventTypes DEF New, Readable, Keep, settings
<1>2. CASE StatFinds
  BY <1>2, EventTypes DEF StatFinds, ExistsAfterStat, settings
<1>3. CASE StatFindsNothing
  BY <1>3, ApplyTypes, EventTypes DEF StatFindsNothing
<1>4. CASE Read
  BY <1>4, ApplyTypes, EventTypes
  DEF Read, Readable, Keep, settings, AppliedAfterReadError, HashAfterReadError
<1>5. CASE Exit
  BY <1>5, EventTypes DEF Exit, settings
<1>6. CASE Close
  BY <1>6, EventTypes DEF Close, watcherVars, settings
<1>7. CASE FileChanges
  BY <1>7, EventTypes DEF FileChanges, watcherVars, settings
<1>8. CASE UNCHANGED vars
  BY <1>8, EventTypes DEF vars, watcherVars, settings
<1>9. QED BY <1>1, <1>2, <1>3, <1>4, <1>5, <1>6, <1>7, <1>8 DEF Next

\* The watcher's variables keep their types.
THEOREM WatcherTypeCorrect == Spec => []TypeOK
<1>1. Init => TypeOK
  <2> SUFFICES ASSUME Init PROVE TypeOK
    OBVIOUS
  <2>1. file \in Files /\ exists \in BOOLEAN /\ quit \in BOOLEAN
    BY DEF Init
  <2>2. hash \in Contents \cup {NoHash} /\ pc \in {"new", "select", "read", "exited"}
    BY DEF Init
  <2>3. applied \in Contents \cup {Default}
    BY DEF Init
  <2>4. level \in {DefaultLevel} \cup ({Level[c] : c \in Contents} \ {Null})
    BY DEF Init
  <2>5. events \in 0 .. MaxEvents
    BY ConfigAssumption DEF Init
  <2>6. QED BY <2>1, <2>2, <2>3, <2>4, <2>5 DEF TypeOK
<1>2. QED BY <1>1, StepTypes, PTL DEF Spec

\* Whatever happens to the file between os.Stat and the read, the settings change
\* to those of its content at that moment only, or to the defaults if there is no file.
THEOREM OnlyWhatIsThere == Spec => AppliesWhatIsThere
<1>1. ASSUME TypeOK, [Next]_vars, settings' # settings PROVE InForce(Wanted)'
  <2>1. ASSUME file \in Contents, UNCHANGED file, Apply(file) PROVE InForce(Wanted)'
    BY <2>1, ConfigAssumption DEF Apply, InForce, Wanted
  <2>2. ASSUME file = Absent, UNCHANGED file, Apply(Default) PROVE InForce(Wanted)'
    BY <2>2 DEF Apply, InForce, Wanted
  <2>3. CASE New \/ Read
    BY <1>1, <2>1, <2>3
    DEF New, Read, Readable, Keep, settings, AppliedAfterReadError
  <2>4. CASE StatFindsNothing
    BY <1>1, <2>2, <2>4 DEF StatFindsNothing, settings
  <2>5. CASE StatFinds \/ Exit \/ Close \/ FileChanges \/ UNCHANGED vars
    BY <1>1, <2>5 DEF StatFinds, Exit, Close, FileChanges, vars, settings
  <2>6. QED BY <1>1, <2>3, <2>4, <2>5 DEF Next
<1>2. TypeOK /\ [Next]_vars => [settings' # settings => InForce(Wanted)']_vars
  BY <1>1
<1>3. QED BY <1>2, WatcherTypeCorrect, PTL DEF Spec, AppliesWhatIsThere

\* A content is applied as it is hashed, and the defaults as a whole.
LEMMA SourceStep == TypeOK /\ SettingsOfOneSource /\ [Next]_vars => SettingsOfOneSource'
<1> SUFFICES ASSUME TypeOK, SettingsOfOneSource, [Next]_vars PROVE SettingsOfOneSource'
  OBVIOUS
<1> USE DEF SettingsOfOneSource
<1>1. ASSUME file \in Contents, hash' = file, Apply(file) PROVE SettingsOfOneSource'
  <2>1. file # Default
    BY <1>1, ConfigAssumption
  <2>2. QED BY <1>1, <2>1 DEF Apply
<1>2. ASSUME hash' = hash, Apply(Default) PROVE SettingsOfOneSource'
  BY <1>2 DEF Apply
<1>3. ASSUME UNCHANGED <<hash, settings>> PROVE SettingsOfOneSource'
  BY <1>3 DEF settings
<1>4. CASE New \/ Read
  BY <1>1, <1>3, <1>4
  DEF New, Read, Readable, Keep, settings, AppliedAfterReadError, HashAfterReadError
<1>5. CASE StatFindsNothing
  BY <1>2, <1>5 DEF StatFindsNothing
<1>6. CASE StatFinds \/ Exit \/ Close \/ FileChanges \/ UNCHANGED vars
  BY <1>3, <1>6 DEF StatFinds, Exit, Close, FileChanges, vars, watcherVars
<1>7. QED BY <1>4, <1>5, <1>6 DEF Next

\* Whatever happens to the file, and whatever its contents say, the log and the
\* verbosity are those of one of them, or those of the environment.
THEOREM SettingsAlwaysOfOneSource == Spec => []SettingsOfOneSource
<1>1. Init => SettingsOfOneSource
  BY DEF Init, SettingsOfOneSource
<1>2. QED BY <1>1, SourceStep, WatcherTypeCorrect, PTL DEF Spec
=============================================================================
