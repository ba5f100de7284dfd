------------------------ MODULE MCDynamicConfigWatcher ------------------------
(***************************************************************************)
(* Instance for TLC: a file that sets the verbosity and one where it is    *)
(* null, each of which may come, change, go and come back.                 *)
(***************************************************************************)
EXTENDS DynamicConfigWatcher

CONSTANTS c1, c2

MCContents == {c1, c2}
MCLevel == [c \in MCContents |-> IF c = c1 THEN 1 ELSE Null]
=============================================================================
