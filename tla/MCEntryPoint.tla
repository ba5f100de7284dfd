----------------------------- MODULE MCEntryPoint -----------------------------
(***************************************************************************)
(* Instance for TLC: durations of 10 bits, two time units to a millisecond *)
(* and 8 buckets at most.  The environments set one variable, or a few     *)
(* that only matter together.                                              *)
(***************************************************************************)
EXTENDS EntryPoint

CONSTANTS unset, malformed, refused, tooBig, tooSmall

MCDynamic == -1
MCBrokerIds == 0 .. 1

MCDefault ==
  [maxAttempts |-> 1, backoffScale |-> 5, expectedClusterSize |-> MCDynamic,
   reconcileInterval |-> 30, connectionInterval |-> 120, watcherInterval |-> 30,
   statusInterval |-> 30, statusWindow |-> 120]

Texts == {"topicConfig", "labels", "buckets", "tracing", "kafkaVersion", "sasl",
          "tlsEnabled", "tlsCert", "configFile"}

NothingSet == [name \in DOMAIN MCDefault \cup Texts |-> unset]

\* A text for the one variable or the other, and for both.
Both(x, y) == {[NothingSet EXCEPT ![x[1]] = x[2], ![y[1]] = y[2]]}

MCEnvironments ==
  {NothingSet}
  \cup {[NothingSet EXCEPT ![name] = malformed] : name \in Texts \cup DOMAIN MCDefault}
  \cup {[NothingSet EXCEPT !.expectedClusterSize = size] : size \in 1 .. 2}
  \cup {[NothingSet EXCEPT !.statusWindow = window] : window \in {10, -60, tooBig}}
  \cup {[NothingSet EXCEPT !.backoffScale = text] : text \in {tooBig, tooSmall}}
  \cup Both(<<"tlsEnabled", TRUE>>, <<"tlsCert", malformed>>)
  \cup Both(<<"configFile", "file">>, <<"watcherInterval", tooBig>>)
  \cup Both(<<"configFile", "file">>, <<"watcherInterval", 30>>)
  \cup Both(<<"statusInterval", -1>>, <<"statusWindow", -5>>)
  \cup {[NothingSet EXCEPT ![name] = refused] : name \in {"labels", "kafkaVersion"}}
  \cup Both(<<"statusInterval", -1>>, <<"statusWindow", tooSmall>>)
  \cup Both(<<"statusInterval", -511>>, <<"statusWindow", -511>>)
  \cup Both(<<"connectionInterval", tooBig>>, <<"reconcileInterval", tooSmall>>)
  \cup Both(<<"maxAttempts", tooSmall>>, <<"backoffScale", 100>>)
  \cup Both(<<"maxAttempts", -1>>, <<"expectedClusterSize", 1>>)
=============================================================================
