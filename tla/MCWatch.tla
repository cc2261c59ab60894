------------------------------- MODULE MCWatch -------------------------------
(***************************************************************************)
(* For TLC: a watcher docs with three events, one of them of a kind it     *)
(* does not watch; and two watchers, docs and code, the second of which    *)
(* owns the event built.                                                   *)
(***************************************************************************)
EXTENDS Watch

CONSTANTS docs, code, saved, touched, built

OneWatcherOf == [e \in {saved, touched, built} |-> docs]
TwoWatcherOf == [OneWatcherOf EXCEPT ![built] = code]
=============================================================================
