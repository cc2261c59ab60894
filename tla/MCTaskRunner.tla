----------------------------- MODULE MCTaskRunner -----------------------------
(***************************************************************************)
(* Four tasks for TLC: prepare and build share the execution context       *)
(* docker, notify has the default context and no command at all, and       *)
(* misspelt names a context that does not exist.                           *)
(* build has a condition, before commands and an artifact, may fail and    *)
(* comes in two variations; prepare has after commands.                    *)
(***************************************************************************)
EXTENDS TaskRunner

CONSTANTS prepare, build, notify, misspelt, docker

MCTask == {prepare, build, notify, misspelt}
MCContextOf ==
    [t \in MCTask |-> CASE t = notify -> Default
                       [] t = misspelt -> Unknown
                       [] OTHER -> docker]
MCJobs == [[t \in MCTask |-> 1] EXCEPT ![build] = 2, ![notify] = 0]
=============================================================================
