------------------------------ MODULE MCPipeline ------------------------------
(***************************************************************************)
(* A pipeline for TLC:                                                     *)
(*                                                                         *)
(*    deploy:   lint --\                                                   *)
(*                      +--> build                                         *)
(*              test --/                                                   *)
(*                                                                         *)
(* where lint may fail, and build holds the pipeline                       *)
(*                                                                         *)
(*    image:    compile --> pack        (compile may fail, pack has a      *)
(*                                       condition)                        *)
(***************************************************************************)
EXTENDS Scheduler

CONSTANTS lint, test, build, compile, pack, deploy, image

MCStage == {lint, test, build, compile, pack}
MCGraph == {deploy, image}
MCGraphOf == [s \in MCStage |-> IF s \in {compile, pack} THEN image ELSE deploy]
MCSub == [s \in MCStage |-> IF s = build THEN image ELSE NoGraph]
MCDependsOn ==
    [s \in MCStage |->
        CASE s = build -> {lint, test}
          [] s = pack -> {compile}
          [] OTHER -> {}]
MCAllowFailure == {lint, compile}
MCHasCondition == {pack}

-----------------------------------------------------------------------------
\* README.md:285 "This stage will be started only after referenced stage is
\* completed": no stage runs while one of its dependencies is waiting or
\* running.
AllDependenciesFirst ==
    \A s \in Stage : status[s] = "running" =>
        \A p \in DependsOn[s] : status[p] \notin {"waiting", "running"}
=============================================================================
