---------------------------- MODULE MCPipelineRun ----------------------------
(***************************************************************************)
(* Pipelines for TLC:                                                      *)
(*                                                                         *)
(*    release:  fetch --> build        build holds the pipeline image      *)
(*    image:    compile                                                    *)
(*                                                                         *)
(* where fetch and compile use the execution context docker, and           *)
(*                                                                         *)
(*    release:  fetch, compile         side by side                        *)
(*                                                                         *)
(* with tasks in the default context, which has no hooks.                  *)
(***************************************************************************)
EXTENDS PipelineRun

CONSTANTS fetch, build, compile, release, image, docker

ReleaseStage == {fetch, build, compile}
ReleaseGraphOf == [s \in ReleaseStage |-> IF s = compile THEN image ELSE release]
ReleaseSub == [s \in ReleaseStage |-> IF s = build THEN image ELSE NoGraph]
ReleaseDependsOn == [s \in ReleaseStage |-> IF s = build THEN {fetch} ELSE {}]
ReleaseContextOf == [s \in {fetch, compile} |-> docker]
ReleaseJobs == [s \in {fetch, compile} |-> 1]

FlatStage == {fetch, compile}
FlatGraphOf == [s \in FlatStage |-> release]
FlatSub == [s \in FlatStage |-> NoGraph]
FlatDependsOn == [s \in FlatStage |-> {}]
FlatContextOf == [s \in FlatStage |-> Default]
FlatJobs == [s \in FlatStage |-> 1]
=============================================================================
