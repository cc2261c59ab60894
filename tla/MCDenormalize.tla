---------------------------- MODULE MCDenormalize ----------------------------
(***************************************************************************)
(* Pipelines for TLC.  The stages of release are lint, test and full, in   *)
(* any order that depends_on can say, some of which may be missing:         *)
(*                                                                         *)
(*    lint    a task, or the pipeline wrapper                              *)
(*    test    the pipeline wrapper                                         *)
(*    full    the pipeline checks, or delivery                             *)
(*                                                                         *)
(*    checks      unit, all    tasks, all depends on unit                  *)
(*    wrapper     m: checks          only another name for checks          *)
(*    delivery    deploy: wrapper    only another name for wrapper         *)
(***************************************************************************)
EXTENDS Denormalize

CONSTANTS lint, test, full, unit, all, m, deploy, release, checks, wrapper, delivery

MCName == {lint, test, full}
MCPipeline == {checks, wrapper, delivery}

MCStagesIn == checks :> {unit, all} @@ wrapper :> {m} @@ delivery :> {deploy}

MCNeeds ==
    [id \in {<<checks, unit>>, <<checks, all>>, <<wrapper, m>>, <<delivery, deploy>>} |->
        IF id[2] = all THEN {unit} ELSE {}]

MCMayHold ==
       <<release, lint>> :> {NoPipeline, wrapper}
    @@ <<release, test>> :> {wrapper}
    @@ <<release, full>> :> {checks, delivery}
    @@ <<checks, unit>> :> {NoPipeline}
    @@ <<checks, all>> :> {NoPipeline}
    @@ <<wrapper, m>> :> {checks}
    @@ <<delivery, deploy>> :> {wrapper}

MCSetters ==
    {{<<release, lint>>},
     {<<release, test>>, <<checks, unit>>},
     {<<release, lint>>, <<release, full>>, <<wrapper, m>>}}

MCOwners == {{}, {<<release, lint>>, <<checks, all>>}}

\* full is called test-full.
MCStartsWith == {<<test, full>>}

\* One pipeline in another, the key set in both.
NestedPipeline == {checks}
NestedStagesIn == checks :> {unit, all}
NestedNeeds == [id \in {<<checks, unit>>, <<checks, all>>} |-> {}]
NestedMayHold == [id \in {<<release, test>>, <<checks, unit>>, <<checks, all>>} |->
                    IF id[2] = test THEN {checks} ELSE {NoPipeline}]
NestedSetters == {{<<release, test>>, <<checks, unit>>}}
=============================================================================
