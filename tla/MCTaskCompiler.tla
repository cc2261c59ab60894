--------------------------- MODULE MCTaskCompiler ---------------------------
(***************************************************************************)
(* Tasks for TLC:                                                          *)
(*                                                                         *)
(*    version --> image --> push --> scan                                  *)
(*                               \--> sign                                 *)
(*                                                                         *)
(* version runs in the default context and stores an artifact, the others  *)
(* run in the container context docker, where scan and sign may overlap.   *)
(* image and version come in two variations, version with reset_context.   *)
(* docker calls secret label and token secret, and holds secret back.      *)
(***************************************************************************)
EXTENDS TaskCompiler

CONSTANTS version, image, push, scan, sign, docker, tag, label, secret, token, taskName

MCTask == {version, image, push, scan, sign}
MCContextOf == [t \in MCTask |-> IF t = version THEN Default ELSE docker]
MCNeeds ==
    [t \in MCTask |-> CASE t = version -> {}
                        [] t = image -> {version}
                        [] t = push -> {version, image}
                        [] OTHER -> {version, image, push}]
MCKey == {tag, label, secret, token, taskName}
MCSetBy ==
    [l \in Layers |-> [o \in MCTask \cup {docker, Default} |->
        CASE l = "artifact" /\ o = version -> {tag, secret}
          [] l = "args" -> {secret}
          [] l = "context" /\ o = docker -> {secret, token}
          [] l = "contextfile" /\ o = docker -> {tag}
          [] l = "taskctl" -> {secret}
          [] l = "taskfile" /\ o = scan -> {tag, label}
          [] l = "task" /\ o = push -> {tag}
          [] l = "task" /\ o = version -> {secret}
          [] l = "variation" /\ o \in {image, version} -> {tag}
          [] OTHER -> {}]]
MCVariations == [t \in MCTask |-> IF t \in {version, image} THEN 2 ELSE 0]
MCModify == [c \in {docker} |-> [k \in MCKey |->
        CASE k = secret -> label [] k = token -> secret [] OTHER -> k]]
MCInclude == [c \in {docker} |-> {}]
MCExclude == [c \in {docker} |-> {secret}]
=============================================================================
