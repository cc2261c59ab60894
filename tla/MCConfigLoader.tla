---------------------------- MODULE MCConfigLoader ----------------------------
(***************************************************************************)
(* Files for TLC: a global configuration, the default files taskctl.yaml   *)
(* and tasks.yaml of a project, two files a and b, the directory conf with *)
(* b and c, and a remote file.  They may import each other in circles, may *)
(* be missing or not be readable.                                          *)
(***************************************************************************)
EXTENDS ConfigLoader

CONSTANTS taskctl, tasks, a, b, c, conf, remote

MCCandidates == <<taskctl, tasks>>

MCContent == conf :> <<b, c>>

MCLayouts ==
    {Global :> g @@ taskctl :> t @@ tasks :> <<c>> @@ a :> x @@ b :> y @@ c :> <<>> @@ remote :> <<a>>
        : g \in {<<>>, <<a>>},
          t \in {<<a, b>>, <<conf, a>>, <<a, conf>>, <<remote, b>>},
          x \in {<<b>>, <<b, c>>, <<c, b>>, <<remote>>},
          y \in {<<>>, <<taskctl>>, <<a>>}}

MCConditions ==
    {Global :> g @@ taskctl :> t @@ tasks :> s @@ a :> x @@ b :> y @@ c :> z
            @@ conf :> "fine" @@ remote :> r
        : g \in {"fine", "missing", "broken"},
          t \in {"fine", "missing"},
          s \in {"fine", "missing"},
          x \in {"fine", "broken", "clashing"},
          y \in {"fine", "missing"},
          z \in {"fine", "broken"},
          r \in {"fine", "broken"}}

MCDefiners ==
    {[context |-> {Global, b}, commands |-> {Global, a, c}],
     [context |-> {}, commands |-> {taskctl, a, b}],
     [context |-> {Global, a, c}, commands |-> {taskctl, b, remote}]}
MCUsers == {{taskctl, remote}}
=============================================================================
