---------------------------- MODULE ConfigLoader ----------------------------
(***************************************************************************)
(* internal/config/loader.go and config.go: the global configuration and   *)
(* the requested one, or the default one that is found first, are loaded   *)
(* with all they import, merged and built.                                 *)
(*                                                                         *)
(* Of what a file defines, one task is modelled, which the pipelines of    *)
(* other files use: its context, which stands for the fields that have one *)
(* value, and its commands, which stand for the lists.  A configuration    *)
(* says whose context and whose commands the task has, and which files     *)
(* were merged in which order.  The file system does not change meanwhile. *)
(***************************************************************************)
EXTENDS Naturals, SequencesExt

CONSTANTS
    File,           \* local files
    Url,            \* remote ones
    Dir,            \* directories
    Global,         \* ~/.taskctl/config.yaml
    Candidates,     \* the default files, as they are probed
    MayRequest,     \* the files that may be requested instead
    Content,        \* what the glob finds in a directory
    Layouts,        \* what the files may import: a list for each of them
    Conditions,     \* the conditions files, URLs and directories may be in
    Definers,       \* for either field of the task, the files that may give it
    Users,          \* sets of files that may use it in a pipeline
    Unset           \* nobody gives the context

Source == File \cup Url
Entry == Source \cup Dir

ASSUME FileAssumption ==
    /\ Global \in File
    /\ Dir \cap Source = {}
    /\ Candidates \in Seq(Source)
    /\ MayRequest \subseteq Source
    /\ Content \in [Dir -> Seq(File)]
    /\ Layouts \subseteq [Source -> Seq(Entry)]
    /\ Conditions \subseteq [Entry -> {"fine", "missing", "broken", "clashing"}]
    /\ Definers \subseteq [{"context", "commands"} -> SUBSET Source]
    /\ Users \subseteq SUBSET Source
    /\ Unset \notin Source

VARIABLES
    imports,        \* the import list of every file
    is,             \* the condition it is in
    defines,        \* for either field of the task, the files that give it
    uses,           \* the files that use it
    phase,          \* of Load: "start", "global", "resolve", "local", "ok", "error"
    loaded,         \* Loader.imports
    stack,          \* the calls of load and loadDir
    answer,         \* what the last one returned, until it is taken
    logged,         \* the imports whose failure was logged
    found,          \* the raw configurations, "global" and "local"
    task            \* the task of the Config: whose context and whose commands it has

fileVars == <<imports, is, defines, uses>>
vars == <<fileVars, phase, loaded, stack, answer, logged, found, task>>

Nothing == [context |-> Unset, commands |-> <<>>, files |-> <<>>]
Pending == [failed |-> FALSE, config |-> Nothing, pending |-> TRUE]
Answer(config) == [failed |-> FALSE, config |-> config, pending |-> FALSE]
Failure == [failed |-> TRUE, config |-> Nothing, pending |-> FALSE]

Init ==
    /\ imports \in Layouts
    /\ is \in Conditions
    /\ defines \in Definers
    /\ uses \in Users
    /\ phase = "start"
    /\ loaded = {}
    /\ stack = <<>>
    /\ answer = Pending
    /\ logged = {}
    /\ found = [source \in {"global", "local"} |-> Nothing]
    /\ task = [context |-> Unset, commands |-> <<>>]

\* [mutant] without WithAppendSlice, a list that is imported replaces the other.
MergeReplacing(config, raw) ==
    [context |-> IF raw.context = Unset THEN config.context ELSE raw.context,
     commands |-> IF raw.commands = <<>> THEN config.commands ELSE raw.commands,
     files |-> config.files \o raw.files]

\* mergo.Merge with WithOverride and WithAppendSlice: field by field, what is
\* imported overrides a value and is appended to a list.
Merge(config, raw) ==
    [context |-> IF raw.context = Unset THEN config.context ELSE raw.context,
     commands |-> config.commands \o raw.commands,
     files |-> config.files \o raw.files]

(***************************************************************************)
(* load and loadDir: calls, and the loop over imports in each.             *)
(***************************************************************************)
Call(e, config, list) == [of |-> e, config |-> config, todo |-> list]

Raw(f) ==
    [context |-> IF f \in defines["context"] THEN f ELSE Unset,
     commands |-> IF f \in defines["commands"] THEN <<f>> ELSE <<>>,
     files |-> <<f>>]

Readable(f) == is[f] \in {"fine", "clashing"}

\* [mutant] a file that is loaded is not marked.
MarkLater(f) == loaded' = loaded

Mark(f) == loaded' = loaded \cup {f}

\* The call of load: the file is marked, then read.
Enter(f) ==
    /\ Mark(f)
    /\ IF Readable(f)
       THEN stack' = <<Call(f, Raw(f), imports[f])>> \o stack /\ answer' = answer
       ELSE answer' = Failure /\ stack' = stack

Running == stack # <<>> /\ ~answer.pending
Top == Head(stack)
Import == Head(Top.todo)

\* The loop goes on with the next import, and with what was merged so far.
GoOn(config) == stack' = <<[Top EXCEPT !.config = config, !.todo = Tail(@)]>> \o Tail(stack)

Leave(result) == stack' = Tail(stack) /\ answer' = result

Looping == stack # <<>> /\ answer.pending /\ Top.todo # <<>>

Skip ==
    /\ Looping
    /\ Import \in loaded
    /\ GoOn(Top.config)
    /\ UNCHANGED <<fileVars, phase, loaded, answer, logged, found, task>>

\* A path is taken to be relative to the file that imports it, and there is
\* none relative to a URL.
Missing == Import \notin Url /\ (is[Import] = "missing" \/ Top.of \in Url)

StatFails ==
    /\ Looping
    /\ Import \notin loaded
    /\ Top.of \in Source
    /\ Missing
    /\ Leave(Failure)
    /\ UNCHANGED <<fileVars, phase, loaded, logged, found, task>>

LoadImport ==
    /\ Looping
    /\ Import \in Source \ loaded
    /\ Top.of \in Source => ~Missing
    /\ Enter(Import)
    /\ UNCHANGED <<fileVars, phase, logged, found, task>>

LoadDir ==
    /\ Looping
    /\ Import \in Dir
    /\ ~Missing
    /\ stack' = <<Call(Import, Nothing, Content[Import])>> \o stack
    /\ UNCHANGED <<fileVars, phase, loaded, answer, logged, found, task>>

Return ==
    /\ stack # <<>>
    /\ answer.pending
    /\ Top.todo = <<>>
    /\ Leave(Answer(Top.config))
    /\ UNCHANGED <<fileVars, phase, loaded, logged, found, task>>

MergeImport ==
    /\ Running
    /\ ~answer.failed
    /\ is[Import] # "clashing"
    /\ GoOn(Merge(Top.config, answer.config))
    /\ answer' = Pending
    /\ UNCHANGED <<fileVars, phase, loaded, logged, found, task>>

\* [mutant] the failure of a local import is not told.
LogNothing(e) == logged' = logged

Log(e) == logged' = logged \cup {e}

\* The error of a local import is shadowed: it is logged and nothing merged.
LogFailure ==
    /\ Running
    /\ answer.failed
    /\ Top.of \in Source
    /\ Import \notin Url
    /\ Log(Import)
    /\ GoOn(Top.config)
    /\ answer' = Pending
    /\ UNCHANGED <<fileVars, phase, loaded, found, task>>

\* A URL that fails, or what is merged having another type, fails the import,
\* and so does any file of a directory.
PassFailure ==
    /\ Running
    /\ IF answer.failed THEN Import \in Url \/ Top.of \in Dir
                        ELSE is[Import] = "clashing"
    /\ Leave(Failure)
    /\ UNCHANGED <<fileVars, phase, loaded, logged, found, task>>

(***************************************************************************)
(* Load.                                                                   *)
(***************************************************************************)
LoadGlobalConfig ==
    /\ phase = "start"
    /\ IF is[Global] = "missing"
       THEN phase' = "resolve" /\ UNCHANGED <<loaded, stack, answer>>
       ELSE phase' = "global" /\ Enter(Global)
    /\ UNCHANGED <<fileVars, logged, found, task>>

\* buildFromDefinition: the pipelines of a configuration are built from the
\* tasks of the same one.
Builds(config) ==
    ToSet(config.files) \cap uses # {} => config.context # Unset \/ config.commands # <<>>

\* The first candidate there is, if any.
ResolveDefaultConfigFile ==
    LET there == {i \in DOMAIN Candidates : is[Candidates[i]] # "missing"}
    IN  {Candidates[i] : i \in {i \in there : \A j \in there : i <= j}}

LoadLocal ==
    /\ phase = "resolve"
    /\ \/ \E file \in MayRequest \cup ResolveDefaultConfigFile :
             phase' = "local" /\ Enter(file)
       \/ /\ ResolveDefaultConfigFile = {}
          /\ phase' = "error"
          /\ UNCHANGED <<loaded, stack, answer>>
    /\ UNCHANGED <<fileVars, logged, found, task>>

\* Config.merge: mergo.Merge without options fills what is empty, field by
\* field, and leaves a list alone that is not.
Keep(old, new) ==
    [context |-> IF old.context = Unset THEN new.context ELSE old.context,
     commands |-> IF old.commands = <<>> THEN new.commands ELSE old.commands]

Done ==
    /\ stack = <<>>
    /\ ~answer.pending
    /\ answer' = Pending
    /\ IF answer.failed \/ ~Builds(answer.config)
       THEN phase' = "error" /\ UNCHANGED <<found, task>>
       ELSE /\ phase' = IF phase = "global" THEN "resolve" ELSE "ok"
            /\ found' = [found EXCEPT ![phase] = answer.config]
            /\ task' = Keep(task, answer.config)
    /\ UNCHANGED <<fileVars, loaded, stack, logged>>

Ended == phase \in {"ok", "error"} /\ UNCHANGED vars

Next ==
    \/ LoadGlobalConfig \/ LoadLocal \/ Done
    \/ Skip \/ StatFails \/ LoadImport \/ LoadDir \/ Return
    \/ MergeImport \/ LogFailure \/ PassFailure
    \/ Ended

Spec == Init /\ [][Next]_vars

-----------------------------------------------------------------------------
\* The recursion ends, although files import each other in circles, themselves
\* through a directory or through a URL: nobody is loaded while being loaded.
CirclesAreCut ==
    \A i, j \in DOMAIN stack : stack[i].of = stack[j].of /\ stack[i].of \in Source => i = j

Files == found["global"].files \o found["local"].files

\* The files an import stands for, and what lies below an import, whoever else
\* imports it.
Behind(e) == IF e \in Dir THEN ToSet(Content[e]) ELSE {e}

\* Nothing that is imported from S lies outside.
Closed(S) == \A f \in S : \A e \in ToSet(imports[f]) : Behind(e) \subseteq S

Below(e) == {f \in Source : \A S \in SUBSET Source : Behind(e) \subseteq S /\ Closed(S) => f \in S}

\* README.md:106 "Config file may import other config files, directories or
\* URLs": when Load answers with a configuration, everything a file in it
\* imports is in it too, unless the failure of an import was logged behind
\* which it lies: a file that was read for that import is lost for the others.
NothingLostSilently ==
    phase = "ok" =>
        \A f \in ToSet(Files) : \A e \in ToSet(imports[f]) : \A g \in Behind(e) :
            \/ g \in ToSet(Files)
            \/ e \in logged
            \/ \E failed \in logged : g \in Below(failed)

\* The context is that of the last file which gives one.
Wins(giver, files) ==
    \/ giver = Unset /\ \A i \in DOMAIN files : files[i] \notin defines["context"]
    \/ \E i \in DOMAIN files :
          /\ giver = files[i] /\ files[i] \in defines["context"]
          /\ \A j \in DOMAIN files : j > i => files[j] \notin defines["context"]

\* The commands are those of every file which gives some, once each and in the
\* order of the files.
AllInOrder(commands, files) ==
    /\ ToSet(commands) = ToSet(files) \cap defines["commands"]
    /\ IsInjective(commands)
    /\ \A i, j \in DOMAIN commands : \A p, q \in DOMAIN files :
          commands[i] = files[p] /\ commands[j] = files[q] /\ i < j => p < q

\* When Load answers with a configuration, no file was merged twice into the
\* global or the local one, however often it is imported, and its task is merged
\* field by field: the context is that of the last file merged which gives one,
\* an imported file over the one that imports it, the commands are those of all
\* of them, not of one, and no command is doubled.  Of either field the global
\* configuration has the say, if it gives one, which is not what loader.go:103
\* says: "Overwrite globally loaded config with locally set config file".
TaskIsMergedByField ==
    phase = "ok" =>
        /\ \A source \in DOMAIN found : IsInjective(found[source].files)
        /\ LET from(field) == IF ToSet(found["global"].files) \cap defines[field] # {}
                              THEN found["global"].files
                              ELSE found["local"].files
           IN  /\ Wins(task.context, from("context"))
               /\ AllInOrder(task.commands, from("commands"))

-----------------------------------------------------------------------------
(***************************************************************************)
(* The inductive invariant of the proofs in ConfigLoaderProofs.            *)
(***************************************************************************)
Config == [context : Source \cup {Unset}, commands : Seq(Source), files : Seq(Source)]

LoaderTypeOK ==
    /\ imports \in [Source -> Seq(Entry)]
    /\ defines \in [{"context", "commands"} -> SUBSET Source]
    /\ phase \in {"start", "global", "resolve", "local", "ok", "error"}
    /\ loaded \subseteq Source
    /\ stack \in Seq([of : Entry, config : Config, todo : Seq(Entry)])
    /\ answer \in [failed : BOOLEAN, config : Config, pending : BOOLEAN]
    /\ found \in [{"global", "local"} -> Config]
    /\ task \in [context : Source \cup {Unset}, commands : Seq(Source)]

\* Nothing is loaded before and after the two calls of Load.
CallsWithinLoad ==
    phase \notin {"global", "local"} => stack = <<>> /\ answer.pending

\* An answer is taken by the call that waits for it at its next import.
AnswerIsAwaited ==
    /\ answer.pending => answer = Pending
    /\ ~answer.pending => \A i \in DOMAIN stack : stack[i].todo # <<>>
    /\ \A i \in DOMAIN stack : i > 1 => stack[i].todo # <<>>

LoadingIsMarked == \A i \in DOMAIN stack : stack[i].of \in Source => stack[i].of \in loaded

\* A configuration as it is merged: of marked files, each once, and its task
\* merged of what they give.
WellMerged(config) ==
    /\ ToSet(config.files) \subseteq loaded
    /\ IsInjective(config.files)
    /\ Wins(config.context, config.files)
    /\ AllInOrder(config.commands, config.files)

MergedRight ==
    /\ WellMerged(answer.config)
    /\ \A i \in DOMAIN stack : WellMerged(stack[i].config)
    /\ \A source \in DOMAIN found : WellMerged(found[source])

\* No file is part of two configurations that are still to be merged.
Apart(config, other) == ToSet(config.files) \cap ToSet(other.files) = {}

PartsAreApart ==
    \A i \in DOMAIN stack :
        /\ Apart(stack[i].config, answer.config)
        /\ \A j \in DOMAIN stack : i # j => Apart(stack[i].config, stack[j].config)

\* What Load has found so far, and what of it the task kept.
KeptIsFirst ==
    /\ phase \in {"start", "global"} => found["global"] = Nothing
    /\ phase \in {"start", "global", "resolve", "local"} => found["local"] = Nothing
    /\ task = Keep(found["global"], found["local"])

LoaderInv ==
    /\ LoaderTypeOK /\ CallsWithinLoad /\ AnswerIsAwaited
    /\ LoadingIsMarked /\ CirclesAreCut
    /\ MergedRight /\ PartsAreApart /\ KeptIsFirst

\* What a call of load or loadDir goes through, and the calls nest by it.
ListOf(e) == IF e \in Dir THEN Content[e] ELSE imports[e]

CallsNest ==
    /\ \A i \in DOMAIN stack : ToSet(stack[i].todo) \subseteq ToSet(ListOf(stack[i].of))
    /\ \A i \in DOMAIN stack : i > 1 => Head(stack[i].todo) = stack[i - 1].of

\* A configuration has nothing but what lies below the file it is of.
FilesLieBelow ==
    /\ \A i \in DOMAIN stack : ToSet(stack[i].config.files) \subseteq Below(stack[i].of)
    /\ Running => ToSet(answer.config.files) \subseteq Below(Import)

\* An import that was gone through has been loaded, or its failure logged.
Settled(e) == Behind(e) \subseteq loaded \/ e \in logged

ImportsSettled(config) == \A f \in ToSet(config.files) : \A e \in ToSet(imports[f]) : Settled(e)

ImportsAreSettled ==
    /\ ImportsSettled(answer.config)
    /\ \A source \in DOMAIN found : ImportsSettled(found[source])
    /\ \A i \in DOMAIN stack : \A f \in ToSet(stack[i].config.files) : \A e \in ToSet(imports[f]) :
          Settled(e) \/ (f = stack[i].of /\ e \in ToSet(stack[i].todo))

DirectoriesAreLoaded ==
    /\ \A i \in DOMAIN stack :
          stack[i].of \in Dir => Behind(stack[i].of) \subseteq loaded \cup ToSet(stack[i].todo)
    /\ Running /\ ~answer.failed => Behind(Import) \subseteq loaded

\* What was loaded is part of a configuration, or lies behind a failure.
Kept ==
    ToSet(answer.config.files)
        \cup (UNION {ToSet(stack[i].config.files) : i \in DOMAIN stack})
        \cup (UNION {ToSet(found[source].files) : source \in DOMAIN found})

LostIsLogged ==
    phase # "error" =>
        \A g \in loaded \ Kept :
            \/ \E failed \in logged : g \in Below(failed)
            \/ answer.failed /\ (stack # <<>> => g \in Below(Import))

LossInv ==
    /\ CallsNest /\ FilesLieBelow /\ ImportsAreSettled
    /\ DirectoriesAreLoaded /\ LostIsLogged
=============================================================================
