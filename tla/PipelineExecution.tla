-------------------------- MODULE PipelineExecution --------------------------
(***************************************************************************)
(* What running a pipeline amounts to, without the loop, the goroutines    *)
(* and the statuses: stages start behind a finished dependency, end once,  *)
(* a nested pipeline is over before the stage that holds it, and a call on *)
(* a graph answers with what was recorded in it.  This is the promise      *)
(* scheduler/scheduler.go does keep; Scheduler is shown to implement it.   *)
(***************************************************************************)
EXTENDS FiniteSets

CONSTANTS Stage, Graph, Top, NoGraph, GraphOf, Sub, Parents(_), Root,
          AllowFailure, HasCondition

VARIABLES
    phase,      \* of a stage: pending, active, done, skipped, failed, canceled
    call,       \* of a graph: uncalled, open, ok, failed
    failures,   \* the stages of a graph whose run failed, tolerated ones too
    stopped     \* the execution has been canceled

vars == <<phase, call, failures, stopped>>

StagesOf(g) == {s \in Stage : GraphOf[s] = g}

Init ==
    /\ phase = [s \in Stage |-> "pending"]
    /\ call = [g \in Graph |-> IF g = Top THEN "open" ELSE "uncalled"]
    /\ failures = [g \in Graph |-> {}]
    /\ stopped = FALSE

Over(p) == p = Root \/ phase[p] \in {"done", "skipped"}

Start(s) ==
    /\ call[GraphOf[s]] = "open"
    /\ phase[s] = "pending"
    /\ \E p \in Parents(s) : Over(p)
    /\ phase' = [phase EXCEPT ![s] = "active"]
    /\ UNCHANGED <<call, failures, stopped>>

Skip(s) ==
    /\ call[GraphOf[s]] = "open"
    /\ phase[s] = "pending"
    /\ s \in HasCondition
    /\ phase' = [phase EXCEPT ![s] = "skipped"]
    /\ UNCHANGED <<call, failures, stopped>>

\* A condition that cannot be evaluated fails its stage.
FailUnstarted(s) ==
    /\ call[GraphOf[s]] = "open"
    /\ phase[s] = "pending"
    /\ s \in HasCondition
    /\ phase' = [phase EXCEPT ![s] = "failed"]
    /\ UNCHANGED <<call, failures, stopped>>

GiveUp(s) ==
    /\ call[GraphOf[s]] = "open"
    /\ phase[s] = "pending"
    /\ \E p \in Parents(s) \ {Root} :
          \/ phase[p] = "failed" /\ p \notin AllowFailure
          \/ phase[p] = "canceled"
    /\ phase' = [phase EXCEPT ![s] = "canceled"]
    /\ UNCHANGED <<call, failures, stopped>>

CallNested(s) ==
    /\ phase[s] = "active"
    /\ Sub[s] # NoGraph
    /\ call[Sub[s]] = "uncalled"
    /\ call' = [call EXCEPT ![Sub[s]] = "open"]
    /\ UNCHANGED <<phase, failures, stopped>>

Succeed(s) ==
    /\ phase[s] = "active"
    /\ s \notin failures[GraphOf[s]]
    /\ Sub[s] # NoGraph => call[Sub[s]] = "ok"
    /\ phase' = [phase EXCEPT ![s] = "done"]
    /\ UNCHANGED <<call, failures, stopped>>

Fail(s) ==
    /\ phase[s] = "active"
    /\ s \notin failures[GraphOf[s]]
    /\ Sub[s] # NoGraph => call[Sub[s]] = "failed"
    /\ failures' = [failures EXCEPT ![GraphOf[s]] = @ \cup {s}]
    /\ phase' = IF s \in AllowFailure THEN phase
                                      ELSE [phase EXCEPT ![s] = "failed"]
    /\ UNCHANGED <<call, stopped>>

Tolerate(s) ==
    /\ phase[s] = "active"
    /\ s \in failures[GraphOf[s]]
    /\ phase' = [phase EXCEPT ![s] = "done"]
    /\ UNCHANGED <<call, failures, stopped>>

Stop ==
    /\ stopped' = TRUE
    /\ UNCHANGED <<phase, call, failures>>

Answer(g) ==
    /\ call[g] = "open"
    /\ \A s \in StagesOf(g) : phase[s] # "active"
    /\ stopped \/ \A s \in StagesOf(g) : phase[s] # "pending"
    /\ call' = [call EXCEPT ![g] = IF failures[g] = {} THEN "ok" ELSE "failed"]
    /\ UNCHANGED <<phase, failures, stopped>>

Next ==
    \/ \E s \in Stage :
          \/ Start(s) \/ Skip(s) \/ FailUnstarted(s) \/ GiveUp(s)
          \/ CallNested(s) \/ Succeed(s) \/ Fail(s) \/ Tolerate(s)
    \/ \E g \in Graph : Answer(g)
    \/ Stop

Spec == Init /\ [][Next]_vars
=============================================================================
