--------------------------- MODULE TaskRunnerProofs ---------------------------
(***************************************************************************)
(* The safety properties of TaskRunner, proved for any number of tasks,    *)
(* contexts and cancelers, and for tasks of every kind.                    *)
(***************************************************************************)
EXTENDS TaskRunner, FiniteSetTheorems, TLAPS

(***************************************************************************)
(* The conjuncts of Inv that speak of the tasks and of their contexts.     *)
(***************************************************************************)
LocalInv ==
    /\ TypeOK
    /\ PurposeFitsPlace
    /\ RegisteredInContext
    /\ OneBringsUp
    /\ EnteredIsUp
    /\ ContextIsUp
    /\ CleanupKnowsContext
    /\ DownBehindAll
    /\ FieldsFitPlace
    /\ SuccessIsGenuine

\* Each step of Run keeps the local conjuncts.
LEMMA RunStepKeepsLocalInv ==
    ASSUME Inv, NEW t \in Task, RunStep(t)
    PROVE  LocalInv'
<1> USE TaskAssumption
    DEF Inv, InContext, Entering, Started, Unexecuted, Leaving, Executed, At,
        Goto, taskVars, ctxVars, cancelVars
<1>1. ASSUME UseDefaultContext(t) PROVE LocalInv'
  <2>1. TypeOK'
    BY <1>1 DEF TypeOK, Places, Purposes, UseDefaultContext, Continuation
  <2>2. PurposeFitsPlace' /\ FieldsFitPlace'
    BY <1>1 DEF TypeOK, PurposeFitsPlace, FieldsFitPlace, EnteredIsUp, Places,
       Purposes, UseDefaultContext, Continuation
  <2>3. RegisteredInContext' /\ CleanupKnowsContext' /\ DownBehindAll'
    BY <1>1 DEF TypeOK, RegisteredInContext, CleanupKnowsContext,
       DownBehindAll, Uses, Places, Purposes, UseDefaultContext, Continuation
  <2>4. OneBringsUp' /\ EnteredIsUp' /\ ContextIsUp'
    BY <1>1 DEF TypeOK, OneBringsUp, EnteredIsUp, ContextIsUp,
       RegisteredInContext, PurposeFitsPlace, Uses, Places, Purposes,
       UseDefaultContext, Continuation
  <2>5. SuccessIsGenuine'
    BY <1>1 DEF TypeOK, SuccessIsGenuine, FieldsFitPlace, PurposeFitsPlace,
       Places, Purposes, UseDefaultContext, Continuation
  <2> QED BY <2>1, <2>2, <2>3, <2>4, <2>5 DEF LocalInv
<1>2. ASSUME NoSuchContext(t) PROVE LocalInv'
  <2>1. TypeOK'
    BY <1>2 DEF TypeOK, Places, Purposes, NoSuchContext, Leave
  <2>2. PurposeFitsPlace' /\ FieldsFitPlace'
    BY <1>2 DEF TypeOK, PurposeFitsPlace, FieldsFitPlace, EnteredIsUp,
       NoSuchContext, Leave
  <2>3. RegisteredInContext' /\ CleanupKnowsContext' /\ DownBehindAll'
    BY <1>2 DEF TypeOK, RegisteredInContext, CleanupKnowsContext,
       DownBehindAll, Uses, NoSuchContext, Leave
  <2>4. OneBringsUp' /\ EnteredIsUp' /\ ContextIsUp'
    BY <1>2 DEF TypeOK, OneBringsUp, EnteredIsUp, ContextIsUp,
       RegisteredInContext, PurposeFitsPlace, Uses, NoSuchContext, Leave
  <2>5. SuccessIsGenuine'
    BY <1>2 DEF TypeOK, SuccessIsGenuine, FieldsFitPlace, PurposeFitsPlace,
       NoSuchContext, Leave
  <2> QED BY <2>1, <2>2, <2>3, <2>4, <2>5 DEF LocalInv
<1>3. ASSUME FindContext(t) PROVE LocalInv'
  <2>1. TypeOK'
    BY <1>3 DEF TypeOK, Places, Purposes, FindContext, Register
  <2>2. PurposeFitsPlace' /\ FieldsFitPlace'
    BY <1>3 DEF TypeOK, PurposeFitsPlace, FieldsFitPlace, EnteredIsUp,
       FindContext, Register
  <2>3. RegisteredInContext' /\ CleanupKnowsContext' /\ DownBehindAll'
    BY <1>3 DEF TypeOK, RegisteredInContext, CleanupKnowsContext,
       DownBehindAll, Uses, FindContext, Register
  <2>4. OneBringsUp' /\ EnteredIsUp' /\ ContextIsUp'
    BY <1>3 DEF TypeOK, OneBringsUp, EnteredIsUp, ContextIsUp,
       RegisteredInContext, PurposeFitsPlace, Uses, FindContext, Register
  <2>5. SuccessIsGenuine'
    BY <1>3 DEF TypeOK, SuccessIsGenuine, FieldsFitPlace, PurposeFitsPlace,
       FindContext, Register
  <2> QED BY <2>1, <2>2, <2>3, <2>4, <2>5 DEF LocalInv
<1>4. ASSUME BeginUp(t) PROVE LocalInv'
  <2>1. TypeOK'
    BY <1>4 DEF TypeOK, Places, Purposes, BeginUp
  <2>2. PurposeFitsPlace' /\ FieldsFitPlace'
    BY <1>4 DEF TypeOK, PurposeFitsPlace, FieldsFitPlace, EnteredIsUp, BeginUp
  <2>3. RegisteredInContext' /\ CleanupKnowsContext' /\ DownBehindAll'
    BY <1>4 DEF TypeOK, RegisteredInContext, CleanupKnowsContext,
       DownBehindAll, Uses, BeginUp
  <2>4. OneBringsUp' /\ EnteredIsUp' /\ ContextIsUp'
    BY <1>4 DEF TypeOK, OneBringsUp, EnteredIsUp, ContextIsUp,
       RegisteredInContext, PurposeFitsPlace, Uses, BeginUp
  <2>5. SuccessIsGenuine'
    BY <1>4 DEF TypeOK, SuccessIsGenuine, FieldsFitPlace, PurposeFitsPlace,
       BeginUp
  <2> QED BY <2>1, <2>2, <2>3, <2>4, <2>5 DEF LocalInv
<1>5. ASSUME UpSucceeds(t) PROVE LocalInv'
  <2>1. TypeOK'
    BY <1>5 DEF TypeOK, Places, Purposes, UpSucceeds
  <2>2. PurposeFitsPlace' /\ FieldsFitPlace'
    BY <1>5 DEF TypeOK, PurposeFitsPlace, FieldsFitPlace, EnteredIsUp,
       UpSucceeds
  <2>3. RegisteredInContext' /\ CleanupKnowsContext' /\ DownBehindAll'
    BY <1>5 DEF TypeOK, RegisteredInContext, CleanupKnowsContext,
       DownBehindAll, Uses, UpSucceeds
  <2>4. OneBringsUp' /\ EnteredIsUp' /\ ContextIsUp'
    BY <1>5 DEF TypeOK, OneBringsUp, EnteredIsUp, ContextIsUp,
       RegisteredInContext, PurposeFitsPlace, Uses, UpSucceeds
  <2>5. SuccessIsGenuine'
    BY <1>5 DEF TypeOK, SuccessIsGenuine, FieldsFitPlace, PurposeFitsPlace,
       UpSucceeds
  <2> QED BY <2>1, <2>2, <2>3, <2>4, <2>5 DEF LocalInv
<1>6. ASSUME UpFails(t) PROVE LocalInv'
  <2>1. TypeOK'
    BY <1>6 DEF TypeOK, Places, Purposes, UpFails, MarkFailed, Leave
  <2>2. PurposeFitsPlace' /\ FieldsFitPlace'
    BY <1>6 DEF TypeOK, PurposeFitsPlace, FieldsFitPlace, EnteredIsUp,
       UpFails, MarkFailed, Leave
  <2>3. RegisteredInContext' /\ CleanupKnowsContext' /\ DownBehindAll'
    BY <1>6 DEF TypeOK, RegisteredInContext, CleanupKnowsContext,
       DownBehindAll, Uses, UpFails, MarkFailed, Leave
  <2>4. OneBringsUp' /\ EnteredIsUp' /\ ContextIsUp'
    BY <1>6 DEF TypeOK, OneBringsUp, EnteredIsUp, ContextIsUp,
       RegisteredInContext, PurposeFitsPlace, Uses, UpFails, MarkFailed, Leave
  <2>5. SuccessIsGenuine'
    BY <1>6 DEF TypeOK, SuccessIsGenuine, FieldsFitPlace, PurposeFitsPlace,
       UpFails, MarkFailed, Leave
  <2> QED BY <2>1, <2>2, <2>3, <2>4, <2>5 DEF LocalInv
<1>7. ASSUME FindUp(t) PROVE LocalInv'
  <2>1. TypeOK'
    BY <1>7 DEF TypeOK, Places, Purposes, FindUp, UpDone
  <2>2. PurposeFitsPlace' /\ FieldsFitPlace'
    BY <1>7 DEF TypeOK, PurposeFitsPlace, FieldsFitPlace, EnteredIsUp, FindUp,
       UpDone
  <2>3. RegisteredInContext' /\ CleanupKnowsContext' /\ DownBehindAll'
    BY <1>7 DEF TypeOK, RegisteredInContext, CleanupKnowsContext,
       DownBehindAll, Uses, FindUp, UpDone
  <2>4. OneBringsUp' /\ EnteredIsUp' /\ ContextIsUp'
    BY <1>7 DEF TypeOK, OneBringsUp, EnteredIsUp, ContextIsUp,
       RegisteredInContext, PurposeFitsPlace, Uses, FindUp, UpDone
  <2>5. SuccessIsGenuine'
    BY <1>7 DEF TypeOK, SuccessIsGenuine, FieldsFitPlace, PurposeFitsPlace,
       FindUp, UpDone
  <2> QED BY <2>1, <2>2, <2>3, <2>4, <2>5 DEF LocalInv
<1>8. ASSUME FindFailed(t) PROVE LocalInv'
  <2>1. TypeOK'
    BY <1>8 DEF TypeOK, Places, Purposes, FindFailed, Leave
  <2>2. PurposeFitsPlace' /\ FieldsFitPlace'
    BY <1>8 DEF TypeOK, PurposeFitsPlace, FieldsFitPlace, EnteredIsUp,
       FindFailed, Leave
  <2>3. RegisteredInContext' /\ CleanupKnowsContext' /\ DownBehindAll'
    BY <1>8 DEF TypeOK, RegisteredInContext, CleanupKnowsContext,
       DownBehindAll, Uses, FindFailed, Leave
  <2>4. OneBringsUp' /\ EnteredIsUp' /\ ContextIsUp'
    BY <1>8 DEF TypeOK, OneBringsUp, EnteredIsUp, ContextIsUp,
       RegisteredInContext, PurposeFitsPlace, Uses, FindFailed, Leave
  <2>5. SuccessIsGenuine'
    BY <1>8 DEF TypeOK, SuccessIsGenuine, FieldsFitPlace, PurposeFitsPlace,
       FindFailed, Leave
  <2> QED BY <2>1, <2>2, <2>3, <2>4, <2>5 DEF LocalInv
<1>9. ASSUME BeforeHookSucceeds(t) PROVE LocalInv'
  <2>1. TypeOK'
    BY <1>9 DEF TypeOK, Places, Purposes, BeforeHookSucceeds, Continuation
  <2>2. PurposeFitsPlace' /\ FieldsFitPlace'
    BY <1>9 DEF TypeOK, PurposeFitsPlace, FieldsFitPlace, EnteredIsUp, Places,
       Purposes, BeforeHookSucceeds, Continuation
  <2>3. RegisteredInContext' /\ CleanupKnowsContext' /\ DownBehindAll'
    BY <1>9 DEF TypeOK, RegisteredInContext, CleanupKnowsContext,
       DownBehindAll, Uses, Places, Purposes, BeforeHookSucceeds, Continuation
  <2>4. OneBringsUp' /\ EnteredIsUp' /\ ContextIsUp'
    BY <1>9 DEF TypeOK, OneBringsUp, EnteredIsUp, ContextIsUp,
       RegisteredInContext, PurposeFitsPlace, Uses, Places, Purposes,
       BeforeHookSucceeds, Continuation
  <2>5. SuccessIsGenuine'
    BY <1>9 DEF TypeOK, SuccessIsGenuine, FieldsFitPlace, PurposeFitsPlace,
       Places, Purposes, BeforeHookSucceeds, Continuation
  <2> QED BY <2>1, <2>2, <2>3, <2>4, <2>5 DEF LocalInv
<1>10. ASSUME BeforeHookFails(t) PROVE LocalInv'
  <2>1. TypeOK'
    BY <1>10 DEF TypeOK, Places, Purposes, BeforeHookFails, Leave
  <2>2. PurposeFitsPlace' /\ FieldsFitPlace'
    BY <1>10 DEF TypeOK, PurposeFitsPlace, FieldsFitPlace, EnteredIsUp,
       BeforeHookFails, Leave
  <2>3. RegisteredInContext' /\ CleanupKnowsContext' /\ DownBehindAll'
    BY <1>10 DEF TypeOK, RegisteredInContext, CleanupKnowsContext,
       DownBehindAll, Uses, BeforeHookFails, Leave
  <2>4. OneBringsUp' /\ EnteredIsUp' /\ ContextIsUp'
    BY <1>10 DEF TypeOK, OneBringsUp, EnteredIsUp, ContextIsUp,
       RegisteredInContext, PurposeFitsPlace, Uses, BeforeHookFails, Leave
  <2>5. SuccessIsGenuine'
    BY <1>10 DEF TypeOK, SuccessIsGenuine, FieldsFitPlace, PurposeFitsPlace,
       BeforeHookFails, Leave
  <2> QED BY <2>1, <2>2, <2>3, <2>4, <2>5 DEF LocalInv
<1>11. ASSUME BuildEnv(t) PROVE LocalInv'
  <2>1. TypeOK'
    BY <1>11 DEF TypeOK, Places, Purposes, BuildEnv, GoOn, CallContext
  <2>2. PurposeFitsPlace' /\ FieldsFitPlace'
    BY <1>11 DEF TypeOK, PurposeFitsPlace, FieldsFitPlace, EnteredIsUp,
       BuildEnv, GoOn, CallContext
  <2>3. RegisteredInContext' /\ CleanupKnowsContext' /\ DownBehindAll'
    BY <1>11 DEF TypeOK, RegisteredInContext, CleanupKnowsContext,
       DownBehindAll, Uses, BuildEnv, GoOn, CallContext
  <2>4. OneBringsUp' /\ EnteredIsUp' /\ ContextIsUp'
    BY <1>11 DEF TypeOK, OneBringsUp, EnteredIsUp, ContextIsUp,
       RegisteredInContext, PurposeFitsPlace, Uses, BuildEnv, GoOn,
       CallContext
  <2>5. SuccessIsGenuine'
    BY <1>11 DEF TypeOK, SuccessIsGenuine, FieldsFitPlace, PurposeFitsPlace,
       BuildEnv, GoOn, CallContext
  <2> QED BY <2>1, <2>2, <2>3, <2>4, <2>5 DEF LocalInv
<1>12. ASSUME OutputUnknown(t) PROVE LocalInv'
  <2>1. TypeOK'
    BY <1>12 DEF TypeOK, Places, Purposes, OutputUnknown
  <2>2. PurposeFitsPlace' /\ FieldsFitPlace'
    BY <1>12 DEF TypeOK, PurposeFitsPlace, FieldsFitPlace, EnteredIsUp,
       OutputUnknown
  <2>3. RegisteredInContext' /\ CleanupKnowsContext' /\ DownBehindAll'
    BY <1>12 DEF TypeOK, RegisteredInContext, CleanupKnowsContext,
       DownBehindAll, Uses, OutputUnknown
  <2>4. OneBringsUp' /\ EnteredIsUp' /\ ContextIsUp'
    BY <1>12 DEF TypeOK, OneBringsUp, EnteredIsUp, ContextIsUp,
       RegisteredInContext, PurposeFitsPlace, Uses, OutputUnknown
  <2>5. SuccessIsGenuine'
    BY <1>12 DEF TypeOK, SuccessIsGenuine, FieldsFitPlace, PurposeFitsPlace,
       OutputUnknown
  <2> QED BY <2>1, <2>2, <2>3, <2>4, <2>5 DEF LocalInv
<1>13. ASSUME EnvFileFails(t) PROVE LocalInv'
  <2>1. TypeOK'
    BY <1>13 DEF TypeOK, Places, Purposes, EnvFileFails
  <2>2. PurposeFitsPlace' /\ FieldsFitPlace'
    BY <1>13 DEF TypeOK, PurposeFitsPlace, FieldsFitPlace, EnteredIsUp,
       EnvFileFails
  <2>3. RegisteredInContext' /\ CleanupKnowsContext' /\ DownBehindAll'
    BY <1>13 DEF TypeOK, RegisteredInContext, CleanupKnowsContext,
       DownBehindAll, Uses, EnvFileFails
  <2>4. OneBringsUp' /\ EnteredIsUp' /\ ContextIsUp'
    BY <1>13 DEF TypeOK, OneBringsUp, EnteredIsUp, ContextIsUp,
       RegisteredInContext, PurposeFitsPlace, Uses, EnvFileFails
  <2>5. SuccessIsGenuine'
    BY <1>13 DEF TypeOK, SuccessIsGenuine, FieldsFitPlace, PurposeFitsPlace,
       EnvFileFails
  <2> QED BY <2>1, <2>2, <2>3, <2>4, <2>5 DEF LocalInv
<1>14. ASSUME ConditionMet(t) PROVE LocalInv'
  <2>1. TypeOK'
    BY <1>14 DEF TypeOK, Places, Purposes, ConditionMet, GoOn, CallContext
  <2>2. PurposeFitsPlace' /\ FieldsFitPlace'
    BY <1>14 DEF TypeOK, PurposeFitsPlace, FieldsFitPlace, EnteredIsUp,
       ConditionMet, GoOn, CallContext
  <2>3. RegisteredInContext' /\ CleanupKnowsContext' /\ DownBehindAll'
    BY <1>14 DEF TypeOK, RegisteredInContext, CleanupKnowsContext,
       DownBehindAll, Uses, ConditionMet, GoOn, CallContext
  <2>4. OneBringsUp' /\ EnteredIsUp' /\ ContextIsUp'
    BY <1>14 DEF TypeOK, OneBringsUp, EnteredIsUp, ContextIsUp,
       RegisteredInContext, PurposeFitsPlace, Uses, ConditionMet, GoOn,
       CallContext
  <2>5. SuccessIsGenuine'
    BY <1>14 DEF TypeOK, SuccessIsGenuine, FieldsFitPlace, PurposeFitsPlace,
       ConditionMet, GoOn, CallContext
  <2> QED BY <2>1, <2>2, <2>3, <2>4, <2>5 DEF LocalInv
<1>15. ASSUME ConditionNotMet(t) PROVE LocalInv'
  <2>1. TypeOK'
    BY <1>15 DEF TypeOK, Places, Purposes, ConditionNotMet, Leave
  <2>2. PurposeFitsPlace' /\ FieldsFitPlace'
    BY <1>15 DEF TypeOK, PurposeFitsPlace, FieldsFitPlace, EnteredIsUp,
       ConditionNotMet, Leave
  <2>3. RegisteredInContext' /\ CleanupKnowsContext' /\ DownBehindAll'
    BY <1>15 DEF TypeOK, RegisteredInContext, CleanupKnowsContext,
       DownBehindAll, Uses, ConditionNotMet, Leave
  <2>4. OneBringsUp' /\ EnteredIsUp' /\ ContextIsUp'
    BY <1>15 DEF TypeOK, OneBringsUp, EnteredIsUp, ContextIsUp,
       RegisteredInContext, PurposeFitsPlace, Uses, ConditionNotMet, Leave
  <2>5. SuccessIsGenuine'
    BY <1>15 DEF TypeOK, SuccessIsGenuine, FieldsFitPlace, PurposeFitsPlace,
       ConditionNotMet, Leave
  <2> QED BY <2>1, <2>2, <2>3, <2>4, <2>5 DEF LocalInv
<1>16. ASSUME FailUnmarked(t) PROVE LocalInv'
  <2>1. TypeOK'
    BY <1>16 DEF TypeOK, Places, Purposes, FailUnmarked, Leave
  <2>2. PurposeFitsPlace' /\ FieldsFitPlace'
    BY <1>16 DEF TypeOK, PurposeFitsPlace, FieldsFitPlace, EnteredIsUp,
       FailUnmarked, Leave
  <2>3. RegisteredInContext' /\ CleanupKnowsContext' /\ DownBehindAll'
    BY <1>16 DEF TypeOK, RegisteredInContext, CleanupKnowsContext,
       DownBehindAll, Uses, FailUnmarked, Leave
  <2>4. OneBringsUp' /\ EnteredIsUp' /\ ContextIsUp'
    BY <1>16 DEF TypeOK, OneBringsUp, EnteredIsUp, ContextIsUp,
       RegisteredInContext, PurposeFitsPlace, Uses, FailUnmarked, Leave
  <2>5. SuccessIsGenuine'
    BY <1>16 DEF TypeOK, SuccessIsGenuine, FieldsFitPlace, PurposeFitsPlace,
       FailUnmarked, Leave
  <2> QED BY <2>1, <2>2, <2>3, <2>4, <2>5 DEF LocalInv
<1>17. ASSUME BeginExecute(t) PROVE LocalInv'
  <2>1. TypeOK'
    BY <1>17 DEF TypeOK, Places, Purposes, BeginExecute
  <2>2. PurposeFitsPlace' /\ FieldsFitPlace'
    BY <1>17 DEF TypeOK, PurposeFitsPlace, FieldsFitPlace, EnteredIsUp,
       BeginExecute
  <2>3. RegisteredInContext' /\ CleanupKnowsContext' /\ DownBehindAll'
    BY <1>17 DEF TypeOK, RegisteredInContext, CleanupKnowsContext,
       DownBehindAll, Uses, BeginExecute
  <2>4. OneBringsUp' /\ EnteredIsUp' /\ ContextIsUp'
    BY <1>17 DEF TypeOK, OneBringsUp, EnteredIsUp, ContextIsUp,
       RegisteredInContext, PurposeFitsPlace, Uses, BeginExecute
  <2>5. SuccessIsGenuine'
    BY <1>17 DEF TypeOK, SuccessIsGenuine, FieldsFitPlace, PurposeFitsPlace,
       BeginExecute
  <2> QED BY <2>1, <2>2, <2>3, <2>4, <2>5 DEF LocalInv
<1>18. ASSUME BeginJob(t) PROVE LocalInv'
  <2>1. TypeOK'
    BY <1>18 DEF TypeOK, Places, Purposes, BeginJob, MoreJobs
  <2>2. PurposeFitsPlace' /\ FieldsFitPlace'
    BY <1>18 DEF TypeOK, PurposeFitsPlace, FieldsFitPlace, EnteredIsUp,
       BeginJob, MoreJobs
  <2>3. RegisteredInContext' /\ CleanupKnowsContext' /\ DownBehindAll'
    BY <1>18 DEF TypeOK, RegisteredInContext, CleanupKnowsContext,
       DownBehindAll, Uses, BeginJob, MoreJobs
  <2>4. OneBringsUp' /\ EnteredIsUp' /\ ContextIsUp'
    BY <1>18 DEF TypeOK, OneBringsUp, EnteredIsUp, ContextIsUp,
       RegisteredInContext, PurposeFitsPlace, Uses, BeginJob, MoreJobs
  <2>5. SuccessIsGenuine'
    BY <1>18 DEF TypeOK, SuccessIsGenuine, FieldsFitPlace, PurposeFitsPlace,
       BeginJob, MoreJobs
  <2> QED BY <2>1, <2>2, <2>3, <2>4, <2>5 DEF LocalInv
<1>19. ASSUME JobSucceeds(t) PROVE LocalInv'
  <2>1. TypeOK'
    BY <1>19 DEF TypeOK, Places, Purposes, FieldsFitPlace, JobSucceeds
  <2>2. PurposeFitsPlace' /\ FieldsFitPlace'
    BY <1>19 DEF TypeOK, PurposeFitsPlace, FieldsFitPlace, EnteredIsUp,
       JobSucceeds
  <2>3. RegisteredInContext' /\ CleanupKnowsContext' /\ DownBehindAll'
    BY <1>19 DEF TypeOK, RegisteredInContext, CleanupKnowsContext,
       DownBehindAll, Uses, JobSucceeds
  <2>4. OneBringsUp' /\ EnteredIsUp' /\ ContextIsUp'
    BY <1>19 DEF TypeOK, OneBringsUp, EnteredIsUp, ContextIsUp,
       RegisteredInContext, PurposeFitsPlace, Uses, JobSucceeds
  <2>5. SuccessIsGenuine'
    BY <1>19 DEF TypeOK, SuccessIsGenuine, FieldsFitPlace, PurposeFitsPlace,
       JobSucceeds
  <2> QED BY <2>1, <2>2, <2>3, <2>4, <2>5 DEF LocalInv
<1>20. ASSUME JobExits(t) PROVE LocalInv'
  <2>1. TypeOK'
    BY <1>20 DEF TypeOK, Places, Purposes, FieldsFitPlace, JobExits,
       Continues, Leave
  <2>2. PurposeFitsPlace' /\ FieldsFitPlace'
    BY <1>20 DEF TypeOK, PurposeFitsPlace, FieldsFitPlace, EnteredIsUp,
       JobExits, Continues, Leave
  <2>3. RegisteredInContext' /\ CleanupKnowsContext' /\ DownBehindAll'
    BY <1>20 DEF TypeOK, RegisteredInContext, CleanupKnowsContext,
       DownBehindAll, Uses, JobExits, Continues, Leave
  <2>4. OneBringsUp' /\ EnteredIsUp' /\ ContextIsUp'
    BY <1>20 DEF TypeOK, OneBringsUp, EnteredIsUp, ContextIsUp,
       RegisteredInContext, PurposeFitsPlace, Uses, JobExits, Continues, Leave
  <2>5. SuccessIsGenuine'
    BY <1>20 DEF TypeOK, SuccessIsGenuine, FieldsFitPlace, PurposeFitsPlace,
       JobExits, Continues, Leave
  <2> QED BY <2>1, <2>2, <2>3, <2>4, <2>5 DEF LocalInv
<1>21. ASSUME JobAborts(t) PROVE LocalInv'
  <2>1. TypeOK'
    BY <1>21 DEF TypeOK, Places, Purposes, JobAborts, MoreJobs, Leave
  <2>2. PurposeFitsPlace' /\ FieldsFitPlace'
    BY <1>21 DEF TypeOK, PurposeFitsPlace, FieldsFitPlace, EnteredIsUp,
       JobAborts, MoreJobs, Leave
  <2>3. RegisteredInContext' /\ CleanupKnowsContext' /\ DownBehindAll'
    BY <1>21 DEF TypeOK, RegisteredInContext, CleanupKnowsContext,
       DownBehindAll, Uses, JobAborts, MoreJobs, Leave
  <2>4. OneBringsUp' /\ EnteredIsUp' /\ ContextIsUp'
    BY <1>21 DEF TypeOK, OneBringsUp, EnteredIsUp, ContextIsUp,
       RegisteredInContext, PurposeFitsPlace, Uses, JobAborts, MoreJobs, Leave
  <2>5. SuccessIsGenuine'
    BY <1>21 DEF TypeOK, SuccessIsGenuine, FieldsFitPlace, PurposeFitsPlace,
       JobAborts, MoreJobs, Leave
  <2> QED BY <2>1, <2>2, <2>3, <2>4, <2>5 DEF LocalInv
<1>22. ASSUME EndExecute(t) PROVE LocalInv'
  <2>1. TypeOK'
    BY <1>22 DEF TypeOK, Places, Purposes, EndExecute, MoreJobs
  <2>2. PurposeFitsPlace' /\ FieldsFitPlace'
    BY <1>22 DEF TypeOK, PurposeFitsPlace, FieldsFitPlace, EnteredIsUp,
       EndExecute, MoreJobs
  <2>3. RegisteredInContext' /\ CleanupKnowsContext' /\ DownBehindAll'
    BY <1>22 DEF TypeOK, RegisteredInContext, CleanupKnowsContext,
       DownBehindAll, Uses, EndExecute, MoreJobs
  <2>4. OneBringsUp' /\ EnteredIsUp' /\ ContextIsUp'
    BY <1>22 DEF TypeOK, OneBringsUp, EnteredIsUp, ContextIsUp,
       RegisteredInContext, PurposeFitsPlace, Uses, EndExecute, MoreJobs
  <2>5. SuccessIsGenuine'
    BY <1>22 DEF TypeOK, SuccessIsGenuine, FieldsFitPlace, PurposeFitsPlace,
       EndExecute, MoreJobs
  <2> QED BY <2>1, <2>2, <2>3, <2>4, <2>5 DEF LocalInv
<1>23. ASSUME StoreOutput(t) PROVE LocalInv'
  <2>1. TypeOK'
    BY <1>23 DEF TypeOK, Places, Purposes, StoreOutput, Finally, CallContext,
       Leave
  <2>2. PurposeFitsPlace' /\ FieldsFitPlace'
    BY <1>23 DEF TypeOK, PurposeFitsPlace, FieldsFitPlace, EnteredIsUp,
       StoreOutput, Finally, CallContext, Leave
  <2>3. RegisteredInContext' /\ CleanupKnowsContext' /\ DownBehindAll'
    BY <1>23 DEF TypeOK, RegisteredInContext, CleanupKnowsContext,
       DownBehindAll, Uses, StoreOutput, Finally, CallContext, Leave
  <2>4. OneBringsUp' /\ EnteredIsUp' /\ ContextIsUp'
    BY <1>23 DEF TypeOK, OneBringsUp, EnteredIsUp, ContextIsUp,
       RegisteredInContext, PurposeFitsPlace, Uses, StoreOutput, Finally,
       CallContext, Leave
  <2>5. SuccessIsGenuine'
    BY <1>23 DEF TypeOK, SuccessIsGenuine, FieldsFitPlace, PurposeFitsPlace,
       StoreOutput, Finally, CallContext, Leave
  <2> QED BY <2>1, <2>2, <2>3, <2>4, <2>5 DEF LocalInv
<1>24. ASSUME StoreFails(t) PROVE LocalInv'
  <2>1. TypeOK'
    BY <1>24 DEF TypeOK, Places, Purposes, StoreFails, Leave
  <2>2. PurposeFitsPlace' /\ FieldsFitPlace'
    BY <1>24 DEF TypeOK, PurposeFitsPlace, FieldsFitPlace, EnteredIsUp,
       StoreFails, Leave
  <2>3. RegisteredInContext' /\ CleanupKnowsContext' /\ DownBehindAll'
    BY <1>24 DEF TypeOK, RegisteredInContext, CleanupKnowsContext,
       DownBehindAll, Uses, StoreFails, Leave
  <2>4. OneBringsUp' /\ EnteredIsUp' /\ ContextIsUp'
    BY <1>24 DEF TypeOK, OneBringsUp, EnteredIsUp, ContextIsUp,
       RegisteredInContext, PurposeFitsPlace, Uses, StoreFails, Leave
  <2>5. SuccessIsGenuine'
    BY <1>24 DEF TypeOK, SuccessIsGenuine, FieldsFitPlace, PurposeFitsPlace,
       StoreFails, Leave
  <2> QED BY <2>1, <2>2, <2>3, <2>4, <2>5 DEF LocalInv
<1>25. ASSUME AfterCommands(t) PROVE LocalInv'
  <2>1. TypeOK'
    BY <1>25 DEF TypeOK, Places, Purposes, AfterCommands, Leave
  <2>2. PurposeFitsPlace' /\ FieldsFitPlace'
    BY <1>25 DEF TypeOK, PurposeFitsPlace, FieldsFitPlace, EnteredIsUp,
       AfterCommands, Leave
  <2>3. RegisteredInContext' /\ CleanupKnowsContext' /\ DownBehindAll'
    BY <1>25 DEF TypeOK, RegisteredInContext, CleanupKnowsContext,
       DownBehindAll, Uses, AfterCommands, Leave
  <2>4. OneBringsUp' /\ EnteredIsUp' /\ ContextIsUp'
    BY <1>25 DEF TypeOK, OneBringsUp, EnteredIsUp, ContextIsUp,
       RegisteredInContext, PurposeFitsPlace, Uses, AfterCommands, Leave
  <2>5. SuccessIsGenuine'
    BY <1>25 DEF TypeOK, SuccessIsGenuine, FieldsFitPlace, PurposeFitsPlace,
       AfterCommands, Leave
  <2> QED BY <2>1, <2>2, <2>3, <2>4, <2>5 DEF LocalInv
<1>26. ASSUME AfterHook(t) PROVE LocalInv'
  <2>1. TypeOK'
    BY <1>26 DEF TypeOK, Places, Purposes, AfterHook, CallsAfter,
       CountsAsSuccess
  <2>2. PurposeFitsPlace' /\ FieldsFitPlace'
    BY <1>26 DEF TypeOK, PurposeFitsPlace, FieldsFitPlace, EnteredIsUp,
       AfterHook, CallsAfter, CountsAsSuccess
  <2>3. RegisteredInContext' /\ CleanupKnowsContext' /\ DownBehindAll'
    BY <1>26 DEF TypeOK, RegisteredInContext, CleanupKnowsContext,
       DownBehindAll, Uses, AfterHook, CallsAfter, CountsAsSuccess
  <2>4. OneBringsUp' /\ EnteredIsUp' /\ ContextIsUp'
    BY <1>26 DEF TypeOK, OneBringsUp, EnteredIsUp, ContextIsUp,
       RegisteredInContext, PurposeFitsPlace, Uses, AfterHook, CallsAfter,
       CountsAsSuccess
  <2>5. SuccessIsGenuine'
    BY <1>26 DEF TypeOK, SuccessIsGenuine, FieldsFitPlace, PurposeFitsPlace,
       AfterHook, CallsAfter, CountsAsSuccess
  <2> QED BY <2>1, <2>2, <2>3, <2>4, <2>5 DEF LocalInv
<1>27. ASSUME Return(t) PROVE LocalInv'
  <2>1. TypeOK'
    BY <1>27 DEF TypeOK, Places, Purposes, Return, CloseDone, MustClose
  <2>2. PurposeFitsPlace' /\ FieldsFitPlace'
    BY <1>27 DEF TypeOK, PurposeFitsPlace, FieldsFitPlace, EnteredIsUp,
       Return, CloseDone, MustClose
  <2>3. RegisteredInContext' /\ CleanupKnowsContext' /\ DownBehindAll'
    BY <1>27 DEF TypeOK, RegisteredInContext, CleanupKnowsContext,
       DownBehindAll, Uses, Return, CloseDone, MustClose
  <2>4. OneBringsUp' /\ EnteredIsUp' /\ ContextIsUp'
    BY <1>27 DEF TypeOK, OneBringsUp, EnteredIsUp, ContextIsUp,
       RegisteredInContext, PurposeFitsPlace, Uses, Return, CloseDone,
       MustClose
  <2>5. SuccessIsGenuine'
    BY <1>27 DEF TypeOK, SuccessIsGenuine, FieldsFitPlace, PurposeFitsPlace,
       Return, CloseDone, MustClose
  <2> QED BY <2>1, <2>2, <2>3, <2>4, <2>5 DEF LocalInv
<1> QED
  BY <1>1, <1>2, <1>3, <1>4, <1>5, <1>6, <1>7, <1>8, <1>9, <1>10, <1>11,
     <1>12, <1>13, <1>14, <1>15, <1>16, <1>17, <1>18, <1>19, <1>20, <1>21,
     <1>22, <1>23, <1>24, <1>25, <1>26, <1>27 DEF RunStep

\* Every step keeps the local conjuncts.
LEMMA NextKeepsLocalInv ==
    ASSUME Inv, Next
    PROVE  LocalInv'
<1> USE TaskAssumption
    DEF Inv, InContext, Entering, Started, Unexecuted, Leaving, Executed, At,
        Goto, taskVars, ctxVars, cancelVars
<1>1. ASSUME NEW t \in Task, Run(t) PROVE LocalInv'
  <2>1. TypeOK'
    BY <1>1 DEF TypeOK, Places, Purposes, Run, CallContext
  <2>2. PurposeFitsPlace' /\ FieldsFitPlace'
    BY <1>1 DEF TypeOK, PurposeFitsPlace, FieldsFitPlace, Run, CallContext
  <2>3. RegisteredInContext' /\ CleanupKnowsContext' /\ DownBehindAll'
    BY <1>1 DEF TypeOK, RegisteredInContext, CleanupKnowsContext,
       DownBehindAll, Uses, Run, CallContext
  <2>4. OneBringsUp' /\ EnteredIsUp' /\ ContextIsUp'
    BY <1>1 DEF TypeOK, OneBringsUp, EnteredIsUp, ContextIsUp, Uses, Run,
       CallContext
  <2>5. SuccessIsGenuine'
    BY <1>1 DEF TypeOK, SuccessIsGenuine, Run, CallContext
  <2> QED BY <2>1, <2>2, <2>3, <2>4, <2>5 DEF LocalInv
<1>2. CASE Finish
  BY <1>2 DEF Finish, DownAll, LocalInv, TypeOK, PurposeFitsPlace,
     RegisteredInContext, OneBringsUp, EnteredIsUp, ContextIsUp,
     CleanupKnowsContext, DownBehindAll, FieldsFitPlace, SuccessIsGenuine, Uses
<1>3. ASSUME \/ \E k \in Canceler : Cancel(k) \/ CancelReturns(k)
             \/ ParentDone
             \/ Ended
      PROVE  LocalInv'
  <2>1. TypeOK'
    BY <1>3 DEF TypeOK, Cancel, CancelReturns, ParentDone, Ended, vars
  <2>2. UNCHANGED <<pc, purpose, taskVars, env, ctxVars>>
    BY <1>3 DEF Cancel, CancelReturns, ParentDone, Ended, vars
  <2>3. PurposeFitsPlace' /\ FieldsFitPlace'
    BY <2>2 DEF PurposeFitsPlace, FieldsFitPlace
  <2>4. RegisteredInContext' /\ CleanupKnowsContext' /\ DownBehindAll'
    BY <2>2 DEF RegisteredInContext, CleanupKnowsContext, DownBehindAll, Uses
  <2>5. OneBringsUp' /\ EnteredIsUp' /\ ContextIsUp'
    BY <2>2 DEF OneBringsUp, EnteredIsUp, ContextIsUp, Uses
  <2>6. SuccessIsGenuine'
    BY <2>2 DEF SuccessIsGenuine
  <2> QED BY <2>1, <2>3, <2>4, <2>5, <2>6 DEF LocalInv
<1> QED BY <1>1, <1>2, <1>3, RunStepKeepsLocalInv DEF Next

(***************************************************************************)
(* The conjuncts that speak of the Runs that have returned.                *)
(***************************************************************************)
Returned == {t \in Task : pc[t] = "returned"}

\* A Run that returns does so in Return, which adds it to those that have, and
\* nothing else closes doneCh.
LEMMA OnlyReturnReturns ==
    ASSUME Inv, Next, \A t \in Task : ~Return(t)
    PROVE  Returned' = Returned /\ doneClosed' = doneClosed
<1> USE DEF At, Goto, CallContext, Leave, taskVars, ctxVars, cancelVars
<1>1. ASSUME NEW t \in Task, Run(t) \/ RunStep(t)
      PROVE  /\ doneClosed' = doneClosed
             /\ pc[t] # "returned"
             /\ \E place : place # "returned" /\ Goto(t, place)
  BY <1>1 DEF Inv, TypeOK, Purposes, Run, RunStep, UseDefaultContext,
     NoSuchContext, FindContext, BeginUp, UpSucceeds, UpFails, FindUp,
     FindFailed, BeforeHookSucceeds, BeforeHookFails, Continuation, BuildEnv,
     GoOn, OutputUnknown, EnvFileFails, ConditionMet, ConditionNotMet,
     FailUnmarked, BeginExecute, BeginJob, JobSucceeds, JobExits, JobAborts,
     EndExecute, StoreOutput, Finally, StoreFails, AfterCommands, AfterHook
<1>2. ASSUME NEW t \in Task, Run(t) \/ RunStep(t)
      PROVE  Returned' = Returned /\ doneClosed' = doneClosed
  BY <1>1, <1>2 DEF Inv, TypeOK, Returned
<1> QED BY <1>2 DEF Next, Cancel, CancelReturns, ParentDone, Finish, DownAll,
           Ended, vars, Returned

\* Two elements of a finite set are two to Cardinality.
LEMMA TwoElements ==
    ASSUME NEW S, IsFiniteSet(S), NEW a \in S, NEW b \in S, a # b
    PROVE  Cardinality(S) > 1
<1>1. IsFiniteSet({a}) /\ Cardinality({a}) = 1
  BY FS_Singleton
<1>2. IsFiniteSet({a} \cup {b})
  BY <1>1, FS_AddElement
<1>3. Cardinality({a} \cup {b}) = 2
  <2>1. Cardinality({a} \cup {b}) = Cardinality({a}) + 1
    <3>1. b \notin {a}
      OBVIOUS
    <3> QED BY <1>1, <3>1, FS_AddElement
  <2> QED BY <1>1, <2>1
<1>4. Cardinality({a} \cup {b}) <= Cardinality(S)
  BY <1>2, FS_Subset
<1>5. Cardinality(S) \in Nat
  BY FS_CardinalityType
<1> QED BY <1>3, <1>4, <1>5

\* The Run that closes doneCh a second time is not the one that did before.
LEMMA ReturnKeepsReturnedInv ==
    ASSUME Inv, NEW t \in Task, Return(t)
    PROVE  ClosedByReturned' /\ PanicsOnlyAfterCancel'
<1> USE DEF Inv, TypeOK, Return, At, Goto, taskVars, ctxVars
<1>1. Returned' = Returned \cup {t} /\ t \notin Returned
  BY DEF Returned
<1>2. IsFiniteSet(Returned')
  <2>1. IsFiniteSet(Returned)
    BY DEF ClosedByReturned, Returned
  <2> QED BY <1>1, <2>1, FS_AddElement
<1>3. doneClosed' => canceling' /\ t \in Returned'
  BY <1>1 DEF ClosedByReturned, CloseDone, MustClose
<1>4. ASSUME crashed' PROVE canceling' /\ Cardinality(Returned') > 1
  <2>1. canceling /\ canceling' /\ doneClosed
    BY <1>4 DEF CloseDone, MustClose
  <2>2. PICK u \in Returned : TRUE
    BY <2>1 DEF ClosedByReturned, Returned
  <2>3. t \in Returned' /\ u \in Returned' /\ t # u
    BY <1>1, <2>2
  <2> QED BY <1>2, <2>1, <2>3, TwoElements
<1>5. Returned' = {u \in Task : pc'[u] = "returned"}
  BY DEF Returned
<1>6. ClosedByReturned'
  BY <1>2, <1>3, <1>5 DEF ClosedByReturned
<1>7. PanicsOnlyAfterCancel'
  BY <1>4, <1>5 DEF PanicsOnlyAfterCancel
<1> QED BY <1>6, <1>7

\* Every step keeps the two conjuncts.
LEMMA NextKeepsReturnedInv ==
    ASSUME Inv, Next
    PROVE  ClosedByReturned' /\ PanicsOnlyAfterCancel'
<1>0. canceling => canceling'
  <2>1. ASSUME NEW t \in Task, Run(t) \/ RunStep(t) PROVE canceling' = canceling
    BY <2>1 DEF cancelVars, Run, RunStep, UseDefaultContext,
       NoSuchContext, FindContext, BeginUp, UpSucceeds, UpFails, FindUp,
       FindFailed, BeforeHookSucceeds, BeforeHookFails, BuildEnv,
       OutputUnknown, EnvFileFails, ConditionMet, ConditionNotMet,
       FailUnmarked, BeginExecute, BeginJob, JobSucceeds, JobExits, JobAborts,
       EndExecute, StoreOutput, StoreFails, AfterCommands, AfterHook, Return
  <2> QED BY <2>1 DEF Next, Cancel, CancelReturns, ParentDone, Finish, DownAll,
             Ended, vars, cancelVars
<1>1. CASE \E t \in Task : Return(t)
  BY <1>1, ReturnKeepsReturnedInv
<1>2. CASE \A t \in Task : ~Return(t)
  <2> USE <1>2
      DEF Inv, TypeOK, At, Goto, CallContext, Leave, taskVars, ctxVars, cancelVars
  <2>1. Returned' = Returned /\ doneClosed' = doneClosed
    BY OnlyReturnReturns
  <2>3. \/ \E t \in Task : BeginExecute(t)
        \/ ~crashed'
        \/ crashed /\ UNCHANGED vars
    BY DEF Next, Run, RunStep, UseDefaultContext, NoSuchContext, FindContext,
       BeginUp, UpSucceeds, UpFails, FindUp, FindFailed, BeforeHookSucceeds,
       BeforeHookFails, BuildEnv, OutputUnknown, EnvFileFails, ConditionMet,
       ConditionNotMet, FailUnmarked, BeginJob, JobSucceeds, JobExits,
       JobAborts, EndExecute, StoreOutput, StoreFails, AfterCommands,
       AfterHook, Cancel, CancelReturns, ParentDone, Finish, DownAll, Ended, vars
  <2>4. ClosedByReturned'
    BY <1>0, <2>1 DEF ClosedByReturned, Returned
  <2>5. PanicsOnlyAfterCancel'
    <3>1. CASE \E t \in Task : BeginExecute(t)
      BY <3>1 DEF BeginExecute, PanicsOnlyAfterCancel, FieldsFitPlace, Unexecuted
    <3>2. CASE crashed /\ UNCHANGED vars
      BY <3>2 DEF PanicsOnlyAfterCancel, vars
    <3> QED BY <2>3, <3>1, <3>2 DEF PanicsOnlyAfterCancel
  <2> QED BY <2>4, <2>5
<1> QED BY <1>1, <1>2

(***************************************************************************)
(* The invariant, and what follows from it.                                *)
(***************************************************************************)
\* The invariant holds initially.
LEMMA InitHasInv == Init => Inv
<1> SUFFICES ASSUME Init PROVE Inv
  OBVIOUS
<1> USE TaskAssumption
    DEF Init, InContext, Entering, Started, Unexecuted, Leaving, Executed
<1>1. TypeOK
  BY DEF TypeOK, Places, Purposes
<1>2. PurposeFitsPlace /\ RegisteredInContext /\ OneBringsUp /\ EnteredIsUp
  BY DEF PurposeFitsPlace, RegisteredInContext, OneBringsUp, EnteredIsUp
<1>3. ContextIsUp /\ CleanupKnowsContext /\ DownBehindAll
  BY DEF ContextIsUp, CleanupKnowsContext, DownBehindAll
<1>4. FieldsFitPlace /\ SuccessIsGenuine
  BY DEF FieldsFitPlace, SuccessIsGenuine
<1>5. ClosedByReturned /\ PanicsOnlyAfterCancel
  <2>1. {t \in Task : pc[t] = "returned"} = {}
    OBVIOUS
  <2> QED BY <2>1, FS_EmptySet DEF ClosedByReturned, PanicsOnlyAfterCancel
<1> QED BY <1>1, <1>2, <1>3, <1>4, <1>5 DEF Inv

\* The invariant is inductive.
LEMMA NextKeepsInv == Inv /\ [Next]_vars => Inv'
<1>1. CASE Inv /\ Next
  BY <1>1, NextKeepsLocalInv, NextKeepsReturnedInv DEF Inv, LocalInv
<1>2. CASE Inv /\ UNCHANGED vars
  BY <1>2 DEF vars, taskVars, ctxVars, cancelVars, Inv, TypeOK,
     PurposeFitsPlace, RegisteredInContext, OneBringsUp, EnteredIsUp,
     ContextIsUp, CleanupKnowsContext, DownBehindAll, FieldsFitPlace,
     SuccessIsGenuine, ClosedByReturned, PanicsOnlyAfterCancel, Uses,
     InContext, Entering, Started, Unexecuted, Leaving, Executed
<1> QED BY <1>1, <1>2

\* Inv holds of every reachable state, whatever the tasks and their contexts.
THEOREM SpecKeepsInv == Spec => []Inv
BY InitHasInv, NextKeepsInv, PTL DEF Spec

\* Types, for every set of tasks.
THEOREM TypeCorrect == Spec => []TypeOK
BY SpecKeepsInv, PTL DEF Inv

\* Nothing of a task runs before the up commands of its context have ended
\* well: one task brings the context up, and what it once is it stays.
THEOREM HooksFindContextUp == Spec => []ContextIsUp
BY SpecKeepsInv, PTL DEF Inv

\* Whatever was begun to be brought up will be taken down, and no sooner than
\* every task is through with it.
THEOREM CleanupIsComplete == Spec => []CleanupKnowsContext
BY SpecKeepsInv, PTL DEF Inv

\* The context's before commands ran ahead of a task that has begun to execute
\* and its after commands run exactly once behind it, on every way out of Run.
THEOREM HooksSurroundTask == Spec => []HooksEncloseTask
<1>1. Inv => HooksEncloseTask
  BY DEF Inv, FieldsFitPlace, Started, HooksEncloseTask
<1> QED BY <1>1, SpecKeepsInv, PTL

\* A task whose Run answers nil, or whose artifact others see, has executed all
\* its jobs and none failed that may not, or it was skipped.  Exit code 0 alone
\* says only that no job failed and that the task was not skipped: all its jobs
\* were executed, or Run answers an error and some or all may not have been.
THEOREM SuccessHasGrounds == Spec => []SuccessIsGenuine
BY SpecKeepsInv, PTL DEF Inv

\* The process dies of a panic only once the runner is canceled and two Runs have
\* returned, or in a task without commands.
THEOREM SignalNeverPanics == Spec => []PanicsOnlyAfterCancel
BY SpecKeepsInv, PTL DEF Inv
=============================================================================
