----------------------------- MODULE NodeProofs -----------------------------
(***************************************************************************)
(* Proofs of the safety properties of Node, and of its refinement of       *)
(* NodeService, for any Runs and children; and, in the second part, of     *)
(* the safety properties of the report pipeline that the root node feeds.  *)
(***************************************************************************)
EXTENDS Node, Pipeline, FiniteSetTheorems, TLAPS

-----------------------------------------------------------------------------
(* What each part of the invariant depends on.                             *)

\* Lifecycle is about the loop's states, ctx, the parent conn and handleRuns.
LEMMA LifecycleFrame ==
    ASSUME Lifecycle,
           UNCHANGED <<state, loop, pconn, hr, runsDone, cause, contextDone, stack>>
    PROVE  Lifecycle'
BY DEF Lifecycle, ctxDone

\* RunPlaces is about the Runs, handleRuns and the parent's receive goroutine.
LEMMA RunPlacesFrame ==
    ASSUME RunPlaces, UNCHANGED <<hr, run, precv>>
    PROVE  RunPlaces'
BY DEF RunPlaces, Active

\* Cache is about the child conns, whether ctx is done, and the parent conn.
LEMMA CacheFrame ==
    ASSUME Cache, UNCHANGED <<conf, conn, srep, cev, pconn, cause>>
    PROVE  Cache'
BY DEF Cache, InCache, ctxDone

\* SetupPlaces is about the setup Run and the replies to it.
LEMMA SetupFrame ==
    ASSUME SetupPlaces, UNCHANGED <<conf, run, on, ok, srep, conn, got, cause>>
    PROVE  SetupPlaces'
BY DEF SetupPlaces, SetupMeansReady, ctxDone

\* Sampler is about the fields of sockdiag, and who uses them.
LEMMA SamplerFrame ==
    ASSUME Sampler, UNCHANGED <<conf, dmtx, run, loop, sam, users, smp>>
    PROVE  Sampler'
BY DEF Sampler

\* Losses is about what was dropped, and where the loop blocks.
LEMMA LossesFrame ==
    ASSUME Losses, UNCHANGED <<conf, pconn, lost>>, loop' = loop \/ loop' # "blocked"
    PROVE  Losses'
BY DEF Losses

\* Replies of children to their own setup come in: setup may read them now.
LEMMA RepliesCome ==
    ASSUME TypeOK, SetupPlaces, UNCHANGED <<conf, conn, cause, got>>,
           run'[Setup] = run[Setup], on'[Setup] = on[Setup], ok'[Setup] = ok[Setup],
           \A d \in Children :
              srep'[d] = srep[d] \/ (srep[d] = "wait" /\ srep'[d] \in {"ok", "fail"})
    PROVE  SetupPlaces'
<1>1. {d \in Children : srep'[d] = "read"} = {d \in Children : srep[d] = "read"}
  OBVIOUS
<1>2. conf.children \subseteq Children
  BY NodeAssumption DEF TypeOK
<1>3. on[Setup] \in conf.children => on[Setup] \in Children
  BY <1>2
<1>4. QED
  BY <1>1, <1>2, <1>3 DEF SetupPlaces, SetupMeansReady, ctxDone

\* Once canceled was sent, no Run is active, so only goroutines in the background
\* may use the sampler.
LEMMA SamplerOff ==
    ASSUME TypeOK, Lifecycle, RunPlaces, Sampler, pconn = "canceled"
    PROVE  /\ \A r \in Samplers : sam[r] # "out" => r \in conf.background
           /\ (\A r \in Samplers : sam[r] = "out") => smp = "off" /\ dmtx = "free"
           /\ smp = "off" \/ Samplers \cap conf.background # {}
           /\ \A r \in AllRuns : ~Active(r)
<1>1. hr = "done" /\ loop # "stopping"
  BY DEF Lifecycle
<1>2. \A r \in AllRuns : ~Active(r)
  BY <1>1 DEF RunPlaces
<1>3. \A r \in Samplers : sam[r] # "out" => r \in conf.background
  BY <1>2, NodeAssumption DEF Active, Sampler, AllRuns
<1>4. ASSUME \A r \in Samplers : sam[r] = "out"
      PROVE  smp = "off" /\ dmtx = "free"
  <2>1. users = {}
    BY <1>4 DEF Sampler, TypeOK
  <2>2. dmtx = "free"
    BY <1>1, <1>4 DEF Sampler, TypeOK
  <2>3. QED
    BY <1>1, <1>4, <2>1, <2>2 DEF Sampler
<1>5. smp = "off" \/ Samplers \cap conf.background # {}
  <2>1. CASE \A r \in Samplers : sam[r] = "out"
    BY <1>4, <2>1
  <2>2. CASE \E r \in Samplers : sam[r] # "out"
    BY <1>3, <2>2
  <2>3. QED
    BY <2>1, <2>2
<1>6. QED
  BY <1>2, <1>3, <1>4, <1>5

-----------------------------------------------------------------------------
(* The steps, one by one: the parts of the invariant that each can disturb *)
(* are shown to hold after it, the others depend on nothing that it        *)
(* changes.                                                                *)

\* The event loop takes an event and handles it.
LEMMA HandleKeeps ==
    ASSUME NodeInv, state # "crashed", Handle
    PROVE  NodeInv'
<1> USE NodeAssumption DEF AllRuns, Take
<1>0. /\ TypeOK /\ Lifecycle /\ RunPlaces /\ Cache /\ SetupPlaces /\ Sampler
      /\ Losses
  BY DEF NodeInv
<1>1. ASSUME NEW r \in AllRuns, HandleRun(r) PROVE NodeInv'
  <2>1. /\ lost' = lost \/ lost' = lost \cup {"log"}
        /\ UNCHANGED <<conf, state, cancel, contextDone, runsDone, parentDone, cause,
                       pconn, psend, hr, ok, on, stack, conn, cev, peer, srep, got,
                       dmtx, smp, smpCxl, users, sam>>
        /\ precv = r /\ precv' = "loop" /\ loop = "select" /\ loop' = "advance"
        /\ err' = (err \/ FALSE)
    BY <1>1 DEF HandleRun, ToParent, childVars, smpVars
  <2>2. run' = [run EXCEPT ![r] = IF state = "run" THEN "body" ELSE "dropped"]
    BY <1>1 DEF HandleRun
  <2>3. TypeOK'
    BY <1>0, <2>1, <2>2 DEF TypeOK, RunPC
  <2>4. Lifecycle'
    BY <1>0, <2>1 DEF Lifecycle, ctxDone
  <2>5. RunPlaces'
    BY <1>0, <1>1 DEF RunPlaces, Active, Lifecycle, HandleRun, childVars, smpVars
  <2>6. SetupPlaces'
    BY <1>0, <1>1 DEF SetupPlaces, SetupMeansReady, ctxDone, HandleRun, childVars,
       smpVars
  <2>7. Sampler'
    BY <1>0, <2>1, <2>2 DEF Sampler, RunPlaces
  <2>8. Cache' /\ Losses'
    BY <1>0, <2>1, CacheFrame DEF Losses
  <2>9. QED
    BY <2>3, <2>4, <2>5, <2>6, <2>7, <2>8 DEF NodeInv
<1>2. CASE HandleCancel
  <2>1. TypeOK'
    BY <1>0, <1>2 DEF TypeOK, HandleCancel, runVars, childVars, smpVars
  <2>2. Lifecycle'
    BY <1>0, <1>2 DEF Lifecycle, ctxDone, HandleCancel, runVars, childVars, smpVars
  <2>3. RunPlaces'
    BY <1>0, <1>2 DEF RunPlaces, Active, HandleCancel, runVars, childVars, smpVars
  <2>4. Sampler'
    BY <1>0, <1>2 DEF Sampler, HandleCancel, runVars, childVars, smpVars
  <2>5. Cache' /\ SetupPlaces' /\ Losses'
    BY <1>0, <1>2, LossesFrame, CacheFrame, SetupFrame DEF HandleCancel, runVars, childVars,
       smpVars
  <2>6. QED
    BY <2>1, <2>2, <2>3, <2>4, <2>5 DEF NodeInv
<1>3. CASE HandleParentError
  <2>1. TypeOK'
    BY <1>0, <1>3 DEF TypeOK, HandleParentError, runVars, childVars, smpVars
  <2>2. Lifecycle'
    BY <1>0, <1>3 DEF Lifecycle, ctxDone, HandleParentError, runVars, childVars,
       smpVars
  <2>3. RunPlaces'
    BY <1>0, <1>3 DEF RunPlaces, Active, HandleParentError, runVars, childVars,
       smpVars
  <2>4. Sampler'
    BY <1>0, <1>3 DEF Sampler, HandleParentError, runVars, childVars, smpVars
  <2>5. Cache' /\ SetupPlaces' /\ Losses'
    BY <1>0, <1>3, LossesFrame, CacheFrame, SetupFrame DEF HandleParentError, runVars, childVars,
       smpVars
  <2>6. QED
    BY <2>1, <2>2, <2>3, <2>4, <2>5 DEF NodeInv
<1>4. CASE HandleContextDone
  <2>1. TypeOK'
    <3>1. /\ err' \in BOOLEAN /\ lost' \subseteq {"ran", "data", "error", "log", "sample", "late"}
          /\ loop' = "advance" /\ contextDone' = TRUE
      BY <1>0, <1>4 DEF TypeOK, HandleContextDone, ToParent
    <3>2. UNCHANGED <<conf, state, cancel, runsDone, parentDone, cause, parentVars,
                      runVars, childVars, smpVars>>
      BY <1>4 DEF HandleContextDone
    <3>3. QED
      BY <1>0, <3>1, <3>2 DEF TypeOK, parentVars, runVars, childVars, smpVars
  <2>2. Lifecycle'
    BY <1>0, <1>4 DEF Lifecycle, ctxDone, HandleContextDone, ToParent, parentVars,
       runVars, childVars, smpVars
  <2>3. Sampler'
    BY <1>0, <1>4 DEF Sampler, HandleContextDone, ToParent, ctxDone, parentVars,
       runVars, childVars, smpVars
  <2>4. Losses'
    BY <1>0, <1>4, LossesFrame DEF Lifecycle, HandleContextDone, ToParent, ctxDone, parentVars,
       runVars, childVars, smpVars
  <2>5. RunPlaces' /\ Cache' /\ SetupPlaces'
    BY <1>0, <1>4, RunPlacesFrame, CacheFrame, SetupFrame DEF HandleContextDone,
       parentVars, runVars, childVars, smpVars
  <2>6. QED
    BY <2>1, <2>2, <2>3, <2>4, <2>5 DEF NodeInv
<1>5. CASE HandleRunsDone
  <2>1. TypeOK'
    BY <1>0, <1>5 DEF TypeOK, HandleRunsDone, parentVars, childVars, smpVars
  <2>2. Lifecycle'
    BY <1>0, <1>5 DEF Lifecycle, ctxDone, HandleRunsDone, parentVars, childVars,
       smpVars
  <2>3. RunPlaces'
    BY <1>0, <1>5 DEF RunPlaces, Active, HandleRunsDone, parentVars, childVars,
       smpVars
  <2>4. Sampler'
    BY <1>0, <1>5 DEF Sampler, HandleRunsDone, parentVars, childVars, smpVars
  <2>5. Cache' /\ SetupPlaces' /\ Losses'
    BY <1>0, <1>5, LossesFrame, CacheFrame, SetupFrame DEF HandleRunsDone, parentVars, childVars,
       smpVars
  <2>6. QED
    BY <2>1, <2>2, <2>3, <2>4, <2>5 DEF NodeInv
<1>6. CASE HandleParentDone
  <2>1. TypeOK'
    BY <1>0, <1>6 DEF TypeOK, HandleParentDone, ParentClosing, parentVars, runVars, childVars,
       smpVars
  <2>2. Lifecycle'
    BY <1>0, <1>6 DEF Lifecycle, ctxDone, HandleParentDone, ParentClosing, parentVars, runVars,
       childVars, smpVars
  <2>3. Sampler'
    BY <1>0, <1>6 DEF Sampler, HandleParentDone, ParentClosing, parentVars, runVars, childVars,
       smpVars
  <2>4. RunPlaces' /\ Cache' /\ SetupPlaces' /\ Losses'
    BY <1>0, <1>6, LossesFrame, RunPlacesFrame, CacheFrame, SetupFrame DEF HandleParentDone,
       parentVars, runVars, childVars, smpVars
  <2>5. QED
    BY <2>1, <2>2, <2>3, <2>4 DEF NodeInv
<1>7. ASSUME NEW r \in AllRuns, HandleRunError(r) PROVE NodeInv'
  <2>1. TypeOK'
    BY <1>0, <1>7 DEF TypeOK, RunPC, HandleRunError, ToParent, parentVars,
       childVars, smpVars
  <2>2. Lifecycle'
    BY <1>0, <1>7 DEF Lifecycle, ctxDone, HandleRunError, ToParent, parentVars,
       childVars, smpVars
  <2>3. RunPlaces'
    BY <1>0, <1>7 DEF RunPlaces, Active, HandleRunError, ToParent, parentVars,
       childVars, smpVars
  <2>4. SetupPlaces'
    BY <1>0, <1>7 DEF SetupPlaces, SetupMeansReady, ctxDone, HandleRunError,
       ToParent, parentVars, childVars, smpVars
  <2>5. Sampler'
    BY <1>0, <1>7 DEF Sampler, HandleRunError, ToParent, parentVars, childVars,
       smpVars
  <2>6. Losses'
    BY <1>0, <1>7, LossesFrame DEF Lifecycle, RunPlaces, Active, HandleRunError, ToParent,
       parentVars, childVars, smpVars
  <2>7. Cache'
    BY <1>0, <1>7, CacheFrame DEF HandleRunError, parentVars, childVars, smpVars
  <2>8. QED
    BY <2>1, <2>2, <2>3, <2>4, <2>5, <2>6, <2>7 DEF NodeInv
<1>8. CASE HandleCancelerError
  <2>1. TypeOK'
    BY <1>0, <1>8 DEF TypeOK, HandleCancelerError, ToParent, parentVars, childVars,
       smpVars
  <2>2. Lifecycle'
    BY <1>0, <1>8 DEF Lifecycle, ctxDone, HandleCancelerError, ToParent, parentVars,
       childVars, smpVars
  <2>3. RunPlaces'
    BY <1>0, <1>8 DEF RunPlaces, Active, HandleCancelerError, ToParent, parentVars,
       childVars, smpVars
  <2>4. Sampler'
    BY <1>0, <1>8 DEF Sampler, HandleCancelerError, ToParent, parentVars, childVars,
       smpVars
  <2>5. Losses'
    BY <1>0, <1>8, LossesFrame DEF Lifecycle, HandleCancelerError, ToParent, parentVars,
       childVars, smpVars
  <2>6. Cache' /\ SetupPlaces'
    BY <1>0, <1>8, CacheFrame, SetupFrame DEF HandleCancelerError, parentVars,
       childVars, smpVars
  <2>7. QED
    BY <2>1, <2>2, <2>3, <2>4, <2>5, <2>6 DEF NodeInv
<1>9. ASSUME NEW c \in Children, HandleChild(c) PROVE NodeInv'
  <2>1. TypeOK'
    <3>1. /\ err' \in BOOLEAN /\ lost' \subseteq {"ran", "data", "error", "log", "sample", "late"}
          /\ loop' = "advance"
      BY <1>0, <1>9 DEF TypeOK, HandleChild, ToParent
    <3>2. cev' \in [Children -> {"none", "data", "Error", "io", "closeErr", "done", "taken"}]
      BY <1>0, <1>9 DEF TypeOK, HandleChild
    <3>3. UNCHANGED <<conf, state, cancel, contextDone, runsDone, parentDone, cause,
                      parentVars, runVars, conn, peer, srep, got, smpVars>>
      BY <1>9 DEF HandleChild
    <3>4. QED
      BY <1>0, <3>1, <3>2, <3>3 DEF TypeOK, parentVars, runVars, smpVars
  <2>2. Lifecycle'
    BY <1>0, <1>9 DEF Lifecycle, ctxDone, HandleChild, ToParent, parentVars,
       runVars, smpVars
  <2>3. Cache'
    BY <1>0, <1>9 DEF Cache, InCache, ctxDone, HandleChild, ToParent, parentVars,
       runVars, smpVars
  <2>4. Sampler'
    BY <1>0, <1>9 DEF Sampler, HandleChild, ToParent, parentVars, runVars, smpVars
  <2>5. Losses'
    BY <1>0, <1>9, LossesFrame DEF Lifecycle, Cache, InCache, HandleChild, ToParent, parentVars,
       runVars, smpVars
  <2>6. RunPlaces' /\ SetupPlaces'
    BY <1>0, <1>9, RunPlacesFrame, SetupFrame DEF HandleChild, parentVars, runVars,
       smpVars
  <2>7. QED
    BY <2>1, <2>2, <2>3, <2>4, <2>5, <2>6 DEF NodeInv
<1>10. ASSUME NEW c \in Children, HandleChildDone(c) PROVE NodeInv'
  <2>1. TypeOK'
    BY <1>0, <1>10 DEF TypeOK, HandleChildDone, parentVars, runVars, smpVars
  <2>2. Lifecycle'
    BY <1>0, <1>10 DEF Lifecycle, ctxDone, HandleChildDone, parentVars, runVars,
       smpVars
  <2>3. Cache'
    BY <1>0, <1>10 DEF Cache, InCache, ctxDone, HandleChildDone, parentVars,
       runVars, smpVars
  <2>4. Sampler'
    BY <1>0, <1>10 DEF Sampler, HandleChildDone, parentVars, runVars, smpVars
  <2>5. RunPlaces' /\ SetupPlaces' /\ Losses'
    BY <1>0, <1>10, LossesFrame, RunPlacesFrame, SetupFrame DEF HandleChildDone, parentVars,
       runVars, smpVars
  <2>6. QED
    BY <2>1, <2>2, <2>3, <2>4, <2>5 DEF NodeInv
<1>11. CASE HandleSample
  <2>1. /\ UNCHANGED <<conf, state, cancel, contextDone, runsDone, parentDone, cause,
                       pconn, precv, psend, hr, run, ok, on, stack, conn, cev, peer,
                       srep, got, dmtx, smpCxl, users, sam>>
        /\ smp \in {"sampling", "failed"} /\ smp' \in {"exit", "idle"}
        /\ loop = "select" /\ loop' \in {"advance", "blocked"}
        /\ err' = (err \/ smp = "failed")
        /\ loop' = "blocked" => pconn = "canceled" /\ ~parentDone /\ lost' = lost
        /\ lost' = lost \/ (pconn = "canceled" /\ lost' = lost \cup {"sample"})
    BY <1>11 DEF HandleSample, Blocks, ParentClosing, ToParent, parentVars, runVars,
       childVars
  <2>2. TypeOK'
    <3>1. err' \in BOOLEAN
      BY <1>0, <2>1 DEF TypeOK
    <3>2. /\ lost' \subseteq {"ran", "data", "error", "log", "sample", "late"}
          /\ smp' \in {"off", "idle", "sampling", "failed", "exit"}
      BY <1>0, <2>1 DEF TypeOK
    <3>3. QED
      BY <1>0, <2>1, <3>1, <3>2 DEF TypeOK
  <2>3. Lifecycle'
    BY <1>0, <2>1 DEF Lifecycle, ctxDone
  <2>4. Sampler'
    BY <1>0, <2>1 DEF Sampler
  <2>5. Losses'
    BY <1>0, <2>1, SamplerOff DEF Losses
  <2>6. RunPlaces' /\ Cache' /\ SetupPlaces'
    BY <1>0, <2>1, RunPlacesFrame, CacheFrame, SetupFrame
  <2>7. QED
    BY <2>2, <2>3, <2>4, <2>5, <2>6 DEF NodeInv
<1>12. CASE HandleParentCloseError
  <2>1. /\ UNCHANGED <<conf, state, cancel, contextDone, runsDone, parentDone, cause,
                       pconn, precv, psend, hr, run, ok, on, stack, conn, cev, peer,
                       srep, got, dmtx, smp, smpCxl, users, sam, lost>>
        /\ loop = "select" /\ loop' = "blocked" /\ err' = (err \/ TRUE)
        /\ pconn = "canceled" /\ ~parentDone /\ "parent" \in conf.faulty
    BY <1>12 DEF HandleParentCloseError, Blocks, ParentClosing, parentVars, runVars,
       childVars, smpVars
  <2>2. TypeOK'
    BY <1>0, <2>1 DEF TypeOK
  <2>3. Lifecycle'
    BY <1>0, <2>1 DEF Lifecycle, ctxDone
  <2>4. Sampler'
    BY <1>0, <2>1 DEF Sampler
  <2>5. Losses'
    BY <1>0, <2>1 DEF Losses
  <2>6. RunPlaces' /\ Cache' /\ SetupPlaces'
    BY <1>0, <2>1, RunPlacesFrame, CacheFrame, SetupFrame
  <2>7. QED
    BY <2>2, <2>3, <2>4, <2>5, <2>6 DEF NodeInv
<1>13. QED
  BY <1>1, <1>2, <1>3, <1>4, <1>5, <1>6, <1>7, <1>8, <1>9, <1>10, <1>11, <1>12 DEF
     Handle, HandleOther



\* advance, with what the entry to a state does.
LEMMA AdvanceKeeps ==
    ASSUME NodeInv, state # "crashed", Advance
    PROVE  NodeInv'
<1> USE NodeAssumption DEF AllRuns
<1>0. /\ TypeOK /\ Lifecycle /\ RunPlaces /\ Cache /\ SetupPlaces /\ Sampler
      /\ Losses
  BY DEF NodeInv
<1>1. CASE NotDone
  <2>1. TypeOK'
    BY <1>0, <1>1 DEF TypeOK, NotDone, parentVars, runVars, childVars, smpVars
  <2>2. Lifecycle'
    BY <1>0, <1>1 DEF Lifecycle, ctxDone, NotDone, StateDone, parentVars, runVars,
       childVars, smpVars
  <2>3. Sampler'
    BY <1>0, <1>1 DEF Sampler, NotDone, StateDone, parentVars, runVars, childVars,
       smpVars
  <2>4. RunPlaces' /\ Cache' /\ SetupPlaces' /\ Losses'
    BY <1>0, <1>1, LossesFrame, RunPlacesFrame, CacheFrame, SetupFrame DEF NotDone, parentVars,
       runVars, childVars, smpVars
  <2>5. QED
    BY <2>1, <2>2, <2>3, <2>4 DEF NodeInv
<1>2. CASE EnterCancel
  <2>1. TypeOK'
    BY <1>0, <1>2 DEF TypeOK, States, EnterCancel, parentVars, runVars, childVars,
       smpVars
  <2>2. Lifecycle'
    BY <1>0, <1>2 DEF Lifecycle, ctxDone, EnterCancel, StateDone, parentVars,
       runVars, childVars, smpVars
  <2>3. Cache'
    BY <1>0, <1>2 DEF Cache, InCache, ctxDone, EnterCancel, StateDone, parentVars,
       runVars, childVars, smpVars
  <2>4. SetupPlaces'
    BY <1>0, <1>2 DEF SetupPlaces, SetupMeansReady, ctxDone, EnterCancel, StateDone,
       parentVars, runVars, childVars, smpVars
  <2>5. Sampler'
    BY <1>0, <1>2 DEF Sampler, EnterCancel, StateDone, ctxDone, parentVars, runVars,
       childVars, smpVars
  <2>6. RunPlaces' /\ Losses'
    BY <1>0, <1>2, LossesFrame, RunPlacesFrame DEF EnterCancel, parentVars, runVars, childVars,
       smpVars
  <2>7. QED
    BY <2>1, <2>2, <2>3, <2>4, <2>5, <2>6 DEF NodeInv
<1>3. CASE StopSamplers
  <2>1. TypeOK'
    <3>1. smpCxl' \in BOOLEAN
      BY <1>0, <1>3 DEF TypeOK, StopSamplers
    <3>2. dmtx' \in Samplers \cup {"free", "loop"}
      BY <1>0, <1>3 DEF TypeOK, StopSamplers
    <3>3. QED
      BY <1>0, <1>3, <3>1, <3>2 DEF TypeOK, StopSamplers, parentVars, runVars, childVars
  <2>2. Lifecycle'
    BY <1>0, <1>3 DEF Lifecycle, ctxDone, StopSamplers, parentVars, runVars,
       childVars
  <2>3. Sampler'
    BY <1>0, <1>3 DEF Sampler, StopSamplers, parentVars, runVars, childVars
  <2>4. RunPlaces' /\ Cache' /\ SetupPlaces' /\ Losses'
    BY <1>0, <1>3, LossesFrame, RunPlacesFrame, CacheFrame, SetupFrame DEF StopSamplers,
       parentVars, runVars, childVars
  <2>5. QED
    BY <2>1, <2>2, <2>3, <2>4 DEF NodeInv
<1>4. CASE SamplersStopped
  <2>1. TypeOK'
    <3>1. smpCxl' \in BOOLEAN
      BY <1>4 DEF SamplersStopped
    <3>2. QED
      BY <1>0, <1>4, <3>1 DEF TypeOK, SamplersStopped, parentVars, runVars, childVars
  <2>2. Lifecycle'
    BY <1>0, <1>4 DEF Lifecycle, ctxDone, SamplersStopped, parentVars, runVars,
       childVars
  <2>3. Sampler'
    BY <1>0, <1>4 DEF Sampler, SamplersStopped, parentVars, runVars, childVars
  <2>4. RunPlaces' /\ Cache' /\ SetupPlaces' /\ Losses'
    BY <1>0, <1>4, LossesFrame, RunPlacesFrame, CacheFrame, SetupFrame DEF SamplersStopped,
       parentVars, runVars, childVars
  <2>5. QED
    BY <2>1, <2>2, <2>3, <2>4 DEF NodeInv
<1>5. CASE CancelChildren
  <2>1. TypeOK'
    BY <1>0, <1>5 DEF TypeOK, CancelChildren, parentVars, runVars, smpVars
  <2>2. Lifecycle'
    BY <1>0, <1>5 DEF Lifecycle, ctxDone, CancelChildren, Launching, parentVars,
       runVars, smpVars
  <2>3. Cache'
    BY <1>0, <1>5 DEF Cache, InCache, ctxDone, Lifecycle, CancelChildren, Launching,
       parentVars, runVars, smpVars
  <2>4. SetupPlaces'
    BY <1>0, <1>5 DEF SetupPlaces, SetupMeansReady, ctxDone, Lifecycle,
       CancelChildren, Launching, parentVars, runVars, smpVars
  <2>5. Sampler'
    BY <1>0, <1>5 DEF Sampler, CancelChildren, Launching, parentVars, runVars,
       smpVars
  <2>6. RunPlaces' /\ Losses'
    BY <1>0, <1>5, LossesFrame, RunPlacesFrame DEF CancelChildren, parentVars, runVars, smpVars
  <2>7. QED
    BY <2>1, <2>2, <2>3, <2>4, <2>5, <2>6 DEF NodeInv
<1>6. CASE EnterCanceled
  <2>1. TypeOK'
    BY <1>0, <1>6 DEF TypeOK, States, EnterCanceled, runVars, childVars, smpVars
  <2>2. Lifecycle'
    BY <1>0, <1>6 DEF Lifecycle, ctxDone, EnterCanceled, StateDone, runVars,
       childVars, smpVars
  <2>3. Cache'
    <3>1. IsFiniteSet({c \in Children : InCache(c)})
      BY FS_Subset
    <3>2. {c \in Children : InCache(c)} = {}
      BY <1>6, <3>1, FS_EmptySet DEF EnterCanceled, StateDone, Count
    <3>3. QED
      BY <1>0, <1>6, <3>2 DEF Cache, InCache, ctxDone, EnterCanceled, childVars
  <2>4. RunPlaces' /\ SetupPlaces' /\ Sampler'
    BY <1>0, <1>6, RunPlacesFrame, SetupFrame, SamplerFrame DEF EnterCanceled,
       runVars, childVars, smpVars
  <2>5. Losses'
    BY <1>0, <1>6 DEF Losses, EnterCanceled
  <2>6. QED
    BY <2>1, <2>2, <2>3, <2>4, <2>5 DEF NodeInv
<1>7. CASE EnterDone
  <2>1. TypeOK'
    BY <1>0, <1>7 DEF TypeOK, States, EnterDone, parentVars, runVars, childVars,
       smpVars
  <2>2. Lifecycle'
    BY <1>0, <1>7 DEF Lifecycle, ctxDone, EnterDone, StateDone, parentVars, runVars,
       childVars, smpVars
  <2>3. Sampler'
    BY <1>0, <1>7 DEF Sampler, EnterDone, StateDone, parentVars, runVars, childVars,
       smpVars
  <2>4. RunPlaces' /\ Cache' /\ SetupPlaces' /\ Losses'
    BY <1>0, <1>7, LossesFrame, RunPlacesFrame, CacheFrame, SetupFrame DEF EnterDone, parentVars,
       runVars, childVars, smpVars
  <2>5. QED
    BY <2>1, <2>2, <2>3, <2>4 DEF NodeInv
<1>8. ASSUME NEW c \in Children, Delete(c) PROVE NodeInv'
  <2>1. TypeOK'
    BY <1>0, <1>8 DEF TypeOK, Delete, parentVars, runVars, smpVars
  <2>2. Lifecycle'
    BY <1>0, <1>8 DEF Lifecycle, ctxDone, Delete, Launching, parentVars, runVars,
       smpVars
  <2>3. Cache'
    BY <1>0, <1>8 DEF Cache, InCache, ctxDone, TypeOK, Delete, Launching,
       parentVars, runVars, smpVars
  <2>4. SetupPlaces'
    BY <1>0, <1>8 DEF SetupPlaces, SetupMeansReady, ctxDone, Lifecycle, Cache,
       InCache, Delete, Launching, parentVars, runVars, smpVars
  <2>5. Sampler'
    BY <1>0, <1>8 DEF Sampler, Delete, Launching, parentVars, runVars, smpVars
  <2>6. RunPlaces' /\ Losses'
    BY <1>0, <1>8, LossesFrame, RunPlacesFrame DEF Delete, parentVars, runVars, smpVars
  <2>7. QED
    BY <2>1, <2>2, <2>3, <2>4, <2>5, <2>6 DEF NodeInv
<1>9. QED
  BY <1>1, <1>2, <1>3, <1>4, <1>5, <1>6, <1>7, <1>8 DEF Advance


\* What the context, the parent and the children do.
LEMMA EnvironmentKeeps ==
    ASSUME NodeInv, state # "crashed", Environment
    PROVE  NodeInv'
<1> USE NodeAssumption DEF AllRuns
<1>0. /\ TypeOK /\ Lifecycle /\ RunPlaces /\ Cache /\ SetupPlaces /\ Sampler
      /\ Losses
  BY DEF NodeInv
<1>1. CASE Interrupt
  <2>1. TypeOK'
    BY <1>0, <1>1 DEF TypeOK, Interrupt, loopVars, parentVars, runVars, childVars,
       smpVars
  <2>2. Lifecycle'
    BY <1>0, <1>1 DEF Lifecycle, ctxDone, Interrupt, loopVars, parentVars, runVars,
       childVars, smpVars
  <2>3. Cache'
    BY <1>0, <1>1 DEF Cache, InCache, ctxDone, Interrupt, loopVars, parentVars,
       runVars, childVars, smpVars
  <2>4. SetupPlaces'
    BY <1>0, <1>1 DEF SetupPlaces, SetupMeansReady, ctxDone, Interrupt, loopVars,
       parentVars, runVars, childVars, smpVars
  <2>5. RunPlaces' /\ Sampler' /\ Losses'
    BY <1>0, <1>1, LossesFrame, RunPlacesFrame, SamplerFrame DEF Interrupt, loopVars, parentVars,
       runVars, childVars, smpVars
  <2>6. QED
    BY <2>1, <2>2, <2>3, <2>4, <2>5 DEF NodeInv
<1>2. CASE ParentEnds
  <2>1. TypeOK'
    BY <1>0, <1>2 DEF TypeOK, ParentEnds, Failure, loopVars, runVars, childVars,
       smpVars
  <2>2. RunPlaces'
    BY <1>0, <1>2 DEF RunPlaces, Active, ParentEnds, Failure, loopVars, runVars,
       childVars, smpVars
  <2>3. Lifecycle' /\ Cache' /\ SetupPlaces' /\ Sampler' /\ Losses'
    BY <1>0, <1>2, LossesFrame, LifecycleFrame, CacheFrame, SetupFrame, SamplerFrame DEF
       ParentEnds, loopVars, runVars, childVars, smpVars
  <2>4. QED
    BY <2>1, <2>2, <2>3 DEF NodeInv
<1>3. CASE ParentSendFails
  <2>1. TypeOK'
    BY <1>0, <1>3 DEF TypeOK, ParentSendFails, loopVars, runVars, childVars, smpVars
  <2>2. Lifecycle' /\ RunPlaces' /\ Cache' /\ SetupPlaces' /\ Sampler' /\ Losses'
    BY <1>0, <1>3, LossesFrame, LifecycleFrame, RunPlacesFrame, CacheFrame, SetupFrame,
       SamplerFrame DEF ParentSendFails, loopVars, runVars, childVars, smpVars
  <2>3. QED
    BY <2>1, <2>2 DEF NodeInv
<1>4. ASSUME NEW r \in AllRuns, ParentRun(r) PROVE NodeInv'
  <2>1. TypeOK'
    BY <1>0, <1>4 DEF TypeOK, ParentRun, loopVars, runVars, childVars, smpVars
  <2>2. RunPlaces'
    BY <1>0, <1>4 DEF RunPlaces, Active, ParentRun, loopVars, runVars, childVars,
       smpVars
  <2>3. Lifecycle' /\ Cache' /\ SetupPlaces' /\ Sampler' /\ Losses'
    BY <1>0, <1>4, LossesFrame, LifecycleFrame, CacheFrame, SetupFrame, SamplerFrame DEF
       ParentRun, loopVars, runVars, childVars, smpVars
  <2>4. QED
    BY <2>1, <2>2, <2>3 DEF NodeInv
<1>5. ASSUME NEW c \in Children, ChildEvent(c) PROVE NodeInv'
  <2>1. TypeOK'
    BY <1>0, <1>5 DEF TypeOK, ChildEvent, Failure, loopVars, parentVars, runVars,
       smpVars
  <2>2. Cache'
    BY <1>0, <1>5 DEF Cache, InCache, ctxDone, ChildEvent, Failure, loopVars,
       parentVars, runVars, smpVars
  <2>3. Lifecycle' /\ RunPlaces' /\ SetupPlaces' /\ Sampler' /\ Losses'
    BY <1>0, <1>5, LossesFrame, LifecycleFrame, RunPlacesFrame, SetupFrame, SamplerFrame DEF
       ChildEvent, loopVars, parentVars, runVars, smpVars
  <2>4. QED
    BY <2>1, <2>2, <2>3 DEF NodeInv
<1>6. ASSUME NEW c \in Children, ChildEnds(c) PROVE NodeInv'
  <2>1. TypeOK'
    <3>1. /\ peer' \in [Children -> {"up", "ended"}]
          /\ UNCHANGED <<conf, loopVars, cause, parentVars, hr, stack, conn, got, smpVars, lost>>
      BY <1>0, <1>6 DEF TypeOK, ChildEnds
    <3>2. CASE FailRPC(c) /\ UNCHANGED cev
      BY <1>0, <3>1, <3>2 DEF TypeOK, FailRPC, RunPC, NoChild, loopVars, parentVars, smpVars
    <3>3. CASE cev' = [cev EXCEPT ![c] = "io"] /\ UNCHANGED <<run, ok, on, srep>>
      BY <1>0, <3>1, <3>3 DEF TypeOK, loopVars, parentVars, smpVars
    <3>4. QED
      BY <1>6, <3>2, <3>3 DEF ChildEnds
  <2>2. RunPlaces'
    BY <1>0, <1>6 DEF RunPlaces, Active, ChildEnds, InCache, FailRPC, loopVars,
       parentVars, smpVars
  <2>3. Cache'
    BY <1>0, <1>6 DEF Cache, InCache, ctxDone, TypeOK, ChildEnds, FailRPC, loopVars,
       parentVars, smpVars
  <2>4. SetupPlaces'
    <3>1. run'[Setup] = run[Setup] /\ on'[Setup] = on[Setup] /\ ok'[Setup] = ok[Setup]
      BY <1>0, <1>6 DEF TypeOK, RunPlaces, ChildEnds, FailRPC
    <3>2. \A d \in Children :
             srep'[d] = srep[d] \/ (srep[d] = "wait" /\ srep'[d] \in {"ok", "fail"})
      BY <1>0, <1>6 DEF TypeOK, ChildEnds, FailRPC
    <3>3. QED
      BY <1>0, <1>6, <3>1, <3>2, RepliesCome DEF ChildEnds
  <2>5. Sampler'
    BY <1>0, <1>6 DEF Sampler, TypeOK, ChildEnds, InCache, FailRPC, loopVars,
       parentVars, smpVars
  <2>6. Lifecycle' /\ Losses'
    BY <1>0, <1>6, LossesFrame, LifecycleFrame DEF ChildEnds, loopVars, parentVars, smpVars
  <2>7. QED
    BY <2>1, <2>2, <2>3, <2>4, <2>5, <2>6 DEF NodeInv
<1>7. ASSUME NEW c \in Children, ChildDone(c) PROVE NodeInv'
  <2>1. TypeOK'
    BY <1>0, <1>7 DEF TypeOK, RunPC, NoChild, ChildDone, Failure, FailRPC, loopVars,
       parentVars, smpVars
  <2>2. RunPlaces'
    BY <1>0, <1>7 DEF RunPlaces, Active, ChildDone, Failure, FailRPC, loopVars,
       parentVars, smpVars
  <2>3. Cache'
    BY <1>0, <1>7 DEF Cache, InCache, ctxDone, ChildDone, Failure, FailRPC,
       loopVars, parentVars, smpVars
  <2>4. SetupPlaces'
    <3>1. run'[Setup] = run[Setup] /\ on'[Setup] = on[Setup] /\ ok'[Setup] = ok[Setup]
      BY <1>0, <1>7 DEF TypeOK, RunPlaces, ChildDone, FailRPC
    <3>2. \A d \in Children :
             srep'[d] = srep[d] \/ (srep[d] = "wait" /\ srep'[d] \in {"ok", "fail"})
      BY <1>0, <1>7 DEF TypeOK, ChildDone, FailRPC
    <3>3. QED
      BY <1>0, <1>7, <3>1, <3>2, RepliesCome DEF ChildDone
  <2>5. Sampler'
    BY <1>0, <1>7 DEF Sampler, TypeOK, ChildDone, Failure, FailRPC, loopVars,
       parentVars, smpVars
  <2>6. Lifecycle' /\ Losses'
    BY <1>0, <1>7, LossesFrame, LifecycleFrame DEF ChildDone, loopVars, parentVars, smpVars
  <2>7. QED
    BY <2>1, <2>2, <2>3, <2>4, <2>5, <2>6 DEF NodeInv
<1>8. ASSUME NEW r \in AllRuns, NEW c \in Children, ChildRan(r, c) PROVE NodeInv'
  <2>1. TypeOK'
    <3>1. UNCHANGED <<conf, loopVars, cause, parentVars, hr, stack, conn, cev, peer, got,
                      smpVars, lost>>
      BY <1>8 DEF ChildRan
    <3>2. srep' \in [Children -> {"none", "ask", "wait", "ok", "fail", "read"}]
      BY <1>0, <1>8 DEF TypeOK, ChildRan
    <3>3. run' \in [AllRuns -> RunPC] /\ on' \in [AllRuns -> Children \cup {NoChild}]
      BY <1>0, <1>8 DEF TypeOK, RunPC, ChildRan
    <3>4. ok' \in [AllRuns -> BOOLEAN]
      BY <1>0, <1>8 DEF TypeOK, ChildRan
    <3>5. QED
      BY <1>0, <3>1, <3>2, <3>3, <3>4 DEF TypeOK, loopVars, parentVars, smpVars
  <2>2. RunPlaces'
    <3>1. hr' = hr /\ precv' = precv
      BY <1>8 DEF ChildRan, parentVars
    <3>2. \A q \in AllRuns : run'[q] = run[q] \/ (run[q] = "rpc" /\ run'[q] = "body")
      BY <1>0, <1>8 DEF TypeOK, ChildRan
    <3>3. QED
      BY <1>0, <3>1, <3>2, NodeAssumption DEF RunPlaces, Active, AllRuns
  <2>3. Cache'
    BY <1>0, <1>8 DEF Cache, InCache, ctxDone, TypeOK, ChildRan, NoChild, loopVars,
       parentVars, smpVars
  <2>4. SetupPlaces'
    <3>1. run'[Setup] = run[Setup] /\ on'[Setup] = on[Setup] /\ ok'[Setup] = ok[Setup]
      BY <1>0, <1>8 DEF TypeOK, RunPlaces, ChildRan
    <3>2. \A d \in Children :
             srep'[d] = srep[d] \/ (srep[d] = "wait" /\ srep'[d] \in {"ok", "fail"})
      BY <1>0, <1>8 DEF TypeOK, ChildRan
    <3>3. QED
      BY <1>0, <1>8, <3>1, <3>2, RepliesCome DEF ChildRan
  <2>5. Sampler'
    BY <1>0, <1>8 DEF Sampler, TypeOK, ChildRan, InCache, NoChild, loopVars,
       parentVars, smpVars
  <2>6. Lifecycle' /\ Losses'
    BY <1>0, <1>8, LossesFrame, LifecycleFrame DEF ChildRan, loopVars, parentVars, smpVars
  <2>7. QED
    BY <2>1, <2>2, <2>3, <2>4, <2>5, <2>6 DEF NodeInv
<1>9. QED
  BY <1>1, <1>2, <1>3, <1>4, <1>5, <1>6, <1>7, <1>8 DEF Environment


\* handleRuns and the cancelers.
LEMMA HandleRunsKeeps ==
    ASSUME NodeInv, state # "crashed", HandleRuns
    PROVE  NodeInv'
<1> USE NodeAssumption DEF AllRuns
<1>0. /\ TypeOK /\ Lifecycle /\ RunPlaces /\ Cache /\ SetupPlaces /\ Sampler
      /\ Losses
  BY DEF NodeInv
<1>1. CASE RunsReturned
  <2>1. TypeOK'
    BY <1>0, <1>1 DEF TypeOK, RunsReturned, loopVars, parentVars, childVars, smpVars
  <2>2. Lifecycle'
    BY <1>0, <1>1 DEF Lifecycle, ctxDone, RunsReturned, Active, loopVars,
       parentVars, childVars, smpVars
  <2>3. RunPlaces'
    BY <1>0, <1>1 DEF RunPlaces, Active, RunsReturned, loopVars, parentVars,
       childVars, smpVars
  <2>4. Cache' /\ SetupPlaces' /\ Sampler' /\ Losses'
    BY <1>0, <1>1, LossesFrame, CacheFrame, SetupFrame, SamplerFrame DEF RunsReturned, loopVars,
       parentVars, childVars, smpVars
  <2>5. QED
    BY <2>1, <2>2, <2>3, <2>4 DEF NodeInv
<1>2. CASE RunCanceler
  <2>1. TypeOK'
    BY <1>0, <1>2 DEF TypeOK, RunCanceler, loopVars, parentVars, childVars, smpVars
  <2>2. Lifecycle'
    BY <1>0, <1>2 DEF Lifecycle, ctxDone, RunCanceler, loopVars, parentVars,
       childVars, smpVars
  <2>3. RunPlaces'
    BY <1>0, <1>2 DEF RunPlaces, Active, RunCanceler, loopVars, parentVars,
       childVars, smpVars
  <2>4. Cache' /\ SetupPlaces' /\ Sampler' /\ Losses'
    BY <1>0, <1>2, LossesFrame, CacheFrame, SetupFrame, SamplerFrame DEF RunCanceler, loopVars,
       parentVars, childVars, smpVars
  <2>5. QED
    BY <2>1, <2>2, <2>3, <2>4 DEF NodeInv
<1>3. CASE CancelersDone
  <2>1. TypeOK'
    BY <1>0, <1>3 DEF TypeOK, CancelersDone, loopVars, parentVars, childVars,
       smpVars
  <2>2. Lifecycle'
    BY <1>0, <1>3 DEF Lifecycle, ctxDone, CancelersDone, loopVars, parentVars,
       childVars, smpVars
  <2>3. RunPlaces'
    BY <1>0, <1>3 DEF RunPlaces, Active, CancelersDone, loopVars, parentVars,
       childVars, smpVars
  <2>4. Cache' /\ SetupPlaces' /\ Sampler' /\ Losses'
    BY <1>0, <1>3, LossesFrame, CacheFrame, SetupFrame, SamplerFrame DEF CancelersDone, loopVars,
       parentVars, childVars, smpVars
  <2>5. QED
    BY <2>1, <2>2, <2>3, <2>4 DEF NodeInv
<1>4. QED
  BY <1>1, <1>2, <1>3 DEF HandleRuns


\* The setup Run.
LEMMA SetupKeeps ==
    ASSUME NodeInv, state # "crashed", SetupSteps
    PROVE  NodeInv'
<1> USE NodeAssumption DEF AllRuns
<1>0. /\ TypeOK /\ Lifecycle /\ RunPlaces /\ Cache /\ SetupPlaces /\ Sampler
      /\ Losses
  BY DEF NodeInv
<1>1. ASSUME NEW c \in Children, Launch(c) PROVE NodeInv'
  <2>1. TypeOK'
    BY <1>0, <1>1 DEF TypeOK, RunPC, NoChild, Launch, loopVars, parentVars,
       childVars, smpVars
  <2>2. RunPlaces'
    BY <1>0, <1>1 DEF RunPlaces, Active, Launch, loopVars, parentVars, childVars,
       smpVars
  <2>3. SetupPlaces'
    BY <1>0, <1>1 DEF SetupPlaces, SetupMeansReady, ctxDone, TypeOK, Launch,
       loopVars, parentVars, childVars, smpVars
  <2>4. Sampler'
    BY <1>0, <1>1 DEF Sampler, Launch, loopVars, parentVars, childVars, smpVars
  <2>5. Lifecycle' /\ Cache' /\ Losses'
    BY <1>0, <1>1, LossesFrame, LifecycleFrame, CacheFrame DEF Launch, loopVars, parentVars,
       childVars, smpVars
  <2>6. QED
    BY <2>1, <2>2, <2>3, <2>4, <2>5 DEF NodeInv
<1>2. CASE Launched
  <2>1. TypeOK'
    <3>1. on[Setup] \in Children
      BY <1>0, <1>2 DEF TypeOK, SetupPlaces, Launched
    <3>2. QED
      BY <1>0, <1>2, <3>1 DEF TypeOK, RunPC, NoChild, Launched, loopVars, parentVars, smpVars
  <2>2. RunPlaces'
    BY <1>0, <1>2 DEF RunPlaces, Active, Launched, NoChild, loopVars, parentVars,
       smpVars
  <2>3. Cache'
    <3>1. on[Setup] \in Children /\ on[Setup] \in conf.children /\ srep[on[Setup]] = "none"
      BY <1>0, <1>2 DEF SetupPlaces, Launched, TypeOK
    <3>2. pconn # "canceled"
      BY <1>0, <1>2 DEF Launched, Lifecycle, RunPlaces, Active
    <3>3. /\ conn'[on[Setup]] = "open" /\ srep'[on[Setup]] = "ask" /\ conn[on[Setup]] = "none"
          /\ \A c \in Children : c # on[Setup] => conn'[c] = conn[c] /\ srep'[c] = srep[c]
      BY <1>0, <1>2, <3>1 DEF Launched, TypeOK, Cache
    <3>4. cev[on[Setup]] = "none"
      BY <1>0, <3>1, <3>3 DEF Cache, InCache
    <3>5. QED
      BY <1>0, <1>2, <3>1, <3>2, <3>3, <3>4 DEF Cache, InCache, Launched, ctxDone, parentVars
  <2>4. SetupPlaces'
    <3>1. on[Setup] \in Children /\ srep[on[Setup]] = "none"
      BY <1>0, <1>2 DEF SetupPlaces, Launched, TypeOK
    <3>2. {d \in Children : srep'[d] = "read"} = {d \in Children : srep[d] = "read"}
      BY <1>0, <1>2, <3>1 DEF Launched, TypeOK
    <3>3. run'[Setup] = "body" /\ got' = got
      BY <1>0, <1>2 DEF Launched, TypeOK
    <3>4. QED
      BY <1>0, <3>2, <3>3 DEF SetupPlaces, SetupMeansReady
  <2>5. Sampler'
    BY <1>0, <1>2 DEF Sampler, Launched, NoChild, loopVars, parentVars, smpVars
  <2>6. Lifecycle' /\ Losses'
    BY <1>0, <1>2, LossesFrame, LifecycleFrame DEF Launched, loopVars, parentVars, smpVars
  <2>7. QED
    BY <2>1, <2>2, <2>3, <2>4, <2>5, <2>6 DEF NodeInv
<1>3. CASE SetupFails
  <2>1. TypeOK'
    BY <1>0, <1>3 DEF TypeOK, RunPC, NoChild, SetupFails, loopVars, parentVars,
       childVars, smpVars
  <2>2. RunPlaces'
    BY <1>0, <1>3 DEF RunPlaces, Active, SetupFails, NoChild, loopVars, parentVars,
       childVars, smpVars
  <2>3. SetupPlaces'
    BY <1>0, <1>3 DEF SetupPlaces, SetupMeansReady, ctxDone, TypeOK, SetupFails,
       NoChild, loopVars, parentVars, childVars, smpVars
  <2>4. Sampler'
    BY <1>0, <1>3 DEF Sampler, SetupFails, NoChild, loopVars, parentVars, childVars,
       smpVars
  <2>5. Lifecycle' /\ Cache' /\ Losses'
    BY <1>0, <1>3, LossesFrame, LifecycleFrame, CacheFrame DEF SetupFails, loopVars, parentVars,
       childVars, smpVars
  <2>6. QED
    BY <2>1, <2>2, <2>3, <2>4, <2>5 DEF NodeInv
<1>4. ASSUME NEW c \in Children, SetupChild(c) PROVE NodeInv'
  <2>1. TypeOK'
    BY <1>0, <1>4 DEF TypeOK, SetupChild, loopVars, parentVars, runVars, smpVars
  <2>2. Cache'
    BY <1>0, <1>4 DEF Cache, InCache, ctxDone, SetupChild, loopVars, parentVars,
       runVars, smpVars
  <2>3. SetupPlaces'
    <3>1. {d \in Children : srep'[d] = "read"} = {d \in Children : srep[d] = "read"}
      BY <1>0, <1>4 DEF SetupChild, TypeOK
    <3>2. run'[Setup] = "body" /\ got' = got
      BY <1>4 DEF SetupChild, runVars
    <3>3. QED
      BY <1>0, <3>1, <3>2 DEF SetupPlaces, SetupMeansReady
  <2>4. Lifecycle' /\ RunPlaces' /\ Sampler' /\ Losses'
    BY <1>0, <1>4, LossesFrame, LifecycleFrame, RunPlacesFrame, SamplerFrame DEF SetupChild,
       loopVars, parentVars, runVars, smpVars
  <2>5. QED
    BY <2>1, <2>2, <2>3, <2>4 DEF NodeInv
<1>5. CASE SetupWaits
  <2>1. TypeOK'
    BY <1>0, <1>5 DEF TypeOK, RunPC, SetupWaits, loopVars, parentVars, childVars,
       smpVars
  <2>2. RunPlaces'
    BY <1>0, <1>5 DEF RunPlaces, Active, SetupWaits, loopVars, parentVars,
       childVars, smpVars
  <2>3. SetupPlaces'
    BY <1>0, <1>5 DEF SetupPlaces, SetupMeansReady, ctxDone, SetupWaits, loopVars,
       parentVars, childVars, smpVars
  <2>4. Sampler'
    BY <1>0, <1>5 DEF Sampler, SetupWaits, loopVars, parentVars, childVars, smpVars
  <2>5. Lifecycle' /\ Cache' /\ Losses'
    BY <1>0, <1>5, LossesFrame, LifecycleFrame, CacheFrame DEF SetupWaits, loopVars, parentVars,
       childVars, smpVars
  <2>6. QED
    BY <2>1, <2>2, <2>3, <2>4, <2>5 DEF NodeInv
<1>6. ASSUME NEW c \in Children, SetupReply(c) PROVE NodeInv'
  <2>1. TypeOK'
    <3>1. ok' = ok \/ ok' = [ok EXCEPT ![Setup] = FALSE]
      BY <1>6 DEF SetupReply
    <3>2. ok' \in [AllRuns -> BOOLEAN]
      BY <1>0, <3>1 DEF TypeOK
    <3>3. run' \in [AllRuns -> RunPC] /\ got' \in Nat
      BY <1>0, <1>6 DEF TypeOK, RunPC, SetupReply
    <3>4. srep' \in [Children -> {"none", "ask", "wait", "ok", "fail", "read"}]
      BY <1>0, <1>6 DEF TypeOK, SetupReply
    <3>5. QED
      BY <1>0, <1>6, <3>2, <3>3, <3>4 DEF TypeOK, SetupReply, loopVars, parentVars, smpVars
  <2>2. RunPlaces'
    <3>1. hr' = hr /\ precv' = precv /\ run[Setup] = "wait"
      BY <1>6 DEF SetupReply, parentVars
    <3>2. run' = run \/ run' = [run EXCEPT ![Setup] = "error"]
      BY <1>6 DEF SetupReply
    <3>3. run \in [AllRuns -> RunPC]
      BY <1>0 DEF TypeOK
    <3>4. CASE run' = run
      BY <1>0, <3>1, <3>4, RunPlacesFrame
    <3>5. CASE run' = [run EXCEPT ![Setup] = "error"]
      BY ONLY <1>0, <3>1, <3>3, <3>5 DEF RunPlaces, Active, AllRuns
    <3>6. QED
      BY <3>2, <3>4, <3>5
  <2>3. Cache'
    BY <1>0, <1>6 DEF Cache, InCache, ctxDone, SetupReply, Count, loopVars,
       parentVars, smpVars
  <2>4. SetupPlaces'
    <3> DEFINE replied == {d \in Children : srep[d] = "read"}
    <3>1. c \notin replied /\ {d \in Children : srep'[d] = "read"} = replied \cup {c}
      BY <1>0, <1>6 DEF SetupReply, TypeOK
    <3>2. IsFiniteSet(replied)
      BY FS_Subset
    <3>3. got' = Cardinality(replied) + 1
      BY <1>0, <1>6 DEF SetupReply, SetupPlaces
    <3>4. got' = Cardinality(replied \cup {c})
      <4> HIDE DEF replied
      <4>1. QED
        BY <3>1, <3>2, <3>3, FS_AddElement, FS_CardinalityType
    <3>5. conf.children \subseteq Children
      BY <1>0 DEF TypeOK
    <3>6. run'[Setup] \in {"wait", "error"} /\ (run'[Setup] = "error" => ~ok'[Setup])
      BY <1>0, <1>6 DEF SetupReply, TypeOK
    <3>7. \A d \in conf.children : srep'[d] \notin {"none", "ask"}
      BY <1>0, <1>6, <3>5 DEF SetupReply, SetupPlaces, TypeOK
    <3>8. QED
      BY <1>6, <3>1, <3>4, <3>6, <3>7 DEF SetupPlaces, SetupMeansReady, SetupReply
  <2>5. Sampler'
    BY <1>0, <1>6 DEF Sampler, TypeOK, SetupReply, Count, loopVars, parentVars,
       smpVars
  <2>6. Lifecycle' /\ Losses'
    BY <1>0, <1>6, LossesFrame, LifecycleFrame DEF SetupReply, loopVars, parentVars, smpVars
  <2>7. QED
    BY <2>1, <2>2, <2>3, <2>4, <2>5, <2>6 DEF NodeInv
<1>7. CASE SetupCanceled
  <2>1. TypeOK'
    BY <1>0, <1>7 DEF TypeOK, RunPC, SetupCanceled, loopVars, parentVars, childVars,
       smpVars
  <2>2. RunPlaces'
    BY <1>0, <1>7 DEF RunPlaces, Active, SetupCanceled, Count, ctxDone, loopVars,
       parentVars, childVars, smpVars
  <2>3. SetupPlaces'
    BY <1>0, <1>7 DEF SetupPlaces, SetupMeansReady, ctxDone, TypeOK, SetupCanceled,
       Count, loopVars, parentVars, childVars, smpVars
  <2>4. Sampler'
    BY <1>0, <1>7 DEF Sampler, SetupCanceled, Count, ctxDone, loopVars, parentVars,
       childVars, smpVars
  <2>5. Lifecycle' /\ Cache' /\ Losses'
    BY <1>0, <1>7, LossesFrame, LifecycleFrame, CacheFrame DEF SetupCanceled, loopVars,
       parentVars, childVars, smpVars
  <2>6. QED
    BY <2>1, <2>2, <2>3, <2>4, <2>5 DEF NodeInv
<1>8. CASE SetupDone
  <2>1. TypeOK'
    BY <1>0, <1>8 DEF TypeOK, RunPC, SetupDone, loopVars, parentVars, childVars,
       smpVars
  <2>2. RunPlaces'
    BY <1>0, <1>8 DEF RunPlaces, Active, SetupDone, Count, loopVars, parentVars,
       childVars, smpVars
  <2>3. SetupPlaces'
    <3> DEFINE replied == {c \in Children : srep[c] = "read"}
               cached == {c \in Children : InCache(c)}
    <3>1. ASSUME ~ctxDone
          PROVE  \A c \in conf.children : conn[c] = "open" /\ srep[c] = "read"
      <4>1. conf.children \subseteq Children
        BY <1>0 DEF TypeOK
      <4>2. /\ replied \subseteq cached /\ conf.children \subseteq cached
            /\ \A c \in cached : conn[c] = "open"
        BY <1>0, <1>8, <3>1, <4>1 DEF Cache, InCache, SetupPlaces, SetupDone
      <4>3. IsFiniteSet(replied) /\ IsFiniteSet(cached)
        BY FS_Subset
      <4>4. Cardinality(replied) \in Nat /\ Cardinality(cached) \in Nat
        BY <4>3, FS_CardinalityType
      <4>5. Cardinality(cached) <= Cardinality(replied)
        BY <1>0, <1>8, <4>4 DEF SetupDone, SetupPlaces, Count
      <4>6. replied = cached
        <5> HIDE DEF replied, cached
        <5>1. QED
          BY <4>2, <4>3, <4>4, <4>5, FS_Subset
      <4>7. QED
        BY <4>2, <4>6
    <3>2. QED
      BY <1>0, <1>8, <3>1 DEF SetupPlaces, SetupMeansReady, SetupDone, TypeOK, ctxDone, childVars
  <2>4. Sampler'
    BY <1>0, <1>8 DEF Sampler, SetupDone, Count, loopVars, parentVars, childVars,
       smpVars
  <2>5. Lifecycle' /\ Cache' /\ Losses'
    BY <1>0, <1>8, LossesFrame, LifecycleFrame, CacheFrame DEF SetupDone, loopVars, parentVars,
       childVars, smpVars
  <2>6. QED
    BY <2>1, <2>2, <2>3, <2>4, <2>5 DEF NodeInv
<1>9. QED
  BY <1>1, <1>2, <1>3, <1>4, <1>5, <1>6, <1>7, <1>8 DEF SetupSteps


\* The other Runs, and the sampler.
LEMMA RunKeeps ==
    ASSUME NodeInv, state # "crashed", RunSteps
    PROVE  NodeInv'
<1> USE NodeAssumption DEF AllRuns
<1>0. /\ TypeOK /\ Lifecycle /\ RunPlaces /\ Cache /\ SetupPlaces /\ Sampler
      /\ Losses
  BY DEF NodeInv
<1>1. ASSUME NEW r \in Runs, LeaveCanceler(r) PROVE NodeInv'
  <2>1. TypeOK'
    BY <1>0, <1>1 DEF TypeOK, LeaveCanceler, loopVars, parentVars, childVars,
       smpVars
  <2>2. Lifecycle'
    BY <1>0, <1>1 DEF Lifecycle, ctxDone, RunPlaces, Active, LeaveCanceler,
       loopVars, parentVars, childVars, smpVars
  <2>3. RunPlaces' /\ Cache' /\ SetupPlaces' /\ Sampler' /\ Losses'
    BY <1>0, <1>1, LossesFrame, RunPlacesFrame, CacheFrame, SetupFrame, SamplerFrame DEF
       LeaveCanceler, loopVars, parentVars, childVars, smpVars
  <2>4. QED
    BY <2>1, <2>2, <2>3 DEF NodeInv
<1>2. ASSUME NEW r \in Runs, SendData(r) PROVE NodeInv'
  <2>1. TypeOK'
    BY <1>0, <1>2 DEF TypeOK, SendData, ToParent, loopVars, parentVars, runVars,
       childVars, smpVars
  <2>2. Losses'
    BY <1>0, <1>2, LossesFrame DEF Lifecycle, RunPlaces, Active, SendData, ToParent, loopVars,
       parentVars, runVars, childVars, smpVars
  <2>3. Lifecycle' /\ RunPlaces' /\ Cache' /\ SetupPlaces' /\ Sampler'
    BY <1>0, <1>2, LifecycleFrame, RunPlacesFrame, CacheFrame, SetupFrame,
       SamplerFrame DEF SendData, loopVars, parentVars, runVars, childVars, smpVars
  <2>4. QED
    BY <2>1, <2>2, <2>3 DEF NodeInv
<1>3. ASSUME NEW r \in Runs, Fail(r) PROVE NodeInv'
  <2>1. TypeOK'
    BY <1>0, <1>3 DEF TypeOK, RunPC, Fail, loopVars, parentVars, childVars, smpVars
  <2>2. RunPlaces'
    BY <1>0, <1>3 DEF RunPlaces, Active, Fail, loopVars, parentVars, childVars,
       smpVars
  <2>3. SetupPlaces'
    BY <1>0, <1>3 DEF SetupPlaces, SetupMeansReady, ctxDone, Fail, loopVars,
       parentVars, childVars, smpVars
  <2>4. Sampler'
    BY <1>0, <1>3 DEF Sampler, Fail, loopVars, parentVars, childVars, smpVars
  <2>5. Lifecycle' /\ Cache' /\ Losses'
    BY <1>0, <1>3, LossesFrame, LifecycleFrame, CacheFrame DEF Fail, loopVars, parentVars,
       childVars, smpVars
  <2>6. QED
    BY <2>1, <2>2, <2>3, <2>4, <2>5 DEF NodeInv
<1>4. ASSUME NEW r \in Runs, Return(r) PROVE NodeInv'
  <2>1. TypeOK'
    BY <1>0, <1>4 DEF TypeOK, RunPC, Return, loopVars, parentVars, childVars,
       smpVars
  <2>2. RunPlaces'
    BY <1>0, <1>4 DEF RunPlaces, Active, Return, loopVars, parentVars, childVars,
       smpVars
  <2>3. SetupPlaces'
    BY <1>0, <1>4 DEF SetupPlaces, SetupMeansReady, ctxDone, Return, loopVars,
       parentVars, childVars, smpVars
  <2>4. Sampler'
    BY <1>0, <1>4 DEF Sampler, Return, SamplingDone, loopVars, parentVars, childVars, smpVars
  <2>5. Lifecycle' /\ Cache' /\ Losses'
    BY <1>0, <1>4, LossesFrame, LifecycleFrame, CacheFrame DEF Return, loopVars, parentVars,
       childVars, smpVars
  <2>6. QED
    BY <2>1, <2>2, <2>3, <2>4, <2>5 DEF NodeInv
<1>5. ASSUME NEW r \in Samplers, Add(r) PROVE NodeInv'
  <2>1. UNCHANGED <<conf, loopVars, cause, parentVars, runVars, childVars, lost>>
    BY <1>5 DEF Add
  <2>2. TypeOK'
    <3>1. /\ smpCxl' \in BOOLEAN /\ dmtx' \in Samplers \cup {"free", "loop"}
          /\ smp' \in {"off", "idle", "sampling", "failed", "exit"}
          /\ users' \subseteq Samplers
      BY <1>0, <1>5 DEF TypeOK, Add
    <3>2. sam' \in [Samplers -> {"out", "add", "in", "remove", "stopping"}]
      BY <1>0, <1>5 DEF TypeOK, Add
    <3>3. QED
      BY <1>0, <2>1, <3>1, <3>2 DEF TypeOK, loopVars, parentVars, runVars, childVars
  <2>3. Sampler'
    BY <1>0, <1>5 DEF Sampler, TypeOK, Add, Background, loopVars, runVars
  <2>4. /\ Lifecycle' /\ RunPlaces' /\ Cache' /\ SetupPlaces' /\ Losses'
    BY <1>0, <2>1, LossesFrame, LifecycleFrame, RunPlacesFrame, CacheFrame, SetupFrame
       DEF loopVars, parentVars, runVars, childVars
  <2>5. QED
    BY <2>2, <2>3, <2>4 DEF NodeInv
<1>6. ASSUME NEW r \in Samplers, Added(r) PROVE NodeInv'
  <2>1. UNCHANGED <<conf, loopVars, cause, parentVars, runVars, childVars, lost>>
    BY <1>6 DEF Added
  <2>2. TypeOK'
    <3>1. /\ smpCxl' \in BOOLEAN /\ dmtx' \in Samplers \cup {"free", "loop"}
          /\ smp' \in {"off", "idle", "sampling", "failed", "exit"}
          /\ users' \subseteq Samplers
      BY <1>0, <1>6 DEF TypeOK, Added
    <3>2. sam' \in [Samplers -> {"out", "add", "in", "remove", "stopping"}]
      BY <1>0, <1>6 DEF TypeOK, Added
    <3>3. QED
      BY <1>0, <2>1, <3>1, <3>2 DEF TypeOK, loopVars, parentVars, runVars, childVars
  <2>3. Sampler'
    BY <1>0, <1>6 DEF Sampler, TypeOK, Added, loopVars, runVars
  <2>4. /\ Lifecycle' /\ RunPlaces' /\ Cache' /\ SetupPlaces' /\ Losses'
    BY <1>0, <2>1, LossesFrame, LifecycleFrame, RunPlacesFrame, CacheFrame, SetupFrame
       DEF loopVars, parentVars, runVars, childVars
  <2>5. QED
    BY <2>2, <2>3, <2>4 DEF NodeInv
<1>7. ASSUME NEW r \in Samplers, Remove(r) PROVE NodeInv'
  <2>1. UNCHANGED <<conf, loopVars, cause, parentVars, runVars, childVars, lost>>
    BY <1>7 DEF Remove
  <2>2. TypeOK'
    <3>1. /\ smpCxl' \in BOOLEAN /\ dmtx' \in Samplers \cup {"free", "loop"}
          /\ smp' \in {"off", "idle", "sampling", "failed", "exit"}
          /\ users' \subseteq Samplers
      BY <1>0, <1>7 DEF TypeOK, Remove
    <3>2. sam' \in [Samplers -> {"out", "add", "in", "remove", "stopping"}]
      BY <1>0, <1>7 DEF TypeOK, Remove
    <3>3. QED
      BY <1>0, <2>1, <3>1, <3>2 DEF TypeOK, loopVars, parentVars, runVars, childVars
  <2>3. Sampler'
    BY <1>0, <1>7 DEF Sampler, TypeOK, Remove, loopVars, runVars
  <2>4. /\ Lifecycle' /\ RunPlaces' /\ Cache' /\ SetupPlaces' /\ Losses'
    BY <1>0, <2>1, LossesFrame, LifecycleFrame, RunPlacesFrame, CacheFrame, SetupFrame
       DEF loopVars, parentVars, runVars, childVars
  <2>5. QED
    BY <2>2, <2>3, <2>4 DEF NodeInv
<1>8. ASSUME NEW r \in Samplers, Removed(r) PROVE NodeInv'
  <2>1. UNCHANGED <<conf, loopVars, cause, parentVars, runVars, childVars, lost>>
    BY <1>8 DEF Removed
  <2>2. TypeOK'
    <3>1. /\ smpCxl' \in BOOLEAN /\ dmtx' \in Samplers \cup {"free", "loop"}
          /\ smp' \in {"off", "idle", "sampling", "failed", "exit"}
          /\ users' \subseteq Samplers
      BY <1>0, <1>8 DEF TypeOK, Removed
    <3>2. sam' \in [Samplers -> {"out", "add", "in", "remove", "stopping"}]
      BY <1>0, <1>8 DEF TypeOK, Removed
    <3>3. QED
      BY <1>0, <2>1, <3>1, <3>2 DEF TypeOK, loopVars, parentVars, runVars, childVars
  <2>3. Sampler'
    BY <1>0, <1>8 DEF Sampler, TypeOK, Removed, loopVars, runVars
  <2>4. /\ Lifecycle' /\ RunPlaces' /\ Cache' /\ SetupPlaces' /\ Losses'
    BY <1>0, <2>1, LossesFrame, LifecycleFrame, RunPlacesFrame, CacheFrame, SetupFrame
       DEF loopVars, parentVars, runVars, childVars
  <2>5. QED
    BY <2>2, <2>3, <2>4 DEF NodeInv
<1>9. ASSUME NEW r \in Samplers, Stopped(r) PROVE NodeInv'
  <2>1. UNCHANGED <<conf, loopVars, cause, parentVars, runVars, childVars, lost>>
    BY <1>9 DEF Stopped
  <2>2. TypeOK'
    <3>1. /\ smpCxl' \in BOOLEAN /\ dmtx' \in Samplers \cup {"free", "loop"}
          /\ smp' \in {"off", "idle", "sampling", "failed", "exit"}
          /\ users' \subseteq Samplers
      BY <1>0, <1>9 DEF TypeOK, Stopped
    <3>2. sam' \in [Samplers -> {"out", "add", "in", "remove", "stopping"}]
      BY <1>0, <1>9 DEF TypeOK, Stopped
    <3>3. QED
      BY <1>0, <2>1, <3>1, <3>2 DEF TypeOK, loopVars, parentVars, runVars, childVars
  <2>3. Sampler'
    BY <1>0, <1>9 DEF Sampler, TypeOK, Stopped, loopVars, runVars
  <2>4. /\ Lifecycle' /\ RunPlaces' /\ Cache' /\ SetupPlaces' /\ Losses'
    BY <1>0, <2>1, LossesFrame, LifecycleFrame, RunPlacesFrame, CacheFrame, SetupFrame
       DEF loopVars, parentVars, runVars, childVars
  <2>5. QED
    BY <2>2, <2>3, <2>4 DEF NodeInv
<1>10. ASSUME NEW r \in Runs, NEW c \in Children, CallChild(r, c) PROVE NodeInv'
  <2>1. TypeOK'
    <3>1. ok' \in [AllRuns -> BOOLEAN]
      BY <1>0, <1>10 DEF TypeOK, CallChild
    <3>2. run' \in [AllRuns -> RunPC]
      BY <1>0, <1>10 DEF TypeOK, RunPC, CallChild
    <3>3. on' \in [AllRuns -> Children \cup {NoChild}]
      BY <1>0, <1>10 DEF TypeOK, CallChild
    <3>4. QED
      BY <1>0, <1>10, <3>1, <3>2, <3>3 DEF TypeOK, CallChild, loopVars, parentVars,
         childVars, smpVars
  <2>2. RunPlaces'
    BY <1>0, <1>10, SMTT(20) DEF RunPlaces, Active, TypeOK, CallChild, InCache, loopVars,
       parentVars, childVars, smpVars
  <2>3. SetupPlaces'
    BY <1>0, <1>10 DEF SetupPlaces, SetupMeansReady, ctxDone, TypeOK, CallChild,
       InCache, loopVars, parentVars, childVars, smpVars
  <2>4. Sampler'
    BY <1>0, <1>10 DEF Sampler, TypeOK, CallChild, InCache, loopVars, parentVars,
       childVars, smpVars
  <2>5. Lifecycle' /\ Cache' /\ Losses'
    BY <1>0, <1>10, LossesFrame, LifecycleFrame, CacheFrame DEF CallChild, loopVars, parentVars,
       childVars, smpVars
  <2>6. QED
    BY <2>1, <2>2, <2>3, <2>4, <2>5 DEF NodeInv
<1>11. ASSUME NEW r \in Runs, NEW c \in Children, CallPanics(r, c) PROVE NodeInv'
  <2>1. TypeOK'
    <3>1. ok' = ok \/ ok' = [ok EXCEPT ![r] = FALSE]
      BY <1>11 DEF CallPanics
    <3>2. ok' \in [AllRuns -> BOOLEAN]
      BY <1>0, <3>1 DEF TypeOK
    <3>3. run' \in [AllRuns -> RunPC] /\ state' \in States
      BY <1>0, <1>11 DEF TypeOK, RunPC, States, CallPanics
    <3>4. QED
      BY <1>0, <1>11, <3>2, <3>3 DEF TypeOK, CallPanics, parentVars, childVars, smpVars
  <2>2. Lifecycle'
    BY <1>0, <1>11 DEF Lifecycle, ctxDone, RunPlaces, Active, CallPanics, InCache,
       parentVars, childVars, smpVars
  <2>3. RunPlaces'
    BY <1>0, <1>11 DEF RunPlaces, Active, TypeOK, CallPanics, InCache, parentVars,
       childVars, smpVars
  <2>4. SetupPlaces'
    BY <1>0, <1>11 DEF SetupPlaces, SetupMeansReady, ctxDone, TypeOK, CallPanics,
       InCache, parentVars, childVars, smpVars
  <2>5. Sampler'
    BY <1>0, <1>11 DEF Sampler, TypeOK, CallPanics, InCache, parentVars, childVars,
       smpVars
  <2>6. Cache' /\ Losses'
    BY <1>0, <1>11, LossesFrame, CacheFrame DEF CallPanics, parentVars, childVars, smpVars
  <2>7. QED
    BY <2>1, <2>2, <2>3, <2>4, <2>5, <2>6 DEF NodeInv
<1>12. ASSUME NEW r \in AllRuns, SendRan(r) PROVE NodeInv'
  <2>1. TypeOK'
    BY <1>0, <1>12 DEF TypeOK, RunPC, SendRan, ToParent, loopVars, parentVars,
       childVars, smpVars
  <2>2. RunPlaces'
    BY <1>0, <1>12 DEF RunPlaces, Active, SendRan, ToParent, loopVars, parentVars,
       childVars, smpVars
  <2>3. SetupPlaces'
    BY <1>0, <1>12 DEF SetupPlaces, SetupMeansReady, ctxDone, SendRan, ToParent,
       loopVars, parentVars, childVars, smpVars
  <2>4. Sampler'
    BY <1>0, <1>12 DEF Sampler, SendRan, ToParent, loopVars, parentVars, childVars,
       smpVars
  <2>5. Losses'
    BY <1>0, <1>12, LossesFrame DEF Lifecycle, RunPlaces, Active, SendRan, ToParent, loopVars,
       parentVars, childVars, smpVars
  <2>6. Lifecycle' /\ Cache'
    BY <1>0, <1>12, LifecycleFrame, CacheFrame DEF SendRan, loopVars, parentVars,
       childVars, smpVars
  <2>7. QED
    BY <2>1, <2>2, <2>3, <2>4, <2>5, <2>6 DEF NodeInv
<1>13. CASE Sample
  <2>1. TypeOK'
    BY <1>0, <1>13 DEF TypeOK, Sample, loopVars, parentVars, runVars, childVars
  <2>2. Sampler'
    BY <1>0, <1>13 DEF Sampler, Sample, loopVars, parentVars, runVars, childVars
  <2>3. Lifecycle' /\ RunPlaces' /\ Cache' /\ SetupPlaces' /\ Losses'
    BY <1>0, <1>13, LossesFrame, LifecycleFrame, RunPlacesFrame, CacheFrame, SetupFrame DEF
       Sample, loopVars, parentVars, runVars, childVars
  <2>4. QED
    BY <2>1, <2>2, <2>3 DEF NodeInv
<1>14. ASSUME NEW r \in Runs, SendLate(r) PROVE NodeInv'
  <2>1. /\ UNCHANGED <<conf, loopVars, cause, parentVars, runVars, childVars, smpVars>>
        /\ lost' = lost \/ lost' = lost \cup {"late"}
        /\ conf.background # {}
    BY <1>14 DEF SendLate, Background, ToParent
  <2>2. TypeOK'
    <3>1. lost' \subseteq {"ran", "data", "error", "log", "sample", "late"}
      BY <1>0, <2>1 DEF TypeOK
    <3>2. QED
      BY <1>0, <2>1, <3>1 DEF TypeOK, loopVars, parentVars, runVars, childVars, smpVars
  <2>3. Losses'
    BY <1>0, <2>1 DEF Losses, loopVars, parentVars
  <2>4. Lifecycle' /\ RunPlaces' /\ Cache' /\ SetupPlaces' /\ Sampler'
    BY <1>0, <2>1, LifecycleFrame, RunPlacesFrame, CacheFrame, SetupFrame, SamplerFrame
       DEF loopVars, parentVars, runVars, childVars, smpVars
  <2>5. QED
    BY <2>2, <2>3, <2>4 DEF NodeInv
<1>15. QED
  BY <1>1, <1>2, <1>3, <1>4, <1>5, <1>6, <1>7, <1>8, <1>9, <1>10, <1>11, <1>12,
     <1>13, <1>14 DEF RunSteps
-----------------------------------------------------------------------------
(* The theorems.                                                           *)

\* newNode leaves the node in a state in which the invariant holds.
LEMMA InitKeeps == Init => NodeInv
<1> SUFFICES ASSUME Init PROVE NodeInv
  OBVIOUS
<1> USE NodeAssumption DEF AllRuns, Init
<1>1. TypeOK
  <2>1. smpCxl \in BOOLEAN /\ ok \in [AllRuns -> BOOLEAN]
    OBVIOUS
  <2>2. stack \in Seq(AllRuns)
    OBVIOUS
  <2>3. QED
    BY <2>1, <2>2 DEF TypeOK, States, RunPC, NoChild
<1>2. Lifecycle /\ RunPlaces /\ Cache /\ Sampler /\ Losses
  BY DEF Lifecycle, RunPlaces, Cache, Sampler, Losses, Active, InCache, ctxDone
<1>3. SetupPlaces
  <2>1. {c \in Children : srep[c] = "read"} = {}
    OBVIOUS
  <2>2. QED
    BY <2>1, FS_EmptySet DEF SetupPlaces, SetupMeansReady
<1>4. QED
  BY <1>1, <1>2, <1>3 DEF NodeInv

\* A step in which nothing changes.
LEMMA StutterKeeps ==
    ASSUME NodeInv, UNCHANGED vars
    PROVE  NodeInv'
<1> USE DEF NodeInv, vars, loopVars, parentVars, runVars, childVars, smpVars
<1>1. TypeOK'
  BY DEF TypeOK
<1>2. Lifecycle' /\ RunPlaces' /\ Cache' /\ SetupPlaces' /\ Sampler' /\ Losses'
  BY LossesFrame, LifecycleFrame, RunPlacesFrame, CacheFrame, SetupFrame, SamplerFrame
<1>3. QED
  BY <1>1, <1>2

\* Every step of the node's goroutines, of its children and of its parent keeps
\* the invariant.
LEMMA NextKeeps == NodeInv /\ [Next]_vars => NodeInv'
<1> SUFFICES ASSUME NodeInv, [Next]_vars PROVE NodeInv'
  OBVIOUS
<1>1. CASE UNCHANGED vars
  BY <1>1, StutterKeeps
<1>2. CASE /\ state # "crashed"
           /\ Handle \/ Advance \/ Environment \/ HandleRuns \/ SetupSteps \/ RunSteps
  BY <1>2, HandleKeeps, AdvanceKeeps, EnvironmentKeeps, HandleRunsKeeps, SetupKeeps,
     RunKeeps
<1>3. QED
  BY <1>1, <1>2 DEF Next

\* The invariant holds throughout, for any number of Runs and children and any
\* of their failures.
THEOREM NodeCorrect == Spec => []NodeInv
<1>1. QED
  BY InitKeeps, NextKeeps, PTL DEF Spec

\* When the final message is sent, nothing of the Runs, the cancelers and the
\* children is left, and only the log of a late Run and what goroutines in the
\* background send is dropped.
THEOREM QuiescentAlways == Spec => []Quiescent
<1>1. NodeInv => Quiescent
  <2> SUFFICES ASSUME NodeInv PROVE Quiescent
    OBVIOUS
  <2>1. /\ TypeOK /\ Lifecycle /\ RunPlaces /\ Cache /\ Sampler /\ Losses
    BY DEF NodeInv
  <2>2. ASSUME pconn = "canceled"
        PROVE  /\ \A c \in Children : ~InCache(c) /\ cev[c] = "none"
               /\ hr = "done" /\ stack = <<>> /\ contextDone
    BY <2>1, <2>2 DEF Cache, Lifecycle
  <2>3. /\ lost \subseteq {"log", "sample", "late"}
        /\ conf.background = {} => lost \subseteq {"log"}
        /\ loop = "blocked" =>
              "parent" \in conf.faulty \/ Samplers \cap conf.background # {}
    BY <2>1 DEF Losses
  <2>4. QED
    BY <2>1, <2>2, <2>3, SamplerOff DEF Quiescent
<1>2. QED
  BY <1>1, NodeCorrect, PTL

\* An OK reply to setup means that every child is up and has replied OK.
THEOREM SetupMeansReadyAlways == Spec => []SetupMeansReady
<1>1. NodeInv => SetupMeansReady
  BY DEF NodeInv, SetupPlaces
<1>2. QED
  BY <1>1, NodeCorrect, PTL

-----------------------------------------------------------------------------
(* The refinement of NodeService.  A step that the parent cannot see moves *)
(* the Runs from active to active, and leaves the phase alone; the others  *)
(* are a Run taken from the parent, a reply, and the entries to the last   *)
(* two states.                                                             *)

Unseen ==
    /\ UNCHANGED pconn /\ Phase' = Phase
    /\ \A r \in AllRuns : run'[r] = run[r] \/ (Active(r) /\ Active(r)')

\* A step that leaves the Runs and the state alone is not seen.
LEMMA UnseenFrame ==
    ASSUME UNCHANGED <<state, pconn, run>>
    PROVE  Unseen
BY DEF Unseen, Phase

\* A step that moves one active Run to another place is not seen.
LEMMA UnseenMove ==
    ASSUME NEW r \in AllRuns, NEW k, run \in [AllRuns -> RunPC], Active(r),
           k \notin {"none", "done", "dropped"}, run' = [run EXCEPT ![r] = k],
           UNCHANGED <<state, pconn>>
    PROVE  Unseen
<1>1. run'[r] = k /\ \A q \in AllRuns : q # r => run'[q] = run[q]
  OBVIOUS
<1>2. Active(r)'
  BY <1>1 DEF Active
<1>3. QED
  BY <1>1, <1>2 DEF Unseen, Phase

\* A step that answers the Runs waiting for a child is not seen.
LEMMA UnseenFail ==
    ASSUME NEW c \in Children, FailRPC(c), UNCHANGED <<state, pconn>>
    PROVE  Unseen
<1>1. ASSUME NEW r \in AllRuns PROVE run'[r] = run[r] \/ (Active(r) /\ Active(r)')
  BY <1>1 DEF FailRPC, Active
<1>2. QED
  BY <1>1 DEF Unseen, Phase

\* Of the events that the loop takes, the parent sees that its Run was taken.
LEMMA HandleSeen ==
    ASSUME NodeInv, Handle
    PROVE  Unseen \/ \E r \in AllRuns : HandleRun(r)
<1>1. run \in [AllRuns -> RunPC]
  BY DEF NodeInv, TypeOK
<1>2. ASSUME NEW r \in AllRuns, HandleRunError(r) PROVE Unseen
  <2>1. Active(r) /\ UNCHANGED <<state, pconn>>
    BY <1>2 DEF HandleRunError, Active, parentVars
  <2>2. PICK k \in {"reply", "body"} : run' = [run EXCEPT ![r] = k]
    BY <1>2 DEF HandleRunError
  <2>3. QED
    BY <1>1, <2>1, <2>2, UnseenMove
<1>3. CASE HandleCancel \/ HandleParentError \/ HandleContextDone \/ HandleRunsDone
  BY <1>3, UnseenFrame DEF HandleCancel, HandleParentError, HandleContextDone,
     HandleRunsDone, runVars, parentVars
<1>4. CASE HandleParentDone \/ HandleParentCloseError \/ HandleCancelerError
         \/ HandleSample
  BY <1>4, UnseenFrame DEF HandleParentDone, HandleParentCloseError,
     HandleCancelerError, HandleSample, Blocks, runVars, parentVars
<1>5. ASSUME NEW c \in Children, HandleChild(c) \/ HandleChildDone(c) PROVE Unseen
  BY <1>5, UnseenFrame DEF HandleChild, HandleChildDone, runVars, parentVars
<1>6. QED
  BY <1>2, <1>3, <1>4, <1>5 DEF Handle, HandleOther

\* Of advance, it sees the final message and the end.
LEMMA AdvanceSeen ==
    ASSUME NodeInv, Advance
    PROVE  Unseen \/ EnterCanceled \/ EnterDone
<1>1. CASE EnterCancel
  <2>1. Phase' = Phase
    BY <1>1 DEF EnterCancel, Phase, parentVars
  <2>2. QED
    BY <1>1, <2>1 DEF Unseen, EnterCancel, runVars, parentVars
<1>2. CASE NotDone \/ StopSamplers \/ SamplersStopped \/ CancelChildren
  BY <1>2, UnseenFrame DEF NotDone, StopSamplers, SamplersStopped, CancelChildren,
     runVars, parentVars
<1>3. ASSUME NEW c \in Children, Delete(c) PROVE Unseen
  BY <1>3, UnseenFrame DEF Delete, runVars, parentVars
<1>4. QED
  BY <1>1, <1>2, <1>3 DEF Advance

\* What the parent and the children send is not seen before it is handled.
LEMMA EnvironmentSeen ==
    ASSUME NodeInv, Environment
    PROVE  Unseen
<1>1. run \in [AllRuns -> RunPC]
  BY DEF NodeInv, TypeOK
<1>2. CASE Interrupt \/ ParentEnds \/ ParentSendFails
  BY <1>2, UnseenFrame DEF Interrupt, ParentEnds, ParentSendFails, loopVars, runVars,
     parentVars
<1>3. ASSUME NEW r \in AllRuns, ParentRun(r) PROVE Unseen
  BY <1>3, UnseenFrame DEF ParentRun, loopVars, runVars
<1>4. ASSUME NEW c \in Children, ChildEvent(c) PROVE Unseen
  BY <1>4, UnseenFrame DEF ChildEvent, loopVars, runVars, parentVars
<1>5. ASSUME NEW c \in Children, ChildEnds(c) \/ ChildDone(c) PROVE Unseen
  <2>1. UNCHANGED <<state, pconn>> /\ (UNCHANGED run \/ FailRPC(c))
    BY <1>5 DEF ChildEnds, ChildDone, loopVars, parentVars
  <2>2. QED
    BY <2>1, UnseenFrame, UnseenFail
<1>6. ASSUME NEW c \in Children, NEW r \in AllRuns, ChildRan(r, c) PROVE Unseen
  <2>1. UNCHANGED <<state, pconn>>
    BY <1>6 DEF ChildRan, loopVars, parentVars
  <2>2. CASE UNCHANGED run
    BY <2>1, <2>2, UnseenFrame
  <2>3. CASE run[r] = "rpc" /\ run' = [run EXCEPT ![r] = "body"]
    BY <1>1, <2>1, <2>3, UnseenMove DEF Active
  <2>4. QED
    BY <1>6, <2>2, <2>3 DEF ChildRan
<1>7. QED
  BY <1>2, <1>3, <1>4, <1>5, <1>6 DEF Environment

\* handleRuns and the cancelers send nothing but events.
LEMMA HandleRunsSeen ==
    ASSUME HandleRuns
    PROVE  Unseen
BY UnseenFrame DEF HandleRuns, RunsReturned, RunCanceler, CancelersDone, loopVars,
   parentVars

\* The setup Run is active until it has replied.
LEMMA SetupSeen ==
    ASSUME NodeInv, SetupSteps
    PROVE  Unseen
<1>1. run \in [AllRuns -> RunPC] /\ Setup \in AllRuns
  BY DEF NodeInv, TypeOK, AllRuns
<1>2. ASSUME NEW c \in Children, SetupChild(c) PROVE Unseen
  BY <1>2, UnseenFrame DEF SetupChild, loopVars, parentVars, runVars
<1>3. ASSUME run[Setup] \in {"body", "launch", "wait"}, UNCHANGED <<state, pconn>>,
             NEW k \in {"body", "launch", "wait", "error", "reply"},
             run' = [run EXCEPT ![Setup] = k]
      PROVE  Unseen
  BY <1>1, <1>3, UnseenMove DEF Active
<1>4. ASSUME NEW c \in Children, SetupReply(c) PROVE Unseen
  <2>1. /\ run[Setup] = "wait" /\ UNCHANGED <<state, pconn>>
        /\ UNCHANGED run \/ run' = [run EXCEPT ![Setup] = "error"]
    BY <1>4 DEF SetupReply, loopVars, parentVars
  <2>2. QED
    BY <2>1, <1>3, UnseenFrame
<1>5. ASSUME NEW c \in Children, Launch(c) PROVE Unseen
  BY <1>5, <1>3 DEF Launch, loopVars, parentVars
<1>6. CASE Launched
  BY <1>6, <1>3 DEF Launched, loopVars, parentVars
<1>7. CASE SetupFails
  BY <1>7, <1>3 DEF SetupFails, loopVars, parentVars
<1>8. CASE SetupWaits \/ SetupDone
  BY <1>8, <1>3 DEF SetupWaits, SetupDone, loopVars, parentVars
<1>9. CASE SetupCanceled
  BY <1>9, <1>3 DEF SetupCanceled, loopVars, parentVars
<1>10. QED
  BY <1>2, <1>4, <1>5, <1>6, <1>7, <1>8, <1>9 DEF SetupSteps

\* Of the other Runs, the parent sees the reply.  A panic that is not recovered
\* comes before the final message.
LEMMA RunSeen ==
    ASSUME NodeInv, RunSteps
    PROVE  Unseen \/ \E r \in AllRuns : SendRan(r)
<1>1. run \in [AllRuns -> RunPC] /\ Runs \subseteq AllRuns
  BY DEF NodeInv, TypeOK, AllRuns
<1>2. ASSUME NEW r \in Runs, LeaveCanceler(r) \/ SendData(r) \/ SendLate(r)
      PROVE  Unseen
  BY <1>2, UnseenFrame DEF LeaveCanceler, SendData, SendLate, loopVars, parentVars, runVars
<1>3. CASE Sample
  BY <1>3, UnseenFrame DEF Sample, loopVars, parentVars, runVars
<1>4. ASSUME NEW r \in Runs, run[r] = "body", NEW k \in {"rpc", "error", "reply"},
             run' = [run EXCEPT ![r] = k], UNCHANGED <<state, pconn>>
      PROVE  Unseen
  BY <1>1, <1>4, UnseenMove DEF Active
<1>5. ASSUME NEW r \in Runs, Fail(r) \/ Return(r) PROVE Unseen
  BY <1>4, <1>5 DEF Fail, Return, loopVars, parentVars
<1>6. ASSUME NEW r \in Samplers,
             Add(r) \/ Added(r) \/ Remove(r) \/ Removed(r) \/ Stopped(r)
      PROVE  Unseen
  BY <1>6, UnseenFrame DEF Add, Added, Remove, Removed, Stopped, loopVars, parentVars,
     runVars
<1>7. ASSUME NEW r \in Runs, NEW c \in Children, CallChild(r, c) PROVE Unseen
  <2>1. /\ run[r] = "body" /\ UNCHANGED <<state, pconn>>
        /\ UNCHANGED run \/ run' = [run EXCEPT ![r] = "rpc"]
    BY <1>7 DEF CallChild, loopVars, parentVars
  <2>2. QED
    BY <1>4, <2>1, UnseenFrame
<1>8. ASSUME NEW r \in Runs, NEW c \in Children, CallPanics(r, c) PROVE Unseen
  <2>1. run[r] = "body" /\ UNCHANGED pconn
    BY <1>8 DEF CallPanics, parentVars
  <2>2. CASE UNCHANGED state /\ run' = [run EXCEPT ![r] = "error"]
    BY <1>4, <2>1, <2>2
  <2>3. CASE state' = "crashed" /\ UNCHANGED run
    <3>1. hr = "range"
      BY <1>1, <2>1 DEF NodeInv, RunPlaces, Active
    <3>2. state # "done"
      BY <3>1 DEF NodeInv, Lifecycle
    <3>3. QED
      BY <2>1, <2>3, <3>2 DEF Unseen, Phase
  <2>4. QED
    BY <1>8, <2>2, <2>3 DEF CallPanics
<1>9. QED
  BY <1>2, <1>3, <1>5, <1>6, <1>7, <1>8 DEF RunSteps

-----------------------------------------------------------------------------

\* A step that is not seen leaves what NodeService knows as it is.
LEMMA UnseenStutters ==
    ASSUME Unseen
    PROVE  UNCHANGED Service!svars
<1>1. \A r \in AllRuns : Fate(r)' = Fate(r)
  BY DEF Unseen, Fate, Active
<1>2. [r \in AllRuns |-> Fate(r)]' = [r \in AllRuns |-> Fate(r)]
  BY <1>1
<1>3. QED
  BY <1>2 DEF Unseen, Service!svars

\* A Run whose place changes by itself changes its fate by itself.
LEMMA FateMoves ==
    ASSUME NEW r \in AllRuns, NEW k, run \in [AllRuns -> RunPC],
           run' = [run EXCEPT ![r] = k], NEW v, Fate(r)' = v
    PROVE  [q \in AllRuns |-> Fate(q)]' = [[q \in AllRuns |-> Fate(q)] EXCEPT ![r] = v]
<1>1. \A q \in AllRuns : q # r => Fate(q)' = Fate(q)
  BY DEF Fate
<1>2. QED
  BY <1>1

\* The loop takes a Run: it accepts it in stateRun, and refuses it afterwards.
LEMMA HandleRunServes ==
    ASSUME NodeInv, NEW r \in AllRuns, HandleRun(r)
    PROVE  Service!Accept(r) \/ Service!Refuse(r)
<1>1. /\ run \in [AllRuns -> RunPC] /\ precv = r /\ loop = "select"
      /\ UNCHANGED <<state, pconn>>
  BY DEF NodeInv, TypeOK, HandleRun, Take
<1>2. run[r] = "none"
  BY <1>1 DEF NodeInv, RunPlaces
<1>3. state # "done" /\ (state = "run" => pconn # "canceled") /\ UNCHANGED Phase
  BY <1>1 DEF NodeInv, Lifecycle, Phase
<1>4. CASE state = "run"
  <2>1. run' = [run EXCEPT ![r] = "body"]
    BY <1>4 DEF HandleRun
  <2>2. Fate(r) = "none" /\ Fate(r)' = "open"
    BY <1>1, <1>2, <2>1 DEF Fate
  <2>3. Phase = "serving"
    BY <1>3, <1>4 DEF Phase
  <2>4. QED
    BY <1>1, <1>3, <2>1, <2>2, <2>3, FateMoves DEF Service!Accept
<1>5. CASE state # "run"
  <2>1. run' = [run EXCEPT ![r] = "dropped"]
    BY <1>5 DEF HandleRun
  <2>2. Fate(r) = "none" /\ Fate(r)' = "refused"
    BY <1>1, <1>2, <2>1 DEF Fate
  <2>3. Phase # "done"
    BY <1>3 DEF Phase
  <2>4. QED
    BY <1>1, <1>3, <2>1, <2>2, <2>3, FateMoves DEF Service!Refuse
<1>6. QED
  BY <1>4, <1>5

\* handleRuns sends a reply, while the parent conn is open.
LEMMA SendRanServes ==
    ASSUME NodeInv, NEW r \in AllRuns, SendRan(r)
    PROVE  Service!Answer(r)
<1>1. /\ run \in [AllRuns -> RunPC] /\ run[r] = "reply"
      /\ run' = [run EXCEPT ![r] = "done"] /\ UNCHANGED <<state, pconn>>
  BY DEF NodeInv, TypeOK, SendRan, loopVars, parentVars
<1>2. hr = "range"
  BY <1>1 DEF NodeInv, RunPlaces, Active
<1>3. pconn # "canceled" /\ state # "done"
  BY <1>2 DEF NodeInv, Lifecycle
<1>4. Phase = "serving" /\ UNCHANGED Phase
  BY <1>1, <1>3 DEF Phase
<1>5. Fate(r) = "open" /\ Fate(r)' = "answered"
  BY <1>1 DEF Fate
<1>6. QED
  BY <1>1, <1>4, <1>5, FateMoves DEF Service!Answer

\* The entry to stateCanceled: no Run is open.
LEMMA EnterCanceledServes ==
    ASSUME NodeInv, EnterCanceled
    PROVE  Service!Final
<1>1. /\ state = "cancel" /\ state' = "canceled" /\ pconn' = "canceled" /\ UNCHANGED run
      /\ runsDone
  BY DEF EnterCanceled, StateDone, runVars
<1>2. pconn # "canceled" /\ hr = "done"
  BY <1>1 DEF NodeInv, Lifecycle
<1>3. \A r \in AllRuns : Fate(r) # "open" /\ Fate(r)' = Fate(r)
  BY <1>1, <1>2 DEF NodeInv, RunPlaces, Active, Fate
<1>4. Phase = "serving" /\ Phase' = "final"
  BY <1>1, <1>2 DEF Phase
<1>5. QED
  BY <1>3, <1>4 DEF Service!Final

\* The entry to stateDone.
LEMMA EnterDoneServes ==
    ASSUME NodeInv, EnterDone
    PROVE  Service!Done
<1>1. state = "canceled" /\ state' = "done" /\ UNCHANGED run
  BY DEF EnterDone, runVars
<1>2. Phase = "final" /\ Phase' = "done"
  BY <1>1 DEF NodeInv, Lifecycle, Phase
<1>3. \A r \in AllRuns : Fate(r)' = Fate(r)
  BY <1>1 DEF Fate
<1>4. QED
  BY <1>2, <1>3 DEF Service!Done

\* Each step of the node is a step of NodeService, or none.
LEMMA NextServes == NodeInv /\ [Next]_vars => [Service!Next]_(Service!svars)
<1> SUFFICES ASSUME NodeInv, [Next]_vars PROVE [Service!Next]_(Service!svars)
  OBVIOUS
<1>1. CASE UNCHANGED vars
  BY <1>1, UnseenFrame, UnseenStutters DEF vars, loopVars, parentVars, runVars
<1>2. CASE Handle \/ Advance \/ Environment \/ HandleRuns \/ SetupSteps \/ RunSteps
  <2>1. \/ Unseen \/ EnterCanceled \/ EnterDone
        \/ \E r \in AllRuns : HandleRun(r) \/ SendRan(r)
    BY <1>2, HandleSeen, AdvanceSeen, EnvironmentSeen, HandleRunsSeen, SetupSeen, RunSeen
  <2>2. CASE Unseen
    BY <2>2, UnseenStutters
  <2>3. CASE EnterCanceled \/ EnterDone
    BY <2>3, EnterCanceledServes, EnterDoneServes DEF Service!Next
  <2>4. ASSUME NEW r \in AllRuns, HandleRun(r) \/ SendRan(r) PROVE Service!Next
    BY <2>4, HandleRunServes, SendRanServes DEF Service!Next
  <2>5. QED
    BY <2>1, <2>2, <2>3, <2>4
<1>3. QED
  BY <1>1, <1>2 DEF Next

\* The node implements NodeService: it answers each Run that it accepts, at most
\* once and never after the final message, which it sends when none is open.
THEOREM ImplementsService == Spec => KeepsPromise
<1>1. Init => Service!Init
  BY DEF Init, Service!Init, Phase, Fate
<1>2. QED
  BY <1>1, NextServes, NodeCorrect, PTL DEF Spec, KeepsPromise, Service!Spec

-----------------------------------------------------------------------------
(* The report pipeline (Pipeline), for any reporters, data, multiReporters *)
(* and capacity of the channels.                                           *)

\* The sizes of a pipeline, which do not change while it runs.
LEMMA Sizes ==
    ASSUME IsPipeline(pipe)
    PROVE  /\ N \in Nat /\ N >= 1 /\ Multi \in Nat
           /\ Stages = 1..N /\ Reporters = 1..Multi
           /\ Sources = (1..N) \cup {N + j : j \in 1..Multi}
           /\ \A i \in 1..N : Report[i] \in Kinds
           /\ Fails \in BOOLEAN
BY DEF IsPipeline, N, Multi, Report, Stages, Reporters, Sources, Fails

\* What is defined by the conf stays as it is.
LEMMA SameConf ==
    ASSUME UNCHANGED pipe
    PROVE  /\ Report' = Report /\ Data' = Data /\ Multi' = Multi /\ N' = N
           /\ Stages' = Stages /\ Reporters' = Reporters /\ Sources' = Sources
           /\ Items' = Items /\ Mem' = Mem /\ Matched' = Matched /\ Fails' = Fails
BY DEF Report, Data, Multi, N, Stages, Reporters, Sources, Items, Mem, Matched, Fails

\* The items: each FileData has its FileRef, and none of them is NoItem.
LEMMA ItemFacts ==
    ASSUME IsPipeline(pipe)
    PROVE  /\ {Analysis, Error, FileData("stats")} \subseteq Items /\ NoItem \notin Items
           /\ \A d \in Items : d.kind = "FileData" => FileRef(d.name) \in Items
           /\ Data \in Seq(Items)
<1>1. {Analysis, Error, FileData("stats"), FileRef("stats")} \subseteq Items
  BY DEF Items
<1>2. Data \in Seq([kind : STRING \ {"none"}, name : STRING, id : Nat])
  BY DEF IsPipeline, Data
<1>3. \A d \in Range(Data) : d.kind # "none"
  <2> DEFINE S == [kind : STRING \ {"none"}, name : STRING, id : Nat]
  <2>1. \A d \in S : d.kind # "none"
    OBVIOUS
  <2>2. \A i \in DOMAIN Data : Data[i] \in S
    <3>1. Data \in Seq(S)
      BY <1>2
    <3> HIDE DEF S
    <3>2. QED
      BY <3>1
  <2>3. QED
    BY <2>1, <2>2 DEF Range
<1>4. NoItem \notin Items
  <2>1. ASSUME NEW d \in Items PROVE d.kind # "none"
    <3>1. \/ d \in Range(Data)
          \/ d \in {Analysis, Error, FileData("stats"), FileRef("stats")}
          \/ \E e \in Range(Data) : d = FileRef(e.name)
      BY DEF Items
    <3>2. QED
      BY <1>3, <3>1 DEF Analysis, Error, FileData, FileRef
  <2>2. NoItem.kind = "none"
    BY DEF NoItem
  <2>3. QED
    BY <2>1, <2>2
<1>5. ASSUME NEW d \in Items, d.kind = "FileData" PROVE FileRef(d.name) \in Items
  <2>1. CASE d \in Range(Data)
    BY <2>1 DEF Items
  <2>2. CASE d = FileData("stats")
    <3>1. d.name = "stats"
      BY <2>2 DEF FileData
    <3>2. QED
      BY <1>1, <3>1
  <2>3. QED
    BY <1>5, <2>1, <2>2 DEF Items, Analysis, Error, FileRef
<1>6. \A i \in 1..Len(Data) : Data[i] \in Items
  BY <1>2 DEF Items, Range
<1>7. Data \in Seq(Items)
  BY <1>2, <1>6
<1>8. QED
  BY <1>1, <1>4, <1>5, <1>7

\* What a reporter may do.
IsOutcome(o) == 
    /\ o.out \in Seq(Items) /\ o.mem \in Mem /\ o.next \in {"report", "error", "drain"}

\* An outcome of items, memory and a way to go on is one.
LEMMA OutcomeFacts ==
    ASSUME NEW o \in Seq(Items), NEW m \in Mem, NEW k \in {"report", "error", "drain"}
    PROVE  IsOutcome(Outcome(o, m, k))
BY DEF IsOutcome, Outcome

\* So are the ones with a failure added.
LEMMA OrFailFacts ==
    ASSUME NEW S, \A x \in S : IsOutcome(x), NEW o \in Seq(Items), NEW m \in Mem
    PROVE  \A x \in OrFail(S, o, m) : IsOutcome(x)
BY OutcomeFacts DEF OrFail

\* Short sequences of items.
LEMMA SeqFacts ==
    /\ <<>> \in Seq(Items)
    /\ \A d \in Items : <<d>> \in Seq(Items)
    /\ \A d, e \in Items : <<d, e>> \in Seq(Items)
OBVIOUS

\* Whatever reporter takes an item, what it does with it is an outcome.
LEMMA ReactFacts ==
    ASSUME IsPipeline(pipe), NEW k \in Kinds, k # "readData", NEW m \in Mem, NEW d \in Items
    PROVE  \A o \in React(k, m, d) : IsOutcome(o)
<1> USE SeqFacts
<1>1. IsOutcome(Outcome(<<d>>, m, "report")) /\ IsOutcome(Outcome(<<>>, m, "report"))
  BY OutcomeFacts
<1>2. CASE k = "SaveFiles"
  <2>1. CASE d.kind # "FileData"
    BY <1>1, <1>2, <2>1 DEF React, SaveFiles
  <2>2. CASE d.kind = "FileData"
    <3> DEFINE m1 == [m EXCEPT !.names = @ \cup {d.name}]
               o == IF d.name \in m.names THEN <<>> ELSE <<FileRef(d.name)>>
    <3>1. m1 \in Mem
      BY DEF Mem
    <3>2. o \in Seq(Items)
      BY <2>2, ItemFacts
    <3>3. IsOutcome(Outcome(o, m1, "report"))
      BY <3>1, <3>2, OutcomeFacts
    <3>4. React(k, m, d) = OrFail({Outcome(o, m1, "report")}, o, m1)
      BY <1>2, <2>2 DEF React, SaveFiles
    <3> HIDE DEF m1, o
    <3>5. QED
      BY <3>1, <3>2, <3>3, <3>4, OrFailFacts
  <2>3. QED
    BY <2>1, <2>2
<1>3. CASE k = "EmitLog"
  <2>1. \A o \in OrFail({Outcome(<<d>>, m, "report")}, <<d>>, m) : IsOutcome(o)
    BY <1>1, OrFailFacts
  <2>2. QED
    BY <1>1, <1>3, <2>1 DEF React, EmitLog
<1>4. CASE k = "Encode"
  <2>1. ASSUME NEW o \in {<<d>>, <<>>}
        PROVE  \A x \in OrFail({Outcome(o, m, "report")}, <<>>, m) : IsOutcome(x)
    BY <1>1, OrFailFacts
  <2>2. QED
    BY <1>1, <1>4, <2>1 DEF React, Encode
<1>5. CASE k = "EmitStreamStats"
  <2>1. IsOutcome(Outcome(<<d, FileData("stats")>>, m, "drain"))
    BY OutcomeFacts, ItemFacts
  <2>2. \A x \in OrFail({Outcome(<<d, FileData("stats")>>, m, "drain")}, <<d>>,
        m) : IsOutcome(x)
    BY <2>1, OrFailFacts
  <2>3. QED
    BY <1>1, <1>5, <2>2 DEF React, EmitStreamStats
<1>6. CASE k = "Analyze"
  BY <1>1, <1>6 DEF React, Analyze
<1>7. CASE k = "writeData"
  <2> DEFINE m1 == [m EXCEPT !.err = @ \/ d.kind = "Error"]
  <2>1. (m.err \/ d.kind = "Error") \in BOOLEAN
    BY DEF Mem
  <2>2. m1 \in Mem
    BY <2>1 DEF Mem
  <2>3. IsOutcome(Outcome(<<>>, m1, "report"))
    BY <2>2, OutcomeFacts
  <2>4. React(k, m, d) = OrFail({Outcome(<<>>, m1, "report")}, <<>>, m)
    BY <1>7 DEF React, writeData
  <2> HIDE DEF m1
  <2>5. QED
    BY <2>3, <2>4, OrFailFacts
<1>8. QED
  BY <1>2, <1>3, <1>4, <1>5, <1>6, <1>7 DEF Kinds

\* So is what it does at the end of its in channel.
LEMMA AtEndFacts ==
    ASSUME IsPipeline(pipe), NEW k, NEW m \in Mem
    PROVE  \A o \in AtEnd(k, m) : IsOutcome(o)
<1> USE SeqFacts
<1>1. IsOutcome(Outcome(<<>>, m, "drain")) /\ IsOutcome(Outcome(<<>>, m, "error"))
  BY OutcomeFacts
<1>2. IsOutcome(Outcome(<<Analysis>>, m,
      "drain")) /\ IsOutcome(Outcome(<<FileData("stats")>>, m, "drain"))
  BY OutcomeFacts, ItemFacts
<1>3. /\ \A o \in OrFail({Outcome(<<>>, m, "drain")}, <<>>, m) : IsOutcome(o)
      /\ \A o \in OrFail({Outcome(<<FileData("stats")>>, m, "drain")}, <<>>, m) : IsOutcome(o)
  BY <1>1, <1>2, OrFailFacts
<1>4. QED
  BY <1>1, <1>2, <1>3 DEF AtEnd

\* Where the goroutine of a stage may be.
PCs == {"report", "error", "drain", "panicking", "close", "closePanic", "recover", "done"}

\* A goroutine receives from one of the channels f.
LEMMA TakeOne ==
    ASSUME NEW D, NEW f \in [D -> Seq(Items)], Cap \in Nat, \A x \in D : Len(f[x]) <= Cap,
           NEW k \in D, f[k] # <<>>, NEW g, g = [f EXCEPT ![k] = Tail(@)]
    PROVE  /\ g \in [D -> Seq(Items)] /\ \A x \in D : Len(g[x]) <= Cap
           /\ g[k] = Tail(f[k]) /\ \A x \in D : x # k => g[x] = f[x]
           /\ Head(f[k]) \in Items
<1>1. /\ Tail(f[k]) \in Seq(Items) /\ Head(f[k]) \in Items
      /\ Len(Tail(f[k])) = Len(f[k]) - 1 /\ Len(f[k]) \in Nat
  OBVIOUS
<1>2. g[k] = Tail(f[k]) /\ \A x \in D : x # k => g[x] = f[x]
  OBVIOUS
<1>3. g \in [D -> Seq(Items)]
  BY <1>1
<1>4. \A x \in D : Len(g[x]) <= Cap
  BY <1>1, <1>2
<1>5. QED
  BY <1>1, <1>2, <1>3, <1>4

\* A goroutine sends to one of the channels f, which is not full.
LEMMA PutOne ==
    ASSUME NEW D, NEW f \in [D -> Seq(Items)], Cap \in Nat, \A x \in D : Len(f[x]) <= Cap,
           NEW k \in D, Len(f[k]) < Cap, NEW d \in Items, NEW g,
              g = [f EXCEPT ![k] = Append(@, d)]
    PROVE  /\ g \in [D -> Seq(Items)] /\ \A x \in D : Len(g[x]) <= Cap
           /\ g[k] = Append(f[k], d) /\ \A x \in D : x # k => g[x] = f[x]
<1>1. /\ Append(f[k], d) \in Seq(Items)
      /\ Len(Append(f[k], d)) = Len(f[k]) + 1 /\ Len(f[k]) \in Nat
  OBVIOUS
<1>2. g[k] = Append(f[k], d) /\ \A x \in D : x # k => g[x] = f[x]
  OBVIOUS
<1>3. g \in [D -> Seq(Items)]
  BY <1>1
<1>4. \A x \in D : Len(g[x]) <= Cap
  BY <1>1, <1>2
<1>5. QED
  BY <1>1, <1>2, <1>3, <1>4

\* A stage has done what its reporter decided.
LEMMA DoFacts ==
    ASSUME IsPipeline(pipe), PipeTypeOK, NEW i \in Stages, NEW o, IsOutcome(o), Do(i, o)
    PROVE  /\ hold' \in [Stages -> Seq(Items)] /\ mem' \in [Stages -> Mem]
           /\ pc' \in [Stages -> PCs] /\ failed' \subseteq Sources
           /\ pc'[i] = o.next
           /\ \A k \in Stages : k # i => pc'[k] = pc[k] /\ hold'[k] = hold[k]
           /\ failed' = IF o.next = "error" THEN failed \cup {i} ELSE failed
<1>1. hold' \in [Stages -> Seq(Items)] /\ \A k \in Stages : k # i => hold'[k] = hold[k]
  BY DEF PipeTypeOK, StagesOK, IsOutcome, Do
<1>2. mem' \in [Stages -> Mem]
  BY DEF PipeTypeOK, StagesOK, IsOutcome, Do
<1>3. /\ pc' \in [Stages -> PCs] /\ pc'[i] = o.next
      /\ \A k \in Stages : k # i => pc'[k] = pc[k]
  BY DEF PipeTypeOK, StagesOK, IsOutcome, Do, PCs
<1>4. /\ failed' \subseteq Sources
      /\ failed' = IF o.next = "error" THEN failed \cup {i} ELSE failed
  BY DEF PipeTypeOK, ErrorsOK, Do, Sources
<1>5. QED
  BY <1>1, <1>2, <1>3, <1>4

\* A stage goes on, and fails or not: its error is on its way.
LEMMA DoErrors ==
    ASSUME IsPipeline(pipe), Errors, NEW i \in Stages, pc[i] = "report",
           NEW k \in {"report", "error", "drain", "panicking"}, pc'[i] = k,
           \A h \in Stages : h # i => pc'[h] = pc[h],
           failed' = IF k \in {"error", "panicking"} THEN failed \cup {i} ELSE failed,
           UNCHANGED <<pipe, merge, reported, mpc>>
    PROVE  Errors'
<1>1. \A h \in Stages : Failing(h)' <=> IF h = i THEN k \in {"error",
      "panicking"} ELSE Failing(h)
  BY DEF Failing
<1>2. ~Failing(i)
  BY DEF Failing
<1>3. \A j \in Reporters : N + j # i
  BY Sizes
<1>4. QED
  BY <1>1, <1>2, <1>3, SameConf DEF Errors

\* A stage that has not returned may receive.
LEMMA ReportChannels ==
    ASSUME IsPipeline(pipe), Channels, NEW i \in Stages, pc[i] = "report",
           pc'[i] \in {"report", "error", "drain", "panicking"},
           \A k \in Stages : k # i => pc'[k] = pc[k] /\ hold'[k] = hold[k],
           \A k \in 0..N : k # i - 1 => ch'[k] = ch[k],
           UNCHANGED <<pipe, closed, src>>
    PROVE  Channels'
<1>1. \A k \in Stages : k # i => In(k)' = In(k)
  BY Sizes DEF In
<1>2. \A k \in Stages : k # i => (Idle(k)' <=> Idle(k)) /\ (EndOfIn(k)' <=> EndOfIn(k))
  BY <1>1 DEF Idle, EndOfIn
<1>3. QED
  BY <1>2, SameConf DEF Channels
-----------------------------------------------------------------------------
(* The types.                                                              *)

\* What a step leaves alone keeps its type.
LEMMA TypeFrames ==
    ASSUME PipeTypeOK, UNCHANGED pipe
    PROVE  /\ UNCHANGED stageVars => StagesOK'
           /\ UNCHANGED errVars => ErrorsOK'
           /\ UNCHANGED teeVars => TeesOK'
           /\ failed' \subseteq Sources /\ UNCHANGED <<merge, reported, caller, canceled>>
                => ErrorsOK'
           /\ UNCHANGED <<src, sent>> => src' \in Seq(Items') /\ sent' \in Seq(Items')
<1>1. UNCHANGED stageVars => StagesOK'
  BY SameConf DEF PipeTypeOK, StagesOK, stageVars
<1>2. UNCHANGED errVars => ErrorsOK'
  BY SameConf DEF PipeTypeOK, ErrorsOK, errVars
<1>3. UNCHANGED teeVars => TeesOK'
  BY SameConf DEF PipeTypeOK, TeesOK, teeVars
<1>4. failed' \subseteq Sources /\ UNCHANGED <<merge, reported, caller, canceled>> => ErrorsOK'
  BY SameConf DEF PipeTypeOK, ErrorsOK
<1>5. UNCHANGED <<src, sent>> => src' \in Seq(Items') /\ sent' \in Seq(Items')
  BY SameConf DEF PipeTypeOK
<1>6. QED
  BY <1>1, <1>2, <1>3, <1>4, <1>5

\* The types of the stages, one variable at a time.
LEMMA StageTypes ==
    ASSUME PipeTypeOK, UNCHANGED pipe,
           ch' = ch \/ (ch' \in [0..N -> Seq(Items)] /\ \A x \in 0..N : Len(ch'[x]) <= Cap),
           closed' = closed \/ closed' \subseteq 0..N,
           pc' = pc \/ pc' \in [Stages -> PCs],
           hold' = hold \/ hold' \in [Stages -> Seq(Items)],
           mem' = mem \/ mem' \in [Stages -> Mem],
           saved' = saved \/ saved' \in Seq(Items)
    PROVE  StagesOK'
<1>1. StagesOK
  BY DEF PipeTypeOK
<1>2. /\ ch' \in [0..N -> Seq(Items)] /\ \A x \in 0..N : Len(ch'[x]) <= Cap
      /\ closed' \subseteq 0..N
  BY <1>1 DEF StagesOK
<1>3. pc' \in [Stages -> PCs]
  BY <1>1 DEF StagesOK, PCs
<1>4. /\ hold' \in [Stages -> Seq(Items)]
      /\ mem' \in [Stages -> Mem] /\ saved' \in Seq(Items)
  BY <1>1 DEF StagesOK
<1>5. QED
  BY <1>2, <1>3, <1>4, SameConf DEF StagesOK, PCs

\* The types of the tee and the multiReporters.
LEMMA TeeTypes ==
    ASSUME PipeTypeOK, UNCHANGED pipe,
           tee' = tee \/ tee' \in [item : Items \cup {NoItem}, to : 0..Multi],
           dc' = dc \/ (dc' \in [Reporters -> Seq(Items)]
                          /\ \A j \in Reporters : Len(dc'[j]) <= Cap),
           dcClosed' = dcClosed \/ dcClosed' = TRUE,
           whole' = whole \/ whole' \subseteq Reporters,
           mpc' = mpc \/ mpc' \in [Reporters -> {"report", "error", "drain", "done"}],
           out' = out \/ out' \in Seq(Items),
           read' = read \/ read' \in [Reporters -> Seq(Items)]
    PROVE  TeesOK'
<1>1. TeesOK
  BY DEF PipeTypeOK
<1>2. tee' \in [item : Items \cup {NoItem}, to : 0..Multi]
  BY <1>1 DEF TeesOK
<1>3. dc' \in [Reporters -> Seq(Items)] /\ \A j \in Reporters : Len(dc'[j]) <= Cap
  BY <1>1 DEF TeesOK
<1>4. dcClosed' \in BOOLEAN /\ whole' \subseteq Reporters
  BY <1>1 DEF TeesOK
<1>5. /\ mpc' \in [Reporters -> {"report", "error", "drain", "done"}]
      /\ out' \in Seq(Items) /\ read' \in [Reporters -> Seq(Items)]
  BY <1>1 DEF TeesOK
<1>6. QED
  BY <1>2, <1>3, <1>4, <1>5, SameConf DEF TeesOK

\* The parts make up the whole.
LEMMA TypeWhole ==
    ASSUME PipeTypeOK, UNCHANGED pipe, StagesOK', ErrorsOK', TeesOK',
           src' \in Seq(Items), sent' \in Seq(Items)
    PROVE  PipeTypeOK'
BY SameConf DEF PipeTypeOK

\* Sequences of items.
LEMMA CatFacts ==
    ASSUME NEW s \in Seq(Items), NEW t \in Seq(Items)
    PROVE  /\ s \o t \in Seq(Items) /\ s \o <<>> = s
           /\ \A d \in Items : (s \o t) \o <<d>> = Append(s \o t, d)
           /\ \A d \in Items : (s \o Append(t, d)) \o <<>> = (s \o t) \o <<d>>
           /\ t # <<>> => Append(s, Head(t)) \o Tail(t) = s \o t
<1>1. s \o t \in Seq(Items) /\ s \o <<>> = s
  OBVIOUS
<1>2. ASSUME NEW d \in Items PROVE (s \o t) \o <<d>> = Append(s \o t, d)
  BY <1>1
<1>3. ASSUME NEW d \in Items PROVE (s \o Append(t, d)) \o <<>> = (s \o t) \o <<d>>
  <2>1. Append(t, d) \in Seq(Items) /\ s \o Append(t, d) \in Seq(Items)
    OBVIOUS
  <2>2. (s \o Append(t, d)) \o <<>> = s \o Append(t, d)
    BY <2>1
  <2>3. s \o Append(t, d) = Append(s \o t, d)
    OBVIOUS
  <2>4. QED
    BY <1>2, <2>2, <2>3
<1>4. ASSUME t # <<>> PROVE Append(s, Head(t)) \o Tail(t) = s \o t
  BY <1>4
<1>5. QED
  BY <1>1, <1>2, <1>3, <1>4

-----------------------------------------------------------------------------
(* What each part of the invariant depends on.                             *)

\* Channels is about the stages and what Do has to send.
LEMMA ChannelsFrame ==
    ASSUME Channels, UNCHANGED <<pipe, ch, closed, pc, hold, src>>
    PROVE  Channels'
BY SameConf DEF Channels, Idle, EndOfIn, In

\* Errors is about who is failing, and the errors on their way.
LEMMA ErrorsFrame ==
    ASSUME Errors, UNCHANGED <<pipe, merge, reported, failed>>,
           \A i \in Stages : Failing(i)' <=> Failing(i),
           \A j \in Reporters : mpc'[j] = "error" <=> mpc[j] = "error"
    PROVE  Errors'
BY SameConf DEF Errors

\* Tees is about the tee, the multiReporters and the end of the output.
LEMMA TeesFrame ==
    ASSUME Tees, UNCHANGED pipe, UNCHANGED teeVars, EndOfOut => EndOfOut'
    PROVE  Tees'
<1>1. UNCHANGED <<tee, dc, dcClosed, mpc, out, read, whole>>
  BY DEF teeVars
<1>2. \A j \in Reporters : ToSend(j)' = ToSend(j)
  BY <1>1 DEF ToSend
<1>3. QED
  BY <1>1, <1>2, SameConf DEF Tees

\* The output that is at its end stays there: no stage receives from it, and only
\* the last one, which has closed it, sends to it.
LEMMA EndOfOutStable ==
    ASSUME IsPipeline(pipe), Channels, UNCHANGED pipe, closed \subseteq closed',
           ch'[N] = ch[N] \/ hold[N] # <<>>
    PROVE  EndOfOut => EndOfOut'
<1>1. N \in Stages
  BY Sizes
<1>2. N \in closed => hold[N] = <<>>
  BY <1>1 DEF Channels, Idle
<1>3. QED
  BY <1>2, SameConf DEF EndOfOut

\* The actions of the stages leave what Tees is about as it is.
LEMMA StageTees ==
    ASSUME IsPipeline(pipe), PipeTypeOK, Channels, Tees, UNCHANGED pipe,
           NEW i \in Stages, Stage(i)
    PROVE  Tees'
<1>1. /\ i - 1 # N /\ i - 1 \in 0..N /\ i \in 0..N
      /\ N \in 0..N
  BY Sizes
<1>2. ch \in [0..N -> Seq(Items)]
  BY DEF PipeTypeOK, StagesOK
<1>3. UNCHANGED teeVars /\ closed \subseteq closed'
  BY DEF Stage, Receive, Panic, End, ReadData, Send, SendError, Drain, CloseOut
<1>4. ch'[N] = ch[N] \/ hold[N] # <<>>
  <2>1. CASE Send(i)
    <3>1. hold[i] # <<>> /\ ch' = [ch EXCEPT ![i] = Append(@, Head(hold[i]))]
      BY <2>1 DEF Send, Idle
    <3>2. QED
      BY <1>1, <1>2, <3>1
  <2>2. CASE ~Send(i)
    <3>1. UNCHANGED ch \/ ch' = [ch EXCEPT ![i - 1] = Tail(@)]
      BY <2>2 DEF Stage, Receive, Panic, End, ReadData, SendError, Drain, CloseOut
    <3>2. QED
      BY <1>1, <1>2, <3>1
  <2>3. QED
    BY <2>1, <2>2
<1>5. QED
  BY <1>3, <1>4, EndOfOutStable, TeesFrame

\* So do those of Do: its channel is not the output.
LEMMA DoTees ==
    ASSUME IsPipeline(pipe), PipeTypeOK, Channels, Tees, UNCHANGED pipe,
           DoSend \/ DoCanceled \/ DoClose
    PROVE  Tees'
<1>1. 0 # N /\ N \in 0..N
  BY Sizes
<1>2. ch \in [0..N -> Seq(Items)]
  BY DEF PipeTypeOK, StagesOK
<1>3. UNCHANGED teeVars /\ closed \subseteq closed'
  BY DEF DoSend, DoCanceled, DoClose, stageVars
<1>4. UNCHANGED ch \/ ch' = [ch EXCEPT ![0] = Append(@, Head(src))]
  BY DEF DoSend, DoCanceled, DoClose, stageVars
<1>5. ch'[N] = ch[N]
  BY <1>1, <1>2, <1>4
<1>6. QED
  BY <1>3, <1>5, EndOfOutStable, TeesFrame

-----------------------------------------------------------------------------
(* Each action keeps the parts of the invariant.                           *)

\* A stage receives: the item leaves its in channel, and a failure is recorded.
LEMMA ReceiveKeeps ==
    ASSUME IsPipeline(pipe), Cap \in Nat, PipeTypeOK, Channels, Errors, Tees, UNCHANGED pipe,
           NEW i \in Stages, Receive(i)
    PROVE  PipeTypeOK' /\ Channels' /\ Errors' /\ Tees'
<1>1. /\ pc[i] = "report" /\ i - 1 \in 0..N /\ ch[i - 1] # <<>>
      /\ ch' = [ch EXCEPT ![i - 1] = Tail(@)]
  BY Sizes DEF Receive, In
<1>2. Report[i] \in Kinds /\ Report[i] # "readData"
  BY Sizes DEF Receive, Takes
<1>3. /\ mem[i] \in Mem /\ ch \in [0..N -> Seq(Items)] /\ \A x \in 0..N : Len(ch[x]) <= Cap
      /\ saved \in Seq(Items)
  BY DEF PipeTypeOK, StagesOK
<1>4. /\ ch' \in [0..N -> Seq(Items)] /\ \A x \in 0..N : Len(ch'[x]) <= Cap
      /\ \A x \in 0..N : x # i - 1 => ch'[x] = ch[x]
      /\ Head(In(i)) \in Items
  BY <1>1, <1>3, TakeOne DEF In
<1>5. PICK o \in React(Report[i], mem[i], Head(In(i))) :
         /\ Do(i, o)
         /\ saved' = IF Report[i] = "writeData" /\ o.next = "report"
                     THEN Append(saved, Head(In(i))) ELSE saved
  BY DEF Receive
<1>6. IsOutcome(o)
  BY <1>2, <1>3, <1>4, <1>5, ReactFacts
<1>7. /\ hold' \in [Stages -> Seq(Items)] /\ mem' \in [Stages -> Mem]
      /\ pc' \in [Stages -> PCs] /\ failed' \subseteq Sources
      /\ pc'[i] = o.next
      /\ \A k \in Stages : k # i => pc'[k] = pc[k] /\ hold'[k] = hold[k]
      /\ failed' = IF o.next = "error" THEN failed \cup {i} ELSE failed
  BY <1>5, <1>6, DoFacts
<1>8. saved' \in Seq(Items)
  BY <1>3, <1>4, <1>5
<1>9. /\ UNCHANGED <<pipe, closed, src, sent, merge, reported, caller, canceled>>
      /\ UNCHANGED teeVars
  BY DEF Receive
<1>10. StagesOK'
  BY <1>4, <1>7, <1>8, <1>9, StageTypes
<1>11. PipeTypeOK'
  BY <1>7, <1>9, <1>10, TypeFrames, TypeWhole DEF PipeTypeOK
<1>12. o.next \in {"report", "error", "drain"}
  BY <1>6 DEF IsOutcome
<1>13. Channels'
  BY <1>1, <1>4, <1>7, <1>9, <1>12, ReportChannels
<1>14. Errors'
  BY <1>1, <1>7, <1>9, <1>12, DoErrors DEF teeVars
<1>15. Tees'
  BY StageTees DEF Stage
<1>16. QED
  BY <1>11, <1>13, <1>14, <1>15

\* A panic of a stage keeps the channels in order and is recorded.
LEMMA PanicKeeps ==
    ASSUME IsPipeline(pipe), Cap \in Nat, PipeTypeOK, Channels, Errors, Tees, UNCHANGED pipe,
           NEW i \in Stages, Panic(i)
    PROVE  PipeTypeOK' /\ Channels' /\ Errors' /\ Tees'
<1>1. /\ pc[i] = "report" /\ i - 1 \in 0..N /\ ch[i - 1] # <<>>
      /\ ch' = [ch EXCEPT ![i - 1] = Tail(@)]
  BY Sizes DEF Panic, In
<1>2. /\ ch \in [0..N -> Seq(Items)] /\ \A x \in 0..N : Len(ch[x]) <= Cap
      /\ pc \in [Stages -> PCs]
  BY DEF PipeTypeOK, StagesOK, PCs
<1>3. /\ ch' \in [0..N -> Seq(Items)] /\ \A x \in 0..N : Len(ch'[x]) <= Cap
      /\ \A x \in 0..N : x # i - 1 => ch'[x] = ch[x]
  BY <1>1, <1>2, TakeOne
<1>4. /\ pc' \in [Stages -> PCs] /\ pc'[i] = "panicking"
      /\ \A k \in Stages : k # i => pc'[k] = pc[k]
  BY <1>2 DEF PCs, Panic
<1>5. failed' = failed \cup {i} /\ failed' \subseteq Sources
  BY DEF PipeTypeOK, ErrorsOK, Panic, Sources
<1>6. /\ UNCHANGED <<pipe, closed, hold, mem, saved, src, sent, merge, reported, caller, canceled>>
      /\ UNCHANGED teeVars
  BY DEF Panic
<1>7. StagesOK'
  BY <1>3, <1>4, <1>6, StageTypes
<1>8. PipeTypeOK'
  BY <1>5, <1>6, <1>7, TypeFrames, TypeWhole DEF PipeTypeOK
<1>9. Channels'
  BY <1>1, <1>3, <1>4, <1>6, ReportChannels
<1>10. Errors'
  BY <1>1, <1>4, <1>5, <1>6, DoErrors DEF teeVars
<1>11. Tees'
  BY StageTees DEF Stage
<1>12. QED
  BY <1>8, <1>9, <1>10, <1>11

\* A stage that decides without receiving.
LEMMA DoKeeps ==
    ASSUME IsPipeline(pipe), Cap \in Nat, PipeTypeOK, Channels, Errors, Tees, UNCHANGED pipe,
           NEW i \in Stages, NEW o, IsOutcome(o), Do(i, o), pc[i] = "report",
           UNCHANGED <<ch, closed, saved, src, sent, merge, reported, caller, canceled>>,
           UNCHANGED teeVars
    PROVE  PipeTypeOK' /\ Channels' /\ Errors' /\ Tees'
<1>1. /\ hold' \in [Stages -> Seq(Items)] /\ mem' \in [Stages -> Mem]
      /\ pc' \in [Stages -> PCs] /\ failed' \subseteq Sources
      /\ pc'[i] = o.next
      /\ \A k \in Stages : k # i => pc'[k] = pc[k] /\ hold'[k] = hold[k]
      /\ failed' = IF o.next = "error" THEN failed \cup {i} ELSE failed
  BY DoFacts
<1>2. StagesOK'
  BY <1>1, StageTypes
<1>3. PipeTypeOK'
  BY <1>1, <1>2, TypeFrames, TypeWhole DEF PipeTypeOK
<1>4. o.next \in {"report", "error", "drain"}
  BY DEF IsOutcome
<1>5. Channels'
  BY <1>1, <1>4, ReportChannels
<1>6. Errors'
  BY <1>1, <1>4, DoErrors DEF teeVars
<1>7. Tees'
  BY TeesFrame, SameConf DEF EndOfOut
<1>8. QED
  BY <1>3, <1>5, <1>6, <1>7

\* A stage at the end of its in channel.
LEMMA EndKeeps ==
    ASSUME IsPipeline(pipe), Cap \in Nat, PipeTypeOK, Channels, Errors, Tees, UNCHANGED pipe,
           NEW i \in Stages, End(i)
    PROVE  PipeTypeOK' /\ Channels' /\ Errors' /\ Tees'
<1>1. PICK o \in AtEnd(Report[i], mem[i]) : Do(i, o)
  BY DEF End
<1>2. IsOutcome(o)
  BY <1>1, AtEndFacts DEF PipeTypeOK, StagesOK
<1>3. /\ pc[i] = "report" /\ UNCHANGED teeVars
      /\ UNCHANGED <<ch, closed, saved, src, sent, merge, reported, caller, canceled>>
  BY DEF End
<1>4. QED
  BY <1>1, <1>2, <1>3, DoKeeps

\* readData, which has no in channel.
LEMMA ReadDataKeeps ==
    ASSUME IsPipeline(pipe), Cap \in Nat, PipeTypeOK, Channels, Errors, Tees, UNCHANGED pipe,
           NEW i \in Stages, ReadData(i)
    PROVE  PipeTypeOK' /\ Channels' /\ Errors' /\ Tees'
<1> DEFINE m == mem[i]
           next == Outcome(<<Head(m.rest)>>, [m EXCEPT !.rest = Tail(@)], "report")
           error == Outcome(<<>>, m, "error")
           drain == Outcome(<<>>, m, "drain")
<1>1. m \in Mem
  BY DEF PipeTypeOK, StagesOK
<1>2. IsOutcome(error) /\ IsOutcome(drain)
  BY <1>1, OutcomeFacts, SeqFacts
<1>3. ASSUME m.rest # <<>> PROVE IsOutcome(next)
  <2>1. m.rest \in Seq(Items)
    BY <1>1 DEF Mem
  <2>2. Head(m.rest) \in Items /\ Tail(m.rest) \in Seq(Items)
    BY <1>3, <2>1
  <2>3. [m EXCEPT !.rest = Tail(@)] \in Mem
    BY <1>1, <2>2 DEF Mem
  <2>4. QED
    BY <2>2, <2>3, OutcomeFacts, SeqFacts
<1>4. PICK o \in IF canceled /\ m.rest # Data THEN {error}
                 ELSE IF m.rest = <<>> THEN {drain} ELSE OrFail({next}, <<>>, m) : Do(i, o)
  BY DEF ReadData
<1> HIDE DEF m, next, error, drain
<1>5. IsOutcome(o)
  BY <1>1, <1>2, <1>3, <1>4, OrFailFacts, SeqFacts
<1>6. /\ pc[i] = "report" /\ UNCHANGED teeVars
      /\ UNCHANGED <<ch, closed, saved, src, sent, merge, reported, caller, canceled>>
  BY DEF ReadData
<1>7. QED
  BY <1>4, <1>5, <1>6, DoKeeps

\* A stage sends to its out channel, which is not full, and not closed.
LEMMA SendKeeps ==
    ASSUME IsPipeline(pipe), Cap \in Nat, PipeTypeOK, Channels, Errors, Tees, UNCHANGED pipe,
           NEW i \in Stages, Send(i)
    PROVE  PipeTypeOK' /\ Channels' /\ Errors' /\ Tees'
<1>1. i \in 0..N
  BY Sizes
<1>2. /\ hold \in [Stages -> Seq(Items)] /\ ch \in [0..N -> Seq(Items)]
      /\ \A x \in 0..N : Len(ch[x]) <= Cap
  BY DEF PipeTypeOK, StagesOK
<1>3. /\ hold[i] # <<>> /\ Len(ch[i]) < Cap
      /\ ch' = [ch EXCEPT ![i] = Append(@, Head(hold[i]))]
      /\ hold' = [hold EXCEPT ![i] = Tail(@)]
  BY DEF Send, Idle
<1>4. Head(hold[i]) \in Items /\ Tail(hold[i]) \in Seq(Items)
  BY <1>2, <1>3
<1>5. /\ ch' \in [0..N -> Seq(Items)] /\ \A x \in 0..N : Len(ch'[x]) <= Cap
      /\ \A x \in 0..N : x # i => ch'[x] = ch[x]
  BY <1>1, <1>2, <1>3, <1>4, PutOne
<1>6. hold' \in [Stages -> Seq(Items)] /\ \A k \in Stages : k # i => hold'[k] = hold[k]
  BY <1>2, <1>3, <1>4
<1>7. UNCHANGED <<closed, pc, mem, saved, src, sent>> /\ UNCHANGED errVars /\ UNCHANGED teeVars
  BY DEF Send
<1>8. StagesOK'
  BY <1>5, <1>6, <1>7, StageTypes
<1>9. PipeTypeOK'
  BY <1>7, <1>8, TypeFrames, TypeWhole DEF PipeTypeOK
<1>10. pc[i] \notin {"close", "closePanic", "recover", "done"} /\ i \notin closed
  BY <1>3 DEF Channels, Idle
<1>11. \A k \in Stages : k # i => (Idle(k) => Idle(k)')
  BY <1>6 DEF Idle
<1>12. \A k \in Stages : EndOfIn(k) => EndOfIn(k)'
  <2> SUFFICES ASSUME NEW k \in Stages, EndOfIn(k) PROVE EndOfIn(k)'
    OBVIOUS
  <2>1. k - 1 # i /\ k - 1 \in 0..N
    BY <1>10, Sizes DEF EndOfIn
  <2>2. ch'[k - 1] = ch[k - 1]
    BY <1>5, <2>1
  <2>3. QED
    BY <1>7, <2>2 DEF EndOfIn, In
<1>13. Channels'
  BY <1>7, <1>10, <1>11, <1>12, SameConf DEF Channels
<1>14. Errors'
  BY <1>7, ErrorsFrame DEF Failing, errVars, teeVars
<1>15. Tees'
  BY StageTees DEF Stage
<1>16. QED
  BY <1>9, <1>13, <1>14, <1>15

\* An error, or a recovered panic, goes on to the caller.
LEMMA SendErrorKeeps ==
    ASSUME IsPipeline(pipe), Cap \in Nat, PipeTypeOK, Channels, Errors, Tees, UNCHANGED pipe,
           NEW i \in Stages, SendError(i)
    PROVE  PipeTypeOK' /\ Channels' /\ Errors' /\ Tees'
<1>1. /\ pc \in [Stages -> PCs] /\ merge \subseteq Sources
  BY DEF PipeTypeOK, StagesOK, ErrorsOK, PCs
<1>2. /\ pc[i] = "error" \/ pc[i] = "recover"
      /\ pc' = [pc EXCEPT ![i] = IF @ = "error" THEN "drain" ELSE "done"]
      /\ merge' = merge \cup {i}
  BY DEF SendError
<1>3. /\ UNCHANGED <<ch, closed, hold, mem, saved, src, sent, reported, failed, caller, canceled>>
      /\ UNCHANGED teeVars
  BY DEF SendError
<1>4. /\ pc' \in [Stages -> PCs]
      /\ pc'[i] = IF pc[i] = "error" THEN "drain" ELSE "done"
      /\ \A k \in Stages : k # i => pc'[k] = pc[k]
  BY <1>1, <1>2 DEF PCs
<1>5. StagesOK'
  BY <1>3, <1>4, StageTypes
<1>6. ErrorsOK'
  BY <1>1, <1>2, <1>3, SameConf DEF PipeTypeOK, ErrorsOK, Sources
<1>7. PipeTypeOK'
  BY <1>3, <1>5, <1>6, TypeFrames, TypeWhole DEF PipeTypeOK
<1>8. \A k \in Stages : Idle(k)' = Idle(k) /\ EndOfIn(k)' = EndOfIn(k)
  BY <1>3 DEF Idle, EndOfIn, In
<1>9. Channels'
  BY <1>2, <1>3, <1>4, <1>8, SameConf DEF Channels
<1>10. /\ i \in failed /\ ~Failing(i)' /\ \A j \in Reporters : N + j # i
       /\ \A k \in Stages : k # i => (Failing(k)' <=> Failing(k))
  BY <1>2, <1>4, Sizes DEF Errors, Failing
<1>11. mpc' = mpc
  BY <1>3 DEF teeVars
<1>12. Errors'
  BY <1>2, <1>3, <1>10, <1>11, SameConf DEF Errors
<1>13. Tees'
  BY StageTees DEF Stage
<1>14. QED
  BY <1>7, <1>9, <1>12, <1>13

\* A stage forwards what is left, or goes on to close its out channel.
LEMMA DrainKeeps ==
    ASSUME IsPipeline(pipe), Cap \in Nat, PipeTypeOK, Channels, Errors, Tees, UNCHANGED pipe,
           NEW i \in Stages, Drain(i)
    PROVE  PipeTypeOK' /\ Channels' /\ Errors' /\ Tees'
<1>1. /\ UNCHANGED <<closed, mem, saved, src, sent>> /\ UNCHANGED errVars /\ UNCHANGED teeVars
      /\ pc[i] = "drain" \/ pc[i] = "panicking"
      /\ Idle(i)
  BY DEF Drain
<1>2. /\ i - 1 \in 0..N /\ \A k \in Stages : k # i => k - 1 \in 0..N /\ k - 1 # i - 1
  BY Sizes
<1>3. /\ ch \in [0..N -> Seq(Items)] /\ \A x \in 0..N : Len(ch[x]) <= Cap
      /\ hold \in [Stages -> Seq(Items)] /\ pc \in [Stages -> PCs]
  BY DEF PipeTypeOK, StagesOK, PCs
<1>4. Tees'
  BY StageTees DEF Stage
<1>5. CASE /\ In(i) # <<>> /\ ch' = [ch EXCEPT ![i - 1] = Tail(@)]
           /\ hold' = [hold EXCEPT ![i] = <<Head(In(i))>>] /\ UNCHANGED pc
  <2>1. /\ ch' \in [0..N -> Seq(Items)] /\ \A x \in 0..N : Len(ch'[x]) <= Cap
        /\ \A x \in 0..N : x # i - 1 => ch'[x] = ch[x]
        /\ Head(In(i)) \in Items
    BY <1>2, <1>3, <1>5, TakeOne DEF In
  <2>2. /\ hold' \in [Stages -> Seq(Items)]
        /\ \A k \in Stages : k # i => hold'[k] = hold[k]
    BY <1>3, <1>5, <2>1, SeqFacts
  <2>3. StagesOK'
    BY <1>1, <1>5, <2>1, <2>2, StageTypes
  <2>4. PipeTypeOK'
    BY <1>1, <2>3, TypeFrames, TypeWhole DEF PipeTypeOK
  <2>5. \A k \in Stages : k # i => (Idle(k) => Idle(k)') /\ (EndOfIn(k) => EndOfIn(k)')
    BY <1>1, <1>2, <2>1, <2>2 DEF Idle, EndOfIn, In
  <2>6. Channels'
    BY <1>1, <1>5, <2>5, SameConf DEF Channels
  <2>7. Errors'
    BY <1>1, <1>5, ErrorsFrame DEF Failing, errVars, teeVars
  <2>8. QED
    BY <1>4, <2>4, <2>6, <2>7
<1>6. CASE /\ EndOfIn(i)
           /\ pc' = [pc EXCEPT ![i] = IF @ = "drain" THEN "close" ELSE "closePanic"]
           /\ UNCHANGED <<ch, hold>>
  <2>1. /\ pc' \in [Stages -> PCs]
        /\ pc'[i] = IF pc[i] = "drain" THEN "close" ELSE "closePanic"
        /\ \A k \in Stages : k # i => pc'[k] = pc[k]
    BY <1>3, <1>6 DEF PCs
  <2>2. StagesOK'
    BY <1>1, <1>6, <2>1, StageTypes
  <2>3. PipeTypeOK'
    BY <1>1, <2>2, TypeFrames, TypeWhole DEF PipeTypeOK
  <2>4. \A k \in Stages : Idle(k)' = Idle(k) /\ EndOfIn(k)' = EndOfIn(k)
    BY <1>1, <1>6 DEF Idle, EndOfIn, In
  <2>5. Channels'
    BY <1>1, <1>6, <2>1, <2>4, SameConf DEF Channels
  <2>6. \A k \in Stages : Failing(k)' <=> Failing(k)
    BY <1>1, <2>1 DEF Failing
  <2>7. Errors'
    BY <1>1, <2>6, ErrorsFrame DEF errVars, teeVars
  <2>8. QED
    BY <1>4, <2>3, <2>5, <2>7
<1>7. QED
  BY <1>5, <1>6 DEF Drain

\* A stage closes its out channel: it is idle, and at the end of its in channel.
LEMMA CloseOutKeeps ==
    ASSUME IsPipeline(pipe), Cap \in Nat, PipeTypeOK, Channels, Errors, Tees, UNCHANGED pipe,
           NEW i \in Stages, CloseOut(i)
    PROVE  PipeTypeOK' /\ Channels' /\ Errors' /\ Tees'
<1>1. /\ pc[i] = "close" \/ pc[i] = "closePanic"
      /\ pc' = [pc EXCEPT ![i] = IF @ = "close" THEN "done" ELSE "recover"]
      /\ closed' = closed \cup {i}
  BY DEF CloseOut
<1>2. /\ UNCHANGED <<ch, hold, mem, saved, src, sent>> /\ UNCHANGED errVars
      /\ UNCHANGED teeVars
  BY DEF CloseOut
<1>3. pc \in [Stages -> PCs] /\ closed \subseteq 0..N
  BY DEF PipeTypeOK, StagesOK, PCs
<1>4. /\ pc' \in [Stages -> PCs]
      /\ pc'[i] = IF pc[i] = "close" THEN "done" ELSE "recover"
      /\ \A k \in Stages : k # i => pc'[k] = pc[k]
  BY <1>1, <1>3 DEF PCs
<1>5. i \in 0..N /\ i # 0
  BY Sizes
<1>6. closed' \subseteq 0..N
  BY <1>1, <1>3, <1>5
<1>7. StagesOK'
  BY <1>2, <1>4, <1>6, StageTypes
<1>8. PipeTypeOK'
  BY <1>2, <1>7, TypeFrames, TypeWhole DEF PipeTypeOK
<1>9. \A k \in Stages : Idle(k)' = Idle(k) /\ (EndOfIn(k) => EndOfIn(k)')
  BY <1>1, <1>2 DEF Idle, EndOfIn, In
<1>10. Channels'
  BY <1>1, <1>2, <1>4, <1>5, <1>9, SameConf DEF Channels
<1>11. \A k \in Stages : Failing(k)' <=> Failing(k)
  BY <1>1, <1>4 DEF Failing
<1>12. Errors'
  BY <1>2, <1>11, ErrorsFrame DEF errVars, teeVars
<1>13. Tees'
  BY StageTees DEF Stage
<1>14. QED
  BY <1>8, <1>10, <1>12, <1>13

\* Do sends an item to the first stage, which is not at its end yet.
LEMMA DoSendKeeps ==
    ASSUME IsPipeline(pipe), Cap \in Nat, PipeTypeOK, Channels, Errors, Tees, UNCHANGED pipe,
           DoSend
    PROVE  PipeTypeOK' /\ Channels' /\ Errors' /\ Tees'
<1>1. src \in Seq(Items) /\ sent \in Seq(Items)
  BY DEF PipeTypeOK
<1>2. /\ src # <<>> /\ Len(ch[0]) < Cap
      /\ ch' = [ch EXCEPT ![0] = Append(@, Head(src))]
      /\ sent' = Append(sent, Head(src)) /\ src' = Tail(src)
  BY DEF DoSend
<1>3. /\ UNCHANGED <<closed, pc, hold, mem, saved>> /\ UNCHANGED errVars
      /\ UNCHANGED teeVars
  BY DEF DoSend
<1>4. Head(src) \in Items /\ src' \in Seq(Items)
  BY <1>1, <1>2
<1>5. sent' \in Seq(Items)
  BY <1>1, <1>2, <1>4
<1>6. /\ ch' \in [0..N -> Seq(Items)] /\ \A x \in 0..N : Len(ch'[x]) <= Cap
      /\ \A x \in 0..N : x # 0 => ch'[x] = ch[x]
  <2>1. ch \in [0..N -> Seq(Items)] /\ \A x \in 0..N : Len(ch[x]) <= Cap
    BY DEF PipeTypeOK, StagesOK
  <2>2. 0 \in 0..N
    BY Sizes
  <2>3. Len(ch[0]) < Cap /\ ch' = [ch EXCEPT ![0] = Append(@, Head(src))] /\ Head(src) \in Items
    BY <1>2, <1>4
  <2>4. Cap \in Nat
    OBVIOUS
  <2>5. QED
    BY ONLY <2>1, <2>2, <2>3, <2>4, PutOne
<1>7. StagesOK'
  BY <1>3, <1>6, StageTypes
<1>8. PipeTypeOK'
  BY <1>3, <1>4, <1>5, <1>7, TypeFrames, TypeWhole
<1>9. 0 \notin closed
  BY <1>2 DEF Channels
<1>10. \A k \in Stages : k - 1 \in 0..N
  BY Sizes
<1>11. \A k \in Stages : Idle(k)' = Idle(k) /\ (EndOfIn(k) => EndOfIn(k)')
  BY <1>3, <1>6, <1>9, <1>10 DEF Idle, EndOfIn, In
<1>12. Channels'
  BY <1>3, <1>9, <1>11, SameConf DEF Channels
<1>13. Errors'
  BY <1>3, ErrorsFrame DEF Failing, errVars, teeVars
<1>14. Tees'
  BY DoTees
<1>15. QED
  BY <1>8, <1>12, <1>13, <1>14

\* Do has a part of the rest to send, and perhaps an error; its channel is open.
LEMMA DoCanceledKeeps ==
    ASSUME IsPipeline(pipe), Cap \in Nat, PipeTypeOK, Channels, Errors, Tees, UNCHANGED pipe,
           DoCanceled
    PROVE  PipeTypeOK' /\ Channels' /\ Errors' /\ Tees'
<1>1. PICK n \in 0..Len(src), e \in {<<>>, <<Error>>} : src' = SubSeq(src, 1, n) \o e
  BY DEF DoCanceled
<1>2. /\ UNCHANGED stageVars /\ UNCHANGED sent /\ UNCHANGED errVars /\ UNCHANGED teeVars
      /\ 0 \notin closed
  BY DEF DoCanceled
<1>3. src \in Seq(Items) /\ sent \in Seq(Items) /\ Error \in Items
  BY ItemFacts DEF PipeTypeOK
<1>4. SubSeq(src, 1, n) \in Seq(Items) /\ e \in Seq(Items)
  <2>1. n \in 0..Len(src) /\ e \in {<<>>, <<Error>>}
    BY <1>1
  <2>2. SubSeq(src, 1, n) \in Seq(Items)
    BY <1>3, <2>1
  <2>3. e \in Seq(Items)
    <3>1. <<>> \in Seq(Items) /\ <<Error>> \in Seq(Items)
      BY <1>3
    <3>2. e = <<>> \/ e = <<Error>>
      BY <2>1
    <3>3. QED
      BY <3>1, <3>2
  <2>4. QED
    BY <2>2, <2>3
<1>5. src' \in Seq(Items)
  BY <1>1, <1>4
<1>6. PipeTypeOK'
  BY <1>2, <1>3, <1>5, TypeFrames, TypeWhole
<1>7. UNCHANGED <<ch, closed, pc, hold>>
  BY <1>2 DEF stageVars
<1>8. \A k \in Stages : Idle(k)' = Idle(k) /\ EndOfIn(k)' = EndOfIn(k)
  BY <1>7 DEF Idle, EndOfIn, In
<1>9. Channels'
  BY <1>2, <1>7, <1>8, SameConf DEF Channels
<1>10. Errors'
  BY <1>2, ErrorsFrame DEF Failing, stageVars, errVars, teeVars
<1>11. Tees'
  BY DoTees
<1>12. QED
  BY <1>6, <1>9, <1>10, <1>11

\* Do closes its channel: the stages that are at their end stay there.
LEMMA DoCloseKeeps ==
    ASSUME IsPipeline(pipe), Cap \in Nat, PipeTypeOK, Channels, Errors, Tees, UNCHANGED pipe,
           DoClose
    PROVE  PipeTypeOK' /\ Channels' /\ Errors' /\ Tees'
<1>1. /\ UNCHANGED <<ch, pc, hold, mem, saved, src, sent>> /\ UNCHANGED errVars
      /\ UNCHANGED teeVars /\ src = <<>> /\ closed' = closed \cup {0}
  BY DEF DoClose
<1>2. closed' \subseteq 0..N /\ \A k \in Stages : k # 0
  BY <1>1, Sizes DEF PipeTypeOK, StagesOK
<1>3. StagesOK'
  BY <1>1, <1>2, StageTypes
<1>4. PipeTypeOK'
  BY <1>1, <1>3, TypeFrames, TypeWhole DEF PipeTypeOK
<1>5. \A k \in Stages : Idle(k)' = Idle(k) /\ (EndOfIn(k) => EndOfIn(k)')
  BY <1>1 DEF Idle, EndOfIn, In
<1>6. Channels'
  BY <1>1, <1>2, <1>5, SameConf DEF Channels
<1>7. Errors'
  BY <1>1, ErrorsFrame DEF Failing, errVars, teeVars
<1>8. Tees'
  BY DoTees
<1>9. QED
  BY <1>4, <1>6, <1>7, <1>8

\* The Context is canceled.
LEMMA InterruptKeeps ==
    ASSUME IsPipeline(pipe), Cap \in Nat, PipeTypeOK, Channels, Errors, Tees, UNCHANGED pipe,
           PipeInterrupt
    PROVE  PipeTypeOK' /\ Channels' /\ Errors' /\ Tees'
<1>1. /\ UNCHANGED stageVars /\ UNCHANGED <<src, sent, merge, reported, failed, caller>>
      /\ UNCHANGED teeVars /\ canceled' = TRUE
  BY DEF PipeInterrupt
<1>2. ErrorsOK'
  BY <1>1, SameConf DEF PipeTypeOK, ErrorsOK
<1>3. PipeTypeOK'
  BY <1>1, <1>2, TypeFrames, TypeWhole DEF PipeTypeOK
<1>4. Channels'
  BY <1>1, ChannelsFrame DEF stageVars
<1>5. Errors'
  BY <1>1, ErrorsFrame DEF Failing, stageVars, teeVars
<1>6. EndOfOut' = EndOfOut
  BY <1>1, SameConf DEF EndOfOut, stageVars
<1>7. Tees'
  BY <1>1, <1>6, TeesFrame
<1>8. QED
  BY <1>3, <1>4, <1>5, <1>7

\* An item comes out: each multiReporter has it to come.
LEMMA OutTakeKeeps ==
    ASSUME IsPipeline(pipe), Cap \in Nat, PipeTypeOK, Channels, Errors, Tees, UNCHANGED pipe,
           OutTake
    PROVE  PipeTypeOK' /\ Channels' /\ Errors' /\ Tees'
<1>1. /\ ch \in [0..N -> Seq(Items)] /\ \A x \in 0..N : Len(ch[x]) <= Cap
      /\ out \in Seq(Items) /\ tee \in [item : Items \cup {NoItem}, to : 0..Multi]
      /\ dc \in [Reporters -> Seq(Items)] /\ read \in [Reporters -> Seq(Items)]
  BY DEF PipeTypeOK, StagesOK, TeesOK
<1>2. /\ ch[N] # <<>> /\ tee.item = NoItem /\ ch' = [ch EXCEPT ![N] = Tail(@)]
      /\ out' = Append(out, Head(ch[N]))
      /\ tee' = IF Multi = 0 THEN tee ELSE [item |-> Head(ch[N]), to |-> 1]
  BY DEF OutTake
<1>3. /\ UNCHANGED <<closed, pc, hold, mem, saved, src, sent>> /\ UNCHANGED errVars
      /\ UNCHANGED <<dc, dcClosed, mpc, read, whole>>
  BY DEF OutTake
<1>4. /\ ch' \in [0..N -> Seq(Items)] /\ \A x \in 0..N : Len(ch'[x]) <= Cap
      /\ \A x \in 0..N : x # N => ch'[x] = ch[x]
      /\ Head(ch[N]) \in Items
  <2>1. N \in 0..N
    BY Sizes
  <2>2. QED
    BY <1>1, <1>2, <2>1, TakeOne
<1>5. out' \in Seq(Items)
  BY <1>1, <1>2, <1>4
<1>6. tee' \in [item : Items \cup {NoItem}, to : 0..Multi]
  BY <1>1, <1>2, <1>4, Sizes
<1>7. StagesOK' /\ TeesOK'
  BY <1>3, <1>4, <1>5, <1>6, StageTypes, TeeTypes
<1>8. PipeTypeOK'
  BY <1>3, <1>7, TypeFrames, TypeWhole DEF PipeTypeOK
<1>9. \A k \in Stages : k - 1 \in 0..N /\ k - 1 # N
  BY Sizes
<1>10. \A k \in Stages : Idle(k)' = Idle(k) /\ EndOfIn(k)' = EndOfIn(k)
  BY <1>3, <1>4, <1>9 DEF Idle, EndOfIn, In
<1>11. Channels'
  BY <1>3, <1>10, SameConf DEF Channels
<1>12. Errors'
  BY <1>3, ErrorsFrame DEF Failing, errVars
<1>13. ~dcClosed /\ whole = {} /\ \A j \in Reporters : mpc[j] # "done"
  BY <1>2 DEF Tees, EndOfOut
<1>14. ASSUME NEW j \in Reporters, mpc[j] = "report"
       PROVE  (read[j] \o dc[j]) \o ToSend(j)' = out'
  <2>1. Multi # 0 /\ 1 <= j
    BY Sizes
  <2>2. Head(ch[N]) # NoItem
    BY <1>4, ItemFacts
  <2>3. ToSend(j)' = <<Head(ch[N])>> /\ ToSend(j) = <<>>
    BY <1>2, <2>1, <2>2 DEF ToSend
  <2>4. read[j] \in Seq(Items) /\ dc[j] \in Seq(Items)
    BY <1>1
  <2>5. (read[j] \o dc[j]) \o <<>> = out
    BY <1>14, <2>3 DEF Tees
  <2>6. read[j] \o dc[j] \in Seq(Items)
    BY ONLY <2>4, CatFacts
  <2>7. (read[j] \o dc[j]) \o <<>> = read[j] \o dc[j]
    BY ONLY <2>6, CatFacts, SeqFacts
  <2>8. \A d \in Items : (read[j] \o dc[j]) \o <<d>> = Append(read[j] \o dc[j], d)
    BY ONLY <2>4, CatFacts
  <2>9. QED
    BY <1>2, <1>4, <2>3, <2>5, <2>7, <2>8
<1>15. tee'.item # NoItem => tee'.to \in Reporters
  BY <1>2, Sizes
<1>16. Tees'
  BY <1>3, <1>13, <1>14, <1>15, SameConf DEF Tees
<1>17. QED
  BY <1>8, <1>11, <1>12, <1>16

\* The tee sends its item to one multiReporter, and has it to send to the next ones.
LEMMA TeeSendKeeps ==
    ASSUME IsPipeline(pipe), Cap \in Nat, PipeTypeOK, Channels, Errors, Tees, UNCHANGED pipe,
           TeeSend
    PROVE  PipeTypeOK' /\ Channels' /\ Errors' /\ Tees'
<1>1. PICK k, d : k = tee.to /\ d = tee.item
  OBVIOUS
<1>2. /\ tee \in [item : Items \cup {NoItem}, to : 0..Multi]
      /\ dc \in [Reporters -> Seq(Items)] /\ \A j \in Reporters : Len(dc[j]) <= Cap
      /\ read \in [Reporters -> Seq(Items)]
  BY DEF PipeTypeOK, TeesOK
<1>3. /\ d # NoItem /\ Len(dc[k]) < Cap
      /\ dc' = [dc EXCEPT ![k] = Append(@, d)]
      /\ tee' = IF k < Multi THEN [tee EXCEPT !.to = @ + 1] ELSE [item |-> NoItem, to |-> 0]
  BY <1>1 DEF TeeSend
<1>4. /\ UNCHANGED stageVars /\ UNCHANGED <<src, sent>> /\ UNCHANGED errVars
      /\ UNCHANGED <<dcClosed, mpc, out, read, whole>>
  BY DEF TeeSend
<1>5. k \in Reporters /\ d \in Items /\ k \in Nat /\ Multi \in Nat /\ k <= Multi
  BY <1>1, <1>2, <1>3, Sizes DEF Tees
<1>6. /\ dc' \in [Reporters -> Seq(Items)] /\ \A j \in Reporters : Len(dc'[j]) <= Cap
      /\ dc'[k] = Append(dc[k], d) /\ \A j \in Reporters : j # k => dc'[j] = dc[j]
  BY <1>2, <1>3, <1>5, PutOne
<1>7. /\ tee' \in [item : Items \cup {NoItem}, to : 0..Multi]
      /\ k < Multi => tee'.item = d /\ tee'.to = k + 1
      /\ ~(k < Multi) => tee'.item = NoItem
  <2>1. CASE k < Multi
    <3>1. tee' = [tee EXCEPT !.to = @ + 1] /\ k + 1 \in 0..Multi
      BY <1>3, <1>5, <2>1
    <3>2. tee'.item = d /\ tee'.to = k + 1
      BY <1>1, <1>2, <3>1
    <3>3. tee' \in [item : Items \cup {NoItem}, to : 0..Multi]
      BY <1>1, <1>2, <3>1
    <3>4. QED
      BY <2>1, <3>2, <3>3
  <2>2. CASE ~(k < Multi)
    BY <1>3, <1>5, <2>2
  <2>3. QED
    BY <2>1, <2>2
<1>8. TeesOK'
  BY <1>4, <1>6, <1>7, TeeTypes
<1>9. PipeTypeOK'
  BY <1>4, <1>8, TypeFrames, TypeWhole DEF PipeTypeOK
<1>10. Channels'
  BY <1>4, ChannelsFrame DEF stageVars
<1>11. Errors'
  BY <1>4, ErrorsFrame DEF Failing, stageVars, errVars
<1>12. ~dcClosed /\ whole = {} /\ \A j \in Reporters : mpc[j] # "done"
  BY <1>1, <1>3 DEF Tees
<1>13. tee'.item # NoItem => tee'.to \in Reporters
  BY <1>5, <1>7, Sizes
<1>14. /\ ToSend(k) = <<d>> /\ ToSend(k)' = <<>>
       /\ \A j \in Reporters : j # k => ToSend(j)' = ToSend(j)
  <2>1. Reporters \subseteq Nat /\ \A j \in Reporters : j <= Multi
    BY Sizes
  <2>2. ToSend(k) = <<d>>
    BY <1>1, <1>3, <1>5 DEF ToSend
  <2>3. ToSend(k)' = <<>>
    BY <1>5, <1>7 DEF ToSend
  <2>4. ASSUME NEW j \in Reporters, j # k PROVE ToSend(j)' = ToSend(j)
    BY <1>1, <1>3, <1>5, <1>7, <2>1, <2>4 DEF ToSend
  <2>5. QED
    BY <2>2, <2>3, <2>4
<1>15. ASSUME NEW j \in Reporters, mpc[j] = "report"
       PROVE  (read[j] \o dc'[j]) \o ToSend(j)' = out
  <2>1. (read[j] \o dc[j]) \o ToSend(j) = out
    BY <1>15 DEF Tees
  <2>2. CASE j = k
    <3>1. read[k] \in Seq(Items) /\ dc[k] \in Seq(Items)
      BY <1>2, <1>5
    <3>2. \A e \in Items : (read[k] \o Append(dc[k], e)) \o <<>> = (read[k] \o dc[k]) \o <<e>>
      BY ONLY <3>1, CatFacts
    <3>3. QED
      BY <1>5, <1>6, <1>14, <2>1, <2>2, <3>2
  <2>3. CASE j # k
    BY <1>6, <1>14, <2>1, <2>3
  <2>4. QED
    BY <2>2, <2>3
<1>16. Tees'
  BY <1>4, <1>12, <1>13, <1>15, SameConf DEF Tees
<1>17. QED
  BY <1>9, <1>10, <1>11, <1>16

\* The tee closes the channels of the multiReporters at the end of the output.
LEMMA TeeCloseKeeps ==
    ASSUME IsPipeline(pipe), Cap \in Nat, PipeTypeOK, Channels, Errors, Tees, UNCHANGED pipe,
           TeeClose
    PROVE  PipeTypeOK' /\ Channels' /\ Errors' /\ Tees'
<1>1. /\ UNCHANGED stageVars /\ UNCHANGED <<src, sent>> /\ UNCHANGED errVars
      /\ UNCHANGED <<tee, dc, mpc, out, read, whole>> /\ dcClosed' = TRUE
      /\ EndOfOut /\ tee.item = NoItem
  BY DEF TeeClose
<1>2. TeesOK'
  BY <1>1, TeeTypes
<1>3. PipeTypeOK'
  BY <1>1, <1>2, TypeFrames, TypeWhole DEF PipeTypeOK
<1>4. Channels'
  BY <1>1, ChannelsFrame DEF stageVars
<1>5. Errors'
  BY <1>1, ErrorsFrame DEF Failing, stageVars, errVars
<1>6. EndOfOut'
  BY <1>1, SameConf DEF EndOfOut, stageVars
<1>7. \A j \in Reporters : ToSend(j)' = ToSend(j)
  BY <1>1 DEF ToSend
<1>8. Tees'
  BY <1>1, <1>6, <1>7, SameConf DEF Tees
<1>9. QED
  BY <1>3, <1>4, <1>5, <1>8

\* A multiReporter reads an item that was on its way.
LEMMA MultiReadKeeps ==
    ASSUME IsPipeline(pipe), Cap \in Nat, PipeTypeOK, Channels, Errors, Tees, UNCHANGED pipe,
           NEW j \in Reporters, MultiRead(j)
    PROVE  PipeTypeOK' /\ Channels' /\ Errors' /\ Tees'
<1>1. /\ dc \in [Reporters -> Seq(Items)] /\ \A h \in Reporters : Len(dc[h]) <= Cap
      /\ read \in [Reporters -> Seq(Items)] /\ whole \subseteq Reporters
  BY DEF PipeTypeOK, TeesOK
<1>2. /\ mpc[j] = "report" /\ dc[j] # <<>>
      /\ read' = [read EXCEPT ![j] = Append(@, Head(dc[j]))]
      /\ dc' = [dc EXCEPT ![j] = Tail(@)]
  BY DEF MultiRead
<1>3. /\ UNCHANGED stageVars /\ UNCHANGED <<src, sent>> /\ UNCHANGED errVars
      /\ UNCHANGED <<tee, dcClosed, mpc, out, whole>>
  BY DEF MultiRead
<1>4. /\ dc' \in [Reporters -> Seq(Items)] /\ \A h \in Reporters : Len(dc'[h]) <= Cap
      /\ dc'[j] = Tail(dc[j]) /\ \A h \in Reporters : h # j => dc'[h] = dc[h]
      /\ Head(dc[j]) \in Items
  BY <1>1, <1>2, TakeOne
<1>5. /\ read' \in [Reporters -> Seq(Items)]
      /\ read'[j] = Append(read[j], Head(dc[j]))
      /\ \A h \in Reporters : h # j => read'[h] = read[h]
  <2>1. Append(read[j], Head(dc[j])) \in Seq(Items)
    BY <1>1, <1>4
  <2>2. QED
    BY <1>1, <1>2, <2>1
<1>6. TeesOK'
  BY <1>3, <1>4, <1>5, TeeTypes
<1>7. PipeTypeOK'
  BY <1>3, <1>6, TypeFrames, TypeWhole DEF PipeTypeOK
<1>8. Channels'
  BY <1>3, ChannelsFrame DEF stageVars
<1>9. Errors'
  BY <1>3, ErrorsFrame DEF Failing, stageVars, errVars
<1>10. \A h \in Reporters : ToSend(h)' = ToSend(h)
  BY <1>3 DEF ToSend
<1>11. ASSUME NEW h \in Reporters PROVE read'[h] \o dc'[h] = read[h] \o dc[h]
  <2>1. CASE h = j
    <3>1. read[j] \in Seq(Items) /\ dc[j] \in Seq(Items)
      BY <1>1
    <3>2. dc[j] # <<>> => Append(read[j], Head(dc[j])) \o Tail(dc[j]) = read[j] \o dc[j]
      BY ONLY <3>1, CatFacts
    <3>3. QED
      BY <1>2, <1>4, <1>5, <2>1, <3>2
  <2>2. CASE h # j
    BY <1>4, <1>5, <2>2
  <2>3. QED
    BY <2>1, <2>2
<1>12. j \notin whole /\ EndOfOut' = EndOfOut
  BY <1>2, <1>3, SameConf DEF Tees, EndOfOut, stageVars
<1>13. /\ \A h \in Reporters : mpc[h] = "done" => dc'[h] = <<>> /\ dcClosed
       /\ \A h \in whole : dcClosed /\ mpc[h] # "report" /\ read'[h] = out
  BY <1>1, <1>2, <1>4, <1>5, <1>12 DEF Tees
<1>14. \A h \in Reporters : mpc[h] = "report" => (read'[h] \o dc'[h]) \o ToSend(h)' = out
  BY <1>10, <1>11 DEF Tees
<1>15. Tees'
  BY <1>3, <1>12, <1>13, <1>14, SameConf DEF Tees
<1>16. QED
  BY <1>7, <1>8, <1>9, <1>15

\* A multiReporter returns; at the end of its channel it has read what came out.
LEMMA MultiReturnKeeps ==
    ASSUME IsPipeline(pipe), Cap \in Nat, PipeTypeOK, Channels, Errors, Tees, UNCHANGED pipe,
           NEW j \in Reporters, MultiReturn(j)
    PROVE  PipeTypeOK' /\ Channels' /\ Errors' /\ Tees'
<1>1. /\ mpc \in [Reporters -> {"report", "error", "drain", "done"}] /\ failed \subseteq Sources
      /\ whole \subseteq Reporters /\ dc \in [Reporters -> Seq(Items)]
      /\ read \in [Reporters -> Seq(Items)]
  BY DEF PipeTypeOK, TeesOK, ErrorsOK
<1>2. /\ UNCHANGED stageVars /\ UNCHANGED <<src, sent, merge, reported, caller, canceled>>
      /\ UNCHANGED <<tee, dc, dcClosed, out, read>> /\ mpc[j] = "report"
      /\ whole' = IF dc[j] = <<>> /\ dcClosed THEN whole \cup {j} ELSE whole
  BY DEF MultiReturn
<1>3. \/ mpc' = [mpc EXCEPT ![j] = "drain"] /\ failed' = failed
      \/ mpc' = [mpc EXCEPT ![j] = "error"] /\ failed' = failed \cup {N + j}
  BY DEF MultiReturn
<1>4. /\ mpc' \in [Reporters -> {"report", "error", "drain", "done"}]
      /\ \A h \in Reporters : h # j => mpc'[h] = mpc[h]
      /\ \/ mpc'[j] = "drain" /\ failed' = failed
         \/ mpc'[j] = "error" /\ failed' = failed \cup {N + j}
  BY <1>1, <1>3
<1>5. failed' \subseteq Sources /\ whole' \subseteq Reporters
  BY <1>1, <1>2, <1>4 DEF Sources
<1>6. TeesOK'
  BY <1>2, <1>4, <1>5, TeeTypes
<1>7. PipeTypeOK'
  BY <1>2, <1>5, <1>6, TypeFrames, TypeWhole DEF PipeTypeOK
<1>8. Channels'
  BY <1>2, ChannelsFrame DEF stageVars
<1>9. /\ \A i \in Stages : i # N + j
      /\ \A h \in Reporters : N + h = N + j => h = j
  BY Sizes
<1>10. \A i \in Stages : Failing(i)' = Failing(i)
  BY <1>2 DEF Failing, stageVars
<1>11. Errors'
  BY <1>2, <1>4, <1>9, <1>10, SameConf DEF Errors
<1>12. ASSUME dc[j] = <<>>, dcClosed PROVE read[j] = out
  <2>1. ToSend(j) = <<>> /\ read[j] \in Seq(Items)
    BY <1>1, <1>12 DEF Tees, ToSend
  <2>2. (read[j] \o <<>>) \o <<>> = out
    BY <1>2, <1>12, <2>1 DEF Tees
  <2>3. read[j] \o <<>> = read[j]
    BY ONLY <2>1, CatFacts, SeqFacts
  <2>4. QED
    BY <2>2, <2>3
<1>13. EndOfOut' = EndOfOut /\ \A h \in Reporters : ToSend(h)' = ToSend(h)
  BY <1>2, SameConf DEF EndOfOut, ToSend, stageVars
<1>14. /\ \A h \in Reporters : mpc'[h] = "done" => dc[h] = <<>> /\ dcClosed
       /\ \A h \in Reporters : mpc'[h] = "report" => (read[h] \o dc[h]) \o ToSend(h) = out
  BY <1>4 DEF Tees
<1>15. \A h \in whole' : dcClosed /\ mpc'[h] # "report" /\ read[h] = out
  BY <1>1, <1>2, <1>4, <1>12 DEF Tees
<1>16. Tees'
  BY <1>2, <1>13, <1>14, <1>15, SameConf DEF Tees
<1>17. QED
  BY <1>7, <1>8, <1>11, <1>16

\* The error of a multiReporter goes on to the caller.
LEMMA MultiErrorKeeps ==
    ASSUME IsPipeline(pipe), Cap \in Nat, PipeTypeOK, Channels, Errors, Tees, UNCHANGED pipe,
           NEW j \in Reporters, MultiError(j)
    PROVE  PipeTypeOK' /\ Channels' /\ Errors' /\ Tees'
<1>1. mpc \in [Reporters -> {"report", "error", "drain", "done"}] /\ merge \subseteq Sources
  BY DEF PipeTypeOK, TeesOK, ErrorsOK
<1>2. /\ UNCHANGED stageVars /\ UNCHANGED <<src, sent, reported, failed, caller, canceled>>
      /\ UNCHANGED <<tee, dc, dcClosed, out, read, whole>> /\ mpc[j] = "error"
      /\ mpc' = [mpc EXCEPT ![j] = "drain"] /\ merge' = merge \cup {N + j}
  BY DEF MultiError
<1>3. /\ mpc' \in [Reporters -> {"report", "error", "drain", "done"}] /\ mpc'[j] = "drain"
      /\ \A h \in Reporters : h # j => mpc'[h] = mpc[h]
  BY <1>1, <1>2
<1>4. merge' \subseteq Sources
  BY <1>1, <1>2 DEF Sources
<1>5. ErrorsOK'
  BY <1>2, <1>4, SameConf DEF PipeTypeOK, ErrorsOK
<1>6. TeesOK'
  BY <1>2, <1>3, TeeTypes
<1>7. PipeTypeOK'
  BY <1>2, <1>5, <1>6, TypeFrames, TypeWhole DEF PipeTypeOK
<1>8. Channels'
  BY <1>2, ChannelsFrame DEF stageVars
<1>9. /\ \A i \in Stages : i # N + j
      /\ \A h \in Reporters : N + h = N + j => h = j
  BY Sizes
<1>10. (\A i \in Stages : Failing(i)' = Failing(i)) /\ N + j \in failed
  BY <1>2 DEF Failing, stageVars, Errors
<1>11. Errors'
  BY <1>2, <1>3, <1>9, <1>10, SameConf DEF Errors
<1>12. EndOfOut' = EndOfOut /\ \A h \in Reporters : ToSend(h)' = ToSend(h)
  BY <1>2, SameConf DEF EndOfOut, ToSend, stageVars
<1>13. /\ \A h \in Reporters : mpc'[h] = "done" => mpc[h] = "done"
       /\ \A h \in Reporters : mpc'[h] = "report" => mpc[h] = "report"
       /\ \A h \in whole : mpc[h] # "report" => mpc'[h] # "report"
  BY <1>3 DEF PipeTypeOK, TeesOK
<1>14. Tees'
  BY <1>2, <1>12, <1>13, SameConf DEF Tees
<1>15. QED
  BY <1>7, <1>8, <1>11, <1>14

\* What a multiReporter has not read is drained.
LEMMA MultiDrainKeeps ==
    ASSUME IsPipeline(pipe), Cap \in Nat, PipeTypeOK, Channels, Errors, Tees, UNCHANGED pipe,
           NEW j \in Reporters, MultiDrain(j)
    PROVE  PipeTypeOK' /\ Channels' /\ Errors' /\ Tees'
<1>1. /\ dc \in [Reporters -> Seq(Items)] /\ \A h \in Reporters : Len(dc[h]) <= Cap
      /\ mpc \in [Reporters -> {"report", "error", "drain", "done"}] /\ whole \subseteq Reporters
  BY DEF PipeTypeOK, TeesOK
<1>2. /\ UNCHANGED stageVars /\ UNCHANGED <<src, sent>> /\ UNCHANGED errVars
      /\ UNCHANGED <<tee, dcClosed, out, read, whole>> /\ mpc[j] = "drain"
  BY DEF MultiDrain
<1>3. \/ dc[j] # <<>> /\ dc' = [dc EXCEPT ![j] = Tail(@)] /\ UNCHANGED mpc
      \/ dc[j] = <<>> /\ dcClosed /\ mpc' = [mpc EXCEPT ![j] = "done"] /\ UNCHANGED dc
  BY DEF MultiDrain
<1>4. /\ dc' \in [Reporters -> Seq(Items)] /\ \A h \in Reporters : Len(dc'[h]) <= Cap
      /\ \A h \in Reporters : h # j => dc'[h] = dc[h]
  <2>1. CASE dc[j] # <<>> /\ dc' = [dc EXCEPT ![j] = Tail(@)]
    BY <1>1, <2>1, TakeOne
  <2>2. CASE UNCHANGED dc
    BY <1>1, <2>2
  <2>3. QED
    BY <1>3, <2>1, <2>2
<1>5. /\ mpc' \in [Reporters -> {"report", "error", "drain", "done"}]
      /\ \A h \in Reporters : h # j => mpc'[h] = mpc[h]
      /\ mpc'[j] = "drain" \/ (mpc'[j] = "done" /\ dc'[j] = <<>> /\ dcClosed)
  BY <1>1, <1>2, <1>3
<1>6. TeesOK'
  BY <1>2, <1>4, <1>5, TeeTypes
<1>7. PipeTypeOK'
  BY <1>2, <1>6, TypeFrames, TypeWhole DEF PipeTypeOK
<1>8. Channels'
  BY <1>2, ChannelsFrame DEF stageVars
<1>9. \A h \in Reporters : mpc'[h] = "error" <=> mpc[h] = "error"
  BY <1>2, <1>5
<1>10. Errors'
  BY <1>2, <1>9, ErrorsFrame DEF Failing, stageVars, errVars
<1>11. EndOfOut' = EndOfOut /\ \A h \in Reporters : ToSend(h)' = ToSend(h)
  BY <1>2, SameConf DEF EndOfOut, ToSend, stageVars
<1>12. \A h \in Reporters : mpc'[h] = "done" => dc'[h] = <<>> /\ dcClosed
  BY <1>4, <1>5 DEF Tees
<1>13. ASSUME NEW h \in Reporters, mpc'[h] = "report"
       PROVE  (read[h] \o dc'[h]) \o ToSend(h) = out
  <2>1. dc'[h] = dc[h] /\ mpc[h] = "report"
    BY <1>4, <1>5, <1>13
  <2>2. QED
    BY <2>1 DEF Tees
<1>14. \A h \in whole : mpc'[h] # "report"
  BY <1>1, <1>5 DEF Tees
<1>15. Tees'
  BY <1>2, <1>11, <1>12, <1>13, <1>14, SameConf DEF Tees
<1>16. QED
  BY <1>7, <1>8, <1>10, <1>15

\* The caller gets an error.
LEMMA CallerGetsKeeps ==
    ASSUME IsPipeline(pipe), Cap \in Nat, PipeTypeOK, Channels, Errors, Tees, UNCHANGED pipe,
           NEW i \in Sources, CallerGets(i)
    PROVE  PipeTypeOK' /\ Channels' /\ Errors' /\ Tees'
<1>1. /\ UNCHANGED stageVars /\ UNCHANGED <<src, sent, failed, caller>>
      /\ UNCHANGED teeVars /\ i \in merge
      /\ merge' = merge \ {i} /\ reported' = reported \cup {i}
  BY DEF CallerGets
<1>2. canceled' \in BOOLEAN
  BY DEF CallerGets
<1>3. ErrorsOK'
  BY <1>1, <1>2, SameConf DEF PipeTypeOK, ErrorsOK
<1>4. PipeTypeOK'
  BY <1>1, <1>3, TypeFrames, TypeWhole DEF PipeTypeOK
<1>5. Channels'
  BY <1>1, ChannelsFrame DEF stageVars
<1>6. UNCHANGED <<pc, mpc>> /\ merge' \cup reported' = merge \cup reported
  BY <1>1 DEF stageVars, teeVars
<1>7. \A k \in Stages : Failing(k)' = Failing(k)
  BY <1>6 DEF Failing
<1>8. Errors'
  BY <1>1, <1>6, <1>7, SameConf DEF Errors
<1>9. EndOfOut' = EndOfOut
  BY <1>1, SameConf DEF EndOfOut, stageVars
<1>10. Tees'
  BY <1>1, <1>9, TeesFrame
<1>11. QED
  BY <1>4, <1>5, <1>8, <1>10

\* The caller is done.
LEMMA CallerDoneKeeps ==
    ASSUME IsPipeline(pipe), Cap \in Nat, PipeTypeOK, Channels, Errors, Tees, UNCHANGED pipe,
           CallerDone
    PROVE  PipeTypeOK' /\ Channels' /\ Errors' /\ Tees'
<1>1. /\ UNCHANGED stageVars /\ UNCHANGED <<src, sent, merge, reported, failed, canceled>>
      /\ UNCHANGED teeVars /\ caller' = "done"
  BY DEF CallerDone
<1>2. ErrorsOK'
  BY <1>1, SameConf DEF PipeTypeOK, ErrorsOK
<1>3. PipeTypeOK'
  BY <1>1, <1>2, TypeFrames, TypeWhole DEF PipeTypeOK
<1>4. Channels'
  BY <1>1, ChannelsFrame DEF stageVars
<1>5. Errors'
  BY <1>1, ErrorsFrame DEF Failing, stageVars, teeVars
<1>6. EndOfOut' = EndOfOut
  BY <1>1, SameConf DEF EndOfOut, stageVars
<1>7. Tees'
  BY <1>1, <1>6, TeesFrame
<1>8. QED
  BY <1>3, <1>4, <1>5, <1>7

-----------------------------------------------------------------------------
(* The end of the pipeline.                                                *)

\* When all goroutines are done, the channels are closed and empty, and no one has
\* an item or an error to pass on.
LEMMA DoneFacts ==
    ASSUME IsPipeline(pipe), PipeTypeOK, Channels, Tees, AllDone
    PROVE  /\ \A i \in Stages : pc[i] = "done" /\ hold[i] = <<>>
           /\ closed = 0..N /\ \A i \in 0..N : ch[i] = <<>>
           /\ src = <<>> /\ merge = {} /\ tee.item = NoItem
           /\ \A j \in Reporters : mpc[j] = "done" /\ dc[j] = <<>>
           /\ Multi # 0 => dcClosed
<1>1. /\ N \in Nat /\ N >= 1 /\ Stages = 1..N /\ Reporters = 1..Multi /\ Multi \in Nat
  BY Sizes
<1>2. (\A i \in Stages : pc[i] = "done") /\ merge = {}
  BY DEF AllDone
<1>3. \A i \in Stages : hold[i] = <<>> /\ i \in closed /\ i - 1 \in closed /\ ch[i - 1] = <<>>
  BY <1>2 DEF Channels, Idle, EndOfIn, In
<1>4. /\ EndOfOut /\ tee.item = NoItem
      /\ Multi # 0 => dcClosed
      /\ \A j \in Reporters : mpc[j] = "done" /\ dc[j] = <<>>
  <2>1. CASE Multi = 0
    <3>1. Reporters = {} /\ EndOfOut
      BY <1>1, <2>1 DEF AllDone
    <3>2. QED
      BY <2>1, <3>1 DEF Tees
  <2>2. CASE Multi # 0
    <3>1. 1 \in Reporters /\ \A j \in Reporters : mpc[j] = "done"
      BY <1>1, <2>2 DEF AllDone
    <3>2. QED
      BY <3>1 DEF Tees
  <2>3. QED
    BY <2>1, <2>2
<1>5. ASSUME NEW i \in 0..N PROVE i \in closed /\ ch[i] = <<>>
  <2>1. CASE i = N
    BY <1>4, <2>1 DEF EndOfOut
  <2>2. CASE i # N
    <3>1. i + 1 \in Stages /\ (i + 1) - 1 = i
      BY <1>1, <2>2
    <3>2. QED
      BY <1>3, <3>1
  <2>3. QED
    BY <2>1, <2>2
<1>6. closed = 0..N
  BY <1>5 DEF PipeTypeOK, StagesOK
<1>7. src = <<>>
  BY <1>1, <1>6 DEF Channels
<1>8. QED
  BY <1>2, <1>3, <1>4, <1>5, <1>6, <1>7

\* So nothing but the cancellation of the Context and the end of the caller's loop
\* can happen then.
LEMMA AllDoneStays ==
    ASSUME IsPipeline(pipe), PipeTypeOK, Channels, Tees, AllDone, Step, UNCHANGED pipe
    PROVE  AllDone'
<1>1. /\ \A i \in Stages : pc[i] = "done" /\ hold[i] = <<>>
      /\ closed = 0..N /\ \A i \in 0..N : ch[i] = <<>>
      /\ src = <<>> /\ merge = {} /\ tee.item = NoItem
      /\ \A j \in Reporters : mpc[j] = "done" /\ dc[j] = <<>>
      /\ Multi # 0 => dcClosed
  BY DoneFacts
<1>2. 0 \in 0..N /\ N \in 0..N
  BY Sizes
<1>3. ASSUME NEW i \in Stages PROVE ~Stage(i)
  BY <1>1 DEF Stage, Receive, Panic, End, ReadData, Send, SendError, Drain, CloseOut, Idle
<1>4. ~DoSend /\ ~DoCanceled /\ ~DoClose
  BY <1>1, <1>2 DEF DoSend, DoCanceled, DoClose
<1>5. Multi \in Nat /\ ~OutTake /\ ~TeeSend /\ ~TeeClose
  BY <1>1, <1>2, Sizes DEF OutTake, TeeSend, TeeClose
<1>6. ASSUME NEW j \in Reporters
      PROVE  ~MultiRead(j) /\ ~MultiReturn(j) /\ ~MultiError(j) /\ ~MultiDrain(j)
  BY <1>1 DEF MultiRead, MultiReturn, MultiError, MultiDrain
<1>7. ASSUME NEW i \in Sources PROVE ~CallerGets(i)
  BY <1>1 DEF CallerGets
<1>8. PipeInterrupt \/ CallerDone
  BY <1>3, <1>4, <1>5, <1>6, <1>7 DEF Step
<1>9. UNCHANGED <<ch, closed, pc, mpc, merge>>
  BY <1>8 DEF PipeInterrupt, CallerDone, stageVars, teeVars
<1>10. QED
  BY <1>9, SameConf DEF AllDone, EndOfOut

\* The caller is done once all is.
LEMMA CallerStays ==
    ASSUME IsPipeline(pipe), PipeTypeOK, Channels, Tees, caller = "done" => AllDone, Step,
           UNCHANGED pipe
    PROVE  caller' = "done" => AllDone'
<1>1. ASSUME NEW i \in Stages, Stage(i) PROVE caller' = caller
  BY <1>1 DEF Stage, Receive, Panic, End, ReadData, Send, SendError, Drain, CloseOut, errVars
<1>2. ASSUME \/ DoSend \/ DoCanceled \/ DoClose \/ PipeInterrupt
             \/ OutTake \/ TeeSend \/ TeeClose
      PROVE  caller' = caller
  BY <1>2 DEF DoSend, DoCanceled, DoClose, PipeInterrupt, OutTake, TeeSend, TeeClose, errVars
<1>3. ASSUME NEW j \in Reporters,
             MultiRead(j) \/ MultiReturn(j) \/ MultiError(j) \/ MultiDrain(j)
      PROVE  caller' = caller
  BY <1>3 DEF MultiRead, MultiReturn, MultiError, MultiDrain, errVars
<1>4. ASSUME NEW i \in Sources, CallerGets(i) PROVE caller' = caller
  BY <1>4 DEF CallerGets
<1>5. caller' = caller \/ CallerDone
  BY <1>1, <1>2, <1>3, <1>4 DEF Step
<1>6. CallerDone => AllDone
  BY DEF CallerDone
<1>7. QED
  BY <1>5, <1>6, AllDoneStays

-----------------------------------------------------------------------------
(* The invariant.                                                          *)

\* The initial states have it.
LEMMA InitPipeline ==
    ASSUME PipeInit
    PROVE  PipelineInv
<1>0. IsPipeline(pipe) /\ Cap \in Nat \ {0}
  BY PipelineAssumption DEF PipeInit
<1>1. /\ N \in Nat /\ N >= 1 /\ Multi \in Nat /\ Data \in Seq(Items) /\ <<>> \in Seq(Items)
      /\ 0 \in 0..N
  BY <1>0, Sizes, ItemFacts
<1>2. mem \in [Stages -> Mem]
  <2>1. NoMem \in Mem /\ [NoMem EXCEPT !.rest = Data] \in Mem
    BY <1>1 DEF NoMem, Mem
  <2>2. QED
    BY <2>1 DEF PipeInit
<1>3. Len(<<>>) = 0 /\ 0 <= Cap
  BY <1>0
<1>4. PipeTypeOK
  <2>1. StagesOK
    <3>1. ch \in [0..N -> Seq(Items)] /\ \A i \in 0..N : Len(ch[i]) <= Cap
      BY <1>1, <1>3 DEF PipeInit
    <3>2. closed \subseteq 0..N /\ hold \in [Stages -> Seq(Items)] /\ saved \in Seq(Items)
      BY <1>1 DEF PipeInit
    <3>3. QED
      BY <1>2, <3>1, <3>2 DEF PipeInit, StagesOK
  <2>2. ErrorsOK
    BY DEF PipeInit, ErrorsOK
  <2>3. TeesOK
    <3>1. tee \in [item : Items \cup {NoItem}, to : 0..Multi]
      BY <1>1 DEF PipeInit
    <3>2. /\ dc \in [Reporters -> Seq(Items)] /\ \A j \in Reporters : Len(dc[j]) <= Cap
          /\ read \in [Reporters -> Seq(Items)] /\ out \in Seq(Items)
      BY <1>1, <1>3 DEF PipeInit
    <3>3. QED
      BY <3>1, <3>2 DEF PipeInit, TeesOK
  <2>4. QED
    BY <1>1, <2>1, <2>2, <2>3 DEF PipeInit, PipeTypeOK
<1>5. Channels
  <2>1. \A i \in Stages : i # 0 /\ pc[i] = "report"
    BY <1>0, Sizes DEF PipeInit
  <2>2. QED
    BY <2>1 DEF PipeInit, Channels
<1>6. Errors
  BY DEF PipeInit, Errors, Failing
<1>7. Tees
  <2>1. tee.item = NoItem
    BY DEF PipeInit
  <2>2. ASSUME NEW j \in Reporters PROVE (read[j] \o dc[j]) \o ToSend(j) = out
    <3>1. read[j] = <<>> /\ dc[j] = <<>> /\ ToSend(j) = <<>> /\ out = <<>>
      BY <2>1 DEF PipeInit, ToSend
    <3>2. <<>> \o <<>> = <<>>
      OBVIOUS
    <3>3. QED
      BY <3>1, <3>2
  <2>3. (\A j \in Reporters : mpc[j] = "report") /\ ~dcClosed /\ whole = {}
    BY DEF PipeInit
  <2>4. QED
    BY <2>1, <2>2, <2>3 DEF Tees
<1>8. QED
  BY <1>4, <1>5, <1>6, <1>7 DEF PipeInit, PipelineInv

\* Every step keeps it.
LEMMA StepPipeline ==
    ASSUME PipelineInv, Step, UNCHANGED pipe
    PROVE  PipelineInv'
<1>1. /\ IsPipeline(pipe) /\ Cap \in Nat /\ PipeTypeOK /\ Channels /\ Errors /\ Tees
      /\ caller = "done" => AllDone
  BY PipelineAssumption DEF PipelineInv, PipeTypeOK
<1>2. ASSUME NEW i \in Stages, Stage(i)
      PROVE  PipeTypeOK' /\ Channels' /\ Errors' /\ Tees'
  BY <1>1, <1>2, ReceiveKeeps, PanicKeeps, EndKeeps, ReadDataKeeps, SendKeeps,
     SendErrorKeeps, DrainKeeps, CloseOutKeeps DEF Stage
<1>3. ASSUME DoSend \/ DoCanceled \/ DoClose \/ PipeInterrupt
      PROVE  PipeTypeOK' /\ Channels' /\ Errors' /\ Tees'
  BY <1>1, <1>3, DoSendKeeps, DoCanceledKeeps, DoCloseKeeps, InterruptKeeps
<1>4. ASSUME OutTake \/ TeeSend \/ TeeClose
      PROVE  PipeTypeOK' /\ Channels' /\ Errors' /\ Tees'
  BY <1>1, <1>4, OutTakeKeeps, TeeSendKeeps, TeeCloseKeeps
<1>5. ASSUME NEW j \in Reporters,
             MultiRead(j) \/ MultiReturn(j) \/ MultiError(j) \/ MultiDrain(j)
      PROVE  PipeTypeOK' /\ Channels' /\ Errors' /\ Tees'
  BY <1>1, <1>5, MultiReadKeeps, MultiReturnKeeps, MultiErrorKeeps, MultiDrainKeeps
<1>6. ASSUME (\E i \in Sources : CallerGets(i)) \/ CallerDone
      PROVE  PipeTypeOK' /\ Channels' /\ Errors' /\ Tees'
  BY <1>1, <1>6, CallerGetsKeeps, CallerDoneKeeps
<1>7. PipeTypeOK' /\ Channels' /\ Errors' /\ Tees'
  BY <1>2, <1>3, <1>4, <1>5, <1>6 DEF Step
<1>8. caller' = "done" => AllDone'
  BY <1>1, CallerStays
<1>9. QED
  BY <1>7, <1>8 DEF PipelineInv

\* So does a step in which nothing happens.
LEMMA NextPipeline ==
    ASSUME PipelineInv, [PipeNext]_pipeVars
    PROVE  PipelineInv'
<1>1. CASE Step /\ UNCHANGED pipe
  BY <1>1, StepPipeline
<1>2. CASE UNCHANGED pipeVars
  <2>1. /\ UNCHANGED <<pipe, src, sent>> /\ UNCHANGED stageVars /\ UNCHANGED errVars
        /\ UNCHANGED teeVars
    BY <1>2 DEF pipeVars
  <2>2. PipeTypeOK /\ Channels /\ Errors /\ Tees /\ (caller = "done" => AllDone)
    BY DEF PipelineInv
  <2>3. PipeTypeOK'
    BY <2>1, <2>2, TypeFrames, TypeWhole DEF PipeTypeOK
  <2>4. Channels'
    BY <2>1, <2>2, ChannelsFrame DEF stageVars
  <2>5. Errors'
    BY <2>1, <2>2, ErrorsFrame DEF Failing, stageVars, errVars, teeVars
  <2>6. EndOfOut' = EndOfOut
    BY <2>1, SameConf DEF EndOfOut, stageVars
  <2>7. Tees'
    BY <2>1, <2>2, <2>6, TeesFrame
  <2>8. AllDone' = AllDone /\ caller' = caller
    BY <2>1, <2>6, SameConf DEF AllDone, stageVars, errVars, teeVars
  <2>9. QED
    BY <2>1, <2>2, <2>3, <2>4, <2>5, <2>7, <2>8 DEF PipelineInv
<1>3. QED
  BY <1>1, <1>2 DEF PipeNext

\* The invariant says of a pipeline whose caller is done what NothingLeft does.
LEMMA InvNothingLeft ==
    ASSUME PipelineInv
    PROVE  NothingLeft
<1> SUFFICES ASSUME caller = "done"
             PROVE  /\ reported = failed
                    /\ closed = 0..N /\ \A i \in 0..N : ch[i] = <<>>
                    /\ src = <<>>
                    /\ tee.item = NoItem /\ \A j \in Reporters : dc[j] = <<>>
  BY DEF NothingLeft
<1>1. IsPipeline(pipe) /\ PipeTypeOK /\ Channels /\ Errors /\ Tees /\ AllDone
  BY PipelineAssumption DEF PipelineInv, PipeTypeOK
<1>2. /\ \A i \in Stages : pc[i] = "done"
      /\ closed = 0..N /\ \A i \in 0..N : ch[i] = <<>>
      /\ src = <<>> /\ merge = {} /\ tee.item = NoItem
      /\ \A j \in Reporters : mpc[j] = "done" /\ dc[j] = <<>>
  BY <1>1, DoneFacts
<1>3. reported = failed
  <2>1. reported \subseteq failed /\ failed \subseteq Sources
    BY <1>1 DEF Errors, PipeTypeOK, ErrorsOK
  <2>2. \A i \in Stages : i \in failed => i \in reported
    BY <1>1, <1>2 DEF Errors, Failing
  <2>3. \A j \in Reporters : N + j \in failed => N + j \in reported
    BY <1>1, <1>2 DEF Errors
  <2>4. \A i \in failed : i \in reported
    BY <2>1, <2>2, <2>3 DEF Sources
  <2>5. QED
    BY <2>1, <2>4
<1>4. QED
  BY <1>2, <1>3

\* A pipeline keeps its invariant: the channels, the errors and the tee are in
\* order, whatever its reporters, the number of items and multiReporters and the
\* size of the channels (report.go, error.go).
THEOREM PipelineCorrect == PipeSpec => []PipelineInv
<1>1. PipeInit => PipelineInv
  BY InitPipeline
<1>2. PipelineInv /\ [PipeNext]_pipeVars => PipelineInv'
  BY NextPipeline
<1>3. QED
  BY <1>1, <1>2, PTL DEF PipeSpec

\* When the caller of a pipeline is done, nothing of it is left to run, and every
\* error of a stage or a multiReporter has reached the caller.
THEOREM NothingLeftAlways == PipeSpec => []NothingLeft
<1>1. PipelineInv => NothingLeft
  BY InvNothingLeft
<1>2. QED
  BY <1>1, PipelineCorrect, PTL
=============================================================================
