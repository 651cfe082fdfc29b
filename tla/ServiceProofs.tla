----------------------------- MODULE ServiceProofs -----------------------------
(***************************************************************************)
(* Proofs about the services together: a behaviour of their product is,    *)
(* for each of them, a behaviour of its own, so everything that is proved  *)
(* of one of them alone holds of the product, and its types do.  And about *)
(* what the services share with every client: the event loop, which the    *)
(* progress streams can stop.                                              *)
(***************************************************************************)
EXTENDS MCServices, ProgressStream, ReviewProofs, AgentProofs, StoreProofs, PipelineProofs

-----------------------------------------------------------------------------
(* The services *)

\* Every service starts as it does alone.
LEMMA SvStarts ==
    SvInit => /\ HrInit /\ RcInit /\ ApInit /\ AgInit /\ GtInit /\ LvInit /\ MdInit /\ DbInit
              /\ LgInit /\ BsInit /\ XtInit /\ SqInit /\ CkInit /\ SxInit /\ SgInit /\ PlInit
BY DEF SvInit

\* A step of the product is a step of one service, and the others rest.
LEMMA SvSteps ==
    [SvNext]_svVars =>
        /\ [HrNext]_hrVars /\ [RcNext]_rcVars /\ [ApNext]_apVars /\ [AgNext]_agVars
        /\ [GtNext]_gtVars /\ [LvNext]_lvVars /\ [MdNext]_mdVars /\ [DbNext]_dbVars
        /\ [LgNext]_lgVars /\ [BsNext]_bsVars /\ [XtNext]_xtVars /\ [SqNext]_sqVars
        /\ [CkNext]_ckVars /\ [SxNext]_sxVars /\ [SgNext]_sgVars /\ [PlNext]_plVars
BY DEF SvNext, AtRest, svVars

(* Every behaviour of the product is one of each service: that the runs check the     *)
(* product of the services checks each of them, and what the theorems of the other    *)
(* modules say of one service holds of the product.                                   *)
THEOREM SvRunsEach ==
    SvSpec =>
        /\ HrSpec /\ RcSpec /\ ApSpec /\ AgSpec /\ GtSpec /\ LvSpec /\ MdSpec
        /\ DbSpec /\ LgSpec /\ BsSpec /\ XtSpec /\ SqSpec /\ CkSpec /\ SxSpec
        /\ SgSpec /\ PlSpec
<1>1. SvSpec => HrSpec
  <2>1. SvInit => HrInit
    BY SvStarts
  <2>2. [SvNext]_svVars => [HrNext]_hrVars
    BY SvSteps
  <2>. QED BY <2>1, <2>2, PTL DEF SvSpec, HrSpec
<1>2. SvSpec => RcSpec
  <2>1. SvInit => RcInit
    BY SvStarts
  <2>2. [SvNext]_svVars => [RcNext]_rcVars
    BY SvSteps
  <2>. QED BY <2>1, <2>2, PTL DEF SvSpec, RcSpec
<1>3. SvSpec => ApSpec
  <2>1. SvInit => ApInit
    BY SvStarts
  <2>2. [SvNext]_svVars => [ApNext]_apVars
    BY SvSteps
  <2>. QED BY <2>1, <2>2, PTL DEF SvSpec, ApSpec
<1>4. SvSpec => AgSpec
  <2>1. SvInit => AgInit
    BY SvStarts
  <2>2. [SvNext]_svVars => [AgNext]_agVars
    BY SvSteps
  <2>. QED BY <2>1, <2>2, PTL DEF SvSpec, AgSpec
<1>5. SvSpec => GtSpec
  <2>1. SvInit => GtInit
    BY SvStarts
  <2>2. [SvNext]_svVars => [GtNext]_gtVars
    BY SvSteps
  <2>. QED BY <2>1, <2>2, PTL DEF SvSpec, GtSpec
<1>6. SvSpec => LvSpec
  <2>1. SvInit => LvInit
    BY SvStarts
  <2>2. [SvNext]_svVars => [LvNext]_lvVars
    BY SvSteps
  <2>. QED BY <2>1, <2>2, PTL DEF SvSpec, LvSpec
<1>7. SvSpec => MdSpec
  <2>1. SvInit => MdInit
    BY SvStarts
  <2>2. [SvNext]_svVars => [MdNext]_mdVars
    BY SvSteps
  <2>. QED BY <2>1, <2>2, PTL DEF SvSpec, MdSpec
<1>8. SvSpec => DbSpec
  <2>1. SvInit => DbInit
    BY SvStarts
  <2>2. [SvNext]_svVars => [DbNext]_dbVars
    BY SvSteps
  <2>. QED BY <2>1, <2>2, PTL DEF SvSpec, DbSpec
<1>9. SvSpec => LgSpec
  <2>1. SvInit => LgInit
    BY SvStarts
  <2>2. [SvNext]_svVars => [LgNext]_lgVars
    BY SvSteps
  <2>. QED BY <2>1, <2>2, PTL DEF SvSpec, LgSpec
<1>10. SvSpec => BsSpec
  <2>1. SvInit => BsInit
    BY SvStarts
  <2>2. [SvNext]_svVars => [BsNext]_bsVars
    BY SvSteps
  <2>. QED BY <2>1, <2>2, PTL DEF SvSpec, BsSpec
<1>11. SvSpec => XtSpec
  <2>1. SvInit => XtInit
    BY SvStarts
  <2>2. [SvNext]_svVars => [XtNext]_xtVars
    BY SvSteps
  <2>. QED BY <2>1, <2>2, PTL DEF SvSpec, XtSpec
<1>12. SvSpec => SqSpec
  <2>1. SvInit => SqInit
    BY SvStarts
  <2>2. [SvNext]_svVars => [SqNext]_sqVars
    BY SvSteps
  <2>. QED BY <2>1, <2>2, PTL DEF SvSpec, SqSpec
<1>13. SvSpec => CkSpec
  <2>1. SvInit => CkInit
    BY SvStarts
  <2>2. [SvNext]_svVars => [CkNext]_ckVars
    BY SvSteps
  <2>. QED BY <2>1, <2>2, PTL DEF SvSpec, CkSpec
<1>14. SvSpec => SxSpec
  <2>1. SvInit => SxInit
    BY SvStarts
  <2>2. [SvNext]_svVars => [SxNext]_sxVars
    BY SvSteps
  <2>. QED BY <2>1, <2>2, PTL DEF SvSpec, SxSpec
<1>15. SvSpec => SgSpec
  <2>1. SvInit => SgInit
    BY SvStarts
  <2>2. [SvNext]_svVars => [SgNext]_sgVars
    BY SvSteps
  <2>. QED BY <2>1, <2>2, PTL DEF SvSpec, SgSpec
<1>16. SvSpec => PlSpec
  <2>1. SvInit => PlInit
    BY SvStarts
  <2>2. [SvNext]_svVars => [PlNext]_plVars
    BY SvSteps
  <2>. QED BY <2>1, <2>2, PTL DEF SvSpec, PlSpec
<1>. QED BY <1>1, <1>2, <1>3, <1>4, <1>5, <1>6, <1>7, <1>8, <1>9, <1>10, <1>11, <1>12, <1>13,
          <1>14, <1>15, <1>16

(* The types of all services, for every value of their constants. *)
THEOREM SvTypesHold == SvSpec => []SvTypeOK
<1>1. SvInit => focus \in Foci
  BY DEF SvInit
<1>2. focus \in Foci /\ [SvNext]_svVars => (focus \in Foci)'
  BY DEF SvNext, svVars, Foci
<1>3. /\ focus \in Foci /\ HrTypeOK /\ RcTypeOK /\ ApTypeOK /\ AgTypeOK /\ GtTypeOK /\ LvTypeOK
      /\ MdTypeOK /\ DbTypeOK /\ LgTypeOK /\ BsTypeOK /\ XtTypeOK /\ SqTypeOK /\ CkTypeOK
      /\ SxTypeOK /\ SgTypeOK /\ PlTypeOK
      => SvTypeOK
  BY DEF SvTypeOK
<1>4. SvSpec => []HrTypeOK
  BY SvRunsEach, HrTypesHold
<1>5. SvSpec => []RcTypeOK
  BY SvRunsEach, RcTypesHold
<1>6. SvSpec => []ApTypeOK
  BY SvRunsEach, ApTypesHold
<1>7. SvSpec => []AgTypeOK
  BY SvRunsEach, AgTypesHold
<1>8. SvSpec => []GtTypeOK
  BY SvRunsEach, GtTypesHold
<1>9. SvSpec => []LvTypeOK
  BY SvRunsEach, LvTypesHold
<1>10. SvSpec => []MdTypeOK
  BY SvRunsEach, MdTypesHold
<1>11. SvSpec => []DbTypeOK
  BY SvRunsEach, DbTypesHold
<1>12. SvSpec => []LgTypeOK
  BY SvRunsEach, LgTypesHold
<1>13. SvSpec => []BsTypeOK
  BY SvRunsEach, BsTypesHold
<1>14. SvSpec => []XtTypeOK
  BY SvRunsEach, XtTypesHold
<1>15. SvSpec => []SqTypeOK
  BY SvRunsEach, SqTypesHold
<1>16. SvSpec => []CkTypeOK
  BY SvRunsEach, CkTypesHold
<1>17. SvSpec => []SxTypeOK
  BY SvRunsEach, SxTypesHold
<1>18. SvSpec => []SgTypeOK
  BY SvRunsEach, SgTypesHold
<1>19. SvSpec => []PlTypeOK
  BY SvRunsEach, PlTypesHold
<1>. QED BY <1>1, <1>2, <1>3, <1>4, <1>5, <1>6, <1>7, <1>8, <1>9, <1>10, <1>11, <1>12, <1>13,
          <1>14, <1>15, <1>16, <1>17, <1>18, <1>19, PTL DEF SvSpec

(* The properties of the services, together: what the run of their product checks on a *)
(* small instance holds for every value of the constants, as long as an agent turn may  *)
(* take no more steps than messages are kept (12 and 14 in the code).                   *)
THEOREM SvSoundHolds ==
    ASSUME AgSteps <= AgKeep
    PROVE  SvSpec => []( /\ HrDecisionsKept /\ RcServesOwnReport /\ ApAnswerTrue
                         /\ AgQuestionSeen /\ GtLineageKept /\ LvReportOwn
                         /\ MdUnflaggedSound /\ PlPlanSound /\ SgVerdictsAgree
                         /\ DbBulkAccounted /\ LgUsageKept /\ BsColumnsKept
                         /\ XtNothingMissed /\ SqOwnDatabase /\ CkKept /\ SxCredited )
<1>1. SvSpec => []HrDecisionsKept
  BY SvRunsEach, HrDecisionsKeptHolds
<1>2. SvSpec => []RcServesOwnReport
  BY SvRunsEach, RcServesOwnReportHolds
<1>3. SvSpec => []ApAnswerTrue
  BY SvRunsEach, ApAnswerTrueHolds
<1>4. SvSpec => []AgQuestionSeen
  BY SvRunsEach, AgQuestionSeenHolds
<1>5. SvSpec => []GtLineageKept
  BY SvRunsEach, GtLineageKeptHolds
<1>6. SvSpec => []LvReportOwn
  BY SvRunsEach, LvReportOwnHolds
<1>7. SvSpec => []MdUnflaggedSound
  BY SvRunsEach, MdUnflaggedSoundHolds
<1>8. SvSpec => []PlPlanSound
  BY SvRunsEach, PlPlanSoundHolds
<1>9. SvSpec => []SgVerdictsAgree
  BY SvRunsEach, SgVerdictsAgreeHolds
<1>10. SvSpec => []DbBulkAccounted
  BY SvRunsEach, DbBulkAccountedHolds
<1>11. SvSpec => []LgUsageKept
  BY SvRunsEach, LgUsageKeptHolds
<1>12. SvSpec => []BsColumnsKept
  BY SvRunsEach, BsColumnsKeptHolds
<1>13. SvSpec => []XtNothingMissed
  BY SvRunsEach, XtNothingMissedHolds
<1>14. SvSpec => []SqOwnDatabase
  BY SvRunsEach, SqOwnDatabaseHolds
<1>15. SvSpec => []CkKept
  BY SvRunsEach, CkKeptHolds
<1>16. SvSpec => []SxCredited
  BY SvRunsEach, SxCreditedHolds
<1>. QED BY <1>1, <1>2, <1>3, <1>4, <1>5, <1>6, <1>7, <1>8, <1>9, <1>10, <1>11, <1>12, <1>13,
          <1>14, <1>15, <1>16, PTL

-----------------------------------------------------------------------------
(* ProgressStream: only the "job not found" branch can stop the event loop, for any *)
(* number of streams and jobs. The type invariant needs to know that a stream that    *)
(* reads follows a job; the two are inductive with the claim.                         *)

\* A stream that connected follows a job id.
Connected == \A w \in Streams : at[w] # "none" => follows[w] \in Jobs

StreamInv == StreamTypeOK /\ Connected /\ OnlyMissingStopsTheLoop

\* What a thread of the pool does with the lock free cannot disturb a holder.
LEMMA ThreadsKeep ==
    ASSUME StreamInv,
           NEW j \in Jobs, Start(j) \/ Clear(j) \/ Thread(j)
    PROVE  StreamInv'
<1>. USE DEF StreamInv, StreamTypeOK, Connected, OnlyMissingStopsTheLoop,
         streamVars, Waiting, Open
<1>1. CASE Start(j)
  BY <1>1 DEF Start
<1>2. CASE Clear(j)
  BY <1>2 DEF Clear
<1>3. CASE Begin(j)
  BY <1>3 DEF Begin
<1>4. CASE End(j)
  BY <1>4 DEF End
<1>. QED BY <1>1, <1>2, <1>3, <1>4 DEF Thread

\* A coroutine that holds the lock is not the one that moves, or it gives it back.
LEMMA CoroutinesKeep ==
    ASSUME StreamInv,
           NEW w \in Streams,
           Coroutine(w) \/ Disconnect(w) \/ \E j \in Jobs : Connect(w, j)
    PROVE  StreamInv'
<1>. USE StreamAssumption DEF StreamInv, StreamTypeOK, Connected,
         OnlyMissingStopsTheLoop, Move,
         jobVars, streamVars, Waiting, Open
<1>1. CASE \E j \in Jobs : Connect(w, j)
  BY <1>1 DEF Connect
<1>2. CASE Block(w)
  BY <1>2 DEF Block
<1>3. CASE Read(w)
  BY <1>3 DEF Read
<1>4. CASE Missing(w)
  BY <1>4 DEF Missing
<1>5. CASE Told(w)
  BY <1>5 DEF Told
<1>6. CASE Sent(w)
  BY <1>6 DEF Sent
<1>7. CASE Close(w)
  BY <1>7 DEF Close
<1>8. CASE Disconnect(w)
  BY <1>8 DEF Disconnect
<1>. QED BY <1>1, <1>2, <1>3, <1>4, <1>5, <1>6, <1>7, <1>8 DEF Coroutine

\* The invariant holds initially and every step keeps it.
LEMMA StreamInvHolds == SafeSpec => []StreamInv
<1>1. Init => StreamInv
  BY StreamAssumption DEF Init, StreamInv, StreamTypeOK, Connected, OnlyMissingStopsTheLoop, Open
<1>2. StreamInv /\ [Next]_vars => StreamInv'
  <2>. SUFFICES ASSUME StreamInv, [Next]_vars
                PROVE  StreamInv'
    OBVIOUS
  <2>1. CASE \E j \in Jobs : Start(j) \/ Clear(j) \/ Thread(j)
    BY <2>1, ThreadsKeep
  <2>2. CASE \E w \in Streams :
               Coroutine(w) \/ Disconnect(w) \/ \E j \in Jobs : Connect(w, j)
    BY <2>2, CoroutinesKeep
  <2>3. CASE UNCHANGED vars
    BY <2>3 DEF StreamInv, StreamTypeOK, Connected, OnlyMissingStopsTheLoop,
         vars, jobVars, streamVars, Waiting, Open
  <2>. QED BY <2>1, <2>2, <2>3 DEF Next
<1>. QED BY <1>1, <1>2, PTL DEF SafeSpec

\* Every reachable state is well typed and its event loop is stopped, if at all, by
\* two streams, one of them telling its client that its job does not exist.
THEOREM OnlyMissingStopsTheLoopHolds ==
    SafeSpec => [](StreamTypeOK /\ OnlyMissingStopsTheLoop)
<1>1. StreamInv => StreamTypeOK /\ OnlyMissingStopsTheLoop
  BY DEF StreamInv
<1>. QED BY <1>1, StreamInvHolds, PTL

\* However streams connect, poll and disconnect while jobs are started and cleared: the lock
\* is free or held by a stream, and each job and each stream of api/ws.py is in a state of its.
THEOREM StreamTypesHold == SafeSpec => []StreamTypeOK
<1>1. StreamInv => StreamTypeOK
  BY DEF StreamInv
<1>. QED BY <1>1, StreamInvHolds, PTL
=============================================================================
