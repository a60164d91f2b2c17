------------------------- MODULE MCLevelMutexUse -------------------------
(***************************************************************************)
(* Instances of LevelMutexUse with the levels of LevelMutex_use.cpp.       *)
(***************************************************************************)
EXTENDS LevelMutexUse, TLC

MCLevels == mtx1 :> 10 @@ mtx2 :> 10 @@ mtx3 :> 30 @@ mtx4 :> 40 @@ mtx5 :> 50

=========================================================================
