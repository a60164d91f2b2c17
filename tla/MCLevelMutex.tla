-------------------------- MODULE MCLevelMutex --------------------------
(***************************************************************************)
(* Instances of LevelMutex: the levels of LevelMutex_use.cpp (two mutexes  *)
(* of level 10, one of 30, one of 40) and a mutex of level 0, which nobody can lock.  *)
(***************************************************************************)
EXTENDS LevelMutex, TLC

CONSTANTS t1, t2, t3, mtx0, mtx1, mtx2, mtx3, mtx4

MCLevels == mtx0 :> 0 @@ mtx1 :> 10 @@ mtx2 :> 10 @@ mtx3 :> 30
            @@ mtx4 :> 40

Symmetry == Permutations(Threads) \cup Permutations({mtx1, mtx2})

=========================================================================
