-------------------------- MODULE OutputDirs_proofs --------------------------
(***************************************************************************)
(* What a settled stage serves is proved for any number of runs, deaths    *)
(* and failed deletions; that the previous files are never lost is proved  *)
(* for as long as no worker died and no connection or clean-up broke.      *)
(***************************************************************************)
EXTENDS OutputDirs, TLAPS

\* A directory is never the absence of one.
LEMMA Directories ==
  /\ \A r \in Runs : Files(r) \in Dir /\ Files(r) # None
  /\ \A d \in Dir : Damaged(d) \in Dir /\ Damaged(d) # None
<1>1. \A r \in Runs : Files(r) \in Dir
  BY DEF Files, Dir
<1>2. \A d \in Dir : Damaged(d) \in Dir
  BY DEF Damaged, Dir
<1>3. QED
  BY <1>1, <1>2, RunsAssumption

LEMMA InitInv == Init => SettledInv
<1> SUFFICES ASSUME Init PROVE SettledInv
  OBVIOUS
<1>1. TypeOK
  <2>1. deaths \in 0..MaxDeaths /\ broken \in 0..MaxBroken /\ leftovers \in 0..MaxLeftovers
    BY FaultsAssumption DEF Init
  <2>2. QED
    BY <2>1, Zenon DEF Init, TypeOK, Steps
<1>2. RunShape /\ TidySoFar
  BY DEF Init, RunShape, InRun, TidySoFar
<1>3. SettledFilesMatch /\ NothingLeftBehind
  BY DEF Init, SettledFilesMatch, NothingLeftBehind
<1>4. QED
  BY <1>1, <1>2, <1>3 DEF SettledInv

\* Nothing that settles the stage happens in these steps.
LEMMA TypeStep == SettledInv /\ [Next]_vars => TypeOK'
<1> SUFFICES ASSUME SettledInv, [Next]_vars PROVE TypeOK'
  OBVIOUS
<1> USE Directories, RunsAssumption, FaultsAssumption
    DEF SettledInv, TypeOK, Steps, RunShape, InRun, Remains, Tidy,
        disk, database, process, bounds
<1>1. CASE Rearm
  BY <1>1 DEF Rearm
<1>2. ASSUME NEW r \in Runs, Start(r) PROVE TypeOK'
  BY <1>2 DEF Start
<1>3. CASE RecoverBackup
  BY <1>3 DEF RecoverBackup, Orphaned
<1>4. CASE ClearBackup
  BY <1>4 DEF ClearBackup
<1>5. CASE MoveAside
  BY <1>5 DEF MoveAside, SetAside
<1>6. CASE Replace
  BY <1>6 DEF Replace
<1>7. CASE RowsFail
  BY <1>7 DEF RowsFail
<1>8. CASE Commit
  BY <1>8 DEF Commit
<1>9. CASE CommitLost
  BY <1>9 DEF CommitLost
<1>10. CASE RestorePutBack
  BY <1>10 DEF RestorePutBack, CanPutBack
<1>11. CASE FailStage
  BY <1>11 DEF FailStage
<1>12. CASE Checkpoint
  BY <1>12 DEF Checkpoint
<1>13. CASE CommitSilence
  BY <1>13 DEF CommitSilence
<1>14. CASE ClearTarget
  BY <1>14 DEF ClearTarget
<1>15. CASE CommitSkip
  BY <1>15 DEF CommitSkip
<1>16. CASE ClearFails
  BY <1>16 DEF ClearFails
<1>17. CASE Crash
  <2>1. target' \in Dir \union {None} /\ backup' \in Dir \union {None}
    BY <1>17 DEF Crash
  <2>2. strays' \in BOOLEAN /\ staging' \in Dir \union {None}
    BY <1>17, Zenon DEF Crash
  <2>3. deaths' \in 0..MaxDeaths
    BY <1>17 DEF Crash
  <2>4. QED
    BY <1>17, <2>1, <2>2, <2>3, Zenon DEF Crash
<1>18. ASSUME NEW gone \in BOOLEAN, OpenStaging(gone) PROVE TypeOK'
  BY <1>18 DEF OpenStaging, Swept
<1>19. ASSUME NEW gone \in BOOLEAN, BuildFails(gone) PROVE TypeOK'
  BY <1>19 DEF BuildFails
<1>20. ASSUME NEW gone \in BOOLEAN, PublishFails(gone) PROVE TypeOK'
  BY <1>20 DEF PublishFails, AfterOSError
<1>21. ASSUME NEW gone \in BOOLEAN, RestoreDelete(gone) PROVE TypeOK'
  BY <1>21 DEF RestoreDelete
<1>22. ASSUME NEW gone \in BOOLEAN, RetireBackup(gone) PROVE TypeOK'
  <2>1. backup' \in Dir \union {None}
    BY <1>22 DEF RetireBackup
  <2>2. leftovers' \in 0..MaxLeftovers
    BY <1>22 DEF RetireBackup
  <2>3. QED
    BY <1>22, <2>1, <2>2, Zenon DEF RetireBackup, AfterHook
<1>23. ASSUME NEW gone \in BOOLEAN, RemoveSilent(gone) PROVE TypeOK'
  BY <1>23 DEF RemoveSilent, Siblings, AfterHook
<1>24. ASSUME NEW gone \in BOOLEAN, ClearSiblings(gone) PROVE TypeOK'
  BY <1>24 DEF ClearSiblings, Siblings
<1>25. CASE UNCHANGED vars
  BY <1>25 DEF vars
<1>26. QED
  BY <1>1, <1>2, <1>3, <1>4, <1>5, <1>6, <1>7, <1>8, <1>9, <1>10,
     <1>11, <1>12, <1>13, <1>14, <1>15, <1>16, <1>17, <1>18, <1>19, <1>20, <1>21, <1>22, <1>23, <1>24, <1>25
  DEF Next

\* One step of the rest of the invariant, given that every table keeps its shape.
LEMMA RestStep ==
  SettledInv /\ [Next]_vars =>
    (RunShape /\ TidySoFar /\ SettledFilesMatch /\ NothingLeftBehind)'
<1> DEFINE Rest == RunShape /\ TidySoFar /\ SettledFilesMatch /\ NothingLeftBehind
<1> SUFFICES ASSUME SettledInv, [Next]_vars PROVE Rest'
  OBVIOUS
<1> USE Directories, RunsAssumption, FaultsAssumption
    DEF SettledInv, TypeOK, Steps, RunShape, InRun, TidySoFar, SettledFilesMatch,
        NothingLeftBehind, Tidy, disk, database, process, bounds
<1>1. CASE Rearm
  BY <1>1 DEF Rearm
<1>2. ASSUME NEW r \in Runs, Start(r) PROVE Rest'
  BY <1>2 DEF Start
<1>3. CASE RecoverBackup
  BY <1>3 DEF RecoverBackup, Orphaned
<1>4. CASE ClearBackup
  BY <1>4 DEF ClearBackup
<1>5. CASE MoveAside
  BY <1>5 DEF MoveAside, SetAside
<1>6. CASE Replace
  BY <1>6 DEF Replace
<1>7. CASE RowsFail
  BY <1>7 DEF RowsFail
<1>8. CASE Commit
  BY <1>8 DEF Commit
<1>9. CASE CommitLost
  BY <1>9 DEF CommitLost
<1>10. CASE RestorePutBack
  BY <1>10 DEF RestorePutBack, CanPutBack
<1>11. CASE FailStage
  BY <1>11 DEF FailStage
<1>12. CASE Checkpoint
  <2>1. RunShape'
    BY <1>12 DEF Checkpoint
  <2>2. TidySoFar'
    BY <1>12, Zenon DEF Checkpoint
  <2>3. SettledFilesMatch'
    BY <1>12 DEF Checkpoint
  <2>4. NothingLeftBehind'
    <3>1. pc = "checkpoint" /\ UNCHANGED <<backup, strays, leftovers>>
      BY <1>12, Zenon DEF Checkpoint
    <3>2. leftovers = 0 => backup = None
      BY <3>1
    <3>3. leftovers = 0 => ~strays
      BY <3>1, Zenon
    <3>4. QED
      BY <3>1, <3>2, <3>3, Zenon
  <2>5. QED
    BY <2>1, <2>2, <2>3, <2>4
<1>13. CASE CommitSilence
  BY <1>13 DEF CommitSilence
<1>14. CASE ClearTarget
  BY <1>14 DEF ClearTarget
<1>15. CASE CommitSkip
  BY <1>15 DEF CommitSkip
<1>16. CASE ClearFails
  BY <1>16 DEF ClearFails
<1>17. CASE Crash
  BY <1>17 DEF Crash
<1>18. ASSUME NEW gone \in BOOLEAN, OpenStaging(gone) PROVE Rest'
  <2>1. RunShape' /\ SettledFilesMatch' /\ NothingLeftBehind'
    BY <1>18 DEF OpenStaging
  <2>2. TidySoFar'
    <3>1. leftovers' = 0 => gone
      BY <1>18 DEF OpenStaging
    <3>2. leftovers' = 0 => ~strays'
      BY <1>18, <3>1, Zenon DEF OpenStaging, Swept
    <3>3. QED
      BY <1>18, <3>2 DEF OpenStaging
  <2>3. QED
    BY <2>1, <2>2
<1>19. ASSUME NEW gone \in BOOLEAN, BuildFails(gone) PROVE Rest'
  BY <1>19 DEF BuildFails
<1>20. ASSUME NEW gone \in BOOLEAN, PublishFails(gone) PROVE Rest'
  BY <1>20 DEF PublishFails, AfterOSError
<1>21. ASSUME NEW gone \in BOOLEAN, RestoreDelete(gone) PROVE Rest'
  BY <1>21 DEF RestoreDelete, Remains
<1>22. ASSUME NEW gone \in BOOLEAN, RetireBackup(gone) PROVE Rest'
  BY <1>22 DEF RetireBackup, AfterHook, Remains
<1>23. ASSUME NEW gone \in BOOLEAN, RemoveSilent(gone) PROVE Rest'
  <2>1. RunShape' /\ SettledFilesMatch' /\ NothingLeftBehind'
    BY <1>23 DEF RemoveSilent, AfterHook
  <2>2. TidySoFar'
    <3>1. leftovers' = 0 => gone
      BY <1>23 DEF RemoveSilent
    <3>2. leftovers' = 0 => ~strays' /\ backup' = None
      BY <1>23, <3>1, Zenon DEF RemoveSilent, Siblings
    <3>3. QED
      BY <1>23, <3>2 DEF RemoveSilent, AfterHook
  <2>3. QED
    BY <2>1, <2>2
<1>24. ASSUME NEW gone \in BOOLEAN, ClearSiblings(gone) PROVE Rest'
  BY <1>24 DEF ClearSiblings, Siblings
<1>25. CASE UNCHANGED vars
  BY <1>25 DEF vars
<1>26. QED
  BY <1>1, <1>2, <1>3, <1>4, <1>5, <1>6, <1>7, <1>8, <1>9, <1>10,
     <1>11, <1>12, <1>13, <1>14, <1>15, <1>16, <1>17, <1>18, <1>19, <1>20, <1>21, <1>22, <1>23, <1>24, <1>25
  DEF Next

\* The inductive invariant of the swap, for any number of runs and faults.
THEOREM SwapInvariant == Spec => []SettledInv
<1>1. SettledInv /\ [Next]_vars => SettledInv'
  BY TypeStep, RestStep DEF SettledInv
<1>2. QED
  BY InitInv, <1>1, PTL DEF Spec

\* A settled stage serves exactly the files its committed rows name.
THEOREM SettledStagesMatch == Spec => []SettledFilesMatch
<1>1. SettledInv => SettledFilesMatch
  BY DEF SettledInv
<1>2. QED
  BY SwapInvariant, <1>1, PTL

\* A settled stage leaves no backup and no staging, unless a deletion failed.
THEOREM SettledStagesAreTidy == Spec => []NothingLeftBehind
<1>1. SettledInv => NothingLeftBehind
  BY DEF SettledInv
<1>2. QED
  BY SwapInvariant, <1>1, PTL

-----------------------------------------------------------------------------
\* Until a death or a broken connection the previous files have one place.
LEMMA PreviousStep ==
  ASSUME SettledInv, PreviousAt, [Next]_vars
  PROVE  PreviousAt'
<1> USE Directories, RunsAssumption
    DEF SettledInv, TypeOK, Steps, RunShape, InRun, Unbroken, PreviousAt, disk, database, process, bounds
<1>1. CASE Rearm
  BY <1>1 DEF Rearm
<1>2. ASSUME NEW r \in Runs, Start(r) PROVE PreviousAt'
  BY <1>2 DEF Start
<1>3. CASE RecoverBackup
  BY <1>3 DEF RecoverBackup, Orphaned
<1>4. CASE ClearBackup
  BY <1>4 DEF ClearBackup
<1>5. CASE MoveAside
  BY <1>5 DEF MoveAside, SetAside
<1>6. CASE Replace
  BY <1>6 DEF Replace
<1>7. CASE RowsFail
  BY <1>7 DEF RowsFail
<1>8. CASE Commit
  BY <1>8 DEF Commit
<1>9. CASE RestorePutBack
  BY <1>9 DEF RestorePutBack, CanPutBack
<1>10. CASE FailStage
  BY <1>10 DEF FailStage
<1>11. CASE Checkpoint
  BY <1>11 DEF Checkpoint
<1>12. CASE CommitSilence
  BY <1>12 DEF CommitSilence
<1>13. CASE ClearTarget
  BY <1>13 DEF ClearTarget
<1>14. CASE CommitSkip
  BY <1>14 DEF CommitSkip
<1>15. CASE CommitLost
  BY <1>15 DEF CommitLost
<1>16. CASE ClearFails
  BY <1>16 DEF ClearFails
<1>17. CASE Crash
  BY <1>17 DEF Crash
<1>18. ASSUME NEW gone \in BOOLEAN, OpenStaging(gone) PROVE PreviousAt'
  BY <1>18 DEF OpenStaging, Swept
<1>19. ASSUME NEW gone \in BOOLEAN, BuildFails(gone) PROVE PreviousAt'
  BY <1>19 DEF BuildFails
<1>20. ASSUME NEW gone \in BOOLEAN, PublishFails(gone) PROVE PreviousAt'
  BY <1>20 DEF PublishFails, AfterOSError
<1>21. ASSUME NEW gone \in BOOLEAN, RestoreDelete(gone) PROVE PreviousAt'
  BY <1>21 DEF RestoreDelete, Remains
<1>22. ASSUME NEW gone \in BOOLEAN, RetireBackup(gone) PROVE PreviousAt'
  BY <1>22 DEF RetireBackup, AfterHook
<1>23. ASSUME NEW gone \in BOOLEAN, RemoveSilent(gone) PROVE PreviousAt'
  BY <1>23 DEF RemoveSilent, Siblings, AfterHook
<1>24. ASSUME NEW gone \in BOOLEAN, ClearSiblings(gone) PROVE PreviousAt'
  BY <1>24 DEF ClearSiblings, Siblings
<1>25. CASE UNCHANGED vars
  BY <1>25 DEF vars
<1>26. QED
  BY <1>1, <1>2, <1>3, <1>4, <1>5, <1>6, <1>7, <1>8, <1>9, <1>10,
     <1>11, <1>12, <1>13, <1>14, <1>15, <1>16, <1>17, <1>18, <1>19, <1>20, <1>21, <1>22, <1>23, <1>24, <1>25
  DEF Next

\* Where the previous files are, for any number of runs.
THEOREM PreviousPlaces == Spec => []PreviousAt
<1>1. Init => PreviousAt
  BY DEF Init, PreviousAt
<1>2. SettledInv /\ PreviousAt /\ [Next]_vars => PreviousAt'
  BY PreviousStep
<1>3. QED
  BY SwapInvariant, <1>1, <1>2, PTL DEF Spec

\* Until a worker dies or a connection breaks, the files the committed rows
\* name are on disk at every moment, whatever call of the run fails.
THEOREM PreviousSurvives == Spec => []PreviousKept
<1>1. SettledInv /\ PreviousAt => PreviousKept
  BY DEF SettledInv, TypeOK, Steps, RunShape, PreviousAt, PreviousKept, PreviousNeverLost
<1>2. QED
  BY SwapInvariant, PreviousPlaces, <1>1, PTL

\* ... and a failed rerun leaves the previous files in their place.
THEOREM FailedRerunsKeepPrevious == Spec => []FailedRerunKeepsPrevious
<1>1. PreviousAt => FailedRerunKeepsPrevious
  BY DEF PreviousAt, FailedRerunKeepsPrevious
<1>2. QED
  BY PreviousPlaces, <1>1, PTL
=============================================================================
