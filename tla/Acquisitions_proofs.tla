------------------------ MODULE Acquisitions_proofs ------------------------
(***************************************************************************)
(* Proofs about Acquisitions, for any acquisitions, sources and faults.    *)
(***************************************************************************)
EXTENDS Acquisitions, TLAPS

\* Nothing is launched, and no session exists.
LEMMA InitInv == Init => IInv
<1> SUFFICES ASSUME Init PROVE IInv
  OBVIOUS
<1> USE SourcesAssumption, NoneAssumption, BoundsAssumption
     DEF Init, NoRecord, Records, SessionStates, Sources, LIVE_STATUSES, TERMINAL_STATUSES, Alive, IsUpload
<1>1. TypeOK
  BY DEF TypeOK
<1>2. LockInv
  BY DEF LockInv
<1>3. BytesInv
  BY DEF BytesInv
<1>4. FinalInv /\ ExclusiveInv
  BY DEF FinalInv, ExclusiveInv, Unbroken, Claims
<1>q. QED
  BY <1>1, <1>2, <1>3, <1>4 DEF IInv

\* A status is replaced, or a status and a pid: the record keeps its kind.
LEMMA RecordKept ==
  ASSUME TypeOK, NEW i \in Acquisitions,
         NEW status \in {"none"} \union LIVE_STATUSES \union TERMINAL_STATUSES
  PROVE  /\ [record EXCEPT ![i].status = status] \in [Acquisitions -> Records]
         /\ [record EXCEPT ![i].status = status, ![i].pid = TRUE] \in [Acquisitions -> Records]
<1>1. record \in [Acquisitions -> Records] /\ record[i] \in Records
  BY DEF TypeOK
<1>2. [record[i] EXCEPT !.status = status] \in Records
  BY <1>1 DEF Records
<1>3. [record[i] EXCEPT !.status = status, !.pid = TRUE] \in Records
  BY <1>1 DEF Records
<1>q. QED
  BY <1>1, <1>2, <1>3

\* A sweep touches only what is sweepable, and the request's session is new.
LEMMA Sweeps ==
  ASSUME TypeOK, NEW s \in Sessions, Request(s)
  PROVE  /\ session' \in [Sessions -> SessionStates]
         /\ session'[s] = "requested"
         /\ \A t \in Sessions : t # s => \/ session'[t] = session[t]
                                         \/ t \in Sweepable /\ session'[t] \in {"gone", "partial"}
<1> USE DEF TypeOK, SessionStates, Swept, Sweepable
<1>1. CASE session' = [Swept EXCEPT ![s] = "requested"]
  BY <1>1
<1>2. ASSUME NEW t \in Sweepable, session' = [Swept EXCEPT ![s] = "requested", ![t] = "partial"]
      PROVE  session' \in [Sessions -> SessionStates]
             /\ session'[s] = "requested"
             /\ \A u \in Sessions : u # s => \/ session'[u] = session[u]
                                             \/ u \in Sweepable /\ session'[u] \in {"gone", "partial"}
  BY <1>2 DEF Request
<1>q. QED
  BY <1>1, <1>2 DEF Request

\* Every step writes records, sessions and process states of their kind.
LEMMA StepType == TypeOK /\ LockInv /\ BytesInv /\ [Next]_vars => TypeOK'
<1> SUFFICES ASSUME TypeOK, LockInv, BytesInv, [Next]_vars PROVE TypeOK'
  OBVIOUS
<1> USE SourcesAssumption, NoneAssumption, BoundsAssumption DEF TypeOK, SessionStates,
        files, processes, bounds
<1>1. ASSUME NEW i \in Acquisitions, NEW s \in Sources, Claim(i, s) PROVE TypeOK'
  BY <1>1 DEF Claim, Claimable, Holders, LiveRecord, PidIsLive, Records, LIVE_STATUSES,
     Sources
<1>2. ASSUME NEW i \in Acquisitions, NEW s \in Sources, Refuse(i, s) PROVE TypeOK'
  BY <1>2 DEF Refuse
<1>3. ASSUME NEW i \in Acquisitions, NEW s \in Sources, ClaimFails(i, s) PROVE TypeOK'
  BY <1>3 DEF ClaimFails, Discarded, Fault
<1>4. ASSUME NEW i \in Acquisitions, Spawn(i) PROVE TypeOK'
  BY <1>4 DEF Spawn, StillUnwaited
<1>5. ASSUME NEW i \in Acquisitions, SpawnFails(i) PROVE TypeOK'
  BY <1>5 DEF SpawnFails, Discarded, Fault, Records, LIVE_STATUSES, TERMINAL_STATUSES
<1>6. ASSUME NEW i \in Acquisitions, RecordPid(i) PROVE TypeOK'
  <2>1. record' \in [Acquisitions -> Records]
    BY <1>6, RecordKept DEF RecordPid, Forgotten, LIVE_STATUSES
  <2>q. QED
    BY <1>6, <2>1 DEF RecordPid, Forgotten
<1>7. ASSUME NEW i \in Acquisitions, RecordPidFails(i) PROVE TypeOK'
  BY <1>7 DEF RecordPidFails, Discarded, Fault, Forgotten
<1>8. ASSUME NEW i \in Acquisitions, Run(i) PROVE TypeOK'
  <2>1. record' \in [Acquisitions -> Records]
    BY <1>8, RecordKept DEF Run, Exits, LIVE_STATUSES
  <2>q. QED
    BY <1>8, <2>1 DEF Run, Exits
<1>9. ASSUME NEW i \in Acquisitions, ConfigError(i) PROVE TypeOK'
  <2>1. \A st \in TERMINAL_STATUSES : [record EXCEPT ![i].status = st] \in [Acquisitions -> Records]
    BY RecordKept
  <2>2. record' \in [Acquisitions -> Records]
    BY <1>9, <2>1 DEF ConfigError, Ends, Exits, TERMINAL_STATUSES
  <2>q. QED
    BY <1>9, <2>2 DEF ConfigError, Ends, Exits, TERMINAL_STATUSES
<1>10. ASSUME NEW i \in Acquisitions, Mint(i) PROVE TypeOK'
  BY <1>10 DEF Mint, Claimable
<1>11. ASSUME NEW i \in Acquisitions, RefusedByMint(i) PROVE TypeOK'
  <2>1. \A st \in TERMINAL_STATUSES : [record EXCEPT ![i].status = st] \in [Acquisitions -> Records]
    BY RecordKept
  <2>2. record' \in [Acquisitions -> Records]
    BY <1>11, <2>1 DEF RefusedByMint, Ends, Exits, TERMINAL_STATUSES
  <2>q. QED
    BY <1>11, <2>2 DEF RefusedByMint, Ends, Exits, TERMINAL_STATUSES
<1>12. ASSUME NEW i \in Acquisitions, PostIngest(i) PROVE TypeOK'
  <2>1. \A st \in TERMINAL_STATUSES : [record EXCEPT ![i].status = st] \in [Acquisitions -> Records]
    BY RecordKept
  <2>2. record' \in [Acquisitions -> Records]
    BY <1>12, <2>1 DEF PostIngest, Ends, Exits, TERMINAL_STATUSES
  <2>q. QED
    BY <1>12, <2>2 DEF PostIngest, Ends, Exits, TERMINAL_STATUSES
<1>13. ASSUME NEW i \in Acquisitions, Complete(i) PROVE TypeOK'
  BY <1>13 DEF Complete, BytesGone, Discarded
<1>14. ASSUME NEW i \in Acquisitions, Publish(i) PROVE TypeOK'
  <2>1. \A st \in TERMINAL_STATUSES : [record EXCEPT ![i].status = st] \in [Acquisitions -> Records]
    BY RecordKept
  <2>2. record' \in [Acquisitions -> Records]
    BY <1>14, <2>1 DEF Publish, Exits, Fault, TERMINAL_STATUSES, BytesInv
  <2>q. QED
    BY <1>14, <2>2 DEF Publish, Exits, Fault, TERMINAL_STATUSES, BytesInv
<1>15. ASSUME NEW i \in Acquisitions, CleanUp(i) PROVE TypeOK'
  BY <1>15 DEF CleanUp, Discarded, Exits, Fault
<1>16. ASSUME NEW i \in Acquisitions, RunFails(i) PROVE TypeOK'
  BY <1>16 DEF RunFails, Exits, Fault
<1>17. ASSUME NEW i \in Acquisitions, Breaks(i) PROVE TypeOK'
  BY <1>17 DEF Breaks, Exits, Fault
<1>18. ASSUME NEW i \in Acquisitions, CompleteFails(i) PROVE TypeOK'
  BY <1>18 DEF CompleteFails, Fault
<1>19. ASSUME NEW i \in Acquisitions, Die(i) PROVE TypeOK'
  BY <1>19 DEF Die, Exits, HeldByChild, Alive
<1>20. ASSUME NEW s \in Sessions, Request(s) PROVE TypeOK'
  BY <1>20, Sweeps DEF Request, Fault
<1>21. ASSUME NEW s \in Sessions, Receive(s) PROVE TypeOK'
  BY <1>21 DEF Receive
<1>22. ASSUME NEW s \in Sessions, Received(s) PROVE TypeOK'
  BY <1>22 DEF Received
<1>23. ASSUME NEW s \in Sessions, ReceiveFails(s) PROVE TypeOK'
  BY <1>23 DEF ReceiveFails
<1>24. ASSUME NEW s \in Sessions, Expire(s) PROVE TypeOK'
  BY <1>24 DEF Expire
<1>25. ASSUME NEW s \in Sessions, Delete(s) PROVE TypeOK'
  BY <1>25 DEF Delete, Discarded
<1>26. ASSUME OtherProcess PROVE TypeOK'
  BY <1>26 DEF OtherProcess, StillUnwaited
<1>27. ASSUME ApiCrash PROVE TypeOK'
  BY <1>27 DEF ApiCrash
<1>28. CASE UNCHANGED vars
  BY <1>28 DEF vars
<1>q. QED
  BY <1>1, <1>2, <1>3, <1>4, <1>5, <1>6, <1>7, <1>8, <1>9, <1>10, <1>11, <1>12, <1>13,
     <1>14, <1>15, <1>16, <1>17, <1>18, <1>19, <1>20, <1>21, <1>22, <1>23, <1>24, <1>25,
     <1>26, <1>27, <1>28 DEF Next, ChildStep

\* A launch or a finishing process takes the free lock and gives it back.
LEMMA StepLock == TypeOK /\ LockInv /\ BytesInv /\ [Next]_vars => LockInv'
<1> SUFFICES ASSUME TypeOK, LockInv, BytesInv, [Next]_vars PROVE LockInv'
  OBVIOUS
<1> USE SourcesAssumption, NoneAssumption, BoundsAssumption DEF TypeOK, Records,
        SessionStates, Sources, LIVE_STATUSES, TERMINAL_STATUSES, LockInv, BytesInv,
        IsUpload, files, processes, bounds
<1>1. ASSUME NEW i \in Acquisitions, NEW s \in Sources, Claim(i, s) PROVE LockInv'
  BY <1>1 DEF Claim, Claimable, Holders, LiveRecord, PidIsLive
<1>2. ASSUME NEW i \in Acquisitions, NEW s \in Sources, Refuse(i, s) PROVE LockInv'
  BY <1>2 DEF Refuse
<1>3. ASSUME NEW i \in Acquisitions, NEW s \in Sources, ClaimFails(i, s) PROVE LockInv'
  BY <1>3 DEF ClaimFails, Discarded, Fault
<1>4. ASSUME NEW i \in Acquisitions, Spawn(i) PROVE LockInv'
  BY <1>4 DEF Spawn, StillUnwaited
<1>5. ASSUME NEW i \in Acquisitions, SpawnFails(i) PROVE LockInv'
  BY <1>5 DEF SpawnFails, Discarded, Fault
<1>6. ASSUME NEW i \in Acquisitions, RecordPid(i) PROVE LockInv'
  BY <1>6 DEF RecordPid, Forgotten
<1>7. ASSUME NEW i \in Acquisitions, RecordPidFails(i) PROVE LockInv'
  BY <1>7 DEF RecordPidFails, Discarded, Fault, Forgotten
<1>8. ASSUME NEW i \in Acquisitions, Run(i) PROVE LockInv'
  BY <1>8 DEF Run, Handshake, Exits
<1>9. ASSUME NEW i \in Acquisitions, ConfigError(i) PROVE LockInv'
  BY <1>9 DEF ConfigError, Ends, Exits, IsUpload
<1>10. ASSUME NEW i \in Acquisitions, Mint(i) PROVE LockInv'
  BY <1>10 DEF Mint, Claimable
<1>11. ASSUME NEW i \in Acquisitions, RefusedByMint(i) PROVE LockInv'
  BY <1>11 DEF RefusedByMint, Ends, Exits, IsUpload
<1>12. ASSUME NEW i \in Acquisitions, PostIngest(i) PROVE LockInv'
  BY <1>12 DEF PostIngest, Ends, Exits, IsUpload
<1>13. ASSUME NEW i \in Acquisitions, Complete(i) PROVE LockInv'
  BY <1>13 DEF Complete, BytesGone, Discarded
<1>14. ASSUME NEW i \in Acquisitions, Publish(i) PROVE LockInv'
  BY <1>14 DEF Publish, Exits, Fault
<1>15. ASSUME NEW i \in Acquisitions, CleanUp(i) PROVE LockInv'
  BY <1>15 DEF CleanUp, Discarded, Exits, Fault
<1>16. ASSUME NEW i \in Acquisitions, RunFails(i) PROVE LockInv'
  BY <1>16 DEF RunFails, Exits, Fault
<1>17. ASSUME NEW i \in Acquisitions, Breaks(i) PROVE LockInv'
  BY <1>17 DEF Breaks, Exits, Fault
<1>18. ASSUME NEW i \in Acquisitions, CompleteFails(i) PROVE LockInv'
  BY <1>18 DEF CompleteFails, Fault
<1>19. ASSUME NEW i \in Acquisitions, Die(i) PROVE LockInv'
  BY <1>19 DEF Die, Exits, HeldByChild, Alive
<1>20. ASSUME NEW s \in Sessions, Request(s) PROVE LockInv'
  BY <1>20 DEF Request, Swept, Sweepable, Fault
<1>21. ASSUME NEW s \in Sessions, Receive(s) PROVE LockInv'
  BY <1>21 DEF Receive
<1>22. ASSUME NEW s \in Sessions, Received(s) PROVE LockInv'
  BY <1>22 DEF Received
<1>23. ASSUME NEW s \in Sessions, ReceiveFails(s) PROVE LockInv'
  BY <1>23 DEF ReceiveFails
<1>24. ASSUME NEW s \in Sessions, Expire(s) PROVE LockInv'
  BY <1>24 DEF Expire
<1>25. ASSUME NEW s \in Sessions, Delete(s) PROVE LockInv'
  BY <1>25 DEF Delete, Discarded
<1>26. ASSUME OtherProcess PROVE LockInv'
  BY <1>26 DEF OtherProcess, StillUnwaited
<1>27. ASSUME ApiCrash PROVE LockInv'
  BY <1>27 DEF ApiCrash
<1>28. CASE UNCHANGED vars
  BY <1>28 DEF vars
<1>q. QED
  BY <1>1, <1>2, <1>3, <1>4, <1>5, <1>6, <1>7, <1>8, <1>9, <1>10, <1>11, <1>12, <1>13,
     <1>14, <1>15, <1>16, <1>17, <1>18, <1>19, <1>20, <1>21, <1>22, <1>23, <1>24, <1>25,
     <1>26, <1>27, <1>28 DEF Next, ChildStep

\* Bytes disappear before a terminal record appears, and stay away.
LEMMA StepBytes == TypeOK /\ LockInv /\ BytesInv /\ [Next]_vars => BytesInv'
<1> SUFFICES ASSUME TypeOK, LockInv, BytesInv, [Next]_vars PROVE BytesInv'
  OBVIOUS
<1> USE SourcesAssumption, NoneAssumption, BoundsAssumption DEF TypeOK, Records,
        SessionStates, Sources, LIVE_STATUSES, TERMINAL_STATUSES, LockInv, BytesInv,
        IsUpload, files, processes, bounds
<1>1. ASSUME NEW i \in Acquisitions, NEW s \in Sources, Claim(i, s) PROVE BytesInv'
  BY <1>1 DEF Claim, Claimable, Holders, LiveRecord, PidIsLive
<1>2. ASSUME NEW i \in Acquisitions, NEW s \in Sources, Refuse(i, s) PROVE BytesInv'
  BY <1>2 DEF Refuse
<1>3. ASSUME NEW i \in Acquisitions, NEW s \in Sources, ClaimFails(i, s) PROVE BytesInv'
  BY <1>3 DEF ClaimFails, Discarded, Fault
<1>4. ASSUME NEW i \in Acquisitions, Spawn(i) PROVE BytesInv'
  BY <1>4 DEF Spawn, StillUnwaited
<1>5. ASSUME NEW i \in Acquisitions, SpawnFails(i) PROVE BytesInv'
  BY <1>5 DEF SpawnFails, Discarded, Fault
<1>6. ASSUME NEW i \in Acquisitions, RecordPid(i) PROVE BytesInv'
  BY <1>6 DEF RecordPid, Forgotten
<1>7. ASSUME NEW i \in Acquisitions, RecordPidFails(i) PROVE BytesInv'
  BY <1>7 DEF RecordPidFails, Discarded, Fault, Forgotten
<1>8. ASSUME NEW i \in Acquisitions, Run(i) PROVE BytesInv'
  BY <1>8 DEF Run, Handshake, Exits
<1>9. ASSUME NEW i \in Acquisitions, ConfigError(i) PROVE BytesInv'
  BY <1>9 DEF ConfigError, Ends, Exits, IsUpload
<1>10. ASSUME NEW i \in Acquisitions, Mint(i) PROVE BytesInv'
  BY <1>10 DEF Mint, Claimable
<1>11. ASSUME NEW i \in Acquisitions, RefusedByMint(i) PROVE BytesInv'
  BY <1>11 DEF RefusedByMint, Ends, Exits, IsUpload
<1>12. ASSUME NEW i \in Acquisitions, PostIngest(i) PROVE BytesInv'
  BY <1>12 DEF PostIngest, Ends, Exits, IsUpload
<1>13. ASSUME NEW i \in Acquisitions, Complete(i) PROVE BytesInv'
  BY <1>13 DEF Complete, BytesGone, Discarded
<1>14. ASSUME NEW i \in Acquisitions, Publish(i) PROVE BytesInv'
  BY <1>14 DEF Publish, Exits, Fault
<1>15. ASSUME NEW i \in Acquisitions, CleanUp(i) PROVE BytesInv'
  BY <1>15 DEF CleanUp, Discarded, Exits, Fault
<1>16. ASSUME NEW i \in Acquisitions, RunFails(i) PROVE BytesInv'
  BY <1>16 DEF RunFails, Exits, Fault
<1>17. ASSUME NEW i \in Acquisitions, Breaks(i) PROVE BytesInv'
  BY <1>17 DEF Breaks, Exits, Fault
<1>18. ASSUME NEW i \in Acquisitions, CompleteFails(i) PROVE BytesInv'
  BY <1>18 DEF CompleteFails, Fault
<1>19. ASSUME NEW i \in Acquisitions, Die(i) PROVE BytesInv'
  BY <1>19 DEF Die, Exits, HeldByChild, Alive
<1>20. ASSUME NEW s \in Sessions, Request(s) PROVE BytesInv'
  BY <1>20, Sweeps DEF Request, Sweepable, Fault
<1>21. ASSUME NEW s \in Sessions, Receive(s) PROVE BytesInv'
  BY <1>21 DEF Receive
<1>22. ASSUME NEW s \in Sessions, Received(s) PROVE BytesInv'
  BY <1>22 DEF Received
<1>23. ASSUME NEW s \in Sessions, ReceiveFails(s) PROVE BytesInv'
  BY <1>23 DEF ReceiveFails
<1>24. ASSUME NEW s \in Sessions, Expire(s) PROVE BytesInv'
  BY <1>24 DEF Expire
<1>25. ASSUME NEW s \in Sessions, Delete(s) PROVE BytesInv'
  BY <1>25 DEF Delete, Discarded
<1>26. ASSUME OtherProcess PROVE BytesInv'
  BY <1>26 DEF OtherProcess, StillUnwaited
<1>27. ASSUME ApiCrash PROVE BytesInv'
  BY <1>27 DEF ApiCrash
<1>28. CASE UNCHANGED vars
  BY <1>28 DEF vars
<1>q. QED
  BY <1>1, <1>2, <1>3, <1>4, <1>5, <1>6, <1>7, <1>8, <1>9, <1>10, <1>11, <1>12, <1>13,
     <1>14, <1>15, <1>16, <1>17, <1>18, <1>19, <1>20, <1>21, <1>22, <1>23, <1>24, <1>25,
     <1>26, <1>27, <1>28 DEF Next, ChildStep

\* Nobody writes again after a terminal record, unless its configuration broke.
LEMMA StepFinal == TypeOK /\ LockInv /\ BytesInv /\ FinalInv /\ [Next]_vars => FinalInv'
<1> SUFFICES ASSUME TypeOK, LockInv, BytesInv, FinalInv, [Next]_vars PROVE FinalInv'
  OBVIOUS
<1> USE SourcesAssumption, NoneAssumption, BoundsAssumption DEF TypeOK, TERMINAL_STATUSES,
        LockInv, FinalInv, files, processes, bounds
<1>1. ASSUME NEW i \in Acquisitions, NEW s \in Sources, Claim(i, s) PROVE FinalInv'
  BY <1>1 DEF Claim, Claimable, Holders, LiveRecord, PidIsLive
<1>2. ASSUME NEW i \in Acquisitions, NEW s \in Sources, Refuse(i, s) PROVE FinalInv'
  BY <1>2 DEF Refuse
<1>3. ASSUME NEW i \in Acquisitions, NEW s \in Sources, ClaimFails(i, s) PROVE FinalInv'
  BY <1>3 DEF ClaimFails, Discarded, Fault
<1>4. ASSUME NEW i \in Acquisitions, Spawn(i) PROVE FinalInv'
  BY <1>4 DEF Spawn, StillUnwaited
<1>5. ASSUME NEW i \in Acquisitions, SpawnFails(i) PROVE FinalInv'
  BY <1>5 DEF SpawnFails, Discarded, Fault
<1>6. ASSUME NEW i \in Acquisitions, RecordPid(i) PROVE FinalInv'
  BY <1>6 DEF RecordPid, Forgotten
<1>7. ASSUME NEW i \in Acquisitions, RecordPidFails(i) PROVE FinalInv'
  BY <1>7 DEF RecordPidFails, Discarded, Fault, Forgotten
<1>8. ASSUME NEW i \in Acquisitions, Run(i) PROVE FinalInv'
  BY <1>8 DEF Run, Handshake, Exits
<1>9. ASSUME NEW i \in Acquisitions, ConfigError(i) PROVE FinalInv'
  BY <1>9 DEF ConfigError, Ends, Exits, IsUpload
<1>10. ASSUME NEW i \in Acquisitions, Mint(i) PROVE FinalInv'
  BY <1>10 DEF Mint, Claimable
<1>11. ASSUME NEW i \in Acquisitions, RefusedByMint(i) PROVE FinalInv'
  BY <1>11 DEF RefusedByMint, Ends, Exits, IsUpload
<1>12. ASSUME NEW i \in Acquisitions, PostIngest(i) PROVE FinalInv'
  BY <1>12 DEF PostIngest, Ends, Exits, IsUpload
<1>13. ASSUME NEW i \in Acquisitions, Complete(i) PROVE FinalInv'
  BY <1>13 DEF Complete, BytesGone, Discarded
<1>14. ASSUME NEW i \in Acquisitions, Publish(i) PROVE FinalInv'
  BY <1>14 DEF Publish, Exits, Fault
<1>15. ASSUME NEW i \in Acquisitions, CleanUp(i) PROVE FinalInv'
  BY <1>15 DEF CleanUp, Discarded, Exits, Fault
<1>16. ASSUME NEW i \in Acquisitions, RunFails(i) PROVE FinalInv'
  BY <1>16 DEF RunFails, Exits, Fault
<1>17. ASSUME NEW i \in Acquisitions, Breaks(i) PROVE FinalInv'
  BY <1>17 DEF Breaks, Exits, Fault
<1>18. ASSUME NEW i \in Acquisitions, CompleteFails(i) PROVE FinalInv'
  BY <1>18 DEF CompleteFails, Fault
<1>19. ASSUME NEW i \in Acquisitions, Die(i) PROVE FinalInv'
  BY <1>19 DEF Die, Exits, HeldByChild, Alive
<1>20. ASSUME NEW s \in Sessions, Request(s) PROVE FinalInv'
  BY <1>20 DEF Request, Swept, Sweepable, Fault
<1>21. ASSUME NEW s \in Sessions, Receive(s) PROVE FinalInv'
  BY <1>21 DEF Receive
<1>22. ASSUME NEW s \in Sessions, Received(s) PROVE FinalInv'
  BY <1>22 DEF Received
<1>23. ASSUME NEW s \in Sessions, ReceiveFails(s) PROVE FinalInv'
  BY <1>23 DEF ReceiveFails
<1>24. ASSUME NEW s \in Sessions, Expire(s) PROVE FinalInv'
  BY <1>24 DEF Expire
<1>25. ASSUME NEW s \in Sessions, Delete(s) PROVE FinalInv'
  BY <1>25 DEF Delete, Discarded
<1>26. ASSUME OtherProcess PROVE FinalInv'
  BY <1>26 DEF OtherProcess, StillUnwaited
<1>27. ASSUME ApiCrash PROVE FinalInv'
  BY <1>27 DEF ApiCrash
<1>28. CASE UNCHANGED vars
  BY <1>28 DEF vars
<1>q. QED
  BY <1>1, <1>2, <1>3, <1>4, <1>5, <1>6, <1>7, <1>8, <1>9, <1>10, <1>11, <1>12, <1>13,
     <1>14, <1>15, <1>16, <1>17, <1>18, <1>19, <1>20, <1>21, <1>22, <1>23, <1>24, <1>25,
     <1>26, <1>27, <1>28 DEF Next, ChildStep

\* A live process is on record whenever the lock is free, so no launch joins it.
LEMMA StepExclusive == TypeOK /\ LockInv /\ BytesInv /\ ExclusiveInv /\ [Next]_vars => ExclusiveInv'
<1> SUFFICES ASSUME TypeOK, LockInv, BytesInv, ExclusiveInv, [Next]_vars PROVE ExclusiveInv'
  OBVIOUS
<1> USE SourcesAssumption, NoneAssumption, BoundsAssumption DEF TypeOK, Records,
        SessionStates, Sources, LIVE_STATUSES, TERMINAL_STATUSES, LockInv, BytesInv,
        Unbroken, ExclusiveInv, IsUpload, Alive, Claims, files, processes, bounds
<1>1. ASSUME NEW i \in Acquisitions, NEW s \in Sources, Claim(i, s) PROVE ExclusiveInv'
  BY <1>1 DEF Claim, Claimable, Holders, LiveRecord, PidIsLive
<1>2. ASSUME NEW i \in Acquisitions, NEW s \in Sources, Refuse(i, s) PROVE ExclusiveInv'
  BY <1>2 DEF Refuse
<1>3. ASSUME NEW i \in Acquisitions, NEW s \in Sources, ClaimFails(i, s) PROVE ExclusiveInv'
  BY <1>3 DEF ClaimFails, Discarded, Fault
<1>4. ASSUME NEW i \in Acquisitions, Spawn(i) PROVE ExclusiveInv'
  BY <1>4 DEF Spawn, StillUnwaited
<1>5. ASSUME NEW i \in Acquisitions, SpawnFails(i) PROVE ExclusiveInv'
  BY <1>5 DEF SpawnFails, Discarded, Fault
<1>6. ASSUME NEW i \in Acquisitions, RecordPid(i) PROVE ExclusiveInv'
  BY <1>6 DEF RecordPid, Forgotten
<1>7. ASSUME NEW i \in Acquisitions, RecordPidFails(i) PROVE ExclusiveInv'
  BY <1>7 DEF RecordPidFails, Discarded, Fault, Forgotten
<1>8. ASSUME NEW i \in Acquisitions, Run(i) PROVE ExclusiveInv'
  BY <1>8 DEF Run, Handshake, Exits
<1>9. ASSUME NEW i \in Acquisitions, ConfigError(i) PROVE ExclusiveInv'
  BY <1>9 DEF ConfigError, Ends, Exits, IsUpload
<1>10. ASSUME NEW i \in Acquisitions, Mint(i) PROVE ExclusiveInv'
  BY <1>10 DEF Mint, Claimable
<1>11. ASSUME NEW i \in Acquisitions, RefusedByMint(i) PROVE ExclusiveInv'
  BY <1>11 DEF RefusedByMint, Ends, Exits, IsUpload
<1>12. ASSUME NEW i \in Acquisitions, PostIngest(i) PROVE ExclusiveInv'
  BY <1>12 DEF PostIngest, Ends, Exits, IsUpload
<1>13. ASSUME NEW i \in Acquisitions, Complete(i) PROVE ExclusiveInv'
  BY <1>13 DEF Complete, BytesGone, Discarded
<1>14. ASSUME NEW i \in Acquisitions, Publish(i) PROVE ExclusiveInv'
  BY <1>14 DEF Publish, Exits, Fault
<1>15. ASSUME NEW i \in Acquisitions, CleanUp(i) PROVE ExclusiveInv'
  BY <1>15 DEF CleanUp, Discarded, Exits, Fault
<1>16. ASSUME NEW i \in Acquisitions, RunFails(i) PROVE ExclusiveInv'
  BY <1>16 DEF RunFails, Exits, Fault
<1>17. ASSUME NEW i \in Acquisitions, Breaks(i) PROVE ExclusiveInv'
  BY <1>17 DEF Breaks, Exits, Fault
<1>18. ASSUME NEW i \in Acquisitions, CompleteFails(i) PROVE ExclusiveInv'
  BY <1>18 DEF CompleteFails, Fault
<1>19. ASSUME NEW i \in Acquisitions, Die(i) PROVE ExclusiveInv'
  BY <1>19 DEF Die, Exits, HeldByChild, Alive
<1>20. ASSUME NEW s \in Sessions, Request(s) PROVE ExclusiveInv'
  BY <1>20, Sweeps DEF Request, Sweepable, Holders, LiveRecord, PidIsLive, Protected,
     KeptBySweep, Fault
<1>21. ASSUME NEW s \in Sessions, Receive(s) PROVE ExclusiveInv'
  BY <1>21 DEF Receive
<1>22. ASSUME NEW s \in Sessions, Received(s) PROVE ExclusiveInv'
  BY <1>22 DEF Received
<1>23. ASSUME NEW s \in Sessions, ReceiveFails(s) PROVE ExclusiveInv'
  BY <1>23 DEF ReceiveFails
<1>24. ASSUME NEW s \in Sessions, Expire(s) PROVE ExclusiveInv'
  BY <1>24 DEF Expire
<1>25. ASSUME NEW s \in Sessions, Delete(s) PROVE ExclusiveInv'
  BY <1>25 DEF Delete, Discarded, Holders, LiveRecord, PidIsLive, Protected, KeptBySweep
<1>26. ASSUME OtherProcess PROVE ExclusiveInv'
  BY <1>26 DEF OtherProcess, StillUnwaited
<1>27. ASSUME ApiCrash PROVE ExclusiveInv'
  BY <1>27 DEF ApiCrash
<1>28. CASE UNCHANGED vars
  BY <1>28 DEF vars
<1>q. QED
  BY <1>1, <1>2, <1>3, <1>4, <1>5, <1>6, <1>7, <1>8, <1>9, <1>10, <1>11, <1>12, <1>13,
     <1>14, <1>15, <1>16, <1>17, <1>18, <1>19, <1>20, <1>21, <1>22, <1>23, <1>24, <1>25,
     <1>26, <1>27, <1>28 DEF Next, ChildStep

\* The inductive invariant of the specification.
THEOREM Inductive == Spec => []IInv
<1>1. IInv /\ [Next]_vars => IInv'
  BY StepType, StepLock, StepBytes, StepFinal, StepExclusive DEF IInv
<1>q. QED
  BY InitInv, <1>1, PTL DEF Spec

\* Records, sessions, launches and processes always have their declared shape.
THEOREM Typed == Spec => []TypeOK
<1>1. IInv => TypeOK
  BY DEF IInv
<1>q. QED
  BY Inductive, <1>1, PTL

\* _complete_upload_record: a terminal record stands beside no claimable bytes.
THEOREM BytesGoFirst == Spec => []NoTerminalBesideBytes
<1>1. IInv => NoTerminalBesideBytes
  BY DEF IInv, BytesInv, NoTerminalBesideBytes
<1>q. QED
  BY Inductive, <1>1, PTL

\* The claim lock and the recorded pid keep two processes off one source, for
\* as long as no write has failed and the api has not died in a launch.
THEOREM OneRunner == Spec => []OneRunnerPerSource
<1>1. IInv => OneRunnerPerSource
  BY DEF IInv, ExclusiveInv, Claims, OneRunnerPerSource
<1>q. QED
  BY Inductive, <1>1, PTL

\* ... and neither a sweep nor a deletion takes the bytes from under the process
\* that claimed them.
THEOREM BytesAreKept == Spec => []ClaimedBytesKept
<1>1. IInv => ClaimedBytesKept
  BY DEF IInv, ExclusiveInv, ClaimedBytesKept
<1>q. QED
  BY Inductive, <1>1, PTL

\* The handshake on the lock: a terminal record is never overwritten, whatever
\* fails or dies, once the configuration has loaded in the new process.
THEOREM Final == Spec => ReportedIsFinal
<1> DEFINE Kept == \A i \in Acquisitions : i \in misread \/ StaysAsReported(i)
<1>1. IInv /\ [Next]_vars => [Kept]_vars
  <2> SUFFICES ASSUME IInv, Next PROVE Kept
    BY DEF vars
  <2> USE DEF IInv, TypeOK, FinalInv, TERMINAL_STATUSES, StaysAsReported, Exits, Ends,
          files, processes
  <2>1. ASSUME NEW i \in Acquisitions, NEW s \in Sources, Claim(i, s) \/ Refuse(i, s) \/ ClaimFails(i, s)
        PROVE  Kept
    BY <2>1 DEF Claim, Refuse, ClaimFails, LockInv
  <2>2. ASSUME NEW i \in Acquisitions, Spawn(i) \/ SpawnFails(i) \/ RecordPid(i) \/ RecordPidFails(i)
        PROVE  Kept
    BY <2>2 DEF Spawn, SpawnFails, RecordPid, RecordPidFails
  <2>3. ASSUME NEW i \in Acquisitions, ChildStep(i) PROVE Kept
    BY <2>3 DEF ChildStep, Run, ConfigError, Mint, RefusedByMint, PostIngest, Complete,
       Publish,
                CleanUp, RunFails, Breaks, CompleteFails, Die
  <2>4. ASSUME NEW s \in Sessions, Request(s) \/ Receive(s) \/ Received(s) \/ ReceiveFails(s)
                                     \/ Expire(s) \/ Delete(s)
        PROVE  Kept
    BY <2>4 DEF Request, Receive, Received, ReceiveFails, Expire, Delete
  <2>5. ASSUME OtherProcess \/ ApiCrash PROVE Kept
    BY <2>5 DEF OtherProcess, ApiCrash
  <2>q. QED
    BY <2>1, <2>2, <2>3, <2>4, <2>5 DEF Next
<1>q. QED
  BY Inductive, <1>1, PTL DEF Spec, ReportedIsFinal
=============================================================================
