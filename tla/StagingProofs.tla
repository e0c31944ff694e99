---------------------------- MODULE StagingProofs ----------------------------
(***************************************************************************)
(* TLAPS proofs about Staging, for every set of processes, stage names and *)
(* slots and every number of faults.                                       *)
(*                                                                         *)
(* The safety properties are not inductive by themselves: they rest on who *)
(* holds which lock at which control point (Locks), on which stages the    *)
(* processes own or remove (Ownership, Removal), on what a stage contains  *)
(* at each barrier (Contents) and on the progress of a recovery pass       *)
(* (Recovery).                                                             *)
(***************************************************************************)
EXTENDS Staging, TLAPS

\* Lock ownership follows from the control point and from mine.
Locks ==
    /\ \A p \in Proc : pc[p] \in Coordinating <=> coordinator = p
    /\ \A p \in Proc, s \in Stage :
           lease[s] = p <=> pc[p] \in Leasing /\ mine[p] = s

\* Stages have at most one owner, and an owner is in Owning or in its Close.
Ownership ==
    /\ \A p \in Proc : pc[p] \in Owning => mine[p] \in home
    /\ \A p \in Proc : pc[p] \notin Owning \cup Removing => mine[p] = None
    /\ \A p, q \in Proc : p # q /\ mine[p] = mine[q] => mine[p] = None

\* A stage being removed is nobody's, or its remover's own.
Removal ==
    \A p \in Proc :
        /\ pc[p] \notin Removing => target[p] = None
        /\ pc[p] \in Removing =>
            /\ mine[p] \in {None, target[p]}
            /\ \A q \in Proc : q # p => mine[q] # target[p]
            /\ pc[p] # "validate" => Foreign \notin dir[target[p]]
            /\ pc[p] \in {"syncEmpty", "unlinkLease", "syncLeaseless",
                          "rmdir", "syncRemoved"}
                   => dir[target[p]] \cap Slot = {}
            /\ pc[p] \in {"unlinkLease", "syncLeaseless", "rmdir",
                          "syncRemoved"}
                   => disk[target[p]] \cap Slot = {}

\* The lease is in place, visible and on disk, whenever payload is in either.
LeasedPayload ==
    \A s \in Stage : (dir[s] \cup disk[s]) \cap Slot # {} =>
        Lease \in dir[s] /\ Lease \in disk[s]

Contents ==
    /\ LeasedPayload
    /\ OwnPayloadIntact
    /\ \A p \in Proc :
        /\ pc[p] \in Reserving \cup {"unwindRmdir"} =>
               (dir[mine[p]] \cup disk[mine[p]]) \cap Slot = {}
        /\ pc[p] \in {"lockLease", "syncLease", "syncStage"} =>
               Lease \in dir[mine[p]]
        /\ pc[p] \in {"syncStage", "receive", "publish", "closing"} =>
               Lease \in disk[mine[p]]
        /\ pc[p] \notin {"receive", "publish", "closing"} => wrote[p] = {}

\* What a recovery pass has left to reap is still ahead of it and reapable.
Recovery ==
    \A p \in Proc :
        /\ \/ pc[p] \in {"recover", "mkdir"}
           \/ pc[p] \in Removing /\ mine[p] = None
           => \A s \in orphans[p] \cap home :
                Familiar(s) /\ \A q \in Proc : mine[q] # s
        /\ pc[p] = "recover" => orphans[p] \cap home \subseteq todo[p]
        /\ pc[p] \in Removing /\ mine[p] = None =>
               orphans[p] \cap home \subseteq todo[p] \cup {target[p]}
        /\ pc[p] = "syncRemoved" => target[p] \notin home
        /\ pc[p] = "mkdir" => orphans[p] \cap home = {}

IInv ==
    /\ TypeOK
    /\ Locks
    /\ Ownership
    /\ Removal
    /\ Contents
    /\ Recovery

\* Every step preserves the types.
LEMMA TypeStep ==
    ASSUME TypeOK, [Next]_vars
    PROVE  TypeOK'
<1> USE ConstantsAssumption DEF TypeOK, Entry, PC, Removing, Reserving, Coordinating,
    Leasing, Owning
<1>1. CASE UNCHANGED vars
  BY <1>1 DEF vars
<1>2. ASSUME NEW p \in Proc, Process(p)
      PROVE  TypeOK'
  <2>1. CASE Begin(p)
    BY <2>1 DEF Begin, fsVars
  <2>2. CASE StagingCoordination(p)
    BY <2>2 DEF StagingCoordination, fsVars
  <2>3. CASE StagingCancelled(p)
    BY <2>3 DEF StagingCancelled, Fault, fsVars
  <2>4. CASE RecoverStage(p)
    BY <2>4 DEF RecoverStage, LeaseBusy, fsVars
  <2>5. CASE RecoverStagingDone(p)
    BY <2>5 DEF RecoverStagingDone, fsVars
  <2>6. CASE MkdirStage(p)
    BY <2>6 DEF MkdirStage, Fresh, fsVars
  <2>7. CASE MkdirFails(p)
    BY <2>7 DEF MkdirFails, fsVars
  <2>8. CASE CreateLease(p)
    BY <2>8 DEF CreateLease, fsVars
  <2>9. CASE LockLease(p)
    BY <2>9 DEF LockLease, fsVars
  <2>10. CASE SyncLease(p)
    BY <2>10 DEF SyncLease, fsVars
  <2>11. CASE SyncStage(p)
    BY <2>11 DEF SyncStage, fsVars
  <2>12. CASE UnwindLease(p)
    BY <2>12 DEF UnwindLease, Fault, fsVars
  <2>13. CASE UnwindRmdir(p)
    BY <2>13 DEF UnwindRmdir, fsVars
  <2>14. CASE WriteSlot(p)
    BY <2>14 DEF WriteSlot, fsVars
  <2>15. CASE Publish(p)
    BY <2>15 DEF Publish, fsVars
  <2>16. CASE PublishPrefix(p)
    BY <2>16 DEF PublishPrefix, fsVars
  <2>17. CASE CloseBegin(p)
    BY <2>17 DEF CloseBegin, fsVars
  <2>18. CASE CloseCoordination(p)
    BY <2>18 DEF CloseCoordination, fsVars
  <2>19. CASE CloseTimeout(p)
    BY <2>19 DEF CloseTimeout, Fault, fsVars
  <2>20. CASE RemoveValidate(p)
    BY <2>20 DEF RemoveValidate, RemoveReturns, fsVars
  <2>21. CASE RemoveSlot(p)
    BY <2>21 DEF RemoveSlot, fsVars
  <2>22. CASE RemoveSlotsDone(p)
    BY <2>22 DEF RemoveSlotsDone, fsVars
  <2>23. CASE RemoveSyncEmpty(p)
    BY <2>23 DEF RemoveSyncEmpty, fsVars
  <2>24. CASE RemoveLease(p)
    BY <2>24 DEF RemoveLease, fsVars
  <2>25. CASE RemoveSyncLeaseless(p)
    BY <2>25 DEF RemoveSyncLeaseless, fsVars
  <2>26. CASE RemoveRmdir(p)
    BY <2>26 DEF RemoveRmdir, fsVars
  <2>27. CASE RemoveSyncHome(p)
    BY <2>27 DEF RemoveSyncHome, RemoveReturns, fsVars
  <2>28. CASE RemoveFails(p)
    BY <2>28 DEF RemoveFails, Fault, RemoveReturns, fsVars
  <2>29. CASE Kill(p)
    BY <2>29 DEF Kill, Fault, fsVars
  <2>30. QED
    BY <1>2, <2>1, <2>2, <2>3, <2>4, <2>5, <2>6, <2>7, <2>8, <2>9, <2>10, <2>11, <2>12,
        <2>13, <2>14, <2>15, <2>16, <2>17, <2>18, <2>19, <2>20, <2>21, <2>22, <2>23, <2>24,
        <2>25, <2>26, <2>27, <2>28, <2>29 DEF Process, Progress
<1>3. CASE MachineFailure
  BY <1>3 DEF MachineFailure, Fault
<1>4. ASSUME NEW s \in Stage, WriteBackEntry(s)
      PROVE  TypeOK'
  BY <1>4 DEF WriteBackEntry, Fault
<1>5. ASSUME NEW s \in Stage, WriteBackHome(s)
      PROVE  TypeOK'
  BY <1>5 DEF WriteBackHome, Fault
<1>6. ASSUME NEW s \in Stage, ForeignWrite(s)
      PROVE  TypeOK'
  BY <1>6 DEF ForeignWrite, Fault
<1>7. QED
  BY <1>1, <1>2, <1>3, <1>4, <1>5, <1>6 DEF Next, Environment

\* Every step preserves the correspondence of locks and control points.
LEMMA LocksStep ==
    ASSUME TypeOK, Locks, Ownership, [Next]_vars
    PROVE  Locks'
<1> USE ConstantsAssumption DEF TypeOK, Locks, Ownership, PC, Removing, Reserving,
    Coordinating, Leasing, Owning
<1>1. CASE UNCHANGED vars
  BY <1>1 DEF vars
<1>2. ASSUME NEW p \in Proc, Process(p)
      PROVE  Locks'
  <2>1. CASE Begin(p)
    BY <2>1 DEF Begin, fsVars
  <2>2. CASE StagingCoordination(p)
    BY <2>2 DEF StagingCoordination, fsVars
  <2>3. CASE StagingCancelled(p)
    BY <2>3 DEF StagingCancelled, Fault, fsVars
  <2>4. CASE RecoverStage(p)
    BY <2>4 DEF RecoverStage, LeaseBusy, fsVars
  <2>5. CASE RecoverStagingDone(p)
    BY <2>5 DEF RecoverStagingDone, fsVars
  <2>6. CASE MkdirStage(p)
    BY <2>6 DEF MkdirStage, Fresh, fsVars
  <2>7. CASE MkdirFails(p)
    BY <2>7 DEF MkdirFails, fsVars
  <2>8. CASE CreateLease(p)
    BY <2>8 DEF CreateLease, fsVars
  <2>9. CASE LockLease(p)
    BY <2>9 DEF LockLease, fsVars
  <2>10. CASE SyncLease(p)
    BY <2>10 DEF SyncLease, fsVars
  <2>11. CASE SyncStage(p)
    BY <2>11 DEF SyncStage, fsVars
  <2>12. CASE UnwindLease(p)
    BY <2>12 DEF UnwindLease, Fault, fsVars
  <2>13. CASE UnwindRmdir(p)
    BY <2>13 DEF UnwindRmdir, fsVars
  <2>14. CASE WriteSlot(p)
    BY <2>14 DEF WriteSlot, fsVars
  <2>15. CASE Publish(p)
    BY <2>15 DEF Publish, fsVars
  <2>16. CASE PublishPrefix(p)
    BY <2>16 DEF PublishPrefix, fsVars
  <2>17. CASE CloseBegin(p)
    BY <2>17 DEF CloseBegin, fsVars
  <2>18. CASE CloseCoordination(p)
    BY <2>18 DEF CloseCoordination, fsVars
  <2>19. CASE CloseTimeout(p)
    BY <2>19 DEF CloseTimeout, Fault, fsVars
  <2>20. CASE RemoveValidate(p)
    BY <2>20 DEF RemoveValidate, RemoveReturns, fsVars
  <2>21. CASE RemoveSlot(p)
    BY <2>21 DEF RemoveSlot, fsVars
  <2>22. CASE RemoveSlotsDone(p)
    BY <2>22 DEF RemoveSlotsDone, fsVars
  <2>23. CASE RemoveSyncEmpty(p)
    BY <2>23 DEF RemoveSyncEmpty, fsVars
  <2>24. CASE RemoveLease(p)
    BY <2>24 DEF RemoveLease, fsVars
  <2>25. CASE RemoveSyncLeaseless(p)
    BY <2>25 DEF RemoveSyncLeaseless, fsVars
  <2>26. CASE RemoveRmdir(p)
    BY <2>26 DEF RemoveRmdir, fsVars
  <2>27. CASE RemoveSyncHome(p)
    BY <2>27 DEF RemoveSyncHome, RemoveReturns, fsVars
  <2>28. CASE RemoveFails(p)
    BY <2>28 DEF RemoveFails, Fault, RemoveReturns, fsVars
  <2>29. CASE Kill(p)
    BY <2>29 DEF Kill, Fault, fsVars
  <2>30. QED
    BY <1>2, <2>1, <2>2, <2>3, <2>4, <2>5, <2>6, <2>7, <2>8, <2>9, <2>10, <2>11, <2>12,
        <2>13, <2>14, <2>15, <2>16, <2>17, <2>18, <2>19, <2>20, <2>21, <2>22, <2>23, <2>24,
        <2>25, <2>26, <2>27, <2>28, <2>29 DEF Process, Progress
<1>3. CASE MachineFailure
  BY <1>3 DEF MachineFailure, Fault
<1>4. ASSUME NEW s \in Stage, WriteBackEntry(s)
      PROVE  Locks'
  BY <1>4 DEF WriteBackEntry, Fault
<1>5. ASSUME NEW s \in Stage, WriteBackHome(s)
      PROVE  Locks'
  BY <1>5 DEF WriteBackHome, Fault
<1>6. ASSUME NEW s \in Stage, ForeignWrite(s)
      PROVE  Locks'
  BY <1>6 DEF ForeignWrite, Fault
<1>7. QED
  BY <1>1, <1>2, <1>3, <1>4, <1>5, <1>6 DEF Next, Environment

\* Every step preserves the ownership of stages.
LEMMA OwnershipStep ==
    ASSUME TypeOK, Locks, Ownership, Removal, [Next]_vars
    PROVE  Ownership'
<1> USE ConstantsAssumption DEF TypeOK, Locks, Ownership, Removal, PC, Removing, Reserving,
    Coordinating, Leasing, Owning
<1>1. CASE UNCHANGED vars
  BY <1>1 DEF vars
<1>2. ASSUME NEW p \in Proc, Process(p)
      PROVE  Ownership'
  <2>1. CASE Begin(p)
    BY <2>1 DEF Begin, fsVars
  <2>2. CASE StagingCoordination(p)
    BY <2>2 DEF StagingCoordination, Reapable, fsVars
  <2>3. CASE StagingCancelled(p)
    BY <2>3 DEF StagingCancelled, Fault, fsVars
  <2>4. CASE RecoverStage(p)
    BY <2>4 DEF RecoverStage, LeaseBusy, fsVars
  <2>5. CASE RecoverStagingDone(p)
    BY <2>5 DEF RecoverStagingDone, fsVars
  <2>6. CASE MkdirStage(p)
    BY <2>6 DEF MkdirStage, Fresh, fsVars
  <2>7. CASE MkdirFails(p)
    BY <2>7 DEF MkdirFails, fsVars
  <2>8. CASE CreateLease(p)
    BY <2>8 DEF CreateLease, fsVars
  <2>9. CASE LockLease(p)
    BY <2>9 DEF LockLease, fsVars
  <2>10. CASE SyncLease(p)
    BY <2>10 DEF SyncLease, fsVars
  <2>11. CASE SyncStage(p)
    BY <2>11 DEF SyncStage, fsVars
  <2>12. CASE UnwindLease(p)
    BY <2>12 DEF UnwindLease, Fault, fsVars
  <2>13. CASE UnwindRmdir(p)
    BY <2>13 DEF UnwindRmdir, fsVars
  <2>14. CASE WriteSlot(p)
    BY <2>14 DEF WriteSlot, fsVars
  <2>15. CASE Publish(p)
    BY <2>15 DEF Publish, fsVars
  <2>16. CASE PublishPrefix(p)
    BY <2>16 DEF PublishPrefix, fsVars
  <2>17. CASE CloseBegin(p)
    BY <2>17 DEF CloseBegin, fsVars
  <2>18. CASE CloseCoordination(p)
    BY <2>18 DEF CloseCoordination, fsVars
  <2>19. CASE CloseTimeout(p)
    BY <2>19 DEF CloseTimeout, Fault, fsVars
  <2>20. CASE RemoveValidate(p)
    BY <2>20 DEF RemoveValidate, RemoveReturns, Familiar, fsVars
  <2>21. CASE RemoveSlot(p)
    BY <2>21 DEF RemoveSlot, fsVars
  <2>22. CASE RemoveSlotsDone(p)
    BY <2>22 DEF RemoveSlotsDone, fsVars
  <2>23. CASE RemoveSyncEmpty(p)
    BY <2>23 DEF RemoveSyncEmpty, fsVars
  <2>24. CASE RemoveLease(p)
    BY <2>24 DEF RemoveLease, fsVars
  <2>25. CASE RemoveSyncLeaseless(p)
    BY <2>25 DEF RemoveSyncLeaseless, fsVars
  <2>26. CASE RemoveRmdir(p)
    BY <2>26 DEF RemoveRmdir, fsVars
  <2>27. CASE RemoveSyncHome(p)
    BY <2>27 DEF RemoveSyncHome, RemoveReturns, fsVars
  <2>28. CASE RemoveFails(p)
    BY <2>28 DEF RemoveFails, Fault, RemoveReturns, fsVars
  <2>29. CASE Kill(p)
    BY <2>29 DEF Kill, Fault, fsVars
  <2>30. QED
    BY <1>2, <2>1, <2>2, <2>3, <2>4, <2>5, <2>6, <2>7, <2>8, <2>9, <2>10, <2>11, <2>12,
        <2>13, <2>14, <2>15, <2>16, <2>17, <2>18, <2>19, <2>20, <2>21, <2>22, <2>23, <2>24,
        <2>25, <2>26, <2>27, <2>28, <2>29 DEF Process, Progress
<1>3. CASE MachineFailure
  BY <1>3 DEF MachineFailure, Fault
<1>4. ASSUME NEW s \in Stage, WriteBackEntry(s)
      PROVE  Ownership'
  BY <1>4 DEF WriteBackEntry, Fault
<1>5. ASSUME NEW s \in Stage, WriteBackHome(s)
      PROVE  Ownership'
  BY <1>5 DEF WriteBackHome, Fault
<1>6. ASSUME NEW s \in Stage, ForeignWrite(s)
      PROVE  Ownership'
  BY <1>6 DEF ForeignWrite, Fault
<1>7. QED
  BY <1>1, <1>2, <1>3, <1>4, <1>5, <1>6 DEF Next, Environment

\* Every step keeps removal away from the stages of others.
LEMMA RemovalStep ==
    ASSUME TypeOK, Locks, Ownership, Removal, Contents, [Next]_vars
    PROVE  Removal'
<1> USE ConstantsAssumption DEF TypeOK, Locks, Ownership, Removal, Contents,
    OwnPayloadIntact, LeasedPayload, PC, Removing, Reserving, Coordinating, Leasing, Owning
<1>1. CASE UNCHANGED vars
  BY <1>1 DEF vars
<1>2. ASSUME NEW p \in Proc, Process(p)
      PROVE  Removal'
  <2>1. CASE Begin(p)
    BY <2>1 DEF Begin, fsVars
  <2>2. CASE StagingCoordination(p)
    BY <2>2 DEF StagingCoordination, Reapable, fsVars
  <2>3. CASE StagingCancelled(p)
    BY <2>3 DEF StagingCancelled, Fault, fsVars
  <2>4. CASE RecoverStage(p)
    BY <2>4 DEF RecoverStage, LeaseBusy, fsVars
  <2>5. CASE RecoverStagingDone(p)
    BY <2>5 DEF RecoverStagingDone, fsVars
  <2>6. CASE MkdirStage(p)
    BY <2>6 DEF MkdirStage, Fresh, fsVars
  <2>7. CASE MkdirFails(p)
    BY <2>7 DEF MkdirFails, fsVars
  <2>8. CASE CreateLease(p)
    BY <2>8 DEF CreateLease, fsVars
  <2>9. CASE LockLease(p)
    BY <2>9 DEF LockLease, fsVars
  <2>10. CASE SyncLease(p)
    BY <2>10 DEF SyncLease, fsVars
  <2>11. CASE SyncStage(p)
    BY <2>11 DEF SyncStage, fsVars
  <2>12. CASE UnwindLease(p)
    BY <2>12 DEF UnwindLease, Fault, fsVars
  <2>13. CASE UnwindRmdir(p)
    BY <2>13 DEF UnwindRmdir, fsVars
  <2>14. CASE WriteSlot(p)
    BY <2>14 DEF WriteSlot, fsVars
  <2>15. CASE Publish(p)
    BY <2>15 DEF Publish, fsVars
  <2>16. CASE PublishPrefix(p)
    BY <2>16 DEF PublishPrefix, fsVars
  <2>17. CASE CloseBegin(p)
    BY <2>17 DEF CloseBegin, fsVars
  <2>18. CASE CloseCoordination(p)
    BY <2>18 DEF CloseCoordination, fsVars
  <2>19. CASE CloseTimeout(p)
    BY <2>19 DEF CloseTimeout, Fault, fsVars
  <2>20. CASE RemoveValidate(p)
    BY <2>20 DEF RemoveValidate, RemoveReturns, Familiar, fsVars
  <2>21. CASE RemoveSlot(p)
    BY <2>21 DEF RemoveSlot, fsVars
  <2>22. CASE RemoveSlotsDone(p)
    BY <2>22 DEF RemoveSlotsDone, fsVars
  <2>23. CASE RemoveSyncEmpty(p)
    BY <2>23 DEF RemoveSyncEmpty, fsVars
  <2>24. CASE RemoveLease(p)
    BY <2>24 DEF RemoveLease, fsVars
  <2>25. CASE RemoveSyncLeaseless(p)
    BY <2>25 DEF RemoveSyncLeaseless, fsVars
  <2>26. CASE RemoveRmdir(p)
    BY <2>26 DEF RemoveRmdir, fsVars
  <2>27. CASE RemoveSyncHome(p)
    BY <2>27 DEF RemoveSyncHome, RemoveReturns, fsVars
  <2>28. CASE RemoveFails(p)
    BY <2>28 DEF RemoveFails, Fault, RemoveReturns, fsVars
  <2>29. CASE Kill(p)
    BY <2>29 DEF Kill, Fault, fsVars
  <2>30. QED
    BY <1>2, <2>1, <2>2, <2>3, <2>4, <2>5, <2>6, <2>7, <2>8, <2>9, <2>10, <2>11, <2>12,
        <2>13, <2>14, <2>15, <2>16, <2>17, <2>18, <2>19, <2>20, <2>21, <2>22, <2>23, <2>24,
        <2>25, <2>26, <2>27, <2>28, <2>29 DEF Process, Progress
<1>3. CASE MachineFailure
  BY <1>3 DEF MachineFailure, Fault
<1>4. ASSUME NEW s \in Stage, WriteBackEntry(s)
      PROVE  Removal'
  BY <1>4 DEF WriteBackEntry, Fault
<1>5. ASSUME NEW s \in Stage, WriteBackHome(s)
      PROVE  Removal'
  BY <1>5 DEF WriteBackHome, Fault
<1>6. ASSUME NEW s \in Stage, ForeignWrite(s)
      PROVE  Removal'
  BY <1>6 DEF ForeignWrite, Fault
<1>7. QED
  BY <1>1, <1>2, <1>3, <1>4, <1>5, <1>6 DEF Next, Environment

\* Every step preserves what the stages contain.
LEMMA ContentsStep ==
    ASSUME TypeOK, Locks, Ownership, Removal, Contents, [Next]_vars
    PROVE  Contents'
<1> USE ConstantsAssumption DEF TypeOK, Locks, Ownership, Removal, Contents,
    OwnPayloadIntact, LeasedPayload, PC, Removing, Reserving, Coordinating, Leasing, Owning
<1>1. CASE UNCHANGED vars
  BY <1>1 DEF vars
<1>2. ASSUME NEW p \in Proc, Process(p)
      PROVE  Contents'
  <2>1. CASE Begin(p)
    BY <2>1 DEF Begin, fsVars
  <2>2. CASE StagingCoordination(p)
    BY <2>2 DEF StagingCoordination, Reapable, fsVars
  <2>3. CASE StagingCancelled(p)
    BY <2>3 DEF StagingCancelled, Fault, fsVars
  <2>4. CASE RecoverStage(p)
    BY <2>4 DEF RecoverStage, LeaseBusy, fsVars
  <2>5. CASE RecoverStagingDone(p)
    BY <2>5 DEF RecoverStagingDone, fsVars
  <2>6. CASE MkdirStage(p)
    BY <2>6 DEF MkdirStage, Fresh, fsVars
  <2>7. CASE MkdirFails(p)
    BY <2>7 DEF MkdirFails, fsVars
  <2>8. CASE CreateLease(p)
    BY <2>8 DEF CreateLease, fsVars
  <2>9. CASE LockLease(p)
    BY <2>9 DEF LockLease, fsVars
  <2>10. CASE SyncLease(p)
    BY <2>10 DEF SyncLease, fsVars
  <2>11. CASE SyncStage(p)
    BY <2>11 DEF SyncStage, fsVars
  <2>12. CASE UnwindLease(p)
    BY <2>12 DEF UnwindLease, Fault, fsVars
  <2>13. CASE UnwindRmdir(p)
    BY <2>13 DEF UnwindRmdir, fsVars
  <2>14. CASE WriteSlot(p)
    BY <2>14 DEF WriteSlot, fsVars
  <2>15. CASE Publish(p)
    BY <2>15 DEF Publish, fsVars
  <2>16. CASE PublishPrefix(p)
    BY <2>16 DEF PublishPrefix, fsVars
  <2>17. CASE CloseBegin(p)
    BY <2>17 DEF CloseBegin, fsVars
  <2>18. CASE CloseCoordination(p)
    BY <2>18 DEF CloseCoordination, fsVars
  <2>19. CASE CloseTimeout(p)
    BY <2>19 DEF CloseTimeout, Fault, fsVars
  <2>20. CASE RemoveValidate(p)
    BY <2>20 DEF RemoveValidate, RemoveReturns, Familiar, fsVars
  <2>21. CASE RemoveSlot(p)
    BY <2>21 DEF RemoveSlot, fsVars
  <2>22. CASE RemoveSlotsDone(p)
    BY <2>22 DEF RemoveSlotsDone, fsVars
  <2>23. CASE RemoveSyncEmpty(p)
    BY <2>23 DEF RemoveSyncEmpty, fsVars
  <2>24. CASE RemoveLease(p)
    BY <2>24 DEF RemoveLease, fsVars
  <2>25. CASE RemoveSyncLeaseless(p)
    BY <2>25 DEF RemoveSyncLeaseless, fsVars
  <2>26. CASE RemoveRmdir(p)
    BY <2>26 DEF RemoveRmdir, fsVars
  <2>27. CASE RemoveSyncHome(p)
    BY <2>27 DEF RemoveSyncHome, RemoveReturns, fsVars
  <2>28. CASE RemoveFails(p)
    BY <2>28 DEF RemoveFails, Fault, RemoveReturns, fsVars
  <2>29. CASE Kill(p)
    BY <2>29 DEF Kill, Fault, fsVars
  <2>30. QED
    BY <1>2, <2>1, <2>2, <2>3, <2>4, <2>5, <2>6, <2>7, <2>8, <2>9, <2>10, <2>11, <2>12,
        <2>13, <2>14, <2>15, <2>16, <2>17, <2>18, <2>19, <2>20, <2>21, <2>22, <2>23, <2>24,
        <2>25, <2>26, <2>27, <2>28, <2>29 DEF Process, Progress
<1>3. CASE MachineFailure
  BY <1>3 DEF MachineFailure, Fault
<1>4. ASSUME NEW s \in Stage, WriteBackEntry(s)
      PROVE  Contents'
  BY <1>4 DEF WriteBackEntry, Fault
<1>5. ASSUME NEW s \in Stage, WriteBackHome(s)
      PROVE  Contents'
  BY <1>5 DEF WriteBackHome, Fault
<1>6. ASSUME NEW s \in Stage, ForeignWrite(s)
      PROVE  Contents'
  BY <1>6 DEF ForeignWrite, Fault
<1>7. QED
  BY <1>1, <1>2, <1>3, <1>4, <1>5, <1>6 DEF Next, Environment

\* Every step preserves the progress of recovery.
LEMMA RecoveryStep ==
    ASSUME IInv, [Next]_vars
    PROVE  Recovery'
<1> USE ConstantsAssumption DEF IInv, TypeOK, Locks, Ownership, Removal, Contents,
    OwnPayloadIntact, LeasedPayload, Recovery, Familiar, PC, Removing, Reserving,
    Coordinating, Leasing, Owning
<1>1. CASE UNCHANGED vars
  BY <1>1 DEF vars
<1>2. ASSUME NEW p \in Proc, Process(p)
      PROVE  Recovery'
  <2>1. CASE Begin(p)
    BY <2>1 DEF Begin, fsVars
  <2>2. CASE StagingCoordination(p)
    BY <2>2 DEF StagingCoordination, Reapable, fsVars
  <2>3. CASE StagingCancelled(p)
    BY <2>3 DEF StagingCancelled, Fault, fsVars
  <2>4. CASE RecoverStage(p)
    BY <2>4 DEF RecoverStage, LeaseBusy, fsVars
  <2>5. CASE RecoverStagingDone(p)
    BY <2>5 DEF RecoverStagingDone, fsVars
  <2>6. CASE MkdirStage(p)
    BY <2>6 DEF MkdirStage, Fresh, fsVars
  <2>7. CASE MkdirFails(p)
    BY <2>7 DEF MkdirFails, fsVars
  <2>8. CASE CreateLease(p)
    BY <2>8 DEF CreateLease, fsVars
  <2>9. CASE LockLease(p)
    BY <2>9 DEF LockLease, fsVars
  <2>10. CASE SyncLease(p)
    BY <2>10 DEF SyncLease, fsVars
  <2>11. CASE SyncStage(p)
    BY <2>11 DEF SyncStage, fsVars
  <2>12. CASE UnwindLease(p)
    BY <2>12 DEF UnwindLease, Fault, fsVars
  <2>13. CASE UnwindRmdir(p)
    BY <2>13 DEF UnwindRmdir, fsVars
  <2>14. CASE WriteSlot(p)
    BY <2>14 DEF WriteSlot, fsVars
  <2>15. CASE Publish(p)
    BY <2>15 DEF Publish, fsVars
  <2>16. CASE PublishPrefix(p)
    BY <2>16 DEF PublishPrefix, fsVars
  <2>17. CASE CloseBegin(p)
    BY <2>17 DEF CloseBegin, fsVars
  <2>18. CASE CloseCoordination(p)
    BY <2>18 DEF CloseCoordination, fsVars
  <2>19. CASE CloseTimeout(p)
    BY <2>19 DEF CloseTimeout, Fault, fsVars
  <2>20. CASE RemoveValidate(p)
    BY <2>20 DEF RemoveValidate, RemoveReturns, Familiar, fsVars
  <2>21. CASE RemoveSlot(p)
    BY <2>21 DEF RemoveSlot, fsVars
  <2>22. CASE RemoveSlotsDone(p)
    BY <2>22 DEF RemoveSlotsDone, fsVars
  <2>23. CASE RemoveSyncEmpty(p)
    BY <2>23 DEF RemoveSyncEmpty, fsVars
  <2>24. CASE RemoveLease(p)
    BY <2>24 DEF RemoveLease, fsVars
  <2>25. CASE RemoveSyncLeaseless(p)
    BY <2>25 DEF RemoveSyncLeaseless, fsVars
  <2>26. CASE RemoveRmdir(p)
    BY <2>26 DEF RemoveRmdir, fsVars
  <2>27. CASE RemoveSyncHome(p)
    BY <2>27 DEF RemoveSyncHome, RemoveReturns, fsVars
  <2>28. CASE RemoveFails(p)
    BY <2>28 DEF RemoveFails, Fault, RemoveReturns, fsVars
  <2>29. CASE Kill(p)
    BY <2>29 DEF Kill, Fault, fsVars
  <2>30. QED
    BY <1>2, <2>1, <2>2, <2>3, <2>4, <2>5, <2>6, <2>7, <2>8, <2>9, <2>10, <2>11, <2>12,
        <2>13, <2>14, <2>15, <2>16, <2>17, <2>18, <2>19, <2>20, <2>21, <2>22, <2>23, <2>24,
        <2>25, <2>26, <2>27, <2>28, <2>29 DEF Process, Progress
<1>3. CASE MachineFailure
  BY <1>3 DEF MachineFailure, Fault
<1>4. ASSUME NEW s \in Stage, WriteBackEntry(s)
      PROVE  Recovery'
  BY <1>4 DEF WriteBackEntry, Fault
<1>5. ASSUME NEW s \in Stage, WriteBackHome(s)
      PROVE  Recovery'
  BY <1>5 DEF WriteBackHome, Fault
<1>6. ASSUME NEW s \in Stage, ForeignWrite(s)
      PROVE  Recovery'
  BY <1>6 DEF ForeignWrite, Fault
<1>7. QED
  BY <1>1, <1>2, <1>3, <1>4, <1>5, <1>6 DEF Next, Environment

\* The initial state satisfies the inductive invariant.
LEMMA InitIInv == Init => IInv
BY ConstantsAssumption DEF Init, IInv, TypeOK, Locks, Ownership, Removal,
   Contents, OwnPayloadIntact, LeasedPayload, Recovery, PC, Removing,
   Reserving, Coordinating, Leasing, Owning

\* Every step preserves the inductive invariant.
LEMMA NextIInv == IInv /\ [Next]_vars => IInv'
BY TypeStep, LocksStep, OwnershipStep, RemovalStep, ContentsStep, RecoveryStep
   DEF IInv

\* The inductive invariant holds in every reachable state.
LEMMA Invariance == Spec => []IInv
BY InitIInv, NextIInv, PTL DEF Spec

\* Type correctness: every control point of staging, Receive, Publish, Close and
\* removeStaging works on a stage it really has.
THEOREM TypeCorrect == Spec => []TypeOK
<1>1. IInv => TypeOK
  BY DEF IInv
<1>2. QED
  BY <1>1, Invariance, PTL

\* No recovery pass of another import touches the stage of a live transfer.
THEOREM LiveStagePreserved == Spec => []OwnPayloadIntact
<1>1. IInv => OwnPayloadIntact
  BY DEF IInv, Contents
<1>2. QED
  BY <1>1, Invariance, PTL

\* The sync barriers of staging and removeStaging keep payload and lease
\* together, in the visible tree and in any tree a machine failure leaves.
THEOREM PayloadNeverLeaseless == Spec => []PayloadHasLease
<1>1. IInv => PayloadHasLease
  BY DEF IInv, Contents, LeasedPayload, PayloadHasLease
<1>2. QED
  BY <1>1, Invariance, PTL

\* An import that gets past recoverStaging has reaped every stage that was
\* abandoned when its pass began.
THEOREM RecoveryReapsAll == Spec => []RecoveryComplete
<1>1. IInv => RecoveryComplete
  BY DEF IInv, Recovery, RecoveryComplete
<1>2. QED
  BY <1>1, Invariance, PTL

\* No step other than a machine failure takes anything from an unfamiliar stage.
LEMMA UnfamiliarStep ==
    ASSUME IInv, [Next]_vars
    PROVE  MachineFailure \/ KeepsUnfamiliar \/ UNCHANGED vars
<1> SUFFICES ASSUME Next, ~MachineFailure
             PROVE  KeepsUnfamiliar
  OBVIOUS
<1> USE ConstantsAssumption DEF IInv, TypeOK, Locks, Ownership, Removal,
        KeepsUnfamiliar, PC, Removing, Reserving, Coordinating, Leasing, Owning
<1>1. ASSUME NEW p \in Proc, Process(p)
      PROVE  KeepsUnfamiliar
  <2>1. CASE Begin(p)
    BY <2>1 DEF Begin, fsVars
  <2>2. CASE StagingCoordination(p)
    BY <2>2 DEF StagingCoordination, Reapable, fsVars
  <2>3. CASE StagingCancelled(p)
    BY <2>3 DEF StagingCancelled, Fault, fsVars
  <2>4. CASE RecoverStage(p)
    BY <2>4 DEF RecoverStage, LeaseBusy, fsVars
  <2>5. CASE RecoverStagingDone(p)
    BY <2>5 DEF RecoverStagingDone, fsVars
  <2>6. CASE MkdirStage(p)
    BY <2>6 DEF MkdirStage, Fresh, fsVars
  <2>7. CASE MkdirFails(p)
    BY <2>7 DEF MkdirFails, fsVars
  <2>8. CASE CreateLease(p)
    BY <2>8 DEF CreateLease, fsVars
  <2>9. CASE LockLease(p)
    BY <2>9 DEF LockLease, fsVars
  <2>10. CASE SyncLease(p)
    BY <2>10 DEF SyncLease, fsVars
  <2>11. CASE SyncStage(p)
    BY <2>11 DEF SyncStage, fsVars
  <2>12. CASE UnwindLease(p)
    BY <2>12 DEF UnwindLease, Fault, fsVars
  <2>13. CASE UnwindRmdir(p)
    BY <2>13 DEF UnwindRmdir, fsVars
  <2>14. CASE WriteSlot(p)
    BY <2>14 DEF WriteSlot, fsVars
  <2>15. CASE Publish(p)
    BY <2>15 DEF Publish, fsVars
  <2>16. CASE PublishPrefix(p)
    BY <2>16 DEF PublishPrefix, fsVars
  <2>17. CASE CloseBegin(p)
    BY <2>17 DEF CloseBegin, fsVars
  <2>18. CASE CloseCoordination(p)
    BY <2>18 DEF CloseCoordination, fsVars
  <2>19. CASE CloseTimeout(p)
    BY <2>19 DEF CloseTimeout, Fault, fsVars
  <2>20. CASE RemoveValidate(p)
    BY <2>20 DEF RemoveValidate, RemoveReturns, Familiar, fsVars
  <2>21. CASE RemoveSlot(p)
    BY <2>21 DEF RemoveSlot, fsVars
  <2>22. CASE RemoveSlotsDone(p)
    BY <2>22 DEF RemoveSlotsDone, fsVars
  <2>23. CASE RemoveSyncEmpty(p)
    BY <2>23 DEF RemoveSyncEmpty, fsVars
  <2>24. CASE RemoveLease(p)
    BY <2>24 DEF RemoveLease, fsVars
  <2>25. CASE RemoveSyncLeaseless(p)
    BY <2>25 DEF RemoveSyncLeaseless, fsVars
  <2>26. CASE RemoveRmdir(p)
    BY <2>26 DEF RemoveRmdir, fsVars
  <2>27. CASE RemoveSyncHome(p)
    BY <2>27 DEF RemoveSyncHome, RemoveReturns, fsVars
  <2>28. CASE RemoveFails(p)
    BY <2>28 DEF RemoveFails, Fault, RemoveReturns, fsVars
  <2>29. CASE Kill(p)
    BY <2>29 DEF Kill, Fault, fsVars
  <2>30. QED
    BY <1>1, <2>1, <2>2, <2>3, <2>4, <2>5, <2>6, <2>7, <2>8, <2>9, <2>10, <2>11, <2>12,
        <2>13, <2>14, <2>15, <2>16, <2>17, <2>18, <2>19, <2>20, <2>21, <2>22, <2>23, <2>24,
        <2>25, <2>26, <2>27, <2>28, <2>29 DEF Process, Progress
<1>2. ASSUME NEW s \in Stage, WriteBackEntry(s) \/ WriteBackHome(s) \/ ForeignWrite(s)
      PROVE  KeepsUnfamiliar
  BY <1>2 DEF WriteBackEntry, WriteBackHome, ForeignWrite, Fault
<1>3. QED
  BY <1>1, <1>2 DEF Next, Environment

\* A stage with an entry of unknown origin is preserved as it is.
THEOREM UnfamiliarKept == Spec => UnfamiliarPreserved
<1>1. IInv /\ [Next]_vars => [MachineFailure \/ KeepsUnfamiliar]_vars
  BY UnfamiliarStep
<1>2. QED
  BY <1>1, Invariance, PTL DEF Spec, UnfamiliarPreserved

=============================================================================
