------------------------- MODULE PipeCloseProofs -------------------------
(***************************************************************************)
(* The handles of a pipe are counted right, and freeing the last one of a  *)
(* kind leaves nobody asleep.                                              *)
(***************************************************************************)
EXTENDS PipeProofs

(* Handles are held by finitely many threads.                              *)
LEMMA HandlesFinite == IsFiniteSet(ProducerHandles) /\ IsFiniteSet(ConsumerHandles)
<1>1. IsFiniteSet(Producers \cup {Main}) /\ IsFiniteSet(Consumers \cup {Main})
  BY PipeAssumption, FS_AddElement
<1>2. ProducerHandles \in SUBSET (Producers \cup {Main})
  BY DEF ProducerHandles
<1>3. ConsumerHandles \in SUBSET (Consumers \cup {Main})
  BY DEF ConsumerHandles
<1>. QED  BY <1>1, <1>2, <1>3, FS_Subset

(* So they can be counted.                                                 *)
LEMMA HandlesCounted == Cardinality(ProducerHandles) \in Nat /\ Cardinality(ConsumerHandles) \in Nat
BY HandlesFinite, FS_CardinalityType

(* Who can be where.                                                       *)
Roles ==
  /\ \A p \in Producers :
       pc[p] \in {"unborn", "idle", "done", "pf_check", "wake_consumers", "deallocate"}
                   \cup PushPcs
  /\ \A c \in Consumers :
       pc[c] \in {"unborn", "idle", "done", "cf_check", "wake_producers", "deallocate"}
                   \cup PopPcs
  /\ pc[Main] \in {"idle", "done", "pipe_free", "wake_producers", "wake_consumers",
                   "deallocate"} \cup ReservePcs

(* Every step keeps producers, consumers and the owner in their own code.  *)
LEMMA RolesStep ==
  ASSUME TypeOK, Roles, [Next]_vars
  PROVE  Roles'
<1>0. /\ pc \in [Threads -> Pcs] /\ Main \in Threads
      /\ Producers \subseteq Threads /\ Consumers \subseteq Threads
  BY DEF TypeOK, Threads
<1>1. ASSUME UNCHANGED vars
       PROVE  Roles'
  BY <1>1 DEF vars, Roles
<1>2. ASSUME NEW p \in Producers, NEW count \in PushCounts, pipe_push(p, count)
       PROVE  Roles'
  BY <1>2, <1>0, PipeAssumption DEF pipe_push, GoTo, Roles, PushPcs, PopPcs, ReservePcs
<1>3. ASSUME NEW p \in Producers, PushFull(p)
       PROVE  Roles'
  BY <1>3, <1>0, PipeAssumption DEF PushFull, GoTo, Roles, PushPcs, PopPcs, ReservePcs
<1>4. ASSUME NEW p \in Producers, PushToNobody(p)
       PROVE  Roles'
  BY <1>4, <1>0, PipeAssumption DEF PushToNobody, GoTo, Roles, PushPcs, PopPcs,
     ReservePcs
<1>5. ASSUME NEW p \in Producers, PushBegins(p)
       PROVE  Roles'
  BY <1>5, <1>0, PipeAssumption DEF PushBegins, GoTo, Roles, PushPcs, PopPcs, ReservePcs
<1>6. ASSUME NEW p \in Producers, PushSleeps(p)
       PROVE  Roles'
  BY <1>6, <1>0, PipeAssumption DEF PushSleeps, GoTo, Roles, PushPcs, PopPcs, ReservePcs
<1>7. ASSUME NEW p \in Producers, PushGrows(p)
       PROVE  Roles'
  BY <1>7, <1>0, PipeAssumption DEF PushGrows, GoTo, Roles, PushPcs, PopPcs, ReservePcs
<1>8. ASSUME NEW p \in Producers, PushCopies(p)
       PROVE  Roles'
  BY <1>8, <1>0, PipeAssumption DEF PushCopies, GoTo, Roles, PushPcs, PopPcs, ReservePcs
<1>9. ASSUME NEW p \in Producers, PushSignals(p)
       PROVE  Roles'
  BY <1>9, <1>0, PipeAssumption, PushWokenAsleep DEF PushSignals, GoToWaking,
     AwaitingElements, AwaitingRoom, Roles, PushPcs, PopPcs, ReservePcs
<1>10. ASSUME NEW p \in Producers, PushReturns(p)
       PROVE  Roles'
  BY <1>10, <1>0, PipeAssumption, PushWokenAsleep DEF PushReturns, GoToWaking,
     AwaitingElements, AwaitingRoom, Roles, PushPcs, PopPcs, ReservePcs
<1>11. ASSUME NEW p \in Producers, pipe_producer_free(p)
       PROVE  Roles'
  BY <1>11, <1>0, PipeAssumption DEF pipe_producer_free, GoTo, Roles, PushPcs, PopPcs,
     ReservePcs
<1>12. ASSUME NEW p \in Producers, ProducerFreeChecks(p)
       PROVE  Roles'
  BY <1>12, <1>0, PipeAssumption DEF ProducerFreeChecks, GoTo, Roles, PushPcs, PopPcs,
     ReservePcs
<1>13. ASSUME NEW c \in Consumers, NEW count \in PopCounts, pipe_pop(c, count)
       PROVE  Roles'
  BY <1>13, <1>0, PipeAssumption DEF pipe_pop, GoTo, Roles, PushPcs, PopPcs, ReservePcs
<1>14. ASSUME NEW c \in Consumers, NEW count \in PopCounts, pipe_pop_eager(c, count)
       PROVE  Roles'
  BY <1>14, <1>0, PipeAssumption DEF pipe_pop_eager, GoTo, Roles, PushPcs, PopPcs,
     ReservePcs
<1>15. ASSUME NEW c \in Consumers, PopEmpty(c)
       PROVE  Roles'
  BY <1>15, <1>0, PipeAssumption DEF PopEmpty, GoTo, Roles, PushPcs, PopPcs, ReservePcs
<1>16. ASSUME NEW c \in Consumers, PopEnds(c)
       PROVE  Roles'
  BY <1>16, <1>0, PipeAssumption DEF PopEnds, GoTo, Roles, PushPcs, PopPcs, ReservePcs
<1>17. ASSUME NEW c \in Consumers, PopBegins(c)
       PROVE  Roles'
  BY <1>17, <1>0, PipeAssumption DEF PopBegins, GoTo, Roles, PushPcs, PopPcs, ReservePcs
<1>18. ASSUME NEW c \in Consumers, PopSleeps(c)
       PROVE  Roles'
  BY <1>18, <1>0, PipeAssumption DEF PopSleeps, GoTo, Roles, PushPcs, PopPcs, ReservePcs
<1>19. ASSUME NEW c \in Consumers, PopCopies(c)
       PROVE  Roles'
  BY <1>19, <1>0, PipeAssumption DEF PopCopies, GoTo, Roles, PushPcs, PopPcs, ReservePcs
<1>20. ASSUME NEW c \in Consumers, TrimLocksEnd(c)
       PROVE  Roles'
  BY <1>20, <1>0, PipeAssumption DEF TrimLocksEnd, GoTo, Roles, PushPcs, PopPcs,
     ReservePcs
<1>21. ASSUME NEW c \in Consumers, TrimShrinks(c)
       PROVE  Roles'
  BY <1>21, <1>0, PipeAssumption DEF TrimShrinks, GoTo, Roles, PushPcs, PopPcs,
     ReservePcs
<1>22. ASSUME NEW c \in Consumers, PopSignals(c)
       PROVE  Roles'
  BY <1>22, <1>0, PipeAssumption, PopWokenAsleep DEF PopSignals, GoToWaking,
     AwaitingElements, AwaitingRoom, Roles, PushPcs, PopPcs, ReservePcs
<1>23. ASSUME NEW c \in Consumers, PopReturns(c)
       PROVE  Roles'
  BY <1>23, <1>0, PipeAssumption, PopWokenAsleep DEF PopReturns, GoToWaking,
     AwaitingElements, AwaitingRoom, Roles, PushPcs, PopPcs, ReservePcs
<1>24. ASSUME NEW c \in Consumers, pipe_consumer_free(c)
       PROVE  Roles'
  BY <1>24, <1>0, PipeAssumption DEF pipe_consumer_free, GoTo, Roles, PushPcs, PopPcs,
     ReservePcs
<1>25. ASSUME NEW c \in Consumers, ConsumerFreeChecks(c)
       PROVE  Roles'
  BY <1>25, <1>0, PipeAssumption DEF ConsumerFreeChecks, GoTo, Roles, PushPcs, PopPcs,
     ReservePcs
<1>26. ASSUME NEW p \in Producers, pipe_producer_new(p)
       PROVE  Roles'
  BY <1>26, <1>0, PipeAssumption DEF pipe_producer_new, GoTo, Roles, PushPcs, PopPcs,
     ReservePcs
<1>27. ASSUME NEW c \in Consumers, pipe_consumer_new(c)
       PROVE  Roles'
  BY <1>27, <1>0, PipeAssumption DEF pipe_consumer_new, GoTo, Roles, PushPcs, PopPcs,
     ReservePcs
<1>28. ASSUME NEW count \in ReserveCounts, pipe_reserve(Main, count)
       PROVE  Roles'
  BY <1>28, <1>0, PipeAssumption DEF pipe_reserve, GoTo, Roles, PushPcs, PopPcs,
     ReservePcs
<1>29. ASSUME ReserveLocksEnd(Main)
       PROVE  Roles'
  BY <1>29, <1>0, PipeAssumption DEF ReserveLocksEnd, GoTo, Roles, PushPcs, PopPcs,
     ReservePcs
<1>30. ASSUME ReserveSets(Main)
       PROVE  Roles'
  BY <1>30, <1>0, PipeAssumption DEF ReserveSets, GoTo, Roles, PushPcs, PopPcs,
     ReservePcs
<1>31. ASSUME pipe_free
       PROVE  Roles'
  BY <1>31, <1>0, PipeAssumption DEF pipe_free, GoTo, Roles, PushPcs, PopPcs, ReservePcs
<1>32. ASSUME PipeFreeDecides
       PROVE  Roles'
  BY <1>32, <1>0, PipeAssumption DEF PipeFreeDecides, GoTo, Roles, PushPcs, PopPcs,
     ReservePcs
<1>33. ASSUME NEW t \in Threads, WakeConsumers(t)
       PROVE  Roles'
  BY <1>33, <1>0, PipeAssumption DEF WakeConsumers, GoToWaking, AwaitingElements,
     AwaitingRoom, Roles, PushPcs, PopPcs, ReservePcs
<1>34. ASSUME NEW t \in Threads, WakeProducers(t)
       PROVE  Roles'
  BY <1>34, <1>0, PipeAssumption DEF WakeProducers, GoToWaking, AwaitingElements,
     AwaitingRoom, Roles, PushPcs, PopPcs, ReservePcs
<1>35. ASSUME NEW t \in Threads, deallocate(t)
       PROVE  Roles'
  BY <1>35, <1>0, PipeAssumption DEF deallocate, GoTo, Roles, PushPcs, PopPcs,
     ReservePcs
<1>36. ASSUME NEW t \in Threads, SpuriousWakeup(t)
       PROVE  Roles'
  BY <1>36, <1>0, PipeAssumption DEF SpuriousWakeup, GoTo, Roles, PushPcs, PopPcs,
     ReservePcs
<1>. QED
  BY <1>1, <1>2, <1>3, <1>4, <1>5, <1>6, <1>7, <1>8, <1>9, <1>10, <1>11, <1>12, <1>13,
     <1>14, <1>15, <1>16, <1>17, <1>18, <1>19, <1>20, <1>21, <1>22, <1>23, <1>24, <1>25,
     <1>26, <1>27, <1>28, <1>29, <1>30, <1>31, <1>32, <1>33, <1>34, <1>35, <1>36
  DEF Next, Producer, Consumer, Owner, Pushing, Popping, Freeing

(* Every step that takes or gives up a handle changes the count by one,    *)
(* and no other step changes either.                                       *)
LEMMA RefCountsStep ==
  ASSUME TypeOK, Roles, RefCounts, [Next]_vars
  PROVE  RefCounts'
<1>0. /\ pc \in [Threads -> Pcs] /\ Main \in Threads
      /\ Producers \subseteq Threads /\ Consumers \subseteq Threads
  BY DEF TypeOK, Threads
<1>1. ASSUME UNCHANGED vars
       PROVE  RefCounts'
  BY <1>1 DEF vars, counts, RefCounts, ProducerHandles, ConsumerHandles, Gone, FreePcs
<1>2. ASSUME NEW p \in Producers, NEW count \in PushCounts, pipe_push(p, count)
       PROVE  RefCounts'
  <2>1. ProducerHandles' = ProducerHandles
    BY <1>2, <1>0, PipeAssumption DEF pipe_push, GoTo, ProducerHandles,
       ConsumerHandles, Gone, FreePcs
  <2>2. ConsumerHandles' = ConsumerHandles
    BY <1>2, <1>0, PipeAssumption DEF pipe_push, GoTo, ProducerHandles,
       ConsumerHandles, Gone, FreePcs
  <2>. QED  BY <1>2, <2>1, <2>2 DEF pipe_push, counts, RefCounts
<1>3. ASSUME NEW p \in Producers, PushFull(p)
       PROVE  RefCounts'
  <2>1. ProducerHandles' = ProducerHandles
    BY <1>3, <1>0, PipeAssumption DEF PushFull, GoTo, ProducerHandles,
       ConsumerHandles, Gone, FreePcs
  <2>2. ConsumerHandles' = ConsumerHandles
    BY <1>3, <1>0, PipeAssumption DEF PushFull, GoTo, ProducerHandles,
       ConsumerHandles, Gone, FreePcs
  <2>. QED  BY <1>3, <2>1, <2>2 DEF PushFull, counts, RefCounts
<1>4. ASSUME NEW p \in Producers, PushToNobody(p)
       PROVE  RefCounts'
  <2>1. ProducerHandles' = ProducerHandles
    BY <1>4, <1>0, PipeAssumption DEF PushToNobody, GoTo, ProducerHandles,
       ConsumerHandles, Gone, FreePcs
  <2>2. ConsumerHandles' = ConsumerHandles
    BY <1>4, <1>0, PipeAssumption DEF PushToNobody, GoTo, ProducerHandles,
       ConsumerHandles, Gone, FreePcs
  <2>. QED  BY <1>4, <2>1, <2>2 DEF PushToNobody, counts, RefCounts
<1>5. ASSUME NEW p \in Producers, PushBegins(p)
       PROVE  RefCounts'
  <2>1. ProducerHandles' = ProducerHandles
    BY <1>5, <1>0, PipeAssumption DEF PushBegins, GoTo, ProducerHandles,
       ConsumerHandles, Gone, FreePcs
  <2>2. ConsumerHandles' = ConsumerHandles
    BY <1>5, <1>0, PipeAssumption DEF PushBegins, GoTo, ProducerHandles,
       ConsumerHandles, Gone, FreePcs
  <2>. QED  BY <1>5, <2>1, <2>2 DEF PushBegins, counts, RefCounts
<1>6. ASSUME NEW p \in Producers, PushSleeps(p)
       PROVE  RefCounts'
  <2>1. ProducerHandles' = ProducerHandles
    BY <1>6, <1>0, PipeAssumption DEF PushSleeps, GoTo, ProducerHandles,
       ConsumerHandles, Gone, FreePcs
  <2>2. ConsumerHandles' = ConsumerHandles
    BY <1>6, <1>0, PipeAssumption DEF PushSleeps, GoTo, ProducerHandles,
       ConsumerHandles, Gone, FreePcs
  <2>. QED  BY <1>6, <2>1, <2>2 DEF PushSleeps, counts, RefCounts
<1>7. ASSUME NEW p \in Producers, PushGrows(p)
       PROVE  RefCounts'
  <2>1. ProducerHandles' = ProducerHandles
    BY <1>7, <1>0, PipeAssumption DEF PushGrows, GoTo, ProducerHandles,
       ConsumerHandles, Gone, FreePcs
  <2>2. ConsumerHandles' = ConsumerHandles
    BY <1>7, <1>0, PipeAssumption DEF PushGrows, GoTo, ProducerHandles,
       ConsumerHandles, Gone, FreePcs
  <2>. QED  BY <1>7, <2>1, <2>2 DEF PushGrows, counts, RefCounts
<1>8. ASSUME NEW p \in Producers, PushCopies(p)
       PROVE  RefCounts'
  <2>1. ProducerHandles' = ProducerHandles
    BY <1>8, <1>0, PipeAssumption DEF PushCopies, GoTo, ProducerHandles,
       ConsumerHandles, Gone, FreePcs
  <2>2. ConsumerHandles' = ConsumerHandles
    BY <1>8, <1>0, PipeAssumption DEF PushCopies, GoTo, ProducerHandles,
       ConsumerHandles, Gone, FreePcs
  <2>. QED  BY <1>8, <2>1, <2>2 DEF PushCopies, counts, RefCounts
<1>9. ASSUME NEW p \in Producers, PushSignals(p)
       PROVE  RefCounts'
  <2>1. ProducerHandles' = ProducerHandles
    BY <1>9, <1>0, PushWokenAsleep, PipeAssumption DEF PushSignals, GoToWaking,
       AwaitingElements, AwaitingRoom, ProducerHandles, ConsumerHandles, Gone, FreePcs
  <2>2. ConsumerHandles' = ConsumerHandles
    BY <1>9, <1>0, PushWokenAsleep, PipeAssumption DEF PushSignals, GoToWaking,
       AwaitingElements, AwaitingRoom, ProducerHandles, ConsumerHandles, Gone, FreePcs
  <2>. QED  BY <1>9, <2>1, <2>2 DEF PushSignals, counts, RefCounts
<1>10. ASSUME NEW p \in Producers, PushReturns(p)
       PROVE  RefCounts'
  <2>1. ProducerHandles' = ProducerHandles
    BY <1>10, <1>0, PushWokenAsleep, PipeAssumption DEF PushReturns, GoToWaking,
       AwaitingElements, AwaitingRoom, ProducerHandles, ConsumerHandles, Gone, FreePcs
  <2>2. ConsumerHandles' = ConsumerHandles
    BY <1>10, <1>0, PushWokenAsleep, PipeAssumption DEF PushReturns, GoToWaking,
       AwaitingElements, AwaitingRoom, ProducerHandles, ConsumerHandles, Gone, FreePcs
  <2>. QED  BY <1>10, <2>1, <2>2 DEF PushReturns, counts, RefCounts
<1>11. ASSUME NEW p \in Producers, pipe_producer_free(p)
       PROVE  RefCounts'
  <2>1. ProducerHandles' = ProducerHandles \ {p} /\ p \in ProducerHandles
    BY <1>11, <1>0, PipeAssumption DEF pipe_producer_free, GoTo, ProducerHandles,
       ConsumerHandles, Gone, FreePcs
  <2>2. ConsumerHandles' = ConsumerHandles
    BY <1>11, <1>0, PipeAssumption DEF pipe_producer_free, GoTo, ProducerHandles,
       ConsumerHandles, Gone, FreePcs
  <2>. QED  BY <1>11, <2>1, <2>2, HandlesFinite, FS_RemoveElement DEF pipe_producer_free, RefCounts
<1>12. ASSUME NEW p \in Producers, ProducerFreeChecks(p)
       PROVE  RefCounts'
  <2>1. ProducerHandles' = ProducerHandles
    BY <1>12, <1>0, PipeAssumption DEF ProducerFreeChecks, GoTo, ProducerHandles,
       ConsumerHandles, Gone, FreePcs
  <2>2. ConsumerHandles' = ConsumerHandles
    BY <1>12, <1>0, PipeAssumption DEF ProducerFreeChecks, GoTo, ProducerHandles,
       ConsumerHandles, Gone, FreePcs
  <2>. QED  BY <1>12, <2>1, <2>2 DEF ProducerFreeChecks, counts, RefCounts
<1>13. ASSUME NEW c \in Consumers, NEW count \in PopCounts, pipe_pop(c, count)
       PROVE  RefCounts'
  <2>1. ProducerHandles' = ProducerHandles
    BY <1>13, <1>0, PipeAssumption DEF pipe_pop, GoTo, ProducerHandles,
       ConsumerHandles, Gone, FreePcs
  <2>2. ConsumerHandles' = ConsumerHandles
    BY <1>13, <1>0, PipeAssumption DEF pipe_pop, GoTo, ProducerHandles,
       ConsumerHandles, Gone, FreePcs
  <2>. QED  BY <1>13, <2>1, <2>2 DEF pipe_pop, counts, RefCounts
<1>14. ASSUME NEW c \in Consumers, NEW count \in PopCounts, pipe_pop_eager(c, count)
       PROVE  RefCounts'
  <2>1. ProducerHandles' = ProducerHandles
    BY <1>14, <1>0, PipeAssumption DEF pipe_pop_eager, GoTo, ProducerHandles,
       ConsumerHandles, Gone, FreePcs
  <2>2. ConsumerHandles' = ConsumerHandles
    BY <1>14, <1>0, PipeAssumption DEF pipe_pop_eager, GoTo, ProducerHandles,
       ConsumerHandles, Gone, FreePcs
  <2>. QED  BY <1>14, <2>1, <2>2 DEF pipe_pop_eager, counts, RefCounts
<1>15. ASSUME NEW c \in Consumers, PopEmpty(c)
       PROVE  RefCounts'
  <2>1. ProducerHandles' = ProducerHandles
    BY <1>15, <1>0, PipeAssumption DEF PopEmpty, GoTo, ProducerHandles,
       ConsumerHandles, Gone, FreePcs
  <2>2. ConsumerHandles' = ConsumerHandles
    BY <1>15, <1>0, PipeAssumption DEF PopEmpty, GoTo, ProducerHandles,
       ConsumerHandles, Gone, FreePcs
  <2>. QED  BY <1>15, <2>1, <2>2 DEF PopEmpty, counts, RefCounts
<1>16. ASSUME NEW c \in Consumers, PopEnds(c)
       PROVE  RefCounts'
  <2>1. ProducerHandles' = ProducerHandles
    BY <1>16, <1>0, PipeAssumption DEF PopEnds, GoTo, ProducerHandles,
       ConsumerHandles, Gone, FreePcs
  <2>2. ConsumerHandles' = ConsumerHandles
    BY <1>16, <1>0, PipeAssumption DEF PopEnds, GoTo, ProducerHandles,
       ConsumerHandles, Gone, FreePcs
  <2>. QED  BY <1>16, <2>1, <2>2 DEF PopEnds, counts, RefCounts
<1>17. ASSUME NEW c \in Consumers, PopBegins(c)
       PROVE  RefCounts'
  <2>1. ProducerHandles' = ProducerHandles
    BY <1>17, <1>0, PipeAssumption DEF PopBegins, GoTo, ProducerHandles,
       ConsumerHandles, Gone, FreePcs
  <2>2. ConsumerHandles' = ConsumerHandles
    BY <1>17, <1>0, PipeAssumption DEF PopBegins, GoTo, ProducerHandles,
       ConsumerHandles, Gone, FreePcs
  <2>. QED  BY <1>17, <2>1, <2>2 DEF PopBegins, counts, RefCounts
<1>18. ASSUME NEW c \in Consumers, PopSleeps(c)
       PROVE  RefCounts'
  <2>1. ProducerHandles' = ProducerHandles
    BY <1>18, <1>0, PipeAssumption DEF PopSleeps, GoTo, ProducerHandles,
       ConsumerHandles, Gone, FreePcs
  <2>2. ConsumerHandles' = ConsumerHandles
    BY <1>18, <1>0, PipeAssumption DEF PopSleeps, GoTo, ProducerHandles,
       ConsumerHandles, Gone, FreePcs
  <2>. QED  BY <1>18, <2>1, <2>2 DEF PopSleeps, counts, RefCounts
<1>19. ASSUME NEW c \in Consumers, PopCopies(c)
       PROVE  RefCounts'
  <2>1. ProducerHandles' = ProducerHandles
    BY <1>19, <1>0, PipeAssumption DEF PopCopies, GoTo, ProducerHandles,
       ConsumerHandles, Gone, FreePcs
  <2>2. ConsumerHandles' = ConsumerHandles
    BY <1>19, <1>0, PipeAssumption DEF PopCopies, GoTo, ProducerHandles,
       ConsumerHandles, Gone, FreePcs
  <2>. QED  BY <1>19, <2>1, <2>2 DEF PopCopies, counts, RefCounts
<1>20. ASSUME NEW c \in Consumers, TrimLocksEnd(c)
       PROVE  RefCounts'
  <2>1. ProducerHandles' = ProducerHandles
    BY <1>20, <1>0, PipeAssumption DEF TrimLocksEnd, GoTo, ProducerHandles,
       ConsumerHandles, Gone, FreePcs
  <2>2. ConsumerHandles' = ConsumerHandles
    BY <1>20, <1>0, PipeAssumption DEF TrimLocksEnd, GoTo, ProducerHandles,
       ConsumerHandles, Gone, FreePcs
  <2>. QED  BY <1>20, <2>1, <2>2 DEF TrimLocksEnd, counts, RefCounts
<1>21. ASSUME NEW c \in Consumers, TrimShrinks(c)
       PROVE  RefCounts'
  <2>1. ProducerHandles' = ProducerHandles
    BY <1>21, <1>0, PipeAssumption DEF TrimShrinks, GoTo, ProducerHandles,
       ConsumerHandles, Gone, FreePcs
  <2>2. ConsumerHandles' = ConsumerHandles
    BY <1>21, <1>0, PipeAssumption DEF TrimShrinks, GoTo, ProducerHandles,
       ConsumerHandles, Gone, FreePcs
  <2>. QED  BY <1>21, <2>1, <2>2 DEF TrimShrinks, counts, RefCounts
<1>22. ASSUME NEW c \in Consumers, PopSignals(c)
       PROVE  RefCounts'
  <2>1. ProducerHandles' = ProducerHandles
    BY <1>22, <1>0, PopWokenAsleep, PipeAssumption DEF PopSignals, GoToWaking,
       AwaitingElements, AwaitingRoom, ProducerHandles, ConsumerHandles, Gone, FreePcs
  <2>2. ConsumerHandles' = ConsumerHandles
    BY <1>22, <1>0, PopWokenAsleep, PipeAssumption DEF PopSignals, GoToWaking,
       AwaitingElements, AwaitingRoom, ProducerHandles, ConsumerHandles, Gone, FreePcs
  <2>. QED  BY <1>22, <2>1, <2>2 DEF PopSignals, counts, RefCounts
<1>23. ASSUME NEW c \in Consumers, PopReturns(c)
       PROVE  RefCounts'
  <2>1. ProducerHandles' = ProducerHandles
    BY <1>23, <1>0, PopWokenAsleep, PipeAssumption DEF PopReturns, GoToWaking,
       AwaitingElements, AwaitingRoom, ProducerHandles, ConsumerHandles, Gone, FreePcs
  <2>2. ConsumerHandles' = ConsumerHandles
    BY <1>23, <1>0, PopWokenAsleep, PipeAssumption DEF PopReturns, GoToWaking,
       AwaitingElements, AwaitingRoom, ProducerHandles, ConsumerHandles, Gone, FreePcs
  <2>. QED  BY <1>23, <2>1, <2>2 DEF PopReturns, counts, RefCounts
<1>24. ASSUME NEW c \in Consumers, pipe_consumer_free(c)
       PROVE  RefCounts'
  <2>1. ProducerHandles' = ProducerHandles
    BY <1>24, <1>0, PipeAssumption DEF pipe_consumer_free, GoTo, ProducerHandles,
       ConsumerHandles, Gone, FreePcs
  <2>2. ConsumerHandles' = ConsumerHandles \ {c} /\ c \in ConsumerHandles
    BY <1>24, <1>0, PipeAssumption DEF pipe_consumer_free, GoTo, ProducerHandles,
       ConsumerHandles, Gone, FreePcs
  <2>. QED  BY <1>24, <2>1, <2>2, HandlesFinite, FS_RemoveElement DEF pipe_consumer_free, RefCounts
<1>25. ASSUME NEW c \in Consumers, ConsumerFreeChecks(c)
       PROVE  RefCounts'
  <2>1. ProducerHandles' = ProducerHandles
    BY <1>25, <1>0, PipeAssumption DEF ConsumerFreeChecks, GoTo, ProducerHandles,
       ConsumerHandles, Gone, FreePcs
  <2>2. ConsumerHandles' = ConsumerHandles
    BY <1>25, <1>0, PipeAssumption DEF ConsumerFreeChecks, GoTo, ProducerHandles,
       ConsumerHandles, Gone, FreePcs
  <2>. QED  BY <1>25, <2>1, <2>2 DEF ConsumerFreeChecks, counts, RefCounts
<1>26. ASSUME NEW p \in Producers, pipe_producer_new(p)
       PROVE  RefCounts'
  <2>1. ProducerHandles' = ProducerHandles \cup {p} /\ p \notin ProducerHandles
    BY <1>26, <1>0, PipeAssumption DEF pipe_producer_new, GoTo, ProducerHandles,
       ConsumerHandles, Gone, FreePcs
  <2>2. ConsumerHandles' = ConsumerHandles
    BY <1>26, <1>0, PipeAssumption DEF pipe_producer_new, GoTo, ProducerHandles,
       ConsumerHandles, Gone, FreePcs
  <2>. QED  BY <1>26, <2>1, <2>2, HandlesFinite, FS_AddElement DEF pipe_producer_new, RefCounts
<1>27. ASSUME NEW c \in Consumers, pipe_consumer_new(c)
       PROVE  RefCounts'
  <2>1. ProducerHandles' = ProducerHandles
    BY <1>27, <1>0, PipeAssumption DEF pipe_consumer_new, GoTo, ProducerHandles,
       ConsumerHandles, Gone, FreePcs
  <2>2. ConsumerHandles' = ConsumerHandles \cup {c} /\ c \notin ConsumerHandles
    BY <1>27, <1>0, PipeAssumption DEF pipe_consumer_new, GoTo, ProducerHandles,
       ConsumerHandles, Gone, FreePcs
  <2>. QED  BY <1>27, <2>1, <2>2, HandlesFinite, FS_AddElement DEF pipe_consumer_new, RefCounts
<1>28. ASSUME NEW count \in ReserveCounts, pipe_reserve(Main, count)
       PROVE  RefCounts'
  <2>1. ProducerHandles' = ProducerHandles
    BY <1>28, <1>0, PipeAssumption DEF pipe_reserve, GoTo, ProducerHandles,
       ConsumerHandles, Gone, FreePcs
  <2>2. ConsumerHandles' = ConsumerHandles
    BY <1>28, <1>0, PipeAssumption DEF pipe_reserve, GoTo, ProducerHandles,
       ConsumerHandles, Gone, FreePcs
  <2>. QED  BY <1>28, <2>1, <2>2 DEF pipe_reserve, counts, RefCounts
<1>29. ASSUME ReserveLocksEnd(Main)
       PROVE  RefCounts'
  <2>1. ProducerHandles' = ProducerHandles
    BY <1>29, <1>0, PipeAssumption DEF ReserveLocksEnd, GoTo, ProducerHandles,
       ConsumerHandles, Gone, FreePcs
  <2>2. ConsumerHandles' = ConsumerHandles
    BY <1>29, <1>0, PipeAssumption DEF ReserveLocksEnd, GoTo, ProducerHandles,
       ConsumerHandles, Gone, FreePcs
  <2>. QED  BY <1>29, <2>1, <2>2 DEF ReserveLocksEnd, counts, RefCounts
<1>30. ASSUME ReserveSets(Main)
       PROVE  RefCounts'
  <2>1. ProducerHandles' = ProducerHandles
    BY <1>30, <1>0, PipeAssumption DEF ReserveSets, GoTo, ProducerHandles,
       ConsumerHandles, Gone, FreePcs
  <2>2. ConsumerHandles' = ConsumerHandles
    BY <1>30, <1>0, PipeAssumption DEF ReserveSets, GoTo, ProducerHandles,
       ConsumerHandles, Gone, FreePcs
  <2>. QED  BY <1>30, <2>1, <2>2 DEF ReserveSets, counts, RefCounts
<1>31. ASSUME pipe_free
       PROVE  RefCounts'
  <2>1. ProducerHandles' = ProducerHandles \ {Main} /\ Main \in ProducerHandles
    BY <1>31, <1>0, PipeAssumption DEF pipe_free, GoTo, ProducerHandles,
       ConsumerHandles, Gone, FreePcs
  <2>2. ConsumerHandles' = ConsumerHandles
    BY <1>31, <1>0, PipeAssumption DEF pipe_free, GoTo, ProducerHandles,
       ConsumerHandles, Gone, FreePcs
  <2>. QED  BY <1>31, <2>1, <2>2, HandlesFinite, FS_RemoveElement DEF pipe_free, RefCounts
<1>32. ASSUME PipeFreeDecides
       PROVE  RefCounts'
  <2>1. ProducerHandles' = ProducerHandles
    BY <1>32, <1>0, PipeAssumption DEF PipeFreeDecides, GoTo, ProducerHandles,
       ConsumerHandles, Gone, FreePcs
  <2>2. ConsumerHandles' = ConsumerHandles \ {Main} /\ Main \in ConsumerHandles
    BY <1>32, <1>0, PipeAssumption DEF PipeFreeDecides, GoTo, ProducerHandles,
       ConsumerHandles, Gone, FreePcs
  <2>. QED  BY <1>32, <2>1, <2>2, HandlesFinite, FS_RemoveElement DEF PipeFreeDecides, RefCounts
<1>33. ASSUME NEW t \in Threads, WakeConsumers(t)
       PROVE  RefCounts'
  <2>1. ProducerHandles' = ProducerHandles
    BY <1>33, <1>0, PipeAssumption DEF WakeConsumers, GoToWaking, AwaitingElements,
       AwaitingRoom, ProducerHandles, ConsumerHandles, Gone, FreePcs
  <2>2. ConsumerHandles' = ConsumerHandles
    BY <1>33, <1>0, PipeAssumption DEF WakeConsumers, GoToWaking, AwaitingElements,
       AwaitingRoom, ProducerHandles, ConsumerHandles, Gone, FreePcs
  <2>. QED  BY <1>33, <2>1, <2>2 DEF WakeConsumers, counts, RefCounts
<1>34. ASSUME NEW t \in Threads, WakeProducers(t)
       PROVE  RefCounts'
  <2>1. ProducerHandles' = ProducerHandles
    BY <1>34, <1>0, PipeAssumption DEF WakeProducers, GoToWaking, AwaitingElements,
       AwaitingRoom, ProducerHandles, ConsumerHandles, Gone, FreePcs
  <2>2. ConsumerHandles' = ConsumerHandles
    BY <1>34, <1>0, PipeAssumption DEF WakeProducers, GoToWaking, AwaitingElements,
       AwaitingRoom, ProducerHandles, ConsumerHandles, Gone, FreePcs
  <2>. QED  BY <1>34, <2>1, <2>2 DEF WakeProducers, counts, RefCounts
<1>35. ASSUME NEW t \in Threads, deallocate(t)
       PROVE  RefCounts'
  <2>1. ProducerHandles' = ProducerHandles
    BY <1>35, <1>0, PipeAssumption DEF deallocate, GoTo, ProducerHandles,
       ConsumerHandles, Gone, FreePcs
  <2>2. ConsumerHandles' = ConsumerHandles
    BY <1>35, <1>0, PipeAssumption DEF deallocate, GoTo, ProducerHandles,
       ConsumerHandles, Gone, FreePcs
  <2>. QED  BY <1>35, <2>1, <2>2 DEF deallocate, counts, RefCounts
<1>36. ASSUME NEW t \in Threads, SpuriousWakeup(t)
       PROVE  RefCounts'
  <2>1. ProducerHandles' = ProducerHandles
    BY <1>36, <1>0, PipeAssumption DEF SpuriousWakeup, GoTo, ProducerHandles,
       ConsumerHandles, Gone, FreePcs
  <2>2. ConsumerHandles' = ConsumerHandles
    BY <1>36, <1>0, PipeAssumption DEF SpuriousWakeup, GoTo, ProducerHandles,
       ConsumerHandles, Gone, FreePcs
  <2>. QED  BY <1>36, <2>1, <2>2 DEF SpuriousWakeup, counts, RefCounts
<1>. QED
  BY <1>1, <1>2, <1>3, <1>4, <1>5, <1>6, <1>7, <1>8, <1>9, <1>10, <1>11, <1>12, <1>13,
     <1>14, <1>15, <1>16, <1>17, <1>18, <1>19, <1>20, <1>21, <1>22, <1>23, <1>24, <1>25,
     <1>26, <1>27, <1>28, <1>29, <1>30, <1>31, <1>32, <1>33, <1>34, <1>35, <1>36
  DEF Next, Producer, Consumer, Owner, Pushing, Popping, Freeing

(* Nobody sleeps who has no handle.                                        *)
LEMMA SleepersHaveHandles ==
  TypeOK /\ Roles /\ RefCounts =>
    /\ producer_refcount >= 0 /\ consumer_refcount >= 0
    /\ consumer_refcount = 0 => AwaitingElements = {}
    /\ producer_refcount = 0 => AwaitingRoom = {}
<1>. SUFFICES ASSUME TypeOK, Roles, RefCounts
               PROVE  /\ producer_refcount >= 0 /\ consumer_refcount >= 0
                      /\ consumer_refcount = 0 => AwaitingElements = {}
                      /\ producer_refcount = 0 => AwaitingRoom = {}
  OBVIOUS
<1>1. producer_refcount >= 0 /\ consumer_refcount >= 0
  BY HandlesCounted DEF RefCounts
<1>2. AwaitingElements \subseteq ConsumerHandles
  BY DEF AwaitingElements, ConsumerHandles, Gone, FreePcs, Roles, PushPcs, ReservePcs,
     Threads
<1>3. AwaitingRoom \subseteq ProducerHandles
  BY DEF AwaitingRoom, ProducerHandles, Gone, FreePcs, Roles, PopPcs, ReservePcs,
     Threads
<1>4. consumer_refcount = 0 => ConsumerHandles = {}
  BY HandlesFinite, FS_EmptySet DEF RefCounts
<1>5. producer_refcount = 0 => ProducerHandles = {}
  BY HandlesFinite, FS_EmptySet DEF RefCounts
<1>. QED  BY <1>1, <1>2, <1>3, <1>4, <1>5

(***************************************************************************)
(* A thread goes to sleep only while it holds the lock under which it saw  *)
(* that somebody is left to wake it, and no decrement gets past that lock. *)
(* Between the two decrements of pipe_free the producers can only dwindle. *)
(***************************************************************************)
SleepJustified ==
  /\ \A t \in Threads : pc[t] = "pop_wait" => producer_refcount > 0
  /\ \A t \in Threads : pc[t] = "push_wait" => consumer_refcount > 0
  /\ pc[Main] = "pipe_free" => producer_refcount <= new_producer_refcount

(* Every step keeps sleeping justified.                                    *)
LEMMA SleepStep ==
  ASSUME TypeOK, LockOwnership, SleepJustified,
         [Next]_vars
  PROVE  SleepJustified'
<1>0. /\ pc \in [Threads -> Pcs] /\ Main \in Threads /\ NoThread \notin Threads
      /\ Producers \subseteq Threads /\ Consumers \subseteq Threads
      /\ producer_refcount \in Int /\ consumer_refcount \in Int /\ new_producer_refcount \in Int
  BY PipeAssumption DEF TypeOK, Threads
<1>1. ASSUME UNCHANGED vars
       PROVE  SleepJustified'
  BY <1>1 DEF vars, counts, SleepJustified
<1>2. ASSUME NEW p \in Producers, NEW count \in PushCounts, pipe_push(p, count)
       PROVE  SleepJustified'
  BY <1>2, <1>0, PipeAssumption DEF pipe_push, GoTo, counts, SleepJustified,
     LockOwnership, HoldsEnd, HoldsBegin
<1>3. ASSUME NEW p \in Producers, PushFull(p)
       PROVE  SleepJustified'
  BY <1>3, <1>0, PipeAssumption DEF PushFull, GoTo, counts, SleepJustified,
     LockOwnership, HoldsEnd, HoldsBegin
<1>4. ASSUME NEW p \in Producers, PushToNobody(p)
       PROVE  SleepJustified'
  BY <1>4, <1>0, PipeAssumption DEF PushToNobody, GoTo, counts, SleepJustified,
     LockOwnership, HoldsEnd, HoldsBegin
<1>5. ASSUME NEW p \in Producers, PushBegins(p)
       PROVE  SleepJustified'
  BY <1>5, <1>0, PipeAssumption DEF PushBegins, GoTo, counts, SleepJustified,
     LockOwnership, HoldsEnd, HoldsBegin
<1>6. ASSUME NEW p \in Producers, PushSleeps(p)
       PROVE  SleepJustified'
  BY <1>6, <1>0, PipeAssumption DEF PushSleeps, GoTo, counts, SleepJustified,
     LockOwnership, HoldsEnd, HoldsBegin
<1>7. ASSUME NEW p \in Producers, PushGrows(p)
       PROVE  SleepJustified'
  BY <1>7, <1>0, PipeAssumption DEF PushGrows, GoTo, counts, SleepJustified,
     LockOwnership, HoldsEnd, HoldsBegin
<1>8. ASSUME NEW p \in Producers, PushCopies(p)
       PROVE  SleepJustified'
  BY <1>8, <1>0, PipeAssumption DEF PushCopies, GoTo, counts, SleepJustified,
     LockOwnership, HoldsEnd, HoldsBegin
<1>9. ASSUME NEW p \in Producers, PushSignals(p)
       PROVE  SleepJustified'
  BY <1>9, <1>0, PipeAssumption, PushWokenAsleep DEF PushSignals, GoToWaking,
     AwaitingElements, AwaitingRoom, counts, SleepJustified, LockOwnership, HoldsEnd,
     HoldsBegin
<1>10. ASSUME NEW p \in Producers, PushReturns(p)
       PROVE  SleepJustified'
  BY <1>10, <1>0, PipeAssumption, PushWokenAsleep DEF PushReturns, GoToWaking,
     AwaitingElements, AwaitingRoom, counts, SleepJustified, LockOwnership, HoldsEnd,
     HoldsBegin
<1>11. ASSUME NEW p \in Producers, pipe_producer_free(p)
       PROVE  SleepJustified'
  BY <1>11, <1>0, PipeAssumption DEF pipe_producer_free, GoTo, counts, SleepJustified,
     LockOwnership, HoldsEnd, HoldsBegin
<1>12. ASSUME NEW p \in Producers, ProducerFreeChecks(p)
       PROVE  SleepJustified'
  BY <1>12, <1>0, PipeAssumption DEF ProducerFreeChecks, GoTo, counts, SleepJustified,
     LockOwnership, HoldsEnd, HoldsBegin
<1>13. ASSUME NEW c \in Consumers, NEW count \in PopCounts, pipe_pop(c, count)
       PROVE  SleepJustified'
  BY <1>13, <1>0, PipeAssumption DEF pipe_pop, GoTo, counts, SleepJustified,
     LockOwnership, HoldsEnd, HoldsBegin
<1>14. ASSUME NEW c \in Consumers, NEW count \in PopCounts, pipe_pop_eager(c, count)
       PROVE  SleepJustified'
  BY <1>14, <1>0, PipeAssumption DEF pipe_pop_eager, GoTo, counts, SleepJustified,
     LockOwnership, HoldsEnd, HoldsBegin
<1>15. ASSUME NEW c \in Consumers, PopEmpty(c)
       PROVE  SleepJustified'
  BY <1>15, <1>0, PipeAssumption DEF PopEmpty, GoTo, counts, SleepJustified,
     LockOwnership, HoldsEnd, HoldsBegin
<1>16. ASSUME NEW c \in Consumers, PopEnds(c)
       PROVE  SleepJustified'
  BY <1>16, <1>0, PipeAssumption DEF PopEnds, GoTo, counts, SleepJustified,
     LockOwnership, HoldsEnd, HoldsBegin
<1>17. ASSUME NEW c \in Consumers, PopBegins(c)
       PROVE  SleepJustified'
  BY <1>17, <1>0, PipeAssumption DEF PopBegins, GoTo, counts, SleepJustified,
     LockOwnership, HoldsEnd, HoldsBegin
<1>18. ASSUME NEW c \in Consumers, PopSleeps(c)
       PROVE  SleepJustified'
  BY <1>18, <1>0, PipeAssumption DEF PopSleeps, GoTo, counts, SleepJustified,
     LockOwnership, HoldsEnd, HoldsBegin
<1>19. ASSUME NEW c \in Consumers, PopCopies(c)
       PROVE  SleepJustified'
  BY <1>19, <1>0, PipeAssumption DEF PopCopies, GoTo, counts, SleepJustified,
     LockOwnership, HoldsEnd, HoldsBegin
<1>20. ASSUME NEW c \in Consumers, TrimLocksEnd(c)
       PROVE  SleepJustified'
  BY <1>20, <1>0, PipeAssumption DEF TrimLocksEnd, GoTo, counts, SleepJustified,
     LockOwnership, HoldsEnd, HoldsBegin
<1>21. ASSUME NEW c \in Consumers, TrimShrinks(c)
       PROVE  SleepJustified'
  BY <1>21, <1>0, PipeAssumption DEF TrimShrinks, GoTo, counts, SleepJustified,
     LockOwnership, HoldsEnd, HoldsBegin
<1>22. ASSUME NEW c \in Consumers, PopSignals(c)
       PROVE  SleepJustified'
  BY <1>22, <1>0, PipeAssumption, PopWokenAsleep DEF PopSignals, GoToWaking,
     AwaitingElements, AwaitingRoom, counts, SleepJustified, LockOwnership, HoldsEnd,
     HoldsBegin
<1>23. ASSUME NEW c \in Consumers, PopReturns(c)
       PROVE  SleepJustified'
  BY <1>23, <1>0, PipeAssumption, PopWokenAsleep DEF PopReturns, GoToWaking,
     AwaitingElements, AwaitingRoom, counts, SleepJustified, LockOwnership, HoldsEnd,
     HoldsBegin
<1>24. ASSUME NEW c \in Consumers, pipe_consumer_free(c)
       PROVE  SleepJustified'
  BY <1>24, <1>0, PipeAssumption DEF pipe_consumer_free, GoTo, counts, SleepJustified,
     LockOwnership, HoldsEnd, HoldsBegin
<1>25. ASSUME NEW c \in Consumers, ConsumerFreeChecks(c)
       PROVE  SleepJustified'
  BY <1>25, <1>0, PipeAssumption DEF ConsumerFreeChecks, GoTo, counts, SleepJustified,
     LockOwnership, HoldsEnd, HoldsBegin
<1>26. ASSUME NEW p \in Producers, pipe_producer_new(p)
       PROVE  SleepJustified'
  BY <1>26, <1>0, PipeAssumption DEF pipe_producer_new, GoTo, counts, SleepJustified,
     LockOwnership, HoldsEnd, HoldsBegin
<1>27. ASSUME NEW c \in Consumers, pipe_consumer_new(c)
       PROVE  SleepJustified'
  BY <1>27, <1>0, PipeAssumption DEF pipe_consumer_new, GoTo, counts, SleepJustified,
     LockOwnership, HoldsEnd, HoldsBegin
<1>28. ASSUME NEW count \in ReserveCounts, pipe_reserve(Main, count)
       PROVE  SleepJustified'
  BY <1>28, <1>0, PipeAssumption DEF pipe_reserve, GoTo, counts, SleepJustified,
     LockOwnership, HoldsEnd, HoldsBegin
<1>29. ASSUME ReserveLocksEnd(Main)
       PROVE  SleepJustified'
  BY <1>29, <1>0, PipeAssumption DEF ReserveLocksEnd, GoTo, counts, SleepJustified,
     LockOwnership, HoldsEnd, HoldsBegin
<1>30. ASSUME ReserveSets(Main)
       PROVE  SleepJustified'
  BY <1>30, <1>0, PipeAssumption DEF ReserveSets, GoTo, counts, SleepJustified,
     LockOwnership, HoldsEnd, HoldsBegin
<1>31. ASSUME pipe_free
       PROVE  SleepJustified'
  BY <1>31, <1>0, PipeAssumption DEF pipe_free, GoTo, counts, SleepJustified,
     LockOwnership, HoldsEnd, HoldsBegin
<1>32. ASSUME PipeFreeDecides
       PROVE  SleepJustified'
  BY <1>32, <1>0, PipeAssumption DEF PipeFreeDecides, GoTo, counts, SleepJustified,
     LockOwnership, HoldsEnd, HoldsBegin
<1>33. ASSUME NEW t \in Threads, WakeConsumers(t)
       PROVE  SleepJustified'
  BY <1>33, <1>0, PipeAssumption DEF WakeConsumers, GoToWaking, AwaitingElements,
     AwaitingRoom, counts, SleepJustified, LockOwnership, HoldsEnd, HoldsBegin
<1>34. ASSUME NEW t \in Threads, WakeProducers(t)
       PROVE  SleepJustified'
  BY <1>34, <1>0, PipeAssumption DEF WakeProducers, GoToWaking, AwaitingElements,
     AwaitingRoom, counts, SleepJustified, LockOwnership, HoldsEnd, HoldsBegin
<1>35. ASSUME NEW t \in Threads, deallocate(t)
       PROVE  SleepJustified'
  BY <1>35, <1>0, PipeAssumption DEF deallocate, GoTo, counts, SleepJustified,
     LockOwnership, HoldsEnd, HoldsBegin
<1>36. ASSUME NEW t \in Threads, SpuriousWakeup(t)
       PROVE  SleepJustified'
  BY <1>36, <1>0, PipeAssumption DEF SpuriousWakeup, GoTo, counts, SleepJustified,
     LockOwnership, HoldsEnd, HoldsBegin
<1>. QED
  BY <1>1, <1>2, <1>3, <1>4, <1>5, <1>6, <1>7, <1>8, <1>9, <1>10, <1>11, <1>12, <1>13,
     <1>14, <1>15, <1>16, <1>17, <1>18, <1>19, <1>20, <1>21, <1>22, <1>23, <1>24, <1>25,
     <1>26, <1>27, <1>28, <1>29, <1>30, <1>31, <1>32, <1>33, <1>34, <1>35, <1>36
  DEF Next, Producer, Consumer, Owner, Pushing, Popping, Freeing

(* Every step keeps consumers from sleeping in a pipe without producers.   *)
LEMMA CloseConsumersStep ==
  ASSUME TypeOK, LockOwnership, Roles, RefCounts, SleepJustified, CloseWakesConsumers,
         [Next]_vars
  PROVE  CloseWakesConsumers'
<1>0. /\ pc \in [Threads -> Pcs] /\ Main \in Threads /\ NoThread \notin Threads
      /\ Producers \subseteq Threads /\ Consumers \subseteq Threads
      /\ producer_refcount \in Int /\ consumer_refcount \in Int /\ new_producer_refcount \in Int
  BY PipeAssumption DEF TypeOK, Threads
<1>1. ASSUME UNCHANGED vars
       PROVE  CloseWakesConsumers'
  BY <1>1 DEF vars, counts, CloseWakesConsumers, WillWakeConsumers, AwaitingElements
<1>2. ASSUME NEW p \in Producers, NEW count \in PushCounts, pipe_push(p, count)
       PROVE  CloseWakesConsumers'
  BY <1>2, <1>0, PipeAssumption DEF pipe_push, GoTo, counts, CloseWakesConsumers,
     WillWakeConsumers, AwaitingElements
<1>3. ASSUME NEW p \in Producers, PushFull(p)
       PROVE  CloseWakesConsumers'
  BY <1>3, <1>0, PipeAssumption DEF PushFull, GoTo, counts, CloseWakesConsumers,
     WillWakeConsumers, AwaitingElements
<1>4. ASSUME NEW p \in Producers, PushToNobody(p)
       PROVE  CloseWakesConsumers'
  BY <1>4, <1>0, PipeAssumption DEF PushToNobody, GoTo, counts, CloseWakesConsumers,
     WillWakeConsumers, AwaitingElements
<1>5. ASSUME NEW p \in Producers, PushBegins(p)
       PROVE  CloseWakesConsumers'
  BY <1>5, <1>0, PipeAssumption DEF PushBegins, GoTo, counts, CloseWakesConsumers,
     WillWakeConsumers, AwaitingElements
<1>6. ASSUME NEW p \in Producers, PushSleeps(p)
       PROVE  CloseWakesConsumers'
  BY <1>6, <1>0, PipeAssumption DEF PushSleeps, GoTo, counts, CloseWakesConsumers,
     WillWakeConsumers, AwaitingElements
<1>7. ASSUME NEW p \in Producers, PushGrows(p)
       PROVE  CloseWakesConsumers'
  BY <1>7, <1>0, PipeAssumption DEF PushGrows, GoTo, counts, CloseWakesConsumers,
     WillWakeConsumers, AwaitingElements
<1>8. ASSUME NEW p \in Producers, PushCopies(p)
       PROVE  CloseWakesConsumers'
  BY <1>8, <1>0, PipeAssumption DEF PushCopies, GoTo, counts, CloseWakesConsumers,
     WillWakeConsumers, AwaitingElements
<1>9. ASSUME NEW p \in Producers, PushSignals(p)
       PROVE  CloseWakesConsumers'
  BY <1>9, <1>0, PipeAssumption, PushWokenAsleep DEF PushSignals, GoToWaking,
     AwaitingRoom, counts, CloseWakesConsumers, WillWakeConsumers, AwaitingElements
<1>10. ASSUME NEW p \in Producers, PushReturns(p)
       PROVE  CloseWakesConsumers'
  BY <1>10, <1>0, PipeAssumption, PushWokenAsleep DEF PushReturns, GoToWaking,
     AwaitingRoom, counts, CloseWakesConsumers, WillWakeConsumers, AwaitingElements
<1>11. ASSUME NEW p \in Producers, pipe_producer_free(p)
       PROVE  CloseWakesConsumers'
  BY <1>11, <1>0, PipeAssumption DEF pipe_producer_free, GoTo, counts,
     CloseWakesConsumers, WillWakeConsumers, AwaitingElements
<1>12. ASSUME NEW p \in Producers, ProducerFreeChecks(p)
       PROVE  CloseWakesConsumers'
  BY <1>12, <1>0, PipeAssumption, SleepersHaveHandles DEF ProducerFreeChecks, GoTo,
     counts, CloseWakesConsumers, WillWakeConsumers, AwaitingElements
<1>13. ASSUME NEW c \in Consumers, NEW count \in PopCounts, pipe_pop(c, count)
       PROVE  CloseWakesConsumers'
  BY <1>13, <1>0, PipeAssumption DEF pipe_pop, GoTo, counts, CloseWakesConsumers,
     WillWakeConsumers, AwaitingElements
<1>14. ASSUME NEW c \in Consumers, NEW count \in PopCounts, pipe_pop_eager(c, count)
       PROVE  CloseWakesConsumers'
  BY <1>14, <1>0, PipeAssumption DEF pipe_pop_eager, GoTo, counts,
     CloseWakesConsumers, WillWakeConsumers, AwaitingElements
<1>15. ASSUME NEW c \in Consumers, PopEmpty(c)
       PROVE  CloseWakesConsumers'
  BY <1>15, <1>0, PipeAssumption DEF PopEmpty, GoTo, counts, CloseWakesConsumers,
     WillWakeConsumers, AwaitingElements
<1>16. ASSUME NEW c \in Consumers, PopEnds(c)
       PROVE  CloseWakesConsumers'
  BY <1>16, <1>0, PipeAssumption DEF PopEnds, GoTo, counts, CloseWakesConsumers,
     WillWakeConsumers, AwaitingElements
<1>17. ASSUME NEW c \in Consumers, PopBegins(c)
       PROVE  CloseWakesConsumers'
  BY <1>17, <1>0, PipeAssumption DEF PopBegins, GoTo, counts, CloseWakesConsumers,
     WillWakeConsumers, AwaitingElements
<1>18. ASSUME NEW c \in Consumers, PopSleeps(c)
       PROVE  CloseWakesConsumers'
  BY <1>18, <1>0, PipeAssumption DEF PopSleeps, GoTo, SleepJustified, counts,
     CloseWakesConsumers, WillWakeConsumers, AwaitingElements
<1>19. ASSUME NEW c \in Consumers, PopCopies(c)
       PROVE  CloseWakesConsumers'
  BY <1>19, <1>0, PipeAssumption DEF PopCopies, GoTo, counts, CloseWakesConsumers,
     WillWakeConsumers, AwaitingElements
<1>20. ASSUME NEW c \in Consumers, TrimLocksEnd(c)
       PROVE  CloseWakesConsumers'
  BY <1>20, <1>0, PipeAssumption DEF TrimLocksEnd, GoTo, counts, CloseWakesConsumers,
     WillWakeConsumers, AwaitingElements
<1>21. ASSUME NEW c \in Consumers, TrimShrinks(c)
       PROVE  CloseWakesConsumers'
  BY <1>21, <1>0, PipeAssumption DEF TrimShrinks, GoTo, counts, CloseWakesConsumers,
     WillWakeConsumers, AwaitingElements
<1>22. ASSUME NEW c \in Consumers, PopSignals(c)
       PROVE  CloseWakesConsumers'
  BY <1>22, <1>0, PipeAssumption, PopWokenAsleep DEF PopSignals, GoToWaking,
     AwaitingRoom, counts, CloseWakesConsumers, WillWakeConsumers, AwaitingElements
<1>23. ASSUME NEW c \in Consumers, PopReturns(c)
       PROVE  CloseWakesConsumers'
  BY <1>23, <1>0, PipeAssumption, PopWokenAsleep DEF PopReturns, GoToWaking,
     AwaitingRoom, counts, CloseWakesConsumers, WillWakeConsumers, AwaitingElements
<1>24. ASSUME NEW c \in Consumers, pipe_consumer_free(c)
       PROVE  CloseWakesConsumers'
  BY <1>24, <1>0, PipeAssumption DEF pipe_consumer_free, GoTo, counts,
     CloseWakesConsumers, WillWakeConsumers, AwaitingElements
<1>25. ASSUME NEW c \in Consumers, ConsumerFreeChecks(c)
       PROVE  CloseWakesConsumers'
  BY <1>25, <1>0, PipeAssumption DEF ConsumerFreeChecks, GoTo, counts,
     CloseWakesConsumers, WillWakeConsumers, AwaitingElements
<1>26. ASSUME NEW p \in Producers, pipe_producer_new(p)
       PROVE  CloseWakesConsumers'
  BY <1>26, <1>0, PipeAssumption, SleepersHaveHandles DEF pipe_producer_new, GoTo,
     counts, CloseWakesConsumers, WillWakeConsumers, AwaitingElements
<1>27. ASSUME NEW c \in Consumers, pipe_consumer_new(c)
       PROVE  CloseWakesConsumers'
  BY <1>27, <1>0, PipeAssumption DEF pipe_consumer_new, GoTo, counts,
     CloseWakesConsumers, WillWakeConsumers, AwaitingElements
<1>28. ASSUME NEW count \in ReserveCounts, pipe_reserve(Main, count)
       PROVE  CloseWakesConsumers'
  BY <1>28, <1>0, PipeAssumption DEF pipe_reserve, GoTo, counts, CloseWakesConsumers,
     WillWakeConsumers, AwaitingElements
<1>29. ASSUME ReserveLocksEnd(Main)
       PROVE  CloseWakesConsumers'
  BY <1>29, <1>0, PipeAssumption DEF ReserveLocksEnd, GoTo, counts,
     CloseWakesConsumers, WillWakeConsumers, AwaitingElements
<1>30. ASSUME ReserveSets(Main)
       PROVE  CloseWakesConsumers'
  BY <1>30, <1>0, PipeAssumption DEF ReserveSets, GoTo, counts, CloseWakesConsumers,
     WillWakeConsumers, AwaitingElements
<1>31. ASSUME pipe_free
       PROVE  CloseWakesConsumers'
  BY <1>31, <1>0, PipeAssumption DEF pipe_free, GoTo, counts, CloseWakesConsumers,
     WillWakeConsumers, AwaitingElements
<1>32. ASSUME PipeFreeDecides
       PROVE  CloseWakesConsumers'
  <2>1. CASE consumer_refcount' = 0
    <3>1. TypeOK' /\ Roles' /\ RefCounts'
      BY RefCountsStep, RolesStep, TypeStep
    <3>2. (TypeOK /\ Roles /\ RefCounts =>
             (consumer_refcount = 0 => AwaitingElements = {}))'
      BY SleepersHaveHandles, PTL
    <3>. QED  BY <2>1, <3>1, <3>2 DEF CloseWakesConsumers
  <2>2. CASE consumer_refcount' # 0
    BY <1>32, <1>0, <2>2 DEF PipeFreeDecides, GoTo, CloseWakesConsumers,
       WillWakeConsumers, AwaitingElements
  <2>. QED  BY <2>1, <2>2
<1>33. ASSUME NEW t \in Threads, WakeConsumers(t)
       PROVE  CloseWakesConsumers'
  BY <1>33, <1>0, PipeAssumption DEF WakeConsumers, GoToWaking, AwaitingRoom, counts,
     CloseWakesConsumers, WillWakeConsumers, AwaitingElements
<1>34. ASSUME NEW t \in Threads, WakeProducers(t)
       PROVE  CloseWakesConsumers'
  BY <1>34, <1>0, PipeAssumption DEF WakeProducers, GoToWaking, AwaitingRoom, counts,
     CloseWakesConsumers, WillWakeConsumers, AwaitingElements
<1>35. ASSUME NEW t \in Threads, deallocate(t)
       PROVE  CloseWakesConsumers'
  BY <1>35, <1>0, PipeAssumption DEF deallocate, GoTo, counts, CloseWakesConsumers,
     WillWakeConsumers, AwaitingElements
<1>36. ASSUME NEW t \in Threads, SpuriousWakeup(t)
       PROVE  CloseWakesConsumers'
  BY <1>36, <1>0, PipeAssumption DEF SpuriousWakeup, GoTo, counts,
     CloseWakesConsumers, WillWakeConsumers, AwaitingElements
<1>. QED
  BY <1>1, <1>2, <1>3, <1>4, <1>5, <1>6, <1>7, <1>8, <1>9, <1>10, <1>11, <1>12, <1>13,
     <1>14, <1>15, <1>16, <1>17, <1>18, <1>19, <1>20, <1>21, <1>22, <1>23, <1>24, <1>25,
     <1>26, <1>27, <1>28, <1>29, <1>30, <1>31, <1>32, <1>33, <1>34, <1>35, <1>36
  DEF Next, Producer, Consumer, Owner, Pushing, Popping, Freeing

(* Every step keeps producers from sleeping in a pipe without consumers.   *)
LEMMA CloseProducersStep ==
  ASSUME TypeOK, LockOwnership, Roles, RefCounts, SleepJustified, CloseWakesProducers,
         [Next]_vars
  PROVE  CloseWakesProducers'
<1>0. /\ pc \in [Threads -> Pcs] /\ Main \in Threads /\ NoThread \notin Threads
      /\ Producers \subseteq Threads /\ Consumers \subseteq Threads
      /\ producer_refcount \in Int /\ consumer_refcount \in Int /\ new_producer_refcount \in Int
  BY PipeAssumption DEF TypeOK, Threads
<1>1. ASSUME UNCHANGED vars
       PROVE  CloseWakesProducers'
  BY <1>1 DEF vars, counts, CloseWakesProducers, AwaitingRoom
<1>2. ASSUME NEW p \in Producers, NEW count \in PushCounts, pipe_push(p, count)
       PROVE  CloseWakesProducers'
  BY <1>2, <1>0, PipeAssumption DEF pipe_push, GoTo, counts, CloseWakesProducers,
     AwaitingRoom
<1>3. ASSUME NEW p \in Producers, PushFull(p)
       PROVE  CloseWakesProducers'
  BY <1>3, <1>0, PipeAssumption DEF PushFull, GoTo, counts, CloseWakesProducers,
     AwaitingRoom
<1>4. ASSUME NEW p \in Producers, PushToNobody(p)
       PROVE  CloseWakesProducers'
  BY <1>4, <1>0, PipeAssumption DEF PushToNobody, GoTo, counts, CloseWakesProducers,
     AwaitingRoom
<1>5. ASSUME NEW p \in Producers, PushBegins(p)
       PROVE  CloseWakesProducers'
  BY <1>5, <1>0, PipeAssumption DEF PushBegins, GoTo, counts, CloseWakesProducers,
     AwaitingRoom
<1>6. ASSUME NEW p \in Producers, PushSleeps(p)
       PROVE  CloseWakesProducers'
  BY <1>6, <1>0, PipeAssumption DEF PushSleeps, GoTo, SleepJustified, counts,
     CloseWakesProducers, AwaitingRoom
<1>7. ASSUME NEW p \in Producers, PushGrows(p)
       PROVE  CloseWakesProducers'
  BY <1>7, <1>0, PipeAssumption DEF PushGrows, GoTo, counts, CloseWakesProducers,
     AwaitingRoom
<1>8. ASSUME NEW p \in Producers, PushCopies(p)
       PROVE  CloseWakesProducers'
  BY <1>8, <1>0, PipeAssumption DEF PushCopies, GoTo, counts, CloseWakesProducers,
     AwaitingRoom
<1>9. ASSUME NEW p \in Producers, PushSignals(p)
       PROVE  CloseWakesProducers'
  BY <1>9, <1>0, PipeAssumption, PushWokenAsleep DEF PushSignals, GoToWaking,
     AwaitingElements, counts, CloseWakesProducers, AwaitingRoom
<1>10. ASSUME NEW p \in Producers, PushReturns(p)
       PROVE  CloseWakesProducers'
  BY <1>10, <1>0, PipeAssumption, PushWokenAsleep DEF PushReturns, GoToWaking,
     AwaitingElements, counts, CloseWakesProducers, AwaitingRoom
<1>11. ASSUME NEW p \in Producers, pipe_producer_free(p)
       PROVE  CloseWakesProducers'
  BY <1>11, <1>0, PipeAssumption DEF pipe_producer_free, GoTo, counts,
     CloseWakesProducers, AwaitingRoom
<1>12. ASSUME NEW p \in Producers, ProducerFreeChecks(p)
       PROVE  CloseWakesProducers'
  BY <1>12, <1>0, PipeAssumption DEF ProducerFreeChecks, GoTo, counts,
     CloseWakesProducers, AwaitingRoom
<1>13. ASSUME NEW c \in Consumers, NEW count \in PopCounts, pipe_pop(c, count)
       PROVE  CloseWakesProducers'
  BY <1>13, <1>0, PipeAssumption DEF pipe_pop, GoTo, counts, CloseWakesProducers,
     AwaitingRoom
<1>14. ASSUME NEW c \in Consumers, NEW count \in PopCounts, pipe_pop_eager(c, count)
       PROVE  CloseWakesProducers'
  BY <1>14, <1>0, PipeAssumption DEF pipe_pop_eager, GoTo, counts,
     CloseWakesProducers, AwaitingRoom
<1>15. ASSUME NEW c \in Consumers, PopEmpty(c)
       PROVE  CloseWakesProducers'
  BY <1>15, <1>0, PipeAssumption DEF PopEmpty, GoTo, counts, CloseWakesProducers,
     AwaitingRoom
<1>16. ASSUME NEW c \in Consumers, PopEnds(c)
       PROVE  CloseWakesProducers'
  BY <1>16, <1>0, PipeAssumption DEF PopEnds, GoTo, counts, CloseWakesProducers,
     AwaitingRoom
<1>17. ASSUME NEW c \in Consumers, PopBegins(c)
       PROVE  CloseWakesProducers'
  BY <1>17, <1>0, PipeAssumption DEF PopBegins, GoTo, counts, CloseWakesProducers,
     AwaitingRoom
<1>18. ASSUME NEW c \in Consumers, PopSleeps(c)
       PROVE  CloseWakesProducers'
  BY <1>18, <1>0, PipeAssumption DEF PopSleeps, GoTo, counts, CloseWakesProducers,
     AwaitingRoom
<1>19. ASSUME NEW c \in Consumers, PopCopies(c)
       PROVE  CloseWakesProducers'
  BY <1>19, <1>0, PipeAssumption DEF PopCopies, GoTo, counts, CloseWakesProducers,
     AwaitingRoom
<1>20. ASSUME NEW c \in Consumers, TrimLocksEnd(c)
       PROVE  CloseWakesProducers'
  BY <1>20, <1>0, PipeAssumption DEF TrimLocksEnd, GoTo, counts, CloseWakesProducers,
     AwaitingRoom
<1>21. ASSUME NEW c \in Consumers, TrimShrinks(c)
       PROVE  CloseWakesProducers'
  BY <1>21, <1>0, PipeAssumption DEF TrimShrinks, GoTo, counts, CloseWakesProducers,
     AwaitingRoom
<1>22. ASSUME NEW c \in Consumers, PopSignals(c)
       PROVE  CloseWakesProducers'
  BY <1>22, <1>0, PipeAssumption, PopWokenAsleep DEF PopSignals, GoToWaking,
     AwaitingElements, counts, CloseWakesProducers, AwaitingRoom
<1>23. ASSUME NEW c \in Consumers, PopReturns(c)
       PROVE  CloseWakesProducers'
  BY <1>23, <1>0, PipeAssumption, PopWokenAsleep DEF PopReturns, GoToWaking,
     AwaitingElements, counts, CloseWakesProducers, AwaitingRoom
<1>24. ASSUME NEW c \in Consumers, pipe_consumer_free(c)
       PROVE  CloseWakesProducers'
  BY <1>24, <1>0, PipeAssumption DEF pipe_consumer_free, GoTo, counts,
     CloseWakesProducers, AwaitingRoom
<1>25. ASSUME NEW c \in Consumers, ConsumerFreeChecks(c)
       PROVE  CloseWakesProducers'
  BY <1>25, <1>0, PipeAssumption, SleepersHaveHandles DEF ConsumerFreeChecks, GoTo,
     counts, CloseWakesProducers, AwaitingRoom
<1>26. ASSUME NEW p \in Producers, pipe_producer_new(p)
       PROVE  CloseWakesProducers'
  BY <1>26, <1>0, PipeAssumption DEF pipe_producer_new, GoTo, counts,
     CloseWakesProducers, AwaitingRoom
<1>27. ASSUME NEW c \in Consumers, pipe_consumer_new(c)
       PROVE  CloseWakesProducers'
  BY <1>27, <1>0, PipeAssumption, SleepersHaveHandles DEF pipe_consumer_new, GoTo,
     counts, CloseWakesProducers, AwaitingRoom
<1>28. ASSUME NEW count \in ReserveCounts, pipe_reserve(Main, count)
       PROVE  CloseWakesProducers'
  BY <1>28, <1>0, PipeAssumption DEF pipe_reserve, GoTo, counts, CloseWakesProducers,
     AwaitingRoom
<1>29. ASSUME ReserveLocksEnd(Main)
       PROVE  CloseWakesProducers'
  BY <1>29, <1>0, PipeAssumption DEF ReserveLocksEnd, GoTo, counts,
     CloseWakesProducers, AwaitingRoom
<1>30. ASSUME ReserveSets(Main)
       PROVE  CloseWakesProducers'
  BY <1>30, <1>0, PipeAssumption DEF ReserveSets, GoTo, counts, CloseWakesProducers,
     AwaitingRoom
<1>31. ASSUME pipe_free
       PROVE  CloseWakesProducers'
  BY <1>31, <1>0, PipeAssumption DEF pipe_free, GoTo, counts, CloseWakesProducers,
     AwaitingRoom
<1>32. ASSUME PipeFreeDecides
       PROVE  CloseWakesProducers'
  BY <1>32, <1>0, PipeAssumption, SleepersHaveHandles DEF PipeFreeDecides, GoTo,
     SleepJustified, counts, CloseWakesProducers, AwaitingRoom
<1>33. ASSUME NEW t \in Threads, WakeConsumers(t)
       PROVE  CloseWakesProducers'
  BY <1>33, <1>0, PipeAssumption DEF WakeConsumers, GoToWaking, AwaitingElements,
     counts, CloseWakesProducers, AwaitingRoom
<1>34. ASSUME NEW t \in Threads, WakeProducers(t)
       PROVE  CloseWakesProducers'
  BY <1>34, <1>0, PipeAssumption DEF WakeProducers, GoToWaking, AwaitingElements,
     counts, CloseWakesProducers, AwaitingRoom
<1>35. ASSUME NEW t \in Threads, deallocate(t)
       PROVE  CloseWakesProducers'
  BY <1>35, <1>0, PipeAssumption DEF deallocate, GoTo, counts, CloseWakesProducers,
     AwaitingRoom
<1>36. ASSUME NEW t \in Threads, SpuriousWakeup(t)
       PROVE  CloseWakesProducers'
  BY <1>36, <1>0, PipeAssumption DEF SpuriousWakeup, GoTo, counts,
     CloseWakesProducers, AwaitingRoom
<1>. QED
  BY <1>1, <1>2, <1>3, <1>4, <1>5, <1>6, <1>7, <1>8, <1>9, <1>10, <1>11, <1>12, <1>13,
     <1>14, <1>15, <1>16, <1>17, <1>18, <1>19, <1>20, <1>21, <1>22, <1>23, <1>24, <1>25,
     <1>26, <1>27, <1>28, <1>29, <1>30, <1>31, <1>32, <1>33, <1>34, <1>35, <1>36
  DEF Next, Producer, Consumer, Owner, Pushing, Popping, Freeing

(***************************************************************************)
(* The inductive invariant: the counts decide who is left to wake, and the *)
(* locks keep a decrement from slipping between the test and the sleep.    *)
(***************************************************************************)
CloseInv ==
  TypeOK /\ LockOwnership /\ Roles /\ RefCounts /\ SleepJustified
    /\ CloseWakesConsumers /\ CloseWakesProducers

(* A new pipe, with the owner's two handles, satisfies the invariant.      *)
LEMMA CloseInit == Init => CloseInv
<1>. SUFFICES ASSUME Init PROVE CloseInv
  OBVIOUS
<1>1. TypeOK /\ LockOwnership
  BY InitTypes
<1>2. Roles
  BY PipeAssumption DEF Init, Roles, Threads
<1>3. ProducerHandles = {Main} /\ ConsumerHandles = {Main}
  BY PipeAssumption DEF Init, ProducerHandles, ConsumerHandles, Gone, FreePcs, Threads
<1>4. RefCounts
  BY <1>3, FS_Singleton DEF Init, RefCounts
<1>5. SleepJustified /\ CloseWakesConsumers /\ CloseWakesProducers
  BY PipeAssumption DEF Init, SleepJustified, CloseWakesConsumers,
     CloseWakesProducers, Threads
<1>. QED  BY <1>1, <1>2, <1>4, <1>5 DEF CloseInv

(* Every step keeps the invariant.                                         *)
LEMMA CloseStep == CloseInv /\ [Next]_vars => CloseInv'
BY TypeStep, LockStep, RolesStep, RefCountsStep, SleepStep, CloseConsumersStep,
   CloseProducersStep DEF CloseInv

(* The counts of pipe.c are the handles in use.                            *)
THEOREM HandlesAreCounted == Spec => []RefCounts
<1>1. CloseInv => RefCounts
  BY DEF CloseInv
<1>. QED  BY <1>1, CloseInit, CloseStep, PTL DEF Spec

(* Freeing the last producer handle leaves no consumer asleep for ever.    *)
THEOREM ConsumersAreWoken == Spec => []CloseWakesConsumers
<1>1. CloseInv => CloseWakesConsumers
  BY DEF CloseInv
<1>. QED  BY <1>1, CloseInit, CloseStep, PTL DEF Spec

(* Freeing the last consumer handle leaves no producer asleep for ever.    *)
THEOREM ProducersAreWoken == Spec => []CloseWakesProducers
<1>1. CloseInv => CloseWakesProducers
  BY DEF CloseInv
<1>. QED  BY <1>1, CloseInit, CloseStep, PTL DEF Spec

(***************************************************************************)
(* Once a consumer has been told that no more will come there is no        *)
(* producer to push, nothing to pop and nobody about to pop it.            *)
(***************************************************************************)
Drained ==
  eof # {} => /\ producer_refcount = 0 /\ bytes_in_use(Pipe) = 0
              /\ \A c \in Consumers : pc[c] # "pop_copy"

(* Without producer handles no thread is pushing, about to push, or able   *)
(* to issue a handle.                                                      *)
LEMMA DrainedNobodyPushes ==
  CloseInv /\ producer_refcount = 0 =>
    (\A p \in Producers : pc[p] \notin {"idle"} \cup PushPcs) /\ pc[Main] \notin {"idle"} \cup ReservePcs
<1>. SUFFICES ASSUME CloseInv, producer_refcount = 0
              PROVE  (\A p \in Producers : pc[p] \notin {"idle"} \cup PushPcs)
                       /\ pc[Main] \notin {"idle"} \cup ReservePcs
  OBVIOUS
<1>1. ProducerHandles = {}
  BY HandlesFinite, FS_EmptySet DEF CloseInv, RefCounts
<1>. QED  BY <1>1 DEF ProducerHandles, Gone, FreePcs, PushPcs, ReservePcs

(* Resizing an empty pipe leaves it empty.                                 *)
LEMMA ResizeEmpty ==
  ASSUME TypeOK, NEW new_size, NEW mincap, resize_buffer(new_size, mincap),
         bytes_in_use(Pipe) = 0
  PROVE  bytes_in_use(Pipe)' = 0
<1>1. CASE Resizes(new_size, mincap)
  <2>1. begin' = 0 /\ end' = ElemSize
    BY <1>1, BufferAssumption DEF resize_buffer
  <2>. QED  BY <2>1, BufferAssumption DEF bytes_in_use, wraps_around, Pipe
<1>2. CASE ~ Resizes(new_size, mincap)
  BY <1>2 DEF resize_buffer, bytes_in_use, wraps_around, Pipe
<1>. QED  BY <1>1, <1>2

(* Every step keeps a pipe drained that was reported drained.              *)
LEMMA DrainedStep ==
  ASSUME CloseInv, Drained,
         [Next]_vars
  PROVE  Drained'
<1>0. /\ pc \in [Threads -> Pcs] /\ Main \in Threads /\ NoThread \notin Threads
      /\ Producers \subseteq Threads /\ Consumers \subseteq Threads
      /\ producer_refcount \in Int /\ consumer_refcount \in Int /\ new_producer_refcount \in Int
  BY PipeAssumption DEF TypeOK, Threads, CloseInv
<1>1. ASSUME UNCHANGED vars
       PROVE  Drained'
  BY <1>1 DEF vars, counts, shared, client, Drained, Pipe, bytes_in_use, wraps_around
<1>2. ASSUME NEW p \in Producers, NEW count \in PushCounts, pipe_push(p, count)
       PROVE  Drained'
  BY <1>2, <1>0, PipeAssumption DEF pipe_push, GoTo, counts, shared, client, Drained,
     Pipe, bytes_in_use, wraps_around
<1>3. ASSUME NEW p \in Producers, PushFull(p)
       PROVE  Drained'
  BY <1>3, <1>0, PipeAssumption DEF PushFull, GoTo, counts, shared, client, Drained,
     Pipe, bytes_in_use, wraps_around
<1>4. ASSUME NEW p \in Producers, PushToNobody(p)
       PROVE  Drained'
  BY <1>4, <1>0, PipeAssumption DEF PushToNobody, GoTo, counts, shared, client,
     Drained, Pipe, bytes_in_use, wraps_around
<1>5. ASSUME NEW p \in Producers, PushBegins(p)
       PROVE  Drained'
  BY <1>5, <1>0, PipeAssumption DEF PushBegins, GoTo, counts, shared, client, Drained,
     Pipe, bytes_in_use, wraps_around
<1>6. ASSUME NEW p \in Producers, PushSleeps(p)
       PROVE  Drained'
  BY <1>6, <1>0, PipeAssumption DEF PushSleeps, GoTo, counts, shared, client, Drained,
     Pipe, bytes_in_use, wraps_around
<1>7. ASSUME NEW p \in Producers, PushGrows(p)
       PROVE  Drained'
  BY <1>7, <1>0, DrainedNobodyPushes, PipeAssumption DEF PushGrows, GoTo, counts,
     locals, client, Drained, PushPcs, ReservePcs
<1>8. ASSUME NEW p \in Producers, PushCopies(p)
       PROVE  Drained'
  BY <1>8, <1>0, DrainedNobodyPushes, PipeAssumption DEF PushCopies, GoTo, counts,
     locals, client, Drained, PushPcs, ReservePcs
<1>9. ASSUME NEW p \in Producers, PushSignals(p)
       PROVE  Drained'
  BY <1>9, <1>0, PipeAssumption, PushWokenAsleep DEF PushSignals, GoToWaking,
     AwaitingElements, AwaitingRoom, counts, shared, client, Drained, Pipe, bytes_in_use,
     wraps_around
<1>10. ASSUME NEW p \in Producers, PushReturns(p)
       PROVE  Drained'
  BY <1>10, <1>0, PipeAssumption, PushWokenAsleep DEF PushReturns, GoToWaking,
     AwaitingElements, AwaitingRoom, counts, shared, client, Drained, Pipe, bytes_in_use,
     wraps_around
<1>11. ASSUME NEW p \in Producers, pipe_producer_free(p)
       PROVE  Drained'
  BY <1>11, <1>0, DrainedNobodyPushes, PipeAssumption DEF pipe_producer_free, GoTo,
     counts, locals, client, Drained, PushPcs, ReservePcs
<1>12. ASSUME NEW p \in Producers, ProducerFreeChecks(p)
       PROVE  Drained'
  BY <1>12, <1>0, PipeAssumption DEF ProducerFreeChecks, GoTo, counts, shared, client,
     Drained, Pipe, bytes_in_use, wraps_around
<1>13. ASSUME NEW c \in Consumers, NEW count \in PopCounts, pipe_pop(c, count)
       PROVE  Drained'
  BY <1>13, <1>0, PipeAssumption DEF pipe_pop, GoTo, counts, shared, client, Drained,
     Pipe, bytes_in_use, wraps_around
<1>14. ASSUME NEW c \in Consumers, NEW count \in PopCounts, pipe_pop_eager(c, count)
       PROVE  Drained'
  BY <1>14, <1>0, PipeAssumption DEF pipe_pop_eager, GoTo, counts, shared, client,
     Drained, Pipe, bytes_in_use, wraps_around
<1>15. ASSUME NEW c \in Consumers, PopEmpty(c)
       PROVE  Drained'
  BY <1>15, <1>0, PipeAssumption DEF PopEmpty, GoTo, counts, shared, client, Drained,
     Pipe, bytes_in_use, wraps_around
<1>16. ASSUME NEW c \in Consumers, PopEnds(c)
       PROVE  Drained'
  <2>1. \A d \in Consumers : pc'[d] # "pop_copy"
    BY <1>16, <1>0 DEF PopEnds, GoTo, CloseInv, LockOwnership, HoldsBegin
  <2>. QED
    BY <1>16, <2>1
       DEF PopEnds, counts, shared, client, Drained, Pipe, bytes_in_use, wraps_around
<1>17. ASSUME NEW c \in Consumers, PopBegins(c)
       PROVE  Drained'
  BY <1>17, <1>0, PipeAssumption DEF PopBegins, GoTo, counts, shared, client, Drained,
     Pipe, bytes_in_use, wraps_around
<1>18. ASSUME NEW c \in Consumers, PopSleeps(c)
       PROVE  Drained'
  BY <1>18, <1>0, PipeAssumption DEF PopSleeps, GoTo, counts, shared, client, Drained,
     Pipe, bytes_in_use, wraps_around
<1>19. ASSUME NEW c \in Consumers, PopCopies(c)
       PROVE  Drained'
  BY <1>19, <1>0 DEF PopCopies, GoTo, counts, Drained
<1>20. ASSUME NEW c \in Consumers, TrimLocksEnd(c)
       PROVE  Drained'
  BY <1>20, <1>0, PipeAssumption DEF TrimLocksEnd, GoTo, counts, shared, client,
     Drained, Pipe, bytes_in_use, wraps_around
<1>21. ASSUME NEW c \in Consumers, TrimShrinks(c)
       PROVE  Drained'
  <2>1. CASE Sparse(Pipe)
    BY <1>21, <1>0, <2>1, ResizeEmpty DEF TrimShrinks, GoTo, counts, client, Drained,
       CloseInv
  <2>2. CASE ~ Sparse(Pipe)
    BY <1>21, <1>0, <2>2 DEF TrimShrinks, GoTo, counts, shared, client, Drained, Pipe,
       bytes_in_use, wraps_around
  <2>. QED  BY <2>1, <2>2
<1>22. ASSUME NEW c \in Consumers, PopSignals(c)
       PROVE  Drained'
  BY <1>22, <1>0, PipeAssumption, PopWokenAsleep DEF PopSignals, GoToWaking,
     AwaitingElements, AwaitingRoom, counts, shared, client, Drained, Pipe, bytes_in_use,
     wraps_around
<1>23. ASSUME NEW c \in Consumers, PopReturns(c)
       PROVE  Drained'
  BY <1>23, <1>0, PipeAssumption, PopWokenAsleep DEF PopReturns, GoToWaking,
     AwaitingElements, AwaitingRoom, counts, shared, client, Drained, Pipe, bytes_in_use,
     wraps_around
<1>24. ASSUME NEW c \in Consumers, pipe_consumer_free(c)
       PROVE  Drained'
  BY <1>24, <1>0, PipeAssumption DEF pipe_consumer_free, GoTo, counts, shared, client,
     Drained, Pipe, bytes_in_use, wraps_around
<1>25. ASSUME NEW c \in Consumers, ConsumerFreeChecks(c)
       PROVE  Drained'
  BY <1>25, <1>0, PipeAssumption DEF ConsumerFreeChecks, GoTo, counts, shared, client,
     Drained, Pipe, bytes_in_use, wraps_around
<1>26. ASSUME NEW p \in Producers, pipe_producer_new(p)
       PROVE  Drained'
  BY <1>26, <1>0, DrainedNobodyPushes, PipeAssumption DEF pipe_producer_new, GoTo,
     counts, locals, client, Drained, PushPcs, ReservePcs
<1>27. ASSUME NEW c \in Consumers, pipe_consumer_new(c)
       PROVE  Drained'
  BY <1>27, <1>0, PipeAssumption DEF pipe_consumer_new, GoTo, counts, shared, client,
     Drained, Pipe, bytes_in_use, wraps_around
<1>28. ASSUME NEW count \in ReserveCounts, pipe_reserve(Main, count)
       PROVE  Drained'
  BY <1>28, <1>0, PipeAssumption DEF pipe_reserve, GoTo, counts, shared, client,
     Drained, Pipe, bytes_in_use, wraps_around
<1>29. ASSUME ReserveLocksEnd(Main)
       PROVE  Drained'
  BY <1>29, <1>0, PipeAssumption DEF ReserveLocksEnd, GoTo, counts, shared, client,
     Drained, Pipe, bytes_in_use, wraps_around
<1>30. ASSUME ReserveSets(Main)
       PROVE  Drained'
  BY <1>30, <1>0, DrainedNobodyPushes, PipeAssumption DEF ReserveSets, GoTo, counts,
     locals, client, Drained, PushPcs, ReservePcs
<1>31. ASSUME pipe_free
       PROVE  Drained'
  BY <1>31, <1>0, DrainedNobodyPushes, PipeAssumption DEF pipe_free, GoTo, counts,
     locals, client, Drained, PushPcs, ReservePcs
<1>32. ASSUME PipeFreeDecides
       PROVE  Drained'
  BY <1>32, <1>0, PipeAssumption DEF PipeFreeDecides, GoTo, shared, client, Drained,
     Pipe, bytes_in_use, wraps_around
<1>33. ASSUME NEW t \in Threads, WakeConsumers(t)
       PROVE  Drained'
  BY <1>33, <1>0, PipeAssumption DEF WakeConsumers, GoToWaking, AwaitingElements,
     AwaitingRoom, counts, shared, client, Drained, Pipe, bytes_in_use, wraps_around
<1>34. ASSUME NEW t \in Threads, WakeProducers(t)
       PROVE  Drained'
  BY <1>34, <1>0, PipeAssumption DEF WakeProducers, GoToWaking, AwaitingElements,
     AwaitingRoom, counts, shared, client, Drained, Pipe, bytes_in_use, wraps_around
<1>35. ASSUME NEW t \in Threads, deallocate(t)
       PROVE  Drained'
  BY <1>35, <1>0, PipeAssumption DEF deallocate, GoTo, counts, shared, client,
     Drained, Pipe, bytes_in_use, wraps_around
<1>36. ASSUME NEW t \in Threads, SpuriousWakeup(t)
       PROVE  Drained'
  BY <1>36, <1>0, PipeAssumption DEF SpuriousWakeup, GoTo, counts, shared, client,
     Drained, Pipe, bytes_in_use, wraps_around
<1>. QED
  BY <1>1, <1>2, <1>3, <1>4, <1>5, <1>6, <1>7, <1>8, <1>9, <1>10, <1>11, <1>12, <1>13,
     <1>14, <1>15, <1>16, <1>17, <1>18, <1>19, <1>20, <1>21, <1>22, <1>23, <1>24, <1>25,
     <1>26, <1>27, <1>28, <1>29, <1>30, <1>31, <1>32, <1>33, <1>34, <1>35, <1>36
  DEF Next, Producer, Consumer, Owner, Pushing, Popping, Freeing

(* A pop comes up short only when no element will ever come.               *)
THEOREM EndOfStreamIsFinal == Spec => []EofIsFinal
<1>1. Init => CloseInv /\ Drained
  BY CloseInit DEF Init, Drained
<1>2. CloseInv /\ Drained /\ [Next]_vars => CloseInv' /\ Drained'
  BY CloseStep, DrainedStep
<1>3. Drained => EofIsFinal
  <2>1. bytes_in_use(Pipe) = 0 => Contents = <<>>
    BY DEF Contents
  <2>. QED  BY <2>1 DEF Drained, EofIsFinal
<1>. QED  BY <1>1, <1>2, <1>3, PTL DEF Spec
===========================================================================
