--------------------------- MODULE EventLoopProofs ---------------------------
(***************************************************************************)
(* Proofs about EventLoop: every variable keeps its type, and in event     *)
(* mode the pending rows are accounted for by notifications, whatever the  *)
(* rows, groups, batch size, failures and restarts.                        *)
(*                                                                         *)
(* Rows and claims are compared by the cardinalities of finite sets, for   *)
(* the channel by that of its slots.                                       *)
(***************************************************************************)
EXTENDS EventLoop, FiniteSetTheorems, SequenceTheorems, TLAPS

-----------------------------------------------------------------------------
(* Counting.                                                               *)

\* A set of rows is finite and has a number.
LEMMA RowsFinite ==
    ASSUME NEW S \in SUBSET Jobs
    PROVE  IsFiniteSet(S) /\ Cardinality(S) \in Nat
BY FS_Subset, FS_CardinalityType, EventLoopAssumption

\* Two disjoint finite sets have the sum of their numbers.
LEMMA DisjointUnion ==
    ASSUME NEW S, NEW T, IsFiniteSet(S), IsFiniteSet(T), S \cap T = {}
    PROVE  /\ IsFiniteSet(S \cup T)
           /\ Cardinality(S) \in Nat /\ Cardinality(T) \in Nat
           /\ Cardinality(S \cup T) = Cardinality(S) + Cardinality(T)
<1>1. Cardinality(S \cap T) = 0
    BY FS_EmptySet
<1>2. /\ IsFiniteSet(S \cup T)
      /\ Cardinality(S \cup T) = Cardinality(S) + Cardinality(T) - Cardinality(S \cap T)
    BY FS_Union
<1>3. Cardinality(S) \in Nat /\ Cardinality(T) \in Nat
    BY FS_CardinalityType
<1> QED BY <1>1, <1>2, <1>3

\* A notification of n claims has n slots.
LEMMA SlotsOfOne ==
    ASSUME NEW i, NEW n \in Nat
    PROVE  IsFiniteSet({i} \X (1..n)) /\ Cardinality({i} \X (1..n)) = n
<1>1. IsFiniteSet({i}) /\ Cardinality({i}) = 1
    BY FS_Singleton
<1>2. IsFiniteSet(1..n) /\ Cardinality(1..n) = n
    BY FS_Interval
<1>3. /\ IsFiniteSet({i} \X (1..n))
      /\ Cardinality({i} \X (1..n)) = Cardinality({i}) * Cardinality(1..n)
    BY <1>1, <1>2, FS_Product
<1> QED BY <1>1, <1>2, <1>3

\* The slots of a channel are finitely many.
LEMMA SlotsFinite ==
    ASSUME NEW c \in Seq(Nat)
    PROVE  IsFiniteSet(Slots(c)) /\ Cardinality(Slots(c)) \in Nat
<1> DEFINE S == {{i} \X (1..c[i]) : i \in DOMAIN c}
           f == [i \in DOMAIN c |-> {i} \X (1..c[i])]
<1>1. DOMAIN c = 1..Len(c) /\ Len(c) \in Nat /\ \A i \in DOMAIN c : c[i] \in Nat
    BY LenProperties, ElementOfSeq
<1>2. IsFiniteSet(DOMAIN c)
    BY <1>1, FS_Interval
<1>3. f \in Surjection(DOMAIN c, S)
    BY DEF Surjection
<1>4. IsFiniteSet(S)
    BY <1>2, <1>3, FS_Surjection
<1>5. \A T \in S : IsFiniteSet(T)
    <2> TAKE T \in S
    <2>1. PICK i \in DOMAIN c : T = {i} \X (1..c[i])
        OBVIOUS
    <2>2. c[i] \in Nat
        BY <1>1
    <2>3. IsFiniteSet({i} \X (1..c[i]))
        BY <2>2, SlotsOfOne
    <2> QED BY <2>1, <2>3
<1>6. IsFiniteSet(UNION S)
    BY <1>4, <1>5, FS_UNION
<1> QED BY <1>6, FS_CardinalityType DEF Slots

\* A notification that is sent adds its slots.
LEMMA SlotsAppend ==
    ASSUME NEW c \in Seq(Nat), NEW n \in Nat
    PROVE  Cardinality(Slots(Append(c, n))) = Cardinality(Slots(c)) + n
<1> DEFINE New == {Len(c) + 1} \X (1..n)
<1>1. DOMAIN c = 1..Len(c) /\ Len(c) \in Nat
    BY LenProperties
<1>2. /\ DOMAIN Append(c, n) = 1..(Len(c) + 1)
      /\ \A i \in 1..Len(c) : Append(c, n)[i] = c[i]
      /\ Append(c, n)[Len(c) + 1] = n
    BY <1>1
<1>3. Slots(Append(c, n)) = Slots(c) \cup New
    BY <1>1, <1>2 DEF Slots
<1>4. Slots(c) \cap New = {}
    BY <1>1 DEF Slots
<1>5. IsFiniteSet(New) /\ Cardinality(New) = n
    BY <1>1, SlotsOfOne
<1>6. IsFiniteSet(Slots(c)) /\ Cardinality(Slots(c)) \in Nat
    BY SlotsFinite
<1>7. Cardinality(Slots(c) \cup New) = Cardinality(Slots(c)) + Cardinality(New)
    BY <1>4, <1>5, <1>6, DisjointUnion
<1> HIDE DEF New
<1> QED BY <1>3, <1>5, <1>7

\* A notification that is received takes its slots away: those of the others move
\* up by one.
LEMMA SlotsTail ==
    ASSUME NEW c \in Seq(Nat), c # <<>>
    PROVE  Cardinality(Slots(c)) = Head(c) + Cardinality(Slots(Tail(c)))
<1> DEFINE First == {1} \X (1..Head(c))
           Others == Slots(c) \ First
           f == [slot \in Slots(Tail(c)) |-> <<slot[1] + 1, slot[2]>>]
<1>1. /\ DOMAIN c = 1..Len(c) /\ Len(c) \in Nat \ {0}
      /\ \A i \in DOMAIN c : c[i] \in Nat
    BY LenProperties, ElementOfSeq, EmptySeq
<1>2. /\ Head(c) = c[1] /\ Head(c) \in Nat
      /\ Tail(c) \in Seq(Nat)
      /\ Len(Tail(c)) = Len(c) - 1
      /\ \A i \in 1..Len(Tail(c)) : Tail(c)[i] = c[i + 1]
    BY HeadTailProperties
<1>3. DOMAIN Tail(c) = 1..(Len(c) - 1)
    BY <1>2, LenProperties
<1>4. \A i, k : <<i, k>> \in Slots(c) <=> i \in 1..Len(c) /\ k \in 1..c[i]
    BY <1>1 DEF Slots
<1>5. \A i, k : <<i, k>> \in Slots(Tail(c)) <=> i \in 1..(Len(c) - 1) /\ k \in 1..c[i + 1]
    BY <1>2, <1>3 DEF Slots
<1>6. \A slot \in Slots(c) : slot = <<slot[1], slot[2]>>
    BY DEF Slots
<1>7. \A slot \in Slots(Tail(c)) : slot = <<slot[1], slot[2]>>
    BY DEF Slots
<1>8. First \subseteq Slots(c)
    BY <1>1, <1>2, <1>4
<1>9. \A slot \in Slots(c) : slot \in Others <=> slot[1] # 1
    BY <1>2, <1>4, <1>6
<1>10. f \in Bijection(Slots(Tail(c)), Others)
    <2>1. \A slot \in Slots(Tail(c)) : f[slot] \in Others
        <3> SUFFICES ASSUME NEW slot \in Slots(Tail(c))
                     PROVE  f[slot] \in Others
            OBVIOUS
        <3>1. slot[1] \in 1..(Len(c) - 1) /\ slot[2] \in 1..c[slot[1] + 1]
            BY <1>5, <1>7
        <3>2. f[slot] = <<slot[1] + 1, slot[2]>> /\ slot[1] + 1 \in 1..Len(c)
            BY <3>1, <1>1
        <3>3. f[slot] \in Slots(c) /\ f[slot][1] # 1
            BY <3>1, <3>2, <1>1, <1>4
        <3> QED BY <3>3, <1>9
    <2>2. \A p, q \in Slots(Tail(c)) : f[p] = f[q] => p = q
        <3> SUFFICES ASSUME NEW p \in Slots(Tail(c)), NEW q \in Slots(Tail(c)), f[p] = f[q]
                     PROVE  p = q
            OBVIOUS
        <3>1. p[1] \in Int /\ q[1] \in Int
            BY <1>5, <1>7, <1>1
        <3>2. p[1] + 1 = q[1] + 1 /\ p[2] = q[2]
            OBVIOUS
        <3>3. p[1] = q[1] /\ p[2] = q[2]
            BY <3>1, <3>2
        <3>4. p = <<p[1], p[2]>> /\ q = <<q[1], q[2]>>
            BY <1>7
        <3> QED BY <3>3, <3>4
    <2>3. \A slot \in Others : \E p \in Slots(Tail(c)) : f[p] = slot
        <3> SUFFICES ASSUME NEW slot \in Others
                     PROVE  \E p \in Slots(Tail(c)) : f[p] = slot
            OBVIOUS
        <3>1. slot = <<slot[1], slot[2]>> /\ slot[1] # 1
            BY <1>6, <1>9
        <3>2. slot[1] \in 1..Len(c) /\ slot[2] \in 1..c[slot[1]]
            BY <3>1, <1>4
        <3> DEFINE p == <<slot[1] - 1, slot[2]>>
        <3>3. slot[1] - 1 \in 1..(Len(c) - 1) /\ (slot[1] - 1) + 1 = slot[1]
            BY <3>1, <3>2, <1>1
        <3>4. p \in Slots(Tail(c))
            BY <3>2, <3>3, <1>5
        <3>5. f[p] = slot
            BY <3>1, <3>3, <3>4
        <3> QED BY <3>4, <3>5
    <2>4. f \in [Slots(Tail(c)) -> Others]
        BY <2>1
    <2>5. f \in Injection(Slots(Tail(c)), Others)
        BY <2>2, <2>4 DEF Injection, IsInjective
    <2>6. f \in Surjection(Slots(Tail(c)), Others)
        BY <2>3, <2>4 DEF Surjection
    <2> QED BY <2>5, <2>6 DEF Bijection
<1>11. IsFiniteSet(Slots(Tail(c))) /\ Cardinality(Slots(Tail(c))) \in Nat
    BY <1>2, SlotsFinite
<1>12. IsFiniteSet(Others) /\ Cardinality(Others) = Cardinality(Slots(Tail(c)))
    BY <1>10, <1>11, FS_Bijection DEF ExistsBijection
<1>13. IsFiniteSet(First) /\ Cardinality(First) = Head(c)
    BY <1>2, SlotsOfOne
<1>14. Slots(c) = First \cup Others /\ First \cap Others = {}
    BY <1>8
<1>15. Cardinality(First \cup Others) = Cardinality(First) + Cardinality(Others)
    BY <1>12, <1>13, <1>14, DisjointUnion
<1> HIDE DEF First, Others
<1> QED BY <1>12, <1>13, <1>14, <1>15

\* The slots of groups are finitely many.
LEMMA DueFinite ==
    ASSUME NEW D \in SUBSET Groups
    PROVE  IsFiniteSet(DueSlots(D)) /\ Cardinality(DueSlots(D)) \in Nat
<1>1. IsFiniteSet(SUBSET Jobs)
    BY FS_SUBSET, EventLoopAssumption
<1>2. D \in SUBSET SUBSET Jobs
    BY EventLoopAssumption
<1>3. IsFiniteSet(D)
    BY <1>1, <1>2, FS_Subset
<1>4. IsFiniteSet(D \X Jobs)
    BY <1>3, FS_Product, EventLoopAssumption
<1>5. DueSlots(D) \in SUBSET (D \X Jobs)
    BY DEF DueSlots
<1>6. IsFiniteSet(DueSlots(D))
    BY <1>4, <1>5, FS_Subset
<1> QED BY <1>6, FS_CardinalityType

\* The slots of one group are as many as its rows.
LEMMA SlotsOfGroup ==
    ASSUME NEW G \in SUBSET Jobs
    PROVE  IsFiniteSet({G} \X G) /\ Cardinality({G} \X G) = Cardinality(G)
<1>1. IsFiniteSet({G}) /\ Cardinality({G}) = 1
    BY FS_Singleton
<1>2. IsFiniteSet(G) /\ Cardinality(G) \in Nat
    BY RowsFinite
<1>3. IsFiniteSet({G} \X G) /\ Cardinality({G} \X G) = Cardinality({G}) * Cardinality(G)
    BY <1>1, <1>2, FS_Product
<1> QED BY <1>1, <1>2, <1>3

\* A group that becomes due adds a slot for each of its rows.
LEMMA DueAdded ==
    ASSUME NEW D \in SUBSET Groups, NEW G \in Groups, G \in D => G = {}
    PROVE  Cardinality(DueSlots(D \cup {G})) = Cardinality(DueSlots(D)) + Cardinality(G)
<1>1. G \in SUBSET Jobs
    BY EventLoopAssumption
<1>2. DueSlots(D \cup {G}) = DueSlots(D) \cup ({G} \X G)
    BY <1>1 DEF DueSlots
<1>3. DueSlots(D) \cap ({G} \X G) = {}
    BY DEF DueSlots
<1>4. IsFiniteSet(DueSlots(D))
    BY DueFinite
<1>5. IsFiniteSet({G} \X G) /\ Cardinality({G} \X G) = Cardinality(G)
    BY <1>1, SlotsOfGroup
<1>6. Cardinality(DueSlots(D) \cup ({G} \X G)) = Cardinality(DueSlots(D)) + Cardinality({G} \X G)
    BY <1>3, <1>4, <1>5, DisjointUnion
<1> QED BY <1>2, <1>5, <1>6

\* A group that is due no longer takes them away.
LEMMA DueRemoved ==
    ASSUME NEW D \in SUBSET Groups, NEW G \in D
    PROVE  Cardinality(DueSlots(D)) = Cardinality(DueSlots(D \ {G})) + Cardinality(G)
<1>1. D \ {G} \in SUBSET Groups /\ G \in Groups /\ G \notin D \ {G}
    OBVIOUS
<1>2. (D \ {G}) \cup {G} = D
    OBVIOUS
<1> QED BY <1>1, <1>2, DueAdded

\* A set of rows that grows by at most N grows by at most the number of N.
LEMMA RowsGrow ==
    ASSUME NEW S \in SUBSET Jobs, NEW T \in SUBSET Jobs, NEW N \in SUBSET Jobs,
           T \subseteq S \cup N
    PROVE  Cardinality(T) <= Cardinality(S) + Cardinality(N)
<1>1. /\ IsFiniteSet(S) /\ Cardinality(S) \in Nat
      /\ IsFiniteSet(N) /\ Cardinality(N) \in Nat
      /\ Cardinality(T) \in Nat
    BY RowsFinite
<1>2. IsFiniteSet(N \ S) /\ Cardinality(N \ S) \in Nat
    BY RowsFinite
<1>3. Cardinality(N \ S) <= Cardinality(N)
    BY <1>1, FS_Subset
<1>4. IsFiniteSet(S \cup (N \ S))
      /\ Cardinality(S \cup (N \ S)) = Cardinality(S) + Cardinality(N \ S)
    BY <1>1, <1>2, DisjointUnion
<1>5. T \in SUBSET (S \cup (N \ S))
    OBVIOUS
<1>6. Cardinality(T) <= Cardinality(S \cup (N \ S))
    BY <1>4, <1>5, FS_Subset
<1> QED BY <1>1, <1>2, <1>3, <1>4, <1>6

-----------------------------------------------------------------------------
(* Types.                                                                  *)

\* Enqueue makes new rows pending.
LEMMA Enqueued ==
    ASSUME TypeOK, NEW S \in SUBSET Jobs, Enqueue(S)
    PROVE  /\ status' \in [Jobs -> {"absent", "pending", "claimed"}]
           /\ retried' = retried
           /\ Pending' = Pending \cup S
           /\ Pending \cap S = {}
BY DEF Enqueue, TypeOK, Pending

\* Requeue makes one row pending.
LEMMA Requeued ==
    ASSUME TypeOK, NEW j \in Jobs, Requeue(j)
    PROVE  /\ status' \in [Jobs -> {"absent", "pending", "claimed"}]
           /\ Pending' = Pending \cup {j}
BY DEF Requeue, TypeOK, Pending

\* Pending rows are rows.
LEMMA PendingRows ==
    ASSUME TypeOK
    PROVE  /\ Pending \in SUBSET Jobs /\ Left \in SUBSET Jobs /\ picked \in SUBSET Jobs
           /\ Cardinality(Pending) \in Nat
           /\ Cardinality(Left) \in Nat
           /\ Cardinality(Slots(channel)) \in Nat
           /\ Cardinality(DueSlots(due)) \in Nat
<1>1. Pending \in SUBSET Jobs /\ Left \in SUBSET Jobs /\ picked \in SUBSET Jobs
    BY DEF TypeOK, Pending, Left
<1> QED BY <1>1, RowsFinite, SlotsFinite, DueFinite DEF TypeOK

\* Init gives every variable its type.
LEMMA TypeInit == Init => TypeOK
BY EventLoopAssumption DEF Init, TypeOK, Pending

\* No action leaves the types.
LEMMA TypeStep == TypeOK /\ [Next]_vars => TypeOK'
<1> SUFFICES ASSUME TypeOK, [Next]_vars
             PROVE  TypeOK'
    OBVIOUS
<1> USE EventLoopAssumption
<1>1. ASSUME NEW j \in Jobs, EnqueueSilently(j)
      PROVE  TypeOK'
    <2>1. {j} \in SUBSET Jobs /\ Enqueue({j})
        BY <1>1 DEF EnqueueSilently
    <2> QED BY <1>1, <2>1, Enqueued DEF EnqueueSilently, TypeOK, process, iteration
<1>2. ASSUME NEW j \in Jobs, Requeue(j)
      PROVE  TypeOK'
    <2>1. retried' \subseteq Jobs /\ owed' \in Nat
        BY <1>2 DEF Requeue, TypeOK
    <2>2. status' \in [Jobs -> {"absent", "pending", "claimed"}] /\ Pending \subseteq Pending'
        BY <1>2, Requeued
    <2>3. UNCHANGED <<process, channel, due, iteration>>
        BY <1>2 DEF Requeue
    <2> QED BY <2>1, <2>2, <2>3 DEF TypeOK, process, iteration
<1>3. ASSUME NEW G \in Groups, EnqueueSiblings(G)
      PROVE  TypeOK'
    <2>1. G \in SUBSET Jobs /\ Enqueue(G)
        BY <1>3 DEF EnqueueSiblings
    <2> QED BY <1>3, <2>1, Enqueued DEF EnqueueSiblings, TypeOK, process, iteration
<1>4. ASSUME NEW G \in Groups, Notify(G)
      PROVE  TypeOK'
    <2>1. Cardinality(G) \in Nat
        BY RowsFinite
    <2>2. channel' \in Seq(Nat)
        BY <1>4, <2>1 DEF Notify, TypeOK
    <2>3. Pending' = Pending
        BY <1>4 DEF Notify, queue, Pending
    <2> QED BY <1>4, <2>2, <2>3 DEF Notify, TypeOK, queue, process, iteration
<1>5. ASSUME NEW G \in Groups, NotifyMissed(G)
      PROVE  TypeOK'
    <2>1. Cardinality(G) \in Nat
        BY RowsFinite
    <2>2. Pending' = Pending
        BY <1>5 DEF NotifyMissed, queue, Pending
    <2> QED BY <1>5, <2>1, <2>2 DEF NotifyMissed, TypeOK, queue, process, iteration
<1>6. CASE Bootstrap
    <2>1. owed' \in Nat
        BY <1>6, PendingRows DEF Bootstrap, Excess
    <2>2. channel' \in Seq(Nat)
        BY <1>6 DEF Bootstrap, TypeOK
    <2>3. Pending' = Pending
        BY <1>6 DEF Bootstrap, queue, Pending
    <2> QED BY <1>6, <2>1, <2>2, <2>3 DEF Bootstrap, TypeOK, queue, iteration
<1>7. CASE BootstrapFails
    <2>1. owed' \in Nat
        BY <1>7, PendingRows DEF BootstrapFails
    <2>2. Pending' = Pending
        BY <1>7 DEF BootstrapFails, queue, Pending
    <2> QED BY <1>7, <2>1, <2>2 DEF BootstrapFails, TypeOK, queue, iteration
<1>8. CASE Stop \/ MainReturns
    <2>1. Exit
        BY <1>8 DEF Stop, MainReturns
    <2>2. channel' \in Seq(Nat)
        BY <2>1, EmptySeq DEF Exit
    <2> QED BY <2>1, <2>2 DEF Exit, TypeOK, queue
<1>9. CASE Start
    <2>1. starts' \in 1..MaxStarts /\ event_driven' \in BOOLEAN
        BY <1>9 DEF Start, TypeOK
    <2>2. Pending' = Pending
        BY <1>9 DEF Start, queue, Pending
    <2> QED BY <1>9, <2>1, <2>2 DEF Start, TypeOK, queue, iteration
<1>10. CASE Receive
    <2>1. Head(channel) \in Nat /\ channel' \in Seq(Nat)
        BY <1>10, HeadTailProperties DEF Receive, TypeOK
    <2>2. limit' \in 0..BatchSize /\ owed' \in Nat
        BY <1>10, <2>1 DEF Receive, TypeOK, Smaller, Excess
    <2>3. Pending' = Pending
        BY <1>10 DEF Receive, queue, Pending
    <2> QED BY <1>10, <2>1, <2>2, <2>3 DEF Receive, TypeOK, queue, process
<1>11. CASE Poll
    <2>1. Pending' = Pending /\ limit' \in 0..BatchSize
        BY <1>11 DEF Poll, queue, Pending
    <2> QED BY <1>11, <2>1 DEF Poll, TypeOK, queue, process
<1>12. CASE ReadTopics
    <2>1. Pending' = Pending /\ topics' \subseteq {TopicOf[j] : j \in Jobs}
        BY <1>12 DEF ReadTopics, queue, Pending
    <2> QED BY <1>12, <2>1 DEF ReadTopics, TypeOK, queue, process
<1>13. CASE ClaimLock
    <2>1. Pending' = Pending /\ picked' \subseteq Pending
        BY <1>13 DEF ClaimLock, queue, Pending
    <2>2. PICK claimable \in SUBSET Pending :
              Cardinality(picked') = Smaller(limit, Cardinality(claimable))
        BY <1>13 DEF ClaimLock
    <2>3. Cardinality(claimable) \in Nat /\ limit \in Nat
        BY RowsFinite DEF TypeOK, Pending
    <2>4. Cardinality(picked') <= limit'
        BY <1>13, <2>2, <2>3 DEF ClaimLock, Smaller
    <2> QED BY <1>13, <2>1, <2>4 DEF ClaimLock, TypeOK, queue, process
<1>14. CASE ClaimCommit
    <2>1. status' \in [Jobs -> {"absent", "pending", "claimed"}] /\ picked' = {}
        BY <1>14 DEF ClaimCommit, TypeOK
    <2> QED BY <1>14, <2>1 DEF ClaimCommit, TypeOK, process
<1>15. CASE IterationFails
    <2>1. owed' \in Nat /\ picked' = {} /\ limit' \in 0..BatchSize
        BY <1>15 DEF IterationFails, TypeOK
    <2> QED BY <1>15, <2>1 DEF IterationFails, TypeOK, queue, process
<1>16. CASE UNCHANGED vars
    BY <1>16 DEF vars, queue, process, iteration, TypeOK, Pending
<1> QED
    BY <1>1, <1>2, <1>3, <1>4, <1>5, <1>6, <1>7, <1>8, <1>9, <1>10, <1>11, <1>12,
       <1>13, <1>14, <1>15, <1>16
    DEF Next, LoopStep

-----------------------------------------------------------------------------
(* The accounts.                                                           *)

\* The process claims on notifications, and its bootstrap has run.
Watched == proc = "up" /\ event_driven /\ boot = "done"

\* Outside the loop: as many rows may become pending as claims are added.
LEMMA Grows ==
    ASSUME TypeOK, TypeOK', LeftInv, WakeupsAccounted, Watched' => Watched,
           NEW N \in SUBSET Jobs, Pending' = Pending \cup N,
           UNCHANGED iteration, Rest' + owed' = Rest + owed + Cardinality(N)
    PROVE  LeftInv' /\ WakeupsAccounted'
<1> SUFFICES ASSUME Watched'
             PROVE  /\ Cardinality(Left') <= Rest' + owed'
                    /\ Cardinality(Pending') <= Rest' + limit' + owed'
    BY DEF LeftInv, WakeupsAccounted, Watched
<1>1. /\ Cardinality(Left) <= Rest + owed
      /\ Cardinality(Pending) <= Rest + limit + owed
    BY DEF LeftInv, WakeupsAccounted, Watched
<1>2. Left' \subseteq Left \cup N
    BY DEF Left, iteration
<1>3. /\ Pending \in SUBSET Jobs /\ Pending' \in SUBSET Jobs
      /\ Left \in SUBSET Jobs /\ Left' \in SUBSET Jobs
    BY DEF TypeOK, Pending, Left
<1>4. /\ Cardinality(Left') <= Cardinality(Left) + Cardinality(N)
      /\ Cardinality(Pending') <= Cardinality(Pending) + Cardinality(N)
    BY <1>2, <1>3, RowsGrow
<1>5. /\ Cardinality(Left') \in Nat /\ Cardinality(Left) \in Nat
      /\ Cardinality(Pending') \in Nat /\ Cardinality(Pending) \in Nat
      /\ Cardinality(N) \in Nat
    BY <1>3, RowsFinite
<1>6. Rest \in Nat /\ owed \in Nat /\ limit \in Nat /\ limit' = limit
    BY PendingRows, EventLoopAssumption DEF TypeOK, Rest, iteration
<1>7. Rest' \in Nat /\ owed' \in Nat
    <2>1. channel' \in Seq(Nat) /\ due' \in SUBSET Groups /\ owed' \in Nat
        BY DEF TypeOK
    <2>2. Cardinality(Slots(channel')) \in Nat /\ Cardinality(DueSlots(due')) \in Nat
        BY <2>1, SlotsFinite, DueFinite
    <2> QED BY <2>1, <2>2 DEF Rest
<1> QED BY <1>1, <1>4, <1>5, <1>6, <1>7

\* In the loop: the rows it leaves keep the claims of others.
LEMMA EnvironmentStep ==
    ASSUME IInv, TypeOK',
           \/ \E j \in Jobs : EnqueueSilently(j) \/ Requeue(j)
           \/ \E G \in Groups : EnqueueSiblings(G) \/ Notify(G) \/ NotifyMissed(G)
    PROVE  LeftInv' /\ WakeupsAccounted'
<1> USE EventLoopAssumption DEF IInv
<1>1. /\ Cardinality(Slots(channel)) \in Nat /\ Cardinality(DueSlots(due)) \in Nat
      /\ owed \in Nat
    BY PendingRows DEF TypeOK
<1>2. ASSUME NEW j \in Jobs, EnqueueSilently(j)
      PROVE  LeftInv' /\ WakeupsAccounted'
    <2>1. {j} \in SUBSET Jobs /\ Cardinality({j}) = 1
        BY FS_Singleton
    <2>2. Pending' = Pending \cup {j}
        BY <1>2, <2>1, Enqueued DEF EnqueueSilently
    <2>3. UNCHANGED iteration /\ (Watched' => Watched)
        BY <1>2 DEF EnqueueSilently, process, Watched
    <2>4. Rest' + owed' = Rest + owed + 1
        BY <1>1, <1>2 DEF EnqueueSilently, Rest
    <2> QED BY <2>1, <2>2, <2>3, <2>4, Grows
<1>3. ASSUME NEW j \in Jobs, Requeue(j)
      PROVE  LeftInv' /\ WakeupsAccounted'
    <2>1. {j} \in SUBSET Jobs /\ Cardinality({j}) = 1
        BY FS_Singleton
    <2>2. Pending' = Pending \cup {j}
        BY <1>3, Requeued
    <2>3. UNCHANGED iteration /\ (Watched' => Watched)
        BY <1>3 DEF Requeue, process, Watched
    <2>4. Rest' + owed' = Rest + owed + 1
        BY <1>1, <1>3 DEF Requeue, Rest
    <2> QED BY <2>1, <2>2, <2>3, <2>4, Grows
<1>4. ASSUME NEW G \in Groups, EnqueueSiblings(G)
      PROVE  LeftInv' /\ WakeupsAccounted'
    <2>1. G \in SUBSET Jobs /\ Cardinality(G) \in Nat
        BY RowsFinite
    <2>2. Pending' = Pending \cup G
        BY <1>4, <2>1, Enqueued DEF EnqueueSiblings
    <2>3. UNCHANGED iteration /\ (Watched' => Watched)
        BY <1>4 DEF EnqueueSiblings, process, Watched
    <2>4. G \in due => G = {}
        BY <1>4, <2>1 DEF EnqueueSiblings, Enqueue, DueInv
    <2>5. due \in SUBSET Groups
        BY DEF TypeOK
    <2>6. Cardinality(DueSlots(due \cup {G})) = Cardinality(DueSlots(due)) + Cardinality(G)
        BY <2>4, <2>5, DueAdded
    <2>7. due' = due \cup {G} /\ channel' = channel /\ owed' = owed
        BY <1>4 DEF EnqueueSiblings
    <2>8. Rest' + owed' = Rest + owed + Cardinality(G)
        BY <1>1, <2>1, <2>6, <2>7 DEF Rest
    <2> QED BY <2>1, <2>2, <2>3, <2>8, Grows
<1>5. ASSUME NEW G \in Groups, Notify(G) \/ NotifyMissed(G)
      PROVE  LeftInv' /\ WakeupsAccounted'
    <2>1. {} \in SUBSET Jobs /\ Cardinality({}) = 0 /\ Pending' = Pending \cup {}
        BY <1>5, FS_EmptySet DEF Notify, NotifyMissed, queue, Pending
    <2>2. UNCHANGED iteration /\ (Watched' => Watched)
        BY <1>5 DEF Notify, NotifyMissed, process, Watched
    <2>3. due \in SUBSET Groups /\ G \in due /\ due' = due \ {G}
        BY <1>5 DEF Notify, NotifyMissed, TypeOK
    <2>4. /\ Cardinality(DueSlots(due)) = Cardinality(DueSlots(due')) + Cardinality(G)
          /\ Cardinality(DueSlots(due')) \in Nat
          /\ Cardinality(G) \in Nat
        BY <2>3, DueRemoved, DueFinite, RowsFinite
    <2>5. CASE Notify(G) /\ event_driven
        <3>1. Cardinality(Slots(channel')) = Cardinality(Slots(channel)) + Cardinality(G)
            BY <2>4, <2>5, SlotsAppend DEF Notify, TypeOK
        <3>2. Rest' + owed' = Rest + owed + 0
            BY <1>1, <2>4, <2>5, <3>1 DEF Notify, Rest
        <3> QED BY <2>1, <2>2, <3>2, Grows
    <2>6. CASE ~event_driven
        BY <1>5, <2>6 DEF Notify, NotifyMissed, process, LeftInv, WakeupsAccounted
    <2>7. CASE NotifyMissed(G)
        <3>1. Rest' + owed' = Rest + owed + 0
            BY <1>1, <2>4, <2>7 DEF NotifyMissed, Rest
        <3> QED BY <2>1, <2>2, <3>1, Grows
    <2> QED BY <1>5, <2>5, <2>6, <2>7
<1> QED BY <1>2, <1>3, <1>4, <1>5

\* The bootstrap accounts for every row that is pending.
LEMMA BootstrapStep ==
    ASSUME IInv, TypeOK', Bootstrap \/ BootstrapFails
    PROVE  LeftInv' /\ WakeupsAccounted'
<1> USE EventLoopAssumption DEF IInv
<1>1. /\ Cardinality(Slots(channel)) \in Nat /\ Cardinality(DueSlots(due)) \in Nat
      /\ Cardinality(Pending) \in Nat /\ limit \in Nat
    BY PendingRows DEF TypeOK
<1>2. Pending' = Pending /\ limit' = limit /\ due' = due
    BY DEF Bootstrap, BootstrapFails, queue, iteration, Pending
<1>3. Cardinality(Pending) <= Rest' + owed'
    <2>1. CASE BootstrapFails
        BY <1>1, <2>1 DEF BootstrapFails, Rest
    <2>2. CASE Bootstrap /\ Pending # {}
        <3>1. Cardinality(Slots(channel')) = Cardinality(Slots(channel)) + BatchSize
            BY <2>2, SlotsAppend DEF Bootstrap, TypeOK
        <3>2. owed' = Excess(Cardinality(Pending), BatchSize)
            BY <2>2 DEF Bootstrap
        <3> QED BY <1>1, <1>2, <3>1, <3>2 DEF Rest, Excess
    <2>3. CASE Bootstrap /\ Pending = {}
        <3>1. Cardinality(Pending) = 0 /\ owed' = Excess(0, BatchSize) /\ channel' = channel
            BY <2>3, FS_EmptySet DEF Bootstrap
        <3> QED BY <1>1, <1>2, <3>1 DEF Rest, Excess
    <2> QED BY <2>1, <2>2, <2>3
<1>4. Left' \in SUBSET Pending /\ IsFiniteSet(Pending)
    BY <1>2, PendingRows, RowsFinite DEF Left
<1>5. Cardinality(Left') <= Cardinality(Pending) /\ Cardinality(Left') \in Nat
    BY <1>4, FS_Subset, FS_CardinalityType
<1>6. Rest' \in Nat /\ owed' \in Nat
    <2>1. channel' \in Seq(Nat) /\ due' \in SUBSET Groups /\ owed' \in Nat
        BY DEF TypeOK
    <2>2. Cardinality(Slots(channel')) \in Nat /\ Cardinality(DueSlots(due')) \in Nat
        BY <2>1, SlotsFinite, DueFinite
    <2> QED BY <2>1, <2>2 DEF Rest
<1>7. /\ Cardinality(Left') <= Rest' + owed'
      /\ Cardinality(Pending') <= Rest' + limit' + owed'
    BY <1>1, <1>2, <1>3, <1>5, <1>6
<1> QED BY <1>7 DEF LeftInv, WakeupsAccounted

\* The loop spends no claim but for a row, or for one that owed counts.
LEMMA LoopAccounts ==
    ASSUME IInv, TypeOK', LoopStep
    PROVE  LeftInv' /\ WakeupsAccounted'
<1> SUFFICES ASSUME Watched'
             PROVE  /\ Cardinality(Left') <= Rest' + owed'
                    /\ Cardinality(Pending') <= Rest' + limit' + owed'
    BY DEF LeftInv, WakeupsAccounted, Watched
<1> USE DEF IInv
<1>1. /\ Cardinality(Pending) \in Nat /\ Cardinality(Left) \in Nat
      /\ Rest \in Nat /\ owed \in Nat /\ limit \in Nat
      /\ Cardinality(Slots(channel)) \in Nat /\ Cardinality(DueSlots(due)) \in Nat
    BY PendingRows, EventLoopAssumption DEF TypeOK, Rest
<1>2. /\ Pending \in SUBSET Jobs /\ IsFiniteSet(Pending)
      /\ Left \in SUBSET Pending
    BY PendingRows, RowsFinite DEF Left
<1>3. UNCHANGED process /\ Watched /\ event_driven
    BY DEF LoopStep, Receive, Poll, ReadTopics, ClaimLock, ClaimCommit, IterationFails,
           process, Watched
<1>4. /\ Cardinality(Left) <= Rest + owed
      /\ Cardinality(Pending) <= Rest + limit + owed
    BY <1>3 DEF LeftInv, WakeupsAccounted, Watched
<1>5. CASE Receive
    <2>1. Pending' = Pending /\ due' = due
        BY <1>5 DEF Receive, queue, Pending
    <2>2. Left' = {}
        BY <1>5 DEF Receive, Left
    <2>3. Cardinality(Left') = 0
        BY <2>2, FS_EmptySet
    <2>4. /\ Cardinality(Slots(channel)) = Head(channel) + Cardinality(Slots(channel'))
          /\ Head(channel) \in Nat
          /\ channel' \in Seq(Nat)
        BY <1>5, SlotsTail, HeadTailProperties DEF Receive, TypeOK
    <2>5. Cardinality(Slots(channel')) \in Nat
        BY <2>4, SlotsFinite
    <2>6. /\ limit = 0
          /\ limit' = Smaller(Head(channel), BatchSize)
          /\ owed' = owed + Excess(Head(channel), BatchSize)
        BY <1>5 DEF Receive, IdleInv
    <2>7. Rest = Head(channel) + Rest' /\ Rest' \in Nat
        BY <1>1, <2>1, <2>4, <2>5 DEF Rest
    <2>8. /\ limit' \in Nat /\ owed' \in Nat
          /\ limit' + owed' = Head(channel) + owed
        BY <1>1, <2>4, <2>6, EventLoopAssumption DEF Smaller, Excess
    <2>9. ASSUME NEW h \in Nat, NEW r \in Nat, NEW l \in Nat, NEW o \in Nat, NEW old \in Nat,
                 NEW p \in Nat, p <= h + r + old, l + o = h + old
          PROVE  0 <= r + o /\ p <= r + l + o
        BY <2>9
    <2>10. Cardinality(Pending) <= Head(channel) + Rest' + owed
        BY <1>1, <1>4, <2>4, <2>6, <2>7
    <2>11. 0 <= Rest' + owed' /\ Cardinality(Pending) <= Rest' + limit' + owed'
        BY <1>1, <2>4, <2>7, <2>8, <2>9, <2>10
    <2>12. Cardinality(Left') <= Rest' + owed'
        BY <2>3, <2>11, Zenon
    <2>13. Cardinality(Pending') <= Rest' + limit' + owed'
        BY <2>1, <2>11
    <2> QED BY <2>12, <2>13, Zenon
<1>6. CASE Poll
    BY <1>3, <1>6 DEF Poll
<1>7. CASE ReadTopics
    <2>1. Pending' = Pending /\ limit' = limit /\ owed' = owed /\ Rest' = Rest
        BY <1>7 DEF ReadTopics, queue, Pending, Rest
    <2>2. Left' = {}
        BY <1>7 DEF ReadTopics, queue, Pending, Left
    <2>3. Cardinality(Left') = 0
        BY <2>2, FS_EmptySet
    <2> QED BY <1>1, <1>4, <2>1, <2>3
<1>8. CASE ClaimLock
    <2> DEFINE claimable == {j \in Pending : TopicOf[j] \in topics}
    <2>1. Pending' = Pending /\ limit' = limit /\ owed' = owed /\ Rest' = Rest
        BY <1>8 DEF ClaimLock, queue, Pending, Rest
    <2>2. /\ picked' \in SUBSET claimable
          /\ Cardinality(picked') = Smaller(limit, Cardinality(claimable))
        BY <1>8 DEF ClaimLock
    <2>3. Left = Pending \ claimable /\ Left' = Pending \ picked'
        BY <1>8, <2>1 DEF ClaimLock, Left
    <2>4. IsFiniteSet(claimable) /\ Cardinality(claimable) \in Nat
        BY <1>2, RowsFinite
    <2>5. CASE Cardinality(picked') = Cardinality(claimable)
        <3>1. picked' = claimable
            BY <2>2, <2>4, <2>5, FS_Subset
        <3> QED BY <1>4, <2>1, <2>3, <3>1
    <2>6. CASE Cardinality(picked') = limit
        <3>1. Pending \cap picked' = picked'
            BY <2>2
        <3>2. Cardinality(Left') = Cardinality(Pending) - limit
            BY <1>2, <2>3, <2>6, <3>1, FS_Difference
        <3> QED BY <1>1, <1>4, <2>1, <3>2
    <2> QED BY <1>1, <2>2, <2>4, <2>5, <2>6 DEF Smaller
<1>9. CASE ClaimCommit
    <2>1. limit' = 0 /\ owed' = owed /\ Rest' = Rest
        BY <1>9 DEF ClaimCommit, Rest
    <2>2. loop = "locked" /\ loop' = "idle"
        BY <1>9 DEF ClaimCommit
    <2>3. Pending' = Left
        <3>1. \A j \in Jobs : status'[j] = IF j \in picked THEN "claimed" ELSE status[j]
            BY <1>9 DEF ClaimCommit
        <3>2. Left = {j \in Pending : j \notin picked}
            BY <2>2 DEF Left
        <3> QED BY <3>1, <3>2 DEF Pending
    <2>4. Left' = Pending'
        BY <2>2 DEF Left
    <2> QED BY <1>1, <1>4, <2>1, <2>3, <2>4
<1>10. CASE IterationFails
    <2>1. /\ limit' = 0 /\ Rest' = Rest /\ owed' = owed + limit
          /\ Pending' = Pending
        BY <1>3, <1>10 DEF IterationFails, queue, Pending, Rest
    <2>2. Left' = Pending
        BY <1>10, <2>1 DEF IterationFails, Left
    <2> QED BY <1>1, <1>4, <2>1, <2>2
<1> QED BY <1>5, <1>6, <1>7, <1>8, <1>9, <1>10 DEF LoopStep

\* What an iteration leaves and what is due stay in order.
LEMMA OrderStep == IInv /\ [Next]_vars => IdleInv' /\ DueInv'
<1> SUFFICES ASSUME IInv, [Next]_vars
             PROVE  IdleInv' /\ DueInv'
    OBVIOUS
<1> USE EventLoopAssumption DEF IInv
<1>1. ASSUME NEW j \in Jobs, EnqueueSilently(j) \/ Requeue(j)
      PROVE  IdleInv' /\ DueInv'
    <2>1. UNCHANGED <<iteration, due>>
        BY <1>1 DEF EnqueueSilently, Requeue
    <2>2. \A i \in Jobs : status[i] # "absent" => status'[i] # "absent"
        BY <1>1 DEF EnqueueSilently, Requeue, Enqueue, TypeOK
    <2> QED BY <2>1, <2>2 DEF iteration, IdleInv, DueInv, TypeOK
<1>2. ASSUME NEW G \in Groups, EnqueueSiblings(G) \/ Notify(G) \/ NotifyMissed(G)
      PROVE  IdleInv' /\ DueInv'
    <2>1. UNCHANGED iteration
        BY <1>2 DEF EnqueueSiblings, Notify, NotifyMissed
    <2>2. CASE EnqueueSiblings(G)
        <3>1. \A i \in Jobs : status[i] # "absent" \/ i \in G => status'[i] # "absent"
            BY <2>2 DEF EnqueueSiblings, Enqueue
        <3>2. due' = due \cup {G}
            BY <2>2 DEF EnqueueSiblings
        <3> QED BY <2>1, <3>1, <3>2 DEF iteration, IdleInv, DueInv, TypeOK
    <2>3. CASE Notify(G) \/ NotifyMissed(G)
        BY <2>1, <2>3 DEF Notify, NotifyMissed, queue, iteration, IdleInv, DueInv
    <2> QED BY <1>2, <2>2, <2>3
<1>3. CASE Bootstrap \/ BootstrapFails \/ Start
    BY <1>3 DEF Bootstrap, BootstrapFails, Start, queue, iteration, IdleInv, DueInv
<1>4. CASE Stop \/ MainReturns
    BY <1>4 DEF Stop, MainReturns, Exit, IdleInv, DueInv
<1>5. CASE LoopStep
    <2>1. CASE Receive \/ Poll \/ ReadTopics \/ ClaimLock \/ IterationFails
        BY <2>1 DEF Receive, Poll, ReadTopics, ClaimLock, IterationFails, queue, IdleInv, DueInv
    <2>2. CASE ClaimCommit
        <3>1. \A i \in Jobs : status[i] # "absent" => status'[i] # "absent"
            BY <2>2 DEF ClaimCommit
        <3> QED BY <2>2, <3>1 DEF ClaimCommit, IdleInv, DueInv, TypeOK
    <2> QED BY <1>5, <2>1, <2>2 DEF LoopStep
<1>6. CASE UNCHANGED vars
    BY <1>6 DEF vars, queue, iteration, IdleInv, DueInv
<1> QED BY <1>1, <1>2, <1>3, <1>4, <1>5, <1>6 DEF Next

\* The accounts are kept by every action.
LEMMA AccountsStep == IInv /\ TypeOK' /\ [Next]_vars => LeftInv' /\ WakeupsAccounted'
<1> SUFFICES ASSUME IInv, TypeOK', [Next]_vars
             PROVE  LeftInv' /\ WakeupsAccounted'
    OBVIOUS
<1>1. CASE Stop \/ MainReturns \/ Start
    BY <1>1 DEF Stop, MainReturns, Exit, Start, LeftInv, WakeupsAccounted
<1>2. CASE UNCHANGED vars
    <2>1. Pending' = Pending /\ Left' = Left /\ Rest' = Rest
        BY <1>2 DEF vars, queue, iteration, Pending, Left, Rest
    <2> QED BY <1>2, <2>1 DEF vars, process, iteration, IInv, LeftInv, WakeupsAccounted
<1> QED BY <1>1, <1>2, EnvironmentStep, BootstrapStep, LoopAccounts DEF Next

\* Before the bootstrap nothing is accounted for.
LEMMA InvInit == Init => IInv
BY TypeInit DEF Init, IInv, IdleInv, DueInv, LeftInv, WakeupsAccounted

-----------------------------------------------------------------------------
(* The theorems.                                                           *)

\* The inductive invariant holds of every behaviour.
THEOREM EventLoopInvariance == Spec => []IInv
<1>1. Init => IInv
    BY InvInit
<1>2. IInv /\ [Next]_vars => IInv'
    <2> SUFFICES ASSUME IInv, [Next]_vars
                 PROVE  IInv'
        OBVIOUS
    <2>1. TypeOK'
        BY TypeStep DEF IInv
    <2> QED BY <2>1, OrderStep, AccountsStep DEF IInv
<1> QED BY <1>1, <1>2, PTL DEF Spec

\* Every variable keeps its type; an iteration never claims more than batch_size
\* rows.
THEOREM EventLoopTypeCorrect == Spec => []TypeOK
<1>1. IInv => TypeOK
    BY DEF IInv
<1> QED BY <1>1, EventLoopInvariance, PTL

\* In event mode every pending row has a notification not yet spent, or is one of
\* those counted in owed, whatever the rows, groups, batch size, failing queries
\* and restarts.
THEOREM WakeupsAccountedHolds == Spec => []WakeupsAccounted
<1>1. IInv => WakeupsAccounted
    BY DEF IInv
<1> QED BY <1>1, EventLoopInvariance, PTL

=============================================================================
