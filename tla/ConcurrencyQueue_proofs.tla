----------------------- MODULE ConcurrencyQueue_proofs -----------------------
(***************************************************************************)
(* Proofs about ConcurrencyQueue, for every finite set of calls and every  *)
(* positive limit.                                                         *)
(***************************************************************************)
EXTENDS ConcurrencyQueue, FiniteSetTheorems, SequenceTheorems, TLAPS

Slots == {"idle", "queued", "held", "dropped", "released"}

(* The three facts below, for any queue q and any states s of the calls,   *)
(* so that they can be asked of the intermediate values that ResolveNext   *)
(* is given.                                                               *)
Matches(q, s) ==
    /\ \A i \in 1 .. Len(q) : s[q[i]] = "queued"
    /\ \A c \in Calls : s[c] = "queued" => \E i \in 1 .. Len(q) : q[i] = c
    /\ \A i, j \in 1 .. Len(q) : q[i] = q[j] => i = j

HeldIn(s) == {c \in Calls : s[c] = "held"}
DroppedIn(s) == {c \in Calls : s[c] = "dropped"}

(* The inductive invariant: the accounting is exact only because queue and *)
(* slot agree, and NoIdleCapacity needs the accounting to know what a      *)
(* negative capacity means.                                                *)
QueueInv ==
    /\ QueueTypeOK
    /\ Matches(queue, slot)
    /\ Accounting
    /\ NoIdleCapacity
    /\ OvershootBounded

-----------------------------------------------------------------------------

(* Held and Dropped are finite, so their cardinalities are naturals.       *)
LEMMA CountsAreNat ==
    ASSUME NEW s
    PROVE  /\ IsFiniteSet(HeldIn(s)) /\ Cardinality(HeldIn(s)) \in Nat
           /\ IsFiniteSet(DroppedIn(s)) /\ Cardinality(DroppedIn(s)) \in Nat
<1>1. HeldIn(s) \subseteq Calls /\ DroppedIn(s) \subseteq Calls
  BY DEF HeldIn, DroppedIn
<1>2. IsFiniteSet(HeldIn(s)) /\ IsFiniteSet(DroppedIn(s))
  BY <1>1, FS_Subset, CallsAssumption
<1>3. QED
  BY <1>2, FS_CardinalityType

(* Held and Dropped are the sets above, taken in the current state.        *)
LEMMA HeldAndDropped ==
    /\ Held = HeldIn(slot) /\ Held' = HeldIn(slot')
    /\ Dropped = DroppedIn(slot) /\ Dropped' = DroppedIn(slot')
BY DEF Held, Dropped, InState, HeldIn, DroppedIn

(* The cardinality of a set that gains, or loses, one element.             *)
LEMMA CardPlus ==
    ASSUME NEW S, NEW x, IsFiniteSet(S), x \notin S
    PROVE  Cardinality(S \cup {x}) = Cardinality(S) + 1
BY FS_AddElement

LEMMA CardMinus ==
    ASSUME NEW S, NEW x, IsFiniteSet(S), x \in S
    PROVE  Cardinality(S \ {x}) = Cardinality(S) - 1
BY FS_RemoveElement

(* What splicing index i out of the queue leaves.                          *)
LEMMA WithoutProperties ==
    ASSUME queue \in Seq(Calls), NEW i \in 1 .. Len(queue)
    PROVE  /\ Without(i) \in Seq(Calls)
           /\ Len(Without(i)) = Len(queue) - 1
           /\ \A k \in 1 .. Len(queue) - 1 :
                Without(i)[k] = IF k < i THEN queue[k] ELSE queue[k + 1]
<1> DEFINE a == SubSeq(queue, 1, i - 1)
           b == SubSeq(queue, i + 1, Len(queue))
<1>0. Len(queue) \in Nat /\ \A k \in 1 .. Len(queue) : queue[k] \in Calls
  BY LenProperties, ElementOfSeq
<1>1. /\ a \in Seq(Calls) /\ Len(a) = i - 1
      /\ \A k \in 1 .. i - 1 : a[k] = queue[k]
  <2>1. \A k \in 1 .. i - 1 : queue[k] \in Calls
    BY <1>0
  <2>2. /\ a \in Seq(Calls)
        /\ Len(a) = IF 1 <= i - 1 THEN (i - 1) - 1 + 1 ELSE 0
        /\ \A k \in 1 .. (i - 1) - 1 + 1 : a[k] = queue[1 + k - 1]
    BY <2>1, SubSeqProperties
  <2> HIDE DEF a
  <2>3. QED
    BY <2>2
<1>2. /\ b \in Seq(Calls) /\ Len(b) = Len(queue) - i
      /\ \A k \in 1 .. Len(queue) - i : b[k] = queue[k + i]
  <2>1. \A k \in i + 1 .. Len(queue) : queue[k] \in Calls
    BY <1>0
  <2>2. /\ b \in Seq(Calls)
        /\ Len(b) = IF i + 1 <= Len(queue) THEN Len(queue) - (i + 1) + 1 ELSE 0
        /\ \A k \in 1 .. Len(queue) - (i + 1) + 1 : b[k] = queue[(i + 1) + k - 1]
    BY <2>1, <1>0, SubSeqProperties
  <2> HIDE DEF b
  <2>3. QED
    BY <2>2, <1>0
<1>3. /\ a \o b \in Seq(Calls)
      /\ Len(a \o b) = Len(a) + Len(b)
      /\ \A k \in 1 .. Len(a) + Len(b) :
           (a \o b)[k] = IF k <= Len(a) THEN a[k] ELSE b[k - Len(a)]
  BY <1>1, <1>2, ConcatProperties
<1>4. Without(i) = a \o b
  BY DEF Without
<1> HIDE DEF a, b
<1>5. Len(a) + Len(b) = Len(queue) - 1
  BY <1>0, <1>1, <1>2
<1>6. ASSUME NEW k \in 1 .. Len(queue) - 1
      PROVE  (a \o b)[k] = IF k < i THEN queue[k] ELSE queue[k + 1]
  <2>1. (a \o b)[k] = IF k <= i - 1 THEN a[k] ELSE b[k - (i - 1)]
    BY <1>1, <1>3, <1>5
  <2>2. CASE k < i
    BY <2>1, <2>2, <1>0, <1>1
  <2>3. CASE ~(k < i)
    <3>1. k - (i - 1) \in 1 .. Len(queue) - i
      BY <2>3, <1>0
    <3>2. b[k - (i - 1)] = queue[(k - (i - 1)) + i] /\ (k - (i - 1)) + i = k + 1
      BY <3>1, <1>2, <1>0
    <3>3. QED
      BY <2>1, <2>3, <3>2
  <2>4. QED
    BY <2>2, <2>3
<1>7. QED
  BY <1>3, <1>4, <1>5, <1>6

(* resolveNext moves the first waiting call, if there is one, to the calls *)
(* that hold a slot, and changes nothing else.                             *)
LEMMA ResolveNextProperties ==
    ASSUME NEW q \in Seq(Calls), NEW s \in [Calls -> Slots], Matches(q, s),
           ResolveNext(q, s)
    PROVE  /\ queue' \in Seq(Calls)
           /\ slot' \in [Calls -> Slots]
           /\ Matches(queue', slot')
           /\ DroppedIn(slot') = DroppedIn(s)
           /\ IF q = <<>>
                THEN /\ queue' = <<>>
                     /\ Cardinality(HeldIn(slot')) = Cardinality(HeldIn(s))
                ELSE /\ Len(queue') = Len(q) - 1
                     /\ Cardinality(HeldIn(slot')) = Cardinality(HeldIn(s)) + 1
<1>1. CASE q = <<>>
  BY <1>1 DEF ResolveNext, Matches
<1>2. CASE q # <<>>
  <2> DEFINE h == Head(q)
  <2>1. queue' = Tail(q) /\ slot' = [s EXCEPT ![h] = "held"]
    BY <1>2 DEF ResolveNext
  <2>2. /\ h \in Calls /\ queue' \in Seq(Calls) /\ Len(queue') = Len(q) - 1
        /\ \A i \in 1 .. Len(queue') : queue'[i] = q[i + 1]
    BY <2>1, <1>2, HeadTailProperties
  <2>3. Len(q) \in Nat /\ Len(q) > 0 /\ h = q[1]
    BY <1>2
  <2>4. s[h] = "queued" /\ \A i \in 1 .. Len(queue') : queue'[i] # h
    BY <2>2, <2>3 DEF Matches
  <2>5. slot' \in [Calls -> Slots] /\ \A c \in Calls : slot'[c] = IF c = h THEN "held" ELSE s[c]
    BY <2>1, <2>2 DEF Slots
  <2> HIDE DEF h
  <2>6. Matches(queue', slot')
    <3>1. \A i \in 1 .. Len(queue') : queue'[i] \in Calls
      BY <2>2, ElementOfSeq
    <3>2. \A i \in 1 .. Len(queue') : slot'[queue'[i]] = "queued"
      BY <2>2, <2>3, <2>4, <2>5, <3>1 DEF Matches
    <3>3. ASSUME NEW c \in Calls, slot'[c] = "queued"
          PROVE  \E i \in 1 .. Len(queue') : queue'[i] = c
      <4>1. c # h /\ s[c] = "queued"
        BY <2>5, <3>3
      <4>2. PICK k \in 1 .. Len(q) : q[k] = c
        BY <4>1 DEF Matches
      <4>3. k # 1 /\ k - 1 \in 1 .. Len(queue')
        BY <4>1, <4>2, <2>2, <2>3
      <4>4. queue'[k - 1] = q[(k - 1) + 1] /\ (k - 1) + 1 = k
        BY <4>3, <2>2
      <4>5. QED
        BY <4>2, <4>3, <4>4
    <3>4. \A i, j \in 1 .. Len(queue') : queue'[i] = queue'[j] => i = j
      BY <2>2, <2>3 DEF Matches
    <3>5. QED
      BY <3>2, <3>3, <3>4 DEF Matches
  <2>7. HeldIn(slot') = HeldIn(s) \cup {h} /\ h \notin HeldIn(s)
    BY <2>2, <2>4, <2>5 DEF HeldIn
  <2>8. Cardinality(HeldIn(slot')) = Cardinality(HeldIn(s)) + 1
    BY <2>7, CountsAreNat, CardPlus
  <2>9. DroppedIn(slot') = DroppedIn(s)
    BY <2>2, <2>4, <2>5 DEF DroppedIn
  <2>10. QED
    BY <1>2, <2>2, <2>5, <2>6, <2>8, <2>9
<1>3. QED
  BY <1>1, <1>2

-----------------------------------------------------------------------------

(* What Matches adds to the range equality in QueueIsWaiting.              *)
LEMMA MatchesIsWaiting ==
    ASSUME QueueTypeOK
    PROVE  Matches(queue, slot) <=> QueueIsWaiting
<1>1. \A i \in 1 .. Len(queue) : queue[i] \in Calls
  BY ElementOfSeq DEF QueueTypeOK
<1>2. QED
  BY <1>1 DEF Matches, QueueIsWaiting, InState

LEMMA InitQueueInv == QueueInit => QueueInv
<1> SUFFICES ASSUME QueueInit PROVE QueueInv
  OBVIOUS
<1>1. HeldIn(slot) = {} /\ DroppedIn(slot) = {}
  BY DEF QueueInit, HeldIn, DroppedIn
<1>2. Cardinality(Held) = 0 /\ Cardinality(Dropped) = 0
  BY <1>1, FS_EmptySet DEF Held, Dropped, InState, HeldIn, DroppedIn
<1>3. QueueTypeOK /\ Matches(queue, slot)
  BY LimitAssumption DEF QueueInit, QueueTypeOK, Matches
<1>4. Accounting /\ NoIdleCapacity /\ OvershootBounded
  BY <1>2, LimitAssumption DEF QueueInit, Accounting, NoIdleCapacity, OvershootBounded
<1>5. QED
  BY <1>3, <1>4 DEF QueueInv

(* enqueue preserves the invariant: a call that finds no capacity waits    *)
(* behind at least Limit held slots.                                       *)
LEMMA EnqueueInv ==
    ASSUME QueueInv, NEW c \in Calls, Enqueue(c)
    PROVE  QueueInv'
<1>1. /\ capacity \in Int /\ queue \in Seq(Calls) /\ slot \in [Calls -> Slots]
      /\ Len(queue) \in Nat
  BY LenProperties DEF QueueInv, QueueTypeOK, Slots
<1>2. /\ slot[c] = "idle" /\ capacity' = capacity - 1
      /\ \A i \in 1 .. Len(queue) : queue[i] \in Calls /\ queue[i] # c
  BY <1>1, ElementOfSeq DEF Enqueue, QueueInv, Matches
<1>3. CASE capacity' < 0
  <2>1. queue' = Append(queue, c) /\ slot' = [slot EXCEPT ![c] = "queued"]
    BY <1>3 DEF Enqueue
  <2>2. /\ queue' \in Seq(Calls) /\ Len(queue') = Len(queue) + 1
        /\ \A i \in 1 .. Len(queue) : queue'[i] = queue[i]
        /\ queue'[Len(queue) + 1] = c
    BY <2>1, <1>1, AppendProperties
  <2>3. slot' \in [Calls -> Slots] /\ \A d \in Calls : slot'[d] = IF d = c THEN "queued" ELSE slot[d]
    BY <2>1, <1>1 DEF Slots
  <2>4. Matches(queue', slot')
    <3>1. \A i \in 1 .. Len(queue') : slot'[queue'[i]] = "queued"
      BY <1>1, <1>2, <2>2, <2>3 DEF QueueInv, Matches
    <3>2. ASSUME NEW d \in Calls, slot'[d] = "queued"
          PROVE  \E i \in 1 .. Len(queue') : queue'[i] = d
      <4>1. CASE d = c
        BY <4>1, <1>1, <2>2
      <4>2. CASE d # c
        <5>1. PICK k \in 1 .. Len(queue) : queue[k] = d
          BY <4>2, <3>2, <2>3 DEF QueueInv, Matches
        <5>2. QED
          BY <5>1, <1>1, <2>2
      <4>3. QED
        BY <4>1, <4>2
    <3>3. \A i, j \in 1 .. Len(queue') : queue'[i] = queue'[j] => i = j
      BY <1>1, <1>2, <2>2 DEF QueueInv, Matches
    <3>4. QED
      BY <3>1, <3>2, <3>3 DEF Matches
  <2>5. Held' = Held /\ Dropped' = Dropped
    BY <1>2, <2>3 DEF Held, Dropped, InState
  <2>6. Cardinality(Held) \in Nat /\ Cardinality(Dropped) \in Nat
    BY CountsAreNat, HeldAndDropped
  <2>7. Accounting'
    BY <1>1, <1>2, <2>2, <2>5, <2>6, LimitAssumption DEF QueueInv, Accounting
  <2>8. Cardinality(Held) >= Limit
    <3>1. CASE queue = <<>>
      BY <3>1, <1>1, <1>2, <1>3, <2>6, LimitAssumption DEF QueueInv, Accounting
    <3>2. CASE queue # <<>>
      BY <3>2 DEF QueueInv, NoIdleCapacity
    <3>3. QED
      BY <3>1, <3>2
  <2>9. NoIdleCapacity' /\ OvershootBounded'
    BY <2>5, <2>8 DEF QueueInv, NoIdleCapacity, OvershootBounded
  <2>10. QED
    BY <1>1, <1>2, <2>2, <2>3, <2>4, <2>7, <2>9 DEF QueueInv, QueueTypeOK, Slots
<1>4. CASE ~(capacity' < 0)
  <2>1. queue' = queue /\ slot' = [slot EXCEPT ![c] = "held"]
    BY <1>4 DEF Enqueue
  <2>2. slot' \in [Calls -> Slots] /\ \A d \in Calls : slot'[d] = IF d = c THEN "held" ELSE slot[d]
    BY <2>1, <1>1 DEF Slots
  <2>3. Matches(queue', slot')
    BY <1>1, <1>2, <2>1, <2>2 DEF QueueInv, Matches
  <2>4. Held' = Held \cup {c} /\ c \notin Held /\ Dropped' = Dropped
    BY <1>2, <2>2 DEF Held, Dropped, InState
  <2>5. Cardinality(Held) \in Nat /\ IsFiniteSet(Held) /\ Cardinality(Dropped) \in Nat
    BY CountsAreNat, HeldAndDropped
  <2>6. Cardinality(Held') = Cardinality(Held) + 1
    BY <2>4, <2>5, CardPlus
  <2>7. Accounting'
    BY <1>1, <1>2, <2>1, <2>5, <2>6, LimitAssumption DEF QueueInv, Accounting
  <2>8. queue = <<>>
    BY <1>1, <1>2, <1>4, <2>5, LimitAssumption DEF QueueInv, Accounting, NoIdleCapacity
  <2>9. NoIdleCapacity' /\ OvershootBounded'
    BY <1>1, <1>2, <1>4, <2>1, <2>4, <2>5, <2>6, <2>8, LimitAssumption
    DEF QueueInv, Accounting, NoIdleCapacity, OvershootBounded
  <2>10. QED
    BY <1>1, <1>2, <2>1, <2>2, <2>3, <2>7, <2>9 DEF QueueInv, QueueTypeOK, Slots
<1>5. QED
  BY <1>3, <1>4

(* dequeue preserves the invariant: the slot given back goes to the first  *)
(* waiting call, so the number of held slots only falls when none waits.   *)
LEMMA DequeueInv ==
    ASSUME QueueInv, NEW c \in Calls, Dequeue(c)
    PROVE  QueueInv'
<1> DEFINE s == [slot EXCEPT ![c] = "released"]
<1>1. /\ capacity \in Int /\ queue \in Seq(Calls) /\ slot \in [Calls -> Slots]
      /\ Len(queue) \in Nat
  BY LenProperties DEF QueueInv, QueueTypeOK, Slots
<1>2. slot[c] = "held" /\ capacity' = capacity + 1 /\ ResolveNext(queue, s)
  BY DEF Dequeue
<1>3. s \in [Calls -> Slots] /\ \A d \in Calls : s[d] = IF d = c THEN "released" ELSE slot[d]
  BY <1>1 DEF Slots
<1> HIDE DEF s
<1>4. Matches(queue, s)
  <2>1. \A i \in 1 .. Len(queue) : queue[i] \in Calls /\ queue[i] # c
    BY <1>1, <1>2, ElementOfSeq DEF QueueInv, Matches
  <2>2. QED
    BY <1>2, <1>3, <2>1 DEF QueueInv, Matches
<1>5. HeldIn(s) = HeldIn(slot) \ {c} /\ c \in HeldIn(slot) /\ DroppedIn(s) = DroppedIn(slot)
  BY <1>2, <1>3 DEF HeldIn, DroppedIn
<1>6. Cardinality(HeldIn(s)) = Cardinality(Held) - 1
  BY <1>5, CountsAreNat, CardMinus, HeldAndDropped
<1>7. Cardinality(Held) \in Nat /\ Cardinality(Dropped) \in Nat
  BY CountsAreNat, HeldAndDropped
<1>8. /\ queue' \in Seq(Calls) /\ slot' \in [Calls -> Slots] /\ Matches(queue', slot')
      /\ Dropped' = Dropped
      /\ IF queue = <<>>
           THEN queue' = <<>> /\ Cardinality(Held') = Cardinality(Held) - 1
           ELSE Len(queue') = Len(queue) - 1 /\ Cardinality(Held') = Cardinality(Held)
  <2>1. /\ queue' \in Seq(Calls) /\ slot' \in [Calls -> Slots] /\ Matches(queue', slot')
        /\ DroppedIn(slot') = DroppedIn(s)
        /\ IF queue = <<>>
             THEN queue' = <<>> /\ Cardinality(HeldIn(slot')) = Cardinality(HeldIn(s))
             ELSE /\ Len(queue') = Len(queue) - 1
                  /\ Cardinality(HeldIn(slot')) = Cardinality(HeldIn(s)) + 1
    BY <1>1, <1>2, <1>3, <1>4, ResolveNextProperties
  <2>2. QED
    BY <2>1, <1>5, <1>6, <1>7, HeldAndDropped
<1>9. Accounting' /\ NoIdleCapacity' /\ OvershootBounded'
  <2>1. CASE queue = <<>>
    BY <2>1, <1>1, <1>2, <1>7, <1>8, LimitAssumption
    DEF QueueInv, Accounting, NoIdleCapacity, OvershootBounded
  <2>2. CASE queue # <<>>
    BY <2>2, <1>1, <1>2, <1>7, <1>8, LimitAssumption
    DEF QueueInv, Accounting, NoIdleCapacity, OvershootBounded
  <2>3. QED
    BY <2>1, <2>2
<1>10. QED
  BY <1>1, <1>2, <1>8, <1>9 DEF QueueInv, QueueTypeOK, Slots

(* remove preserves the invariant: its resolveNext may hold one slot too   *)
(* many, which the call it drops pays for.                                 *)
LEMMA RemoveInv ==
    ASSUME QueueInv, NEW i \in 1 .. Len(queue), RemoveAt(i)
    PROVE  QueueInv'
<1> DEFINE s == [slot EXCEPT ![queue[i]] = "dropped"]
           w == Without(i)
<1>1. /\ capacity \in Int /\ queue \in Seq(Calls) /\ slot \in [Calls -> Slots]
      /\ Len(queue) \in Nat
      /\ \A k \in 1 .. Len(queue) : queue[k] \in Calls /\ slot[queue[k]] = "queued"
  BY LenProperties, ElementOfSeq DEF QueueInv, QueueTypeOK, Slots, Matches
<1>2. capacity' = capacity + 1 /\ ResolveNext(w, s)
  BY DEF RemoveAt
<1>3. /\ s \in [Calls -> Slots]
      /\ \A d \in Calls : s[d] = IF d = queue[i] THEN "dropped" ELSE slot[d]
  BY <1>1 DEF Slots
<1>4. /\ w \in Seq(Calls) /\ Len(w) = Len(queue) - 1
      /\ \A k \in 1 .. Len(queue) - 1 : w[k] = IF k < i THEN queue[k] ELSE queue[k + 1]
  BY <1>1, WithoutProperties
<1> HIDE DEF s, w
<1>5. Matches(w, s)
  <2>1. \A k \in 1 .. Len(w) : s[w[k]] = "queued"
    <3>1. SUFFICES ASSUME NEW k \in 1 .. Len(w) PROVE s[w[k]] = "queued"
      OBVIOUS
    <3>2. PICK j \in 1 .. Len(queue) : j # i /\ w[k] = queue[j]
      BY <1>1, <1>4
    <3>3. queue[j] # queue[i]
      BY <3>2 DEF QueueInv, Matches
    <3>4. QED
      BY <3>2, <3>3, <1>1, <1>3
  <2>2. ASSUME NEW d \in Calls, s[d] = "queued"
        PROVE  \E k \in 1 .. Len(w) : w[k] = d
    <3>1. d # queue[i] /\ slot[d] = "queued"
      BY <2>2, <1>3
    <3>2. PICK j \in 1 .. Len(queue) : queue[j] = d
      BY <3>1 DEF QueueInv, Matches
    <3>3. j # i
      BY <3>1, <3>2
    <3>4. CASE j < i
      BY <3>2, <3>4, <1>1, <1>4
    <3>5. CASE ~(j < i)
      <4>1. j - 1 \in 1 .. Len(w) /\ ~(j - 1 < i) /\ (j - 1) + 1 = j
        BY <3>3, <3>5, <1>1, <1>4
      <4>2. w[j - 1] = queue[(j - 1) + 1]
        BY <4>1, <1>4
      <4>3. QED
        BY <4>1, <4>2, <3>2
    <3>6. QED
      BY <3>4, <3>5
  <2>3. \A k, m \in 1 .. Len(w) : w[k] = w[m] => k = m
    <3>1. \A j, n \in 1 .. Len(queue) : queue[j] = queue[n] => j = n
      BY DEF QueueInv, Matches
    <3>2. SUFFICES ASSUME NEW k \in 1 .. Len(w), NEW m \in 1 .. Len(w), w[k] = w[m]
                   PROVE  k = m
      OBVIOUS
    <3>3. /\ w[k] = IF k < i THEN queue[k] ELSE queue[k + 1]
          /\ w[m] = IF m < i THEN queue[m] ELSE queue[m + 1]
      BY <1>4
    <3>4. /\ k \in 1 .. Len(queue) /\ k + 1 \in 1 .. Len(queue)
          /\ m \in 1 .. Len(queue) /\ m + 1 \in 1 .. Len(queue)
      BY <1>1, <1>4
    <3>5. CASE k < i /\ m < i
      <4>1. queue[k] = queue[m]
        BY <3>2, <3>3, <3>5
      <4>2. QED
        BY <4>1, <3>1, <3>4
    <3>6. CASE k < i /\ ~(m < i)
      <4>1. queue[k] = queue[m + 1]
        BY <3>2, <3>3, <3>6
      <4>2. k = m + 1
        BY <4>1, <3>1, <3>4
      <4>3. QED
        BY <4>2, <3>4, <3>6, <1>1
    <3>7. CASE ~(k < i) /\ m < i
      <4>1. queue[k + 1] = queue[m]
        BY <3>2, <3>3, <3>7
      <4>2. k + 1 = m
        BY <4>1, <3>1, <3>4
      <4>3. QED
        BY <4>2, <3>4, <3>7, <1>1
    <3>8. CASE ~(k < i) /\ ~(m < i)
      <4>1. queue[k + 1] = queue[m + 1]
        BY <3>2, <3>3, <3>8
      <4>2. k + 1 = m + 1
        BY <4>1, <3>1, <3>4
      <4>3. QED
        BY <4>2, <3>4
    <3>9. QED
      BY <3>5, <3>6, <3>7, <3>8
  <2>4. QED
    BY <2>1, <2>2, <2>3 DEF Matches
<1>6. /\ HeldIn(s) = HeldIn(slot)
      /\ DroppedIn(s) = DroppedIn(slot) \cup {queue[i]} /\ queue[i] \notin DroppedIn(slot)
  BY <1>1, <1>3 DEF HeldIn, DroppedIn
<1>7. Cardinality(DroppedIn(s)) = Cardinality(Dropped) + 1
  BY <1>6, CountsAreNat, CardPlus, HeldAndDropped
<1>8. Cardinality(Held) \in Nat /\ Cardinality(Dropped) \in Nat
  BY CountsAreNat, HeldAndDropped
<1>9. /\ queue' \in Seq(Calls) /\ slot' \in [Calls -> Slots] /\ Matches(queue', slot')
      /\ Cardinality(Dropped') = Cardinality(Dropped) + 1
      /\ IF w = <<>>
           THEN queue' = <<>> /\ Cardinality(Held') = Cardinality(Held)
           ELSE Len(queue') = Len(w) - 1 /\ Cardinality(Held') = Cardinality(Held) + 1
  <2>1. /\ queue' \in Seq(Calls) /\ slot' \in [Calls -> Slots] /\ Matches(queue', slot')
        /\ DroppedIn(slot') = DroppedIn(s)
        /\ IF w = <<>>
             THEN queue' = <<>> /\ Cardinality(HeldIn(slot')) = Cardinality(HeldIn(s))
             ELSE /\ Len(queue') = Len(w) - 1
                  /\ Cardinality(HeldIn(slot')) = Cardinality(HeldIn(s)) + 1
    BY <1>2, <1>3, <1>4, <1>5, ResolveNextProperties
  <2>2. QED
    BY <2>1, <1>6, <1>7, HeldAndDropped
<1>10. Cardinality(Held) >= Limit
  BY <1>1 DEF QueueInv, NoIdleCapacity
<1>11. Accounting' /\ NoIdleCapacity' /\ OvershootBounded'
  <2>1. /\ capacity = Limit - Cardinality(Held) - Len(queue)
        /\ Cardinality(Held) <= Limit + Cardinality(Dropped)
    BY DEF QueueInv, Accounting, OvershootBounded
  <2>2. \/ Len(queue) = 1 /\ Len(queue') = 0 /\ Cardinality(Held') = Cardinality(Held)
        \/ /\ Len(queue') = Len(queue) - 2
           /\ Cardinality(Held') = Cardinality(Held) + 1
    BY <1>1, <1>4, <1>9
  <2>3. capacity' = Limit - Cardinality(Held') - Len(queue')
    <3>0. /\ capacity' = capacity + 1 /\ capacity \in Int /\ Len(queue) \in Nat
          /\ Cardinality(Held) \in Nat /\ Limit \in Nat
      BY <1>1, <1>2, <1>8, LimitAssumption
    <3>1. CASE /\ Len(queue) = 1 /\ Len(queue') = 0
               /\ Cardinality(Held') = Cardinality(Held)
      BY <2>1, <3>0, <3>1
    <3>2. CASE /\ Len(queue') = Len(queue) - 2
               /\ Cardinality(Held') = Cardinality(Held) + 1
      BY <2>1, <3>0, <3>2
    <3>3. QED
      BY <3>1, <3>2, <2>2
  <2>4. NoIdleCapacity'
    BY <2>2, <1>8, <1>10, LimitAssumption DEF NoIdleCapacity
  <2>5. OvershootBounded'
    <3>1. Cardinality(Dropped') = Cardinality(Dropped) + 1
      BY <1>9
    <3>2. QED
      BY <2>1, <2>2, <3>1, <1>8, LimitAssumption DEF OvershootBounded
  <2>6. QED
    BY <2>3, <2>4, <2>5 DEF Accounting
<1>12. QED
  BY <1>1, <1>2, <1>9, <1>11 DEF QueueInv, QueueTypeOK, Slots

(* A newly constructed queue satisfies the invariant like the first one.   *)
LEMMA ReconstructInv ==
    ASSUME QueueInv, Reconstruct
    PROVE  QueueInv'
<1>1. slot \in [Calls -> Slots]
  BY DEF QueueInv, QueueTypeOK, Slots
<1>2. /\ capacity' = Limit /\ queue' = <<>>
      /\ slot' \in [Calls -> Slots]
      /\ \A c \in Calls : slot'[c] \in {"idle", "released"}
  BY <1>1 DEF Reconstruct, Slots
<1>3. Held' = {} /\ Dropped' = {}
  BY <1>2 DEF Held, Dropped, InState
<1>4. Cardinality(Held') = 0 /\ Cardinality(Dropped') = 0
  BY <1>3, FS_EmptySet
<1>5. Matches(queue', slot')
  BY <1>2 DEF Matches
<1>6. QED
  BY <1>2, <1>4, <1>5, LimitAssumption
  DEF QueueInv, QueueTypeOK, Slots, Accounting, NoIdleCapacity, OvershootBounded

LEMMA NextQueueInv == QueueInv /\ [QueueNext]_queueVars => QueueInv'
<1> SUFFICES ASSUME QueueInv, [QueueNext]_queueVars PROVE QueueInv'
  OBVIOUS
<1>1. ASSUME NEW c \in Calls, Enqueue(c) PROVE QueueInv'
  BY <1>1, EnqueueInv
<1>2. ASSUME NEW c \in Calls, Dequeue(c) PROVE QueueInv'
  BY <1>2, DequeueInv
<1>3. ASSUME NEW i \in 1 .. Len(queue), RemoveAt(i) PROVE QueueInv'
  BY <1>3, RemoveInv
<1>4. CASE Reconstruct
  BY <1>4, ReconstructInv
<1>5. CASE UNCHANGED queueVars
  BY <1>5 DEF queueVars, QueueInv, QueueTypeOK, Matches, Accounting, NoIdleCapacity,
              OvershootBounded, Held, Dropped, InState
<1>6. QED
  BY <1>1, <1>2, <1>3, <1>4, <1>5 DEF QueueNext

-----------------------------------------------------------------------------

(* Every reachable state of the queue satisfies the inductive invariant.   *)
THEOREM QueueInvariant == QueueSpec => []QueueInv
BY InitQueueInv, NextQueueInv, PTL DEF QueueSpec

(* capacity, queue and promises have the types the class declares.         *)
THEOREM QueueTypeCorrect == QueueSpec => []QueueTypeOK
<1>1. QueueInv => QueueTypeOK
  BY DEF QueueInv
<1>2. QED
  BY <1>1, QueueInvariant, PTL

(* Whatever the order of enqueue, dequeue and remove, the capacity counter *)
(* equals the limit less the held slots and the waiting calls.             *)
THEOREM AccountingHolds == QueueSpec => []Accounting
<1>1. QueueInv => Accounting
  BY DEF QueueInv
<1>2. QED
  BY <1>1, QueueInvariant, PTL

(* The queue array and the unresolved promises are the same calls.         *)
THEOREM QueueIsWaitingHolds == QueueSpec => []QueueIsWaiting
<1>1. QueueInv => QueueIsWaiting
  BY MatchesIsWaiting DEF QueueInv
<1>2. QED
  BY <1>1, QueueInvariant, PTL

(* No call ever waits while fewer than Limit slots are held.               *)
THEOREM NoIdleCapacityHolds == QueueSpec => []NoIdleCapacity
<1>1. QueueInv => NoIdleCapacity
  BY DEF QueueInv
<1>2. QED
  BY <1>1, QueueInvariant, PTL

(* remove is the only operation that exceeds the limit, by one call each.  *)
THEOREM OvershootBoundedHolds == QueueSpec => []OvershootBounded
<1>1. QueueInv => OvershootBounded
  BY DEF QueueInv
<1>2. QED
  BY <1>1, QueueInvariant, PTL

(* resolveNext gives a slot to the head of what it is given, to nobody     *)
(* else, and takes none away.                                              *)
LEMMA ResolveNextHead ==
    ASSUME NEW q \in Seq(Calls), NEW s \in [Calls -> Slots], ResolveNext(q, s),
           NEW c \in Calls, s[c] # "held", slot'[c] = "held"
    PROVE  q # <<>> /\ c = q[1] /\ \A d \in Calls : d # c => slot'[d] = s[d]
<1>1. q # <<>>
  BY DEF ResolveNext
<1>2. Head(q) = q[1] /\ q[1] \in Calls /\ slot' = [s EXCEPT ![Head(q)] = "held"]
  BY <1>1, HeadTailProperties DEF ResolveNext
<1>3. QED
  BY <1>1, <1>2

(* enqueue lets a call through only when nobody waits; dequeue and remove  *)
(* let through the first of those that stay.                               *)
LEMMA OvertakingStep ==
    ASSUME QueueInv, [QueueNext]_queueVars, NEW c \in Calls, NEW i \in 1 .. Len(queue),
           slot[c] # "held", slot'[c] = "held", \A j \in 1 .. i : queue[j] # c
    PROVE  slot'[queue[i]] # "queued"
<1>1. /\ capacity \in Int /\ queue \in Seq(Calls) /\ slot \in [Calls -> Slots]
      /\ Len(queue) \in Nat
      /\ \A k \in 1 .. Len(queue) : queue[k] \in Calls /\ slot[queue[k]] = "queued"
      /\ \A k, m \in 1 .. Len(queue) : queue[k] = queue[m] => k = m
  BY LenProperties, ElementOfSeq DEF QueueInv, QueueTypeOK, Slots, Matches
<1>2. queue # <<>> /\ 1 \in 1 .. Len(queue) /\ queue[1] # c
  BY <1>1
<1>3. ASSUME NEW d \in Calls, Enqueue(d) PROVE FALSE
  <2>1. d = c /\ ~(capacity' < 0) /\ capacity' = capacity - 1
    BY <1>1, <1>3 DEF Enqueue
  <2>2. Cardinality(Held) \in Nat
    BY CountsAreNat, HeldAndDropped
  <2>3. capacity = Limit - Cardinality(Held) - Len(queue)
    BY DEF QueueInv, Accounting
  <2>4. Cardinality(Held) < Limit
    BY <1>1, <2>1, <2>2, <2>3, LimitAssumption
  <2>5. QED
    BY <1>2, <2>2, <2>4, LimitAssumption DEF QueueInv, NoIdleCapacity
<1>4. ASSUME NEW d \in Calls, Dequeue(d) PROVE FALSE
  <2> DEFINE s == [slot EXCEPT ![d] = "released"]
  <2>1. ResolveNext(queue, s) /\ s \in [Calls -> Slots] /\ s[c] # "held"
    BY <1>1, <1>4 DEF Dequeue, Slots
  <2> HIDE DEF s
  <2>2. QED
    BY <1>1, <1>2, <2>1, ResolveNextHead
<1>5. ASSUME NEW k \in 1 .. Len(queue), RemoveAt(k) PROVE slot'[queue[i]] # "queued"
  <2> DEFINE s == [slot EXCEPT ![queue[k]] = "dropped"]
             w == Without(k)
  <2>1. /\ ResolveNext(w, s) /\ s \in [Calls -> Slots] /\ s[c] # "held"
        /\ s[queue[k]] = "dropped"
    BY <1>1, <1>5 DEF RemoveAt, Slots
  <2>2. /\ w \in Seq(Calls) /\ Len(w) = Len(queue) - 1
        /\ \A n \in 1 .. Len(queue) - 1 : w[n] = IF n < k THEN queue[n] ELSE queue[n + 1]
    BY <1>1, WithoutProperties
  <2> HIDE DEF s, w
  <2>3. w # <<>> /\ c = w[1] /\ \A d \in Calls : d # c => slot'[d] = s[d]
    BY <2>1, <2>2, ResolveNextHead
  <2>4. 1 \in 1 .. Len(queue) - 1
    BY <1>1, <2>2, <2>3, LenProperties, EmptySeq
  <2>5. k = 1 /\ c = queue[2]
    BY <1>1, <1>2, <2>2, <2>3, <2>4
  <2>6. i = 1
    BY <1>1, <2>4, <2>5
  <2>7. QED
    BY <1>1, <1>2, <2>1, <2>3, <2>5, <2>6
<1>6. ~Reconstruct
  BY <1>1 DEF Reconstruct
<1>7. ~UNCHANGED queueVars
  BY DEF queueVars
<1>8. QED
  BY <1>3, <1>4, <1>5, <1>6, <1>7 DEF QueueNext

(* The queue is first come, first served for any number of calls.          *)
THEOREM NoOvertakingHolds == QueueSpec => NoOvertaking
<1> DEFINE Kept == \A c \in Calls, i \in 1 .. Len(queue) :
                     (/\ slot[c] # "held" /\ slot'[c] = "held"
                      /\ \A j \in 1 .. i : queue[j] # c)
                         => slot'[queue[i]] # "queued"
<1>1. QueueInv /\ [QueueNext]_queueVars => [Kept]_queueVars
  BY OvertakingStep
<1>2. QED
  BY <1>1, QueueInvariant, PTL DEF QueueSpec, NoOvertaking
=============================================================================
