--------------------------- MODULE EventLoopProofs ---------------------------
(***************************************************************************)
(* The event loop only orders the steps of EventBus, so what is proved of  *)
(* the bus holds of the bus as asyncio runs it.                            *)
(***************************************************************************)
EXTENDS EventLoop, EventBusProofs

\* Every step of the loop is a step of the bus or leaves its queues and tasks
\* where they are.
THEOREM LoopImplementsBus == LoopSpec => Spec
<1>1. LoopInit => Init
  BY DEF LoopInit
<1>2. [LoopNext]_allVars => [Next]_vars
  <2> SUFFICES ASSUME [LoopNext]_allVars PROVE [Next]_vars
    OBVIOUS
  <2>1. ASSUME NEW id \in Ids, LoopRequest(id) PROVE Next
    BY <2>1 DEF LoopRequest, Next
  <2>2. ASSUME NEW id \in Ids, LoopStep(id) PROVE Next \/ UNCHANGED vars
    BY <2>2 DEF LoopStep, LoopTake, LoopSuspend, LoopMatch, LoopRequeue,
                LoopResume, Next, Step
  <2>3. ASSUME NEW id \in Ids, LoopTimeout(id) \/ LoopCancel(id) PROVE Next
    BY <2>3 DEF LoopTimeout, LoopCancel, Next
  <2>4. CASE LoopSee
    BY <2>4 DEF LoopSee, Next
  <2>5. ASSUME NEW id \in Ids, NEW d \in Decisions, LoopAnswer(id, d) PROVE Next
    BY <2>5 DEF LoopAnswer, Next
  <2>6. CASE UNCHANGED allVars
    BY <2>6 DEF allVars
  <2> QED
    BY <2>1, <2>2, <2>3, <2>4, <2>5, <2>6 DEF LoopNext
<1> QED
  BY <1>1, <1>2, PTL DEF LoopSpec, Spec

\* Under asyncio too, an approval is only ever granted or refused by an approver
\* of that very request, once and for all.
THEOREM LoopImplementsApprovals == LoopSpec => ImplementsApprovals
BY LoopImplementsBus, Refinement, PTL

(***************************************************************************)
(* Wake-ups.  A request has one task in one place, which is counted; what  *)
(* a step does to a queue is what it does to the counts of every id.       *)
(***************************************************************************)

LEMMA CountIsNat ==
  ASSUME NEW S, NEW s \in Seq(S), NEW x
  PROVE  /\ Occurrences(s, x) \in Nat
         /\ Occurrences(s, x) # 0 <=> Contains(s, x)
         /\ Occurrences(s, x) = 1 => \E i \in 1..Len(s) : {k \in 1..Len(s) : s[k] = x} = {i}
<1> DEFINE At == {i \in DOMAIN s : s[i] = x}
<1>1. Len(s) \in Nat /\ DOMAIN s = 1..Len(s)
  BY LenProperties
<1>2. IsFiniteSet(At)
  <2>1. IsFiniteSet(1..Len(s))
    BY <1>1, FS_Interval
  <2> QED
    BY <1>1, <2>1, FS_Subset
<1>3. Occurrences(s, x) = Cardinality(At)
  BY DEF Occurrences
<1>4. Contains(s, x) <=> At # {}
  BY <1>1 DEF Contains
<1>5. Cardinality(At) = 1 => \E i \in 1..Len(s) : {k \in 1..Len(s) : s[k] = x} = {i}
  <2> SUFFICES ASSUME Cardinality(At) = 1
               PROVE  \E i \in 1..Len(s) : {k \in 1..Len(s) : s[k] = x} = {i}
    OBVIOUS
  <2>1. PICK i : At = {i}
    <3> HIDE DEF At
    <3> QED
      BY <1>2, FS_Singleton
  <2>2. i \in 1..Len(s)
    BY <1>1, <2>1
  <2> QED
    BY <1>1, <2>1, <2>2
<1> HIDE DEF At
<1>6. Cardinality(At) \in Nat /\ (Cardinality(At) = 0 <=> At = {})
  BY <1>2, FS_CardinalityType, FS_EmptySet
<1> QED
  BY <1>3, <1>4, <1>5, <1>6

\* Taking an id that occurs once, or not at all, out of a queue.
LEMMA CountRemoved ==
  ASSUME NEW S, NEW s \in Seq(S), NEW e, Occurrences(s, e) \in {0, 1}
  PROVE  /\ RemoveFirst(s, e) \in Seq(S)
         /\ Occurrences(RemoveFirst(s, e), e) = 0
         /\ \A x : x # e => Occurrences(RemoveFirst(s, e), x) = Occurrences(s, x)
         /\ Occurrences(s, e) = 0 => RemoveFirst(s, e) = s
<1>0. Len(s) \in Nat /\ DOMAIN s = 1..Len(s) /\ \A k \in 1..Len(s) : s[k] \in S
  BY LenProperties, ElementOfSeq
<1>1. CASE Occurrences(s, e) = 0
  <2>1. ~ \E i \in 1..Len(s) : s[i] = e
    BY <1>1, CountIsNat DEF Contains
  <2>2. RemoveFirst(s, e) = s
    BY <2>1 DEF RemoveFirst
  <2> QED
    BY <1>1, <2>2
<1>2. CASE Occurrences(s, e) = 1
  <2> DEFINE n == Len(s)
             rest == RemoveFirst(s, e)
  <2>1. PICK i \in 1..n : {k \in 1..n : s[k] = e} = {i}
    BY <1>2, CountIsNat
  <2>2. s[i] = e /\ \A k \in 1..n : s[k] = e => k = i
    BY <2>1
  <2>3. rest = SubSeq(s, 1, i - 1) \o SubSeq(s, i + 1, n)
    <3>1. SelectInSeq(s, LAMBDA v : v = e) = i
      <4>1. SelectInSeq(s, LAMBDA v : v = e) = Min({i})
        BY <2>1 DEF SelectInSeq
      <4>2. Min({i}) = i
        BY <1>0 DEF Min
      <4> QED
        BY <4>1, <4>2
    <3> QED
      BY <2>2, <3>1 DEF RemoveFirst, RemoveAt
  <2>4. /\ SubSeq(s, 1, i - 1) \in Seq(S) /\ Len(SubSeq(s, 1, i - 1)) = i - 1
        /\ \A k \in 1..(i - 1) : SubSeq(s, 1, i - 1)[k] = s[k]
    <3>1. 1 \in Int /\ i - 1 \in Int /\ \A k \in 1..(i - 1) : s[k] \in S
      BY <1>0
    <3>2. /\ SubSeq(s, 1, i - 1) \in Seq(S)
          /\ Len(SubSeq(s, 1, i - 1)) = IF 1 <= i - 1 THEN i - 1 - 1 + 1 ELSE 0
          /\ \A k \in 1..(i - 1 - 1 + 1) : SubSeq(s, 1, i - 1)[k] = s[1 + k - 1]
      BY <3>1, SubSeqProperties
    <3>3. i - 1 - 1 + 1 = i - 1 /\ (1 <= i - 1 \/ i - 1 = 0)
      <4>1. i \in Nat /\ 1 <= i
        BY <1>0
      <4> QED
        BY <4>1
    <3>4. ASSUME NEW k \in 1..(i - 1) PROVE SubSeq(s, 1, i - 1)[k] = s[k]
      <4>1. 1 + k - 1 = k
        OBVIOUS
      <4>2. SubSeq(s, 1, i - 1)[k] = s[1 + k - 1]
        BY ZenonT(40), <3>2, <3>3
      <4> QED
        BY <4>1, <4>2
    <3> QED
      BY <3>2, <3>3, <3>4
  <2>5. /\ SubSeq(s, i + 1, n) \in Seq(S) /\ Len(SubSeq(s, i + 1, n)) = n - i
        /\ \A k \in 1..(n - i) : SubSeq(s, i + 1, n)[k] = s[k + i]
    <3>1. n \in Int /\ i + 1 \in Int /\ \A k \in (i + 1)..n : s[k] \in S
      BY <1>0
    <3>2. /\ SubSeq(s, i + 1, n) \in Seq(S)
          /\ Len(SubSeq(s, i + 1, n)) = IF i + 1 <= n THEN n - (i + 1) + 1 ELSE 0
          /\ \A k \in 1..(n - (i + 1) + 1) : SubSeq(s, i + 1, n)[k] = s[(i + 1) + k - 1]
      BY <3>1, SubSeqProperties
    <3>3. n - (i + 1) + 1 = n - i /\ (i + 1 <= n \/ n - i = 0)
      <4>1. n \in Nat /\ i \in Nat /\ i <= n
        BY <1>0
      <4> HIDE DEF n
      <4> QED
        BY <4>1
    <3>4. ASSUME NEW k \in 1..(n - i) PROVE SubSeq(s, i + 1, n)[k] = s[k + i]
      <4>1. (i + 1) + k - 1 = k + i
        OBVIOUS
      <4>2. SubSeq(s, i + 1, n)[k] = s[(i + 1) + k - 1]
        BY <3>2, <3>3
      <4> QED
        BY <4>1, <4>2
    <3> QED
      BY <3>2, <3>3, <3>4
  <2> HIDE DEF rest
  <2>6. /\ rest \in Seq(S) /\ Len(rest) = n - 1
        /\ \A k \in 1..(n - 1) : rest[k] = IF k < i THEN s[k] ELSE s[k + 1]
    <3>1. /\ rest \in Seq(S) /\ Len(rest) = (i - 1) + (n - i)
          /\ \A k \in 1..((i - 1) + (n - i)) :
               rest[k] = IF k <= i - 1 THEN SubSeq(s, 1, i - 1)[k]
                         ELSE SubSeq(s, i + 1, n)[k - (i - 1)]
      <4> DEFINE front == SubSeq(s, 1, i - 1)
                 back  == SubSeq(s, i + 1, n)
      <4>1. front \in Seq(S) /\ Len(front) = i - 1
        BY <2>4
      <4>2. back \in Seq(S) /\ Len(back) = n - i
        BY <2>5
      <4>3. rest = front \o back
        BY <2>3
      <4> HIDE DEF front, back
      <4>4. /\ front \o back \in Seq(S) /\ Len(front \o back) = Len(front) + Len(back)
            /\ \A k \in 1..(Len(front) + Len(back)) :
                 (front \o back)[k] = IF k <= Len(front) THEN front[k]
                                      ELSE back[k - Len(front)]
        BY <4>1, <4>2, ConcatProperties
      <4>5. /\ rest \in Seq(S) /\ Len(rest) = (i - 1) + (n - i)
            /\ \A k \in 1..((i - 1) + (n - i)) :
                 rest[k] = IF k <= i - 1 THEN front[k] ELSE back[k - (i - 1)]
        BY <4>1, <4>2, <4>3, <4>4
      <4> QED
        BY <4>5 DEF front, back
    <3>2. ASSUME NEW k \in 1..(n - 1)
          PROVE  rest[k] = IF k < i THEN s[k] ELSE s[k + 1]
      <4>1. CASE k < i
        BY <1>0, <2>4, <3>1, <4>1
      <4>2. CASE ~ (k < i)
        <5>1. rest[k] = SubSeq(s, i + 1, n)[k - (i - 1)]
          BY <1>0, <3>1, <4>2
        <5>2. k - (i - 1) \in 1..(n - i)
          BY <1>0, <4>2
        <5>3. SubSeq(s, i + 1, n)[k - (i - 1)] = s[(k - (i - 1)) + i]
          BY <2>5, <5>2
        <5>4. (k - (i - 1)) + i = k + 1
          BY <1>0
        <5> QED
          BY <4>2, <5>1, <5>3, <5>4
      <4> QED
        BY <4>1, <4>2
    <3> QED
      BY <1>0, <3>1, <3>2
  <2>7. DOMAIN rest = 1..(n - 1)
    BY <2>6, LenProperties
  <2>8. Occurrences(rest, e) = 0
    <3>1. ~ Contains(rest, e)
      BY <1>0, <2>2, <2>6 DEF Contains
    <3> QED
      BY <2>6, <3>1, CountIsNat
  <2>9. ASSUME NEW x, x # e
        PROVE  Occurrences(rest, x) = Occurrences(s, x)
    <3> DEFINE A == {k \in DOMAIN rest : rest[k] = x}
               B == {k \in DOMAIN s : s[k] = x}
               move == [k \in A |-> IF k < i THEN k ELSE k + 1]
    <3>1. IsFiniteSet(A)
      <4>1. IsFiniteSet(1..(n - 1))
        BY <1>0, FS_Interval
      <4> QED
        BY <2>7, <4>1, FS_Subset
    <3>2. move \in [A -> B]
      BY <1>0, <2>6, <2>7
    <3>3. \A j, k \in A : move[j] = move[k] => j = k
      BY <1>0, <2>7
    <3>4. ASSUME NEW k \in B PROVE \E j \in A : move[j] = k
      <4>1. k \in 1..n /\ s[k] = x /\ k # i
        BY <1>0, <2>2, <2>9
      <4>2. CASE k < i
        <5>1. k \in A /\ move[k] = k
          BY <1>0, <2>6, <2>7, <4>1, <4>2
        <5> QED
          BY <5>1
      <4>3. CASE k > i
        <5>1. k - 1 \in 1..(n - 1) /\ ~ (k - 1 < i) /\ (k - 1) + 1 = k
          BY <1>0, <4>1, <4>3
        <5>2. k - 1 \in A /\ move[k - 1] = k
          BY <2>6, <2>7, <4>1, <5>1
        <5> QED
          BY <5>2
      <4> QED
        BY <1>0, <4>1, <4>2, <4>3
    <3>5. move \in Bijection(A, B)
      BY <3>2, <3>3, <3>4 DEF Bijection, Injection, Surjection, IsInjective
    <3>6. Cardinality(A) = Cardinality(B)
      <4>1. ExistsBijection(A, B)
        BY <3>5 DEF ExistsBijection
      <4> QED
        BY <3>1, <4>1, FS_Bijection
    <3> QED
      BY <3>6 DEF Occurrences
  <2>10. rest \in Seq(S)
    BY <2>6
  <2> QED
    BY <1>2, <2>8, <2>9, <2>10 DEF rest
<1> QED
  BY <1>1, <1>2

\* How often the task of x is in the ready queue, among the getters and running.
Placed(x) == Occurrences(ready, x) + Occurrences(getters, x) + (IF current = x THEN 1 ELSE 0)

LEMMA PlacedCounts ==
  ASSUME LoopInv, NEW x \in Ids
  PROVE  /\ Occurrences(ready, x) \in Nat /\ Occurrences(getters, x) \in Nat
         /\ Placed(x) = IF Open(x) THEN 1 ELSE 0
BY CountIsNat DEF LoopInv, QueuesTyped, OneTaskEach, Placed

\* The task whose turn it is leaves its place.
LEMMA TurnCounts ==
  ASSUME QueuesTyped, NEW id \in Ids, Turn(id)
  PROVE  /\ Rest \in Seq(Ids)
         /\ \A x \in Ids :
              /\ Occurrences(Rest, x) \in Nat
              /\ Occurrences(ready, x) + (IF current = x THEN 1 ELSE 0)
                   = Occurrences(Rest, x) + (IF x = id THEN 1 ELSE 0)
<1>0. ready \in Seq(Ids)
  BY DEF QueuesTyped
<1>1. CASE current = None
  <2>1. ready # <<>> /\ Head(ready) = id /\ Rest = Tail(ready)
    BY <1>1 DEF Turn, Rest
  <2>2. Tail(ready) \in Seq(Ids)
    BY <1>0, <2>1, HeadTailProperties
  <2>3. ASSUME NEW x \in Ids
        PROVE  /\ Occurrences(Tail(ready), x) \in Nat
               /\ Occurrences(ready, x) = IF id = x THEN Occurrences(Tail(ready), x) + 1
                                          ELSE Occurrences(Tail(ready), x)
    BY <1>0, <2>1, OccurrencesTail
  <2>4. \A x \in Ids : current # x
    BY <1>1, EventLoopAssumption
  <2> QED
    BY <2>1, <2>2, <2>3, <2>4
<1>2. CASE current # None
  <2>1. Rest = ready /\ current = id
    BY <1>2 DEF Turn, Rest
  <2>2. \A x \in Ids : Occurrences(ready, x) \in Nat
    BY <1>0, CountIsNat
  <2> QED
    BY <1>0, <2>1, <2>2
<1> QED
  BY <1>1, <1>2

\* A task that goes on has a place again.
LEMMA GoOnCounts ==
  ASSUME NEW id \in Ids, NEW rest \in Seq(Ids), GoOn(id, rest)
  PROVE  /\ ready' \in Seq(Ids) /\ current' \in Ids \cup {None}
         /\ \A x \in Ids :
              Occurrences(ready', x) + (IF current' = x THEN 1 ELSE 0)
                = Occurrences(rest, x) + (IF x = id THEN 1 ELSE 0)
<1>1. CASE id \in Inline
  <2>1. current' = id /\ ready' = rest
    BY <1>1 DEF GoOn
  <2>2. \A x \in Ids : Occurrences(rest, x) \in Nat
    BY CountIsNat
  <2> QED
    BY <2>1, <2>2
<1>2. CASE id \notin Inline
  <2>1. current' = None /\ ready' = Append(rest, id)
    BY <1>2 DEF GoOn
  <2>2. ready' \in Seq(Ids)
    BY <2>1, AppendProperties
  <2>3. ASSUME NEW x \in Ids
        PROVE  /\ Occurrences(rest, x) \in Nat
               /\ Occurrences(ready', x) = IF id = x THEN Occurrences(rest, x) + 1
                                           ELSE Occurrences(rest, x)
    BY <2>1, OccurrencesAppend
  <2>4. \A x \in Ids : current' # x
    BY <2>1, EventLoopAssumption
  <2> QED
    BY <2>1, <2>2, <2>3, <2>4
<1> QED
  BY <1>1, <1>2

\* A put moves the first getter, if there is one, to the end of a queue.
LEMMA WokenCounts ==
  ASSUME QueuesTyped, NEW s \in Seq(Ids)
  PROVE  /\ s \o Woken \in Seq(Ids) /\ NotWoken \in Seq(Ids)
         /\ getters = <<>> => NotWoken = <<>>
         /\ getters # <<>> => Head(getters) \in Ids
         /\ \A x \in Ids :
              /\ Occurrences(s, x) \in Nat /\ Occurrences(NotWoken, x) \in Nat
              /\ Occurrences(s \o Woken, x) =
                   Occurrences(s, x) + (IF getters # <<>> /\ Head(getters) = x THEN 1 ELSE 0)
              /\ Occurrences(getters, x) = Occurrences(NotWoken, x)
                   + (IF getters # <<>> /\ Head(getters) = x THEN 1 ELSE 0)
<1>0. getters \in Seq(Ids)
  BY DEF QueuesTyped
<1>1. CASE getters = <<>>
  <2>1. Woken = <<>> /\ NotWoken = getters
    BY <1>1 DEF Woken, NotWoken
  <2>2. s \o Woken = s
    BY <2>1, ConcatEmptySeq
  <2>3. ASSUME NEW x \in Ids PROVE Occurrences(s, x) \in Nat /\ Occurrences(getters, x) \in Nat
    BY <1>0, CountIsNat
  <2> QED
    BY <1>0, <1>1, <2>1, <2>2, <2>3
<1>2. CASE getters # <<>>
  <2> DEFINE g == Head(getters)
  <2>1. g \in Ids /\ Tail(getters) \in Seq(Ids)
    BY <1>0, <1>2, HeadTailProperties
  <2>2. NotWoken = Tail(getters)
    BY <1>2 DEF NotWoken
  <2>3. s \o Woken = Append(s, g)
    <3>1. Woken = <<g>>
      BY <1>2 DEF Woken
    <3> QED
      BY <2>1, <3>1, AppendIsConcat
  <2>4. Append(s, g) \in Seq(Ids)
    BY <2>1, AppendProperties
  <2>5. ASSUME NEW x \in Ids
        PROVE  /\ Occurrences(Tail(getters), x) \in Nat
               /\ Occurrences(getters, x) = IF g = x THEN Occurrences(Tail(getters), x) + 1
                                            ELSE Occurrences(Tail(getters), x)
    BY <1>0, <1>2, OccurrencesTail
  <2>6. ASSUME NEW x \in Ids
        PROVE  /\ Occurrences(s, x) \in Nat
               /\ Occurrences(Append(s, g), x) = IF g = x THEN Occurrences(s, x) + 1
                                                 ELSE Occurrences(s, x)
    BY <2>1, OccurrencesAppend
  <2> HIDE DEF g
  <2>7. g = Head(getters)
    BY DEF g
  <2>8. s \o Woken \in Seq(Ids) /\ NotWoken \in Seq(Ids) /\ Head(getters) \in Ids
    BY <2>1, <2>2, <2>3, <2>4, <2>7
  <2>9. ASSUME NEW x \in Ids
        PROVE  /\ Occurrences(s, x) \in Nat /\ Occurrences(NotWoken, x) \in Nat
               /\ Occurrences(s \o Woken, x) =
                    Occurrences(s, x) + (IF getters # <<>> /\ Head(getters) = x THEN 1 ELSE 0)
               /\ Occurrences(getters, x) = Occurrences(NotWoken, x)
                    + (IF getters # <<>> /\ Head(getters) = x THEN 1 ELSE 0)
    <3>1. CASE g = x
      BY <1>2, <2>2, <2>3, <2>5, <2>6, <2>7, <3>1
    <3>2. CASE g # x
      BY <1>2, <2>2, <2>3, <2>5, <2>6, <2>7, <3>2
    <3> QED
      BY <3>1, <3>2
  <2> QED
    BY <1>2, <2>8, <2>9
<1> QED
  BY <1>1, <1>2

\* The parts of the invariant that a step of id has to establish.
Moves(id) ==
  /\ QueuesTyped'
  /\ \A x \in Ids \ {id} :
       /\ pc'[x] = pc[x]
       /\ Placed(x)' = Placed(x)
  /\ Placed(id)' = IF Open(id)' THEN 1 ELSE 0
  /\ Suspended'

LEMMA WaysFinite ==
  ASSUME NEW W \in SUBSET Ids
  PROVE  IsFiniteSet(W) /\ Cardinality(W) \in Nat
BY FS_Subset, FS_CardinalityType, EventBusAssumption

LEMMA MoreWays ==
  ASSUME NEW W \in SUBSET Ids, NEW V \in SUBSET W
  PROVE  Cardinality(V) <= Cardinality(W)
BY FS_Subset, WaysFinite

\* Nobody is left behind if no more is in the queue and no fewer are on their way.
LEMMA EnoughKept ==
  ASSUME Enough, Len(resolved) \in Nat, Len(resolved') \in Nat,
         OnTheWay \subseteq OnTheWay', Len(resolved') <= Len(resolved),
         getters = <<>> => getters' = <<>>
  PROVE  Enough'
<1>1. OnTheWay \in SUBSET Ids /\ OnTheWay' \in SUBSET Ids
  BY DEF OnTheWay
<1>2. /\ Cardinality(OnTheWay) \in Nat /\ Cardinality(OnTheWay') \in Nat
      /\ Cardinality(OnTheWay) <= Cardinality(OnTheWay')
  BY <1>1, WaysFinite, MoreWays
<1> QED
  BY <1>2 DEF Enough

LEMMA MovesKeep ==
  ASSUME LoopInv, NEW id \in Ids, Moves(id), Enough'
  PROVE  LoopInv'
<1>1. ASSUME NEW x \in Ids PROVE Placed(x)' = IF Open(x)' THEN 1 ELSE 0
  <2>1. CASE x = id
    BY <2>1 DEF Moves
  <2>2. CASE x # id
    <3>1. Placed(x)' = Placed(x) /\ pc'[x] = pc[x]
      BY <2>2 DEF Moves
    <3>2. Open(x)' <=> Open(x)
      BY <3>1 DEF Open
    <3> QED
      BY <3>1, <3>2, PlacedCounts
  <2> QED
    BY <2>1, <2>2
<1>2. OneTaskEach'
  BY <1>1 DEF OneTaskEach, Placed
<1> QED
  BY <1>2 DEF LoopInv, Moves

\* Who has the turn is not suspended.
LEMMA TurnAwake ==
  ASSUME LoopInv, NEW id \in Ids, Turn(id)
  PROVE  Occurrences(getters, id) = 0 /\ Open(id)
<1>1. /\ Rest \in Seq(Ids) /\ Occurrences(Rest, id) \in Nat
      /\ Occurrences(ready, id) + (IF current = id THEN 1 ELSE 0) = Occurrences(Rest, id) + 1
  BY TurnCounts DEF LoopInv
<1>2. /\ Occurrences(ready, id) \in Nat /\ Occurrences(getters, id) \in Nat
      /\ Occurrences(ready, id) + Occurrences(getters, id) + (IF current = id THEN 1 ELSE 0)
           = IF Open(id) THEN 1 ELSE 0
  BY PlacedCounts DEF Placed
<1> QED
  BY <1>1, <1>2

LEMMA QueueLength ==
  ASSUME TypeOK PROVE Len(resolved) \in Nat /\ (resolved = <<>> => Len(resolved) = 0)
BY LenProperties DEF TypeOK

\* A task that is, or was, not open for consume and goes on.
LEMMA RequestMoves ==
  ASSUME TypeOK, TypeOK', LoopInv, NEW id \in Ids, LoopRequest(id)
  PROVE  LoopInv'
<1>1. /\ current = None /\ pc[id] = "idle" /\ pc' = [pc EXCEPT ![id] = "waiting"]
      /\ resolved' = resolved /\ getters' = getters /\ GoOn(id, ready)
  BY DEF LoopRequest, Request
<1>2. ready \in Seq(Ids) /\ getters \in Seq(Ids) /\ pc \in [Ids -> Place]
  BY DEF LoopInv, QueuesTyped, TypeOK
<1>3. /\ ready' \in Seq(Ids) /\ current' \in Ids \cup {None}
      /\ \A x \in Ids :
           Occurrences(ready', x) + (IF current' = x THEN 1 ELSE 0)
             = Occurrences(ready, x) + (IF x = id THEN 1 ELSE 0)
  BY <1>1, <1>2, GoOnCounts
<1>4. \A x \in Ids : /\ Occurrences(ready, x) \in Nat /\ Occurrences(getters, x) \in Nat
                     /\ Occurrences(ready', x) \in Nat
                     /\ current # x
  BY <1>1, <1>2, <1>3, CountIsNat, EventLoopAssumption
<1>5. pc'[id] = "waiting" /\ \A x \in Ids \ {id} : pc'[x] = pc[x]
  BY <1>1, <1>2
<1>6. Placed(id) = 0 /\ ~ Open(id)
  BY <1>1, PlacedCounts DEF Open, Pending
<1>7. Moves(id)
  <2>1. ASSUME NEW x \in Ids \ {id} PROVE Placed(x)' = Placed(x)
    BY SMTT(30), <1>1, <1>3, <1>4 DEF Placed
  <2>2. Placed(id)' = 1 /\ Open(id)'
    BY <1>1, <1>3, <1>4, <1>5, <1>6 DEF Placed, Open, Pending
  <2>3. Suspended'
    BY <1>1, <1>4, <1>5, <1>6 DEF LoopInv, Suspended, Placed
  <2> QED
    BY <1>1, <1>2, <1>3, <1>5, <2>1, <2>2, <2>3 DEF Moves, QueuesTyped
<1>8. Enough'
  <2>1. OnTheWay \subseteq OnTheWay'
    BY <1>1, <1>5 DEF OnTheWay
  <2> QED
    BY <1>1, <2>1, QueueLength, EnoughKept DEF LoopInv
<1> QED
  BY <1>7, <1>8, MovesKeep

LEMMA GoesOnMoves ==
  ASSUME TypeOK', LoopInv, NEW id \in Ids, Turn(id), GoOn(id, Rest), getters' = getters,
         \A x \in Ids \ {id} : pc'[x] = pc[x], pc'[id] \in Pending
  PROVE  Moves(id)
<1>1. QueuesTyped /\ getters \in Seq(Ids)
  BY DEF LoopInv, QueuesTyped
<1>2. /\ Rest \in Seq(Ids)
      /\ \A x \in Ids :
           /\ Occurrences(Rest, x) \in Nat
           /\ Occurrences(ready, x) + (IF current = x THEN 1 ELSE 0)
                = Occurrences(Rest, x) + (IF x = id THEN 1 ELSE 0)
  BY <1>1, TurnCounts
<1>3. /\ ready' \in Seq(Ids) /\ current' \in Ids \cup {None}
      /\ \A x \in Ids :
           Occurrences(ready', x) + (IF current' = x THEN 1 ELSE 0)
             = Occurrences(Rest, x) + (IF x = id THEN 1 ELSE 0)
  BY <1>2, GoOnCounts
<1>4. \A x \in Ids : /\ Occurrences(ready, x) \in Nat /\ Occurrences(getters, x) \in Nat
                     /\ Occurrences(ready', x) \in Nat
  BY <1>3, PlacedCounts, CountIsNat
<1>5. ASSUME NEW x \in Ids PROVE Placed(x)' = Placed(x)
  <2> DEFINE rest == Occurrences(Rest, x)
             old  == Occurrences(ready, x)
             new  == Occurrences(ready', x)
  <2>1. /\ rest \in Nat /\ old \in Nat /\ new \in Nat
        /\ old + (IF current = x THEN 1 ELSE 0) = rest + (IF x = id THEN 1 ELSE 0)
        /\ new + (IF current' = x THEN 1 ELSE 0) = rest + (IF x = id THEN 1 ELSE 0)
    BY <1>2, <1>3, <1>4
  <2>2. Placed(x) = old + Occurrences(getters, x) + (IF current = x THEN 1 ELSE 0)
    BY DEF Placed
  <2>3. Placed(x)' = new + Occurrences(getters, x) + (IF current' = x THEN 1 ELSE 0)
    BY DEF Placed
  <2>4. Occurrences(getters, x) \in Nat
    BY <1>4
  <2> HIDE DEF rest, old, new
  <2> QED
    BY <2>1, <2>2, <2>3, <2>4
<1>6. Occurrences(getters, id) = 0 /\ Open(id)
  BY TurnAwake
<1>7. Placed(id)' = 1 /\ Open(id)'
  BY <1>5, <1>6, PlacedCounts DEF Open
<1>8. Suspended'
  BY <1>6 DEF LoopInv, Suspended
<1> QED
  BY <1>1, <1>3, <1>5, <1>7, <1>8 DEF Moves, QueuesTyped

LEMMA ResumeMoves ==
  ASSUME TypeOK, TypeOK', LoopInv, NEW id \in Ids, LoopResume(id)
  PROVE  LoopInv'
<1>1. /\ Turn(id) /\ GoOn(id, Rest) /\ getters' = getters /\ resolved' = resolved
      /\ pc[id] = "yielded" /\ pc' = [pc EXCEPT ![id] = "waiting"]
  BY DEF LoopResume, Resume
<1>2. pc'[id] = "waiting" /\ \A x \in Ids \ {id} : pc'[x] = pc[x]
  BY <1>1 DEF TypeOK
<1>3. Moves(id)
  BY <1>1, <1>2, GoesOnMoves DEF Pending
<1>4. OnTheWay \subseteq OnTheWay'
  BY <1>1, <1>2 DEF OnTheWay
<1>5. Enough'
  BY <1>1, <1>4, QueueLength, EnoughKept DEF LoopInv
<1> QED
  BY <1>3, <1>5, MovesKeep

\* One resolution less, and one task less on its way.
LEMMA TakeMoves ==
  ASSUME TypeOK, TypeOK', LoopInv, NEW id \in Ids, LoopTake(id)
  PROVE  LoopInv'
<1>1. /\ Turn(id) /\ GoOn(id, Rest) /\ getters' = getters
      /\ resolved # <<>> /\ resolved' = Tail(resolved)
      /\ pc[id] = "waiting" /\ pc' = [pc EXCEPT ![id] = "taken"]
  BY DEF LoopTake, Take
<1>2. pc'[id] = "taken" /\ \A x \in Ids \ {id} : pc'[x] = pc[x]
  BY <1>1 DEF TypeOK
<1>3. Moves(id)
  BY <1>1, <1>2, GoesOnMoves DEF Pending
<1>4. Len(resolved) \in Nat /\ Len(resolved') = Len(resolved) - 1
  BY <1>1, QueueLength, HeadTailProperties DEF TypeOK
<1>5. OnTheWay \ {id} \subseteq OnTheWay'
  BY <1>1, <1>2 DEF OnTheWay
<1>6. OnTheWay \in SUBSET Ids /\ OnTheWay' \in SUBSET Ids /\ id \in OnTheWay
  BY <1>1, TurnAwake DEF OnTheWay
<1>7. /\ Cardinality(OnTheWay) \in Nat /\ Cardinality(OnTheWay') \in Nat
      /\ Cardinality(OnTheWay \ {id}) = Cardinality(OnTheWay) - 1
      /\ Cardinality(OnTheWay \ {id}) <= Cardinality(OnTheWay')
  BY <1>5, <1>6, WaysFinite, MoreWays, FS_RemoveElement
<1>8. Enough'
  BY <1>1, <1>4, <1>7 DEF LoopInv, Enough
<1> QED
  BY <1>3, <1>8, MovesKeep

\* The queue is empty, so nothing is missed.
LEMMA SuspendMoves ==
  ASSUME TypeOK, TypeOK', LoopInv, NEW id \in Ids, LoopSuspend(id)
  PROVE  LoopInv'
<1>1. /\ Turn(id) /\ pc[id] = "waiting" /\ resolved = <<>> /\ resolved' = resolved /\ pc' = pc
      /\ getters' = Append(getters, id) /\ ready' = Rest /\ current' = None
  BY DEF LoopSuspend, vars
<1>2. QueuesTyped /\ getters \in Seq(Ids)
  BY DEF LoopInv, QueuesTyped
<1>3. /\ Rest \in Seq(Ids)
      /\ \A x \in Ids :
           /\ Occurrences(Rest, x) \in Nat
           /\ Occurrences(ready, x) + (IF current = x THEN 1 ELSE 0)
                = Occurrences(Rest, x) + (IF x = id THEN 1 ELSE 0)
  BY <1>1, <1>2, TurnCounts
<1>4. ASSUME NEW x \in Ids
      PROVE  /\ Occurrences(getters, x) \in Nat
             /\ Occurrences(getters', x) = IF id = x THEN Occurrences(getters, x) + 1
                                           ELSE Occurrences(getters, x)
  BY <1>1, <1>2, OccurrencesAppend
<1>5. getters' \in Seq(Ids) /\ \A x \in Ids : current' # x
  BY <1>1, <1>2, AppendProperties, EventLoopAssumption
<1>6. \A x \in Ids : Occurrences(ready, x) \in Nat
  BY PlacedCounts
<1>7. ASSUME NEW x \in Ids PROVE Placed(x)' = Placed(x)
  <2> DEFINE rest == Occurrences(Rest, x)
             old  == Occurrences(ready, x)
  <2>1. /\ rest \in Nat /\ old \in Nat
        /\ old + (IF current = x THEN 1 ELSE 0) = rest + (IF x = id THEN 1 ELSE 0)
    BY <1>3, <1>6
  <2>2. Placed(x) = old + Occurrences(getters, x) + (IF current = x THEN 1 ELSE 0)
    BY DEF Placed
  <2>3. Placed(x)' = rest + Occurrences(getters', x)
    <3>1. Placed(x)' = rest + Occurrences(getters', x) + (IF current' = x THEN 1 ELSE 0)
      BY <1>1 DEF Placed
    <3>2. rest \in Nat /\ Occurrences(getters', x) \in Nat /\ current' # x
      BY SMTT(30), <1>3, <1>4, <1>5
    <3> HIDE DEF rest
    <3> QED
      BY <3>1, <3>2
  <2>4. /\ Occurrences(getters, x) \in Nat
        /\ Occurrences(getters', x) = Occurrences(getters, x) + (IF x = id THEN 1 ELSE 0)
    BY <1>4
  <2> HIDE DEF rest, old
  <2> QED
    BY <2>1, <2>2, <2>3, <2>4
<1>8. Moves(id)
  <2>1. Placed(id)' = IF Open(id)' THEN 1 ELSE 0
    <3>1. Open(id)' <=> Open(id)
      BY <1>1 DEF Open
    <3> QED
      BY <1>7, <3>1, PlacedCounts
  <2>2. Suspended'
    BY <1>1, <1>4 DEF LoopInv, Suspended
  <2> QED
    BY <1>1, <1>3, <1>5, <1>7, <2>1, <2>2 DEF Moves, QueuesTyped
<1>9. Enough'
  <2>1. Len(resolved') = 0
    BY <1>1, QueueLength
  <2>2. Cardinality(OnTheWay') \in Nat
    <3>1. OnTheWay' \in SUBSET Ids
      BY DEF OnTheWay
    <3> QED
      BY <3>1, WaysFinite
  <2> QED
    BY <2>1, <2>2 DEF Enough
<1> QED
  BY <1>8, <1>9, MovesKeep

LEMMA MatchMoves ==
  ASSUME TypeOK, TypeOK', LoopInv, NEW id \in Ids, LoopMatch(id)
  PROVE  LoopInv'
<1>1. /\ Turn(id) /\ pc[id] = "taken" /\ pc' = [pc EXCEPT ![id] = "returned"]
      /\ resolved' = resolved /\ getters' = getters /\ ready' = Rest /\ current' = None
  BY DEF LoopMatch, Match
<1>2. pc'[id] = "returned" /\ \A x \in Ids \ {id} : pc'[x] = pc[x]
  BY <1>1 DEF TypeOK
<1>3. QueuesTyped /\ getters \in Seq(Ids)
  BY DEF LoopInv, QueuesTyped
<1>4. /\ Rest \in Seq(Ids)
      /\ \A x \in Ids :
           /\ Occurrences(Rest, x) \in Nat
           /\ Occurrences(ready, x) + (IF current = x THEN 1 ELSE 0)
                = Occurrences(Rest, x) + (IF x = id THEN 1 ELSE 0)
  BY <1>1, <1>3, TurnCounts
<1>5. \A x \in Ids : Occurrences(ready, x) \in Nat /\ Occurrences(getters, x) \in Nat
                     /\ current' # x
  BY <1>1, PlacedCounts, EventLoopAssumption
<1>6. \A x \in Ids : Placed(x)' = IF x = id THEN Placed(x) - 1 ELSE Placed(x)
  BY <1>1, <1>4, <1>5 DEF Placed
<1>7. Placed(id) = 1 /\ Occurrences(getters, id) = 0
  BY <1>1, TurnAwake, PlacedCounts
<1>8. Moves(id)
  <2>1. Placed(id)' = 0 /\ ~ Open(id)'
    BY <1>2, <1>6, <1>7 DEF Open, Pending
  <2>2. Suspended'
    BY <1>1, <1>2, <1>7 DEF LoopInv, Suspended
  <2> QED
    BY <1>1, <1>2, <1>3, <1>4, <1>6, <2>1, <2>2 DEF Moves, QueuesTyped
<1>9. OnTheWay \subseteq OnTheWay'
  BY <1>1, <1>2 DEF OnTheWay
<1>10. Enough'
  BY <1>1, <1>9, QueueLength, EnoughKept DEF LoopInv
<1> QED
  BY <1>8, <1>10, MovesKeep

\* The getter that is woken was suspended, and is on its way now.
LEMMA WokenIsNew ==
  ASSUME LoopInv, getters # <<>>
  PROVE  /\ Head(getters) \in Ids /\ pc[Head(getters)] = "waiting"
         /\ Head(getters) \notin OnTheWay
         /\ Occurrences(NotWoken, Head(getters)) = 0
         /\ \A x \in Ids : Occurrences(getters, x) = 0 => Occurrences(NotWoken, x) = 0
<1> DEFINE g == Head(getters)
<1>1. QueuesTyped /\ ready \in Seq(Ids)
  BY DEF LoopInv, QueuesTyped
<1>2. /\ g \in Ids
      /\ \A x \in Ids :
           /\ Occurrences(NotWoken, x) \in Nat
           /\ Occurrences(getters, x) = Occurrences(NotWoken, x) + (IF g = x THEN 1 ELSE 0)
  BY <1>1, WokenCounts
<1> HIDE DEF g
<1>3. /\ Occurrences(getters, g) \in Nat /\ Occurrences(NotWoken, g) \in Nat
      /\ Occurrences(getters, g) = Occurrences(NotWoken, g) + 1
  BY <1>2, PlacedCounts
<1>4. /\ Occurrences(ready, g) \in Nat
      /\ Occurrences(ready, g) + Occurrences(getters, g) + (IF current = g THEN 1 ELSE 0)
           = IF Open(g) THEN 1 ELSE 0
  BY <1>2, PlacedCounts DEF Placed
<1>5. Occurrences(NotWoken, g) = 0
  BY <1>3, <1>4
<1>6. pc[g] = "waiting"
  BY <1>2, <1>3, <1>5 DEF LoopInv, Suspended
<1>7. \A x \in Ids : Occurrences(getters, x) = 0 => Occurrences(NotWoken, x) = 0
  BY <1>2
<1>8. g \notin OnTheWay
  BY <1>3, <1>5 DEF OnTheWay
<1> QED
  BY <1>2, <1>5, <1>6, <1>7, <1>8 DEF g

\* One resolution more, and one task more on its way, if any is suspended.
LEMMA EnoughAfterPut ==
  ASSUME LoopInv, Len(resolved) \in Nat, Len(resolved') = Len(resolved) + 1,
         getters' = NotWoken, \A x \in Ids : pc[x] = "waiting" => pc'[x] = "waiting"
  PROVE  Enough'
<1>1. CASE getters = <<>>
  <2>1. QueuesTyped /\ ready \in Seq(Ids)
    BY DEF LoopInv, QueuesTyped
  <2>2. getters' = <<>>
    BY <1>1, <2>1, WokenCounts
  <2> QED
    BY <2>2 DEF Enough
<1>2. CASE getters # <<>>
  <2> DEFINE g == Head(getters)
  <2>1. /\ g \in Ids /\ pc[g] = "waiting" /\ g \notin OnTheWay /\ Occurrences(NotWoken, g) = 0
        /\ \A x \in Ids : Occurrences(getters, x) = 0 => Occurrences(NotWoken, x) = 0
    BY <1>2, WokenIsNew
  <2> HIDE DEF g
  <2>2. OnTheWay \in SUBSET Ids /\ OnTheWay' \in SUBSET Ids
    BY DEF OnTheWay
  <2>3. OnTheWay \cup {g} \subseteq OnTheWay'
    BY <2>1 DEF OnTheWay
  <2>4. /\ Cardinality(OnTheWay) \in Nat /\ Cardinality(OnTheWay') \in Nat
        /\ Cardinality(OnTheWay \cup {g}) = Cardinality(OnTheWay) + 1
    BY <2>1, <2>2, WaysFinite, FS_AddElement
  <2>5. Cardinality(OnTheWay \cup {g}) <= Cardinality(OnTheWay')
    BY <2>2, <2>3, MoreWays
  <2>6. Len(resolved) <= Cardinality(OnTheWay)
    BY <1>2 DEF LoopInv, Enough
  <2> QED
    BY <2>4, <2>5, <2>6 DEF Enough
<1> QED
  BY <1>1, <1>2

LEMMA AnswerMoves ==
  ASSUME TypeOK, TypeOK', LoopInv, NEW id \in Ids, NEW d \in Decisions, LoopAnswer(id, d)
  PROVE  LoopInv'
<1>1. /\ current' = current /\ ready' = ready \o Woken /\ getters' = NotWoken /\ pc' = pc
      /\ resolved' = Append(resolved, [id |-> id, decision |-> d])
  BY DEF LoopAnswer, Answer
<1>2. QueuesTyped /\ ready \in Seq(Ids) /\ current \in Ids \cup {None}
  BY DEF LoopInv, QueuesTyped
<1>3. /\ ready' \in Seq(Ids) /\ getters' \in Seq(Ids)
      /\ \A x \in Ids :
           /\ Occurrences(ready, x) \in Nat /\ Occurrences(getters', x) \in Nat
           /\ Occurrences(ready', x) = Occurrences(ready, x)
                + (IF getters # <<>> /\ Head(getters) = x THEN 1 ELSE 0)
           /\ Occurrences(getters, x) = Occurrences(getters', x)
                + (IF getters # <<>> /\ Head(getters) = x THEN 1 ELSE 0)
  BY <1>1, <1>2, WokenCounts
<1>4. ASSUME NEW x \in Ids PROVE Placed(x)' = Placed(x)
  <2>1. /\ Occurrences(ready, x) \in Nat /\ Occurrences(getters', x) \in Nat
        /\ Occurrences(ready', x) = Occurrences(ready, x)
             + (IF getters # <<>> /\ Head(getters) = x THEN 1 ELSE 0)
        /\ Occurrences(getters, x) = Occurrences(getters', x)
             + (IF getters # <<>> /\ Head(getters) = x THEN 1 ELSE 0)
    BY <1>3
  <2> QED
    BY <1>1, <2>1 DEF Placed
<1>5. Moves(id)
  <2>1. Placed(id)' = IF Open(id)' THEN 1 ELSE 0
    <3>1. Open(id)' <=> Open(id)
      BY <1>1 DEF Open
    <3> QED
      BY <1>4, <3>1, PlacedCounts
  <2>2. Suspended'
    <3> SUFFICES ASSUME NEW x \in Ids, Occurrences(getters', x) # 0
                 PROVE  pc'[x] = "waiting"
      BY DEF Suspended
    <3>1. Occurrences(getters, x) # 0
      BY <1>3
    <3> QED
      BY <1>1, <3>1 DEF LoopInv, Suspended
  <2> QED
    BY <1>1, <1>2, <1>3, <1>4, <2>1, <2>2 DEF Moves, QueuesTyped
<1>6. Len(resolved) \in Nat /\ Len(resolved') = Len(resolved) + 1
  <2>1. [id |-> id, decision |-> d] \in Resolution
    BY DEF Resolution
  <2> QED
    BY <1>1, <2>1, QueueLength, AppendProperties DEF TypeOK
<1>7. Enough'
  BY <1>1, <1>6, EnoughAfterPut
<1> QED
  BY <1>5, <1>7, MovesKeep

LEMMA RequeueMoves ==
  ASSUME TypeOK, TypeOK', LoopInv, NEW id \in Ids, LoopRequeue(id)
  PROVE  LoopInv'
<1>1. /\ Turn(id) /\ pc[id] = "taken" /\ pc' = [pc EXCEPT ![id] = "yielded"]
      /\ ready' = Append(Rest \o Woken, id) /\ getters' = NotWoken /\ current' = None
      /\ resolved' = Append(resolved, held[id])
  BY DEF LoopRequeue, Requeue
<1>2. pc'[id] = "yielded" /\ \A x \in Ids \ {id} : pc'[x] = pc[x]
  BY <1>1 DEF TypeOK
<1>3. QueuesTyped
  BY DEF LoopInv
<1>4. /\ Rest \in Seq(Ids)
      /\ \A x \in Ids :
           /\ Occurrences(Rest, x) \in Nat
           /\ Occurrences(ready, x) + (IF current = x THEN 1 ELSE 0)
                = Occurrences(Rest, x) + (IF x = id THEN 1 ELSE 0)
  BY <1>1, <1>3, TurnCounts
<1>5. /\ Rest \o Woken \in Seq(Ids) /\ getters' \in Seq(Ids)
      /\ \A x \in Ids :
           /\ Occurrences(getters', x) \in Nat
           /\ Occurrences(Rest \o Woken, x) = Occurrences(Rest, x)
                + (IF getters # <<>> /\ Head(getters) = x THEN 1 ELSE 0)
           /\ Occurrences(getters, x) = Occurrences(getters', x)
                + (IF getters # <<>> /\ Head(getters) = x THEN 1 ELSE 0)
  BY <1>1, <1>3, <1>4, WokenCounts
<1>6. ready' \in Seq(Ids)
  BY <1>1, <1>5, AppendProperties
<1>7. ASSUME NEW x \in Ids PROVE Placed(x)' = Placed(x)
  <2> DEFINE woken == IF getters # <<>> /\ Head(getters) = x THEN 1 ELSE 0
             this  == IF x = id THEN 1 ELSE 0
             old   == Occurrences(ready, x)
             rest  == Occurrences(Rest, x)
             left  == Occurrences(getters', x)
  <2>1. /\ rest \in Nat /\ left \in Nat /\ old \in Nat
        /\ old + (IF current = x THEN 1 ELSE 0) = rest + this
        /\ Occurrences(getters, x) = left + woken
    BY <1>4, <1>5, PlacedCounts
  <2>2. Occurrences(ready', x) = (rest + woken) + this
    <3>1. /\ Occurrences(Rest \o Woken, x) \in Nat
          /\ Occurrences(ready', x) = IF id = x THEN Occurrences(Rest \o Woken, x) + 1
                                      ELSE Occurrences(Rest \o Woken, x)
      <4> DEFINE queue == Rest \o Woken
      <4>1. queue \in Seq(Ids) /\ ready' = Append(queue, id)
        BY <1>1, <1>5
      <4> HIDE DEF queue
      <4>2. /\ Occurrences(queue, x) \in Nat
            /\ Occurrences(Append(queue, id), x) =
                 IF id = x THEN Occurrences(queue, x) + 1 ELSE Occurrences(queue, x)
        BY <4>1, OccurrencesAppend
      <4> QED
        BY <4>1, <4>2 DEF queue
    <3>2. Occurrences(Rest \o Woken, x) = rest + woken
      BY <1>5
    <3> HIDE DEF woken, rest
    <3> QED
      BY <3>1, <3>2
  <2>3. current' # x /\ woken \in Nat /\ this \in Nat
    BY <1>1, EventLoopAssumption
  <2>4. Placed(x) = old + Occurrences(getters, x) + (IF current = x THEN 1 ELSE 0)
    BY DEF Placed
  <2>5. Placed(x)' = Occurrences(ready', x) + left + (IF current' = x THEN 1 ELSE 0)
    BY DEF Placed
  <2> HIDE DEF woken, this, old, rest, left
  <2> QED
    BY <2>1, <2>2, <2>3, <2>4, <2>5
<1>8. Moves(id)
  <2>1. Placed(id)' = IF Open(id)' THEN 1 ELSE 0
    <3>1. Open(id)' /\ Open(id)
      BY <1>1, <1>2 DEF Open, Pending
    <3> QED
      BY <1>7, <3>1, PlacedCounts
  <2>2. Suspended'
    <3> SUFFICES ASSUME NEW x \in Ids, Occurrences(getters', x) # 0
                 PROVE  pc'[x] = "waiting"
      BY DEF Suspended
    <3>1. Occurrences(getters, x) # 0
      BY SMTT(30), <1>5
    <3>2. pc[x] = "waiting"
      BY <3>1 DEF LoopInv, Suspended
    <3> QED
      BY <1>1, <1>2, <3>2
  <2> QED
    BY <1>1, <1>2, <1>5, <1>6, <1>7, <2>1, <2>2 DEF Moves, QueuesTyped
<1>9. Len(resolved) \in Nat /\ Len(resolved') = Len(resolved) + 1
  BY <1>1, LenProperties, AppendProperties DEF TypeOK
<1>10. Enough'
  BY <1>1, <1>2, <1>9, EnoughAfterPut
<1> QED
  BY <1>8, <1>10, MovesKeep

\* Giving up: a task on its way that leaves resolutions behind passes the wake-up on.
LEMMA DropMoves ==
  ASSUME TypeOK, TypeOK', LoopInv, NEW id \in Ids, NEW place \in Left,
         current = None, Interruptible(id), Drop(id), resolved' = resolved,
         pc[id] \in {"waiting", "yielded"}, pc' = [pc EXCEPT ![id] = place]
  PROVE  LoopInv'
<1>1. /\ QueuesTyped /\ ready \in Seq(Ids) /\ getters \in Seq(Ids)
      /\ current' = current /\ \A x \in Ids : current # x
  BY EventLoopAssumption DEF LoopInv, QueuesTyped, Drop
<1>2. pc'[id] = place /\ \A x \in Ids \ {id} : pc'[x] = pc[x]
  BY DEF TypeOK
<1>3. /\ Occurrences(ready, id) \in Nat /\ Occurrences(getters, id) \in Nat
      /\ Occurrences(ready, id) + Occurrences(getters, id) = 1
  <2>1. Occurrences(ready, id) \in Nat /\ Occurrences(getters, id) \in Nat /\ Placed(id) = 1
    BY PlacedCounts DEF Open, Pending
  <2> QED
    BY <1>1, <2>1 DEF Placed
<1> DEFINE r == RemoveFirst(ready, id)
           g == RemoveFirst(getters, id)
           passOn == pc[id] = "waiting" /\ Contains(ready, id) /\ resolved # <<>>
<1>4. /\ r \in Seq(Ids) /\ Occurrences(r, id) = 0
      /\ \A x \in Ids \ {id} : Occurrences(r, x) = Occurrences(ready, x)
  BY <1>1, <1>3, CountRemoved
<1>5. /\ g \in Seq(Ids) /\ Occurrences(g, id) = 0
      /\ \A x \in Ids \ {id} : Occurrences(g, x) = Occurrences(getters, x)
      /\ getters = <<>> => g = <<>>
  <2>1. getters = <<>> => Occurrences(getters, id) = 0
    <3> SUFFICES ASSUME getters = <<>> PROVE ~ Contains(getters, id)
      BY <1>1, CountIsNat
    <3> QED
      BY DEF Contains
  <2> QED
    BY <1>1, <1>3, <2>1, CountRemoved
<1>6. Contains(ready, id) <=> Occurrences(ready, id) # 0
  BY <1>1, CountIsNat
<1>7. /\ ready' = r \o (IF passOn THEN Woken ELSE <<>>)
      /\ getters' = IF passOn THEN NotWoken ELSE g
  BY DEF Drop
<1> HIDE DEF r, g, passOn
<1>8. ~ Open(id)'
  BY <1>2 DEF Open, Pending, Left
<1>9. CASE passOn
  <2>1. Occurrences(ready, id) = 1 /\ Occurrences(getters, id) = 0 /\ pc[id] = "waiting"
    BY <1>3, <1>6, <1>9 DEF passOn
  <2>2. ready' = r \o Woken /\ getters' = NotWoken
    BY <1>7, <1>9
  <2>3. /\ ready' \in Seq(Ids) /\ getters' \in Seq(Ids)
        /\ getters = <<>> => getters' = <<>>
        /\ getters # <<>> => Head(getters) \in Ids
        /\ \A x \in Ids :
             /\ Occurrences(r, x) \in Nat /\ Occurrences(getters', x) \in Nat
             /\ Occurrences(ready', x) = Occurrences(r, x)
                  + (IF getters # <<>> /\ Head(getters) = x THEN 1 ELSE 0)
             /\ Occurrences(getters, x) = Occurrences(getters', x)
                  + (IF getters # <<>> /\ Head(getters) = x THEN 1 ELSE 0)
    BY <1>1, <1>4, <2>2, WokenCounts
  <2>4. ASSUME NEW x \in Ids
        PROVE  Placed(x)' = IF x = id THEN 0 ELSE Placed(x)
    <3> DEFINE woken == IF getters # <<>> /\ Head(getters) = x THEN 1 ELSE 0
    <3>1. /\ Occurrences(r, x) \in Nat /\ Occurrences(getters', x) \in Nat /\ woken \in Nat
          /\ Occurrences(ready', x) = Occurrences(r, x) + woken
          /\ Occurrences(getters, x) = Occurrences(getters', x) + woken
      BY <2>3
    <3>2. Placed(x)' = Occurrences(ready', x) + Occurrences(getters', x)
      <4>1. Occurrences(ready', x) \in Nat
        BY <2>3, CountIsNat
      <4> QED
        BY <1>1, <3>1, <4>1 DEF Placed
    <3>3. Placed(x) = Occurrences(ready, x) + Occurrences(getters, x)
      BY <1>1, PlacedCounts DEF Placed
    <3> HIDE DEF woken
    <3>4. CASE x = id
      BY <1>4, <2>1, <3>1, <3>2, <3>4
    <3>5. CASE x # id
      BY <1>4, <3>1, <3>2, <3>3, <3>5
    <3> QED
      BY <3>4, <3>5
  <2>5. Moves(id)
    <3>1. Suspended'
      <4> SUFFICES ASSUME NEW x \in Ids, Occurrences(getters', x) # 0
                   PROVE  pc'[x] = "waiting"
        BY DEF Suspended
      <4>1. Occurrences(getters, x) # 0
        BY SMTT(30), <2>3
      <4>2. pc[x] = "waiting" /\ x # id
        BY <2>1, <4>1 DEF LoopInv, Suspended
      <4> QED
        BY <1>2, <4>2
    <3> QED
      BY <1>1, <1>2, <1>8, <2>3, <2>4, <3>1 DEF Moves, QueuesTyped
  <2>6. Enough'
    <3>1. CASE getters = <<>>
      BY <2>3, <3>1 DEF Enough
    <3>2. CASE getters # <<>>
      <4> DEFINE h == Head(getters)
      <4>1. /\ h \in Ids /\ pc[h] = "waiting" /\ h \notin OnTheWay
            /\ Occurrences(NotWoken, h) = 0
            /\ \A x \in Ids : Occurrences(getters, x) = 0 => Occurrences(NotWoken, x) = 0
        BY <3>2, WokenIsNew
      <4> HIDE DEF h
      <4>2. OnTheWay \in SUBSET Ids /\ OnTheWay' \in SUBSET Ids /\ id \in OnTheWay
        BY <2>1 DEF OnTheWay
      <4>3. (OnTheWay \ {id}) \cup {h} \subseteq OnTheWay'
        BY <1>2, <2>2, <4>1, <4>2 DEF OnTheWay
      <4>4. /\ Cardinality(OnTheWay) \in Nat /\ Cardinality(OnTheWay') \in Nat
            /\ IsFiniteSet(OnTheWay \ {id})
            /\ Cardinality(OnTheWay \ {id}) = Cardinality(OnTheWay) - 1
        BY <4>2, WaysFinite, FS_RemoveElement
      <4>5. Cardinality((OnTheWay \ {id}) \cup {h}) = Cardinality(OnTheWay \ {id}) + 1
        BY <4>1, <4>4, FS_AddElement
      <4>6. Cardinality((OnTheWay \ {id}) \cup {h}) <= Cardinality(OnTheWay')
        BY <4>2, <4>3, MoreWays
      <4>7. Len(resolved) <= Cardinality(OnTheWay) /\ Len(resolved) \in Nat
        BY <3>2, QueueLength DEF LoopInv, Enough
      <4> QED
        BY <4>4, <4>5, <4>6, <4>7 DEF Enough
    <3> QED
      BY <3>1, <3>2
  <2> QED
    BY <2>5, <2>6, MovesKeep
<1>10. CASE ~ passOn
  <2>1. ready' = r /\ getters' = g
    BY <1>4, <1>7, <1>10, ConcatEmptySeq
  <2>2. ASSUME NEW x \in Ids
        PROVE  Placed(x)' = IF x = id THEN 0 ELSE Placed(x)
    <3>1. CASE x = id
      BY <1>1, <1>4, <1>5, <2>1, <3>1 DEF Placed
    <3>2. CASE x # id
      BY <1>1, <1>4, <1>5, <2>1, <3>2 DEF Placed
    <3> QED
      BY <3>1, <3>2
  <2>3. Moves(id)
    <3>1. Suspended'
      BY <1>2, <1>5, <2>1 DEF LoopInv, Suspended
    <3> QED
      BY <1>1, <1>2, <1>4, <1>5, <1>8, <2>1, <2>2, <3>1 DEF Moves, QueuesTyped
  <2>4. CASE resolved = <<>>
    <3>1. OnTheWay' \in SUBSET Ids
      BY DEF OnTheWay
    <3>2. Cardinality(OnTheWay') \in Nat /\ Len(resolved') = 0
      BY <2>4, <3>1, WaysFinite, QueueLength
    <3>3. Enough'
      BY <3>2 DEF Enough
    <3> QED
      BY <2>3, <3>3, MovesKeep
  <2>5. CASE resolved # <<>>
    <3>1. id \notin OnTheWay
      BY <1>3, <1>6, <1>10, <2>5 DEF OnTheWay, passOn
    <3>2. OnTheWay \subseteq OnTheWay'
      BY <1>2, <1>5, <2>1, <3>1 DEF OnTheWay
    <3>3. Enough'
      BY <1>5, <2>1, <3>2, QueueLength, EnoughKept DEF LoopInv
    <3> QED
      BY <2>3, <3>3, MovesKeep
  <2> QED
    BY <2>4, <2>5
<1> QED
  BY <1>9, <1>10

LEMMA LoopInvStep ==
  ASSUME TypeOK, TypeOK', LoopInv, [LoopNext]_allVars
  PROVE  LoopInv'
<1>1. ASSUME NEW id \in Ids, LoopRequest(id) PROVE LoopInv'
  BY <1>1, RequestMoves
<1>2. ASSUME NEW id \in Ids, LoopStep(id) PROVE LoopInv'
  BY <1>2, TakeMoves, SuspendMoves, MatchMoves, RequeueMoves, ResumeMoves DEF LoopStep
<1>3. ASSUME NEW id \in Ids, LoopTimeout(id) PROVE LoopInv'
  <2>1. /\ current = None /\ Interruptible(id) /\ Drop(id) /\ resolved' = resolved
        /\ pc[id] = "waiting" /\ pc' = [pc EXCEPT ![id] = "timedout"]
    BY <1>3 DEF LoopTimeout, Timeout
  <2>2. "timedout" \in Left
    BY DEF Left
  <2> QED
    BY <2>1, <2>2, DropMoves
<1>4. ASSUME NEW id \in Ids, LoopCancel(id) PROVE LoopInv'
  <2>1. /\ current = None /\ Interruptible(id) /\ Drop(id) /\ resolved' = resolved
        /\ pc[id] \in {"waiting", "yielded"} /\ pc' = [pc EXCEPT ![id] = "cancelled"]
    BY <1>4 DEF LoopCancel, Cancel
  <2>2. "cancelled" \in Left
    BY DEF Left
  <2> QED
    BY <2>1, <2>2, DropMoves
<1>5. CASE LoopSee \/ UNCHANGED allVars
  <2>1. /\ pc' = pc /\ resolved' = resolved
        /\ ready' = ready /\ getters' = getters /\ current' = current
    BY <1>5 DEF LoopSee, See, allVars, vars, loopVars
  <2> QED
    BY <2>1 DEF LoopInv, QueuesTyped, OneTaskEach, Suspended, Enough, OnTheWay, Open
<1>6. ASSUME NEW id \in Ids, NEW d \in Decisions, LoopAnswer(id, d) PROVE LoopInv'
  BY <1>6, AnswerMoves
<1> QED
  BY <1>1, <1>2, <1>3, <1>4, <1>5, <1>6 DEF LoopNext

LEMMA LoopInvInit == LoopInit => LoopInv
<1> SUFFICES ASSUME LoopInit PROVE LoopInv
  OBVIOUS
<1>1. ready = <<>> /\ getters = <<>> /\ current = None /\ pc = [id \in Ids |-> "idle"]
  BY DEF LoopInit, Init
<1>2. QueuesTyped
  BY <1>1, EmptySeq DEF QueuesTyped
<1>3. ASSUME NEW id \in Ids PROVE Occurrences(<<>>, id) = 0
  BY FS_EmptySet DEF Occurrences
<1>4. OneTaskEach
  BY <1>1, <1>3, EventLoopAssumption DEF OneTaskEach, Open, Pending
<1> QED
  BY <1>1, <1>2, <1>3, <1>4 DEF LoopInv, Suspended, Enough

LEMMA LoopInvariant == LoopSpec => []LoopInv
<1>1. LoopSpec => []TypeOK
  BY LoopImplementsBus, TypeCorrect, PTL
<1>2. TypeOK /\ TypeOK' /\ LoopInv /\ [LoopNext]_allVars => LoopInv'
  BY LoopInvStep
<1> QED
  BY <1>1, <1>2, LoopInvInit, PTL DEF LoopSpec

\* The queues of the event loop hold tasks of requests and nothing else, and those of
\* the bus requests and resolutions.
THEOREM LoopTypeCorrect == LoopSpec => []LoopTypeOK
BY LoopInvariant, LoopImplementsBus, TypeCorrect, PTL DEF LoopInv, LoopTypeOK

\* Every open request has one task, in one place; no other task is left behind.
THEOREM OneTaskEachHolds == LoopSpec => []OneTaskEach
BY LoopInvariant, PTL DEF LoopInv

\* No request sleeps through its answer: while a resolution is in the queue and a
\* request is suspended, some task is on its way to the queue.
THEOREM NoLostWakeupHolds == LoopSpec => []NoLostWakeup
<1>1. TypeOK /\ LoopInv => NoLostWakeup
  <2> SUFFICES ASSUME TypeOK, LoopInv, resolved # <<>>, getters # <<>>
               PROVE  \E id \in Ids : pc[id] = "waiting" /\ ~ Contains(getters, id)
    BY DEF NoLostWakeup
  <2>1. Len(resolved) \in Nat /\ Len(resolved) # 0
    BY LenProperties, EmptySeq DEF TypeOK
  <2>2. Len(resolved) <= Cardinality(OnTheWay)
    BY DEF LoopInv, Enough
  <2>3. OnTheWay # {}
    <3>1. Cardinality({}) = 0
      BY FS_EmptySet
    <3> QED
      BY <2>1, <2>2, <3>1
  <2>4. PICK id \in Ids : pc[id] = "waiting" /\ Occurrences(getters, id) = 0
    BY <2>3 DEF OnTheWay
  <2>5. ~ Contains(getters, id)
    BY <2>4, CountIsNat DEF LoopInv, QueuesTyped
  <2> QED
    BY <2>4, <2>5
<1>2. LoopSpec => []TypeOK
  BY LoopImplementsBus, TypeCorrect, PTL
<1> QED
  BY <1>1, <1>2, LoopInvariant, PTL
=============================================================================
