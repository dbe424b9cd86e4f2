--------------------------- MODULE EventBusProofs ---------------------------
(***************************************************************************)
(* What the runs of EventBus check on small instances, proved for every    *)
(* set of requests, every number of answers and any concurrency.           *)
(***************************************************************************)
EXTENDS EventBus, QueueProofs, FiniteSetTheorems

(***************************************************************************)
(* The inductive invariant                                                 *)
(***************************************************************************)

LEMMA InitInvariant == Init => IInv
BY DEF Init, IInv, TypeOK, Place, Pending, Left, QueuePublished,
       HandsPublished, HandsEmpty, OwnAnswer, KnownMade,
            LogMade, ToSet

LEMMA NextInvariant == IInv /\ [Next]_vars => IInv'
<1> SUFFICES ASSUME IInv, [Next]_vars PROVE IInv'
  OBVIOUS
<1> USE DEF IInv, TypeOK, Place, Pending, Left, QueuePublished,
            HandsPublished, HandsEmpty, OwnAnswer, KnownMade,
            LogMade
<1>0. /\ ToSet(log) \subseteq Resolution
      /\ ToSet(requested) \subseteq Ids
  BY HeldTyped
<1>1. ASSUME NEW id \in Ids, Request(id) PROVE IInv'
  <2>1. /\ requested' \in Seq(Ids)
        /\ ToSet(requested') = ToSet(requested) \cup {id}
    BY <1>1, PutHolds DEF Request
  <2> QED
    BY <1>0, <1>1, <2>1 DEF Request
<1>2. ASSUME NEW id \in Ids, Take(id) PROVE IInv'
  <2>1. /\ Head(resolved) \in Resolution /\ resolved' \in Seq(Resolution)
        /\ ToSet(resolved) = ToSet(resolved') \cup {Head(resolved)}
    BY <1>2, GetHolds DEF Take
  <2> QED
    BY <1>2, <2>1 DEF Take
<1>3. ASSUME NEW id \in Ids, Match(id) PROVE IInv'
  BY <1>3 DEF Match
<1>4. ASSUME NEW id \in Ids, Requeue(id) PROVE IInv'
  <2>1. held[id] \in ToSet(log) /\ held[id] \in Resolution
    BY <1>0, <1>4 DEF Requeue
  <2>2. /\ resolved' \in Seq(Resolution)
        /\ ToSet(resolved') = ToSet(resolved) \cup {held[id]}
    BY <1>4, <2>1, PutHolds DEF Requeue
  <2> QED
    BY <1>4, <2>1, <2>2 DEF Requeue
<1>5. ASSUME NEW id \in Ids, Resume(id) PROVE IInv'
  BY <1>5 DEF Resume
<1>6. ASSUME NEW id \in Ids, Timeout(id) PROVE IInv'
  BY <1>6 DEF Timeout
<1>7. ASSUME NEW id \in Ids, Cancel(id) PROVE IInv'
  BY <1>7 DEF Cancel
<1>8. CASE See
  <2>1. /\ Head(requested) \in Ids /\ requested' \in Seq(Ids)
        /\ ToSet(requested) = ToSet(requested') \cup {Head(requested)}
    BY <1>8, GetHolds DEF See
  <2> QED
    BY <1>8, <2>1 DEF See
<1>9. ASSUME NEW id \in Ids, NEW d \in Decisions, Answer(id, d) PROVE IInv'
  <2> DEFINE r == [id |-> id, decision |-> d]
  <2>1. r \in Resolution /\ r.id = id
    BY DEF Resolution
  <2>2. resolved' = Append(resolved, r) /\ log' = Append(log, r)
    BY <1>9 DEF Answer
  <2> HIDE DEF r
  <2>3. /\ resolved' \in Seq(Resolution) /\ log' \in Seq(Resolution)
        /\ ToSet(resolved') = ToSet(resolved) \cup {r}
        /\ ToSet(log') = ToSet(log) \cup {r}
    BY <2>1, <2>2, PutHolds
  <2> QED
    BY <1>9, <2>1, <2>3 DEF Answer
<1>10. CASE UNCHANGED vars
  BY <1>10 DEF vars
<1> QED
  BY <1>1, <1>2, <1>3, <1>4, <1>5, <1>6, <1>7, <1>8, <1>9, <1>10 DEF Next, Step

THEOREM Invariance == Spec => []IInv
BY InitInvariant, NextInvariant, PTL DEF Spec

\* The variables keep their types: in particular no task ever comes to compare
\* or put back a resolution it does not have.
THEOREM TypeCorrect == Spec => []TypeOK
<1>1. IInv => TypeOK
  BY DEF IInv
<1> QED
  BY <1>1, Invariance, PTL

(***************************************************************************)
(* Refinement                                                              *)
(***************************************************************************)

LEMMA InitRefines == Init => Abs!AbsInit
BY DEF Init, Abs!AbsInit, statusBar, decidedBar, ToSet, Pending

(***************************************************************************)
(* What the steps of the bus do to the state of Approvals                  *)
(***************************************************************************)

LEMMA RequestOpens ==
  ASSUME IInv, NEW id \in Ids, Request(id)
  PROVE  /\ statusBar[id] = "idle" /\ decidedBar' = decidedBar
         /\ statusBar' = [statusBar EXCEPT ![id] = "open"]
BY DEF IInv, TypeOK, Place, Pending, Left, Request, statusBar, decidedBar

LEMMA RoundsAreSilent ==
  ASSUME IInv, NEW id \in Ids, Take(id) \/ Requeue(id) \/ Resume(id)
  PROVE  statusBar' = statusBar /\ decidedBar' = decidedBar
<1>1. statusBar' = statusBar
  BY DEF IInv, TypeOK, Place, Pending, Left, Take, Requeue, Resume, statusBar
<1>2. decidedBar' = decidedBar
  BY DEF Take, Requeue, Resume, decidedBar
<1> QED
  BY <1>1, <1>2

LEMMA MatchCloses ==
  ASSUME IInv, NEW id \in Ids, Match(id)
  PROVE  /\ statusBar[id] = "open" /\ decidedBar' = decidedBar
         /\ held[id].decision \in decidedBar[id]
         /\ held[id].decision \in Decisions
         /\ statusBar' = [statusBar EXCEPT ![id] = held[id].decision]
<1> USE DEF IInv, TypeOK, Place, Pending, Left
<1>1. /\ held[id] \in ToSet(log) /\ held[id].id = id
      /\ held' = held /\ log' = log
  BY DEF Match, HandsPublished
<1>2. held[id].decision \in decidedBar[id]
  BY <1>1 DEF decidedBar
<1>3. held[id].decision \in Decisions
  <2>1. held[id] \in Resolution
    BY <1>1, HeldTyped
  <2> QED
    BY <2>1 DEF Resolution
<1>4. statusBar[id] = "open"
  BY DEF Match, statusBar
<1>5. statusBar' = [statusBar EXCEPT ![id] = held[id].decision]
  BY <1>1 DEF Match, statusBar
<1>6. decidedBar' = decidedBar
  BY <1>1 DEF decidedBar
<1> QED
  BY <1>2, <1>3, <1>4, <1>5, <1>6

LEMMA TimeoutExpires ==
  ASSUME IInv, NEW id \in Ids, Timeout(id)
  PROVE  /\ statusBar[id] = "open" /\ decidedBar' = decidedBar
         /\ statusBar' = [statusBar EXCEPT ![id] = "timedout"]
BY DEF IInv, TypeOK, Place, Pending, Left, Timeout, statusBar, decidedBar

LEMMA CancelAbandons ==
  ASSUME IInv, NEW id \in Ids, Cancel(id)
  PROVE  /\ statusBar[id] = "open" /\ decidedBar' = decidedBar
         /\ statusBar' = [statusBar EXCEPT ![id] = "cancelled"]
BY DEF IInv, TypeOK, Place, Pending, Left, Cancel, statusBar, decidedBar

LEMMA SeeIsSilent ==
  ASSUME See PROVE statusBar' = statusBar /\ decidedBar' = decidedBar
BY DEF See, statusBar, decidedBar

\* Approvers know only of requests that were made.
LEMMA AnswerDecides ==
  ASSUME IInv, NEW id \in Ids, NEW d \in Decisions, Answer(id, d)
  PROVE  /\ statusBar[id] # "idle" /\ statusBar' = statusBar
         /\ decidedBar' = [decidedBar EXCEPT ![id] = @ \cup {d}]
<1> USE DEF IInv, TypeOK, Place, Pending, Left
<1> DEFINE r == [id |-> id, decision |-> d]
<1>1. r \in Resolution /\ r.id = id /\ r.decision = d
  BY DEF Resolution
<1>2. log' = Append(log, r)
  BY DEF Answer
<1> HIDE DEF r
<1>3. ToSet(log') = ToSet(log) \cup {r}
  BY <1>1, <1>2, PutHolds
<1>4. decidedBar' = [decidedBar EXCEPT ![id] = @ \cup {d}]
  <2>1. ASSUME NEW i \in Ids
        PROVE  decidedBar'[i] = [decidedBar EXCEPT ![id] = @ \cup {d}][i]
    <3>1. CASE i = id
      BY <1>1, <1>3, <3>1 DEF decidedBar
    <3>2. CASE i # id
      BY <1>1, <1>3, <3>2 DEF decidedBar
    <3> QED
      BY <3>1, <3>2
  <2> QED
    BY <2>1 DEF decidedBar
<1>5. statusBar' = statusBar
  BY DEF Answer, statusBar
<1>6. statusBar[id] # "idle"
  <2>1. pc[id] # "idle"
    BY DEF Answer, KnownMade
  <2>2. CASE pc[id] = "returned"
    <3>1. held[id] \in ToSet(log)
      BY <2>2 DEF HandsPublished
    <3>2. held[id] \in Resolution
      BY <3>1, HeldTyped
    <3>3. held[id].decision \in Decisions
      BY <3>2 DEF Resolution
    <3> QED
      BY <2>2, <3>3 DEF statusBar, Decisions
  <2> QED
    BY <2>1, <2>2 DEF statusBar
<1> QED
  BY <1>4, <1>5, <1>6

\* Each step of the bus is a step of Approvals or leaves its state alone.
LEMMA NextRefines == IInv /\ [Next]_vars => [Abs!AbsNext]_(Abs!absVars)
<1> SUFFICES ASSUME IInv, [Next]_vars PROVE [Abs!AbsNext]_(Abs!absVars)
  OBVIOUS
<1>1. ASSUME NEW id \in Ids, Request(id) PROVE Abs!Open(id)
  BY <1>1, RequestOpens DEF Abs!Open
<1>2. ASSUME NEW id \in Ids, Take(id) \/ Requeue(id) \/ Resume(id)
      PROVE  UNCHANGED Abs!absVars
  BY <1>2, RoundsAreSilent DEF Abs!absVars
<1>3. ASSUME NEW id \in Ids, Match(id) PROVE Abs!Close(id)
  BY <1>3, MatchCloses DEF Abs!Close
<1>4. ASSUME NEW id \in Ids, Timeout(id) PROVE Abs!Expire(id)
  BY <1>4, TimeoutExpires DEF Abs!Expire
<1>5. ASSUME NEW id \in Ids, Cancel(id) PROVE Abs!Abandon(id)
  BY <1>5, CancelAbandons DEF Abs!Abandon
<1>6. CASE See
  BY <1>6, SeeIsSilent DEF Abs!absVars
<1>7. ASSUME NEW id \in Ids, NEW d \in Decisions, Answer(id, d)
      PROVE  Abs!Decide(id, d)
  BY <1>7, AnswerDecides DEF Abs!Decide
<1>8. CASE UNCHANGED vars
  BY <1>8 DEF vars, Abs!absVars, statusBar, decidedBar
<1> QED
  BY <1>1, <1>2, <1>3, <1>4, <1>5, <1>6, <1>7, <1>8
     DEF Next, Step, Abs!AbsNext

\* The bus implements Approvals: whatever order requests, answers, timeouts and
\* cancellations come in, a request is decided only by a resolution an approver
\* published for it, and its outcome stays what it was.
THEOREM Refinement == Spec => ImplementsApprovals
<1>1. Spec => []IInv
  BY Invariance
<1> QED
  BY <1>1, InitRefines, NextRefines, PTL DEF Spec, ImplementsApprovals, Abs!AbsSpec

(***************************************************************************)
(* Conservation                                                            *)
(***************************************************************************)

LEMMA OccurrencesAppend ==
  ASSUME NEW S, NEW s \in Seq(S), NEW e \in S, NEW r
  PROVE  /\ Occurrences(s, r) \in Nat
         /\ Occurrences(Append(s, e), r) =
              IF e = r THEN Occurrences(s, r) + 1 ELSE Occurrences(s, r)
<1> DEFINE At(t) == {i \in DOMAIN t : t[i] = r}
           n     == Len(s)
<1>1. /\ n \in Nat /\ DOMAIN s = 1..n
      /\ DOMAIN Append(s, e) = 1..(n + 1)
      /\ \A i \in 1..n : Append(s, e)[i] = s[i]
      /\ Append(s, e)[n + 1] = e
  BY AppendProperties, LenProperties
<1>2. IsFiniteSet(At(s)) /\ n + 1 \notin At(s)
  <2>1. IsFiniteSet(1..n)
    BY <1>1, FS_Interval
  <2> QED
    BY <1>1, <2>1, FS_Subset
<1>3. At(Append(s, e)) = IF e = r THEN At(s) \cup {n + 1} ELSE At(s)
  BY <1>1
<1>4. Cardinality(At(s)) \in Nat
  BY <1>2, FS_CardinalityType
<1>5. Cardinality(At(s) \cup {n + 1}) = Cardinality(At(s)) + 1
  BY <1>2, FS_AddElement
<1> QED
  BY <1>3, <1>4, <1>5 DEF Occurrences

LEMMA OccurrencesTail ==
  ASSUME NEW S, NEW s \in Seq(S), s # <<>>, NEW r
  PROVE  /\ Occurrences(Tail(s), r) \in Nat
         /\ Occurrences(s, r) = IF Head(s) = r THEN Occurrences(Tail(s), r) + 1
                                ELSE Occurrences(Tail(s), r)
<1> DEFINE At(t) == {i \in DOMAIN t : t[i] = r}
           Later == At(s) \ {1}
           shift == [i \in At(Tail(s)) |-> i + 1]
           n     == Len(s)
<1>1. /\ n \in Nat \ {0} /\ DOMAIN s = 1..n
      /\ DOMAIN Tail(s) = 1..(n - 1)
      /\ \A i \in 1..(n - 1) : Tail(s)[i] = s[i + 1]
      /\ Head(s) = s[1]
  BY HeadTailProperties, LenProperties, EmptySeq
<1>2. IsFiniteSet(At(s)) /\ IsFiniteSet(At(Tail(s)))
  <2>1. IsFiniteSet(1..n) /\ IsFiniteSet(1..(n - 1))
    BY <1>1, FS_Interval
  <2> QED
    BY <1>1, <2>1, FS_Subset
<1>3. ExistsBijection(At(Tail(s)), Later)
  <2>1. shift \in [At(Tail(s)) -> Later]
    BY <1>1
  <2>2. \A i, j \in At(Tail(s)) : shift[i] = shift[j] => i = j
    BY <1>1
  <2>3. \A k \in Later : \E i \in At(Tail(s)) : shift[i] = k
    <3> SUFFICES ASSUME NEW k \in Later
                 PROVE  k - 1 \in At(Tail(s)) /\ shift[k - 1] = k
      OBVIOUS
    <3> QED
      BY <1>1
  <2>4. shift \in Bijection(At(Tail(s)), Later)
    BY <2>1, <2>2, <2>3 DEF Bijection, Injection, Surjection, IsInjective
  <2> QED
    BY <2>4 DEF ExistsBijection
<1>4. IsFiniteSet(Later) /\ Cardinality(Later) = Cardinality(At(Tail(s)))
  BY <1>2, <1>3, FS_Bijection
<1>5. Cardinality(At(Tail(s))) \in Nat
  BY <1>2, FS_CardinalityType
<1>6. CASE Head(s) = r
  <2>1. At(s) = Later \cup {1} /\ 1 \notin Later
    BY <1>1, <1>6
  <2>2. Cardinality(At(s)) = Cardinality(Later) + 1
    BY <1>4, <2>1, FS_AddElement
  <2> QED
    BY <1>4, <1>5, <1>6, <2>2 DEF Occurrences
<1>7. CASE Head(s) # r
  <2>1. At(s) = Later
    BY <1>1, <1>7
  <2> QED
    BY <1>4, <1>5, <1>7, <2>1 DEF Occurrences
<1> QED
  BY <1>6, <1>7

Holders(h, r) == {id \in Ids : h[id] = r}

\* A task with empty hands takes a resolution; a task puts its resolution back.
LEMMA HoldersChange ==
  ASSUME NEW h \in [Ids -> Resolution \cup {None}], NEW id \in Ids,
         NEW e \in Resolution, h[id] = None, NEW r \in Resolution
  PROVE  /\ Cardinality(Holders(h, r)) \in Nat
         /\ Cardinality(Holders([h EXCEPT ![id] = e], r)) =
              IF e = r THEN Cardinality(Holders(h, r)) + 1
              ELSE Cardinality(Holders(h, r))
<1>1. IsFiniteSet(Holders(h, r)) /\ id \notin Holders(h, r)
  <2>1. IsFiniteSet(Holders(h, r))
    BY EventBusAssumption, FS_Subset DEF Holders
  <2> QED
    BY <2>1, NoneAssumption DEF Holders
<1>2. Holders([h EXCEPT ![id] = e], r) =
        IF e = r THEN Holders(h, r) \cup {id} ELSE Holders(h, r)
  BY NoneAssumption DEF Holders
<1>3. Cardinality(Holders(h, r)) \in Nat
  BY <1>1, FS_CardinalityType
<1>4. Cardinality(Holders(h, r) \cup {id}) = Cardinality(Holders(h, r)) + 1
  BY <1>1, FS_AddElement
<1> QED
  BY <1>2, <1>3, <1>4

LEMMA InitConserves == Init => Conservation
<1> SUFFICES ASSUME Init, NEW r \in Resolution
             PROVE  Occurrences(log, r) = Occurrences(resolved, r)
                                          + Cardinality({id \in Ids : held[id] = r})
  BY DEF Conservation
<1>1. {id \in Ids : held[id] = r} = {}
  BY NoneAssumption DEF Init
<1>2. log = resolved /\ {i \in DOMAIN resolved : resolved[i] = r} = {}
  BY DEF Init
<1> QED
  BY <1>1, <1>2, FS_EmptySet DEF Occurrences

LEMMA NextConserves == IInv /\ Conservation /\ [Next]_vars => Conservation'
<1> SUFFICES ASSUME IInv, Conservation, [Next]_vars, NEW r \in Resolution
             PROVE  Occurrences(log', r) = Occurrences(resolved', r)
                                           + Cardinality(Holders(held', r))
  BY DEF Conservation, Holders
<1>0. /\ Occurrences(log, r) = Occurrences(resolved, r)
                               + Cardinality(Holders(held, r))
      /\ resolved \in Seq(Resolution) /\ log \in Seq(Resolution)
      /\ held \in [Ids -> Resolution \cup {None}]
  BY DEF Conservation, Holders, IInv, TypeOK
<1>1. ASSUME NEW id \in Ids, Take(id)
      PROVE  Occurrences(log', r) = Occurrences(resolved', r)
                                    + Cardinality(Holders(held', r))
  <2>1. held[id] = None
    BY <1>1 DEF Take, IInv, HandsEmpty
  <2>2. /\ resolved # <<>> /\ resolved' = Tail(resolved) /\ log' = log
        /\ held' = [held EXCEPT ![id] = Head(resolved)]
    BY <1>1 DEF Take
  <2>3. Head(resolved) \in Resolution
    BY <1>0, <2>2, HeadTailProperties
  <2>4. /\ Occurrences(resolved', r) \in Nat
        /\ Occurrences(resolved, r) = IF Head(resolved) = r
                                      THEN Occurrences(resolved', r) + 1
                                      ELSE Occurrences(resolved', r)
    BY <1>0, <2>2, OccurrencesTail
  <2>5. /\ Cardinality(Holders(held, r)) \in Nat
        /\ Cardinality(Holders(held', r)) =
             IF Head(resolved) = r THEN Cardinality(Holders(held, r)) + 1
             ELSE Cardinality(Holders(held, r))
    BY ZenonT(30), <1>0, <2>1, <2>2, <2>3, HoldersChange
  <2> QED
    BY <1>0, <2>2, <2>4, <2>5
<1>2. ASSUME NEW id \in Ids, Requeue(id)
      PROVE  Occurrences(log', r) = Occurrences(resolved', r)
                                    + Cardinality(Holders(held', r))
  <2>1. /\ resolved' = Append(resolved, held[id]) /\ log' = log
        /\ held' = [held EXCEPT ![id] = None]
    BY <1>2 DEF Requeue
  <2>2. held[id] \in Resolution
    <3>1. held[id] \in ToSet(log)
      BY <1>2 DEF Requeue, IInv, HandsPublished
    <3>2. ToSet(log) \subseteq Resolution
      BY <1>0, HeldTyped
    <3> QED
      BY <3>1, <3>2
  <2>3. /\ Occurrences(resolved, r) \in Nat
        /\ Occurrences(resolved', r) = IF held[id] = r
                                       THEN Occurrences(resolved, r) + 1
                                       ELSE Occurrences(resolved, r)
    BY <1>0, <2>1, <2>2, OccurrencesAppend
  <2>4. /\ held' \in [Ids -> Resolution \cup {None}] /\ held'[id] = None
        /\ held = [held' EXCEPT ![id] = held[id]]
    BY <1>0, <2>1
  <2>5. /\ Cardinality(Holders(held', r)) \in Nat
        /\ Cardinality(Holders(held, r)) =
             IF held[id] = r THEN Cardinality(Holders(held', r)) + 1
             ELSE Cardinality(Holders(held', r))
    <3>1. ASSUME NEW h \in [Ids -> Resolution \cup {None}], h[id] = None
          PROVE  /\ Cardinality(Holders(h, r)) \in Nat
                 /\ Cardinality(Holders([h EXCEPT ![id] = held[id]], r)) =
                      IF held[id] = r THEN Cardinality(Holders(h, r)) + 1
                      ELSE Cardinality(Holders(h, r))
      BY ZenonT(30), <2>2, <3>1, HoldersChange
    <3> QED
      BY <2>4, <3>1
  <2> QED
    BY <1>0, <2>1, <2>3, <2>5
<1>3. ASSUME NEW id \in Ids, NEW d \in Decisions, Answer(id, d)
      PROVE  Occurrences(log', r) = Occurrences(resolved', r)
                                    + Cardinality(Holders(held', r))
  <2> DEFINE e == [id |-> id, decision |-> d]
  <2>1. e \in Resolution
    BY DEF Resolution
  <2>2. resolved' = Append(resolved, e) /\ log' = Append(log, e) /\ held' = held
    BY <1>3 DEF Answer
  <2> HIDE DEF e
  <2>3. /\ Occurrences(resolved, r) \in Nat
        /\ Occurrences(resolved', r) = IF e = r THEN Occurrences(resolved, r) + 1
                                       ELSE Occurrences(resolved, r)
        /\ Occurrences(log, r) \in Nat
        /\ Occurrences(log', r) = IF e = r THEN Occurrences(log, r) + 1
                                  ELSE Occurrences(log, r)
    BY <1>0, <2>1, <2>2, OccurrencesAppend
  <2>4. Cardinality(Holders(held, r)) \in Nat
    <3>1. IsFiniteSet(Holders(held, r))
      BY EventBusAssumption, FS_Subset DEF Holders
    <3> QED
      BY <3>1, FS_CardinalityType
  <2> QED
    BY <1>0, <2>2, <2>3, <2>4
<1>4. CASE UNCHANGED <<resolved, held, log>>
  BY <1>0, <1>4
<1>5. ASSUME NEW id \in Ids,
             Request(id) \/ Match(id) \/ Resume(id) \/ Timeout(id) \/ Cancel(id)
      PROVE  UNCHANGED <<resolved, held, log>>
  BY <1>5 DEF Request, Match, Resume, Timeout, Cancel
<1>6. See \/ UNCHANGED vars => UNCHANGED <<resolved, held, log>>
  BY DEF See, vars
<1> QED
  BY <1>1, <1>2, <1>3, <1>4, <1>5, <1>6 DEF Next, Step

\* No resolution is ever lost, doubled or made up, however many tasks pass
\* however many resolutions around.
THEOREM Conserved == Spec => []Conservation
<1>1. Spec => []IInv
  BY Invariance
<1> QED
  BY <1>1, InitConserves, NextConserves, PTL DEF Spec
=============================================================================
