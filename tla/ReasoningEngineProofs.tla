------------------------ MODULE ReasoningEngineProofs ------------------------
(***************************************************************************)
(* Runs of the engine, for any number of runs, any policy, any completions *)
(* and costs, and any limits: with the approvals that Approvals promises,  *)
(* and then on the event bus.                                              *)
(***************************************************************************)
EXTENDS EngineOnBus, SequenceTheorems, FiniteSetTheorems, TLAPS

LEMMA BudgetTyped == /\ Budget \in Nat /\ Costs \subseteq Nat
                     /\ MaxIterations \in Nat \ {0} /\ ToolCallLimit \in Nat \ {0}
                     /\ Completions \subseteq Seq(Actions) \ {<<>>}
                     /\ LedgerRuns \subseteq Runs
BY EngineAssumption

\* A call joins the calls of its run and leaves the earlier ones in place.
LEMMA CallTaken ==
  ASSUME NEW s \in Seq(Actions), NEW a \in Actions
  PROVE  /\ Append(s, a) \in Seq(Actions)
         /\ Len(s) \in Nat
         /\ Len(Append(s, a)) = Len(s) + 1
         /\ Append(s, a)[Len(s) + 1] = a
         /\ \A n \in 1..Len(s) : Append(s, a)[n] = s[n]
BY AppendProperties, LenProperties

\* The rows a step writes about call n, which is a: none, one, or both.
Rows(r, n, a) == \/ UNCHANGED audit
                 \/ \E outcome \in Outcomes : Record(r, n, a, outcome)
                 \/ RecordBoth(r, n, a)

LEMMA Recorded ==
  ASSUME TypeOK, NEW r \in Runs, NEW n \in 1..ToolCallLimit, NEW a \in Actions,
         Rows(r, n, a)
  PROVE  audit' \in [Runs -> Seq(AuditRow)]
<1> DEFINE Row1(outcome) == [call |-> n, action |-> a, outcome |-> outcome]
<1>1. \A outcome \in Outcomes : Row1(outcome) \in AuditRow
  BY DEF AuditRow
<1>2. audit[r] \in Seq(AuditRow) /\ "success" \in Outcomes /\ "failed" \in Outcomes
  BY DEF TypeOK, Outcomes
<1>3. CASE UNCHANGED audit
  BY <1>3 DEF TypeOK
<1>4. ASSUME NEW outcome \in Outcomes, Record(r, n, a, outcome)
      PROVE  audit' \in [Runs -> Seq(AuditRow)]
  <2>1. audit' = [audit EXCEPT ![r] = Append(audit[r], Row1(outcome))]
    BY <1>4 DEF Record
  <2> HIDE DEF Row1
  <2>2. Append(audit[r], Row1(outcome)) \in Seq(AuditRow)
    BY <1>1, <1>2, AppendProperties
  <2> QED
    BY <2>1, <2>2 DEF TypeOK
<1>5. CASE RecordBoth(r, n, a)
  <2>1. audit' = [audit EXCEPT ![r] =
                    Append(Append(audit[r], Row1("success")), Row1("failed"))]
    BY <1>5 DEF RecordBoth
  <2> HIDE DEF Row1
  <2>2. Append(audit[r], Row1("success")) \in Seq(AuditRow)
    BY <1>1, <1>2, AppendProperties
  <2>3. Append(Append(audit[r], Row1("success")), Row1("failed")) \in Seq(AuditRow)
    BY <1>1, <1>2, <2>2, AppendProperties
  <2> QED
    BY <2>1, <2>3 DEF TypeOK
<1> QED
  BY <1>3, <1>4, <1>5 DEF Rows

\* The two ways to leave a call that were recorded or could not be.
LEMMA Proceeded ==
  ASSUME TypeOK, NEW r \in Runs, pending[r] # <<>>, Proceed(r)
  PROVE  /\ pending' \in [Runs -> Seq(Actions)]
         /\ pending' = [pending EXCEPT ![r] = Tail(pending[r])]
         /\ \/ pc' = [pc EXCEPT ![r] = "loop"]
            \/ pc' = [pc EXCEPT ![r] = "calls"] /\ Tail(pending[r]) # <<>>
BY HeadTailProperties DEF TypeOK, Proceed

LEMMA InitInvariant == Init => IInv
<1> SUFFICES ASSUME Init PROVE IInv
  OBVIOUS
<1>1. TypeOK
  BY BudgetTyped DEF Init, TypeOK, Row, NoRow, StopReasons,
     Ap!AbsInit, Ap!AbsTypeOK, Ap!Status
<1> QED
  BY <1>1, BudgetTyped DEF Init, IInv, AtWork, InvokedTaken, NeverUngated, BudgetKept,
     BilledAhead

(***************************************************************************)
(* What several actions have in common                                     *)
(***************************************************************************)

\* A run that still works owes the ledger nothing, so it may go anywhere.
LEMMA BudgetStays ==
  ASSUME IInv, NEW r \in Runs, NEW to,
         pc[r] \in {"idle", "loop", "calls", "approval"},
         pc' = [pc EXCEPT ![r] = to],
         \A q \in Runs \ {r} : stop'[q] = stop[q],
         UNCHANGED <<ledger, billed>>
  PROVE  BudgetKept' /\ BilledAhead'
BY BudgetTyped DEF IInv, TypeOK, BudgetKept, BilledAhead

LEMMA Iterated ==
  ASSUME TypeOK, NEW r \in Runs, iterations[r] < MaxIterations
  PROVE  [iterations EXCEPT ![r] = @ + 1] \in [Runs -> 0..MaxIterations]
BY BudgetTyped DEF TypeOK

\* calls' is calls, but that run r may have taken the call a.
CallsGrow(r, a) == \/ calls' = calls
                   \/ calls' = [calls EXCEPT ![r] = Append(@, a)]

LEMMA CallsKept ==
  ASSUME TypeOK, NEW r \in Runs, NEW a \in Actions, CallsGrow(r, a)
  PROVE  /\ calls' \in [Runs -> Seq(Actions)]
         /\ \A q \in Runs : /\ Len(calls[q]) \in Nat /\ Len(calls'[q]) \in Nat
                            /\ Len(calls[q]) <= Len(calls'[q])
                            /\ \A n \in 1..Len(calls[q]) : calls'[q][n] = calls[q][n]
<1>1. calls \in [Runs -> Seq(Actions)]
  BY DEF TypeOK
<1>2. ASSUME NEW q \in Runs PROVE Len(calls[q]) \in Nat
  BY <1>1, LenProperties
<1>3. CASE calls' = calls
  BY <1>1, <1>2, <1>3
<1>4. CASE calls' = [calls EXCEPT ![r] = Append(@, a)]
  <2>1. /\ Append(calls[r], a) \in Seq(Actions)
        /\ Len(Append(calls[r], a)) = Len(calls[r]) + 1
        /\ \A n \in 1..Len(calls[r]) : Append(calls[r], a)[n] = calls[r][n]
    BY <1>1, CallTaken
  <2> QED
    BY <1>1, <1>2, <1>4, <2>1
<1> QED
  BY <1>3, <1>4 DEF CallsGrow

\* No executor is invoked, and no decision is taken back.
LEMMA GateStays ==
  ASSUME IInv, NEW r \in Runs, NEW a \in Actions, CallsGrow(r, a),
         executed' = executed,
         \A id \in ApprovalIds : decided[id] \subseteq decided'[id]
  PROVE  InvokedTaken' /\ NeverUngated'
<1>1. \A q \in Runs : /\ Len(calls[q]) \in Nat /\ Len(calls'[q]) \in Nat
                     /\ Len(calls[q]) <= Len(calls'[q])
                     /\ \A n \in 1..Len(calls[q]) : calls'[q][n] = calls[q][n]
  BY CallsKept DEF IInv
<1>2. InvokedTaken'
  BY <1>1 DEF IInv, InvokedTaken, Number
<1>3. NeverUngated'
  <2> SUFFICES ASSUME NEW q \in Runs, NEW n \in executed[q]
               PROVE  \/ Evaluate(calls'[q][n]) = "allow"
                      \/ /\ Evaluate(calls'[q][n]) = "require_approval"
                         /\ "approved" \in decided'[<<q, n>>]
    BY DEF NeverUngated
  <2>1. calls'[q][n] = calls[q][n]
    BY <1>1 DEF IInv, InvokedTaken, Number
  <2>2. <<q, n>> \in ApprovalIds
    BY DEF IInv, TypeOK, ApprovalIds
  <2> QED
    BY <2>1, <2>2 DEF IInv, NeverUngated
<1> QED
  BY <1>2, <1>3

\* Call n, which is a, is invoked, and may be.
LEMMA GateInvokes ==
  ASSUME IInv, NEW r \in Runs, NEW a \in Actions, CallsGrow(r, a),
         NEW n \in 1..Len(calls'[r]), calls'[r][n] = a,
         executed' = [executed EXCEPT ![r] = @ \cup {n}],
         UNCHANGED decided,
         \/ Evaluate(a) = "allow"
         \/ Evaluate(a) = "require_approval" /\ "approved" \in decided[<<r, n>>]
  PROVE  InvokedTaken' /\ NeverUngated'
<1>1. \A q \in Runs : /\ Len(calls[q]) \in Nat /\ Len(calls'[q]) \in Nat
                     /\ Len(calls[q]) <= Len(calls'[q])
                     /\ \A m \in 1..Len(calls[q]) : calls'[q][m] = calls[q][m]
  BY CallsKept DEF IInv
<1>2. executed \in [Runs -> SUBSET (1..ToolCallLimit)]
  BY DEF IInv, TypeOK
<1>3. InvokedTaken'
  BY <1>1, <1>2 DEF IInv, InvokedTaken, Number
<1>4. NeverUngated'
  <2> SUFFICES ASSUME NEW q \in Runs, NEW m \in executed'[q]
               PROVE  \/ Evaluate(calls'[q][m]) = "allow"
                      \/ /\ Evaluate(calls'[q][m]) = "require_approval"
                         /\ "approved" \in decided[<<q, m>>]
    BY DEF NeverUngated
  <2>1. CASE q = r /\ m = n
    BY <2>1
  <2>2. CASE ~(q = r /\ m = n)
    <3>1. m \in executed[q]
      BY <1>2, <2>2
    <3>2. calls'[q][m] = calls[q][m]
      BY <1>1, <3>1 DEF IInv, InvokedTaken, Number
    <3> QED
      BY <3>1, <3>2 DEF IInv, NeverUngated
  <2> QED
    BY <2>1, <2>2
<1> QED
  BY <1>3, <1>4

(***************************************************************************)
(* The steps of the loop over gateway calls                                *)
(***************************************************************************)

LEMMA LoopSteps ==
  ASSUME IInv, NEW r \in Runs,
         Start(r) \/ Gateway(r) \/ Exhausted(r) \/ End(r)
  PROVE  IInv'
<1> USE BudgetTyped
<1>1. /\ calls' = calls /\ executed' = executed /\ audit' = audit
      /\ status' = status /\ decided' = decided
  BY DEF Start, Gateway, NoBudget, OverBudget, FinalAnswer, ToolUse,
         GatewayRaises, LedgerRaises, Exhausted, End, db, appr
<1>2. InvokedTaken' /\ NeverUngated'
  BY <1>1 DEF IInv, InvokedTaken, NeverUngated, Number
<1>3. Ap!AbsTypeOK'
  BY <1>1 DEF IInv, TypeOK, Ap!AbsTypeOK
<1>4. CASE Start(r)
  <2>1. TypeOK'
    <3>1. row' \in [Runs -> Row]
      <4>1. [row[r] EXCEPT !.status = "running"] \in Row
        BY ZenonT(30) DEF IInv, TypeOK, Row
      <4>2. row' = row \/ row' = [row EXCEPT ![r] = [row[r] EXCEPT !.status = "running"]]
        BY <1>4 DEF Start
      <4> QED
        BY <4>1, <4>2 DEF IInv, TypeOK
    <3>2. pc' = [pc EXCEPT ![r] = "loop"] \/ pc' = [pc EXCEPT ![r] = "raised"]
      BY <1>4 DEF Start
    <3> QED
      BY <1>1, <1>3, <1>4, <3>1, <3>2 DEF Start, IInv, TypeOK
  <2>2. AtWork'
    BY <1>1, <1>4 DEF Start, IInv, TypeOK, AtWork, Number
  <2>3. BudgetKept' /\ BilledAhead'
    BY <1>4, BudgetStays DEF Start
  <2> QED
    BY <1>2, <2>1, <2>2, <2>3 DEF IInv
<1>5. CASE NoBudget(r) \/ OverBudget(r)
  <2>1. /\ pc[r] = "loop" /\ iterations[r] < MaxIterations
        /\ iterations' = [iterations EXCEPT ![r] = @ + 1]
        /\ stop' = [stop EXCEPT ![r] = "budget_exceeded"]
        /\ pc' = [pc EXCEPT ![r] = "ending"]
        /\ UNCHANGED <<pending, row, ledger>>
    BY <1>5 DEF NoBudget, OverBudget, Iterate, StopFor, db
  <2>2. billed' = billed \/ \E c \in Costs : billed' = [billed EXCEPT ![r] = @ + c]
    BY <1>5 DEF NoBudget, OverBudget
  <2>3. billed' \in [Runs -> Nat] /\ \A q \in Runs \ {r} : billed'[q] = billed[q]
    <3>1. billed \in [Runs -> Nat] /\ \A c \in Costs : billed[r] + c \in Nat
      BY DEF IInv, TypeOK
    <3> QED
      BY <2>2, <3>1
  <2>4. TypeOK'
    BY <1>1, <1>3, <2>1, <2>3, Iterated DEF IInv, TypeOK, StopReasons
  <2>5. AtWork'
    BY <1>1, <2>1 DEF IInv, TypeOK, AtWork, Number
  <2>6. BudgetKept' /\ BilledAhead'
    BY <2>1, <2>3 DEF IInv, TypeOK, BudgetKept, BilledAhead
  <2> QED
    BY <1>2, <2>4, <2>5, <2>6 DEF IInv
<1>6. CASE FinalAnswer(r) \/ ToolUse(r)
  <2>1. PICK c \in Costs : /\ c <= Budget - ledger[r]
                           /\ ledger' = IF r \in LedgerRuns
                                        THEN [ledger EXCEPT ![r] = @ + c] ELSE ledger
                           /\ billed' = [billed EXCEPT ![r] = @ + c]
    BY <1>6 DEF FinalAnswer, ToolUse, Completed, Remaining
  <2>2. /\ pc[r] = "loop" /\ iterations[r] < MaxIterations
        /\ iterations' = [iterations EXCEPT ![r] = @ + 1] /\ row' = row
    BY <1>6 DEF FinalAnswer, ToolUse, Completed, Iterate
  <2>3. \/ /\ pc' = [pc EXCEPT ![r] = "ending"] /\ pending' = pending
           /\ stop' = [stop EXCEPT ![r] = "done"]
        \/ /\ pc' = [pc EXCEPT ![r] = "calls"] /\ stop' = stop
           /\ \E t \in Completions : pending' = [pending EXCEPT ![r] = t]
    BY <1>6 DEF FinalAnswer, ToolUse, StopFor
  <2>4. /\ ledger' \in [Runs -> Nat] /\ billed' \in [Runs -> Nat]
        /\ ledger'[r] <= Budget
        /\ r \notin LedgerRuns => ledger'[r] = ledger[r]
        /\ r \in LedgerRuns /\ billed[r] = ledger[r] => billed'[r] = ledger'[r]
        /\ \A q \in Runs \ {r} : ledger'[q] = ledger[q] /\ billed'[q] = billed[q]
    <3>1. c \in Nat /\ ledger[r] \in Nat /\ billed[r] \in Nat
      BY DEF IInv, TypeOK
    <3>2. ledger[r] + c \in Nat /\ billed[r] + c \in Nat /\ ledger[r] + c <= Budget
      BY <2>1, <3>1
    <3>3. CASE r \in LedgerRuns
      BY <2>1, <3>2, <3>3 DEF IInv, TypeOK
    <3>4. CASE r \notin LedgerRuns
      BY <2>1, <3>2, <3>4 DEF IInv, TypeOK, BudgetKept
    <3> QED
      BY <3>3, <3>4
  <2>5. TypeOK'
    <3>1. pending' \in [Runs -> Seq(Actions)]
      BY <2>3 DEF IInv, TypeOK
    <3>2. /\ pc' \in [Runs -> {"idle", "loop", "calls", "approval", "ending",
                              "returned", "raised"}]
          /\ stop' \in [Runs -> StopReasons]
      BY <2>3 DEF IInv, TypeOK, StopReasons
    <3> QED
      BY <1>1, <1>3, <2>2, <2>4, <3>1, <3>2, Iterated DEF IInv, TypeOK
  <2>6. AtWork'
    BY <1>1, <2>2, <2>3 DEF IInv, TypeOK, AtWork, Number
  <2>7. BudgetKept' /\ BilledAhead'
    <3>1. r \in LedgerRuns => billed[r] = ledger[r]
      BY <2>2 DEF IInv, BilledAhead
    <3>2. \A q \in Runs \ {r} : pc'[q] = pc[q] /\ stop'[q] = stop[q]
      BY <2>3 DEF IInv, TypeOK
    <3> QED
      BY <2>4, <3>1, <3>2 DEF IInv, BudgetKept, BilledAhead
  <2> QED
    BY <1>2, <2>5, <2>6, <2>7 DEF IInv
<1>7. CASE GatewayRaises(r) \/ LedgerRaises(r)
  <2>1. /\ pc[r] = "loop" /\ iterations[r] < MaxIterations
        /\ iterations' = [iterations EXCEPT ![r] = @ + 1]
        /\ pc' = [pc EXCEPT ![r] = "raised"]
        /\ UNCHANGED <<pending, stop, row>>
    BY <1>7 DEF GatewayRaises, LedgerRaises, Iterate, db
  <2>2. \/ UNCHANGED <<billed, ledger>>
        \/ \E c \in Costs : /\ c <= Budget - ledger[r]
                             /\ billed' = [billed EXCEPT ![r] = @ + c]
                             /\ \/ r \in LedgerRuns /\ ledger' = [ledger EXCEPT ![r] = @ + c]
                                \/ UNCHANGED ledger
    BY <1>7 DEF GatewayRaises, LedgerRaises, Remaining, db
  <2>3. /\ ledger' \in [Runs -> Nat] /\ billed' \in [Runs -> Nat]
        /\ ledger'[r] <= Budget
        /\ r \notin LedgerRuns => ledger'[r] = ledger[r]
        /\ \A q \in Runs \ {r} : ledger'[q] = ledger[q] /\ billed'[q] = billed[q]
    <3>1. /\ billed \in [Runs -> Nat] /\ ledger \in [Runs -> Nat] /\ ledger[r] <= Budget
          /\ \A c \in Costs : billed[r] + c \in Nat /\ ledger[r] + c \in Nat
      BY DEF IInv, TypeOK, BudgetKept
    <3>2. CASE UNCHANGED <<billed, ledger>>
      BY <3>1, <3>2
    <3>3. ASSUME NEW c \in Costs, c <= Budget - ledger[r],
                 billed' = [billed EXCEPT ![r] = @ + c],
                 \/ r \in LedgerRuns /\ ledger' = [ledger EXCEPT ![r] = @ + c]
                 \/ UNCHANGED ledger
          PROVE  /\ ledger' \in [Runs -> Nat] /\ billed' \in [Runs -> Nat]
                 /\ ledger'[r] <= Budget
                 /\ r \notin LedgerRuns => ledger'[r] = ledger[r]
                 /\ \A q \in Runs \ {r} : ledger'[q] = ledger[q] /\ billed'[q] = billed[q]
      <4>1. c \in Nat /\ ledger[r] \in Nat /\ Budget \in Nat
        BY <3>1
      <4>2. ledger[r] + c <= Budget
        BY <3>3, <4>1
      <4> QED
        BY <3>1, <3>3, <4>2
    <3> QED
      BY <2>2, <3>2, <3>3
  <2>4. TypeOK'
    BY <1>1, <1>3, <2>1, <2>3, Iterated DEF IInv, TypeOK
  <2>5. AtWork'
    BY <1>1, <2>1 DEF IInv, TypeOK, AtWork, Number
  <2>6. BudgetKept' /\ BilledAhead'
    <3>1. pc'[r] = "raised" /\ \A q \in Runs \ {r} : pc'[q] = pc[q] /\ stop' = stop
      BY <2>1 DEF IInv, TypeOK
    <3> QED
      BY <2>1, <2>3, <3>1 DEF IInv, BudgetKept, BilledAhead
  <2> QED
    BY <1>2, <2>4, <2>5, <2>6 DEF IInv
<1>8. CASE Exhausted(r)
  <2>1. /\ pc[r] = "loop" /\ pc' = [pc EXCEPT ![r] = "ending"]
        /\ UNCHANGED <<iterations, pending, stop, row, ledger, billed>>
    BY <1>8 DEF Exhausted, db
  <2>2. TypeOK'
    BY <1>1, <1>3, <2>1 DEF IInv, TypeOK
  <2>3. AtWork'
    BY <1>1, <2>1 DEF IInv, TypeOK, AtWork, Number
  <2>4. BudgetKept' /\ BilledAhead'
    BY <2>1 DEF IInv, TypeOK, BudgetKept, BilledAhead
  <2> QED
    BY <1>2, <2>2, <2>3, <2>4 DEF IInv
<1>9. CASE End(r)
  <2>1. /\ pc[r] = "ending" /\ UNCHANGED <<iterations, pending, stop, ledger, billed>>
        /\ \E to \in {"returned", "raised"} : pc' = [pc EXCEPT ![r] = to]
    BY <1>9 DEF End
  <2>2. row' \in [Runs -> Row]
    <3> DEFINE last == [status |-> IF stop[r] = "done" THEN "done" ELSE "failed",
                        stop |-> stop[r], cost |-> ledger[r]]
    <3>1. last \in Row
      BY DEF IInv, TypeOK, Row
    <3>2. row' = row \/ row' = [row EXCEPT ![r] = last]
      BY <1>9 DEF End
    <3> QED
      BY <3>1, <3>2 DEF IInv, TypeOK
  <2>3. TypeOK'
    BY <1>1, <1>3, <2>1, <2>2 DEF IInv, TypeOK
  <2>4. AtWork'
    BY <1>1, <2>1 DEF IInv, TypeOK, AtWork, Number
  <2>5. BudgetKept' /\ BilledAhead'
    BY <2>1 DEF IInv, TypeOK, BudgetKept, BilledAhead
  <2> QED
    BY <1>2, <2>3, <2>4, <2>5 DEF IInv
<1> QED
  BY <1>4, <1>5, <1>6, <1>7, <1>8, <1>9 DEF Gateway

(***************************************************************************)
(* The steps of _execute_tool                                              *)
(***************************************************************************)

\* A call that was denied, invoked or had no executor: recorded, or raised over.
Leaves(r, n, a) == Rows(r, n, a) /\ (Proceed(r) \/ Raises(r))

LEMMA Left ==
  ASSUME IInv, NEW r \in Runs, NEW n \in 1..ToolCallLimit, NEW a \in Actions,
         pc[r] \in {"calls", "approval"}, Leaves(r, n, a)
  PROVE  /\ audit' \in [Runs -> Seq(AuditRow)]
         /\ pending' \in [Runs -> Seq(Actions)]
         /\ \A q \in Runs \ {r} : pending'[q] = pending[q]
         /\ \/ pc' = [pc EXCEPT ![r] = "loop"]
            \/ pc' = [pc EXCEPT ![r] = "calls"] /\ pending'[r] # <<>>
            \/ pc' = [pc EXCEPT ![r] = "raised"]
<1>1. TypeOK /\ pending[r] # <<>>
  BY DEF IInv, AtWork
<1>2. audit' \in [Runs -> Seq(AuditRow)]
  BY <1>1, Recorded DEF Leaves
<1>3. CASE Raises(r)
  BY <1>1, <1>2, <1>3 DEF TypeOK, Raises
<1>4. CASE Proceed(r)
  <2>1. /\ pending' \in [Runs -> Seq(Actions)]
        /\ pending' = [pending EXCEPT ![r] = Tail(pending[r])]
        /\ \/ pc' = [pc EXCEPT ![r] = "loop"]
           \/ pc' = [pc EXCEPT ![r] = "calls"] /\ Tail(pending[r]) # <<>>
    BY <1>1, <1>4, Proceeded
  <2> QED
    BY <1>1, <1>2, <2>1 DEF TypeOK
<1> QED
  BY <1>3, <1>4 DEF Leaves

\* Of a step that leaves a call, all but what concerns the gate.
LEMMA LeavesKeep ==
  ASSUME IInv, NEW r \in Runs, NEW n \in 1..ToolCallLimit, NEW a \in Actions,
         pc[r] \in {"calls", "approval"}, Leaves(r, n, a), CallsGrow(r, a),
         executed' \in [Runs -> SUBSET (1..ToolCallLimit)], Ap!AbsTypeOK',
         UNCHANGED <<iterations, stop, row, ledger, billed>>
  PROVE  TypeOK' /\ AtWork' /\ BudgetKept' /\ BilledAhead'
<1>1. /\ audit' \in [Runs -> Seq(AuditRow)]
      /\ pending' \in [Runs -> Seq(Actions)]
      /\ \A q \in Runs \ {r} : pending'[q] = pending[q]
      /\ \/ pc' = [pc EXCEPT ![r] = "loop"]
         \/ pc' = [pc EXCEPT ![r] = "calls"] /\ pending'[r] # <<>>
         \/ pc' = [pc EXCEPT ![r] = "raised"]
  BY Left
<1>2. calls' \in [Runs -> Seq(Actions)]
  BY CallsKept DEF IInv
<1>3. \A q \in Runs \ {r} : calls'[q] = calls[q]
  BY DEF IInv, TypeOK, CallsGrow
<1>4. TypeOK'
  BY <1>1, <1>2 DEF IInv, TypeOK
<1>5. AtWork'
  BY <1>1, <1>3 DEF IInv, TypeOK, AtWork, Number
<1>6. BudgetKept' /\ BilledAhead'
  BY <1>1, BudgetTyped DEF IInv, TypeOK, BudgetKept, BilledAhead
<1> QED
  BY <1>4, <1>5, <1>6

\* A request that closes as approved was approved.
LEMMA ApprovedDecided ==
  ASSUME TypeOK, NEW id \in ApprovalIds, Ap!Close(id)
  PROVE  status'[id] \in decided[id] /\ decided' = decided /\ Ap!AbsTypeOK'
BY DEF TypeOK, Ap!Close, Ap!AbsTypeOK, Ap!Status, Ap!Ended

LEMMA DeniedSteps ==
  ASSUME IInv, NEW r \in Runs, NEW a \in Actions, Denied(r, a)
  PROVE  IInv'
<1>1. /\ pc[r] = "calls" /\ CallsGrow(r, a) /\ executed' = executed
      /\ status' = status /\ decided' = decided
      /\ Len(calls[r]) < ToolCallLimit
      /\ UNCHANGED <<iterations, stop, row, ledger, billed>>
  BY DEF Denied, NextCall, CallsGrow, appr
<1>2. /\ Len(calls[r]) + 1 \in 1..ToolCallLimit
      /\ Leaves(r, Len(calls[r]) + 1, a)
  <2>1. Len(calls[r]) \in Nat
    BY LenProperties DEF IInv, TypeOK
  <2> QED
    BY <1>1, <2>1, BudgetTyped DEF Denied, Leaves, Rows, RecordRaises, Number, Outcomes
<1>3. executed' \in [Runs -> SUBSET (1..ToolCallLimit)] /\ Ap!AbsTypeOK'
  BY <1>1 DEF IInv, TypeOK, Ap!AbsTypeOK
<1>4. TypeOK' /\ AtWork' /\ BudgetKept' /\ BilledAhead'
  BY <1>1, <1>2, <1>3, LeavesKeep
<1>5. InvokedTaken' /\ NeverUngated'
  BY <1>1, GateStays
<1> QED
  BY <1>4, <1>5 DEF IInv

LEMMA AllowedSteps ==
  ASSUME IInv, NEW r \in Runs, NEW a \in Actions, Allowed(r, a)
  PROVE  IInv'
<1> DEFINE n == Len(calls[r]) + 1
<1>1. /\ pc[r] = "calls" /\ Len(calls[r]) < ToolCallLimit
      /\ calls' = [calls EXCEPT ![r] = Append(@, a)]
      /\ status' = status /\ decided' = decided /\ Evaluate(a) = "allow"
      /\ UNCHANGED <<iterations, stop, row, ledger, billed>>
  BY DEF Allowed, NextCall, appr
<1>2. CallsGrow(r, a)
  BY <1>1 DEF CallsGrow
<1>3. Leaves(r, n, a)
  BY DEF Allowed, Invoke, NoExecutor, Leaves, Rows, RecordRaises, Number, Outcomes
<1>4. /\ n \in 1..ToolCallLimit /\ n \in 1..Len(calls'[r])
      /\ calls'[r][n] = a
  <2>1. /\ Len(calls[r]) \in Nat /\ calls'[r] = Append(calls[r], a)
        /\ Len(Append(calls[r], a)) = Len(calls[r]) + 1
        /\ Append(calls[r], a)[Len(calls[r]) + 1] = a
    BY <1>1, CallTaken DEF IInv, TypeOK
  <2> QED
    BY <1>1, <2>1, BudgetTyped
<1>5. executed' = executed \/ executed' = [executed EXCEPT ![r] = @ \cup {n}]
  BY DEF Allowed, Invoke, NoExecutor, Number
<1>6. executed' \in [Runs -> SUBSET (1..ToolCallLimit)] /\ Ap!AbsTypeOK'
  BY ZenonT(30), <1>1, <1>4, <1>5 DEF IInv, TypeOK, Ap!AbsTypeOK
<1>7. TypeOK' /\ AtWork' /\ BudgetKept' /\ BilledAhead'
  <2> HIDE DEF n
  <2> QED
    BY <1>1, <1>2, <1>3, <1>4, <1>6, LeavesKeep
<1>8. InvokedTaken' /\ NeverUngated'
  <2>1. CASE executed' = executed
    BY <1>1, <1>2, <2>1, GateStays
  <2>2. CASE executed' = [executed EXCEPT ![r] = @ \cup {n}]
    <3> HIDE DEF n
    <3> QED
      BY <1>1, <1>2, <1>4, <2>2, GateInvokes
  <2> QED
    BY <1>5, <2>1, <2>2
<1> QED
  BY <1>7, <1>8 DEF IInv

LEMMA OverLimitSteps ==
  ASSUME IInv, NEW r \in Runs, OverLimit(r)
  PROVE  IInv'
<1> DEFINE a == Head(pending[r])
<1>1. /\ pc[r] = "calls" /\ calls' = [calls EXCEPT ![r] = Append(@, a)]
      /\ pc' = [pc EXCEPT ![r] = "ending"]
      /\ stop' = [stop EXCEPT ![r] = "iteration_limit"]
      /\ UNCHANGED <<iterations, pending, row, ledger, audit, billed, executed,
                     status, decided>>
  BY DEF OverLimit, StopFor, db, appr
<1>2. a \in Actions
  BY <1>1, HeadTailProperties DEF IInv, TypeOK, AtWork
<1> HIDE DEF a
<1>3. CallsGrow(r, a)
  BY <1>1 DEF CallsGrow
<1>4. calls' \in [Runs -> Seq(Actions)] /\ \A q \in Runs \ {r} : calls'[q] = calls[q]
  BY <1>1, <1>2, <1>3, CallsKept DEF IInv, TypeOK
<1>5. TypeOK'
  BY <1>1, <1>4 DEF IInv, TypeOK, StopReasons, Ap!AbsTypeOK
<1>6. AtWork'
  BY <1>1, <1>4 DEF IInv, TypeOK, AtWork, Number
<1>7. InvokedTaken' /\ NeverUngated'
  BY <1>1, <1>2, <1>3, GateStays
<1>8. BudgetKept' /\ BilledAhead'
  BY <1>1, BudgetTyped DEF IInv, TypeOK, BudgetKept, BilledAhead
<1> QED
  BY <1>5, <1>6, <1>7, <1>8 DEF IInv

LEMMA EscalateSteps ==
  ASSUME IInv, NEW r \in Runs, NEW a \in Actions, Escalate(r, a)
  PROVE  IInv'
<1> DEFINE n == Len(calls[r]) + 1
<1>1. /\ pc[r] = "calls" /\ Len(calls[r]) < ToolCallLimit /\ a = Head(pending[r])
      /\ calls' = [calls EXCEPT ![r] = Append(@, a)]
      /\ pc' = [pc EXCEPT ![r] = "approval"] /\ Evaluate(a) = "require_approval"
      /\ Ap!Open(<<r, n>>)
      /\ UNCHANGED <<iterations, pending, stop, row, ledger, audit, billed, executed>>
  BY DEF Escalate, NextCall, Number, db
<1>2. CallsGrow(r, a)
  BY <1>1 DEF CallsGrow
<1>3. /\ n \in 1..ToolCallLimit /\ Len(calls'[r]) = n /\ calls'[r][n] = a
  <2>1. /\ Len(calls[r]) \in Nat /\ calls'[r] = Append(calls[r], a)
        /\ Len(Append(calls[r], a)) = Len(calls[r]) + 1
        /\ Append(calls[r], a)[Len(calls[r]) + 1] = a
    BY <1>1, CallTaken DEF IInv, TypeOK
  <2> QED
    BY <1>1, <2>1, BudgetTyped
<1>4. Ap!AbsTypeOK' /\ decided' = decided
  BY <1>1 DEF IInv, TypeOK, Ap!AbsTypeOK, Ap!Open, Ap!Status
<1> HIDE DEF n
<1>5. calls' \in [Runs -> Seq(Actions)] /\ \A q \in Runs \ {r} : calls'[q] = calls[q]
  BY <1>1, <1>2, CallsKept DEF IInv, TypeOK
<1>6. TypeOK'
  BY <1>1, <1>4, <1>5 DEF IInv, TypeOK
<1>7. AtWork'
  BY <1>1, <1>3, <1>5 DEF IInv, TypeOK, AtWork, Number
<1>8. InvokedTaken' /\ NeverUngated'
  BY <1>1, <1>2, <1>4, GateStays
<1>9. BudgetKept' /\ BilledAhead'
  BY <1>1, BudgetTyped DEF IInv, TypeOK, BudgetKept, BilledAhead
<1> QED
  BY <1>6, <1>7, <1>8, <1>9 DEF IInv

LEMMA ApprovedSteps ==
  ASSUME IInv, NEW r \in Runs, Approved(r)
  PROVE  IInv'
<1> DEFINE a == Head(pending[r])
           n == Len(calls[r])
<1>1. /\ pc[r] = "approval" /\ Ap!Close(<<r, n>>) /\ status'[<<r, n>>] = "approved"
      /\ Invoke(r, a, n) \/ NoExecutor(r, a, n)
      /\ UNCHANGED <<iterations, calls, stop, row, ledger, billed>>
  BY DEF Approved, Id, Number
<1>2. /\ a \in Actions /\ n \in 1..ToolCallLimit
      /\ calls[r][n] = a /\ Evaluate(a) = "require_approval"
  <2>1. pending[r] # <<>> /\ pending[r] \in Seq(Actions)
    BY <1>1 DEF IInv, TypeOK, AtWork
  <2> QED
    BY <1>1, <2>1, HeadTailProperties DEF IInv, AtWork, Number
<1>3. Leaves(r, n, a)
  BY <1>1 DEF Invoke, NoExecutor, Leaves, Rows, RecordRaises, Outcomes
<1>4. executed' = executed \/ executed' = [executed EXCEPT ![r] = @ \cup {n}]
  BY <1>1 DEF Invoke, NoExecutor
<1>5. /\ "approved" \in decided[<<r, n>>] /\ decided' = decided /\ Ap!AbsTypeOK'
  <2>1. <<r, n>> \in ApprovalIds
    BY <1>2 DEF ApprovalIds
  <2> QED
    BY <1>1, <2>1, ApprovedDecided DEF IInv
<1>6. n \in 1..Len(calls'[r]) /\ calls'[r][n] = a /\ CallsGrow(r, a)
  BY <1>1, <1>2 DEF CallsGrow
<1> HIDE DEF a, n
<1>7. executed' \in [Runs -> SUBSET (1..ToolCallLimit)]
  <2>1. n \in 1..ToolCallLimit
    BY <1>2
  <2>2. executed \in [Runs -> SUBSET (1..ToolCallLimit)]
    BY DEF IInv, TypeOK
  <2> QED
    BY <1>4, <2>1, <2>2
<1>8. TypeOK' /\ AtWork' /\ BudgetKept' /\ BilledAhead'
  BY <1>1, <1>2, <1>3, <1>5, <1>6, <1>7, LeavesKeep
<1>9. InvokedTaken' /\ NeverUngated'
  <2>1. CASE executed' = executed
    BY <1>2, <1>5, <1>6, <2>1, GateStays
  <2>2. CASE executed' = [executed EXCEPT ![r] = @ \cup {n}]
    BY <1>2, <1>5, <1>6, <2>2, GateInvokes
  <2> QED
    BY <1>4, <2>1, <2>2
<1> QED
  BY <1>8, <1>9 DEF IInv

\* A run that does not get its approval halts, or raises.
LEMMA RefusedSteps ==
  ASSUME IInv, NEW r \in Runs, Rejected(r) \/ TimedOut(r) \/ Cancelled(r)
  PROVE  IInv'
<1> DEFINE a == Head(pending[r])
<1>1. /\ pc[r] = "approval"
      /\ UNCHANGED <<iterations, calls, row, ledger, billed, executed>>
  BY DEF Rejected, TimedOut, Cancelled, Halt, db
<1>2. a \in Actions /\ <<r, Len(calls[r])>> \in ApprovalIds
  <2>1. pending[r] # <<>> /\ pending[r] \in Seq(Actions)
    BY <1>1 DEF IInv, TypeOK, AtWork
  <2> QED
    BY <1>1, <2>1, HeadTailProperties DEF IInv, AtWork, Number, ApprovalIds
<1>3. decided' = decided /\ Ap!AbsTypeOK'
  <2>1. \/ Ap!Close(<<r, Len(calls[r])>>) \/ Ap!Expire(<<r, Len(calls[r])>>)
        \/ Ap!Abandon(<<r, Len(calls[r])>>)
    BY DEF Rejected, TimedOut, Cancelled, Id, Number
  <2> QED
    BY <1>2, <2>1, ApprovedDecided
       DEF IInv, TypeOK, Ap!AbsTypeOK, Ap!Expire, Ap!Abandon, Ap!Status, Ap!Ended
<1>4. /\ \/ /\ stop' = [stop EXCEPT ![r] = "human_required"]
            /\ pc' = [pc EXCEPT ![r] = "ending"]
         \/ stop' = stop /\ pc' = [pc EXCEPT ![r] = "raised"]
      /\ pending' = pending /\ Rows(r, Len(calls[r]), a)
  BY DEF Rejected, TimedOut, Cancelled, Halt, StopFor, RecordRaises, Raises, db, Rows,
     Number, Outcomes
<1>5. audit' \in [Runs -> Seq(AuditRow)]
  <2>1. Len(calls[r]) \in 1..ToolCallLimit
    BY <1>2 DEF ApprovalIds
  <2> HIDE DEF a
  <2> QED
    BY <1>2, <1>4, <2>1, Recorded DEF IInv
<1> HIDE DEF a
<1>6. TypeOK'
  BY <1>1, <1>3, <1>4, <1>5 DEF IInv, TypeOK, StopReasons
<1>7. AtWork'
  BY <1>1, <1>4 DEF IInv, TypeOK, AtWork, Number
<1>8. InvokedTaken' /\ NeverUngated'
  BY <1>1, <1>3 DEF IInv, InvokedTaken, NeverUngated, Number
<1>9. BudgetKept' /\ BilledAhead'
  BY <1>1, <1>4, BudgetTyped DEF IInv, TypeOK, BudgetKept, BilledAhead
<1> QED
  BY <1>6, <1>7, <1>8, <1>9 DEF IInv

LEMMA DecideSteps ==
  ASSUME IInv, NEW id \in ApprovalIds, NEW d \in Decisions, Decide(id, d)
  PROVE  IInv'
<1>1. /\ status' = status /\ decided' = [decided EXCEPT ![id] = @ \cup {d}]
      /\ UNCHANGED <<pc, iterations, pending, calls, stop, row, ledger, audit, billed,
                     executed>>
  BY DEF Decide, Ap!Decide, local, db
<1>2. Ap!AbsTypeOK' /\ \A i \in ApprovalIds : decided[i] \subseteq decided'[i]
  BY <1>1 DEF IInv, TypeOK, Ap!AbsTypeOK
<1>3. TypeOK'
  BY <1>1, <1>2 DEF IInv, TypeOK
<1>4. AtWork' /\ InvokedTaken' /\ BudgetKept' /\ BilledAhead'
  BY <1>1 DEF IInv, AtWork, InvokedTaken, BudgetKept, BilledAhead, Number
<1>5. NeverUngated'
  <2>1. \A r \in Runs, n \in 1..ToolCallLimit : <<r, n>> \in ApprovalIds
    BY DEF ApprovalIds
  <2> QED
    BY <1>1, <1>2, <2>1 DEF IInv, TypeOK, NeverUngated
<1> QED
  BY <1>3, <1>4, <1>5 DEF IInv

LEMMA NextInvariant == IInv /\ [Next]_vars => IInv'
<1> SUFFICES ASSUME IInv, [Next]_vars PROVE IInv'
  OBVIOUS
<1>1. ASSUME NEW r \in Runs, Start(r) \/ Gateway(r) \/ Exhausted(r) \/ End(r)
      PROVE  IInv'
  BY <1>1, LoopSteps
<1>2. ASSUME NEW r \in Runs, Tool(r) PROVE IInv'
  BY <1>2, OverLimitSteps, DeniedSteps, AllowedSteps, EscalateSteps DEF Tool
<1>3. ASSUME NEW r \in Runs,
             Approved(r) \/ Rejected(r) \/ TimedOut(r) \/ Cancelled(r)
      PROVE  IInv'
  BY <1>3, ApprovedSteps, RefusedSteps
<1>4. ASSUME NEW id \in ApprovalIds, NEW d \in Decisions, Decide(id, d) PROVE IInv'
  BY <1>4, DecideSteps
<1>5. CASE UNCHANGED vars
  BY <1>5 DEF vars, local, db, appr, IInv, TypeOK, AtWork, InvokedTaken, NeverUngated,
     BudgetKept, BilledAhead, Number, Ap!AbsTypeOK
<1> QED
  BY <1>1, <1>2, <1>3, <1>4, <1>5 DEF Next

(***************************************************************************)
(* The row of a run that is over                                           *)
(***************************************************************************)

\* What the steps of q do to the rows, the ledgers and the stop reasons: those
\* before the last one leave the row of q open, and only q is concerned.
LEMMA RunSteps ==
  ASSUME IInv, NEW q \in Runs, NEW r \in Runs,
         \/ Start(q) \/ Gateway(q) \/ Exhausted(q)
         \/ Tool(q) \/ Approved(q) \/ Rejected(q) \/ TimedOut(q) \/ Cancelled(q)
  PROVE  /\ q # r => UNCHANGED <<pc[r], row[r], stop[r], ledger[r]>>
         /\ q = r => /\ pc[r] \notin {"returned", "raised"} /\ pc'[r] # "returned"
                     /\ row'[r] = row[r] \/ row'[r].status = "running"
<1> USE DEF IInv, TypeOK
<1>1. CASE Start(q)
  BY SMTT(30), <1>1 DEF Start, Row
<1>2. CASE Gateway(q)
  BY SMTT(30), <1>2 DEF Gateway, NoBudget, OverBudget, FinalAnswer, ToolUse, GatewayRaises,
     LedgerRaises, Completed, Iterate, StopFor, db
<1>3. CASE Exhausted(q)
  BY <1>3 DEF Exhausted, db
<1>4. CASE Tool(q)
  <2>1. /\ pc[q] = "calls" /\ row' = row /\ ledger' = ledger
        /\ \A x \in Runs \ {q} : stop'[x] = stop[x]
    BY <1>4 DEF Tool, OverLimit, Denied, Allowed, Escalate, NextCall, StopFor, db
  <2>2. \E to \in {"loop", "calls", "approval", "ending", "raised"} :
          pc' = [pc EXCEPT ![q] = to]
    BY <1>4 DEF Tool, OverLimit, Denied, Allowed, Escalate, Invoke, NoExecutor, StopFor,
       Proceed, RecordRaises, Raises
  <2> QED
    BY <2>1, <2>2
<1>5. CASE Approved(q)
  <2>1. /\ pc[q] = "approval" /\ row' = row /\ ledger' = ledger /\ stop' = stop
        /\ \E to \in {"loop", "calls", "raised"} : pc' = [pc EXCEPT ![q] = to]
    BY <1>5 DEF Approved, Invoke, NoExecutor, Proceed, RecordRaises, Raises
  <2> QED
    BY <2>1
<1>6. CASE Rejected(q) \/ TimedOut(q) \/ Cancelled(q)
  <2>1. /\ pc[q] = "approval" /\ row' = row /\ ledger' = ledger
        /\ \A x \in Runs \ {q} : stop'[x] = stop[x]
        /\ \E to \in {"ending", "raised"} : pc' = [pc EXCEPT ![q] = to]
    BY <1>6 DEF Rejected, TimedOut, Cancelled, Halt, StopFor, RecordRaises, Raises, db
  <2> QED
    BY <2>1
<1> QED
  BY <1>1, <1>2, <1>3, <1>4, <1>5, <1>6

LEMMA RowInvariant ==
  ASSUME IInv, RowInv, [Next]_vars
  PROVE  RowInv'
<1> SUFFICES ASSUME NEW r \in Runs PROVE RowOf(r)'
  BY DEF RowInv
<1>1. RowOf(r)
  BY DEF RowInv
<1>2. UNCHANGED <<pc[r], row[r], stop[r], ledger[r]>> => RowOf(r)'
  BY <1>1 DEF RowOf, Closed
<1>3. ASSUME NEW q \in Runs,
             \/ Start(q) \/ Gateway(q) \/ Exhausted(q)
             \/ Tool(q) \/ Approved(q) \/ Rejected(q) \/ TimedOut(q) \/ Cancelled(q)
      PROVE  RowOf(r)'
  <2>1. CASE q # r
    BY <1>2, <1>3, <2>1, RunSteps
  <2>2. CASE q = r
    <3>1. /\ pc[r] \notin {"returned", "raised"} /\ pc'[r] # "returned"
          /\ row'[r] = row[r] \/ row'[r].status = "running"
      BY <1>3, <2>2, RunSteps
    <3> QED
      BY <1>1, <3>1 DEF RowOf, Closed
  <2> QED
    BY <2>1, <2>2
<1>4. ASSUME NEW q \in Runs, End(q) PROVE RowOf(r)'
  <2>1. stop' = stop /\ ledger' = ledger /\ pc[q] = "ending"
    BY <1>4 DEF End
  <2>2. CASE q # r
    BY <1>2, <1>4, <2>1, <2>2 DEF End, IInv, TypeOK
  <2>3. CASE q = r
    <3>1. CASE row' = row /\ pc' = [pc EXCEPT ![r] = "raised"]
      BY <1>1, <2>1, <2>3, <3>1 DEF RowOf, Closed, IInv, TypeOK
    <3>2. CASE /\ row'[r] = [status |-> IF stop[r] = "done" THEN "done" ELSE "failed",
                             stop |-> stop[r], cost |-> ledger[r]]
               /\ pc'[r] \in {"returned", "raised"}
      BY <2>1, <3>2 DEF RowOf, Closed
    <3> QED
      BY <1>4, <2>3, <3>1, <3>2 DEF End, IInv, TypeOK
  <2> QED
    BY <2>2, <2>3
<1>5. ASSUME NEW id \in ApprovalIds, NEW d \in Decisions, Decide(id, d) PROVE RowOf(r)'
  BY <1>2, <1>5 DEF Decide, local, db
<1>6. CASE UNCHANGED vars
  BY <1>2, <1>6 DEF vars, local, db
<1> QED
  BY <1>3, <1>4, <1>5, <1>6 DEF Next

(***************************************************************************)
(* The audit of a run                                                      *)
(***************************************************************************)

\* True rows stay true when the calls grow.
LEMMA RowsKept ==
  ASSUME NEW rows, NEW cs, NEW cs1, NEW done, NEW done1, RowsTrue(rows, cs, done),
         \A k \in Rowed(rows) : cs1[k] = cs[k] /\ (k \in done1 <=> k \in done)
  PROVE  RowsTrue(rows, cs1, done1)
BY DEF RowsTrue, Rowed

\* A row about a call joins the rows of earlier calls, or the one that said success of
\* this call, while the calls cs become cs1 and the invoked ones, done, done1.
Joins(rows, cs, cs1, done, done1, row1) ==
  /\ rows \in Seq(AuditRow) /\ row1 \in AuditRow
  /\ RowsTrue(rows, cs, done) /\ RowsInOrder(rows)
  /\ \A k \in Rowed(rows) : cs1[k] = cs[k] /\ (k \in done1 <=> k \in done)
  /\ cs1[row1.call] = row1.action
  /\ row1.call \in done1 <=>
       row1.action \in Executors /\ row1.outcome \in {"success", "failed"}
  /\ \A i \in 1..Len(rows) :
       \/ rows[i].call < row1.call
       \/ /\ rows[i].call = row1.call
          /\ rows[i].outcome = "success" /\ row1.outcome = "failed"

LEMMA RowJoins ==
  ASSUME NEW rows, NEW cs, NEW cs1, NEW done, NEW done1, NEW row1,
         Joins(rows, cs, cs1, done, done1, row1)
  PROVE  /\ Append(rows, row1) \in Seq(AuditRow)
         /\ Rowed(Append(rows, row1)) = Rowed(rows) \cup {row1.call}
         /\ RowsTrue(Append(rows, row1), cs1, done1)
         /\ RowsInOrder(Append(rows, row1))
<1> USE DEF Joins
<1> DEFINE all == Append(rows, row1)
<1>1. /\ all \in Seq(AuditRow) /\ Len(rows) \in Nat /\ Len(all) = Len(rows) + 1
      /\ all[Len(rows) + 1] = row1 /\ \A i \in 1..Len(rows) : all[i] = rows[i]
  BY AppendProperties, LenProperties
<1> HIDE DEF all
<1>2. \A i \in 1..Len(all) : i \in 1..Len(rows) \/ i = Len(rows) + 1
  BY <1>1
<1>3. 1..Len(rows) \subseteq 1..Len(all) /\ Len(rows) + 1 \in 1..Len(all)
  BY <1>1
<1>4. Rowed(all) = Rowed(rows) \cup {row1.call}
  <2>1. Rowed(all) \subseteq Rowed(rows) \cup {row1.call}
    BY <1>1, <1>2 DEF Rowed
  <2>2. Rowed(rows) \cup {row1.call} \subseteq Rowed(all)
    BY <1>1, <1>3 DEF Rowed
  <2> QED
    BY <2>1, <2>2
<1>5. RowsTrue(all, cs1, done1)
  <2>1. RowsTrue(rows, cs1, done1)
    BY RowsKept
  <2> SUFFICES ASSUME NEW i \in 1..Len(all)
               PROVE  /\ all[i].action = cs1[all[i].call]
                      /\ all[i].call \in done1 <=>
                           (all[i].action \in Executors
                             /\ all[i].outcome \in {"success", "failed"})
    BY DEF RowsTrue
  <2>2. CASE i \in 1..Len(rows)
    BY <1>1, <2>1, <2>2 DEF RowsTrue
  <2>3. CASE i = Len(rows) + 1
    BY <1>1, <2>3
  <2> QED
    BY <1>2, <2>2, <2>3
<1>6. RowsInOrder(all)
  <2> SUFFICES ASSUME NEW i \in 1..Len(all), NEW j \in 1..Len(all), i < j
               PROVE  \/ all[i].call < all[j].call
                      \/ /\ all[i].call = all[j].call
                         /\ all[i].outcome = "success" /\ all[j].outcome = "failed"
    BY DEF RowsInOrder
  <2>1. i \in 1..Len(rows)
    BY <1>1
  <2>2. CASE j \in 1..Len(rows)
    BY <1>1, <2>1, <2>2 DEF RowsInOrder
  <2>3. CASE j = Len(rows) + 1
    BY <1>1, <2>1, <2>3
  <2> QED
    BY <1>2, <2>2, <2>3
<1> QED
  BY <1>1, <1>4, <1>5, <1>6 DEF all

\* The call in hand is number n, a; the calls before it have their rows.
InHand(r, n, a) == /\ n \in Nat \ {0} /\ Len(calls'[r]) = n /\ calls'[r][n] = a
                   /\ Rowed(audit[r]) = 1..(n - 1) /\ a \in Actions
                   /\ \A k \in 1..(n - 1) : calls'[r][k] = calls[r][k]
                   /\ executed[r] \subseteq 1..(n - 1)

LEMMA Lengths ==
  ASSUME IInv, NEW r \in Runs
  PROVE  /\ audit[r] \in Seq(AuditRow) /\ calls[r] \in Seq(Actions)
         /\ Len(audit[r]) \in Nat /\ Len(calls[r]) \in Nat
BY LenProperties DEF IInv, TypeOK

\* Which calls have rows says how many calls there are.
LEMMA RangeIs ==
  ASSUME NEW m \in Nat, NEW n \in Nat, n > 0
  PROVE  /\ 1..m # 1..(m + 1)
         /\ (1..(n - 1)) \cup {n} = 1..n
         /\ n \notin 1..(n - 1)
<1>1. m + 1 \notin 1..m /\ m + 1 \in 1..(m + 1)
  OBVIOUS
<1> QED
  BY <1>1

LEMMA NextInHand ==
  ASSUME IInv, NEW r \in Runs, AuditOf(r), pc[r] = "calls", NEW a \in Actions,
         calls' = [calls EXCEPT ![r] = Append(@, a)]
  PROVE  InHand(r, Len(calls[r]) + 1, a)
<1>1. calls'[r] = Append(calls[r], a)
  BY DEF IInv, TypeOK
<1>2. /\ Len(Append(calls[r], a)) = Len(calls[r]) + 1
      /\ Append(calls[r], a)[Len(calls[r]) + 1] = a
      /\ \A k \in 1..Len(calls[r]) : Append(calls[r], a)[k] = calls[r][k]
  BY Lengths, CallTaken
<1>3. Rowed(audit[r]) = 1..Len(calls[r]) /\ executed[r] \subseteq Rowed(audit[r])
  BY DEF AuditOf, InStep
<1>4. Len(calls[r]) \in Nat /\ (Len(calls[r]) + 1) - 1 = Len(calls[r])
  BY Lengths
<1> QED
  BY <1>1, <1>2, <1>3, <1>4 DEF InHand

LEMMA WaitingInHand ==
  ASSUME IInv, NEW r \in Runs, AuditOf(r), pc[r] = "approval", UNCHANGED calls
  PROVE  InHand(r, Len(calls[r]), Head(pending[r]))
<1>1. Head(pending[r]) \in Actions
  BY HeadTailProperties DEF IInv, TypeOK, AtWork
<1>2. /\ Rowed(audit[r]) = 1..(Len(calls[r]) - 1) /\ Len(calls[r]) > 0
      /\ executed[r] \subseteq Rowed(audit[r])
  BY DEF AuditOf, InStep
<1>3. calls[r][Len(calls[r])] = Head(pending[r])
  BY DEF IInv, AtWork, Number
<1>4. Len(calls[r]) \in Nat
  BY Lengths
<1> QED
  BY <1>1, <1>2, <1>3, <1>4 DEF InHand

\* The rows of the calls before the one in hand are about those calls.
LEMMA EarlierRows ==
  ASSUME IInv, NEW r \in Runs, AuditOf(r), NEW n, NEW a, InHand(r, n, a)
  PROVE  \A i \in 1..Len(audit[r]) : audit[r][i].call < n
<1> SUFFICES ASSUME NEW i \in 1..Len(audit[r]) PROVE audit[r][i].call < n
  OBVIOUS
<1>1. audit[r][i].call \in 1..(n - 1) /\ n \in Nat
  BY DEF InHand, Rowed
<1> QED
  BY <1>1

\* The call in hand gets its row.
LEMMA AuditRecords ==
  ASSUME IInv, NEW r \in Runs, NEW n \in 1..ToolCallLimit, NEW a \in Actions,
         NEW outcome \in Outcomes,
         AuditOf(r), InHand(r, n, a), Record(r, n, a, outcome), pc'[r] # "approval",
         executed'[r] = executed[r] \/ executed'[r] = executed[r] \cup {n},
         n \in executed'[r] <=> (a \in Executors /\ outcome \in {"success", "failed"})
  PROVE  AuditOf(r)'
<1> DEFINE row1 == [call |-> n, action |-> a, outcome |-> outcome]
<1>1. audit'[r] = Append(audit[r], row1)
  BY DEF Record, IInv, TypeOK
<1>2. /\ row1 \in AuditRow /\ row1.call = n /\ row1.action = a /\ row1.outcome = outcome
  BY DEF AuditRow
<1> HIDE DEF row1
<1>3. n \notin 1..(n - 1) /\ (1..(n - 1)) \cup {n} = 1..n /\ n \in 1..n
  BY BudgetTyped
<1>4. \A k \in Rowed(audit[r]) : /\ k # n /\ calls'[r][k] = calls[r][k]
                                 /\ k \in executed'[r] <=> k \in executed[r]
  BY <1>3 DEF InHand
<1>5. /\ audit[r] \in Seq(AuditRow) /\ RowsTrue(audit[r], calls[r], executed[r])
      /\ RowsInOrder(audit[r]) /\ calls'[r][n] = a /\ Len(calls'[r]) = n
      /\ Rowed(audit[r]) = 1..(n - 1) /\ executed[r] \subseteq 1..(n - 1)
  BY Lengths DEF AuditOf, InHand
<1>6. \A i \in 1..Len(audit[r]) : audit[r][i].call < n
  BY EarlierRows
<1>7. /\ Rowed(audit'[r]) = Rowed(audit[r]) \cup {n}
      /\ RowsTrue(audit'[r], calls'[r], executed'[r])
      /\ RowsInOrder(audit'[r])
  <2> DEFINE rows == audit[r]
             cs   == calls[r]
             cs1  == calls'[r]
             done == executed[r]
             dn1  == executed'[r]
  <2>1. Joins(rows, cs, cs1, done, dn1, row1) /\ audit'[r] = Append(rows, row1)
    BY <1>1, <1>2, <1>4, <1>5, <1>6 DEF Joins
  <2> HIDE DEF rows, cs, cs1, done, dn1
  <2>2. /\ Rowed(Append(rows, row1)) = Rowed(rows) \cup {n}
        /\ RowsTrue(Append(rows, row1), cs1, dn1)
        /\ RowsInOrder(Append(rows, row1))
    BY <1>2, <2>1, RowJoins
  <2> QED
    BY <2>1, <2>2 DEF rows, cs1, dn1
<1>8. InStep(pc'[r], stop'[r], Rowed(audit'[r]), Len(calls'[r]))
  BY <1>3, <1>5, <1>7 DEF InStep
<1>9. executed'[r] \subseteq Rowed(audit'[r])
  BY <1>5, <1>7
<1> QED
  BY <1>7, <1>8, <1>9 DEF AuditOf

\* The call in hand gets two rows: the commit of the one that says success raised.
LEMMA AuditBoth ==
  ASSUME IInv, NEW r \in Runs, NEW n \in 1..ToolCallLimit, NEW a \in Actions,
         AuditOf(r), InHand(r, n, a), RecordBoth(r, n, a), pc'[r] # "approval",
         a \in Executors, executed'[r] = executed[r] \cup {n}
  PROVE  AuditOf(r)'
<1> DEFINE row1 == [call |-> n, action |-> a, outcome |-> "success"]
           row2 == [call |-> n, action |-> a, outcome |-> "failed"]
<1>1. audit'[r] = Append(Append(audit[r], row1), row2)
  BY DEF RecordBoth, IInv, TypeOK
<1>2. /\ row1 \in AuditRow /\ row1.call = n /\ row1.action = a /\ row1.outcome = "success"
      /\ row2 \in AuditRow /\ row2.call = n /\ row2.action = a /\ row2.outcome = "failed"
  BY DEF AuditRow, Outcomes
<1> HIDE DEF row1, row2
<1>3. n \notin 1..(n - 1) /\ (1..(n - 1)) \cup {n} = 1..n /\ n \in 1..n
  BY BudgetTyped
<1>4. \A k \in Rowed(audit[r]) : /\ k # n /\ calls'[r][k] = calls[r][k]
                                 /\ k \in executed'[r] <=> k \in executed[r]
  BY <1>3 DEF InHand
<1>5. /\ audit[r] \in Seq(AuditRow) /\ RowsTrue(audit[r], calls[r], executed[r])
      /\ RowsInOrder(audit[r]) /\ calls'[r][n] = a /\ Len(calls'[r]) = n
      /\ Rowed(audit[r]) = 1..(n - 1) /\ executed[r] \subseteq 1..(n - 1)
  BY Lengths DEF AuditOf, InHand
<1>6. \A i \in 1..Len(audit[r]) : audit[r][i].call < n
  BY EarlierRows
<1>7. /\ Rowed(audit'[r]) = Rowed(audit[r]) \cup {n}
      /\ RowsTrue(audit'[r], calls'[r], executed'[r])
      /\ RowsInOrder(audit'[r])
  <2> DEFINE rows == audit[r]
             mid  == Append(rows, row1)
             cs   == calls[r]
             cs1  == calls'[r]
             done == executed[r]
             dn1  == executed'[r]
  <2>1. /\ Joins(rows, cs, cs1, done, dn1, row1)
        /\ cs1[n] = a /\ n \in dn1 /\ rows \in Seq(AuditRow)
        /\ \A i \in 1..Len(rows) : rows[i].call < n
        /\ audit'[r] = Append(Append(rows, row1), row2)
    BY <1>1, <1>2, <1>4, <1>5, <1>6 DEF Joins
  <2> HIDE DEF rows, cs, cs1, done, dn1
  <2>2. /\ mid \in Seq(AuditRow) /\ Rowed(mid) = Rowed(rows) \cup {n}
        /\ RowsTrue(mid, cs1, dn1) /\ RowsInOrder(mid)
    BY <1>2, <2>1, RowJoins
  <2>3. \A i \in 1..Len(mid) : mid[i].call < n \/ mid[i] = row1
    BY <1>2, <2>1, AppendProperties, LenProperties
  <2> HIDE DEF mid
  <2>4. Joins(mid, cs1, cs1, dn1, dn1, row2)
    BY <1>2, <2>1, <2>2, <2>3 DEF Joins
  <2>5. /\ Rowed(Append(mid, row2)) = Rowed(mid) \cup {n}
        /\ RowsTrue(Append(mid, row2), cs1, dn1)
        /\ RowsInOrder(Append(mid, row2))
    BY <1>2, <2>4, RowJoins
  <2> QED
    BY <2>1, <2>2, <2>5 DEF rows, cs1, dn1, mid
<1>8. InStep(pc'[r], stop'[r], Rowed(audit'[r]), Len(calls'[r]))
  BY <1>3, <1>5, <1>7 DEF InStep
<1>9. executed'[r] \subseteq Rowed(audit'[r])
  BY <1>5, <1>7
<1> QED
  BY <1>7, <1>8, <1>9 DEF AuditOf

\* The run raises over the call in hand, which gets no row.
LEMMA AuditRaises ==
  ASSUME IInv, NEW r \in Runs, NEW n, NEW a \in Actions,
         AuditOf(r), InHand(r, n, a), audit' = audit, pc'[r] = "raised",
         executed'[r] = executed[r] \/ executed'[r] = executed[r] \cup {n}
  PROVE  AuditOf(r)'
<1>1. n \notin 1..(n - 1)
  BY DEF InHand
<1>2. \A k \in Rowed(audit[r]) : calls'[r][k] = calls[r][k]
                                 /\ (k \in executed'[r] <=> k \in executed[r])
  BY <1>1 DEF InHand
<1>3. RowsTrue(audit'[r], calls'[r], executed'[r])
  BY <1>2, RowsKept DEF AuditOf
<1>4. InStep(pc'[r], stop'[r], Rowed(audit'[r]), Len(calls'[r]))
  BY DEF InHand, InStep
<1> QED
  BY <1>3, <1>4 DEF AuditOf

\* The record of the call in hand raises, and leaves its row or does not.
LEMMA AuditRecordRaises ==
  ASSUME IInv, NEW r \in Runs, NEW n \in 1..ToolCallLimit, NEW a \in Actions,
         NEW outcome \in Outcomes,
         AuditOf(r), InHand(r, n, a), RecordRaises(r, n, a, outcome),
         executed'[r] = executed[r] \/ executed'[r] = executed[r] \cup {n},
         n \in executed'[r] <=> (a \in Executors /\ outcome \in {"success", "failed"})
  PROVE  AuditOf(r)'
<1>1. pc'[r] = "raised"
  BY DEF RecordRaises, Raises, IInv, TypeOK
<1>2. CASE audit' = audit
  BY <1>1, <1>2, AuditRaises
<1>3. CASE Record(r, n, a, outcome)
  BY <1>1, <1>3, AuditRecords
<1> QED
  BY <1>2, <1>3 DEF RecordRaises

\* The steps that call no tool leave the audit as it is.
LEMMA AuditLoop ==
  ASSUME IInv, NEW r \in Runs, AuditOf(r),
         Start(r) \/ Gateway(r) \/ Exhausted(r) \/ End(r)
  PROVE  AuditOf(r)'
<1>1. /\ calls' = calls /\ executed' = executed /\ audit' = audit
  BY DEF Start, Gateway, NoBudget, OverBudget, FinalAnswer, ToolUse,
         GatewayRaises, LedgerRaises, Exhausted, End, db, appr
<1>2. CASE Start(r) \/ Gateway(r) \/ Exhausted(r)
  <2>1. pc[r] \in {"idle", "loop"}
    BY <1>2 DEF Start, Gateway, NoBudget, OverBudget, FinalAnswer, ToolUse,
       GatewayRaises, LedgerRaises, Completed, Iterate, Exhausted
  <2>2. pc'[r] # "approval"
    BY <1>2 DEF Start, Gateway, NoBudget, OverBudget, FinalAnswer, ToolUse,
       GatewayRaises, LedgerRaises, Completed, StopFor, Exhausted, IInv, TypeOK
  <2>3. Rowed(audit[r]) = 1..Len(calls[r])
    BY <2>1 DEF AuditOf, InStep
  <2> QED
    BY <1>1, <2>1, <2>2, <2>3 DEF AuditOf, InStep
<1>3. CASE End(r)
  <2>1. pc[r] = "ending" /\ stop' = stop /\ pc'[r] \in {"returned", "raised"}
    BY <1>3 DEF End, IInv, TypeOK
  <2> QED
    BY <1>1, <2>1 DEF AuditOf, InStep
<1> QED
  BY <1>2, <1>3

\* The executor of the call in hand is invoked, or there is none.
LEMMA AuditInvokes ==
  ASSUME IInv, NEW r \in Runs, NEW n \in 1..ToolCallLimit, NEW a \in Actions,
         AuditOf(r), InHand(r, n, a), pc[r] \in {"calls", "approval"},
         Invoke(r, a, n) \/ NoExecutor(r, a, n)
  PROVE  AuditOf(r)'
<1>1. n \notin executed[r]
  <2>1. executed[r] \subseteq 1..(n - 1) /\ n \in Nat
    BY DEF InHand
  <2> QED
    BY <2>1
<1>2. pc \in [Runs -> {"idle", "loop", "calls", "approval", "ending",
                       "returned", "raised"}]
      /\ executed \in [Runs -> SUBSET (1..ToolCallLimit)]
  BY DEF IInv, TypeOK
<1>3. "success" \in Outcomes /\ "failed" \in Outcomes
  BY DEF Outcomes
<1>4. CASE Invoke(r, a, n)
  <2>1. a \in Executors /\ executed' = [executed EXCEPT ![r] = @ \cup {n}]
    BY <1>4 DEF Invoke
  <2>2. executed'[r] = executed[r] \cup {n}
    BY <1>2, <2>1
  <2>3. Proceed(r) \/ Raises(r) => pc'[r] # "approval"
    BY <1>2 DEF Proceed, Raises
  <2>4. \A outcome \in {"success", "failed"} :
          n \in executed'[r] <=> (a \in Executors /\ outcome \in {"success", "failed"})
    BY <2>1, <2>2
  <2>5. ASSUME NEW outcome \in {"success", "failed"}, Record(r, n, a, outcome),
               Proceed(r) \/ Raises(r)
        PROVE  AuditOf(r)'
    BY <1>3, <2>2, <2>3, <2>4, <2>5, AuditRecords
  <2>6. CASE RecordBoth(r, n, a) /\ (Proceed(r) \/ Raises(r))
    BY <2>1, <2>2, <2>3, <2>6, AuditBoth
  <2>7. CASE RecordRaises(r, n, a, "failed")
    BY <1>3, <2>2, <2>4, <2>7, AuditRecordRaises
  <2> QED
    BY <1>4, <2>5, <2>6, <2>7 DEF Invoke
<1>5. CASE NoExecutor(r, a, n)
  <2>1. a \notin Executors /\ executed' = executed
    BY <1>5 DEF NoExecutor
  <2>2. n \in executed'[r] <=> (a \in Executors /\ "failed" \in {"success", "failed"})
    BY <1>1, <2>1
  <2>3. CASE Record(r, n, a, "failed") /\ Proceed(r)
    <3>1. pc'[r] # "approval"
      BY <1>2, <2>3 DEF Proceed
    <3> QED
      BY <1>3, <2>1, <2>2, <2>3, <3>1, AuditRecords
  <2>4. CASE RecordRaises(r, n, a, "failed")
    BY <1>3, <2>1, <2>2, <2>4, AuditRecordRaises
  <2> QED
    BY <1>5, <2>3, <2>4 DEF NoExecutor
<1> QED
  BY <1>4, <1>5

\* The call in hand is refused, by the policy or by the approver.
LEMMA AuditRefuses ==
  ASSUME IInv, NEW r \in Runs, NEW n \in 1..ToolCallLimit, NEW a \in Actions,
         AuditOf(r), InHand(r, n, a), executed' = executed, pc'[r] # "approval",
         NEW outcome \in {"denied", "approval_pending"},
         \/ Record(r, n, a, outcome)
         \/ RecordRaises(r, n, a, outcome)
         \/ audit' = audit /\ pc'[r] = "raised"
  PROVE  AuditOf(r)'
<1>1. n \notin executed'[r]
  <2>1. executed[r] \subseteq 1..(n - 1) /\ n \in Nat
    BY DEF InHand
  <2> QED
    BY <2>1
<1>2. outcome \in Outcomes
  BY DEF Outcomes
<1>3. n \in executed'[r] <=> (a \in Executors /\ outcome \in {"success", "failed"})
  BY <1>1
<1>4. CASE Record(r, n, a, outcome)
  BY <1>2, <1>3, <1>4, AuditRecords
<1>5. CASE RecordRaises(r, n, a, outcome)
  BY <1>2, <1>3, <1>5, AuditRecordRaises
<1>6. CASE audit' = audit /\ pc'[r] = "raised"
  BY <1>6, AuditRaises
<1> QED
  BY <1>4, <1>5, <1>6

LEMMA AuditTool ==
  ASSUME IInv, NEW r \in Runs, AuditOf(r), Tool(r)
  PROVE  AuditOf(r)'
<1> DEFINE n == Len(calls[r]) + 1
<1>0. pc \in [Runs -> {"idle", "loop", "calls", "approval", "ending",
                       "returned", "raised"}]
  BY DEF IInv, TypeOK
<1>1. Len(calls[r]) \in Nat /\ ToolCallLimit \in Nat
  BY Lengths, BudgetTyped
<1>2. CASE OverLimit(r)
  <2> DEFINE a == Head(pending[r])
  <2>1. /\ pc[r] = "calls" /\ calls' = [calls EXCEPT ![r] = Append(@, a)]
        /\ Len(calls[r]) >= ToolCallLimit /\ pc'[r] = "ending"
        /\ stop'[r] = "iteration_limit" /\ audit' = audit /\ executed' = executed
    BY <1>0, <1>2 DEF OverLimit, StopFor, db, IInv, TypeOK
  <2>2. a \in Actions
    BY <2>1, HeadTailProperties DEF IInv, TypeOK, AtWork
  <2> HIDE DEF a
  <2>3. InHand(r, n, a) /\ n > ToolCallLimit
    <3>1. InHand(r, n, a)
      BY <2>1, <2>2, NextInHand
    <3> QED
      BY <1>1, <2>1, <3>1
  <2>4. RowsTrue(audit'[r], calls'[r], executed'[r])
    <3>1. \A k \in Rowed(audit[r]) : calls'[r][k] = calls[r][k]
      BY <2>3 DEF InHand
    <3>2. RowsTrue(audit[r], calls'[r], executed[r])
      BY <3>1, RowsKept DEF AuditOf
    <3> QED
      BY <2>1, <3>2
  <2>5. InStep(pc'[r], stop'[r], Rowed(audit'[r]), Len(calls'[r]))
    BY <2>1, <2>3 DEF InStep, InHand
  <2>6. executed'[r] \subseteq Rowed(audit'[r])
    BY <2>1, <2>3 DEF InHand
  <2> QED
    BY <2>1, <2>4, <2>5, <2>6 DEF AuditOf
<1>3. Len(calls[r]) < ToolCallLimit => n \in 1..ToolCallLimit
  BY <1>1
<1>4. ASSUME NEW a \in Actions, Denied(r, a) PROVE AuditOf(r)'
  <2>1. /\ pc[r] = "calls" /\ calls' = [calls EXCEPT ![r] = Append(@, a)]
        /\ executed' = executed /\ pc'[r] # "approval" /\ Len(calls[r]) < ToolCallLimit
        /\ Record(r, n, a, "denied") \/ RecordRaises(r, n, a, "denied")
    BY <1>0, <1>4 DEF Denied, NextCall, Number, Proceed, RecordRaises, Raises
  <2>2. InHand(r, n, a)
    BY <2>1, NextInHand
  <2> HIDE DEF n
  <2> QED
    BY <1>3, <2>1, <2>2, AuditRefuses
<1>5. ASSUME NEW a \in Actions, Allowed(r, a) PROVE AuditOf(r)'
  <2>1. /\ pc[r] = "calls" /\ calls' = [calls EXCEPT ![r] = Append(@, a)]
        /\ Invoke(r, a, n) \/ NoExecutor(r, a, n)
        /\ Len(calls[r]) < ToolCallLimit
    BY <1>5 DEF Allowed, NextCall, Number
  <2>2. InHand(r, n, a)
    BY <2>1, NextInHand
  <2> HIDE DEF n
  <2> QED
    BY <1>3, <2>1, <2>2, AuditInvokes
<1>6. ASSUME NEW a \in Actions, Escalate(r, a) PROVE AuditOf(r)'
  <2>1. /\ pc[r] = "calls" /\ calls' = [calls EXCEPT ![r] = Append(@, a)]
        /\ pc'[r] = "approval" /\ audit' = audit /\ executed' = executed
    BY <1>0, <1>6 DEF Escalate, NextCall, db
  <2>2. InHand(r, n, a)
    BY <2>1, NextInHand
  <2>3. RowsTrue(audit'[r], calls'[r], executed'[r])
    <3>1. \A k \in Rowed(audit[r]) : calls'[r][k] = calls[r][k]
      BY <2>2 DEF InHand
    <3>2. RowsTrue(audit[r], calls'[r], executed[r])
      BY <3>1, RowsKept DEF AuditOf
    <3> QED
      BY <2>1, <3>2
  <2>4. executed'[r] \subseteq Rowed(audit'[r])
    BY <2>1, <2>2 DEF InHand
  <2>5. InStep(pc'[r], stop'[r], Rowed(audit'[r]), Len(calls'[r]))
    BY <2>1, <2>2 DEF InStep, InHand
  <2> QED
    BY <2>1, <2>3, <2>4, <2>5 DEF AuditOf
<1> QED
  BY <1>2, <1>4, <1>5, <1>6 DEF Tool

LEMMA AuditAnswered ==
  ASSUME IInv, NEW r \in Runs, AuditOf(r),
         Approved(r) \/ Rejected(r) \/ TimedOut(r) \/ Cancelled(r)
  PROVE  AuditOf(r)'
<1> DEFINE a == Head(pending[r])
           n == Len(calls[r])
<1>0. pc \in [Runs -> {"idle", "loop", "calls", "approval", "ending",
                       "returned", "raised"}]
  BY DEF IInv, TypeOK
<1>1. pc[r] = "approval" /\ calls' = calls
  BY DEF Approved, Rejected, TimedOut, Cancelled, Halt
<1>2. InHand(r, n, a) /\ a \in Actions /\ n \in 1..ToolCallLimit
  BY <1>1, WaitingInHand DEF InHand, IInv, AtWork, Number
<1>3. CASE Approved(r)
  <2>1. Invoke(r, a, n) \/ NoExecutor(r, a, n)
    BY <1>3 DEF Approved, Number
  <2> HIDE DEF a, n
  <2> QED
    BY <1>1, <1>2, <2>1, AuditInvokes
<1>4. CASE Rejected(r) \/ TimedOut(r) \/ Cancelled(r)
  <2>1. /\ executed' = executed /\ pc'[r] # "approval"
        /\ \/ Record(r, n, a, "approval_pending")
           \/ RecordRaises(r, n, a, "approval_pending")
           \/ audit' = audit /\ pc'[r] = "raised"
    BY <1>0, <1>4 DEF Rejected, TimedOut, Cancelled, Halt, StopFor, RecordRaises, Raises,
       Number, db
  <2> HIDE DEF a, n
  <2> QED
    BY <1>2, <2>1, AuditRefuses
<1> QED
  BY <1>3, <1>4

\* A step of q concerns the audit of q alone.
LEMMA AuditOthers ==
  ASSUME IInv, NEW q \in Runs, NEW r \in Runs, q # r,
         \/ Start(q) \/ Gateway(q) \/ Exhausted(q) \/ End(q)
         \/ Tool(q) \/ Approved(q) \/ Rejected(q) \/ TimedOut(q) \/ Cancelled(q)
  PROVE  UNCHANGED <<pc[r], stop[r], audit[r], calls[r], executed[r]>>
<1>0. /\ DOMAIN audit = Runs /\ audit = [x \in Runs |-> audit[x]]
      /\ DOMAIN executed = Runs /\ executed = [x \in Runs |-> executed[x]]
      /\ DOMAIN calls = Runs /\ calls = [x \in Runs |-> calls[x]]
  BY DEF IInv, TypeOK
<1>1. CASE Start(q) \/ Gateway(q) \/ Exhausted(q)
  <2>1. calls' = calls /\ audit' = audit /\ executed' = executed
    BY <1>1 DEF Start, Gateway, NoBudget, OverBudget, FinalAnswer, ToolUse,
       GatewayRaises, LedgerRaises, Exhausted, db
  <2> QED
    BY <1>1, <2>1, RunSteps
<1>2. CASE End(q)
  BY <1>2 DEF End, IInv, TypeOK
<1>3. CASE Tool(q)
  <2>1. calls'[r] = calls[r]
    BY SMTT(30), <1>0, <1>3 DEF Tool, OverLimit, Denied, Allowed, Escalate, NextCall
  <2>2. audit'[r] = audit[r]
    BY <1>0, <1>3 DEF Tool, OverLimit, Denied, Allowed, Escalate, Invoke, NoExecutor, Record,
       RecordBoth, RecordRaises, db
  <2>3. executed'[r] = executed[r]
    BY <1>0, <1>3 DEF Tool, OverLimit, Denied, Allowed, Escalate, Invoke, NoExecutor
  <2> QED
    BY <1>3, <2>1, <2>2, <2>3, RunSteps
<1>4. CASE Approved(q) \/ Rejected(q) \/ TimedOut(q) \/ Cancelled(q)
  <2>1. calls' = calls
    BY SMTT(30), <1>0, <1>4 DEF Approved, Rejected, TimedOut, Cancelled, Halt
  <2>2. audit'[r] = audit[r]
    BY <1>0, <1>4 DEF Approved, Rejected, TimedOut, Cancelled, Halt, Invoke, NoExecutor,
       Record, RecordBoth, RecordRaises, db
  <2>3. executed'[r] = executed[r]
    BY <1>0, <1>4 DEF Approved, Rejected, TimedOut, Cancelled, Halt, Invoke, NoExecutor
  <2> QED
    BY <1>4, <2>1, <2>2, <2>3, RunSteps
<1> QED
  BY <1>1, <1>2, <1>3, <1>4

LEMMA AuditInvariant ==
  ASSUME IInv, AuditInv, [Next]_vars
  PROVE  AuditInv'
<1> SUFFICES ASSUME NEW r \in Runs PROVE AuditOf(r)'
  BY DEF AuditInv
<1>1. AuditOf(r)
  BY DEF AuditInv
<1>2. UNCHANGED <<pc[r], stop[r], audit[r], calls[r], executed[r]>> => AuditOf(r)'
  BY <1>1 DEF AuditOf
<1>3. ASSUME NEW q \in Runs,
             \/ Start(q) \/ Gateway(q) \/ Exhausted(q) \/ End(q)
             \/ Tool(q) \/ Approved(q) \/ Rejected(q) \/ TimedOut(q) \/ Cancelled(q)
      PROVE  AuditOf(r)'
  <2>1. CASE q # r
    BY <1>2, <1>3, <2>1, AuditOthers
  <2>2. CASE q = r
    BY <1>1, <1>3, <2>2, AuditLoop, AuditTool, AuditAnswered
  <2> QED
    BY <2>1, <2>2
<1>4. ASSUME NEW id \in ApprovalIds, NEW d \in Decisions, Decide(id, d) PROVE AuditOf(r)'
  BY <1>2, <1>4 DEF Decide, local, db
<1>5. CASE UNCHANGED vars
  BY <1>2, <1>5 DEF vars, local, db
<1> QED
  BY <1>3, <1>4, <1>5 DEF Next

(***************************************************************************)
(* A run wears out                                                         *)
(***************************************************************************)

LEMMA WayIs ==
  /\ Way("idle") = 4 /\ Way("approval") = 3 /\ Way("loop") = 2 /\ Way("calls") = 2
  /\ Way("ending") = 1 /\ Way("returned") = 0 /\ Way("raised") = 0
BY DEF Way

\* A step of a run takes it down its way, or begins an iteration, or takes a call.
GoesDown(r) == /\ \E to \in {"loop", "calls", "ending", "returned", "raised"} :
                    /\ Way(to) < Way(pc[r])
                    /\ pc' = [pc EXCEPT ![r] = to]
               /\ UNCHANGED <<iterations, calls>>

Iterates(r) == /\ Iterate(r)
               /\ \E to \in {"calls", "ending", "raised"} : pc' = [pc EXCEPT ![r] = to]
               /\ UNCHANGED calls

Takes(r) == /\ pc[r] = "calls"
            /\ \E a \in Actions : calls' = [calls EXCEPT ![r] = Append(@, a)]
            /\ \/ /\ Len(calls[r]) < ToolCallLimit
                  /\ \E to \in {"loop", "calls", "approval", "raised"} :
                       pc' = [pc EXCEPT ![r] = to]
               \/ pc' = [pc EXCEPT ![r] = "ending"]
            /\ UNCHANGED iterations

LEMMA StepOfRun ==
  ASSUME IInv, NEW r \in Runs,
         \/ Start(r) \/ Gateway(r) \/ Exhausted(r) \/ End(r)
         \/ Tool(r) \/ Approved(r) \/ Rejected(r) \/ TimedOut(r) \/ Cancelled(r)
  PROVE  GoesDown(r) \/ Iterates(r) \/ Takes(r)
<1>1. CASE Start(r)
  BY <1>1, WayIs DEF Start, GoesDown
<1>2. CASE Gateway(r)
  <2>1. Iterate(r) /\ calls' = calls
    BY <1>2 DEF Gateway, NoBudget, OverBudget, FinalAnswer, ToolUse, GatewayRaises,
       LedgerRaises, Completed
  <2>2. \E to \in {"calls", "ending", "raised"} : pc' = [pc EXCEPT ![r] = to]
    BY <1>2 DEF Gateway, NoBudget, OverBudget, FinalAnswer, ToolUse, GatewayRaises,
       LedgerRaises, StopFor
  <2> QED
    BY <2>1, <2>2 DEF Iterates
<1>3. CASE Exhausted(r)
  BY <1>3, WayIs DEF Exhausted, GoesDown
<1>4. CASE End(r)
  BY <1>4, WayIs DEF End, GoesDown
<1>5. CASE OverLimit(r)
  <2>1. Head(pending[r]) \in Actions
    BY <1>5, HeadTailProperties DEF OverLimit, IInv, TypeOK, AtWork
  <2> QED
    BY <1>5, <2>1 DEF OverLimit, StopFor, Takes
<1>6. ASSUME NEW a \in Actions, Denied(r, a) \/ Allowed(r, a) \/ Escalate(r, a)
      PROVE  Takes(r)
  <2>1. /\ pc[r] = "calls" /\ Len(calls[r]) < ToolCallLimit
        /\ calls' = [calls EXCEPT ![r] = Append(@, a)]
        /\ iterations' = iterations
    BY <1>6 DEF Denied, Allowed, Escalate, NextCall
  <2>2. \E to \in {"loop", "calls", "approval", "raised"} : pc' = [pc EXCEPT ![r] = to]
    BY <1>6 DEF Denied, Allowed, Escalate, Invoke, NoExecutor, Proceed, RecordRaises, Raises
  <2> QED
    BY <2>1, <2>2 DEF Takes
<1>7. CASE Approved(r)
  <2>1. /\ pc[r] = "approval" /\ UNCHANGED <<iterations, calls>>
        /\ \E to \in {"loop", "calls", "raised"} : pc' = [pc EXCEPT ![r] = to]
    BY <1>7 DEF Approved, Invoke, NoExecutor, Proceed, RecordRaises, Raises
  <2>2. \A to \in {"loop", "calls", "raised"} : Way(to) < Way(pc[r])
    BY <2>1, WayIs
  <2> QED
    BY <2>1, <2>2 DEF GoesDown
<1>8. CASE Rejected(r) \/ TimedOut(r) \/ Cancelled(r)
  <2>1. /\ pc[r] = "approval" /\ UNCHANGED <<iterations, calls>>
        /\ \E to \in {"ending", "raised"} : pc' = [pc EXCEPT ![r] = to]
    BY <1>8 DEF Rejected, TimedOut, Cancelled, Halt, StopFor, RecordRaises, Raises
  <2>2. \A to \in {"ending", "raised"} : Way(to) < Way(pc[r])
    BY <2>1, WayIs
  <2> QED
    BY <2>1, <2>2 DEF GoesDown
<1> QED
  BY <1>1, <1>2, <1>3, <1>4, <1>5, <1>6, <1>7, <1>8 DEF Tool

\* What such a step does to the run's own variables, and that it does nothing to
\* those of the others.
LEMMA RunWears ==
  ASSUME IInv, LimitKept, NEW r \in Runs, GoesDown(r) \/ Iterates(r) \/ Takes(r)
  PROVE  /\ LimitKept'
         /\ StepsLeft(r)' < StepsLeft(r)
         /\ \A q \in Runs \ {r} : StepsLeft(q)' = StepsLeft(q)
<1>1. /\ pc \in [Runs -> {"idle", "loop", "calls", "approval", "ending", "returned", "raised"}]
      /\ iterations \in [Runs -> 0..MaxIterations]
      /\ calls \in [Runs -> Seq(Actions)]
      /\ MaxIterations \in Nat /\ ToolCallLimit \in Nat
  BY BudgetTyped DEF IInv, TypeOK
<1>2. \A q \in Runs : Len(calls[q]) \in Nat /\ Len(calls[q]) <= ToolCallLimit + 1
  BY <1>1, LenProperties DEF LimitKept
<1>3. Way(pc[r]) \in 0..4
  BY <1>1, WayIs
<1>4. /\ \A q \in Runs \ {r} : UNCHANGED <<pc[q], iterations[q], calls[q]>>
      /\ pc'[r] \in {"loop", "calls", "approval", "ending", "returned", "raised"}
      /\ Way(pc'[r]) \in 0..3
  <2>1. CASE GoesDown(r)
    BY <1>1, <2>1, WayIs DEF GoesDown
  <2>2. CASE Iterates(r)
    BY <1>1, <2>2, WayIs DEF Iterates, Iterate
  <2>3. CASE Takes(r)
    <3>1. \E to \in {"loop", "calls", "approval", "raised", "ending"} :
            pc' = [pc EXCEPT ![r] = to]
      BY <2>3 DEF Takes
    <3>2. iterations' = iterations /\ \A q \in Runs \ {r} : calls'[q] = calls[q]
      BY <1>1, <2>3 DEF Takes
    <3> QED
      BY <1>1, <3>1, <3>2, WayIs
  <2> QED
    BY <2>1, <2>2, <2>3
<1>5. /\ StepsLeft(r)' < StepsLeft(r)
      /\ Len(calls'[r]) <= IF pc'[r] \in {"ending", "returned", "raised"}
                           THEN ToolCallLimit + 1 ELSE ToolCallLimit
  <2>1. CASE GoesDown(r)
    <3>1. iterations'[r] = iterations[r] /\ calls'[r] = calls[r] /\ Way(pc'[r]) < Way(pc[r])
      BY <1>1, <2>1 DEF GoesDown
    <3>2. pc[r] \in {"ending", "returned", "raised"}
            => pc'[r] \in {"ending", "returned", "raised"}
      BY <1>4, <3>1, WayIs
    <3>3. Len(calls'[r]) <= IF pc'[r] \in {"ending", "returned", "raised"}
                            THEN ToolCallLimit + 1 ELSE ToolCallLimit
      BY <1>1, <1>2, <3>1, <3>2 DEF LimitKept
    <3>4. StepsLeft(r)' < StepsLeft(r)
      BY SMTT(30), <1>1, <1>2, <1>3, <1>4, <3>1 DEF StepsLeft
    <3> QED
      BY <3>3, <3>4
  <2>2. CASE Iterates(r)
    <3>1. /\ pc[r] = "loop" /\ iterations[r] < MaxIterations
          /\ iterations'[r] = iterations[r] + 1 /\ calls'[r] = calls[r]
          /\ pc'[r] \in {"calls", "ending", "raised"}
      BY <1>1, <2>2 DEF Iterates, Iterate
    <3>2. Way(pc'[r]) <= 2 /\ Way(pc[r]) = 2
      BY <3>1, WayIs
    <3>3. Len(calls[r]) <= ToolCallLimit
      BY <3>1 DEF LimitKept
    <3>4. StepsLeft(r)' < StepsLeft(r)
      BY <1>1, <1>2, <1>3, <1>4, <3>1, <3>2 DEF StepsLeft
    <3> QED
      BY <1>1, <1>2, <3>1, <3>3, <3>4
  <2>3. CASE Takes(r)
    <3>1. PICK a \in Actions : calls' = [calls EXCEPT ![r] = Append(@, a)]
      BY <2>3 DEF Takes
    <3>2. Len(calls'[r]) = Len(calls[r]) + 1
      BY <1>1, <3>1, CallTaken
    <3>3. pc[r] = "calls" /\ iterations'[r] = iterations[r] /\ Len(calls[r]) <= ToolCallLimit
      BY <2>3 DEF Takes, LimitKept
    <3>4. Len(calls[r]) < ToolCallLimit \/ pc'[r] = "ending"
      BY <1>1, <2>3 DEF Takes
    <3>5. Way(pc[r]) = 2
      BY <3>3, WayIs
    <3>6. StepsLeft(r)' < StepsLeft(r)
      BY SMTT(30), <1>1, <1>2, <1>4, <3>2, <3>3, <3>5 DEF StepsLeft
    <3> QED
      BY <1>1, <1>2, <3>2, <3>3, <3>4, <3>6
  <2> QED
    BY <2>1, <2>2, <2>3
<1>6. LimitKept'
  BY <1>4, <1>5 DEF LimitKept
<1>7. \A q \in Runs \ {r} : StepsLeft(q)' = StepsLeft(q)
  BY <1>4 DEF StepsLeft
<1> QED
  BY <1>5, <1>6, <1>7

LEMMA Wearing ==
  ASSUME IInv, LimitKept, [Next]_vars
  PROVE  /\ LimitKept'
         /\ \/ \E r \in Runs : /\ StepsLeft(r)' < StepsLeft(r)
                               /\ \A q \in Runs \ {r} : StepsLeft(q)' = StepsLeft(q)
            \/ UNCHANGED <<local, db, billed, executed, status>>
<1>1. ASSUME NEW r \in Runs,
             \/ Start(r) \/ Gateway(r) \/ Exhausted(r) \/ End(r)
             \/ Tool(r) \/ Approved(r) \/ Rejected(r) \/ TimedOut(r) \/ Cancelled(r)
      PROVE  /\ LimitKept'
             /\ StepsLeft(r)' < StepsLeft(r)
             /\ \A q \in Runs \ {r} : StepsLeft(q)' = StepsLeft(q)
  BY <1>1, StepOfRun, RunWears
<1>2. ASSUME NEW id \in ApprovalIds, NEW d \in Decisions, Decide(id, d)
      PROVE  LimitKept' /\ UNCHANGED <<local, db, billed, executed, status>>
  BY <1>2 DEF Decide, Ap!Decide, local, LimitKept
<1>3. CASE UNCHANGED vars
  BY <1>3 DEF vars, appr, local, LimitKept
<1> QED
  BY <1>1, <1>2, <1>3 DEF Next

(***************************************************************************)
(* The theorems                                                            *)
(***************************************************************************)

THEOREM Invariance == Spec => []IInv
BY InitInvariant, NextInvariant, PTL DEF Spec

\* The variables keep their types; among other things no more executors are
\* invoked than tool_call_limit allows, over all completions of a run.
THEOREM TypeCorrect == Spec => []TypeOK
<1>1. IInv => TypeOK
  BY DEF IInv
<1> QED
  BY <1>1, Invariance, PTL

\* No executor is ever invoked for a call that the policy does not allow and that
\* no approver approved, whatever the model asks for, in whatever run.
THEOREM Gated == Spec => []NeverUngated
<1>1. IInv => NeverUngated
  BY DEF IInv
<1> QED
  BY <1>1, Invariance, PTL

\* No run's ledger ever exceeds its budget, and the ledger lacks what was charged
\* only for runs that were stopped by their budget, raised, or are in no system_db.
THEOREM WithinBudget == Spec => []BudgetKept
<1>1. IInv => BudgetKept
  BY DEF IInv
<1> QED
  BY <1>1, Invariance, PTL

\* A run that has left its loop calls no tool and no provider any more, and
\* writes no more to the database than its own last row.
THEOREM HaltsForGood == Spec => HaltIsFinal
<1>1. ASSUME IInv, [Next]_vars, NEW r \in Runs,
             pc[r] \in {"ending", "returned", "raised"}
      PROVE  /\ UNCHANGED <<executed[r], billed[r], ledger[r], audit[r], calls[r]>>
             /\ pc[r] # "ending" => row'[r] = row[r]
  <2> USE <1>1 DEF IInv, TypeOK
  <2>1. ASSUME NEW q \in Runs, Start(q) \/ Gateway(q) \/ Exhausted(q) PROVE q # r
    BY <2>1 DEF Start, Gateway, NoBudget, OverBudget, FinalAnswer, ToolUse,
       GatewayRaises, LedgerRaises, Completed, Iterate, Exhausted
  <2>2. ASSUME NEW q \in Runs, Tool(q) \/ Approved(q) \/ Rejected(q) \/ TimedOut(q)
                               \/ Cancelled(q)
        PROVE  q # r
    BY <2>2 DEF Tool, OverLimit, Denied, Allowed, Escalate, NextCall, Approved,
       Rejected, TimedOut, Cancelled
  <2>3. ASSUME NEW q \in Runs, Start(q) \/ Gateway(q) \/ Exhausted(q)
        PROVE  /\ UNCHANGED <<executed[r], billed[r], ledger[r], audit[r], calls[r]>>
               /\ row'[r] = row[r]
    BY <2>1, <2>3 DEF Start, Gateway, NoBudget, OverBudget, FinalAnswer, ToolUse,
       GatewayRaises, LedgerRaises, Completed, Iterate, Exhausted, db
  <2>4. ASSUME NEW q \in Runs, Tool(q)
        PROVE  /\ UNCHANGED <<executed[r], billed[r], ledger[r], audit[r], calls[r]>>
               /\ row'[r] = row[r]
    BY ZenonT(30), <2>2, <2>4 DEF Tool, OverLimit, Denied, Allowed, Escalate, NextCall, Invoke,
       NoExecutor, Record, RecordBoth, RecordRaises, db
  <2>5. ASSUME NEW q \in Runs, Approved(q) \/ Rejected(q) \/ TimedOut(q) \/ Cancelled(q)
        PROVE  /\ UNCHANGED <<executed[r], billed[r], ledger[r], audit[r], calls[r]>>
               /\ row'[r] = row[r]
    BY <2>2, <2>5 DEF Approved, Rejected, TimedOut, Cancelled, Halt, Invoke,
       NoExecutor, Record, RecordBoth, RecordRaises, db
  <2>6. ASSUME NEW q \in Runs, End(q)
        PROVE  /\ UNCHANGED <<executed[r], billed[r], ledger[r], audit[r], calls[r]>>
               /\ pc[r] # "ending" => row'[r] = row[r]
    BY <2>6 DEF End
  <2>7. ASSUME NEW id \in ApprovalIds, NEW d \in Decisions, Decide(id, d)
        PROVE  UNCHANGED <<executed, billed, ledger, audit, calls, row>>
    BY <2>7 DEF Decide, local, db
  <2>8. UNCHANGED vars => UNCHANGED <<executed, billed, ledger, audit, calls, row>>
    BY DEF vars, local, db
  <2> QED
    BY <2>3, <2>4, <2>5, <2>6, <2>7, <2>8 DEF Next
<1>2. IInv /\ [Next]_vars =>
        [\A r \in Runs :
          pc[r] \in {"ending", "returned", "raised"} =>
            /\ UNCHANGED <<executed[r], billed[r], ledger[r], audit[r], calls[r]>>
            /\ pc[r] # "ending" => row'[r] = row[r]]_vars
  BY <1>1
<1> QED
  BY <1>2, Invariance, PTL DEF Spec, HaltIsFinal

\* The row of a run that is over tells the truth for ever: done exactly if the
\* model finished, with the run's stop reason and the cost of its whole ledger.
THEOREM RowsTellTruth == Spec => []RowAgrees
<1>1. Init => RowInv
  BY DEF Init, RowInv, RowOf, Closed, NoRow
<1>2. IInv /\ RowInv /\ [Next]_vars => RowInv'
  BY RowInvariant
<1>3. RowInv => RowAgrees
  BY DEF RowInv, RowOf, RowAgrees
<1> QED
  BY <1>1, <1>2, <1>3, Invariance, PTL DEF Spec

\* Every call has its audit row, in order and with an outcome that agrees with what was
\* invoked, whichever statements and commits raise; at most the last call lacks one, for
\* one of three reasons, and only a success that was not committed has a second row.
THEOREM FullyAudited == Spec => []Audited
<1>1. Init => AuditInv
  BY EmptySeq, LenProperties DEF Init, AuditInv, AuditOf, InStep, RowsTrue, RowsInOrder, Rowed
<1>2. IInv /\ AuditInv /\ [Next]_vars => AuditInv'
  BY AuditInvariant
<1>3. IInv /\ AuditInv => Audited
  <2> SUFFICES ASSUME IInv, AuditInv, NEW r \in Runs
               PROVE  /\ \/ Rowed(audit[r]) = 1..Len(calls[r])
                         \/ /\ Rowed(audit[r]) = (1..Len(calls[r])) \ {Len(calls[r])}
                            /\ \/ pc[r] \in {"approval", "raised"}
                               \/ stop[r] = "iteration_limit" /\ Len(calls[r]) > ToolCallLimit
                      /\ RowsTrue(audit[r], calls[r], executed[r])
                      /\ RowsInOrder(audit[r])
    BY DEF Audited, RowsTrue, RowsInOrder
  <2>1. AuditOf(r) /\ Len(calls[r]) \in Nat
    BY Lengths DEF AuditInv
  <2>2. 1..(Len(calls[r]) - 1) = (1..Len(calls[r])) \ {Len(calls[r])}
    BY <2>1
  <2> QED
    BY <2>1, <2>2 DEF AuditOf, InStep
<1> QED
  BY <1>1, <1>2, <1>3, Invariance, PTL DEF Spec

\* Whatever completions ask for and approvers do, a run has at most so many steps
\* before it, and each of its steps takes it closer to its end: the loop of run and
\* that over the calls cannot go on for ever.
THEOREM WearsOut ==
  Spec => /\ [](\A r \in Runs :
                  StepsLeft(r) \in 0..(MaxIterations + 2 * (ToolCallLimit + 1) + 4))
          /\ RunsWearOut
<1>1. Init => LimitKept
  <2>1. ToolCallLimit \in Nat
    BY BudgetTyped
  <2> QED
    BY <2>1, LenProperties, EmptySeq DEF Init, LimitKept
<1>2. IInv /\ LimitKept /\ [Next]_vars => LimitKept'
  BY Wearing
<1>3. IInv /\ LimitKept /\ [Next]_vars =>
        [ \/ \E r \in Runs : /\ StepsLeft(r)' < StepsLeft(r)
                             /\ \A q \in Runs \ {r} : StepsLeft(q)' = StepsLeft(q)
          \/ UNCHANGED <<local, db, billed, executed, status>> ]_vars
  BY Wearing
<1>4. IInv /\ LimitKept => \A r \in Runs :
        StepsLeft(r) \in 0..(MaxIterations + 2 * (ToolCallLimit + 1) + 4)
  <2> SUFFICES ASSUME IInv, LimitKept, NEW r \in Runs
               PROVE  StepsLeft(r) \in 0..(MaxIterations + 2 * (ToolCallLimit + 1) + 4)
    OBVIOUS
  <2>1. /\ iterations[r] \in 0..MaxIterations /\ calls[r] \in Seq(Actions)
        /\ pc[r] \in {"idle", "loop", "calls", "approval", "ending", "returned", "raised"}
        /\ MaxIterations \in Nat /\ ToolCallLimit \in Nat
    BY BudgetTyped DEF IInv, TypeOK
  <2>2. Len(calls[r]) \in Nat /\ Len(calls[r]) <= ToolCallLimit + 1
    BY <2>1, LenProperties DEF LimitKept
  <2>3. Way(pc[r]) \in 0..4
    BY <2>1, WayIs
  <2> DEFINE i == iterations[r]
             n == Len(calls[r])
             w == Way(pc[r])
  <2>4. /\ StepsLeft(r) = (MaxIterations - i) + 2 * (ToolCallLimit + 1 - n) + w
        /\ i \in 0..MaxIterations /\ n \in 0..(ToolCallLimit + 1) /\ w \in 0..4
    BY <2>1, <2>2, <2>3 DEF StepsLeft
  <2> HIDE DEF i, n, w
  <2> QED
    BY <2>1, <2>4
<1> QED
  BY <1>1, <1>2, <1>3, <1>4, Invariance, PTL DEF Spec, RunsWearOut
(***************************************************************************)
(* The engine on the bus.  What is proved of the bus in EventBusProofs is  *)
(* used here with the requests of the runs for its ids; BP is that module, *)
(* and with it a second copy of EventBus.                                  *)
(***************************************************************************)

BP == INSTANCE EventBusProofs WITH Ids <- ApprovalIds,
                                   Timed <- TimedRuns \X (1..ToolCallLimit),
                                   MaxConcurrent <- Cardinality(Runs), pc <- place

\* The runs meet the assumptions of EventBus, in either copy.
LEMMA BusAssumptions ==
  /\ BP!IsFiniteSet(ApprovalIds) /\ Cardinality(Runs) \in Nat \ {0}
  /\ TimedRuns \X (1..ToolCallLimit) \subseteq ApprovalIds
  /\ MaxAnswers \in Nat /\ None \notin BP!Resolution
<1>1. IsFiniteSet(1..ToolCallLimit)
  BY BudgetTyped, FS_Interval
<1>2. IsFiniteSet(ApprovalIds)
  BY <1>1, OnBusAssumption, FS_Product DEF ApprovalIds
<1>3. BP!IsFiniteSet(ApprovalIds)
  BY <1>2 DEF BP!IsFiniteSet, IsFiniteSet
<1>4. Cardinality(Runs) \in Nat \ {0}
  BY OnBusAssumption, FS_CardinalityType, FS_EmptySet
<1>5. None \notin BP!Resolution
  BY OnBusAssumption DEF BP!Resolution, Bus!Resolution, BP!Decisions, Bus!Decisions
<1>6. TimedRuns \X (1..ToolCallLimit) \subseteq ApprovalIds
  BY EngineAssumption DEF ApprovalIds
<1> QED
  BY <1>3, <1>4, <1>5, <1>6, OnBusAssumption

\* The two copies agree.
LEMMA SameInvariant == /\ Bus!IInv <=> BP!IInv
                       /\ Bus!IInv' <=> BP!IInv'
BY DEF Bus!IInv, Bus!TypeOK, Bus!Place, Bus!Pending, Bus!Left, Bus!Resolution,
       Bus!Decisions, Bus!QueuePublished, Bus!HandsPublished, Bus!HandsEmpty,
       Bus!OwnAnswer, Bus!KnownMade, Bus!LogMade, Bus!ToSet,
       BP!IInv, BP!TypeOK, BP!Place, BP!Pending, BP!Left, BP!Resolution,
       BP!Decisions, BP!QueuePublished, BP!HandsPublished, BP!HandsEmpty,
       BP!OwnAnswer, BP!KnownMade, BP!LogMade, BP!ToSet

LEMMA SameBars == /\ Bus!statusBar = BP!statusBar /\ Bus!statusBar' = BP!statusBar'
                  /\ Bus!decidedBar = BP!decidedBar /\ Bus!decidedBar' = BP!decidedBar'
BY DEF Bus!statusBar, Bus!decidedBar, Bus!Pending, Bus!ToSet,
       BP!statusBar, BP!decidedBar, BP!Pending, BP!ToSet

LEMMA SameRequest == ASSUME NEW id PROVE Bus!Request(id) <=> BP!Request(id)
BY DEF Bus!Request, Bus!Open, Bus!Pending, Bus!Cardinality,
       BP!Request, BP!Open, BP!Pending, BP!Cardinality

LEMMA SameSteps ==
  ASSUME NEW id
  PROVE  /\ Bus!Take(id) <=> BP!Take(id)
         /\ Bus!Match(id) <=> BP!Match(id)
         /\ Bus!Requeue(id) <=> BP!Requeue(id)
         /\ Bus!Resume(id) <=> BP!Resume(id)
         /\ Bus!Timeout(id) <=> BP!Timeout(id)
         /\ Bus!Cancel(id) <=> BP!Cancel(id)
BY DEF Bus!Take, Bus!Match, Bus!Requeue, Bus!Resume, Bus!Timeout, Bus!Cancel,
       BP!Take, BP!Match, BP!Requeue, BP!Resume, BP!Timeout, BP!Cancel

LEMMA SameApprovers == /\ Bus!See <=> BP!See
                       /\ \A id, d : Bus!Answer(id, d) <=> BP!Answer(id, d)
BY DEF Bus!See, Bus!Answer, BP!See, BP!Answer

LEMMA SameNext == [Bus!Next]_(Bus!vars) <=> [BP!Next]_(BP!vars)
BY SameRequest, SameSteps, SameApprovers
   DEF Bus!Next, Bus!Step, Bus!vars, Bus!Decisions, BP!Next, BP!Step, BP!vars, BP!Decisions

LEMMA BusInvariant == Bus!IInv /\ [Bus!Next]_(Bus!vars) => Bus!IInv'
BY BusAssumptions, SameInvariant, SameNext, BP!NextInvariant

LEMMA BusInits == Bus!Init => Bus!IInv
<1>1. Bus!Init <=> BP!Init
  BY DEF Bus!Init, BP!Init
<1> QED
  BY <1>1, BusAssumptions, SameInvariant, BP!InitInvariant

(***************************************************************************)
(* What the steps of the bus do to the state of Approvals                  *)
(***************************************************************************)

LEMMA AskOpens ==
  ASSUME OnBusInv, NEW id \in ApprovalIds, Bus!Request(id), Follow
  PROVE  Ap!Open(id)
<1>1. BP!IInv /\ BP!Request(id)
  BY SameInvariant, SameRequest DEF OnBusInv
<1>2. /\ BP!statusBar[id] = "idle" /\ BP!decidedBar' = BP!decidedBar
      /\ BP!statusBar' = [BP!statusBar EXCEPT ![id] = "open"]
  BY <1>1, BusAssumptions, BP!RequestOpens
<1> QED
  BY <1>2, SameBars DEF OnBusInv, Following, Follow, Ap!Open

LEMMA RoundIsSilent ==
  ASSUME OnBusInv, NEW id \in ApprovalIds,
         Bus!Take(id) \/ Bus!Requeue(id) \/ Bus!Resume(id)
  PROVE  Bus!statusBar' = Bus!statusBar /\ Bus!decidedBar' = Bus!decidedBar
<1>1. BP!IInv /\ (BP!Take(id) \/ BP!Requeue(id) \/ BP!Resume(id))
  BY SameInvariant, SameSteps DEF OnBusInv
<1>2. BP!statusBar' = BP!statusBar /\ BP!decidedBar' = BP!decidedBar
  BY <1>1, BusAssumptions, BP!RoundsAreSilent
<1> QED
  BY <1>2, SameBars

LEMMA MatchDecides ==
  ASSUME OnBusInv, NEW id \in ApprovalIds, Bus!Match(id), Follow
  PROVE  /\ Ap!Close(id)
         /\ held[id].decision \in Decisions
         /\ status'[id] = held[id].decision
<1>1. BP!IInv /\ BP!Match(id)
  BY SameInvariant, SameSteps DEF OnBusInv
<1>2. /\ BP!statusBar[id] = "open" /\ BP!decidedBar' = BP!decidedBar
      /\ held[id].decision \in BP!decidedBar[id]
      /\ held[id].decision \in BP!Decisions
      /\ BP!statusBar' = [BP!statusBar EXCEPT ![id] = held[id].decision]
  BY <1>1, BusAssumptions, BP!MatchCloses
<1>3. /\ status[id] = "open" /\ decided' = decided
      /\ held[id].decision \in decided[id]
      /\ status' = [status EXCEPT ![id] = held[id].decision]
  BY <1>2, SameBars DEF OnBusInv, Following, Follow
<1>4. status'[id] = held[id].decision
  BY <1>3 DEF OnBusInv, IInv, TypeOK, Ap!AbsTypeOK
<1> QED
  BY <1>2, <1>3, <1>4 DEF Ap!Close, BP!Decisions, Decisions

LEMMA TimeoutExpires ==
  ASSUME OnBusInv, NEW id \in ApprovalIds, Bus!Timeout(id), Follow
  PROVE  Ap!Expire(id)
<1>1. BP!IInv /\ BP!Timeout(id)
  BY SameInvariant, SameSteps DEF OnBusInv
<1>2. /\ BP!statusBar[id] = "open" /\ BP!decidedBar' = BP!decidedBar
      /\ BP!statusBar' = [BP!statusBar EXCEPT ![id] = "timedout"]
  BY <1>1, BusAssumptions, BP!TimeoutExpires
<1> QED
  BY <1>2, SameBars DEF OnBusInv, Following, Follow, Ap!Expire

LEMMA CancelAbandons ==
  ASSUME OnBusInv, NEW id \in ApprovalIds, Bus!Cancel(id), Follow
  PROVE  Ap!Abandon(id)
<1>1. BP!IInv /\ BP!Cancel(id)
  BY SameInvariant, SameSteps DEF OnBusInv
<1>2. /\ BP!statusBar[id] = "open" /\ BP!decidedBar' = BP!decidedBar
      /\ BP!statusBar' = [BP!statusBar EXCEPT ![id] = "cancelled"]
  BY <1>1, BusAssumptions, BP!CancelAbandons
<1> QED
  BY <1>2, SameBars DEF OnBusInv, Following, Follow, Ap!Abandon

LEMMA SeeIsSilent ==
  ASSUME Bus!See
  PROVE  Bus!statusBar' = Bus!statusBar /\ Bus!decidedBar' = Bus!decidedBar
BY DEF Bus!See, Bus!statusBar, Bus!decidedBar

LEMMA AnswerDecides ==
  ASSUME OnBusInv, NEW id \in ApprovalIds, NEW d \in Decisions,
         Bus!Answer(id, d), Follow
  PROVE  Ap!Decide(id, d)
<1>1. BP!IInv /\ BP!Answer(id, d) /\ d \in BP!Decisions
  BY SameInvariant, SameApprovers DEF OnBusInv, Decisions, BP!Decisions
<1>2. /\ BP!statusBar[id] # "idle" /\ BP!statusBar' = BP!statusBar
      /\ BP!decidedBar' = [BP!decidedBar EXCEPT ![id] = @ \cup {d}]
  BY <1>1, BusAssumptions, BP!AnswerDecides
<1> QED
  BY <1>2, SameBars DEF OnBusInv, Following, Follow, Ap!Decide

(***************************************************************************)
(* Which requests are pending                                              *)
(***************************************************************************)

\* The request of a run for its last call, which it waits for.
LEMMA OwnRequest ==
  ASSUME IInv, NEW r \in Runs, pc[r] = "approval"
  PROVE  /\ Number(r) \in 1..ToolCallLimit /\ Id(r) \in ApprovalIds
         /\ Id(r) = <<r, Number(r)>>
BY DEF IInv, AtWork, Id, ApprovalIds

LEMMA PlacesTyped ==
  ASSUME OnBusInv
  PROVE  /\ place \in [ApprovalIds -> Bus!Place]
         /\ \A r \in Runs, n \in 1..ToolCallLimit : <<r, n>> \in ApprovalIds
         /\ \A r \in Runs : Len(calls[r]) \in Nat
<1>1. place \in [ApprovalIds -> Bus!Place]
  BY DEF OnBusInv, Bus!IInv, Bus!TypeOK
<1>2. calls \in [Runs -> Seq(Actions)]
  BY DEF OnBusInv, IInv, TypeOK
<1> QED
  BY <1>1, <1>2, LenProperties DEF ApprovalIds

\* The request of run r ends and r goes on, or r only goes on.
LEMMA RequestOver ==
  ASSUME OnBusInv, NEW r \in Runs, calls' = calls,
         pc[r] = "approval", NEW to \in Bus!Left,
         place' = [place EXCEPT ![Id(r)] = to],
         pc'[r] # "approval", \A q \in Runs \ {r} : pc'[q] = pc[q]
  PROVE  WaitsOnBus' /\ NotYetAsked'
<1>1. /\ Number(r) \in 1..ToolCallLimit /\ Id(r) \in ApprovalIds
      /\ Id(r) = <<r, Number(r)>>
  BY OwnRequest DEF OnBusInv
<1>2. \A q \in Runs : Number(q)' = Number(q)
  BY DEF Number
<1>3. ASSUME NEW q \in Runs, NEW n \in 1..ToolCallLimit
      PROVE  place'[<<q, n>>] = IF q = r /\ n = Number(r) THEN to ELSE place[<<q, n>>]
  BY <1>1, <1>3, PlacesTyped
<1>4. ASSUME NEW q \in Runs, NEW n \in 1..ToolCallLimit
      PROVE  place'[<<q, n>>] \in Bus!Pending <=>
               pc'[q] = "approval" /\ n = Number(q)'
  <2>1. place[<<q, n>>] \in Bus!Pending <=> pc[q] = "approval" /\ n = Number(q)
    BY DEF OnBusInv, WaitsOnBus, Bus!Open
  <2>2. to \notin Bus!Pending
    BY DEF Bus!Pending, Bus!Left
  <2> QED
    BY <1>2, <1>3, <2>1, <2>2
<1>41. WaitsOnBus'
  BY <1>4 DEF WaitsOnBus, Bus!Open
<1>5. NotYetAsked'
  BY <1>1, <1>2, <1>3 DEF OnBusInv, NotYetAsked
<1> QED
  BY <1>41, <1>5

LEMMA RequestMade ==
  ASSUME OnBusInv, NEW r \in Runs, NEW a \in Actions, BusEscalate(r, a)
  PROVE  WaitsOnBus' /\ NotYetAsked'
<1>1. /\ pc[r] = "calls" /\ Number(r) \in Nat /\ Number(r) + 1 \in 1..ToolCallLimit
      /\ calls' = [calls EXCEPT ![r] = Append(@, a)]
      /\ pc' = [pc EXCEPT ![r] = "approval"]
      /\ place' = [place EXCEPT ![<<r, Number(r) + 1>>] = "waiting"]
  BY PlacesTyped, BudgetTyped DEF BusEscalate, NextCall, Bus!Request, Number
<1>2. \A q \in Runs : Number(q)' = IF q = r THEN Number(r) + 1 ELSE Number(q)
  <2>1. calls \in [Runs -> Seq(Actions)]
    BY DEF OnBusInv, IInv, TypeOK
  <2>2. Len(Append(calls[r], a)) = Len(calls[r]) + 1
    BY <2>1, CallTaken
  <2> QED
    BY <1>1, <2>1, <2>2 DEF Number
<1>3. ASSUME NEW q \in Runs, NEW n \in 1..ToolCallLimit
      PROVE  place'[<<q, n>>] = IF q = r /\ n = Number(r) + 1 THEN "waiting"
                                ELSE place[<<q, n>>]
  BY <1>1, <1>3, PlacesTyped
<1>4. \A q \in Runs : pc'[q] = IF q = r THEN "approval" ELSE pc[q]
  BY <1>1 DEF OnBusInv, IInv, TypeOK
<1> HIDE DEF Number
<1>5. ASSUME NEW q \in Runs, NEW n \in 1..ToolCallLimit
      PROVE  place'[<<q, n>>] \in Bus!Pending <=>
               pc'[q] = "approval" /\ n = Number(q)'
  <2>1. place[<<q, n>>] \in Bus!Pending <=> pc[q] = "approval" /\ n = Number(q)
    BY DEF OnBusInv, WaitsOnBus, Bus!Open
  <2>2. "waiting" \in Bus!Pending
    BY DEF Bus!Pending
  <2> QED
    BY <1>1, <1>2, <1>3, <1>4, <2>1, <2>2
<1>51. WaitsOnBus'
  BY <1>5 DEF WaitsOnBus, Bus!Open
<1>6. NotYetAsked'
  BY <1>1, <1>2, <1>3 DEF OnBusInv, NotYetAsked
<1> QED
  BY <1>51, <1>6

\* A run goes on without the bus.
LEMMA AloneGoes ==
  ASSUME IInv, NEW r \in Runs, Alone(r)
  PROVE  /\ pc[r] # "approval" /\ status' = status /\ decided' = decided
         /\ \E to : to # "approval" /\ pc' = [pc EXCEPT ![r] = to]
         /\ calls' = calls \/ \E a \in Actions : calls' = [calls EXCEPT ![r] = Append(@, a)]
<1>1. CASE Start(r) \/ Exhausted(r) \/ End(r)
  BY <1>1 DEF Start, Exhausted, End, appr
<1>2. CASE Gateway(r)
  BY <1>2 DEF Gateway, NoBudget, OverBudget, FinalAnswer, ToolUse, Completed, Iterate,
              StopFor, GatewayRaises, LedgerRaises, appr
<1>3. CASE OverLimit(r)
  <2>1. Head(pending[r]) \in Actions
    <3>1. pending[r] \in Seq(Actions) /\ pending[r] # <<>>
      BY <1>3 DEF OverLimit, IInv, TypeOK, AtWork
    <3> QED
      BY <3>1, HeadTailProperties
  <2> QED
    BY <1>3, <2>1 DEF OverLimit, StopFor, appr
<1>4. ASSUME NEW a \in Actions, Denied(r, a) \/ Allowed(r, a)
      PROVE  /\ pc[r] # "approval" /\ status' = status /\ decided' = decided
             /\ \E to : to # "approval" /\ pc' = [pc EXCEPT ![r] = to]
             /\ calls' = [calls EXCEPT ![r] = Append(@, a)]
  <2>1. /\ pc[r] = "calls" /\ status' = status /\ decided' = decided
        /\ calls' = [calls EXCEPT ![r] = Append(@, a)]
    BY <1>4 DEF Denied, Allowed, NextCall, appr
  <2>2. Proceed(r) \/ pc' = [pc EXCEPT ![r] = "raised"]
    BY <1>4 DEF Denied, Allowed, Invoke, NoExecutor, Raises, RecordRaises
  <2> QED
    BY <2>1, <2>2 DEF Proceed
<1> QED
  BY <1>1, <1>2, <1>3, <1>4 DEF Alone

LEMMA AloneWaits ==
  ASSUME OnBusInv, NEW r \in Runs, Alone(r)
  PROVE  WaitsOnBus' /\ NotYetAsked' /\ Following'
<1>1. /\ pc[r] # "approval" /\ status' = status /\ decided' = decided
      /\ \E to : to # "approval" /\ pc' = [pc EXCEPT ![r] = to]
      /\ calls' = calls \/ \E a \in Actions : calls' = [calls EXCEPT ![r] = Append(@, a)]
  BY AloneGoes DEF OnBusInv
<1>2. place' = place /\ held' = held /\ log' = log
  BY DEF Alone, busVars
<1>3. /\ pc'[r] # "approval"
      /\ \A q \in Runs \ {r} : pc'[q] = pc[q]
  BY <1>1 DEF OnBusInv, IInv, TypeOK
<1>4. /\ Number(r) \in Nat /\ Number(r)' \in Nat /\ Number(r) <= Number(r)'
      /\ \A q \in Runs \ {r} : Number(q)' = Number(q)
  <2>1. calls \in [Runs -> Seq(Actions)] /\ Len(calls[r]) \in Nat
    BY LenProperties DEF OnBusInv, IInv, TypeOK
  <2>2. CASE calls' = calls
    BY <2>1, <2>2 DEF Number
  <2>3. ASSUME NEW a \in Actions, calls' = [calls EXCEPT ![r] = Append(@, a)]
        PROVE  <1>4!:
    <3>1. Len(Append(calls[r], a)) = Len(calls[r]) + 1
      BY <2>1, CallTaken
    <3> QED
      BY <2>1, <2>3, <3>1 DEF Number
  <2> QED
    BY <1>1, <2>2, <2>3
<1>5. ASSUME NEW q \in Runs, NEW n \in 1..ToolCallLimit
      PROVE  place'[<<q, n>>] \in Bus!Pending <=>
               pc'[q] = "approval" /\ n = Number(q)'
  <2>1. place[<<q, n>>] \in Bus!Pending <=> pc[q] = "approval" /\ n = Number(q)
    BY DEF OnBusInv, WaitsOnBus, Bus!Open
  <2> QED
    BY <1>1, <1>2, <1>3, <1>4, <2>1
<1>6. WaitsOnBus'
  BY <1>5 DEF WaitsOnBus, Bus!Open
<1>7. NotYetAsked'
  <2> HIDE DEF Number
  <2> SUFFICES ASSUME NEW q \in Runs, NEW n \in 1..ToolCallLimit, n > Number(q)'
               PROVE  place[<<q, n>>] = "idle"
    BY <1>2 DEF NotYetAsked
  <2>1. n > Number(q)
    BY <1>4
  <2> QED
    BY <2>1 DEF OnBusInv, NotYetAsked
<1>8. Following'
  BY <1>1, <1>2 DEF OnBusInv, Following, Bus!statusBar, Bus!decidedBar
<1> QED
  BY <1>6, <1>7, <1>8

(***************************************************************************)
(* The steps of the engine on the bus are steps of the engine and of the   *)
(* bus, and keep the invariant.                                            *)
(***************************************************************************)

LEMMA OnBusStep ==
  ASSUME OnBusInv, [OnBusNext]_<<vars, busVars>>
  PROVE  /\ [Next]_vars /\ [Bus!Next]_(Bus!vars)
         /\ WaitsOnBus' /\ NotYetAsked' /\ Following'
<1> DEFINE Good == /\ [Next]_vars /\ [Bus!Next]_(Bus!vars)
                   /\ WaitsOnBus' /\ NotYetAsked' /\ Following'
<1>0. Follow => Following'
  BY DEF Follow, Following
<1>1. ASSUME NEW r \in Runs, Alone(r) PROVE Good
  <2>1. Next
    BY <1>1 DEF Alone, Next, Tool
  <2>2. UNCHANGED Bus!vars
    BY <1>1 DEF Alone, busVars, Bus!vars
  <2> QED
    BY <1>1, <2>1, <2>2, AloneWaits
<1>2. ASSUME NEW r \in Runs, Round(r) PROVE Good
  <2>1. Id(r) \in ApprovalIds /\ Id(r) = <<r, Number(r)>>
    BY <1>2, OwnRequest DEF Round, OnBusInv
  <2>2. Bus!Next
    BY <1>2, <2>1 DEF Round, Bus!Next, Bus!Step
  <2>3. UNCHANGED vars /\ pc' = pc /\ calls' = calls /\ UNCHANGED <<status, decided>>
    BY <1>2 DEF Round, vars, local, appr
  <2>4. Following'
    <3>1. Bus!statusBar' = Bus!statusBar /\ Bus!decidedBar' = Bus!decidedBar
      BY <1>2, <2>1, RoundIsSilent DEF Round
    <3> QED
      BY <2>3, <3>1 DEF OnBusInv, Following
  <2>5. /\ place[Id(r)] \in Bus!Pending
        /\ \E to \in Bus!Pending : place' = [place EXCEPT ![Id(r)] = to]
    BY <1>2 DEF Round, Bus!Take, Bus!Requeue, Bus!Resume, Bus!Pending
  <2>6. PICK to \in Bus!Pending : place' = [place EXCEPT ![Id(r)] = to]
    BY <2>5
  <2>7. ASSUME NEW q \in Runs, NEW n \in 1..ToolCallLimit
        PROVE  /\ place'[<<q, n>>] \in Bus!Pending <=> place[<<q, n>>] \in Bus!Pending
               /\ place[<<q, n>>] = "idle" => place'[<<q, n>>] = "idle"
    <3>1. "idle" \notin Bus!Pending
      BY DEF Bus!Pending
    <3>2. <<q, n>> \in ApprovalIds /\ place \in [ApprovalIds -> Bus!Place]
      BY PlacesTyped
    <3>3. CASE <<q, n>> = Id(r)
      BY <2>5, <2>6, <3>1, <3>2, <3>3
    <3>4. CASE <<q, n>> # Id(r)
      BY <2>6, <3>2, <3>4
    <3> QED
      BY <3>3, <3>4
  <2>8. WaitsOnBus' /\ NotYetAsked'
    <3>1. \A q \in Runs : Number(q)' = Number(q)
      BY <2>3 DEF Number
    <3>2. WaitsOnBus'
      BY ZenonT(30), <2>3, <2>7, <3>1 DEF OnBusInv, WaitsOnBus, Bus!Open
    <3>3. NotYetAsked'
      BY <2>7, <3>1 DEF OnBusInv, NotYetAsked
    <3> QED
      BY <3>2, <3>3
  <2> QED
    BY <2>2, <2>3, <2>4, <2>8
<1>3. ASSUME NEW r \in Runs, NEW a \in Actions, BusEscalate(r, a) PROVE Good
  <2>1. <<r, Number(r) + 1>> \in ApprovalIds
    BY <1>3, PlacesTyped, BudgetTyped DEF BusEscalate, NextCall, Number, ApprovalIds
  <2>2. Ap!Open(<<r, Number(r) + 1>>)
    BY <1>3, <2>1, AskOpens DEF BusEscalate
  <2>3. Next
    BY <1>3, <2>2 DEF BusEscalate, Escalate, Next, Tool
  <2>4. Bus!Next
    BY <1>3, <2>1 DEF BusEscalate, Bus!Next
  <2> QED
    BY <1>0, <1>3, <2>3, <2>4, RequestMade DEF BusEscalate
<1>4. ASSUME NEW r \in Runs, BusApproved(r) \/ BusRejected(r) PROVE Good
  <2>1. /\ pc[r] = "approval" /\ Bus!Match(Id(r)) /\ Follow
        /\ Id(r) \in ApprovalIds
    BY <1>4, OwnRequest DEF BusApproved, BusRejected, OnBusInv
  <2>2. /\ Ap!Close(Id(r)) /\ held[Id(r)].decision \in Decisions
        /\ status'[Id(r)] = held[Id(r)].decision
    BY <2>1, MatchDecides
  <2>3. Approved(r) \/ Rejected(r)
    BY <1>4, <2>1, <2>2 DEF BusApproved, BusRejected, Approved, Rejected, Decisions
  <2>4. /\ calls' = calls
        /\ \E to : to # "approval" /\ pc' = [pc EXCEPT ![r] = to]
    BY <1>4 DEF BusApproved, BusRejected, Invoke, NoExecutor, Halt, StopFor,
                Proceed, Raises, RecordRaises
  <2>5. pc'[r] # "approval" /\ \A q \in Runs \ {r} : pc'[q] = pc[q]
    BY <2>4 DEF OnBusInv, IInv, TypeOK
  <2>6. "returned" \in Bus!Left /\ place' = [place EXCEPT ![Id(r)] = "returned"]
    BY <2>1 DEF Bus!Match, Bus!Left
  <2>7. WaitsOnBus' /\ NotYetAsked'
    BY <2>1, <2>4, <2>5, <2>6, RequestOver
  <2>8. Next /\ Bus!Next
    BY <2>1, <2>3 DEF Next, Bus!Next, Bus!Step
  <2> QED
    BY <1>0, <2>1, <2>7, <2>8
<1>5. ASSUME NEW r \in Runs, BusTimedOut(r) \/ BusCancelled(r) PROVE Good
  <2>1. /\ pc[r] = "approval" /\ (Bus!Timeout(Id(r)) \/ Bus!Cancel(Id(r))) /\ Follow
        /\ Id(r) \in ApprovalIds
    BY <1>5, OwnRequest DEF BusTimedOut, BusCancelled, OnBusInv
  <2>2. TimedOut(r) \/ Cancelled(r)
    <3>1. Bus!Timeout(Id(r)) => r \in TimedRuns
      BY DEF Bus!Timeout, Id
    <3> QED
      BY <1>5, <2>1, <3>1, TimeoutExpires, CancelAbandons
         DEF BusTimedOut, BusCancelled, TimedOut, Cancelled
  <2>3. /\ calls' = calls
        /\ \E to : to # "approval" /\ pc' = [pc EXCEPT ![r] = to]
    BY <1>5 DEF BusTimedOut, BusCancelled, Halt, StopFor, Raises, RecordRaises
  <2>4. pc'[r] # "approval" /\ \A q \in Runs \ {r} : pc'[q] = pc[q]
    BY <2>3 DEF OnBusInv, IInv, TypeOK
  <2>5. \E to \in Bus!Left : place' = [place EXCEPT ![Id(r)] = to]
    BY <2>1 DEF Bus!Timeout, Bus!Cancel, Bus!Left
  <2>6. WaitsOnBus' /\ NotYetAsked'
    BY <2>1, <2>3, <2>4, <2>5, RequestOver
  <2>7. Next /\ Bus!Next
    BY <2>1, <2>2 DEF Next, Bus!Next
  <2> QED
    BY <1>0, <2>1, <2>6, <2>7
<1>6. CASE Approver
  <2>1. /\ Follow /\ pc' = pc /\ calls' = calls /\ place' = place
        /\ UNCHANGED <<local, db, billed, executed>>
    BY <1>6 DEF Approver, local, Bus!See, Bus!Answer
  <2>2. WaitsOnBus' /\ NotYetAsked'
    BY <2>1 DEF OnBusInv, WaitsOnBus, NotYetAsked, Bus!Open, Number
  <2>3. CASE Bus!See
    <3>1. status' = status /\ decided' = decided
      BY <2>1, <2>3, SeeIsSilent DEF OnBusInv, Following, Follow
    <3>2. UNCHANGED vars
      BY <2>1, <3>1 DEF vars, appr
    <3> QED
      BY <1>0, <2>1, <2>2, <2>3, <3>2 DEF Bus!Next
  <2>4. ASSUME NEW id \in ApprovalIds, NEW d \in Decisions, Bus!Answer(id, d)
        PROVE  Good
    <3>1. Next
      BY <2>1, <2>4, AnswerDecides DEF Next, Decide
    <3>2. Bus!Next
      BY <2>4 DEF Bus!Next, Bus!Decisions, Decisions
    <3> QED
      BY <1>0, <2>1, <2>2, <3>1, <3>2
  <2> QED
    BY <1>6, <2>3, <2>4 DEF Approver
<1>7. CASE UNCHANGED <<vars, busVars>>
  <2>1. /\ pc' = pc /\ calls' = calls /\ status' = status /\ decided' = decided
        /\ place' = place /\ held' = held /\ log' = log
        /\ UNCHANGED vars /\ UNCHANGED Bus!vars
    BY <1>7 DEF vars, local, appr, busVars, Bus!vars
  <2>2. WaitsOnBus' /\ NotYetAsked'
    BY <2>1 DEF OnBusInv, WaitsOnBus, NotYetAsked, Bus!Open, Number
  <2>3. Following'
    BY <2>1 DEF OnBusInv, Following, Bus!statusBar, Bus!decidedBar
  <2> QED
    BY <2>1, <2>2, <2>3
<1> QED
  BY <1>1, <1>2, <1>3, <1>4, <1>5, <1>6, <1>7 DEF OnBusNext

LEMMA OnBusInits == OnBusInit => OnBusInv
<1> SUFFICES ASSUME OnBusInit PROVE OnBusInv
  OBVIOUS
<1>1. IInv /\ Bus!IInv
  BY InitInvariant, BusInits DEF OnBusInit
<1>2. WaitsOnBus /\ NotYetAsked
  BY DEF OnBusInit, Init, Bus!Init, WaitsOnBus, NotYetAsked, Bus!Open, Bus!Pending,
         ApprovalIds
<1>3. Following
  BY DEF OnBusInit, Init, Ap!AbsInit, Bus!Init, Following, Bus!statusBar,
         Bus!decidedBar, Bus!Pending, Bus!ToSet
<1> QED
  BY <1>1, <1>2, <1>3 DEF OnBusInv

LEMMA OnBusInvariant == OnBusSpec => []OnBusInv
<1>1. OnBusInv /\ [OnBusNext]_<<vars, busVars>> => OnBusInv'
  BY OnBusStep, NextInvariant, BusInvariant DEF OnBusInv
<1> QED
  BY <1>1, OnBusInits, PTL DEF OnBusSpec

\* A run on the bus does what ReasoningEngine allows and nothing else: it goes on with
\* a decision only if an approver gave it about this very call, whatever other runs
\* did to the queue that brought it, and it is over once it was refused or left alone.
THEOREM OnBusRefines == OnBusSpec => ImplementsEngine
<1>1. OnBusInit => Init
  BY DEF OnBusInit
<1>2. OnBusInv /\ [OnBusNext]_<<vars, busVars>> => [Next]_vars
  BY OnBusStep
<1> QED
  BY <1>1, <1>2, OnBusInvariant, PTL DEF OnBusSpec, ImplementsEngine, Spec

\* So what is proved of the engine holds of it on the bus: every call is gated.
THEOREM OnBusGated == OnBusSpec => []NeverUngated
BY OnBusRefines, Gated, PTL DEF ImplementsEngine

\* The bus keeps its promises to the runs too, and no request outlives its run's
\* interest in it: one task consumes resolutions for a run exactly while it waits.
THEOREM OnBusWaits == OnBusSpec => []WaitsOnBus
<1>1. OnBusInv => WaitsOnBus
  BY DEF OnBusInv
<1> QED
  BY <1>1, OnBusInvariant, PTL

\* Nor does the bus behave otherwise for being called by runs.
THEOREM OnBusIsBus == OnBusSpec => Bus!Spec
<1>1. OnBusInit => Bus!Init
  BY DEF OnBusInit
<1>2. OnBusInv /\ [OnBusNext]_<<vars, busVars>> => [Bus!Next]_(Bus!vars)
  BY OnBusStep
<1> QED
  BY <1>1, <1>2, OnBusInvariant, PTL DEF OnBusSpec, Bus!Spec

LEMMA SameConservation == /\ Bus!Conservation <=> BP!Conservation
                          /\ Bus!Conservation' <=> BP!Conservation'
BY DEF Bus!Conservation, Bus!Resolution, Bus!Decisions, Bus!Occurrences, Bus!Cardinality,
       BP!Conservation, BP!Resolution, BP!Decisions, BP!Occurrences, BP!Cardinality

\* Runs never lose or duplicate one another's resolutions, though each takes whatever
\* comes and is timed out or cancelled at any time.
THEOREM OnBusConserves == OnBusSpec => []Bus!Conservation
<1>1. Bus!Init => Bus!Conservation
  <2>1. Bus!Init <=> BP!Init
    BY DEF Bus!Init, BP!Init
  <2> QED
    BY <2>1, BusAssumptions, SameConservation, BP!InitConserves
<1>2. Bus!IInv /\ Bus!Conservation /\ [Bus!Next]_(Bus!vars) => Bus!Conservation'
  BY BusAssumptions, SameInvariant, SameNext, SameConservation, BP!NextConserves
<1>3. OnBusInv => Bus!IInv
  BY DEF OnBusInv
<1> QED
  BY <1>1, <1>2, <1>3, OnBusInvariant, OnBusIsBus, PTL DEF Bus!Spec
=============================================================================
