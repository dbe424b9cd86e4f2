------------------------------ MODULE Approvals ------------------------------
(***************************************************************************)
(* What the approval flow of agentwright promises to a run, without the    *)
(* queues and tasks that implement it: a request is opened once, approvers *)
(* decide about it, and it ends with one of the decisions given about that *)
(* very request, by a timeout, or because the requesting task is cancelled.*)
(*                                                                         *)
(* EventBus implements this specification; ReasoningEngine is built on it. *)
(***************************************************************************)
CONSTANTS Ids,        \* approval ids (uuid4 values: each names one request)
          Decisions   \* the decisions an approver may give

VARIABLES status,     \* what has become of each request
          decided     \* the decisions given so far about each request

absVars == <<status, decided>>

Ended   == Decisions \cup {"timedout", "cancelled"}
Status  == {"idle", "open"} \cup Ended

AbsTypeOK == /\ status \in [Ids -> Status]
             /\ decided \in [Ids -> SUBSET Decisions]

AbsInit == /\ status  = [id \in Ids |-> "idle"]
           /\ decided = [id \in Ids |-> {}]

\* A run asks for an approval.
Open(id) == /\ status[id] = "idle"
            /\ status' = [status EXCEPT ![id] = "open"]
            /\ UNCHANGED decided

\* An approver decides about a request that was made, perhaps too late.
Decide(id, d) == /\ status[id] # "idle"
                 /\ decided' = [decided EXCEPT ![id] = @ \cup {d}]
                 /\ UNCHANGED status

\* The request returns a decision that was given about it.
Close(id) == /\ status[id] = "open"
             /\ \E d \in decided[id] : status' = [status EXCEPT ![id] = d]
             /\ UNCHANGED decided

\* The request ends without a decision.
Expire(id) == /\ status[id] = "open"
              /\ status' = [status EXCEPT ![id] = "timedout"]
              /\ UNCHANGED decided

Abandon(id) == /\ status[id] = "open"
               /\ status' = [status EXCEPT ![id] = "cancelled"]
               /\ UNCHANGED decided

AbsNext == \E id \in Ids :
             \/ Open(id) \/ Close(id) \/ Expire(id) \/ Abandon(id)
             \/ \E d \in Decisions : Decide(id, d)

AbsSpec == AbsInit /\ [][AbsNext]_absVars
=============================================================================
