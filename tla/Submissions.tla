------------------------------ MODULE Submissions ------------------------------
(***************************************************************************)
(* What the write worker of agentwright promises the callers of submit,    *)
(* without queue, futures and the tasks that come and go: writes are called*)
(* once and in the order they were submitted in, whoever still waits, and  *)
(* a caller is answered after its own write, and by what that write did.   *)
(*                                                                         *)
(* WriteWorker implements this specification.                              *)
(***************************************************************************)
EXTENDS Naturals, Sequences

CONSTANTS Writes, Failing      \* as in WriteWorker

VARIABLES submitted,  \* the writes submitted so far, in order
          applied,    \* the writes called so far, in order
          caller      \* where the caller of submit is

subVars == <<submitted, applied, caller>>

SubInit == /\ submitted = <<>>
           /\ applied = <<>>
           /\ caller = [w \in Writes |-> "idle"]

Submit(w) == /\ caller[w] = "idle"
             /\ submitted' = Append(submitted, w)
             /\ caller' = [caller EXCEPT ![w] = "waiting"]
             /\ UNCHANGED applied

\* The next write is called.
ApplyNext == /\ Len(applied) < Len(submitted)
             /\ applied' = Append(applied, submitted[Len(applied) + 1])
             /\ UNCHANGED <<submitted, caller>>

Answer(w) == /\ caller[w] = "waiting"
             /\ \E i \in 1..Len(applied) : applied[i] = w
             /\ caller' = [caller EXCEPT
                             ![w] = IF w \in Failing THEN "raised" ELSE "returned"]
             /\ UNCHANGED <<submitted, applied>>

\* The caller gives up; its write is called all the same.
GiveUp(w) == /\ caller[w] = "waiting"
             /\ caller' = [caller EXCEPT ![w] = "cancelled"]
             /\ UNCHANGED <<submitted, applied>>

SubNext == ApplyNext \/ \E w \in Writes : Submit(w) \/ Answer(w) \/ GiveUp(w)

SubSpec == SubInit /\ [][SubNext]_subVars
=============================================================================
