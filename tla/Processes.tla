------------------------------ MODULE Processes ------------------------------
(***************************************************************************)
(* The processes of one installation.  They share the data directory, and  *)
(* each executes one call of the synchronous services at a time; a crash   *)
(* or a kill may end it between any two steps of a call.                   *)
(***************************************************************************)
EXTENDS Naturals, Sequences, FiniteSets

CONSTANTS Procs,
          Agents,
          MaxCalls,   \* bound on the calls of all processes
          MaxCrashes  \* bound on the crashes

ASSUME ProcessesAssumption == MaxCalls \in Nat /\ MaxCrashes \in Nat

VARIABLES
  up,      \* the processes that run
  task,    \* task[p]: the call p is in, and the step it takes next
  calls,   \* number of calls made
  crashes  \* number of crashes

procVars == <<up, task, calls, crashes>>

Idle == [step |-> "idle"]

ProcInit == /\ up = {}
            /\ task = [p \in Procs |-> Idle]
            /\ calls = 0 /\ crashes = 0

\* p makes a call; t is what is left of it after its first step.
Call(p, t) == /\ p \in up /\ task[p] = Idle
              /\ calls < MaxCalls
              /\ calls' = calls + 1
              /\ task' = [task EXCEPT ![p] = t]
              /\ UNCHANGED <<up, crashes>>

\* p goes on with its call.
Continue(p, t) == /\ task' = [task EXCEPT ![p] = t]
                  /\ UNCHANGED <<up, calls, crashes>>

StartProc(p) == /\ p \notin up
                /\ up' = up \cup {p}
                /\ UNCHANGED <<task, calls, crashes>>

\* A crash, or the close of everything the process has open.
CrashProc(p) == /\ p \in up
                /\ crashes < MaxCrashes
                /\ crashes' = crashes + 1
                /\ up' = up \ {p}
                /\ task' = [task EXCEPT ![p] = Idle]
                /\ UNCHANGED calls
=============================================================================
