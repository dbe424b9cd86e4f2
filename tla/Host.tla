-------------------------------- MODULE Host --------------------------------
(***************************************************************************)
(* An installation: processes that share system.db and the vault, each     *)
(* with its runtime.  A process is in one call at a time, of one of the    *)
(* services, and a crash takes all that it has open.                       *)
(***************************************************************************)
EXTENDS SystemFile, Vault, Provisioning

vars == <<procVars, systemVars, vaultVars, provVars>>

TypeOK ==
  /\ up \subseteq Procs /\ calls \in 0..MaxCalls /\ crashes \in 0..MaxCrashes
  /\ task \in [Procs -> {Idle} \cup SystemTask \cup VaultTask \cup ProvTask]
  /\ \A p \in Procs : p \notin up => task[p] = Idle
  /\ SystemTypeOK /\ VaultTypeOK /\ ProvTypeOK

Init == ProcInit /\ SystemInit /\ VaultInit /\ ProvInit

\* AgentRuntime and InstanceRegistry open their connections.
Start(p) == StartProc(p) /\ SystemStart(p) /\ UNCHANGED <<vaultVars, provVars>>

Crash(p) == CrashProc(p) /\ SystemCrash(p) /\ VaultCrash(p) /\ ProvCrash(p)

Next == \E p \in Procs :
          \/ Start(p) \/ Crash(p)
          \/ SystemNext(p) /\ UNCHANGED <<vaultVars, provVars>>
          \/ VaultNext(p)  /\ UNCHANGED <<systemVars, provVars>>
          \/ ProvNext(p)   /\ UNCHANGED <<systemVars, vaultVars>>

Spec == Init /\ [][Next]_vars
=============================================================================
