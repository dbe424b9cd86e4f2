-------------------------------- MODULE Vault --------------------------------
(***************************************************************************)
(* agentwright/runtime/vault.py: secrets in one encrypted file.  A process *)
(* reads the file once, when it opens the vault, and writes all of it each *)
(* time it changes its own copy.  That the file is restricted to its owner *)
(* after a write is left out.                                              *)
(***************************************************************************)
EXTENDS Processes

CONSTANTS Refs, Secrets, Keys

NoSecret == "no secret"
Key      == "key"      \* stands for the master key, among the refs

ASSUME VaultAssumption == NoSecret \notin Secrets /\ Key \notin Refs

Entries == [Refs -> Secrets \cup {NoSecret}]

VARIABLES
  blob,      \* the file: there or not, emptied for a write, torn or whole
  opened,    \* the processes that have the vault open
  key,       \* key[p]: the key p encrypts with
  copy,      \* copy[p]: the entries p has in memory
  acked,     \* the entries and the key by the calls that returned (history)
  disputed,  \* what was changed last by a call that was cut short, or while
             \* another process had the vault open (history)
  mishap     \* a write of the file was cut short, or two overlapped (history)

vaultVars == <<blob, opened, key, copy, acked, disputed, mishap>>

Blob == [state : {"absent", "empty", "torn", "whole"}, key : Keys, data : Entries]

VaultTask == [step : {"flush"}, ref : Refs \cup {Key}]

VaultTypeOK ==
  /\ blob \in Blob
  /\ opened \subseteq up
  /\ key \in [Procs -> Keys] /\ copy \in [Procs -> Entries]
  /\ acked \in [key : Keys, data : Entries]
  /\ disputed \subseteq Refs \cup {Key}
  /\ mishap \in BOOLEAN

NoEntries == [r \in Refs |-> NoSecret]

VaultInit ==
  /\ \E k \in Keys : /\ blob = [state |-> "absent", key |-> k, data |-> NoEntries]
                     /\ key = [p \in Procs |-> k]
                     /\ acked = [key |-> k, data |-> NoEntries]
  /\ opened = {}
  /\ copy = [p \in Procs |-> NoEntries]
  /\ disputed = {} /\ mishap = FALSE

Flushing == {p \in Procs : task[p].step = "flush"}
-----------------------------------------------------------------------------
\* _load: with another key, or of a file that is not whole, it raises.  Before
\* there is a file its key is the one every process is configured with.
Loadable(k) == blob.state \in {"absent", "whole"} /\ blob.key = k
Load(k)     == IF blob.state = "absent" THEN NoEntries ELSE blob.data

Open(p, k) ==
  /\ p \notin opened /\ Loadable(k)
  /\ Call(p, Idle)
  /\ opened' = opened \cup {p}
  /\ key' = [key EXCEPT ![p] = k]
  /\ copy' = [copy EXCEPT ![p] = Load(k)]
  /\ UNCHANGED <<blob, acked, disputed, mishap>>

\* _flush starts by emptying the file.
Flush(p, ref) ==
  /\ Call(p, [step |-> "flush", ref |-> ref])
  /\ blob' = [blob EXCEPT !.state = "empty"]
  /\ mishap' = (mishap \/ Flushing # {})
  /\ UNCHANGED <<opened, acked, disputed>>

Set(p, ref, value) ==
  /\ p \in opened
  /\ copy' = [copy EXCEPT ![p][ref] = value]
  /\ Flush(p, ref)
  /\ UNCHANGED key

M_Delete(p, ref) ==                 \* in memory only
  /\ p \in opened /\ copy[p][ref] # NoSecret
  /\ copy' = [copy EXCEPT ![p][ref] = NoSecret]
  /\ acked' = [acked EXCEPT !.data[ref] = NoSecret]
  /\ Call(p, Idle)
  /\ UNCHANGED <<blob, opened, key, disputed, mishap>>

Delete(p, ref) ==
  /\ p \in opened /\ copy[p][ref] # NoSecret
  /\ copy' = [copy EXCEPT ![p][ref] = NoSecret]
  /\ Flush(p, ref)
  /\ UNCHANGED key

RotateKey(p, k) ==
  /\ p \in opened
  /\ key' = [key EXCEPT ![p] = k]
  /\ Flush(p, Key)
  /\ UNCHANGED copy

\* A token written over another one may leave the end of a longer one.
EndFlush(p) ==
  LET ref == task[p].ref IN
    /\ p \in Flushing
    /\ blob' \in [state : {"whole"} \cup (IF blob.state = "empty" THEN {} ELSE {"torn"}),
                  key : {key[p]}, data : {copy[p]}]
    /\ acked' = IF ref = Key THEN [acked EXCEPT !.key = key[p]]
                ELSE [acked EXCEPT !.data[ref] = copy[p][ref]]
    /\ disputed' = IF opened = {p} THEN disputed \ {ref} ELSE disputed \cup {ref}
    /\ Continue(p, Idle)
    /\ UNCHANGED <<opened, key, copy, mishap>>

\* What a write that is cut short may leave.
Remains(p) == {blob, [blob EXCEPT !.state = "torn"],
               [state |-> "whole", key |-> key[p], data |-> copy[p]]}

\* The write raises, on a full disk for one.  The change stays in memory.
FlushFails(p) ==
  /\ p \in Flushing
  /\ blob' \in Remains(p)
  /\ disputed' = disputed \cup {task[p].ref}
  /\ mishap' = TRUE
  /\ Continue(p, Idle)
  /\ UNCHANGED <<opened, key, copy, acked>>

VaultNext(p) ==
  \/ \E k \in Keys : Open(p, k) \/ RotateKey(p, k)
  \/ \E ref \in Refs : Delete(p, ref) \/ \E value \in Secrets : Set(p, ref, value)
  \/ EndFlush(p) \/ FlushFails(p)

\* A process that ends loses its copy; one that ends in a write may tear it.
VaultCrash(p) ==
  /\ opened' = opened \ {p}
  /\ IF p \in Flushing
     THEN /\ blob' \in Remains(p)
          /\ disputed' = disputed \cup {task[p].ref}
          /\ mishap' = TRUE
     ELSE UNCHANGED <<blob, disputed, mishap>>
  /\ UNCHANGED <<key, copy, acked>>
-----------------------------------------------------------------------------
(* Properties *)

\* No secret that was set is lost, none that was deleted comes back and the key
\* is the one of the last rotation, except for those last changed by a call that
\* was cut short, or while another process had the vault open: that process has
\* the old entries and writes them back with its next change (vault.py:86).
NoSecretLost ==
  blob.state = "whole" =>
    /\ \A r \in Refs \ disputed : blob.data[r] = acked.data[r]
    /\ Key \notin disputed => blob.key = acked.key

\* The file can be read unless a write is under way, was cut short or overlapped
\* another: it is overwritten in place (vault.py:75), so a mishap costs all of it.
FileReadable == blob.state \in {"empty", "torn"} => Flushing # {} \/ mishap

\* Whatever happened to the file, and as long as nobody else had the vault open,
\* a process that has it open still has every secret, and its next change writes
\* them all again.
CopyComplete ==
  \A p \in opened \ Flushing : \A r \in Refs \ disputed : copy[p][r] = acked.data[r]

\* What the vault promises: the file can be read and has what it should, and if
\* the file is lost, a process that has the vault open has not lost anything.
SecretsKept == NoSecretLost /\ FileReadable /\ CopyComplete
=============================================================================
