---------------------------- MODULE SessionLock -----------------------------
(***************************************************************************)
(* The in-process provider session lock of providersession/store.go.  A    *)
(* table maps a session key to a reference-counted entry that holds the    *)
(* mutex; an entry leaves the table with its last reference.  The table's  *)
(* own mutex is held only around memory accesses, so each of its sections  *)
(* is one step; waiting for, and releasing, the entry's mutex are separate *)
(* steps that other runs interleave with.                                  *)
(***************************************************************************)
EXTENDS Naturals, FiniteSets

CONSTANTS
    Runs,       \* goroutines that execute a provider run
    Keys,       \* session keys
    Entries,    \* addresses an entry can be allocated at
    Nil, Free   \* no entry; an unlocked mutex

ASSUME EntriesAssumption == IsFiniteSet(Runs) /\ Nil \notin Entries
ASSUME FreeAssumption == Free \notin Runs

VARIABLES
    entries,   \* sessionLocks.entries
    mu,        \* the run inside each entry's mutex
    refs,      \* entry.refs
    pc, key, entry   \* per run: where it is, its key, its entry pointer

vars == <<entries, mu, refs, pc, key, entry>>

Init == /\ entries = [k \in Keys |-> Nil]
        /\ mu = [e \in Entries |-> Free]
        /\ refs = [e \in Entries |-> 0]
        /\ pc = [r \in Runs |-> "idle"]
        /\ key \in [Runs -> Keys]
        /\ entry = [r \in Runs |-> Nil]

\* The allocator hands out memory nothing points at any more.
Unused(e) == /\ \A k \in Keys : entries[k] # e
             /\ \A r \in Runs : entry[r] # e

-----------------------------------------------------------------------------
\* A mutant: only the run that creates the entry is counted.
FoundUncounted(r, k) ==
    /\ entries[k] # Nil
    /\ entry' = [entry EXCEPT ![r] = entries[k]]
    /\ UNCHANGED <<entries, refs, mu>>

\* The key is known: share its entry.
Found(r, k) == /\ entries[k] # Nil
               /\ entry' = [entry EXCEPT ![r] = entries[k]]
               /\ refs' = [refs EXCEPT ![entries[k]] = @ + 1]
               /\ UNCHANGED <<entries, mu>>

\* The key is new: allocate an entry (its mutex unlocked) and publish it.
Created(r, k) == /\ entries[k] = Nil
                 /\ \E e \in Entries :
                       /\ Unused(e)
                       /\ entries' = [entries EXCEPT ![k] = e]
                       /\ entry' = [entry EXCEPT ![r] = e]
                       /\ refs' = [refs EXCEPT ![e] = 1]
                       /\ mu' = [mu EXCEPT ![e] = Free]

\* Lock, first half: find or create the entry under the table's mutex.
Enter(r) == /\ pc[r] = "idle"
            /\ \E k \in Keys : /\ key' = [key EXCEPT ![r] = k]
                               /\ Found(r, k) \/ Created(r, k)
            /\ pc' = [pc EXCEPT ![r] = "wait"]

\* Lock, second half: entry.mu.Lock().
Acquire(r) == /\ pc[r] = "wait"
              /\ mu[entry[r]] = Free
              /\ mu' = [mu EXCEPT ![entry[r]] = r]
              /\ pc' = [pc EXCEPT ![r] = "held"]
              /\ UNCHANGED <<entries, refs, key, entry>>

\* A mutant: the reference is given back but the mutex stays locked.
UnlockForgotten(r) == /\ pc[r] = "held"
                      /\ pc' = [pc EXCEPT ![r] = "leave"]
                      /\ UNCHANGED <<entries, mu, refs, key, entry>>

\* Unlock, first half: entry.mu.Unlock().
Unlock(r) == /\ pc[r] = "held"
             /\ mu' = [mu EXCEPT ![entry[r]] = Free]
             /\ pc' = [pc EXCEPT ![r] = "leave"]
             /\ UNCHANGED <<entries, refs, key, entry>>

\* A mutant: the entry is dropped whoever still waits on it.
LeaveAlwaysDeletes(r) ==
    /\ pc[r] = "leave"
    /\ refs' = [refs EXCEPT ![entry[r]] = @ - 1]
    /\ entries' = [entries EXCEPT ![key[r]] = Nil]
    /\ entry' = [entry EXCEPT ![r] = Nil]
    /\ pc' = [pc EXCEPT ![r] = "idle"]
    /\ UNCHANGED <<mu, key>>

\* Unlock, second half: give the reference back; the last one deletes.
Leave(r) == /\ pc[r] = "leave"
            /\ refs' = [refs EXCEPT ![entry[r]] = @ - 1]
            /\ entries' = IF refs[entry[r]] = 1
                             THEN [entries EXCEPT ![key[r]] = Nil]
                             ELSE entries
            /\ entry' = [entry EXCEPT ![r] = Nil]
            /\ pc' = [pc EXCEPT ![r] = "idle"]
            /\ UNCHANGED <<mu, key>>

Step(r) == Enter(r) \/ Acquire(r) \/ Unlock(r) \/ Leave(r)

Next == \E r \in Runs : Step(r)

Spec == Init /\ [][Next]_vars

(* A run leaves its section because provider runs end; a Go mutex does not *)
(* let a waiter starve (its starvation mode hands over in order).          *)
Fairness == \A r \in Runs : /\ SF_vars(Acquire(r))
                            /\ WF_vars(Unlock(r))
                            /\ WF_vars(Leave(r))

FairSpec == Spec /\ Fairness

-----------------------------------------------------------------------------
TypeOK == /\ entries \in [Keys -> Entries \cup {Nil}]
          /\ mu \in [Entries -> Runs \cup {Free}]
          /\ refs \in [Entries -> Nat]
          /\ pc \in [Runs -> {"idle", "wait", "held", "leave"}]
          /\ key \in [Runs -> Keys]
          /\ entry \in [Runs -> Entries \cup {Nil}]

(* Two runs of one session key are never inside the section together, even *)
(* though the entry that holds the mutex comes and goes with its users     *)
(* (providersession.Lock, store.go).                                       *)
MutualExclusion ==
    \A q, r \in Runs :
        pc[q] = "held" /\ pc[r] = "held" /\ key[q] = key[r] => q = r

(* Nothing is left behind: the table holds an entry exactly while some run *)
(* is using or waiting for its key, so it cannot grow with the number of   *)
(* conversations served.                                                   *)
NoEntryLeaks ==
    \A k \in Keys : entries[k] # Nil => \E r \in Runs : pc[r] # "idle" /\ key[r] = k

holder == [k \in Keys |-> IF \E r \in Runs : pc[r] = "held" /\ key[r] = k
                             THEN CHOOSE r \in Runs : pc[r] = "held" /\ key[r] = k
                             ELSE Free]

Mutex == INSTANCE KeyMutex

(* The counted table implements one plain mutex per key.                   *)
ActsAsMutex == Mutex!Spec

(* Every waiter gets its turn: no interleaving of unlock, recount, delete  *)
(* and re-creation strands a run on a mutex nobody will release.           *)
WaitersEnter == \A r \in Runs : pc[r] = "wait" ~> pc[r] = "held"

-----------------------------------------------------------------------------
(* The inductive invariant: what makes the table safe.                     *)
Users(e) == {r \in Runs : entry[r] = e}

Counted == \A e \in Entries : refs[e] = Cardinality(Users(e))

Pointing == \A r \in Runs : IF pc[r] = "idle" THEN entry[r] = Nil
                            ELSE entry[r] \in Entries /\ entries[key[r]] = entry[r]

OwnEntry == \A j, k \in Keys : entries[j] # Nil /\ entries[j] = entries[k] => j = k

Used == \A k \in Keys : entries[k] # Nil => \E r \in Runs : entry[r] = entries[k]

Holding == \A e \in Entries, r \in Runs :
               mu[e] = r <=> pc[r] = "held" /\ entry[r] = e

IInv == TypeOK /\ Counted /\ Pointing /\ OwnEntry /\ Used /\ Holding
=============================================================================
