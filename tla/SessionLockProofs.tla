------------------------- MODULE SessionLockProofs --------------------------
(***************************************************************************)
(* The reference-counted session lock excludes, leaks nothing and          *)
(* implements a plain mutex per key, for every number of runs and keys.    *)
(***************************************************************************)
EXTENDS SessionLock, FiniteSetTheorems, TLAPS

USE EntriesAssumption, FreeAssumption

(* The users of an entry form a finite set.                                *)
LEMMA UsersFinite ==
    ASSUME NEW e
    PROVE  IsFiniteSet(Users(e)) /\ Cardinality(Users(e)) \in Nat
  <1>1. Users(e) \subseteq Runs
    BY DEF Users
  <1>2. IsFiniteSet(Users(e))
    BY <1>1, FS_Subset
  <1>. QED BY <1>2, FS_CardinalityType

(* Taking a pointer to an entry adds one user and disturbs no other entry. *)
LEMMA UsersAdd ==
    ASSUME TypeOK, NEW r \in Runs, NEW e \in Entries, entry[r] = Nil,
           entry' = [entry EXCEPT ![r] = e]
    PROVE  /\ Cardinality(Users(e)') = Cardinality(Users(e)) + 1
           /\ \A f \in Entries : f # e => Users(f)' = Users(f)
  <1>1. Users(e)' = Users(e) \cup {r} /\ r \notin Users(e)
    BY DEF Users, TypeOK
  <1>2. Cardinality(Users(e)') = Cardinality(Users(e)) + 1
    BY ZenonT(40), <1>1, UsersFinite, FS_AddElement
  <1>3. \A f \in Entries : f # e => Users(f)' = Users(f)
    BY DEF Users, TypeOK
  <1>. QED BY <1>2, <1>3

(* Giving the pointer back removes one user.                               *)
LEMMA UsersRemove ==
    ASSUME TypeOK, NEW r \in Runs, NEW e \in Entries, entry[r] = e,
           entry' = [entry EXCEPT ![r] = Nil]
    PROVE  /\ r \in Users(e) /\ Users(e)' = Users(e) \ {r}
           /\ Cardinality(Users(e)') = Cardinality(Users(e)) - 1
           /\ \A f \in Entries : f # e => Users(f)' = Users(f)
  <1>1. Users(e)' = Users(e) \ {r} /\ r \in Users(e)
    BY DEF Users, TypeOK
  <1>2. Cardinality(Users(e)') = Cardinality(Users(e)) - 1
    BY ZenonT(40), <1>1, UsersFinite, FS_RemoveElement
  <1>3. \A f \in Entries : f # e => Users(f)' = Users(f)
    BY DEF Users, TypeOK
  <1>. QED BY <1>1, <1>2, <1>3

(* The initial state satisfies the inductive invariant.                    *)
LEMMA InvInit == Init => IInv
  <1>. SUFFICES ASSUME Init PROVE IInv
    OBVIOUS
  <1>1. TypeOK
    BY DEF Init, TypeOK
  <1>2. Counted
    <2>. SUFFICES ASSUME NEW e \in Entries PROVE refs[e] = Cardinality(Users(e))
      BY DEF Counted
    <2>1. Users(e) = {}
      BY DEF Init, Users
    <2>. QED BY <2>1, FS_EmptySet DEF Init
  <1>3. Pointing /\ OwnEntry /\ Used /\ Holding
    BY DEF Init, Pointing, OwnEntry, Used, Holding
  <1>. QED BY <1>1, <1>2, <1>3 DEF IInv

(* The first half of Lock, on a key already in the table.                  *)
LEMMA InvFound ==
    ASSUME IInv, NEW r \in Runs, NEW k \in Keys, pc[r] = "idle", Found(r, k),
           key' = [key EXCEPT ![r] = k], pc' = [pc EXCEPT ![r] = "wait"]
    PROVE  IInv'
  <1>1. entry[r] = Nil
    BY DEF IInv, Pointing
  <1>. PICK e \in Entries : e = entries[k]
    BY DEF IInv, TypeOK, Found
  <1>2. TypeOK'
    BY <1>1 DEF IInv, TypeOK, Found
  <1>3. Counted'
    <2>1. /\ Cardinality(Users(e)') = Cardinality(Users(e)) + 1
          /\ \A f \in Entries : f # e => Users(f)' = Users(f)
      BY ZenonT(40), <1>1, UsersAdd DEF IInv, Found
    <2>2. \A f \in Entries : refs'[f] = IF f = e THEN refs[f] + 1 ELSE refs[f]
      BY DEF IInv, TypeOK, Found
    <2>. QED BY <1>1, <2>1, <2>2 DEF IInv, Counted
  <1>4. Pointing' /\ OwnEntry' /\ Used' /\ Holding'
    BY <1>1 DEF IInv, TypeOK, Found, Pointing, OwnEntry, Used, Holding
  <1>. QED BY <1>2, <1>3, <1>4 DEF IInv

(* The first half of Lock, on a new key.                                   *)
LEMMA InvCreated ==
    ASSUME IInv, NEW r \in Runs, NEW k \in Keys, pc[r] = "idle", Created(r, k),
           key' = [key EXCEPT ![r] = k], pc' = [pc EXCEPT ![r] = "wait"]
    PROVE  IInv'
  <1>1. PICK e \in Entries : /\ Unused(e)
                             /\ entries' = [entries EXCEPT ![k] = e]
                             /\ entry' = [entry EXCEPT ![r] = e]
                             /\ refs' = [refs EXCEPT ![e] = 1]
                             /\ mu' = [mu EXCEPT ![e] = Free]
    BY ZenonT(40) DEF Created
  <1>2. entries[k] = Nil /\ entry[r] = Nil
    BY DEF IInv, Created, Pointing
  <1>3. TypeOK'
    BY <1>1 DEF IInv, TypeOK
  <1>4. Counted'
    <2>1. /\ Cardinality(Users(e)') = Cardinality(Users(e)) + 1
          /\ \A f \in Entries : f # e => Users(f)' = Users(f)
      BY ZenonT(40), <1>1, <1>2, UsersAdd DEF IInv
    <2>2. Users(e) = {}
      BY <1>1 DEF Unused, Users
    <2>3. Cardinality(Users(e)') = 1
      BY <2>1, <2>2, FS_EmptySet
    <2>4. \A f \in Entries : refs'[f] = IF f = e THEN 1 ELSE refs[f]
      BY <1>1 DEF IInv, TypeOK
    <2>. QED BY <1>1, <2>1, <2>3, <2>4 DEF IInv, Counted
  <1>5. Pointing'
    BY <1>1, <1>2 DEF IInv, TypeOK, Unused, Pointing
  <1>6. OwnEntry' /\ Used'
    BY <1>1, <1>2 DEF IInv, TypeOK, Unused, OwnEntry, Used
  <1>7. Holding'
    BY <1>1, <1>2 DEF IInv, TypeOK, Unused, Holding, Pointing
  <1>. QED BY <1>3, <1>4, <1>5, <1>6, <1>7 DEF IInv

(* Locking and unlocking an entry's mutex move no pointer and no count.    *)
LEMMA InvMutex ==
    ASSUME IInv, NEW r \in Runs, Acquire(r) \/ Unlock(r)
    PROVE  IInv'
  <1>1. entry[r] \in Entries
    BY DEF IInv, Pointing, Acquire, Unlock
  <1>2. TypeOK'
    BY <1>1 DEF IInv, TypeOK, Acquire, Unlock
  <1>3. Counted'
    BY DEF IInv, Counted, Users, Acquire, Unlock
  <1>4. Pointing' /\ OwnEntry' /\ Used'
    BY DEF IInv, TypeOK, Pointing, OwnEntry, Used, Acquire, Unlock
  <1>5. Holding'
    BY <1>1 DEF IInv, TypeOK, Holding, Acquire, Unlock
  <1>. QED BY <1>2, <1>3, <1>4, <1>5 DEF IInv

(* Giving the reference back: the entry stays exactly while it has users.  *)
LEMMA InvLeave ==
    ASSUME IInv, NEW r \in Runs, Leave(r)
    PROVE  IInv'
  <1>. DEFINE e == entry[r]
  <1>1. e \in Entries /\ entries[key[r]] = e /\ key[r] \in Keys
    BY DEF IInv, TypeOK, Pointing, Leave
  <1>2. /\ r \in Users(e)
        /\ \A f \in Entries : f # e => {q \in Runs : entry'[q] = f} = Users(f)
        /\ {q \in Runs : entry'[q] = e} = Users(e) \ {r}
    BY <1>1 DEF IInv, TypeOK, Leave, Users
  <1>3. Cardinality(Users(e) \ {r}) = Cardinality(Users(e)) - 1
    BY ZenonT(40), <1>2, UsersFinite, FS_RemoveElement
  <1>4. refs[e] = Cardinality(Users(e)) /\ refs[e] \in Nat /\ refs[e] # 0
    BY <1>1, <1>2, UsersFinite, FS_EmptySet DEF IInv, Counted, TypeOK
  <1>5. TypeOK'
    BY <1>1, <1>4 DEF IInv, TypeOK, Leave
  <1>6. Counted'
    <2>1. \A f \in Entries : refs'[f] = IF f = e THEN refs[f] - 1 ELSE refs[f]
      BY <1>1 DEF IInv, TypeOK, Leave
    <2>. SUFFICES ASSUME NEW f \in Entries
                  PROVE  refs'[f] = Cardinality({q \in Runs : entry'[q] = f})
      BY DEF Counted, Users
    <2>2. CASE f = e
      <3>1. {q \in Runs : entry'[q] = f} = Users(e) \ {r}
        BY <2>2, <1>2
      <3>2. refs'[f] = refs[e] - 1
        BY <2>1, <2>2
      <3>. HIDE DEF e
      <3>. QED BY <3>1, <3>2, <1>3, <1>4
    <2>3. CASE f # e
      <3>1. {q \in Runs : entry'[q] = f} = Users(f)
        BY <2>3, <1>2
      <3>2. refs'[f] = refs[f]
        BY <2>1, <2>3
      <3>. QED BY <3>1, <3>2 DEF IInv, Counted
    <2>. QED BY <2>2, <2>3
  <1>7. (Users(e) \ {r} = {}) <=> refs[e] = 1
    <2>1. IsFiniteSet(Users(e) \ {r})
      BY <1>2, UsersFinite, FS_RemoveElement
    <2>2. Cardinality(Users(e) \ {r}) = 0 <=> Users(e) \ {r} = {}
      BY <2>1, FS_EmptySet
    <2>. QED BY <2>2, <1>3, <1>4
  <1>8. Pointing'
    <2>. SUFFICES ASSUME NEW q \in Runs, pc'[q] # "idle"
                  PROVE  entry'[q] \in Entries /\ entries'[key'[q]] = entry'[q]
      BY DEF IInv, TypeOK, Pointing, Leave
    <2>1. /\ q # r /\ pc[q] # "idle" /\ entry'[q] = entry[q] /\ key'[q] = key[q]
          /\ entry[q] \in Entries /\ entries[key[q]] = entry[q] /\ key[q] \in Keys
      BY DEF IInv, TypeOK, Pointing, Leave
    <2>2. CASE entry[q] = e
      BY <2>1, <2>2, <1>7 DEF Leave, Users
    <2>3. CASE entry[q] # e
      BY <2>1, <2>3, <1>1 DEF IInv, TypeOK, Leave
    <2>. QED BY <2>2, <2>3
  <1>9. OwnEntry'
    BY DEF IInv, TypeOK, OwnEntry, Leave
  <1>10. Used'
    <2>. SUFFICES ASSUME NEW k \in Keys, entries'[k] # Nil
                  PROVE  \E q \in Runs : entry'[q] = entries'[k]
      BY DEF Used
    <2>1. entries'[k] = entries[k] /\ entries[k] \in Entries
      BY DEF IInv, TypeOK, Leave
    <2>2. CASE entries[k] = e
      <3>1. k = key[r]
        BY <2>2, <1>1 DEF IInv, OwnEntry
      <3>2. refs[e] # 1
        BY <3>1, <1>1 DEF IInv, TypeOK, Leave
      <3>. QED BY <3>2, <2>1, <2>2, <1>7, <1>2
    <2>3. CASE entries[k] # e
      BY <2>1, <2>3, <1>2 DEF IInv, Used, Users
    <2>. QED BY <2>2, <2>3
  <1>11. Holding'
    BY <1>1 DEF IInv, TypeOK, Holding, Leave
  <1>. QED BY <1>5, <1>6, <1>8, <1>9, <1>10, <1>11 DEF IInv

(* Every step preserves the inductive invariant.                           *)
LEMMA InvStep == IInv /\ [Next]_vars => IInv'
  <1>. SUFFICES ASSUME IInv, [Next]_vars PROVE IInv'
    OBVIOUS
  <1>1. CASE UNCHANGED vars
    BY <1>1 DEF vars, IInv, TypeOK, Counted, Users, Pointing, OwnEntry, Used, Holding
  <1>2. ASSUME NEW r \in Runs, Enter(r) PROVE IInv'
    BY ZenonT(40), <1>2, InvFound, InvCreated DEF Enter
  <1>3. ASSUME NEW r \in Runs, Acquire(r) \/ Unlock(r) PROVE IInv'
    BY <1>3, InvMutex
  <1>4. ASSUME NEW r \in Runs, Leave(r) PROVE IInv'
    BY <1>4, InvLeave
  <1>. QED BY <1>1, <1>2, <1>3, <1>4 DEF Next, Step

(* The table is consistent in every reachable state: pointers agree with   *)
(* it, counts are exact, and an entry is present only while used.          *)
THEOREM TableConsistent == Spec => []IInv
  BY InvInit, InvStep, PTL DEF Spec

(* providersession.Lock excludes: one run at a time per session key.       *)
THEOREM Exclusion == Spec => []MutualExclusion
  <1>1. IInv => MutualExclusion
    BY DEF IInv, MutualExclusion, Pointing, Holding
  <1>. QED BY <1>1, TableConsistent, PTL

(* The table never keeps an entry that nobody uses.                        *)
THEOREM NoLeak == Spec => []NoEntryLeaks
  <1>1. IInv => NoEntryLeaks
    <2>. SUFFICES ASSUME IInv, NEW k \in Keys, entries[k] # Nil
                  PROVE  \E r \in Runs : pc[r] # "idle" /\ key[r] = k
      BY DEF NoEntryLeaks
    <2>1. PICK r \in Runs : entry[r] = entries[k]
      BY DEF IInv, Used
    <2>2. pc[r] # "idle" /\ entries[key[r]] = entries[k] /\ key[r] \in Keys
      BY <2>1 DEF IInv, TypeOK, Pointing
    <2>. QED BY <2>2 DEF IInv, OwnEntry
  <1>. QED BY <1>1, TableConsistent, PTL

(* The refinement mapping, without its CHOOSE: a key is held by the one     *)
(* run that is inside its section.                                         *)
HolderIs ==
    \A k \in Keys :
        /\ holder[k] \in Runs \cup {Free}
        /\ \A r \in Runs : holder[k] = r <=> pc[r] = "held" /\ key[r] = k

(* The mapping takes these values under the invariant.                     *)
LEMMA HolderValue == IInv => HolderIs
  <1>. SUFFICES ASSUME IInv, NEW k \in Keys
                PROVE  /\ holder[k] \in Runs \cup {Free}
                       /\ \A r \in Runs : holder[k] = r <=> pc[r] = "held" /\ key[r] = k
    BY DEF HolderIs
  <1>1. CASE \E r \in Runs : pc[r] = "held" /\ key[r] = k
    <2>1. PICK r \in Runs : pc[r] = "held" /\ key[r] = k
      BY <1>1
    <2>2. \A q \in Runs : pc[q] = "held" /\ key[q] = k => q = r
      BY <2>1 DEF IInv, Pointing, Holding
    <2>3. holder[k] = r
      BY <2>1, <2>2 DEF holder
    <2>. QED BY <2>1, <2>2, <2>3
  <1>2. CASE \A r \in Runs : ~(pc[r] = "held" /\ key[r] = k)
    BY <1>2 DEF holder
  <1>. QED BY <1>1, <1>2

(* The counted table implements one plain mutex per session key.           *)
THEOREM Implements == Spec => ActsAsMutex
  <1>1. Init => Mutex!Init
    BY DEF Init, Mutex!Init, holder
  <1>2. ASSUME IInv, HolderIs, HolderIs', [Next]_vars PROVE [Mutex!Next]_holder
    <2>1. holder = [k \in Keys |-> holder[k]] /\ holder' = [k \in Keys |-> holder'[k]]
      BY DEF holder
    <2>2. CASE UNCHANGED vars
      BY <2>2 DEF vars, holder
    <2>3. ASSUME NEW r \in Runs, Enter(r) \/ Leave(r) PROVE UNCHANGED holder
      <3>1. \A q \in Runs, k \in Keys :
               (pc'[q] = "held" /\ key'[q] = k) <=> (pc[q] = "held" /\ key[q] = k)
        BY <1>2, <2>3 DEF IInv, TypeOK, Enter, Leave
      <3>2. \A k \in Keys : holder'[k] = holder[k]
        BY <1>2, <3>1 DEF HolderIs
      <3>. QED BY <2>1, <3>2
    <2>4. ASSUME NEW r \in Runs, Acquire(r) PROVE Mutex!Take(r, key[r])
      <3>1. key[r] \in Keys /\ entry[r] \in Entries
        BY <1>2, <2>4 DEF IInv, TypeOK, Pointing, Acquire
      <3>2. \A q \in Runs : ~(pc[q] = "held" /\ key[q] = key[r])
        BY <1>2, <2>4, <3>1 DEF IInv, TypeOK, Pointing, Holding, Acquire
      <3>3. holder[key[r]] = Free /\ \A j \in Keys : holder[j] # r
        BY <1>2, <2>4, <3>1, <3>2 DEF Acquire, HolderIs
      <3>4. \A q \in Runs, k \in Keys :
               (pc'[q] = "held" /\ key'[q] = k)
                 <=> IF k = key[r] THEN q = r ELSE pc[q] = "held" /\ key[q] = k
        BY <1>2, <2>4, <3>2 DEF IInv, TypeOK, Acquire
      <3>5. \A k \in Keys : holder'[k] = IF k = key[r] THEN r ELSE holder[k]
        BY <1>2, <3>4 DEF HolderIs
      <3>. QED BY <2>1, <3>1, <3>3, <3>5 DEF Mutex!Take
    <2>5. ASSUME NEW r \in Runs, Unlock(r) PROVE Mutex!Drop(r, key[r])
      <3>1. key[r] \in Keys /\ entry[r] \in Entries /\ holder[key[r]] = r
        BY <1>2, <2>5 DEF IInv, TypeOK, Pointing, Unlock, HolderIs
      <3>2. \A q \in Runs : pc[q] = "held" /\ key[q] = key[r] => q = r
        BY <1>2, <3>1 DEF HolderIs
      <3>3. \A q \in Runs, k \in Keys :
               (pc'[q] = "held" /\ key'[q] = k)
                 <=> k # key[r] /\ pc[q] = "held" /\ key[q] = k
        BY SMTT(60), <1>2, <2>5, <3>2 DEF IInv, TypeOK, Unlock
      <3>4. \A k \in Keys : holder'[k] = IF k = key[r] THEN Free ELSE holder[k]
        BY <1>2, <3>3 DEF HolderIs
      <3>. QED BY <2>1, <3>1, <3>4 DEF Mutex!Drop
    <2>. QED BY <1>2, <2>2, <2>3, <2>4, <2>5 DEF Next, Step, Mutex!Next, IInv, TypeOK
  <1>. QED BY <1>1, <1>2, HolderValue, TableConsistent, PTL DEF Spec, ActsAsMutex, Mutex!Spec
=============================================================================
