--------------------------- MODULE SemStoreLemmas ---------------------------
(***************************************************************************)
(* What the functions of the semaphore store do to a well-typed store, for *)
(* any number of slots, semaphores, generations and undo entries: one      *)
(* lemma per function for its type, one for what it leaves alone.          *)
(***************************************************************************)
EXTENDS Dispatch, TLAPS

-----------------------------------------------------------------------------
(* Slots and identifiers.                                                   *)

\* Min chooses the least element of a set of natural numbers: the first free slot
\* of a table.  The modules that extend this one show it (LeastNumber).
LeastFirst ==
    \A S : S \subseteq Nat /\ S # {} => Min(S) \in S /\ \A y \in S : Min(S) <= y

LEMMA MinNat ==
    ASSUME LeastFirst, NEW S, S \subseteq Nat, S # {}
    PROVE  Min(S) \in S /\ \A y \in S : Min(S) <= y
BY Zenon DEF LeastFirst

\* A function from n numbers to n - 1 takes a value twice.
Pigeonhole ==
    \A n \in Nat : \A f \in [1..n -> 1..(n - 1)] :
        n # 0 => \E i, j \in 1..n : i # j /\ f[i] = f[j]

\* A non-empty set of natural numbers has a least element.  (Without one, the
\* numbers i of 1..n, n in the set, could be put into 1..n-1: i where i is below the
\* whole set, i - 1 elsewhere.)
LEMMA LeastNumber == ASSUME Pigeonhole PROVE LeastFirst
<1> SUFFICES ASSUME NEW S, S \subseteq Nat, S # {}
             PROVE  Min(S) \in S /\ \A y \in S : Min(S) <= y
  BY Zenon DEF LeastFirst
<1>1. \E x \in S : \A y \in S : x <= y
  <2> SUFFICES ASSUME \A x \in S : \E y \in S : y < x PROVE FALSE  OBVIOUS
  <2> DEFINE Below == {x \in Nat : \A y \in S : x < y}
  <2>1. PICK n \in S : n \in Nat  BY Zenon
  <2>2. 0 \in Below  OBVIOUS
  <2>3. \A x \in Below : x + 1 \in Below  OBVIOUS
  <2>4. 1 \in Below /\ n \notin Below  BY <2>2, <2>3
  <2> DEFINE f == [i \in 1..n |-> IF i \in Below THEN i ELSE i - 1]
  <2>5. f \in [1..n -> 1..(n - 1)]  BY <2>1, <2>4
  <2>6. \A i, j \in 1..n : f[i] = f[j] => i = j  BY <2>1, <2>3
  <2>7. n # 0  BY <2>2, <2>4
  <2> QED  BY <2>1, <2>5, <2>6, <2>7, Zenon DEF Pigeonhole
<1> QED  BY <1>1, Zenon DEF Min

\* A non-empty set of slots has a least element: the slot semget finds.
LEMMA MinSlot ==
    ASSUME LeastFirst, NEW S, S \subseteq Slots, S # {}
    PROVE  Min(S) \in S
<1>1. S \subseteq Nat  BY StoreAssumption DEF StoreAssumption, Slots
<1> QED  BY <1>1, MinNat, Zenon

\* Decoding an identifier gives back the slot and the generation.
LEMMA IdRoundTrip ==
    ASSUME NEW i \in Slots, NEW g \in 1..MaxGeneration
    PROVE  /\ make_id(i, g) \in Int
           /\ decodes(make_id(i, g))
           /\ id_index(make_id(i, g)) = i
           /\ id_generation(make_id(i, g)) = g
<1>1. i \in Nat /\ i <= 65534 /\ g \in Nat /\ 0 < g  BY StoreAssumption DEF StoreAssumption, Slots
<1>2. make_id(i, g) = g * 65536 + (i + 1)  BY DEF make_id
<1>3. (g * 65536 + (i + 1)) % 65536 = i + 1  BY <1>1
<1>4. (g * 65536 + (i + 1)) \div 65536 = g  BY <1>1
<1> QED  BY <1>1, <1>2, <1>3, <1>4 DEF decodes, id_index, id_generation

LEMMA NextGenerationRange ==
    ASSUME NEW g \in 0..MaxGeneration
    PROVE  next_generation(g) \in 1..MaxGeneration
BY StoreAssumption DEF StoreAssumption, next_generation

-----------------------------------------------------------------------------
(* Type correctness: every store function preserves StoreTypeOK.            *)

\* The slot of a live identifier holds a well-formed active set.
LEMMA LiveSet ==
    ASSUME NEW st, StoreTypeOK(st), NEW semid \in Int, find_set(st, semid)
    PROVE  /\ id_index(semid) \in Slots
           /\ SetOf(st, semid).nsems \in Nat
           /\ SetOf(st, semid) \in SetType(SetOf(st, semid).nsems)
           /\ SetOK(SetOf(st, semid)) /\ SetOf(st, semid).active
<1>1. id_index(semid) \in Slots  BY DEF find_set, decodes
<1>2. SetOK(SetOf(st, semid))  BY <1>1 DEF StoreTypeOK, SetOf
<1>3. PICK n \in 0..MaxPerSet : SetOf(st, semid) \in SetType(n)  BY <1>2 DEF SetOK
<1>4. SetOf(st, semid).nsems = n  BY <1>3 DEF SetType
<1> QED  BY <1>1, <1>2, <1>3, <1>4, StoreAssumption DEF StoreAssumption, find_set, SetOf

\* Writing a well-formed set into a slot, with a well-typed undo table.
LEMMA WriteSet ==
    ASSUME NEW st, StoreTypeOK(st), NEW i \in Slots, NEW set, SetOK(set),
           NEW undo, undo \subseteq UndoType
    PROVE  StoreTypeOK([sets |-> [st.sets EXCEPT ![i] = set], undo |-> undo])
<1> DEFINE new == [sets |-> [st.sets EXCEPT ![i] = set], undo |-> undo]
<1>1. st.sets = [j \in Slots |-> st.sets[j]]  BY DEF StoreTypeOK
<1>2. new.sets = [j \in Slots |-> IF j = i THEN set ELSE st.sets[j]]  BY <1>1
<1>3. \A j \in Slots : SetOK(new.sets[j])  BY <1>2 DEF StoreTypeOK
<1>4. new.undo = undo  OBVIOUS
<1>5. new.sets = [j \in Slots |-> new.sets[j]]  BY <1>2
<1> QED  BY <1>3, <1>4, <1>5 DEF StoreTypeOK

\* The same for a function that leaves the undo table alone.
LEMMA WriteOnlySet ==
    ASSUME NEW st, StoreTypeOK(st), NEW i \in Slots, NEW set, SetOK(set)
    PROVE  StoreTypeOK([st EXCEPT !.sets[i] = set])
<1>1. [st EXCEPT !.sets[i] = set]
      = [sets |-> [st.sets EXCEPT ![i] = set], undo |-> st.undo]
  BY DEF StoreTypeOK
<1>2. st.undo \subseteq UndoType  BY DEF StoreTypeOK
<1>3. StoreTypeOK([sets |-> [st.sets EXCEPT ![i] = set], undo |-> st.undo])
  BY <1>2, WriteSet, Zenon
<1> QED  BY <1>1, <1>3, Zenon

LEMMA EmptySetOK ==
    ASSUME NEW g \in 0..MaxGeneration
    PROVE  SetOK(EmptySet(g))
<1>1. 0 \in Permissions  BY DEF Permissions
<1>2. 0 \in 0..MaxPerSet /\ 0 \in Int /\ 0 \in Nat
  BY StoreAssumption DEF StoreAssumption
<1>3. [s \in Sems(0) |-> 0] \in [Sems(0) -> 0..MaxValue]
  BY StoreAssumption DEF StoreAssumption
<1>4. [s \in Sems(0) |-> 0] \in [Sems(0) -> {0} \cup Pids]  OBVIOUS
<1>5. [s \in Sems(0) |-> 0] \in [Sems(0) -> 0..MaxWaiters]
  BY StoreAssumption DEF StoreAssumption
<1>6. EmptySet(g) \in SetType(0)
  BY <1>1, <1>2, <1>3, <1>4, <1>5 DEF EmptySet, SetType
<1> QED  BY <1>2, <1>6 DEF SetOK, EmptySet

LEMMA EmptyStoreType == StoreTypeOK(EmptyStore)
<1>1. 0 \in 0..MaxGeneration  BY StoreAssumption DEF StoreAssumption
<1>2. SetOK(EmptySet(0))  BY <1>1, EmptySetOK
<1> QED  BY <1>2 DEF StoreTypeOK, EmptyStore

LEMMA RemoveType ==
    ASSUME NEW st, StoreTypeOK(st), NEW semid \in Int
    PROVE  StoreTypeOK(remove(st, semid).st)
<1>1. CASE ~find_set(st, semid)  BY <1>1 DEF remove, Fail
<1>2. CASE find_set(st, semid)
  <2> DEFINE i == id_index(semid)
             new == EmptySet(next_generation(st.sets[i].generation))
  <2>1. i \in Slots /\ st.sets[i].generation \in 0..MaxGeneration
    BY <1>2, LiveSet DEF SetType, SetOf
  <2>2. SetOK(new)
    BY <2>1, NextGenerationRange, EmptySetOK, StoreAssumption DEF StoreAssumption
  <2>3. clear_undo_entries(st, semid, 0, TRUE) \subseteq UndoType
    BY DEF clear_undo_entries, StoreTypeOK
  <2>4. remove(st, semid).st = [sets |-> [st.sets EXCEPT ![i] = new],
                                undo |-> clear_undo_entries(st, semid, 0, TRUE)]
    BY <1>2 DEF remove
  <2> HIDE DEF i, new
  <2>5. StoreTypeOK([sets |-> [st.sets EXCEPT ![i] = new],
                     undo |-> clear_undo_entries(st, semid, 0, TRUE)])
    BY <2>1, <2>2, <2>3, WriteSet, Zenon
  <2> QED  BY <2>4, <2>5, Zenon
<1> QED  BY <1>1, <1>2

LEMMA SetMetadataType ==
    ASSUME NEW st, StoreTypeOK(st), NEW semid \in Int, NEW uid \in Nat,
           NEW gid \in Nat, NEW mode \in Nat, NEW actor
    PROVE  StoreTypeOK(set_metadata(st, semid, uid, gid, mode, actor).st)
<1>1. CASE set_metadata(st, semid, uid, gid, mode, actor).st = st  BY <1>1
<1>2. CASE set_metadata(st, semid, uid, gid, mode, actor).st # st
  <2> DEFINE i == id_index(semid)
             new == [st.sets[i] EXCEPT !.gid = gid, !.mode = mode]
  <2>1. /\ find_set(st, semid) /\ mode \in Permissions
        /\ set_metadata(st, semid, uid, gid, mode, actor).st
           = [st EXCEPT !.sets[i] = new]
    BY <1>2 DEF set_metadata, Fail
  <2>2. i \in Slots /\ SetOK(st.sets[i])  BY <2>1, LiveSet DEF SetOf
  <2>3. SetOK(new)  BY <2>1, <2>2, Zenon DEF SetOK, SetType
  <2> HIDE DEF i, new
  <2> QED  BY <2>1, <2>2, <2>3, WriteOnlySet
<1> QED  BY <1>1, <1>2

\* What a successful creation writes: an empty slot becomes an active set of
\* its own generation, or of generation 1 the first time.
LEMMA GetCreates ==
    ASSUME LeastFirst, NEW st, StoreTypeOK(st), NEW key, NEW nsems, NEW flags, NEW identity,
           NEW allocated, get_as(st, key, nsems, flags, identity, allocated).st # st
    PROVE  /\ free_set(st) \in Slots
           /\ ~st.sets[free_set(st)].active
           /\ fresh_generation(st, free_set(st)) \in 1..MaxGeneration
           /\ nsems \in 1..MaxPerSet
           /\ key # IPC_PRIVATE => sets_with_key(st, key) = {}
           /\ get_as(st, key, nsems, flags, identity, allocated)
              = [ret |-> make_id(free_set(st), fresh_generation(st, free_set(st))),
                 st  |-> [st EXCEPT !.sets[free_set(st)] =
                             new_set(fresh_generation(st, free_set(st)),
                                     key, nsems, flags, identity)]]
<1> DEFINE i == free_set(st)
<1>1. /\ inactive_sets(st) # {} /\ nsems \in 1..MaxPerSet
      /\ key # IPC_PRIVATE => sets_with_key(st, key) = {}
      /\ get_as(st, key, nsems, flags, identity, allocated)
         = [ret |-> make_id(i, fresh_generation(st, i)),
            st  |-> [st EXCEPT !.sets[i] = new_set(fresh_generation(st, i),
                                                   key, nsems, flags, identity)]]
  BY DEF get_as, Fail
<1>2. i \in inactive_sets(st)
  <2>1. inactive_sets(st) \subseteq Slots  BY DEF inactive_sets
  <2> QED  BY <1>1, <2>1, MinSlot DEF free_set
<1>3. i \in Slots /\ ~st.sets[i].active  BY <1>2 DEF inactive_sets
<1>4. st.sets[i].generation \in 0..MaxGeneration
  BY <1>3 DEF StoreTypeOK, SetOK, SetType
<1>5. fresh_generation(st, i) \in 1..MaxGeneration
  BY <1>4, StoreAssumption DEF fresh_generation, StoreAssumption
<1> QED  BY <1>1, <1>3, <1>5

LEMMA NewSetOK ==
    ASSUME NEW g \in 1..MaxGeneration, NEW key \in Int, NEW nsems \in 1..MaxPerSet,
           NEW flags \in [creat : BOOLEAN, excl : BOOLEAN, mode : Permissions],
           NEW identity \in [uid : Nat, gid : Nat]
    PROVE  SetOK(new_set(g, key, nsems, flags, identity))
<1> DEFINE zeros == [s \in Sems(nsems) |-> 0]
<1>1. /\ zeros \in [Sems(nsems) -> 0..MaxValue]
      /\ zeros \in [Sems(nsems) -> {0} \cup Pids]
      /\ zeros \in [Sems(nsems) -> 0..MaxWaiters]
  BY StoreAssumption DEF StoreAssumption
<1>2. g \in 0..MaxGeneration /\ g # 0 /\ nsems \in 0..MaxPerSet /\ nsems # 0
  BY StoreAssumption DEF StoreAssumption
<1>3. new_set(g, key, nsems, flags, identity) \in SetType(nsems)
  BY <1>1, <1>2 DEF SetType, new_set
<1> QED  BY <1>2, <1>3 DEF SetOK, new_set

LEMMA GetType ==
    ASSUME LeastFirst, NEW st, StoreTypeOK(st), NEW key \in Int, NEW nsems \in Int,
           NEW flags \in [creat : BOOLEAN, excl : BOOLEAN, mode : Permissions],
           NEW identity \in [uid : Nat, gid : Nat], NEW allocated
    PROVE  StoreTypeOK(get_as(st, key, nsems, flags, identity, allocated).st)
<1> DEFINE r == get_as(st, key, nsems, flags, identity, allocated)
           i == free_set(st)
           new == new_set(fresh_generation(st, i), key, nsems, flags, identity)
<1>1. CASE r.st = st  BY <1>1
<1>2. CASE r.st # st
  <2>1. i \in Slots /\ SetOK(new)  BY <1>2, GetCreates, NewSetOK
  <2>2. r.st = [st EXCEPT !.sets[i] = new]  BY <1>2, GetCreates
  <2> HIDE DEF i, new
  <2>3. StoreTypeOK([st EXCEPT !.sets[i] = new])  BY <2>1, WriteOnlySet, Zenon
  <2> QED  BY <2>2, <2>3, Zenon
<1> QED  BY <1>1, <1>2

LEMMA SetvalType ==
    ASSUME NEW st, StoreTypeOK(st), NEW semid \in Int, NEW semnum \in Nat,
           NEW value \in Nat, NEW pid \in Pids
    PROVE  StoreTypeOK(setval(st, semid, semnum, value, pid).st)
<1> DEFINE r == setval(st, semid, semnum, value, pid)
           i == id_index(semid)
           new == [st.sets[i] EXCEPT !.values[semnum] = value, !.last_pids[semnum] = pid]
           undo == clear_undo_entries(st, semid, semnum, FALSE)
<1>1. CASE r.st = st  BY <1>1
<1>2. CASE r.st # st
  <2>1. /\ has_sem(st, semid, semnum) /\ ~(value > MaxValue)
        /\ r.st = [sets |-> [st.sets EXCEPT ![i] = new], undo |-> undo]
    BY <1>2, Zenon DEF setval, Fail
  <2>2. value \in 0..MaxValue  BY <2>1, StoreAssumption DEF StoreAssumption
  <2>3. i \in Slots /\ SetOK(st.sets[i]) /\ semnum \in Sems(st.sets[i].nsems)
    BY <2>1, LiveSet DEF SetOf, has_sem
  <2>4. SetOK(new)  BY <2>2, <2>3, Zenon DEF SetOK, SetType
  <2>5. undo \subseteq UndoType  BY DEF clear_undo_entries, StoreTypeOK
  <2> HIDE DEF i, new, undo
  <2>6. StoreTypeOK([sets |-> [st.sets EXCEPT ![i] = new], undo |-> undo])
    BY <2>3, <2>4, <2>5, WriteSet, Zenon
  <2> QED  BY <2>1, <2>6, Zenon
<1> QED  BY <1>1, <1>2

LEMMA SetallType ==
    ASSUME NEW st, StoreTypeOK(st), NEW semid \in Int, NEW n \in Int,
           NEW values \in [Sems(n) -> Nat], NEW pid \in Pids
    PROVE  StoreTypeOK(setall(st, semid, values, pid).st)
<1> DEFINE r == setall(st, semid, values, pid)
           i == id_index(semid)
           new == [st.sets[i] EXCEPT !.values = values,
                                     !.last_pids = [s \in DOMAIN values |-> pid]]
           undo == clear_undo_entries(st, semid, 0, TRUE)
<1>1. CASE r.st = st  BY <1>1
<1>2. CASE r.st # st
  <2>1. /\ find_set(st, semid) /\ DOMAIN values = Sems(st.sets[i].nsems)
        /\ \A s \in DOMAIN values : ~(values[s] > MaxValue)
        /\ r.st = [sets |-> [st.sets EXCEPT ![i] = new], undo |-> undo]
    BY <1>2, Zenon DEF setall, Fail, SetOf
  <2>2. values \in [Sems(st.sets[i].nsems) -> 0..MaxValue]
    BY <2>1, StoreAssumption DEF StoreAssumption
  <2>3. i \in Slots /\ SetOK(st.sets[i])  BY <2>1, LiveSet DEF SetOf
  <2>4. SetOK(new)  BY <2>1, <2>2, <2>3, Zenon DEF SetOK, SetType
  <2>5. undo \subseteq UndoType  BY DEF clear_undo_entries, StoreTypeOK
  <2> HIDE DEF i, new, undo
  <2>6. StoreTypeOK([sets |-> [st.sets EXCEPT ![i] = new], undo |-> undo])
    BY <2>3, <2>4, <2>5, WriteSet, Zenon
  <2> QED  BY <2>1, <2>6, Zenon
<1> QED  BY <1>1, <1>2

LEMMA AdjustWaitCountType ==
    ASSUME NEW st, StoreTypeOK(st), NEW semid \in Int, NEW semnum \in Nat,
           NEW zero \in BOOLEAN, NEW adjustment \in Int
    PROVE  StoreTypeOK(adjust_wait_count(st, semid, semnum, zero, adjustment).st)
<1>WaitersOK.
      ASSUME NEW set, SetOK(set), NEW w \in [Sems(set.nsems) -> 0..MaxWaiters]
      PROVE  /\ SetOK([set EXCEPT !.zero_waiters = w])
             /\ SetOK([set EXCEPT !.negative_waiters = w])
  <2> USE <1>WaitersOK
  <2>1. PICK n \in 0..MaxPerSet : set \in SetType(n)  BY DEF SetOK
  <2>2. set.nsems = n  BY <2>1 DEF SetType
  <2>3. [set EXCEPT !.zero_waiters = w] \in SetType(n)  BY <2>1, <2>2 DEF SetType
  <2>4. [set EXCEPT !.negative_waiters = w] \in SetType(n)  BY <2>1, <2>2 DEF SetType
  <2>5. /\ [set EXCEPT !.zero_waiters = w].active = set.active
        /\ [set EXCEPT !.zero_waiters = w].generation = set.generation
        /\ [set EXCEPT !.zero_waiters = w].nsems = set.nsems
        /\ [set EXCEPT !.negative_waiters = w].active = set.active
        /\ [set EXCEPT !.negative_waiters = w].generation = set.generation
        /\ [set EXCEPT !.negative_waiters = w].nsems = set.nsems
    BY <2>1 DEF SetType
  <2>6. set.active => set.generation # 0 /\ set.nsems # 0  BY DEF SetOK
  <2> QED  BY <2>3, <2>4, <2>5, <2>6 DEF SetOK
<1> DEFINE r == adjust_wait_count(st, semid, semnum, zero, adjustment)
           i == id_index(semid)
           count == st.sets[i][WaitersField(zero)][semnum] + adjustment
           new == [st.sets[i] EXCEPT ![WaitersField(zero)][semnum] = count]
<1>1. CASE r.st = st  BY <1>1
<1>2. CASE r.st # st
  <2>1. /\ has_sem(st, semid, semnum) /\ count \in 0..MaxWaiters
        /\ r.st = [st EXCEPT !.sets[i] = new]
    BY <1>2 DEF adjust_wait_count, Fail, SetOf
  <2>2. i \in Slots /\ SetOK(st.sets[i]) /\ semnum \in Sems(st.sets[i].nsems)
    BY <2>1, LiveSet DEF SetOf, has_sem
  <2>3. SetOK(new)
    <3>1. CASE zero
      <4> DEFINE w == [st.sets[i].zero_waiters EXCEPT ![semnum] = count]
      <4>1. new = [st.sets[i] EXCEPT !.zero_waiters = w]  BY <3>1 DEF WaitersField
      <4>2. st.sets[i].zero_waiters \in [Sems(st.sets[i].nsems) -> 0..MaxWaiters]
        BY <2>2 DEF SetOK, SetType
      <4>3. w \in [Sems(st.sets[i].nsems) -> 0..MaxWaiters]
        <5> HIDE DEF count
        <5> QED  BY <2>1, <2>2, <4>2
      <4> HIDE DEF w, i
      <4> QED  BY <2>2, <4>1, <4>3, <1>WaitersOK, Zenon
    <3>2. CASE ~zero
      <4> DEFINE w == [st.sets[i].negative_waiters EXCEPT ![semnum] = count]
      <4>1. new = [st.sets[i] EXCEPT !.negative_waiters = w]  BY <3>2 DEF WaitersField
      <4>2. st.sets[i].negative_waiters \in [Sems(st.sets[i].nsems) -> 0..MaxWaiters]
        BY <2>2 DEF SetOK, SetType
      <4>3. w \in [Sems(st.sets[i].nsems) -> 0..MaxWaiters]
        <5> HIDE DEF count
        <5> QED  BY <2>1, <2>2, <4>2
      <4> HIDE DEF w, i
      <4> QED  BY <2>2, <4>1, <4>3, <1>WaitersOK, Zenon
    <3> QED  BY <3>1, <3>2
  <2> HIDE DEF i, new
  <2>4. StoreTypeOK([st EXCEPT !.sets[i] = new])  BY <2>2, <2>3, WriteOnlySet, Zenon
  <2> QED  BY <2>1, <2>4, Zenon
<1> QED  BY <1>1, <1>2

LEMMA AdjustmentType ==
    ASSUME NEW st, StoreTypeOK(st), NEW pid, NEW semid, NEW s
    PROVE  Adjustment(st, pid, semid, s) \in AdjRange
<1>1. 0 \in AdjRange  BY StoreAssumption DEF StoreAssumption, AdjRange
<1>2. \A e \in find_undo_entry(st, pid, semid, s) : e.adjustment \in AdjRange
  BY DEF find_undo_entry, StoreTypeOK, UndoType
<1> QED  BY <1>1, <1>2 DEF Adjustment

LEMMA ProcessExitType ==
    ASSUME NEW st, StoreTypeOK(st), NEW pid \in Pids
    PROVE  StoreTypeOK(process_exit(st, pid).st)
<1>RestoredSetOK.
      ASSUME NEW i \in Slots
      PROVE  SetOK(RestoredSet(st, pid, i))
  <2> USE <1>RestoredSetOK
  <2> DEFINE set == st.sets[i]
             semid == make_id(i, set.generation)
             values == [s \in Sems(set.nsems) |->
                           Clamp(set.values[s] + Adjustment(st, pid, semid, s))]
             last_pids == [s \in Sems(set.nsems) |->
                              IF find_undo_entry(st, pid, semid, s) = {}
                              THEN set.last_pids[s] ELSE pid]
  <2>1. SetOK(set)  BY DEF StoreTypeOK
  <2>2. PICK n \in 0..MaxPerSet : set \in SetType(n)  BY <2>1 DEF SetOK
  <2>3. set.nsems = n  BY <2>2 DEF SetType
  <2>4. values \in [Sems(n) -> 0..MaxValue]
    <3> SUFFICES ASSUME NEW s \in Sems(n)
                 PROVE  Clamp(set.values[s] + Adjustment(st, pid, semid, s)) \in 0..MaxValue
      BY <2>3
    <3>1. set.values[s] \in Int  BY <2>2 DEF SetType
    <3>2. Adjustment(st, pid, semid, s) \in Int  BY AdjustmentType DEF AdjRange
    <3> HIDE DEF set, semid
    <3> QED  BY <3>1, <3>2, StoreAssumption DEF Clamp, StoreAssumption
  <2>5. last_pids \in [Sems(n) -> {0} \cup Pids]  BY <2>2, <2>3 DEF SetType
  <2>6. CASE ~set.active  BY <2>1, <2>6 DEF RestoredSet
  <2>7. CASE set.active
    <3>1. RestoredSet(st, pid, i) = [set EXCEPT !.values = values, !.last_pids = last_pids]
      BY <2>7 DEF RestoredSet
    <3> HIDE DEF set, values, last_pids
    <3>2. [set EXCEPT !.values = values, !.last_pids = last_pids] \in SetType(n)
      BY <2>2, <2>4, <2>5, Zenon DEF SetType
    <3>3. /\ [set EXCEPT !.values = values, !.last_pids = last_pids].active = set.active
          /\ [set EXCEPT !.values = values, !.last_pids = last_pids].generation = set.generation
          /\ [set EXCEPT !.values = values, !.last_pids = last_pids].nsems = set.nsems
      BY <2>2 DEF SetType
    <3> QED  BY <2>1, <3>1, <3>2, <3>3 DEF SetOK
  <2> QED  BY <2>6, <2>7
<1> DEFINE new == process_exit(st, pid).st
<1> SUFFICES StoreTypeOK(new)  OBVIOUS
<1>1. /\ new = [sets |-> [i \in Slots |-> RestoredSet(st, pid, i)],
               undo |-> st.undo \ {e \in st.undo : e.pid = pid}]
      /\ new.sets = [i \in Slots |-> RestoredSet(st, pid, i)]
      /\ new.undo = st.undo \ {e \in st.undo : e.pid = pid}
  BY DEF process_exit
<1>2. \A i \in Slots : SetOK(new.sets[i])  BY <1>1, <1>RestoredSetOK
<1>3. new.undo \subseteq UndoType  BY <1>1 DEF StoreTypeOK
<1>4. new.sets = [i \in Slots |-> new.sets[i]]  BY <1>1
<1>5. new = [sets |-> new.sets, undo |-> new.undo]  BY <1>1
<1> HIDE DEF new
<1> QED  BY <1>2, <1>3, <1>4, <1>5 DEF StoreTypeOK

\* A semop that succeeds leaves every value in range: no operation stopped,
\* the last one included.
LEMMA WorkingType ==
    ASSUME NEW n \in Nat, NEW values \in [Sems(n) -> 0..MaxValue], NEW ops,
           Len(ops) \in Nat \ {0}, Stopped(values, ops) = {}
    PROVE  Working(values, ops, Len(ops)) \in [Sems(n) -> 0..MaxValue]
<1>1. Len(ops) \in 1..Len(ops)  OBVIOUS
<1>2. ~Stops(values, ops, Len(ops))  BY <1>1 DEF Stopped
<1> DEFINE after == Working(values, ops, Len(ops))
<1>3. \A s \in Sems(n) : after[s] \in 0..MaxValue  BY <1>2 DEF Stops
<1>4. after = [s \in Sems(n) |-> WorkingCopies(values, ops)[Len(ops)][s]]
  BY DEF Working
<1> HIDE DEF after
<1>5. after \in [Sems(n) -> 0..MaxValue]  BY <1>3, <1>4
<1> QED  BY <1>5 DEF after

\* What the checks of tryop_detail establish before it commits.
LEMMA TryopChecks ==
    ASSUME NEW st, NEW semid, NEW ops, NEW pid, tryop_result(st, semid, ops, pid) = OK
    PROVE  LET set == SetOf(st, semid)
               delta == UndoDeltas(set.values, ops, Len(ops))
           IN  /\ find_set(st, semid) /\ ops # <<>>
               /\ \A n \in 1..Len(ops) : ops[n].sem_num \in Sems(set.nsems)
               /\ Stopped(set.values, ops) = {}
               /\ UndoVerdict(st, semid, pid, delta) = OK
               /\ \A s \in Touched(delta) :
                     Adjustment(st, pid, semid, s) + delta[s] \in AdjRange
<1> DEFINE set == SetOf(st, semid)
           delta == UndoDeltas(set.values, ops, Len(ops))
<1>1. EINVAL # OK /\ ERANGE # OK /\ \A op : StopVerdict(op) # OK
  BY DEF EINVAL, ERANGE, EAGAIN, BLOCKED, OK, StopVerdict
<1>2. /\ find_set(st, semid) /\ ops # <<>>
      /\ \A n \in 1..Len(ops) : ops[n].sem_num \in Sems(set.nsems)
      /\ Stopped(set.values, ops) = {}
      /\ UndoVerdict(st, semid, pid, delta) = OK
  BY <1>1 DEF tryop_result
<1> HIDE DEF set, delta
<1>3. \A s \in Touched(delta) : Adjustment(st, pid, semid, s) + delta[s] \in AdjRange
  BY <1>1, <1>2 DEF UndoVerdict
<1> QED  BY <1>2, <1>3 DEF set, delta

LEMMA TryopType ==
    ASSUME NEW st, StoreTypeOK(st), NEW semid \in Int, NEW ops, Len(ops) \in Nat,
           ops # <<>> => Len(ops) # 0, NEW pid \in Pids
    PROVE  StoreTypeOK(tryop(st, semid, ops, pid).st)
<1>MergeUndoType.
      ASSUME NEW delta, DOMAIN delta \subseteq Nat,
             \A s \in Touched(delta) : Adjustment(st, pid, semid, s) + delta[s] \in AdjRange
      PROVE  MergeUndo(st, semid, pid, delta) \subseteq UndoType
  <2> USE <1>MergeUndoType
  <2>1. Touched(delta) \subseteq Nat  BY DEF Touched
  <2>2. st.undo \subseteq UndoType  BY DEF StoreTypeOK
  <2>3. \A s \in Touched(delta) :
           [pid |-> pid, semid |-> semid, semnum |-> s,
            adjustment |-> Adjustment(st, pid, semid, s) + delta[s]] \in UndoType
    BY <2>1 DEF UndoType
  <2> QED  BY <2>2, <2>3 DEF MergeUndo
<1> DEFINE r == tryop(st, semid, ops, pid)
           i == id_index(semid)
           set == st.sets[i]
           used == {ops[n].sem_num : n \in 1..Len(ops)}
           values == Working(set.values, ops, Len(ops))
           last_pids == [s \in Sems(set.nsems) |-> IF s \in used THEN pid ELSE set.last_pids[s]]
           new == [set EXCEPT !.values = values, !.last_pids = last_pids]
           delta == UndoDeltas(set.values, ops, Len(ops))
           undo == MergeUndo(st, semid, pid, delta)
<1>1. CASE tryop_result(st, semid, ops, pid) # OK  BY <1>1 DEF tryop, Fail
<1>2. CASE tryop_result(st, semid, ops, pid) = OK
  <2>1. /\ find_set(st, semid) /\ ops # <<>> /\ Stopped(set.values, ops) = {}
        /\ \A s \in Touched(delta) : Adjustment(st, pid, semid, s) + delta[s] \in AdjRange
    BY <1>2, TryopChecks, Zenon DEF SetOf
  <2>2. r.st = [sets |-> [st.sets EXCEPT ![i] = new], undo |-> undo]
    BY <1>2 DEF tryop, SetOf
  <2>3. i \in Slots /\ SetOK(set)  BY <2>1, LiveSet DEF SetOf
  <2>4. PICK n \in 0..MaxPerSet : set \in SetType(n)  BY <2>3 DEF SetOK
  <2>5. set.nsems = n /\ set.values \in [Sems(n) -> 0..MaxValue] /\ n \in Nat
    <3>1. n \in Nat  OBVIOUS
    <3> QED  BY <2>4, <3>1, Zenon DEF SetType
  <2>6. values \in [Sems(n) -> 0..MaxValue]  BY <2>1, <2>5, WorkingType
  <2>7. last_pids \in [Sems(n) -> {0} \cup Pids]  BY <2>4, <2>5 DEF SetType
  <2>8. SetOK(new)
    <3> HIDE DEF set, values, last_pids
    <3>1. new \in SetType(n)  BY <2>4, <2>6, <2>7, Zenon DEF SetType
    <3>2. /\ new.active = set.active /\ new.generation = set.generation
          /\ new.nsems = set.nsems
      BY <2>4 DEF SetType
    <3> QED  BY <2>3, <3>1, <3>2 DEF SetOK
  <2>9. undo \subseteq UndoType
    <3>1. DOMAIN delta \subseteq Nat  BY <2>5 DEF UndoDeltas, Sems
    <3> HIDE DEF delta
    <3> QED  BY <2>1, <3>1, <1>MergeUndoType
  <2> HIDE DEF i, new, undo
  <2>10. StoreTypeOK([sets |-> [st.sets EXCEPT ![i] = new], undo |-> undo])
    BY <2>3, <2>8, <2>9, WriteSet, Zenon
  <2> QED  BY <2>2, <2>10, Zenon
<1> QED  BY <1>1, <1>2

-----------------------------------------------------------------------------
(* The shape of a store.                                                    *)

SameSet(old, new) == /\ new.active = old.active /\ new.generation = old.generation
                     /\ new.nsems = old.nsems /\ new.key = old.key

SameShape(st, new) == \A i \in Slots : SameSet(st.sets[i], new.sets[i])

LEMMA WriteKeepsShape ==
    ASSUME NEW st, StoreTypeOK(st), NEW i \in Slots, NEW set, NEW undo,
           SameSet(st.sets[i], set)
    PROVE  SameShape(st, [sets |-> [st.sets EXCEPT ![i] = set], undo |-> undo])
<1>1. st.sets = [j \in Slots |-> st.sets[j]]  BY DEF StoreTypeOK
<1>2. \A j \in Slots : [st.sets EXCEPT ![i] = set][j] = IF j = i THEN set ELSE st.sets[j]
  BY <1>1
<1>3. \A j \in Slots : SameSet(st.sets[j], [st.sets EXCEPT ![i] = set][j])
  BY <1>2 DEF SameSet
<1> QED  BY <1>3 DEF SameShape

LEMMA WriteOnlyKeepsShape ==
    ASSUME NEW st, StoreTypeOK(st), NEW i \in Slots, NEW set, SameSet(st.sets[i], set)
    PROVE  /\ SameShape(st, [st EXCEPT !.sets[i] = set])
           /\ [st EXCEPT !.sets[i] = set].undo = st.undo
<1>1. [st EXCEPT !.sets[i] = set]
      = [sets |-> [st.sets EXCEPT ![i] = set], undo |-> st.undo]
  BY DEF StoreTypeOK
<1>2. SameShape(st, [sets |-> [st.sets EXCEPT ![i] = set], undo |-> st.undo])
  BY WriteKeepsShape, Zenon
<1>3. [sets |-> [st.sets EXCEPT ![i] = set], undo |-> st.undo].undo = st.undo  OBVIOUS
<1> QED  BY <1>1, <1>2, <1>3, Zenon

LEMMA SameShapeRefl == \A st : SameShape(st, st)
BY DEF SameShape, SameSet

LEMMA SetMetadataShape ==
    ASSUME NEW st, StoreTypeOK(st), NEW semid \in Int, NEW uid, NEW gid, NEW mode, NEW actor
    PROVE  /\ SameShape(st, set_metadata(st, semid, uid, gid, mode, actor).st)
           /\ set_metadata(st, semid, uid, gid, mode, actor).st.undo = st.undo
<1> DEFINE new == set_metadata(st, semid, uid, gid, mode, actor).st
<1>1. CASE new = st  BY <1>1, SameShapeRefl
<1>2. CASE new # st
  <2> DEFINE i == id_index(semid)
             set == [st.sets[i] EXCEPT !.gid = gid, !.mode = mode]
  <2>1. find_set(st, semid) /\ new = [st EXCEPT !.sets[i] = set]
    BY <1>2 DEF set_metadata, Fail
  <2>2. i \in Slots /\ SetOK(st.sets[i])  BY <2>1, LiveSet DEF SetOf
  <2>3. SameSet(st.sets[i], set)  BY <2>2 DEF SetOK, SetType, SameSet
  <2> HIDE DEF i, set
  <2>4. SameShape(st, [st EXCEPT !.sets[i] = set]) /\ [st EXCEPT !.sets[i] = set].undo = st.undo
    BY <2>2, <2>3, WriteOnlyKeepsShape, Zenon
  <2> QED  BY <2>1, <2>4, Zenon
<1> QED  BY <1>1, <1>2

LEMMA SetvalShape ==
    ASSUME NEW st, StoreTypeOK(st), NEW semid \in Int, NEW semnum, NEW value, NEW pid
    PROVE  LET new == setval(st, semid, semnum, value, pid).st
           IN  SameShape(st, new) /\ new.undo \subseteq st.undo
<1> DEFINE new == setval(st, semid, semnum, value, pid).st
           i == id_index(semid)
           set == [st.sets[i] EXCEPT !.values[semnum] = value, !.last_pids[semnum] = pid]
           undo == clear_undo_entries(st, semid, semnum, FALSE)
<1>1. CASE new = st  BY <1>1, SameShapeRefl
<1>2. CASE new # st
  <2>1. /\ find_set(st, semid)
        /\ new = [sets |-> [st.sets EXCEPT ![i] = set], undo |-> undo]
    BY <1>2, Zenon DEF setval, Fail, has_sem
  <2>2. i \in Slots /\ SetOK(st.sets[i])  BY <2>1, LiveSet DEF SetOf
  <2>3. SameSet(st.sets[i], set)  BY <2>2 DEF SetOK, SetType, SameSet
  <2>4. undo \subseteq st.undo  BY DEF clear_undo_entries
  <2> HIDE DEF i, set, undo
  <2>5. SameShape(st, [sets |-> [st.sets EXCEPT ![i] = set], undo |-> undo])
    BY <2>2, <2>3, WriteKeepsShape, Zenon
  <2>6. [sets |-> [st.sets EXCEPT ![i] = set], undo |-> undo].undo = undo  OBVIOUS
  <2> QED  BY <2>1, <2>4, <2>5, <2>6, Zenon
<1> QED  BY <1>1, <1>2

LEMMA SetallShape ==
    ASSUME NEW st, StoreTypeOK(st), NEW semid \in Int, NEW values, NEW pid
    PROVE  LET new == setall(st, semid, values, pid).st
           IN  SameShape(st, new) /\ new.undo \subseteq st.undo
<1> DEFINE new == setall(st, semid, values, pid).st
           i == id_index(semid)
           set == [st.sets[i] EXCEPT !.values = values,
                                     !.last_pids = [s \in DOMAIN values |-> pid]]
           undo == clear_undo_entries(st, semid, 0, TRUE)
<1>1. CASE new = st  BY <1>1, SameShapeRefl
<1>2. CASE new # st
  <2>1. /\ find_set(st, semid)
        /\ new = [sets |-> [st.sets EXCEPT ![i] = set], undo |-> undo]
    BY <1>2, Zenon DEF setall, Fail
  <2>2. i \in Slots /\ SetOK(st.sets[i])  BY <2>1, LiveSet DEF SetOf
  <2>3. SameSet(st.sets[i], set)  BY <2>2 DEF SetOK, SetType, SameSet
  <2>4. undo \subseteq st.undo  BY DEF clear_undo_entries
  <2> HIDE DEF i, set, undo
  <2>5. SameShape(st, [sets |-> [st.sets EXCEPT ![i] = set], undo |-> undo])
    BY <2>2, <2>3, WriteKeepsShape, Zenon
  <2>6. [sets |-> [st.sets EXCEPT ![i] = set], undo |-> undo].undo = undo  OBVIOUS
  <2> QED  BY <2>1, <2>4, <2>5, <2>6, Zenon
<1> QED  BY <1>1, <1>2

-----------------------------------------------------------------------------
(* semget and IPC_RMID.                                                     *)

\* Going from st to new created a set with this key in slot i.
Created(st, new, i, key) ==
    /\ i \in Slots /\ ~st.sets[i].active
    /\ new.undo = st.undo
    /\ \A j \in Slots \ {i} : new.sets[j] = st.sets[j]
    /\ new.sets[i].active /\ new.sets[i].key = key
    /\ new.sets[i].generation = fresh_generation(st, i)
    /\ key # IPC_PRIVATE => sets_with_key(st, key) = {}

\* A creation writes one inactive slot.
LEMMA GetWrites ==
    ASSUME LeastFirst, NEW st, StoreTypeOK(st), NEW key, NEW nsems, NEW flags, NEW identity,
           NEW allocated, get_as(st, key, nsems, flags, identity, allocated).st # st
    PROVE  Created(st, get_as(st, key, nsems, flags, identity, allocated).st,
                   free_set(st), key)
<1> DEFINE new == get_as(st, key, nsems, flags, identity, allocated).st
           i == free_set(st)
           set == new_set(fresh_generation(st, i), key, nsems, flags, identity)
<1>1. /\ i \in Slots /\ ~st.sets[i].active
      /\ key # IPC_PRIVATE => sets_with_key(st, key) = {}
      /\ new = [st EXCEPT !.sets[i] = set]
  BY GetCreates
<1>2. /\ set.active /\ set.key = key /\ set.generation = fresh_generation(st, i)
  BY DEF new_set
<1>3. st = [sets |-> st.sets, undo |-> st.undo] /\ st.sets = [j \in Slots |-> st.sets[j]]
  BY DEF StoreTypeOK
<1> HIDE DEF i, set, new
<1>4. new.undo = st.undo /\ new.sets = [st.sets EXCEPT ![i] = set]  BY <1>1, <1>3
<1>5. new.sets[i] = set /\ \A j \in Slots \ {i} : new.sets[j] = st.sets[j]
  BY <1>1, <1>3, <1>4
<1>6. Created(st, new, i, key)  BY <1>1, <1>2, <1>4, <1>5 DEF Created
<1> QED  BY <1>6 DEF i, new

\* Two identifiers with the same slot and generation are the same.
LEMMA IdInjective ==
    ASSUME NEW a \in Int, NEW b \in Int,
           id_index(a) = id_index(b), id_generation(a) = id_generation(b)
    PROVE  a = b
<1>1. a % 65536 = b % 65536  BY DEF id_index
<1>2. a \div 65536 = b \div 65536  BY DEF id_generation
<1> QED  BY <1>1, <1>2

-----------------------------------------------------------------------------
(* Requests                                                                 *)

Opcodes == {"PING", "SEMGET", "REMOVE", "SETVAL", "SETALL", "SEMOP", "SETMETA"}
             \cup Semnums \cup Reads

LEMMA RequestFields ==
    ASSUME NEW r \in Request
    PROVE  /\ r.opcode \in Opcodes
           /\ r.opcode = "SEMGET" =>
                /\ r.key \in Int /\ r.nsems \in Int
                /\ r.flags \in [creat : BOOLEAN, excl : BOOLEAN, mode : Permissions]
           /\ r.opcode \in {"REMOVE", "SETVAL", "SETALL", "SEMOP", "SETMETA"} \cup Semnums
                => r.semid \in Int
           /\ r.opcode = "SETVAL" => r.semnum \in Nat /\ r.value \in Nat
           /\ r.opcode = "SETALL" => \E n \in 1..MaxPerSet : r.values \in [Sems(n) -> Nat]
           /\ r.opcode = "SEMOP" => r.ops \in Seq(OpType) /\ r.timed \in BOOLEAN
           /\ r.opcode = "SETMETA" => r.uid \in Nat /\ r.gid \in Nat /\ r.mode \in Nat
BY Zenon DEF Request, Opcodes, Reads, Semnums

\* What a request does to the store.
LEMMA DispatchByOpcode ==
    ASSUME NEW st, NEW r \in Request, NEW pid
    PROVE  LET d == tgc_broker_dispatch(st, r, pid)
           IN  /\ r.opcode = "SEMGET" =>
                    d = get_as(st, r.key, r.nsems, r.flags, Peer, r.allocated)
               /\ r.opcode = "REMOVE" => d = remove(st, r.semid)
               /\ r.opcode = "SETVAL" => d = setval(st, r.semid, r.semnum, r.value, pid)
               /\ r.opcode = "SETALL" => d = setall(st, r.semid, r.values, pid)
               /\ r.opcode = "SEMOP" => d = tryop(st, r.semid, r.ops, pid)
               /\ r.opcode = "SETMETA" =>
                    d = set_metadata(st, r.semid, r.uid, r.gid, r.mode, Peer)
               /\ r.opcode \in {"PING"} \cup Semnums \cup Reads => d.st = st
BY DEF tgc_broker_dispatch, dispatch_semget, dispatch_setval, dispatch_setall,
       dispatch_semop, dispatch_setmeta, Semnums, Reads, Fail

LEMMA DispatchStoreType ==
    ASSUME LeastFirst, NEW st, StoreTypeOK(st), NEW r \in Request, NEW pid \in Pids
    PROVE  StoreTypeOK(tgc_broker_dispatch(st, r, pid).st)
<1> USE RequestFields, DispatchByOpcode
<1>1. Peer \in [uid : Nat, gid : Nat] /\ Peer.uid \in Nat  BY Zenon DEF Peer
<1>2. CASE r.opcode = "SEMGET"
  <2>1. StoreTypeOK(get_as(st, r.key, r.nsems, r.flags, Peer, r.allocated).st)
    BY <1>1, <1>2, GetType
  <2> QED  BY <1>2, <2>1
<1>3. CASE r.opcode = "REMOVE"
  <2>1. r.semid \in Int  BY <1>3
  <2>2. StoreTypeOK(remove(st, r.semid).st)  BY <2>1, RemoveType, Zenon
  <2> QED  BY <1>3, <2>2
<1>4. CASE r.opcode = "SETVAL"
  <2>1. r.semid \in Int /\ r.semnum \in Nat /\ r.value \in Nat  BY <1>4
  <2>2. StoreTypeOK(setval(st, r.semid, r.semnum, r.value, pid).st)  BY <2>1, SetvalType, Zenon
  <2> QED  BY <1>4, <2>2
<1>5. CASE r.opcode = "SETALL"
  <2>1. PICK n \in 1..MaxPerSet : r.values \in [Sems(n) -> Nat]  BY <1>5
  <2>2. n \in Int  OBVIOUS
  <2>3. r.semid \in Int  BY <1>5
  <2>4. StoreTypeOK(setall(st, r.semid, r.values, pid).st)
    BY <2>1, <2>2, <2>3, SetallType, Zenon
  <2> QED  BY <1>5, <2>4
<1>6. CASE r.opcode = "SEMOP"
  <2>1. Len(r.ops) \in Nat /\ (r.ops # <<>> => Len(r.ops) # 0)
    <3>1. r.ops \in Seq(OpType)  BY <1>6
    <3> QED  BY <3>1
  <2> QED  BY <1>6, <2>1, TryopType
<1>7. CASE r.opcode = "SETMETA"  BY <1>1, <1>7, SetMetadataType
<1>8. CASE r.opcode \in {"PING"} \cup Semnums \cup Reads  BY <1>8
<1> QED  BY <1>2, <1>3, <1>4, <1>5, <1>6, <1>7, <1>8 DEF Opcodes

-----------------------------------------------------------------------------
(* The store without waiter counts: every operation but GETNCNT and GETZCNT  *)
(* commutes with leaving them out.                                           *)

Zeros(n) == [s \in Sems(n) |-> 0]

LEMMA BareRecord ==
    ASSUME NEW set, SetOK(set)
    PROVE  Bare(set) = [active |-> set.active, generation |-> set.generation, key |-> set.key,
                        nsems |-> set.nsems, uid |-> set.uid, gid |-> set.gid,
                        cuid |-> set.cuid, cgid |-> set.cgid, mode |-> set.mode,
                        values |-> set.values, last_pids |-> set.last_pids,
                        negative_waiters |-> Zeros(set.nsems),
                        zero_waiters |-> Zeros(set.nsems)]
<1>1. Bare(set) = [set EXCEPT !.negative_waiters = Zeros(set.nsems),
                              !.zero_waiters = Zeros(set.nsems)]
  BY DEF Bare, Zeros
<1>2. PICK n : set \in SetType(n)  BY DEF SetOK
<1> QED  BY <1>1, <1>2, Zenon DEF SetType

LEMMA BareFields ==
    ASSUME NEW set, SetOK(set)
    PROVE  LET b == Bare(set)
           IN  /\ b.active = set.active /\ b.generation = set.generation
               /\ b.key = set.key /\ b.nsems = set.nsems /\ b.uid = set.uid
               /\ b.gid = set.gid /\ b.cuid = set.cuid /\ b.cgid = set.cgid
               /\ b.mode = set.mode /\ b.values = set.values
               /\ b.last_pids = set.last_pids
BY BareRecord

LEMMA BareType ==
    ASSUME NEW set, SetOK(set)
    PROVE  \E n : Bare(set) \in SetType(n)
<1>1. PICK n : set \in SetType(n)  BY DEF SetOK
<1>2. Zeros(n) \in [Sems(n) -> 0..MaxWaiters] /\ set.nsems = n
  BY <1>1, StoreAssumption DEF Zeros, SetType, StoreAssumption
<1>3. Bare(set) \in SetType(n)  BY <1>1, <1>2, BareRecord DEF SetType
<1> QED  BY <1>3

\* New values and processes.
Updated(set, v, l) == [set EXCEPT !.values = v, !.last_pids = l]

LEMMA BareUpdate ==
    ASSUME NEW set, SetOK(set),
           NEW v \in [Sems(set.nsems) -> 0..MaxValue],
           NEW l \in [Sems(set.nsems) -> {0} \cup Pids]
    PROVE  Bare(Updated(set, v, l)) = Updated(Bare(set), v, l)
<1>0. PICK n \in 0..MaxPerSet : set \in SetType(n)  BY DEF SetOK
<1> DEFINE new == [set EXCEPT !.values = v, !.last_pids = l]
           bare == [Bare(set) EXCEPT !.values = v, !.last_pids = l]
<1>1. PICK b : b = Bare(set)  OBVIOUS
<1>2. b.negative_waiters = Zeros(n) /\ b.zero_waiters = Zeros(n) /\ set.nsems = n
  BY <1>0, <1>1, BareRecord DEF SetType
<1>3. /\ b.active = set.active /\ b.generation = set.generation
      /\ b.key = set.key /\ b.nsems = set.nsems /\ b.uid = set.uid
      /\ b.gid = set.gid /\ b.cuid = set.cuid /\ b.cgid = set.cgid
      /\ b.mode = set.mode
  BY <1>1, BareFields
<1>4. PICK m : b \in SetType(m)  BY <1>1, BareType
<1>5. m = n  BY <1>2, <1>3, <1>4 DEF SetType
<1>6. bare = [b EXCEPT !.values = v, !.last_pids = l]  BY <1>1
<1>7. bare \in SetType(n)  BY <1>2, <1>4, <1>5, <1>6, ZenonT(30) DEF SetType
<1>8. new \in SetType(n)  BY <1>0, <1>2, Zenon DEF SetType
<1>9. SetOK(new)  BY <1>0, <1>8 DEF SetOK, SetType
<1>10. /\ bare.active = new.active /\ bare.generation = new.generation
       /\ bare.key = new.key /\ bare.nsems = new.nsems /\ bare.uid = new.uid
       /\ bare.gid = new.gid /\ bare.cuid = new.cuid /\ bare.cgid = new.cgid
       /\ bare.mode = new.mode /\ bare.values = new.values
       /\ bare.last_pids = new.last_pids
       /\ bare.negative_waiters = Zeros(new.nsems)
       /\ bare.zero_waiters = Zeros(new.nsems)
  BY <1>0, <1>2, <1>3, <1>4, <1>6, Zenon DEF SetType
<1>11. Bare(new) = bare
  <2> HIDE DEF new, bare
  <2> QED  BY <1>7, <1>9, <1>10, BareRecord DEF SetType
<1> QED  BY <1>11 DEF Updated

LEMMA UncountedFields ==
    ASSUME NEW st
    PROVE  /\ Uncounted(st).undo = st.undo
           /\ Uncounted(st).sets = [i \in Slots |-> Bare(st.sets[i])]
           /\ \A i \in Slots : Uncounted(st).sets[i] = Bare(st.sets[i])
BY DEF Uncounted

\* Writing one slot.
LEMMA UncountedWrite ==
    ASSUME NEW st, StoreTypeOK(st), NEW i \in Slots, NEW set, NEW undo
    PROVE  Uncounted([sets |-> [st.sets EXCEPT ![i] = set], undo |-> undo])
             = [sets |-> [Uncounted(st).sets EXCEPT ![i] = Bare(set)], undo |-> undo]
<1> DEFINE new == [st.sets EXCEPT ![i] = set]
<1>1. st.sets = [j \in Slots |-> st.sets[j]]  BY DEF StoreTypeOK
<1>2. \A j \in Slots : new[j] = IF j = i THEN set ELSE st.sets[j]  BY <1>1
<1> HIDE DEF new
<1>3. [j \in Slots |-> Bare(new[j])]
        = [[j \in Slots |-> Bare(st.sets[j])] EXCEPT ![i] = Bare(set)]
  BY <1>2, Zenon
<1>4. Uncounted([sets |-> new, undo |-> undo])
        = [sets |-> [j \in Slots |-> Bare(new[j])], undo |-> undo]
  BY DEF Uncounted
<1> QED  BY <1>3, <1>4, UncountedFields, Zenon DEF new

\* The same for a function that leaves the undo table alone.
LEMMA UncountedWriteOnly ==
    ASSUME NEW st, StoreTypeOK(st), NEW i \in Slots, NEW set
    PROVE  Uncounted([st EXCEPT !.sets[i] = set])
             = [Uncounted(st) EXCEPT !.sets[i] = Bare(set)]
<1>1. [st EXCEPT !.sets[i] = set]
        = [sets |-> [st.sets EXCEPT ![i] = set], undo |-> st.undo]
  BY DEF StoreTypeOK
<1>2. [Uncounted(st) EXCEPT !.sets[i] = Bare(set)]
        = [sets |-> [Uncounted(st).sets EXCEPT ![i] = Bare(set)], undo |-> st.undo]
  <2>1. PICK sets : sets = [j \in Slots |-> Bare(st.sets[j])]  BY Zenon
  <2>2. Uncounted(st) = [sets |-> sets, undo |-> st.undo]  BY <2>1 DEF Uncounted
  <2>3. PICK b : b = Bare(set)  OBVIOUS
  <2>4. [[sets |-> sets, undo |-> st.undo] EXCEPT !.sets[i] = b]
          = [sets |-> [sets EXCEPT ![i] = b], undo |-> st.undo]
    OBVIOUS
  <2> QED  BY <2>2, <2>3, <2>4
<1>3. Uncounted([sets |-> [st.sets EXCEPT ![i] = set], undo |-> st.undo])
        = [sets |-> [Uncounted(st).sets EXCEPT ![i] = Bare(set)], undo |-> st.undo]
  <2>1. \A undo : Uncounted([sets |-> [st.sets EXCEPT ![i] = set], undo |-> undo])
                   = [sets |-> [Uncounted(st).sets EXCEPT ![i] = Bare(set)], undo |-> undo]
    BY UncountedWrite, SMTT(30)
  <2> QED  BY <2>1, Zenon
<1> QED  BY <1>1, <1>2, <1>3, Zenon

LEMMA UncountedLookup ==
    ASSUME NEW st, StoreTypeOK(st), NEW semid
    PROVE  /\ find_set(Uncounted(st), semid) <=> find_set(st, semid)
           /\ \A s : has_sem(Uncounted(st), semid, s) <=> has_sem(st, semid, s)
           /\ find_set(st, semid) => /\ id_index(semid) \in Slots
                                     /\ SetOK(SetOf(st, semid))
                                     /\ SetOf(Uncounted(st), semid) = Bare(SetOf(st, semid))
<1> DEFINE i == id_index(semid)
<1>1. CASE i \in Slots
  <2>1. SetOK(st.sets[i]) /\ Uncounted(st).sets[i] = Bare(st.sets[i])
    BY <1>1, UncountedFields, Zenon DEF StoreTypeOK
  <2> QED  BY <1>1, <2>1, BareFields DEF find_set, has_sem, SetOf
<1>2. CASE i \notin Slots  BY <1>2 DEF find_set, has_sem, decodes
<1> QED  BY <1>1, <1>2

\* New values and processes of one slot, and a new undo table.
Put(st, i, v, l, undo) ==
    [sets |-> [st.sets EXCEPT ![i] = Updated(st.sets[i], v, l)], undo |-> undo]

\* What depends on the undo table alone.
LEMMA UndoAlone ==
    ASSUME NEW st, NEW new, new.undo = st.undo, NEW pid, NEW semid
    PROVE  /\ \A s : find_undo_entry(new, pid, semid, s) = find_undo_entry(st, pid, semid, s)
           /\ \A s : Adjustment(new, pid, semid, s) = Adjustment(st, pid, semid, s)
           /\ \A delta : UndoVerdict(new, semid, pid, delta) = UndoVerdict(st, semid, pid, delta)
           /\ \A delta : MergeUndo(new, semid, pid, delta) = MergeUndo(st, semid, pid, delta)
<1>1. \A s : find_undo_entry(new, pid, semid, s) = find_undo_entry(st, pid, semid, s)
  BY DEF find_undo_entry
<1>2. ASSUME NEW s PROVE Adjustment(new, pid, semid, s) = Adjustment(st, pid, semid, s)
  <2> DEFINE Sum(found) == IF found = {} THEN 0 ELSE (CHOOSE e \in found : TRUE).adjustment
  <2>1. /\ Adjustment(new, pid, semid, s) = Sum(find_undo_entry(new, pid, semid, s))
        /\ Adjustment(st, pid, semid, s) = Sum(find_undo_entry(st, pid, semid, s))
    BY DEF Adjustment
  <2> HIDE DEF Sum
  <2> QED  BY <1>1, <2>1
<1>3. ASSUME NEW delta PROVE UndoVerdict(new, semid, pid, delta) = UndoVerdict(st, semid, pid, delta)
  <2>1. {s \in Touched(delta) : find_undo_entry(new, pid, semid, s) = {}}
          = {s \in Touched(delta) : find_undo_entry(st, pid, semid, s) = {}}
    BY <1>1
  <2>2. (\E s \in Touched(delta) : Adjustment(new, pid, semid, s) + delta[s] \notin AdjRange)
          <=> (\E s \in Touched(delta) : Adjustment(st, pid, semid, s) + delta[s] \notin AdjRange)
    BY <1>2
  <2> QED  BY <2>1, <2>2, Zenon DEF UndoVerdict
<1>4. ASSUME NEW delta PROVE MergeUndo(new, semid, pid, delta) = MergeUndo(st, semid, pid, delta)
  <2> DEFINE Entry(s, a) == [pid |-> pid, semid |-> semid, semnum |-> s, adjustment |-> a + delta[s]]
  <2>1. {Entry(s, Adjustment(new, pid, semid, s)) : s \in Touched(delta)}
          = {Entry(s, Adjustment(st, pid, semid, s)) : s \in Touched(delta)}
    <3> HIDE DEF Entry
    <3> QED  BY <1>2
  <2> QED  BY <2>1, Zenon DEF MergeUndo
<1> QED  BY <1>1, <1>2, <1>3, <1>4

\* A new group and mode.
Owned(set, gid, mode) == [set EXCEPT !.gid = gid, !.mode = mode]

\* Every slot, one by one.
LEMMA UncountedSlots ==
    ASSUME NEW st, StoreTypeOK(st), NEW i \in Slots
    PROVE  LET b == Uncounted(st).sets[i]
               set == st.sets[i]
           IN  /\ b.active = set.active /\ b.generation = set.generation
               /\ b.key = set.key /\ b.nsems = set.nsems /\ b.values = set.values
               /\ b.last_pids = set.last_pids /\ metadata(b) = metadata(set)
<1>1. SetOK(st.sets[i]) /\ Uncounted(st).sets[i] = Bare(st.sets[i])
  BY UncountedFields, Zenon DEF StoreTypeOK
<1> QED  BY <1>1, BareFields DEF metadata

LEMMA UncountedSearch ==
    ASSUME NEW st, StoreTypeOK(st)
    PROVE  /\ inactive_sets(Uncounted(st)) = inactive_sets(st)
           /\ \A key : sets_with_key(Uncounted(st), key) = sets_with_key(st, key)
           /\ free_set(Uncounted(st)) = free_set(st)
<1>1. inactive_sets(Uncounted(st)) = inactive_sets(st)
  BY UncountedSlots DEF inactive_sets
<1>2. \A key : sets_with_key(Uncounted(st), key) = sets_with_key(st, key)
  BY UncountedSlots DEF sets_with_key
<1> QED  BY <1>1, <1>2 DEF free_set

LEMMA UncountedExit ==
    ASSUME NEW st, StoreTypeOK(st), NEW pid \in Pids
    PROVE  process_exit(Uncounted(st), pid).st = Uncounted(process_exit(st, pid).st)
<1> DEFINE u == Uncounted(st)
<1>1. ASSUME NEW i \in Slots
      PROVE  RestoredSet(u, pid, i) = Bare(RestoredSet(st, pid, i))
  <2> DEFINE set == st.sets[i]
             semid == make_id(i, set.generation)
             v == [s \in Sems(set.nsems) |->
                      Clamp(set.values[s] + Adjustment(st, pid, semid, s))]
             l == [s \in Sems(set.nsems) |->
                      IF find_undo_entry(st, pid, semid, s) = {} THEN set.last_pids[s] ELSE pid]
  <2>1. SetOK(set) /\ u.sets[i] = Bare(set)  BY UncountedFields, Zenon DEF StoreTypeOK
  <2>2. /\ u.sets[i].active = set.active /\ u.sets[i].generation = set.generation
        /\ u.sets[i].nsems = set.nsems /\ u.sets[i].values = set.values
        /\ u.sets[i].last_pids = set.last_pids
    BY UncountedSlots
  <2>3. CASE ~set.active  BY <2>1, <2>2, <2>3 DEF RestoredSet
  <2>4. CASE set.active
    <3>1. RestoredSet(st, pid, i) = Updated(set, v, l)  BY <2>4 DEF RestoredSet, Updated
    <3>2. PICK n \in 0..MaxPerSet : set \in SetType(n)  BY <2>1 DEF SetOK
    <3>3. v \in [Sems(set.nsems) -> 0..MaxValue]
      <4>1. ASSUME NEW s \in Sems(set.nsems)
            PROVE  Clamp(set.values[s] + Adjustment(st, pid, semid, s)) \in 0..MaxValue
        <5>1. set.values[s] \in Int  BY <3>2, StoreAssumption DEF SetType, StoreAssumption
        <5>2. Adjustment(st, pid, semid, s) \in Int
          BY AdjustmentType, StoreAssumption DEF AdjRange, StoreAssumption
        <5>3. PICK x \in Int : x = set.values[s] + Adjustment(st, pid, semid, s)
          BY <5>1, <5>2
        <5>4. Clamp(x) \in 0..MaxValue  BY StoreAssumption DEF StoreAssumption, Clamp
        <5> QED  BY <5>3, <5>4
      <4> QED  BY <4>1
    <3>4. l \in [Sems(set.nsems) -> {0} \cup Pids]  BY <3>2 DEF SetType
    <3>5. RestoredSet(u, pid, i) = Updated(u.sets[i], v, l)
      <4>1. u.undo = st.undo  BY UncountedFields, Zenon
      <4> HIDE DEF u
      <4>2. /\ \A s : find_undo_entry(u, pid, semid, s) = find_undo_entry(st, pid, semid, s)
            /\ \A s : Adjustment(u, pid, semid, s) = Adjustment(st, pid, semid, s)
        BY <4>1, UndoAlone
      <4>3. RestoredSet(u, pid, i)
              = Updated(u.sets[i],
                        [s \in Sems(set.nsems) |->
                            Clamp(set.values[s] + Adjustment(u, pid, semid, s))],
                        [s \in Sems(set.nsems) |->
                            IF find_undo_entry(u, pid, semid, s) = {}
                            THEN set.last_pids[s] ELSE pid])
        BY <2>2, <2>4 DEF RestoredSet, Updated
      <4> QED  BY <4>2, <4>3
    <3> HIDE DEF v, l, u, set
    <3>6. Bare(Updated(set, v, l)) = Updated(Bare(set), v, l)
      BY <2>1, <3>3, <3>4, BareUpdate
    <3> QED  BY <2>1, <3>1, <3>5, <3>6
  <2> QED  BY <2>3, <2>4
<1>2. process_exit(u, pid).st
        = [sets |-> [i \in Slots |-> RestoredSet(u, pid, i)],
           undo |-> st.undo \ {e \in st.undo : e.pid = pid}]
  BY UncountedFields, Zenon DEF process_exit
<1>3. process_exit(st, pid).st
        = [sets |-> [i \in Slots |-> RestoredSet(st, pid, i)],
           undo |-> st.undo \ {e \in st.undo : e.pid = pid}]
  BY DEF process_exit
<1>4. Uncounted(process_exit(st, pid).st)
        = [sets |-> [i \in Slots |-> Bare(RestoredSet(st, pid, i))],
           undo |-> st.undo \ {e \in st.undo : e.pid = pid}]
  BY <1>3 DEF Uncounted
<1> QED  BY <1>1, <1>2, <1>4, Zenon

\* Counting a waiter is not seen.
LEMMA UncountedAdjust ==
    ASSUME NEW st, StoreTypeOK(st), NEW semid \in Int, NEW semnum,
           NEW zero \in BOOLEAN, NEW adjustment
    PROVE  Uncounted(adjust_wait_count(st, semid, semnum, zero, adjustment).st) = Uncounted(st)
<1> DEFINE new == adjust_wait_count(st, semid, semnum, zero, adjustment).st
           i == id_index(semid)
           set == st.sets[i]
           count == SetOf(st, semid)[WaitersField(zero)][semnum] + adjustment
           negative == [set EXCEPT !.negative_waiters[semnum] = count]
           zeroes == [set EXCEPT !.zero_waiters[semnum] = count]
<1>1. CASE new = st  BY <1>1
<1>2. CASE new # st
  <2>1. find_set(st, semid) /\ new = [st EXCEPT !.sets[i] = IF zero THEN zeroes ELSE negative]
    BY <1>2 DEF adjust_wait_count, Fail, has_sem, SetOf, WaitersField
  <2>2. PICK s : s = IF zero THEN zeroes ELSE negative  BY Zenon
  <2>3. i \in Slots /\ SetOK(set)  BY <2>1, UncountedLookup DEF SetOf
  <2>4. PICK n \in 0..MaxPerSet : set \in SetType(n)  BY <2>3 DEF SetOK
  <2>5. Bare(s) = Bare(set)
    <3> HIDE DEF set, count
    <3>1. s.nsems = set.nsems
      BY <2>2, <2>4 DEF SetType
    <3>2. PICK z : z = [x \in Sems(set.nsems) |-> 0]  BY Zenon
    <3>3. /\ Bare(s) = [s EXCEPT !.negative_waiters = z, !.zero_waiters = z]
          /\ Bare(set) = [set EXCEPT !.negative_waiters = z, !.zero_waiters = z]
      BY <3>1, <3>2 DEF Bare
    <3>4. CASE zero
      BY <2>2, <2>4, <3>3, <3>4, Zenon DEF SetType
    <3>5. CASE ~zero
      BY <2>2, <2>4, <3>3, <3>5, Zenon DEF SetType
    <3> QED  BY <3>4, <3>5
  <2>6. Uncounted([st EXCEPT !.sets[i] = s]) = [Uncounted(st) EXCEPT !.sets[i] = Bare(s)]
    <3> HIDE DEF i
    <3> QED  BY <2>3, UncountedWriteOnly
  <2>7. Bare(set) = Uncounted(st).sets[i]  BY <2>3, UncountedFields, Zenon
  <2>8. PICK u, b : u = Uncounted(st) /\ b = Bare(set)  OBVIOUS
  <2>9. u = [sets |-> u.sets, undo |-> u.undo] /\ u.sets = [j \in Slots |-> u.sets[j]]
    BY <2>8 DEF Uncounted
  <2>10. [u EXCEPT !.sets[i] = b] = u  BY <2>3, <2>7, <2>8, <2>9
  <2> QED  BY <2>1, <2>2, <2>5, <2>6, <2>8, <2>10
<1> QED  BY <1>1, <1>2

LEMMA UncountedCount ==
    ASSUME NEW st, StoreTypeOK(st), NEW semid, NEW semnum, NEW zero \in BOOLEAN
    PROVE  /\ has_sem(st, semid, semnum) => get_wait_count(Uncounted(st), semid, semnum, zero) = 0
           /\ ~has_sem(st, semid, semnum) =>
                /\ get_wait_count(Uncounted(st), semid, semnum, zero) = EINVAL
                /\ get_wait_count(st, semid, semnum, zero) = EINVAL
<1>1. CASE has_sem(st, semid, semnum)
  <2> DEFINE set == SetOf(st, semid)
  <2>1. find_set(st, semid) /\ semnum \in Sems(set.nsems)  BY <1>1 DEF has_sem
  <2>2. SetOK(set) /\ SetOf(Uncounted(st), semid) = Bare(set) /\ has_sem(Uncounted(st), semid, semnum)
    BY <1>1, <2>1, UncountedLookup
  <2>3. PICK b : b = Bare(set)  OBVIOUS
  <2>4. b.negative_waiters = Zeros(set.nsems) /\ b.zero_waiters = Zeros(set.nsems)
    BY <2>2, <2>3, BareRecord
  <2>5. b[WaitersField(zero)] = Zeros(set.nsems)  BY <2>4 DEF WaitersField
  <2> QED  BY <1>1, <2>1, <2>2, <2>3, <2>5 DEF get_wait_count, Zeros
<1>2. CASE ~has_sem(st, semid, semnum)
  BY <1>2, UncountedLookup DEF get_wait_count
<1> QED  BY <1>1, <1>2

LEMMA QuietOpcodes ==
    ASSUME NEW st, NEW r, NEW pid
    PROVE  LET d == tgc_broker_dispatch(st, r, pid)
           IN  /\ r.opcode = "PING" => d = Fail(st, OK)
               /\ r.opcode \in Semnums => d = Fail(st, dispatch_semnum(st, r))
               /\ r.opcode \in Reads => d = Fail(st, dispatch_read(st, r).ret)
BY DEF tgc_broker_dispatch, Semnums, Reads

LEMMA SameAnswers ==
    ASSUME NEW st, StoreTypeOK(st), NEW r
    PROVE  /\ r.opcode \in {"GETVAL", "GETPID"} =>
                dispatch_semnum(Uncounted(st), r) = dispatch_semnum(st, r)
           /\ r.opcode \in Reads => dispatch_read(Uncounted(st), r) = dispatch_read(st, r)
\* What GETALL, IPC_STAT, SEM_STAT, IPC_INFO and SEM_INFO answer.
<1>UncountedReads.
      /\ \A semid, count : getall(Uncounted(st), semid, count) = getall(st, semid, count)
      /\ \A semid : get_metadata(Uncounted(st), semid) = get_metadata(st, semid)
      /\ \A index : stat_index(Uncounted(st), index) = stat_index(st, index)
      /\ \A dynamic : info(Uncounted(st), dynamic) = info(st, dynamic)
      /\ \A semid, s : /\ getval(Uncounted(st), semid, s) = getval(st, semid, s)
                       /\ getpid(Uncounted(st), semid, s) = getpid(st, semid, s)
  <2> DEFINE u == Uncounted(st)
  <2>1. ASSUME NEW semid, find_set(st, semid)
        PROVE  /\ SetOf(u, semid).nsems = SetOf(st, semid).nsems
               /\ SetOf(u, semid).values = SetOf(st, semid).values
               /\ SetOf(u, semid).last_pids = SetOf(st, semid).last_pids
               /\ metadata(SetOf(u, semid)) = metadata(SetOf(st, semid))
    <3>1. id_index(semid) \in Slots  BY <2>1, UncountedLookup
    <3> QED  BY <3>1, UncountedSlots DEF SetOf
  <2>2. ASSUME NEW semid PROVE find_set(u, semid) <=> find_set(st, semid)
    BY UncountedLookup
  <2>3. ASSUME NEW semid, NEW s PROVE has_sem(u, semid, s) <=> has_sem(st, semid, s)
    BY UncountedLookup
  <2>4. ASSUME NEW semid, NEW count PROVE getall(u, semid, count) = getall(st, semid, count)
    BY <2>1, <2>2 DEF getall
  <2>5. ASSUME NEW semid PROVE get_metadata(u, semid) = get_metadata(st, semid)
    BY <2>1, <2>2 DEF get_metadata
  <2>6. ASSUME NEW index PROVE stat_index(u, index) = stat_index(st, index)
    <3>1. CASE index \in Slots
      <4>1. /\ u.sets[index].active = st.sets[index].active
            /\ u.sets[index].generation = st.sets[index].generation
            /\ metadata(u.sets[index]) = metadata(st.sets[index])
        BY <3>1, UncountedSlots
      <4> QED  BY <4>1, Zenon DEF stat_index
    <3>2. CASE index \notin Slots  BY <3>2 DEF stat_index
    <3> QED  BY <3>1, <3>2
  <2>7. ASSUME NEW dynamic PROVE info(u, dynamic) = info(st, dynamic)
    <3>1. inactive_sets(u) = inactive_sets(st)  BY UncountedSearch
    <3>2. PICK active : active = Slots \ inactive_sets(st)  BY Zenon
    <3>3. [i \in active |-> u.sets[i].nsems] = [i \in active |-> st.sets[i].nsems]
      BY <3>2, UncountedSlots
    <3> QED  BY <3>1, <3>2, <3>3, Zenon DEF info
  <2>8. ASSUME NEW semid, NEW s
        PROVE  getval(u, semid, s) = getval(st, semid, s) /\ getpid(u, semid, s) = getpid(st, semid, s)
    BY <2>1, <2>3 DEF getval, getpid, has_sem
  <2> QED  BY <2>4, <2>5, <2>6, <2>7, <2>8
<1> USE <1>UncountedReads
<1>1. CASE r.opcode = "GETVAL"  BY <1>1 DEF dispatch_semnum, Reads
<1>2. CASE r.opcode = "GETPID"  BY <1>2 DEF dispatch_semnum, Reads
<1>3. CASE r.opcode = "GETALL"  BY <1>3 DEF dispatch_read
<1>4. CASE r.opcode = "STAT"  BY <1>4 DEF dispatch_read
<1>5. CASE r.opcode = "STAT_INDEX"  BY <1>5 DEF dispatch_read
<1>6. CASE r.opcode = "INFO"  BY <1>6 DEF dispatch_read
<1> QED  BY <1>1, <1>2, <1>3, <1>4, <1>5, <1>6 DEF Reads

Counting == {"GETNCNT", "GETZCNT"}

\* The sequential store does the same with and without the counts.
LEMMA UncountedDispatch ==
    ASSUME LeastFirst, NEW st, StoreTypeOK(st), NEW r \in Request, NEW pid \in Pids,
           r.opcode \notin Counting
    PROVE  LET d == tgc_broker_dispatch(st, r, pid)
           IN  tgc_broker_dispatch(Uncounted(st), r, pid)
                 = [ret |-> d.ret, st |-> Uncounted(d.st)]
<1>UncountedRemove.
      ASSUME NEW semid
      PROVE  remove(Uncounted(st), semid)
               = [ret |-> remove(st, semid).ret, st |-> Uncounted(remove(st, semid).st)]
  <2> USE <1>UncountedRemove
  <2>1. CASE ~find_set(st, semid)
    <3>1. remove(st, semid) = Fail(st, EINVAL) /\ remove(Uncounted(st), semid) = Fail(Uncounted(st), EINVAL)
      BY <2>1, UncountedLookup, Zenon DEF remove
    <3> QED  BY <3>1 DEF Fail
  <2>2. CASE find_set(st, semid)
    <3> DEFINE i == id_index(semid)
               set == EmptySet(next_generation(st.sets[i].generation))
               undo == clear_undo_entries(st, semid, 0, TRUE)
    <3>1. remove(st, semid) = [ret |-> OK, st |-> [sets |-> [st.sets EXCEPT ![i] = set], undo |-> undo]]
      BY <2>2 DEF remove
    <3>2. i \in Slots /\ SetOK(st.sets[i]) /\ Uncounted(st).sets[i] = Bare(st.sets[i])
      BY <2>2, UncountedLookup DEF SetOf
    <3>3. Uncounted(st).sets[i].generation = st.sets[i].generation  BY <3>2, BareFields
    <3>4. clear_undo_entries(Uncounted(st), semid, 0, TRUE) = undo
      BY UncountedFields, Zenon DEF clear_undo_entries
    <3>5. find_set(Uncounted(st), semid)  BY <2>2, UncountedLookup
    <3>6. remove(Uncounted(st), semid)
            = [ret |-> OK, st |-> [sets |-> [Uncounted(st).sets EXCEPT ![i] = set], undo |-> undo]]
      BY <3>3, <3>4, <3>5, Zenon DEF remove
    <3>7. Bare(set) = set
      <4>1. PICK g : g = next_generation(st.sets[i].generation)  OBVIOUS
      <4>2. st.sets[i].generation \in 0..MaxGeneration  BY <3>2 DEF SetOK, SetType
      <4>3. g \in 0..MaxGeneration  BY <4>1, <4>2, NextGenerationRange
      <4>4. SetOK(set)  BY <4>1, <4>3, EmptySetOK
      <4> QED  BY <4>4, BareRecord DEF EmptySet, Zeros
    <3> HIDE DEF set, undo, i
    <3>8. Uncounted([sets |-> [st.sets EXCEPT ![i] = set], undo |-> undo])
            = [sets |-> [Uncounted(st).sets EXCEPT ![i] = set], undo |-> undo]
      BY <3>2, <3>7, UncountedWrite
    <3> QED  BY <3>1, <3>6, <3>8
  <2> QED  BY <2>1, <2>2
<1>UncountedSetval.
      ASSUME NEW semid \in Int, NEW semnum \in Nat, NEW value \in Nat
      PROVE  LET d == setval(st, semid, semnum, value, pid)
             IN  setval(Uncounted(st), semid, semnum, value, pid)
                   = [ret |-> d.ret, st |-> Uncounted(d.st)]
  <2> USE <1>UncountedSetval
  <2> DEFINE u == Uncounted(st)
             i == id_index(semid)
             set == st.sets[i]
             new == [set EXCEPT !.values[semnum] = value, !.last_pids[semnum] = pid]
             bare == [Bare(set) EXCEPT !.values[semnum] = value, !.last_pids[semnum] = pid]
             undo == clear_undo_entries(st, semid, semnum, FALSE)
  <2>1. has_sem(u, semid, semnum) <=> has_sem(st, semid, semnum)  BY UncountedLookup
  <2>2. clear_undo_entries(u, semid, semnum, FALSE) = undo
    BY UncountedFields, Zenon DEF clear_undo_entries
  <2>3. CASE ~has_sem(st, semid, semnum) \/ value > MaxValue
    <3>1. PICK err : /\ setval(st, semid, semnum, value, pid) = Fail(st, err)
                     /\ setval(u, semid, semnum, value, pid) = Fail(u, err)
      BY <2>1, <2>3, Zenon DEF setval
    <3> QED  BY <3>1 DEF Fail
  <2>4. CASE has_sem(st, semid, semnum) /\ ~(value > MaxValue)
    <3>1. i \in Slots /\ SetOK(set) /\ u.sets[i] = Bare(set)
      BY <2>4, UncountedLookup DEF SetOf, has_sem
    <3>2. setval(st, semid, semnum, value, pid)
            = [ret |-> OK, st |-> [sets |-> [st.sets EXCEPT ![i] = new], undo |-> undo]]
      BY <2>4 DEF setval
    <3>3. setval(u, semid, semnum, value, pid)
            = [ret |-> OK, st |-> [sets |-> [u.sets EXCEPT ![i] = bare], undo |-> undo]]
      BY <2>1, <2>2, <2>4, <3>1, Zenon DEF setval
    <3>4. Bare(new) = bare
      <4> DEFINE v == [set.values EXCEPT ![semnum] = value]
                 l == [set.last_pids EXCEPT ![semnum] = pid]
      <4>1. PICK n : set \in SetType(n)  BY <3>1 DEF SetOK
      <4>2. new = Updated(set, v, l)  BY <4>1 DEF SetType, Updated
      <4>3. PICK b : b = Bare(set)  OBVIOUS
      <4>4. b.values = set.values /\ b.last_pids = set.last_pids  BY <3>1, <4>3, BareFields
      <4>5. PICK m : b \in SetType(m)  BY <3>1, <4>3, BareType
      <4>6. bare = Updated(b, v, l)
        BY <4>3, <4>4, <4>5, Zenon DEF SetType, Updated
      <4>7. semnum \in Sems(n) /\ value \in 0..MaxValue /\ set.nsems = n
        BY <2>4, <4>1, StoreAssumption DEF StoreAssumption, has_sem, SetOf, SetType
      <4>8. v \in [Sems(n) -> 0..MaxValue] /\ l \in [Sems(n) -> {0} \cup Pids]
        BY <4>1, <4>7 DEF SetType
      <4> HIDE DEF v, l, set, new, bare
      <4>9. Bare(Updated(set, v, l)) = Updated(Bare(set), v, l)
        BY <3>1, <4>7, <4>8, BareUpdate
      <4> QED  BY <4>2, <4>3, <4>6, <4>9
    <3> HIDE DEF i, new, bare, undo, u
    <3>5. Uncounted([sets |-> [st.sets EXCEPT ![i] = new], undo |-> undo])
            = [sets |-> [Uncounted(st).sets EXCEPT ![i] = Bare(new)], undo |-> undo]
      BY <3>1, UncountedWrite
    <3> QED  BY <3>2, <3>3, <3>4, <3>5 DEF u
  <2> QED  BY <2>3, <2>4
<1>UncountedPut.
      ASSUME NEW i \in Slots, NEW undo, NEW v \in [Sems(st.sets[i].nsems) -> 0..MaxValue],
             NEW l \in [Sems(st.sets[i].nsems) -> {0} \cup Pids]
      PROVE  Uncounted(Put(st, i, v, l, undo)) = Put(Uncounted(st), i, v, l, undo)
  <2> USE <1>UncountedPut
  <2>1. SetOK(st.sets[i])  BY DEF StoreTypeOK
  <2>2. PICK new : new = Updated(st.sets[i], v, l)  OBVIOUS
  <2>3. Bare(new) = Updated(Bare(st.sets[i]), v, l)  BY <2>1, <2>2, BareUpdate
  <2>4. Uncounted([sets |-> [st.sets EXCEPT ![i] = new], undo |-> undo])
          = [sets |-> [Uncounted(st).sets EXCEPT ![i] = Bare(new)], undo |-> undo]
    BY UncountedWrite
  <2>5. Uncounted(st).sets[i] = Bare(st.sets[i])  BY UncountedFields, Zenon
  <2> QED  BY <2>2, <2>3, <2>4, <2>5, Zenon DEF Put
<1>UncountedSetall.
      ASSUME NEW semid \in Int, NEW n \in Int, NEW values \in [Sems(n) -> Nat]
      PROVE  LET d == setall(st, semid, values, pid)
             IN  setall(Uncounted(st), semid, values, pid)
                   = [ret |-> d.ret, st |-> Uncounted(d.st)]
  <2> USE <1>UncountedSetall
  <2> DEFINE u == Uncounted(st)
             i == id_index(semid)
             l == [s \in DOMAIN values |-> pid]
             undo == clear_undo_entries(st, semid, 0, TRUE)
  <2>1. /\ find_set(u, semid) <=> find_set(st, semid)
        /\ find_set(st, semid) => /\ i \in Slots /\ SetOK(st.sets[i])
                                  /\ u.sets[i] = Bare(st.sets[i])
    BY UncountedLookup DEF SetOf
  <2>2. find_set(st, semid) => u.sets[i].nsems = st.sets[i].nsems  BY <2>1, BareFields
  <2>3. clear_undo_entries(u, semid, 0, TRUE) = undo
    BY UncountedFields, Zenon DEF clear_undo_entries
  <2> DEFINE bad == ~find_set(st, semid) \/ DOMAIN values # Sems(st.sets[i].nsems)
             large == \E s \in DOMAIN values : values[s] > MaxValue
  <2>4. CASE bad \/ large
    <3>1. PICK err : /\ setall(st, semid, values, pid) = Fail(st, err)
                     /\ setall(u, semid, values, pid) = Fail(u, err)
      BY <2>1, <2>2, <2>4, Zenon DEF setall, SetOf
    <3> QED  BY <3>1 DEF Fail
  <2>5. CASE ~bad /\ ~large
    <3>1. setall(st, semid, values, pid) = [ret |-> OK, st |-> Put(st, i, values, l, undo)]
      BY <2>5 DEF setall, SetOf, Updated, Put
    <3>2. setall(u, semid, values, pid) = [ret |-> OK, st |-> Put(u, i, values, l, undo)]
      BY <2>1, <2>2, <2>3, <2>5, Zenon DEF setall, SetOf, Updated, Put
    <3>3. values \in [Sems(st.sets[i].nsems) -> 0..MaxValue]
      BY <2>5, StoreAssumption DEF StoreAssumption
    <3>4. l \in [Sems(st.sets[i].nsems) -> {0} \cup Pids]  BY <2>5
    <3>0. i \in Slots  BY <2>1, <2>5
    <3> HIDE DEF i, l, undo, u
    <3>5. Uncounted(Put(st, i, values, l, undo)) = Put(Uncounted(st), i, values, l, undo)
      BY <3>0, <3>3, <3>4, <1>UncountedPut
    <3> QED  BY <3>1, <3>2, <3>5 DEF u
  <2> QED  BY <2>4, <2>5
<1>UncountedTryop.
      ASSUME NEW semid \in Int, NEW ops, Len(ops) \in Nat, ops # <<>> => Len(ops) # 0
      PROVE  /\ tryop_result(Uncounted(st), semid, ops, pid) = tryop_result(st, semid, ops, pid)
             /\ LET d == tryop(st, semid, ops, pid)
                IN  tryop(Uncounted(st), semid, ops, pid)
                      = [ret |-> d.ret, st |-> Uncounted(d.st)]
  <2> USE <1>UncountedTryop
  <2> DEFINE u == Uncounted(st)
             i == id_index(semid)
             set == st.sets[i]
             used == {ops[n].sem_num : n \in 1..Len(ops)}
             values == Working(set.values, ops, Len(ops))
             last_pids == [s \in Sems(set.nsems) |-> IF s \in used THEN pid ELSE set.last_pids[s]]
             delta == UndoDeltas(set.values, ops, Len(ops))
             undo == MergeUndo(st, semid, pid, delta)
  <2>1. /\ find_set(u, semid) <=> find_set(st, semid)
        /\ find_set(st, semid) => /\ i \in Slots /\ SetOK(set)
                                  /\ u.sets[i] = Bare(set)
    BY UncountedLookup DEF SetOf
  <2>2. find_set(st, semid) => /\ u.sets[i].nsems = set.nsems
                               /\ u.sets[i].values = set.values
                               /\ u.sets[i].last_pids = set.last_pids
    BY <2>1, BareFields
  <2>3. u.undo = st.undo  BY UncountedFields, Zenon
  <2>4. /\ UndoVerdict(u, semid, pid, delta) = UndoVerdict(st, semid, pid, delta)
        /\ MergeUndo(u, semid, pid, delta) = undo
    <3> HIDE DEF u, delta
    <3> QED  BY <2>3, UndoAlone
  <2>5. tryop_result(u, semid, ops, pid) = tryop_result(st, semid, ops, pid)
    BY <2>1, <2>2, <2>4, Zenon DEF tryop_result, SetOf
  <2>6. CASE tryop_result(st, semid, ops, pid) # OK
    BY <2>5, <2>6 DEF tryop, Fail
  <2>7. CASE tryop_result(st, semid, ops, pid) = OK
    <3>1. find_set(st, semid) /\ ops # <<>> /\ Stopped(set.values, ops) = {}
      BY <2>7, TryopChecks DEF SetOf
    <3>2. tryop(st, semid, ops, pid) = [ret |-> OK, st |-> Put(st, i, values, last_pids, undo)]
      BY <2>7 DEF tryop, SetOf, Updated, Put
    <3>3. tryop(u, semid, ops, pid) = [ret |-> OK, st |-> Put(u, i, values, last_pids, undo)]
      <4>1. tryop(u, semid, ops, pid)
              = [ret |-> OK,
                 st |-> Put(u, i, Working(u.sets[i].values, ops, Len(ops)),
                            [s \in Sems(u.sets[i].nsems) |->
                                IF s \in used THEN pid ELSE u.sets[i].last_pids[s]],
                            MergeUndo(u, semid, pid, UndoDeltas(u.sets[i].values, ops, Len(ops))))]
        BY <2>5, <2>7 DEF tryop, SetOf, Updated, Put
      <4> QED  BY <2>2, <2>4, <3>1, <4>1, Zenon
    <3>4. PICK n \in 0..MaxPerSet : set \in SetType(n)  BY <2>1, <3>1 DEF SetOK
    <3>5. set.nsems = n /\ set.values \in [Sems(n) -> 0..MaxValue] /\ n \in Nat
      <4>1. n \in Nat  OBVIOUS
      <4> QED  BY <3>4, <4>1, Zenon DEF SetType
    <3>6. values \in [Sems(set.nsems) -> 0..MaxValue]  BY <3>1, <3>5, WorkingType, Zenon
    <3>7. last_pids \in [Sems(set.nsems) -> {0} \cup Pids]  BY <3>4, <3>5 DEF SetType
    <3>8. i \in Slots  BY <2>1, <3>1
    <3> HIDE DEF i, values, last_pids, undo, u
    <3>9. Uncounted(Put(st, i, values, last_pids, undo))
            = Put(Uncounted(st), i, values, last_pids, undo)
      BY <3>6, <3>7, <3>8, <1>UncountedPut
    <3> QED  BY <2>5, <3>2, <3>3, <3>9 DEF u
  <2> QED  BY <2>5, <2>6, <2>7
<1>UncountedSetMetadata.
      ASSUME NEW semid \in Int, NEW uid, NEW gid \in Nat, NEW mode, NEW actor
      PROVE  LET d == set_metadata(st, semid, uid, gid, mode, actor)
             IN  set_metadata(Uncounted(st), semid, uid, gid, mode, actor)
                   = [ret |-> d.ret, st |-> Uncounted(d.st)]
  <2> USE <1>UncountedSetMetadata
  <2>BareOwned.
        ASSUME NEW set, SetOK(set), mode \in Permissions
        PROVE  Bare(Owned(set, gid, mode)) = Owned(Bare(set), gid, mode)
    <3> USE <2>BareOwned
    <3>1. PICK n \in 0..MaxPerSet : set \in SetType(n)  BY DEF SetOK
    <3>2. PICK new : new = Owned(set, gid, mode)  OBVIOUS
    <3>3. new \in SetType(n)  BY <3>1, <3>2, Zenon DEF Owned, SetType
    <3>4. SetOK(new)  BY <3>1, <3>2, <3>3 DEF SetOK, Owned, SetType
    <3>5. PICK b : b = Bare(set)  OBVIOUS
    <3>6. PICK z : z = Zeros(n)  OBVIOUS
    <3>7. b = [active |-> set.active, generation |-> set.generation, key |-> set.key,
               nsems |-> set.nsems, uid |-> set.uid, gid |-> set.gid,
               cuid |-> set.cuid, cgid |-> set.cgid, mode |-> set.mode,
               values |-> set.values, last_pids |-> set.last_pids,
               negative_waiters |-> z, zero_waiters |-> z]
      BY <3>1, <3>5, <3>6, BareRecord DEF SetType
    <3>8. Bare(new)
            = [active |-> new.active, generation |-> new.generation, key |-> new.key,
               nsems |-> new.nsems, uid |-> new.uid, gid |-> new.gid,
               cuid |-> new.cuid, cgid |-> new.cgid, mode |-> new.mode,
               values |-> new.values, last_pids |-> new.last_pids,
               negative_waiters |-> z, zero_waiters |-> z]
      <4>1. new.nsems = n  BY <3>3 DEF SetType
      <4> QED  BY <3>4, <3>6, <4>1, BareRecord
    <3>9. PICK bare : bare = Owned(b, gid, mode)  OBVIOUS
    <3>10. b \in SetType(n)
      <4>1. PICK m : b \in SetType(m)  BY <3>5, BareType
      <4>2. m = n  BY <3>1, <3>7, <4>1 DEF SetType
      <4> QED  BY <4>1, <4>2
    <3>11. bare \in SetType(n)  BY <3>9, <3>10, Zenon DEF Owned, SetType
    <3>12. /\ bare.active = new.active /\ bare.generation = new.generation
           /\ bare.key = new.key /\ bare.nsems = new.nsems /\ bare.uid = new.uid
           /\ bare.gid = new.gid /\ bare.cuid = new.cuid /\ bare.cgid = new.cgid
           /\ bare.mode = new.mode /\ bare.values = new.values
           /\ bare.last_pids = new.last_pids
           /\ bare.negative_waiters = z /\ bare.zero_waiters = z
      <4>1. /\ b.active = set.active /\ b.generation = set.generation
            /\ b.key = set.key /\ b.nsems = set.nsems /\ b.uid = set.uid
            /\ b.cuid = set.cuid /\ b.cgid = set.cgid /\ b.values = set.values
            /\ b.last_pids = set.last_pids /\ b.negative_waiters = z /\ b.zero_waiters = z
        BY <3>7
      <4> QED  BY <3>1, <3>2, <3>9, <3>10, <4>1 DEF Owned, SetType
    <3> QED  BY <3>2, <3>5, <3>8, <3>9, <3>11, <3>12 DEF SetType
  <2> DEFINE u == Uncounted(st)
             i == id_index(semid)
             set == st.sets[i]
             refused == \/ actor.uid \notin {set.uid, set.cuid}
                        \/ uid # set.uid
                        \/ gid \notin {set.gid, actor.gid}
                        \/ mode \notin Permissions
  <2>1. /\ find_set(u, semid) <=> find_set(st, semid)
        /\ find_set(st, semid) => /\ i \in Slots /\ SetOK(set)
                                  /\ u.sets[i] = Bare(set)
    BY UncountedLookup DEF SetOf
  <2>2. find_set(st, semid) => /\ u.sets[i].uid = set.uid /\ u.sets[i].cuid = set.cuid
                               /\ u.sets[i].gid = set.gid
    BY <2>1, BareFields
  <2>3. CASE ~find_set(st, semid) \/ refused
    <3>1. PICK err : /\ set_metadata(st, semid, uid, gid, mode, actor) = Fail(st, err)
                     /\ set_metadata(u, semid, uid, gid, mode, actor) = Fail(u, err)
      BY <2>1, <2>2, <2>3 DEF set_metadata, SetOf
    <3> QED  BY <3>1 DEF Fail
  <2>4. CASE find_set(st, semid) /\ ~refused
    <3>1. i \in Slots /\ mode \in Permissions /\ SetOK(set)  BY <2>1, <2>4
    <3>2. set_metadata(st, semid, uid, gid, mode, actor)
            = [ret |-> OK, st |-> [st EXCEPT !.sets[i] = Owned(set, gid, mode)]]
      BY <2>4 DEF set_metadata, SetOf, Owned
    <3>3. set_metadata(u, semid, uid, gid, mode, actor)
            = [ret |-> OK, st |-> [u EXCEPT !.sets[i] = Owned(u.sets[i], gid, mode)]]
      BY <2>1, <2>2, <2>4 DEF set_metadata, SetOf, Owned
    <3>4. Bare(Owned(set, gid, mode)) = Owned(u.sets[i], gid, mode)
      BY <2>1, <2>4, <3>1, <2>BareOwned
    <3>5. PICK new, old : new = Owned(set, gid, mode) /\ old = u.sets[i]  OBVIOUS
    <3> HIDE DEF i, u, set
    <3>6. Uncounted([st EXCEPT !.sets[i] = new]) = [Uncounted(st) EXCEPT !.sets[i] = Bare(new)]
      BY <3>1, UncountedWriteOnly
    <3> QED  BY <3>2, <3>3, <3>4, <3>5, <3>6 DEF u
  <2> QED  BY <2>3, <2>4
<1>UncountedGet.
      ASSUME NEW key \in Int, NEW nsems \in Int,
             NEW flags \in [creat : BOOLEAN, excl : BOOLEAN, mode : Permissions],
             NEW identity \in [uid : Nat, gid : Nat], NEW allocated \in BOOLEAN
      PROVE  LET d == get_as(st, key, nsems, flags, identity, allocated)
             IN  get_as(Uncounted(st), key, nsems, flags, identity, allocated)
                   = [ret |-> d.ret, st |-> Uncounted(d.st)]
  <2> USE <1>UncountedGet
  <2> DEFINE u == Uncounted(st)
             known == key # IPC_PRIVATE /\ sets_with_key(st, key) # {}
             found == Min(sets_with_key(st, key))
             i == free_set(st)
             refused == \/ key # IPC_PRIVATE /\ ~flags.creat
                        \/ nsems \notin 1..MaxPerSet
                        \/ inactive_sets(st) = {}
                        \/ ~allocated
  <2>1. /\ inactive_sets(u) = inactive_sets(st) /\ free_set(u) = i
        /\ sets_with_key(u, key) = sets_with_key(st, key)
    BY UncountedSearch
  <2>2. CASE known
    <3>1. found \in Slots  BY <2>2, MinSlot DEF sets_with_key
    <3>2. u.sets[found].nsems = st.sets[found].nsems /\ u.sets[found].generation = st.sets[found].generation
      BY <3>1, UncountedSlots
    <3> DEFINE ret == IF flags.creat /\ flags.excl THEN EEXIST
                      ELSE IF nsems < 0 \/ nsems > st.sets[found].nsems
                      THEN EINVAL
                      ELSE make_id(found, st.sets[found].generation)
    <3>3. get_as(st, key, nsems, flags, identity, allocated) = Fail(st, ret)
      BY <2>2 DEF get_as
    <3>4. get_as(u, key, nsems, flags, identity, allocated) = Fail(u, ret)
      BY <2>1, <2>2, <3>2 DEF get_as
    <3> QED  BY <3>3, <3>4 DEF Fail
  <2>3. CASE ~known /\ refused
    <3>1. PICK err : /\ get_as(st, key, nsems, flags, identity, allocated) = Fail(st, err)
                     /\ get_as(u, key, nsems, flags, identity, allocated) = Fail(u, err)
      BY <2>1, <2>3 DEF get_as
    <3> QED  BY <3>1 DEF Fail
  <2>4. CASE ~known /\ ~refused
    <3> DEFINE g == fresh_generation(st, i)
               new == new_set(g, key, nsems, flags, identity)
    <3>1. i \in Slots  BY <2>4, MinSlot DEF free_set, inactive_sets
    <3>2. fresh_generation(u, i) = g  BY <3>1, UncountedSlots DEF fresh_generation
    <3>3. get_as(st, key, nsems, flags, identity, allocated)
            = [ret |-> make_id(i, g), st |-> [st EXCEPT !.sets[i] = new]]
      BY <2>4 DEF get_as
    <3>4. get_as(u, key, nsems, flags, identity, allocated)
            = [ret |-> make_id(i, g), st |-> [u EXCEPT !.sets[i] = new]]
      BY <2>1, <2>4, <3>2 DEF get_as
    <3>5. Bare(new) = new
      <4>1. SetOK(st.sets[i])  BY <3>1 DEF StoreTypeOK
      <4>2. st.sets[i].generation \in 0..MaxGeneration  BY <4>1 DEF SetOK, SetType
      <4>3. g \in 1..MaxGeneration
        BY <4>2, StoreAssumption DEF fresh_generation, StoreAssumption
      <4>4. PICK h : h = g  OBVIOUS
      <4>5. SetOK(new_set(h, key, nsems, flags, identity))  BY <2>4, <4>3, <4>4, NewSetOK
      <4>6. PICK s : s = new_set(h, key, nsems, flags, identity)  OBVIOUS
      <4>7. Bare(s) = s  BY <4>5, <4>6, BareRecord DEF new_set, Zeros
      <4> QED  BY <4>4, <4>6, <4>7
    <3> HIDE DEF i, g, new, u
    <3>6. Uncounted([st EXCEPT !.sets[i] = new]) = [Uncounted(st) EXCEPT !.sets[i] = Bare(new)]
      BY <3>1, UncountedWriteOnly, Zenon
    <3> QED  BY <3>3, <3>4, <3>5, <3>6 DEF u
  <2> QED  BY <2>2, <2>3, <2>4
<1> DEFINE u == Uncounted(st)
<1> USE RequestFields, DispatchByOpcode
<1>1. Peer \in [uid : Nat, gid : Nat]  BY DEF Peer
<1>2. CASE r.opcode = "SEMGET"
  <2>1. PICK key, nsems, flags, allocated, peer :
             /\ key = r.key /\ nsems = r.nsems /\ flags = r.flags /\ allocated = r.allocated
             /\ peer = Peer
    OBVIOUS
  <2>2. allocated \in BOOLEAN  BY <1>2, <2>1, Zenon DEF Request, Semnums
  <2>3. /\ key \in Int /\ nsems \in Int /\ peer \in [uid : Nat, gid : Nat]
        /\ flags \in [creat : BOOLEAN, excl : BOOLEAN, mode : Permissions]
    BY <1>1, <1>2, <2>1, Zenon
  <2>4. get_as(u, key, nsems, flags, peer, allocated)
          = [ret |-> get_as(st, key, nsems, flags, peer, allocated).ret,
             st |-> Uncounted(get_as(st, key, nsems, flags, peer, allocated).st)]
    BY <2>2, <2>3, <1>UncountedGet
  <2> QED  BY <1>2, <2>1, <2>4
<1>3. CASE r.opcode = "REMOVE"  BY <1>3, <1>UncountedRemove
<1>4. CASE r.opcode = "SETVAL"
  <2>1. r.semid \in Int /\ r.semnum \in Nat /\ r.value \in Nat  BY <1>4
  <2> QED  BY <1>4, <2>1, <1>UncountedSetval
<1>5. CASE r.opcode = "SETALL"
  <2>1. PICK n \in 1..MaxPerSet : r.values \in [Sems(n) -> Nat]  BY <1>5
  <2>2. n \in Int /\ r.semid \in Int  BY <1>5
  <2> QED  BY <1>5, <2>1, <2>2, <1>UncountedSetall
<1>6. CASE r.opcode = "SEMOP"
  <2>1. Len(r.ops) \in Nat /\ (r.ops # <<>> => Len(r.ops) # 0)
    <3>1. r.ops \in Seq(OpType)  BY <1>6
    <3> QED  BY <3>1
  <2> QED  BY <1>6, <2>1, <1>UncountedTryop
<1>7. CASE r.opcode = "SETMETA"
  <2>1. r.semid \in Int /\ r.gid \in Nat  BY <1>7, Zenon
  <2> QED  BY <1>7, <2>1, <1>UncountedSetMetadata
<1>8. CASE r.opcode \in {"PING", "GETVAL", "GETPID"} \cup Reads
  <2>1. CASE r.opcode = "PING"  BY <2>1, QuietOpcodes DEF Fail
  <2>2. CASE r.opcode \in {"GETVAL", "GETPID"}
    BY <2>2, QuietOpcodes, SameAnswers DEF Fail, Semnums
  <2>3. CASE r.opcode \in Reads
    BY <2>3, QuietOpcodes, SameAnswers DEF Fail
  <2> QED  BY <1>8, <2>1, <2>2, <2>3
<1> QED  BY <1>2, <1>3, <1>4, <1>5, <1>6, <1>7, <1>8 DEF Opcodes, Semnums, Counting

LEMMA UncountedPayload ==
    ASSUME NEW st, StoreTypeOK(st), NEW r
    PROVE  response_payload(Uncounted(st), r) = response_payload(st, r)
BY SameAnswers DEF response_payload

-----------------------------------------------------------------------------
(* What the operations do to the waiter counts.                              *)

Count(st, semid, s, zero) ==
    IF has_sem(st, semid, s) THEN SetOf(st, semid)[WaitersField(zero)][s] ELSE 0

\* A slot after an operation: counts as before, no set, or a set nobody waits for.
KeptCount(old, new) ==
    \/ /\ new.active = old.active /\ new.generation = old.generation
       /\ new.nsems = old.nsems /\ new.negative_waiters = old.negative_waiters
       /\ new.zero_waiters = old.zero_waiters
    \/ ~new.active
    \/ new.negative_waiters = Zeros(new.nsems) /\ new.zero_waiters = Zeros(new.nsems)

KeptCounts(st, new) == \A i \in Slots : KeptCount(st.sets[i], new.sets[i])

LEMMA KeptCountsRefl == \A st : KeptCounts(st, st)
BY DEF KeptCounts, KeptCount

LEMMA CountType ==
    ASSUME NEW st, StoreTypeOK(st), NEW semid, NEW s, NEW zero \in BOOLEAN
    PROVE  Count(st, semid, s, zero) \in 0..MaxWaiters
<1>1. 0 \in 0..MaxWaiters  BY StoreAssumption DEF StoreAssumption
<1>2. CASE has_sem(st, semid, s)
  <2>1. SetOK(SetOf(st, semid)) /\ s \in Sems(SetOf(st, semid).nsems)
    BY <1>2, UncountedLookup DEF has_sem
  <2>2. PICK set : set = SetOf(st, semid)  OBVIOUS
  <2>3. PICK n : set \in SetType(n)  BY <2>1, <2>2 DEF SetOK
  <2>4. s \in Sems(n)  BY <2>1, <2>2, <2>3 DEF SetType
  <2>5. set.negative_waiters[s] \in 0..MaxWaiters /\ set.zero_waiters[s] \in 0..MaxWaiters
    BY <2>3, <2>4 DEF SetType
  <2> QED  BY <1>2, <2>2, <2>5, Zenon DEF Count, WaitersField
<1> QED  BY <1>1, <1>2 DEF Count

LEMMA KeptCountsBound ==
    ASSUME NEW st, StoreTypeOK(st), NEW new, StoreTypeOK(new), KeptCounts(st, new),
           NEW semid, NEW s, NEW zero \in BOOLEAN
    PROVE  Count(new, semid, s, zero) <= Count(st, semid, s, zero)
<1>1. Count(st, semid, s, zero) \in Nat  BY CountType
<1>2. CASE ~has_sem(new, semid, s)  BY <1>1, <1>2 DEF Count
<1>3. CASE has_sem(new, semid, s)
  <2> DEFINE i == id_index(semid)
  <2>1. i \in Slots /\ new.sets[i].active /\ s \in Sems(new.sets[i].nsems)
        /\ new.sets[i].generation = id_generation(semid) /\ decodes(semid)
    BY <1>3 DEF has_sem, find_set, decodes, SetOf
  <2>2. KeptCount(st.sets[i], new.sets[i])  BY <2>1 DEF KeptCounts
  <2>3. CASE /\ new.sets[i].active = st.sets[i].active
             /\ new.sets[i].generation = st.sets[i].generation
             /\ new.sets[i].nsems = st.sets[i].nsems
             /\ new.sets[i].negative_waiters = st.sets[i].negative_waiters
             /\ new.sets[i].zero_waiters = st.sets[i].zero_waiters
    <3>1. has_sem(st, semid, s)  BY <2>1, <2>3 DEF has_sem, find_set, SetOf
    <3>2. Count(new, semid, s, zero) = Count(st, semid, s, zero)
      BY <1>3, <2>3, <3>1 DEF Count, SetOf, WaitersField
    <3> QED  BY <1>1, <3>2
  <2>4. CASE /\ new.sets[i].negative_waiters = Zeros(new.sets[i].nsems)
             /\ new.sets[i].zero_waiters = Zeros(new.sets[i].nsems)
    <3>1. Count(new, semid, s, zero) = 0
      BY <1>3, <2>1, <2>4 DEF Count, SetOf, WaitersField, Zeros
    <3> QED  BY <1>1, <3>1
  <2> QED  BY <2>1, <2>2, <2>3, <2>4, Zenon DEF KeptCount
<1> QED  BY <1>2, <1>3

LEMMA DispatchCounts ==
    ASSUME LeastFirst, NEW st, StoreTypeOK(st), NEW r \in Request, NEW pid
    PROVE  KeptCounts(st, tgc_broker_dispatch(st, r, pid).st)
<1>WriteCounts.
      ASSUME NEW i \in Slots, NEW set, NEW undo, KeptCount(st.sets[i], set)
      PROVE  /\ KeptCounts(st, [sets |-> [st.sets EXCEPT ![i] = set], undo |-> undo])
             /\ KeptCounts(st, [st EXCEPT !.sets[i] = set])
  <2> USE <1>WriteCounts
  <2>1. st.sets = [j \in Slots |-> st.sets[j]]  BY DEF StoreTypeOK
  <2>2. PICK new : new = [st.sets EXCEPT ![i] = set]  BY Zenon
  <2>3. \A j \in Slots : new[j] = IF j = i THEN set ELSE st.sets[j]  BY <2>1, <2>2
  <2>4. \A j \in Slots : KeptCount(st.sets[j], new[j])  BY <2>3 DEF KeptCount
  <2>5. [st EXCEPT !.sets[i] = set].sets = new  BY <2>2 DEF StoreTypeOK
  <2> QED  BY <2>2, <2>4, <2>5 DEF KeptCounts
<1>GetCounts.
      ASSUME NEW key, NEW nsems, NEW flags, NEW identity, NEW allocated
      PROVE  KeptCounts(st, get_as(st, key, nsems, flags, identity, allocated).st)
  <2> USE <1>GetCounts
  <2> DEFINE g == get_as(st, key, nsems, flags, identity, allocated)
             i == free_set(st)
             new == new_set(fresh_generation(st, i), key, nsems, flags, identity)
  <2>1. CASE g.st = st  BY <2>1, KeptCountsRefl
  <2>2. CASE g.st # st
    <3>1. i \in Slots /\ g.st = [st EXCEPT !.sets[i] = new]  BY <2>2, GetCreates
    <3>2. KeptCount(st.sets[i], new)  BY Zenon DEF KeptCount, new_set, Zeros
    <3> HIDE DEF i, new, g
    <3>3. KeptCounts(st, [st EXCEPT !.sets[i] = new])  BY <3>1, <3>2, <1>WriteCounts, Zenon
    <3> QED  BY <3>1, <3>3 DEF g
  <2> QED  BY <2>1, <2>2
<1>RemoveCounts.
      ASSUME NEW semid
      PROVE  KeptCounts(st, remove(st, semid).st)
  <2> USE <1>RemoveCounts
  <2>1. CASE ~find_set(st, semid)
    <3>1. remove(st, semid).st = st  BY <2>1 DEF remove, Fail
    <3> QED  BY <3>1, KeptCountsRefl
  <2>2. CASE find_set(st, semid)
    <3> DEFINE i == id_index(semid)
               new == EmptySet(next_generation(st.sets[i].generation))
               undo == clear_undo_entries(st, semid, 0, TRUE)
    <3>1. remove(st, semid).st = [sets |-> [st.sets EXCEPT ![i] = new], undo |-> undo]
      BY <2>2 DEF remove
    <3>2. i \in Slots /\ KeptCount(st.sets[i], new)
      BY <2>2, Zenon DEF KeptCount, EmptySet, find_set, decodes
    <3> HIDE DEF i, new, undo
    <3>3. KeptCounts(st, [sets |-> [st.sets EXCEPT ![i] = new], undo |-> undo])
      BY <3>2, <1>WriteCounts, Zenon
    <3> QED  BY <3>1, <3>3
  <2> QED  BY <2>1, <2>2
<1>SetMetadataCounts.
      ASSUME NEW semid, NEW uid, NEW gid, NEW mode, NEW actor
      PROVE  KeptCounts(st, set_metadata(st, semid, uid, gid, mode, actor).st)
  <2> USE <1>SetMetadataCounts
  <2> DEFINE new == set_metadata(st, semid, uid, gid, mode, actor).st
             i == id_index(semid)
             set == Owned(st.sets[i], gid, mode)
  <2>1. CASE new = st  BY <2>1, KeptCountsRefl
  <2>2. CASE new # st
    <3>1. find_set(st, semid) /\ new = [st EXCEPT !.sets[i] = set]
      BY <2>2 DEF set_metadata, Fail, SetOf, Owned
    <3>2. i \in Slots /\ SetOK(st.sets[i])  BY <3>1, UncountedLookup DEF SetOf
    <3>3. KeptCount(st.sets[i], set)  BY <3>2 DEF KeptCount, Owned, SetOK, SetType
    <3> HIDE DEF i, set, new
    <3>4. KeptCounts(st, [st EXCEPT !.sets[i] = set])  BY <3>2, <3>3, <1>WriteCounts, Zenon
    <3> QED  BY <3>1, <3>4 DEF new
  <2> QED  BY <2>1, <2>2
\* New values and processes.
<1>PutCounts.
      ASSUME NEW i \in Slots, NEW v, NEW l, NEW undo
      PROVE  KeptCounts(st, Put(st, i, v, l, undo))
  <2> USE <1>PutCounts
  <2>1. SetOK(st.sets[i])  BY DEF StoreTypeOK
  <2>2. PICK set : set = Updated(st.sets[i], v, l)  OBVIOUS
  <2>3. KeptCount(st.sets[i], set)  BY <2>1, <2>2 DEF KeptCount, Updated, SetOK, SetType
  <2>4. KeptCounts(st, [sets |-> [st.sets EXCEPT ![i] = set], undo |-> undo])
    BY <2>3, <1>WriteCounts, Zenon
  <2> QED  BY <2>2, <2>4, Zenon DEF Put
<1>SetvalCounts.
      ASSUME NEW semid, NEW semnum, NEW value
      PROVE  KeptCounts(st, setval(st, semid, semnum, value, pid).st)
  <2> USE <1>SetvalCounts
  <2> DEFINE new == setval(st, semid, semnum, value, pid).st
             i == id_index(semid)
             set == st.sets[i]
             v == [set.values EXCEPT ![semnum] = value]
             l == [set.last_pids EXCEPT ![semnum] = pid]
             undo == clear_undo_entries(st, semid, semnum, FALSE)
  <2>1. CASE new = st  BY <2>1, KeptCountsRefl
  <2>2. CASE new # st
    <3>1. /\ find_set(st, semid)
          /\ new = [sets |-> [st.sets EXCEPT ![i] =
                       [set EXCEPT !.values[semnum] = value, !.last_pids[semnum] = pid]],
                    undo |-> undo]
      BY <2>2, Zenon DEF setval, Fail, has_sem
    <3>2. i \in Slots /\ SetOK(set)  BY <3>1, UncountedLookup DEF SetOf
    <3>3. [set EXCEPT !.values[semnum] = value, !.last_pids[semnum] = pid] = Updated(set, v, l)
      BY <3>2 DEF Updated, SetOK, SetType
    <3> HIDE DEF i, v, l, undo, new
    <3>4. KeptCounts(st, Put(st, i, v, l, undo))  BY <3>2, <1>PutCounts
    <3> QED  BY <3>1, <3>3, <3>4 DEF Put, new
  <2> QED  BY <2>1, <2>2
<1>SetallCounts.
      ASSUME NEW semid, NEW values
      PROVE  KeptCounts(st, setall(st, semid, values, pid).st)
  <2> USE <1>SetallCounts
  <2> DEFINE new == setall(st, semid, values, pid).st
             i == id_index(semid)
             l == [s \in DOMAIN values |-> pid]
             undo == clear_undo_entries(st, semid, 0, TRUE)
  <2>1. CASE new = st  BY <2>1, KeptCountsRefl
  <2>2. CASE new # st
    <3>1. find_set(st, semid) /\ new = Put(st, i, values, l, undo)
      BY <2>2, Zenon DEF setall, Fail, Put, Updated
    <3>2. i \in Slots  BY <3>1, UncountedLookup
    <3> HIDE DEF i, l, undo, new
    <3>3. KeptCounts(st, Put(st, i, values, l, undo))  BY <3>2, <1>PutCounts
    <3> QED  BY <3>1, <3>3 DEF new
  <2> QED  BY <2>1, <2>2
<1>TryopCounts.
      ASSUME NEW semid, NEW ops
      PROVE  KeptCounts(st, tryop(st, semid, ops, pid).st)
  <2> USE <1>TryopCounts
  <2> DEFINE new == tryop(st, semid, ops, pid).st
             i == id_index(semid)
             set == st.sets[i]
             used == {ops[n].sem_num : n \in 1..Len(ops)}
             v == Working(set.values, ops, Len(ops))
             l == [s \in Sems(set.nsems) |-> IF s \in used THEN pid ELSE set.last_pids[s]]
             undo == MergeUndo(st, semid, pid, UndoDeltas(set.values, ops, Len(ops)))
  <2>1. CASE tryop_result(st, semid, ops, pid) # OK
    <3>1. new = st  BY <2>1 DEF tryop, Fail
    <3> QED  BY <3>1, KeptCountsRefl
  <2>2. CASE tryop_result(st, semid, ops, pid) = OK
    <3>1. new = Put(st, i, v, l, undo)  BY <2>2 DEF tryop, SetOf, Put, Updated
    <3>2. i \in Slots  BY <2>2, TryopChecks, UncountedLookup
    <3> HIDE DEF i, v, l, undo, new
    <3>3. KeptCounts(st, Put(st, i, v, l, undo))  BY <3>2, <1>PutCounts
    <3> QED  BY <3>1, <3>3 DEF new
  <2> QED  BY <2>1, <2>2
<1> DEFINE d == tgc_broker_dispatch(st, r, pid)
<1>1. CASE r.opcode = "SEMGET"
  <2>1. d = get_as(st, r.key, r.nsems, r.flags, Peer, r.allocated)
    BY <1>1, DispatchByOpcode, Zenon
  <2> QED  BY <2>1, <1>GetCounts, Zenon
<1>2. CASE r.opcode = "REMOVE"
  <2>1. d = remove(st, r.semid)
    BY <1>2, DispatchByOpcode, Zenon
  <2> QED  BY <2>1, <1>RemoveCounts, Zenon
<1>3. CASE r.opcode = "SETVAL"
  <2>1. d = setval(st, r.semid, r.semnum, r.value, pid)
    BY <1>3, DispatchByOpcode, Zenon
  <2> QED  BY <2>1, <1>SetvalCounts, Zenon
<1>4. CASE r.opcode = "SETALL"
  <2>1. d = setall(st, r.semid, r.values, pid)
    BY <1>4, DispatchByOpcode, Zenon
  <2> QED  BY <2>1, <1>SetallCounts, Zenon
<1>5. CASE r.opcode = "SEMOP"
  <2>1. d = tryop(st, r.semid, r.ops, pid)
    BY <1>5, DispatchByOpcode, Zenon
  <2> QED  BY <2>1, <1>TryopCounts, Zenon
<1>6. CASE r.opcode = "SETMETA"
  <2>1. d = set_metadata(st, r.semid, r.uid, r.gid, r.mode, Peer)
    BY <1>6, DispatchByOpcode, Zenon
  <2> QED  BY <2>1, <1>SetMetadataCounts, Zenon
<1>7. CASE r.opcode \in {"PING"} \cup Semnums \cup Reads
  <2>1. d.st = st  BY <1>7, DispatchByOpcode, Zenon
  <2> QED  BY <2>1, KeptCountsRefl, Zenon
<1>8. r.opcode \in Opcodes  BY RequestFields, Zenon
<1> QED  BY <1>1, <1>2, <1>3, <1>4, <1>5, <1>6, <1>7, <1>8, Zenon DEF Opcodes

LEMMA ExitCounts ==
    ASSUME NEW st, StoreTypeOK(st), NEW pid
    PROVE  KeptCounts(st, process_exit(st, pid).st)
<1>1. ASSUME NEW i \in Slots PROVE KeptCount(st.sets[i], RestoredSet(st, pid, i))
  <2>1. SetOK(st.sets[i])  BY DEF StoreTypeOK
  <2>2. PICK v, l : RestoredSet(st, pid, i) \in {st.sets[i], Updated(st.sets[i], v, l)}
    BY Zenon DEF RestoredSet, Updated
  <2> QED  BY <2>1, <2>2, Zenon DEF KeptCount, Updated, SetOK, SetType
<1>2. process_exit(st, pid).st.sets = [i \in Slots |-> RestoredSet(st, pid, i)]
  BY DEF process_exit
<1> QED  BY <1>1, <1>2 DEF KeptCounts

\* One more or one fewer waiter for one semaphore.
LEMMA AdjustCount ==
    ASSUME NEW st, StoreTypeOK(st), NEW semid \in Int, NEW semnum \in Nat,
           NEW zero \in BOOLEAN, NEW adjustment \in {1, -1},
           NEW id \in Int, NEW s \in Nat, NEW z \in BOOLEAN
    PROVE  LET new == adjust_wait_count(st, semid, semnum, zero, adjustment).st
               same == id = semid /\ s = semnum /\ z = zero
               before == Count(st, id, s, z)
               after == Count(new, id, s, z)
           IN  /\ ~same => after = before
               /\ same => \/ after = before + adjustment
                          \/ after = before /\ (adjustment = -1 => before = 0)
<1> DEFINE new == adjust_wait_count(st, semid, semnum, zero, adjustment).st
           i == id_index(semid)
           set == st.sets[i]
           field == WaitersField(zero)
           count == set[field][semnum] + adjustment
           written == [set EXCEPT ![field][semnum] = count]
<1>1. Count(st, id, s, z) \in 0..MaxWaiters  BY CountType
<1>2. CASE new = st /\ ~has_sem(st, semid, semnum)
  <2>1. Count(new, id, s, z) = Count(st, id, s, z)  BY <1>2
  <2>2. id = semid /\ s = semnum => Count(st, id, s, z) = 0  BY <1>2 DEF Count
  <2> QED  BY <2>1, <2>2
<1>3. CASE new = st /\ has_sem(st, semid, semnum) /\ count \notin 0..MaxWaiters
  <2>1. Count(new, id, s, z) = Count(st, id, s, z)  BY <1>3
  <2>2. id = semid /\ s = semnum /\ z = zero => Count(st, id, s, z) = set[field][semnum]
    BY <1>3 DEF Count, SetOf
  <2>3. id = semid /\ s = semnum /\ z = zero /\ adjustment = -1 => Count(st, id, s, z) = 0
    BY <1>1, <1>3, <2>2, StoreAssumption DEF StoreAssumption
  <2> QED  BY <2>1, <2>3
<1>4. CASE new = [st EXCEPT !.sets[i] = written] /\ has_sem(st, semid, semnum)
  <2>1. i \in Slots /\ SetOK(set) /\ semnum \in Sems(set.nsems)
    BY <1>4, UncountedLookup DEF SetOf, has_sem
  <2>2. PICK n : set \in SetType(n)  BY <2>1 DEF SetOK
  <2>3. set.nsems = n  BY <2>2 DEF SetType
  <2>4. /\ written.active = set.active /\ written.generation = set.generation
        /\ written.nsems = set.nsems
        /\ zero => /\ written.zero_waiters = [set.zero_waiters EXCEPT ![semnum] = count]
                   /\ written.negative_waiters = set.negative_waiters
        /\ ~zero => /\ written.negative_waiters = [set.negative_waiters EXCEPT ![semnum] = count]
                    /\ written.zero_waiters = set.zero_waiters
    <3>1. CASE zero
      <4>1. written = [set EXCEPT !.zero_waiters[semnum] = count]  BY <3>1 DEF WaitersField
      <4> HIDE DEF count, set, written
      <4> QED  BY <2>2, <3>1, <4>1 DEF SetType
    <3>2. CASE ~zero
      <4>1. written = [set EXCEPT !.negative_waiters[semnum] = count]  BY <3>2 DEF WaitersField
      <4> HIDE DEF count, set, written
      <4> QED  BY <2>2, <3>2, <4>1 DEF SetType
    <3> QED  BY <3>1, <3>2, Zenon
  <2>5. /\ new.sets[i] = written
        /\ \A j \in Slots : j # i => new.sets[j] = st.sets[j]
    <3> HIDE DEF written, i
    <3> QED  BY <1>4, <2>1 DEF StoreTypeOK
  <2> HIDE DEF new, written, count, field
  <2>6. has_sem(new, id, s) <=> has_sem(st, id, s)
    BY <2>4, <2>5, Zenon DEF has_sem, find_set, decodes, SetOf
  <2>7. CASE ~has_sem(st, id, s)
    <3>1. ~(id = semid /\ s = semnum)  BY <1>4, <2>7
    <3> QED  BY <2>6, <2>7, <3>1, Zenon DEF Count, new
  <2>8. CASE has_sem(st, id, s) /\ id_index(id) # i
    <3>1. id_index(id) \in Slots  BY <2>8, UncountedLookup DEF has_sem
    <3>2. Count(new, id, s, z) = Count(st, id, s, z)
      BY <2>5, <2>6, <2>8, <3>1 DEF Count, SetOf
    <3> QED  BY <2>8, <3>2 DEF new
  <2>9. CASE has_sem(st, id, s) /\ id_index(id) = i
    <3>1. id = semid
      <4>1. id_generation(id) = id_generation(semid)
        BY <1>4, <2>9 DEF has_sem, find_set
      <4> QED  BY <2>9, <4>1, IdInjective
    <3>2. /\ Count(st, id, s, z) = set[WaitersField(z)][s]
          /\ Count(new, id, s, z) = written[WaitersField(z)][s]
          /\ s \in Sems(n)
      BY <2>3, <2>5, <2>6, <2>9, Zenon DEF Count, SetOf, has_sem
    <3>3. CASE s = semnum /\ z = zero
      <4>1. written[WaitersField(z)][s] = count
        BY <2>1, <2>2, <2>3, <2>4, <3>3, Zenon DEF WaitersField, SetType
      <4>2. count = set[WaitersField(z)][s] + adjustment  BY <3>3 DEF count, field
      <4>3. Count(new, id, s, z) = Count(st, id, s, z) + adjustment
        BY <3>2, <4>1, <4>2
      <4> QED  BY <3>1, <3>3, <4>3, Zenon DEF new
    <3>4. CASE ~(s = semnum /\ z = zero)
      <4>1. written[WaitersField(z)][s] = set[WaitersField(z)][s]
        BY <2>1, <2>2, <2>3, <2>4, <3>2, <3>4, Zenon DEF WaitersField, SetType
      <4> QED  BY <3>2, <3>4, <4>1 DEF new
    <3> QED  BY <3>3, <3>4
  <2> QED  BY <2>7, <2>8, <2>9, Zenon
<1>5. \/ new = st /\ ~has_sem(st, semid, semnum)
      \/ new = st /\ has_sem(st, semid, semnum) /\ count \notin 0..MaxWaiters
      \/ new = [st EXCEPT !.sets[i] = written] /\ has_sem(st, semid, semnum)
  BY DEF adjust_wait_count, Fail, SetOf
<1> QED  BY <1>2, <1>3, <1>4, <1>5

=============================================================================
